------------------------------ MODULE FileData ------------------------------
(***************************************************************************)
(* The unnamed data attribute of one regular file: ntfs_write(), the       *)
(* truncation of ntfs_vnop_setattr(), ntfs_inode_sync(), page in and page  *)
(* out, with the functions of ntfs_attr.c that change the allocated, the   *)
(* data and the initialized size.  The page cache and the cluster layer    *)
(* of the kernel are modelled as far as those calls reach into them.       *)
(*                                                                         *)
(* A step is what a thread does between two points where another thread    *)
(* or the pager can act on the file.  ni->lock is excl and shared.  The    *)
(* data are counted in units; a page and a cluster are a few units.  What  *)
(* a unit holds is Zero, Data (what callers write) or Junk (what was on    *)
(* the disk before).  The file is neither compressed nor encrypted, is not *)
(* deleted, and its volume is writable.  It may be sparse; as the creation *)
(* of holes is compiled out (ntfs_vfsops.c, ntfs_attr_sparse_set()), a     *)
(* file never becomes sparse, and one that is cannot be changed.           *)
(***************************************************************************)
EXTENDS Integers

CONSTANTS Threads,          \* the callers
          MaxSize,          \* the largest size of the attribute, in units
          PageSize,         \* units in a page
          ClusterSize,      \* units in a cluster
          ResidentMax,      \* the largest value that fits into the record
          Faults,           \* what can fail
          Requests,         \* the calls made: kind, place, length and IO_UNIT
          MaxCalls,         \* bound on their number
          StoreUnits,       \* the units that are stored into through a mapping
          Zero, Data, Junk, \* what a unit holds
          Hole,             \* a unit of the disk that has no cluster
          None              \* a page that is not in memory, nobody

(* IO_UNIT: the write is to be complete or not at all. *)
AllRequests ==
    [op : {"write"}, from : 0 .. MaxSize - 1, n : 1 .. MaxSize,
     ioflags : SUBSET {"IO_UNIT"}]
    \cup [op : {"append"}, from : 0 .. MaxSize - 1, n : 1 .. MaxSize,
           ioflags : {{}}]
    \cup [op : {"resize"}, from : {0}, n : 0 .. MaxSize, ioflags : {{}}]
    \cup [op : {"sync"}, from : {0}, n : {0}, ioflags : {{}}]

ASSUME FileDataAssumption ==
    /\ MaxSize \in Nat \ {0} /\ PageSize \in Nat \ {0}
    /\ ClusterSize \in Nat \ {0} /\ ResidentMax \in 0 .. PageSize
    /\ PageSize % ClusterSize = 0 \/ ClusterSize % PageSize = 0
    /\ MaxSize % PageSize = 0 /\ MaxSize % ClusterSize = 0
    /\ Requests \subseteq AllRequests /\ StoreUnits \subseteq 0 .. MaxSize - 1
    /\ Faults \subseteq {"alloc", "convert", "read", "zero", "free", "write",
                         "copy", "record", "shrink"}
    /\ None \notin Threads /\ Hole \notin {Zero, Data, Junk, None}

VARIABLES ni,       \* the sizes and flags of the inode
          rec,      \* the attribute record in memory
          drec,     \* the attribute record on the disk
          disk,     \* what the clusters of the attribute hold
          ubc,      \* the size the page cache knows: ubc_getsize()
          torn,     \* a resize failed half way, and none was done since
          cache,    \* the pages in memory, unit by unit
          dirty,    \* the pages to be written
          behind,   \* those of them the cluster layer will write
          excl,     \* the thread that holds ni->lock exclusively
          shared,   \* the threads that hold it shared
          pc, io,   \* each thread's place, and its call and locals
          touched,  \* units changed while a thread syncs
          calls     \* the calls made

locks == <<excl, shared>>
data == <<ni, rec, drec, disk, ubc, torn, cache, dirty, behind>>
vars == <<ni, rec, drec, disk, ubc, torn, cache, dirty, behind, excl, shared,
          pc, io, touched, calls>>

Units == 0 .. MaxSize - 1
Pages == 0 .. (MaxSize \div PageSize) - 1
PageOf(u) == u \div PageSize
Least(a, b) == IF a < b THEN a ELSE b
Most(a, b) == IF a < b THEN b ELSE a
RoundUp(n) == ((n + ClusterSize - 1) \div ClusterSize) * ClusterSize
Valid(p) == cache[p * PageSize] # None

NInoNonResident == "NonResident" \in ni.flags
NInoSparse == "Sparse" \in ni.flags

NoCall == [op |-> "none", ofs |-> 0, from |-> 0, end |-> 0, ioflags |-> {},
           old |-> 0, pos |-> 0, init |-> 0, err |-> "none"]

Called(r) == [op |-> r.op, ofs |-> r.from, from |-> r.from,
              end |-> r.from + r.n, ioflags |-> r.ioflags,
              old |-> 0, pos |-> 0, init |-> 0, err |-> "none"]

(***************************************************************************)
(* What the file reads as, and what would be read after a crash.           *)
(***************************************************************************)

(* A hole is read as zeros. *)
FromDisk(u) == IF disk[u] = Hole THEN Zero ELSE disk[u]

(* What paging in gives for unit u: nothing beyond the initialized size is *)
(* read.                                                                   *)
Stored(u) ==
    IF u >= ni.init \/ u >= ubc THEN Zero
    ELSE IF NInoNonResident THEN FromDisk(u) ELSE rec.val[u]

View(u) == IF Valid(PageOf(u)) THEN cache[u] ELSE Stored(u)

Content == [u \in 0 .. Least(ubc, ni.data) - 1 |-> View(u)]

(* Units of memory that the initialized size in the record does not cover. *)
Loose == {u \in DOMAIN Content : u >= rec.init /\ View(u) # Zero}

Durable(u) ==
    IF u >= drec.init THEN Zero
    ELSE IF drec.where = "clusters" THEN FromDisk(u) ELSE drec.val[u]

Syncing(t) == io[t].op = "sync"

(* Remember what changed under a thread that syncs: what a unit reads as,  *)
(* whether it is initialized, or whether it is in the record or in a       *)
(* cluster.                                                                *)
Touch ==
    touched' = [t \in Threads |->
        IF ~Syncing(t)' THEN {}
        ELSE touched[t] \cup
             {u \in Units : \/ NInoNonResident # NInoNonResident'
                            \/ (u < ni.data) # (u < ni'.data)
                            \/ (u < ni.init) # (u < ni'.init)
                            \/ u < Least(ni.data, ni'.data) /\ View(u) # View(u)'}]

(***************************************************************************)
(* Steps and the lock.                                                     *)
(***************************************************************************)

At(t, place) == pc[t] = place

Go(t, place) == pc' = [pc EXCEPT ![t] = place]

GoWith(t, place, locals) == Go(t, place) /\ io' = [io EXCEPT ![t] = locals]

Writes(t) == io[t].op \in {"write", "append"}

Unlock(t) ==
    /\ excl' = IF excl = t THEN None ELSE excl
    /\ shared' = shared \ {t}

(* Return without the lock, having succeeded or failed. *)
Leave(t, result) == Unlock(t) /\ Go(t, result)

(***************************************************************************)
(* The page cache and the cluster layer, as src/kext uses them.            *)
(***************************************************************************)

(* ubc_setsize() to a smaller size: pages beyond it are discarded, and     *)
(* what the last page holds beyond it is zeroed.                           *)
SetSizeKeepsTail(n) ==
    /\ ubc' = n
    /\ cache' = [u \in Units |-> IF PageOf(u) * PageSize >= n THEN None
                                ELSE cache[u]]
    /\ dirty' = {p \in dirty : p * PageSize < n}
    /\ behind' = {p \in behind : p * PageSize < n}

SetSize(n) ==
    /\ ubc' = n
    /\ cache' = [u \in Units |-> IF PageOf(u) * PageSize >= n THEN None
                                ELSE IF u >= n /\ cache[u] # None THEN Zero
                                ELSE cache[u]]
    /\ dirty' = {p \in dirty : p * PageSize < n}
    /\ behind' = {p \in behind : p * PageSize < n}

(* ubc_setsize() to any size. *)
SetUbc(n) == IF n < ubc THEN SetSize(n)
             ELSE ubc' = n /\ UNCHANGED <<cache, dirty, behind>>

(* Pages written to their clusters, whole: also what lies beyond the end   *)
(* of the file, as far as there are clusters.                              *)
Pushed(pages, mem) ==
    [u \in Units |-> IF PageOf(u) \in pages /\ u < ni.alloc /\ disk[u] # Hole
                     THEN mem[u] ELSE disk[u]]

(* Page p in memory, read if it is not there yet. *)
Mapped(p) == [u \in Units |-> IF PageOf(u) = p THEN View(u) ELSE cache[u]]

(* ntfs_pagein(), for a fault on a mapping or for ntfs_read(). *)
PageIn(p) ==
    /\ excl = None
    /\ ~Valid(p) /\ p * PageSize < ubc
    /\ cache' = Mapped(p)
    /\ UNCHANGED <<ni, rec, drec, disk, ubc, torn, dirty, behind, locks, pc, io,
                   calls>>
    /\ Touch

(* The conditions of ntfs_vnop_pageout(). *)
CanPageOut(p) ==
    /\ ~NInoSparse
    /\ excl = None
    /\ p * PageSize < Least(ubc, ni.data)
    /\ (p + 1) * PageSize <= ni.init \/ ni.init = ni.data

(* What it writes: the clusters, or the value in the record. *)
PageOutStep(p) ==
    /\ IF NInoNonResident
       THEN disk' = Pushed({p}, cache) /\ UNCHANGED rec
       ELSE /\ rec' = [rec EXCEPT !.val = [u \in DOMAIN rec.val |->
                          IF u < Least(ubc, rec.data) /\ PageOf(u) = p
                          THEN cache[u] ELSE rec.val[u]]]
            /\ UNCHANGED disk
    /\ dirty' = dirty \ {p}
    /\ behind' = behind \ {p}

PageOut(p) ==
    /\ p \in dirty
    /\ CanPageOut(p)
    /\ PageOutStep(p)
    /\ UNCHANGED <<ni, drec, ubc, torn, cache, locks, pc, io, calls>>
    /\ Touch

(* The kernel needs the memory of a page that is not to be written. *)
Evict(p) ==
    /\ Valid(p) /\ p \notin dirty
    /\ cache' = [u \in Units |-> IF PageOf(u) = p THEN None ELSE cache[u]]
    /\ UNCHANGED <<ni, rec, drec, disk, ubc, torn, dirty, behind, locks, pc, io,
                   calls>>
    /\ Touch

(* A store into a mapping of the file, into its initialized part. *)
Store(u) ==
    /\ Valid(PageOf(u)) /\ u < rec.init /\ u < ubc
    /\ cache' = [cache EXCEPT ![u] = Data]
    /\ dirty' = dirty \cup {PageOf(u)}
    /\ UNCHANGED <<ni, rec, drec, disk, ubc, torn, behind, locks, pc, io, calls>>
    /\ Touch

(***************************************************************************)
(* Extending the allocation.                                               *)
(***************************************************************************)

(* ntfs_attr_extend_allocation() of a non-resident attribute that succeeds *)
(* gives it at least n units in whole clusters, which hold what they held. *)
Extended(n) ==
    /\ disk' = [u \in Units |-> IF u >= ni.alloc THEN Junk ELSE disk[u]]
    /\ ni' = [ni EXCEPT !.alloc = Most(@, RoundUp(n))]

(* ntfs_attr_make_non_resident(): the value moves into the first page,     *)
(* which is then to be written to new clusters.                            *)
MakeNonResident ==
    /\ ni' = [ni EXCEPT !.alloc = RoundUp(ni.data),
                        !.flags = @ \cup {"NonResident"}]
    /\ rec' = [rec EXCEPT !.where = "clusters"]
    /\ disk' = [u \in Units |-> Junk]
    /\ cache' = IF ni.data > 0 THEN Mapped(0) ELSE cache
    /\ dirty' = IF ni.data > 0 THEN dirty \cup {0} ELSE dirty

(***************************************************************************)
(* ntfs_write().                                                           *)
(***************************************************************************)

(* Up to the choice of the lock, with the test for sparse files. *)
Write(t) ==
    /\ At(t, "idle") /\ calls < MaxCalls
    /\ \E r \in Requests :
          /\ r.op \in {"write", "append"}
          /\ GoWith(t, IF NInoSparse THEN "failed"
                       ELSE IF r.op = "append" THEN "wexcl" ELSE "wshared", Called(r))
    /\ calls' = calls + 1
    /\ UNCHANGED <<data, locks>>
    /\ Touch

WriteShared(t) ==
    /\ At(t, "wshared") /\ excl = None
    /\ shared' = shared \cup {t}
    /\ Go(t, IF io[t].end > ni.init THEN "upgrade" ELSE "start")
    /\ UNCHANGED <<data, excl, io, calls>>
    /\ Touch

(* lck_rw_lock_shared_to_exclusive(), which gives the lock up when another *)
(* thread is upgrading as well.                                            *)
WriteUpgrade(t) ==
    /\ At(t, "upgrade")
    /\ \/ /\ shared = {t}
          /\ excl' = t /\ shared' = {}
          /\ Go(t, "start")
       \/ /\ \E s \in Threads \ {t} : pc[s] = "upgrade"
          /\ shared' = shared \ {t} /\ UNCHANGED excl
          /\ Go(t, "wexcl")
    /\ UNCHANGED <<data, io, calls>>
    /\ Touch

WriteExclusive(t) ==
    /\ At(t, "wexcl") /\ excl = None /\ shared = {}
    /\ excl' = t
    /\ Go(t, "start")
    /\ UNCHANGED <<data, shared, io, calls>>
    /\ Touch

(* With the lock: an append finds its place, and a write beyond what is    *)
(* allocated needs room.                                                   *)
WriteStart(t) ==
    /\ At(t, "start")
    /\ LET n == io[t].end - io[t].from
           from == IF io[t].op = "append" THEN ni.data ELSE io[t].from IN
       GoWith(t, IF from + n > ni.alloc THEN "walloc" ELSE "winit",
              [io[t] EXCEPT !.from = from, !.end = from + n, !.old = ni.data])
    /\ UNCHANGED <<data, locks, calls>>
    /\ Touch

(* No space: a write that need not be complete writes what is allocated. *)
WriteNoSpace(t) ==
    IF io[t].from < ni.alloc /\ "IO_UNIT" \notin io[t].ioflags
    THEN GoWith(t, "winit", [io[t] EXCEPT !.end = ni.alloc])
    ELSE Go(t, "abort") /\ UNCHANGED io

(* ntfs_attr_extend_allocation(), the attribute being resident and the     *)
(* value still fitting, or non-resident; or it fails.                      *)
WriteExtend(t) ==
    /\ At(t, "walloc")
    /\ \/ /\ ~NInoNonResident /\ io[t].end <= ResidentMax
          /\ ni' = [ni EXCEPT !.alloc = io[t].end]
          /\ rec' = [rec EXCEPT !.val = [u \in DOMAIN rec.val |->
                        IF u < ni.alloc THEN rec.val[u] ELSE Junk]]
          /\ Go(t, "winit")
          /\ UNCHANGED <<disk, io>>
       \/ /\ NInoNonResident /\ io[t].end <= MaxSize
          /\ Extended(io[t].end)
          /\ Go(t, "winit")
          /\ UNCHANGED <<rec, io>>
       \/ /\ io[t].end > MaxSize \/ "alloc" \in Faults
          /\ io[t].end > ni.alloc
          /\ WriteNoSpace(t)
          /\ UNCHANGED <<ni, rec, disk>>
    /\ UNCHANGED <<drec, ubc, torn, cache, dirty, behind, locks, calls>>
    /\ Touch

(* The same when the value no longer fits. *)
WriteConvert(t) ==
    /\ At(t, "walloc")
    /\ ~NInoNonResident /\ ResidentMax < io[t].end /\ io[t].end <= MaxSize
    /\ \/ MakeNonResident /\ UNCHANGED <<pc, io>>
       \/ /\ "convert" \in Faults
          /\ WriteNoSpace(t)
          /\ UNCHANGED <<ni, rec, disk, cache, dirty>>
    /\ UNCHANGED <<drec, ubc, torn, behind, locks, calls>>
    /\ Touch

(* The page cache learns of a data size that has become larger. *)
Learn(size) ==
    IF size > ni.data THEN SetUbc(size) /\ torn' = FALSE
    ELSE UNCHANGED <<ubc, torn, cache, dirty, behind>>

(* ntfs_attr_extend_initialized(), which a write that begins beyond the    *)
(* initialized size needs.  A resident value is zeroed; a non-resident     *)
(* attribute gets its new data size first.  Both need the record.          *)
WriteInit(t) ==
    /\ At(t, "winit")
    /\ LET from == io[t].from IN
       \/ /\ from <= ni.init
          /\ GoWith(t, "copy", [io[t] EXCEPT !.pos = from])
          /\ UNCHANGED <<ni, rec, ubc, torn, cache, dirty, behind>>
       \/ /\ from > ni.init /\ ~NInoNonResident
          /\ rec' = [rec EXCEPT !.data = from, !.init = from,
                        !.val = [u \in DOMAIN rec.val |->
                            IF rec.data <= u /\ u < from THEN Zero ELSE rec.val[u]]]
          /\ ni' = [ni EXCEPT !.data = from, !.init = from]
          /\ SetUbc(from) /\ torn' = FALSE
          /\ GoWith(t, "copy", [io[t] EXCEPT !.pos = from])
       \/ /\ from > ni.init /\ NInoNonResident
          /\ ni' = [ni EXCEPT !.data = Most(@, from)]
          /\ rec' = [rec EXCEPT !.data = Most(@, from)]
          /\ Learn(from)
          /\ GoWith(t, "zero", [io[t] EXCEPT !.init = ni.init,
                                  !.pos = PageOf(ni.init) * PageSize])
       \/ /\ from > IF NInoNonResident THEN ni.data ELSE ni.init
          /\ "zero" \in Faults
          /\ Go(t, "abort")
          /\ UNCHANGED <<ni, rec, ubc, torn, cache, dirty, behind, io>>
    /\ UNCHANGED <<drec, disk, locks, calls>>
    /\ Touch

(* Its loop: the next page is brought into memory, where it is zero beyond *)
(* the initialized size, the initialized size is moved over it, and it is  *)
(* to be written.                                                          *)
WriteZeroPage(t) ==
    /\ At(t, "zero") /\ io[t].pos < io[t].from
    /\ LET p == PageOf(io[t].pos)
           next == Least((p + 1) * PageSize, io[t].from) IN
       \/ /\ ni' = [ni EXCEPT !.init = next]
          /\ cache' = Mapped(p)
          /\ dirty' = dirty \cup {p}
          /\ io' = [io EXCEPT ![t].pos = next]
          /\ UNCHANGED pc
       \/ /\ "zero" \in Faults
          /\ ni' = [ni EXCEPT !.init = io[t].init]
          /\ Go(t, "abort")
          /\ UNCHANGED <<cache, dirty, io>>
    /\ UNCHANGED <<rec, drec, disk, ubc, torn, behind, locks, calls>>
    /\ Touch

(* Its end: the record learns the initialized size. *)
WriteZeroed(t) ==
    /\ At(t, "zero") /\ io[t].pos >= io[t].from
    /\ \/ /\ rec' = [rec EXCEPT !.init = ni.init]
          /\ GoWith(t, "copy", [io[t] EXCEPT !.pos = io[t].from])
          /\ UNCHANGED ni
       \/ /\ "zero" \in Faults
          /\ ni' = [ni EXCEPT !.init = io[t].init]
          /\ Go(t, "abort")
          /\ UNCHANGED <<rec, io>>
    /\ UNCHANGED <<drec, disk, ubc, torn, cache, dirty, behind, locks, calls>>
    /\ Touch

(* What the page of unit pos holds before the caller's units are copied:   *)
(* a page that is not in memory is read if units of the file remain before *)
(* or behind them, and is zero otherwise.                                  *)
MustRead(t) ==
    LET p == PageOf(io[t].pos) IN
    /\ ~Valid(p)
    /\ \/ io[t].pos > p * PageSize /\ p * PageSize < ubc
       \/ io[t].end < (p + 1) * PageSize /\ io[t].end < ubc

Filled(t) ==
    [u \in Units |->
       IF PageOf(u) # PageOf(io[t].pos) THEN cache[u]
       ELSE IF io[t].pos <= u /\ u < io[t].end THEN Data
       ELSE IF /\ u < io[t].end \/ io[t].end < ubc
               /\ Valid(PageOf(u)) \/ MustRead(t) THEN View(u)
       ELSE Zero]

(* cluster_write_ext(), the next page.  It is left to the cluster layer to *)
(* write, which it may do at once, with the pages left to it before.       *)
WriteCopy(t) ==
    /\ At(t, "copy") /\ NInoNonResident /\ io[t].pos < io[t].end
    /\ LET p == PageOf(io[t].pos) IN
       \/ /\ cache' = Filled(t)
          /\ io' = [io EXCEPT ![t].pos = Least((p + 1) * PageSize, io[t].end)]
          /\ \/ /\ dirty' = dirty \cup {p} /\ behind' = behind \cup {p}
                /\ UNCHANGED disk
             \/ /\ dirty' = dirty \ (behind \cup {p}) /\ behind' = {}
                /\ disk' = Pushed(behind \cup {p}, cache')
          /\ UNCHANGED pc
       \/ /\ ("read" \in Faults /\ MustRead(t)) \/ "copy" \in Faults
          /\ Go(t, "abort")
          /\ UNCHANGED <<cache, dirty, behind, disk, io>>
    /\ UNCHANGED <<ni, rec, drec, ubc, torn, locks, calls>>
    /\ Touch

(* A resident attribute is written in its one page. *)
WriteCopyResident(t) ==
    /\ At(t, "copy") /\ ~NInoNonResident /\ io[t].pos < io[t].end
    /\ \/ /\ cache' = Filled(t)
          /\ dirty' = dirty \cup {0}
          /\ io' = [io EXCEPT ![t].pos = io[t].end]
          /\ UNCHANGED pc
       \/ /\ ("read" \in Faults /\ MustRead(t)) \/ "copy" \in Faults
          /\ Go(t, "abort")
          /\ UNCHANGED <<cache, dirty, io>>
    /\ UNCHANGED <<ni, rec, drec, disk, ubc, torn, behind, locks, calls>>
    /\ Touch

(* ntfs_attr_set_initialized_size(), after the units are in memory, unless *)
(* they were initialized.  If it fails, a write that need not be complete  *)
(* and began before the initialized size ends there.  Of an append the     *)
(* offset the caller gave is looked at, and not where it began.            *)
WriteDone(t) ==
    /\ At(t, "copy") /\ io[t].pos >= io[t].end
    /\ LET end == io[t].end IN
       \/ /\ end <= ni.init
          /\ Leave(t, "ok")
          /\ UNCHANGED <<ni, rec, ubc, torn, cache, dirty, behind, io>>
       \/ /\ end > ni.init
          /\ \E fails \in ({"record"} \cap Faults) \cup {"nothing"} :
             IF fails = "nothing"
             THEN /\ ni' = [ni EXCEPT !.init = end, !.data = Most(@, end)]
                  /\ rec' = [rec EXCEPT !.init = end, !.data = Most(@, end)]
                  /\ Learn(end)
                  /\ Leave(t, "ok")
                  /\ UNCHANGED io
             ELSE /\ IF "IO_UNIT" \in io[t].ioflags \/ io[t].ofs >= ni.init
                     THEN Go(t, "abort") /\ UNCHANGED io
                     ELSE GoWith(t, "resize",
                                 [io[t] EXCEPT !.end = Most(io[t].from, ni.init)])
                  /\ UNCHANGED <<ni, rec, ubc, torn, cache, dirty, behind, locks>>
    /\ UNCHANGED <<drec, disk, calls>>
    /\ Touch

(* A failed write with the exclusive lock truncates to the old size. *)
WriteAbort(t) ==
    /\ At(t, "abort")
    /\ IF excl = t
       THEN GoWith(t, "resize", [io[t] EXCEPT !.err = "failed"])
            /\ UNCHANGED locks
       ELSE Leave(t, "failed") /\ UNCHANGED io
    /\ UNCHANGED <<data, calls>>
    /\ Touch

(***************************************************************************)
(* ntfs_attr_resize(), for ntfs_vnop_setattr() and for a failed write.     *)
(***************************************************************************)

SetAttr(t) ==
    /\ At(t, "idle") /\ calls < MaxCalls
    /\ \E r \in Requests : r.op = "resize" /\ GoWith(t, "tlock", Called(r))
    /\ calls' = calls + 1
    /\ UNCHANGED <<data, locks>>
    /\ Touch

SetAttrLock(t) ==
    /\ At(t, "tlock") /\ excl = None /\ shared = {}
    /\ IF NInoSparse
       THEN Go(t, "failed") /\ UNCHANGED <<excl, io>>
       ELSE /\ GoWith(t, "resize", [io[t] EXCEPT !.old = ni.data])
            /\ excl' = t
    /\ UNCHANGED <<data, shared, calls>>
    /\ Touch

(* The size to go to, and the result of the call that wants it. *)
Target(t) ==
    IF io[t].err = "failed" THEN io[t].old
    ELSE IF Writes(t) THEN Most(io[t].old, io[t].end) ELSE io[t].end

Result(t) == IF io[t].err = "failed" THEN "failed" ELSE "ok"

(* A write that was cut short has succeeded, even if this fails. *)
ResizeFailed(t) == IF Writes(t) THEN Result(t) ELSE "failed"

(* A smaller file first gives up its pages. *)
ResizeCache(t) ==
    /\ At(t, "resize")
    /\ IF Target(t) < ubc THEN SetSize(Target(t))
       ELSE UNCHANGED <<ubc, cache, dirty, behind>>
    /\ GoWith(t, "resize2", [io[t] EXCEPT !.pos = ubc])
    /\ UNCHANGED <<ni, rec, drec, disk, torn, locks, calls>>
    /\ Touch

(* The initialized size of a file that gets the size n. *)
ResizedInitKept(n) == IF NInoNonResident THEN ni.init ELSE n

ResizedInit(n) == IF NInoNonResident THEN Least(ni.init, n) ELSE n

(* The sizes in the inode and in the record, and what is left of the value *)
(* or the clusters.                                                        *)
SetSizes(n, alloc) ==
    /\ ni' = [ni EXCEPT !.alloc = alloc, !.data = n, !.init = ResizedInit(n)]
    /\ rec' = [rec EXCEPT !.data = n, !.init = ResizedInit(n),
                  !.val = [u \in DOMAIN rec.val |->
                     IF u < Least(n, rec.data) THEN rec.val[u] ELSE Zero]]
    /\ disk' = [u \in Units |-> IF u < RoundUp(n) THEN disk[u] ELSE Junk]

(* The value or the clusters become fewer, or the size changes within what *)
(* is allocated, and the page cache learns a larger size; or the record    *)
(* cannot be had, and the page cache gets back the size it had or, if that *)
(* could be read, the one in the record.                                   *)
ResizeRecord(t) ==
    /\ At(t, "resize2")
    /\ LET n == Target(t)
           room == IF NInoNonResident THEN RoundUp(n) ELSE n IN
       /\ room <= IF NInoNonResident THEN ni.alloc ELSE ResidentMax
       /\ \E fails \in ({"shrink"} \cap Faults) \cup {"nothing"} :
          IF fails = "nothing"
          THEN /\ SetSizes(n, room)
               /\ SetUbc(n) /\ torn' = FALSE
               /\ Leave(t, Result(t))
          ELSE /\ \E size \in {io[t].pos, rec.data} : SetUbc(size)
               /\ Leave(t, ResizeFailed(t))
               /\ UNCHANGED <<ni, rec, disk, torn>>
    /\ UNCHANGED <<drec, io, calls>>
    /\ Touch

(* Clusters cannot be freed, or the record not be brought in step with     *)
(* those that are left, after the sizes have changed: they stay changed,   *)
(* and the page cache gets the old size back.                              *)
ResizeTorn(t) ==
    /\ At(t, "resize2") /\ "free" \in Faults
    /\ NInoNonResident /\ RoundUp(Target(t)) < ni.alloc
    /\ \E alloc \in {RoundUp(Target(t)), ni.alloc} : SetSizes(Target(t), alloc)
    /\ SetUbc(rec.data)
    /\ torn' = (torn \/ Target(t) # rec.data)
    /\ Leave(t, ResizeFailed(t))
    /\ UNCHANGED <<drec, io, calls>>
    /\ Touch

(* More clusters are needed; the initialized size stays. *)
ResizeExtend(t) ==
    /\ At(t, "resize2") /\ NInoNonResident /\ RoundUp(Target(t)) > ni.alloc
    /\ \/ /\ LET n == Target(t) IN
             /\ disk' = [u \in Units |-> IF u >= ni.alloc THEN Junk ELSE disk[u]]
             /\ ni' = [ni EXCEPT !.alloc = RoundUp(n), !.data = n]
             /\ rec' = [rec EXCEPT !.data = n]
             /\ SetUbc(n) /\ torn' = FALSE
          /\ Leave(t, Result(t))
       \/ /\ "alloc" \in Faults
          /\ SetUbc(rec.data)
          /\ Leave(t, ResizeFailed(t))
          /\ UNCHANGED <<ni, rec, disk, torn>>
    /\ UNCHANGED <<drec, io, calls>>
    /\ Touch

(* The value does not fit into the record any more. *)
ResizeConvert(t) ==
    /\ At(t, "resize2") /\ ~NInoNonResident /\ Target(t) > ResidentMax
    /\ \/ MakeNonResident /\ UNCHANGED <<ubc, behind, locks, pc>>
       \/ /\ "convert" \in Faults
          /\ SetUbc(rec.data)
          /\ Leave(t, ResizeFailed(t))
          /\ UNCHANGED <<ni, rec, disk>>
    /\ UNCHANGED <<drec, torn, io, calls>>
    /\ Touch

(***************************************************************************)
(* ntfs_inode_sync().                                                      *)
(***************************************************************************)

Sync(t) ==
    /\ At(t, "idle") /\ calls < MaxCalls
    /\ \E r \in Requests : r.op = "sync" /\ GoWith(t, "slock", Called(r))
    /\ calls' = calls + 1
    /\ UNCHANGED <<data, locks>>
    /\ Touch

(* cluster_push_ext(): the pages left to the cluster layer are written.    *)
(* Its result is not looked at; those it cannot write stay to be written.  *)
ClusterPush ==
    IF NInoNonResident
    THEN \E done \in IF "write" \in Faults THEN SUBSET behind ELSE {behind} :
            /\ disk' = Pushed(done, cache)
            /\ dirty' = dirty \ done
            /\ behind' = {}
    ELSE UNCHANGED <<disk, dirty, behind>>

(* ntfs_inode_data_sync(), with the shared lock. *)
SyncPushOnly(t) ==
    /\ At(t, "slock") /\ excl = None
    /\ ClusterPush
    /\ GoWith(t, "msync", [io[t] EXCEPT !.pos = ubc, !.old = ubc])
    /\ UNCHANGED <<ni, rec, drec, ubc, torn, cache, locks, calls>>
    /\ Touch

SyncPush(t) ==
    /\ At(t, "slock") /\ excl = None
    /\ ClusterPush
    /\ GoWith(t, "msync", [io[t] EXCEPT !.pos = 0, !.old = ubc])
    /\ UNCHANGED <<ni, rec, drec, ubc, torn, cache, locks, calls>>
    /\ Touch

(* ubc_msync(): without the lock, the other pages, one after the other. *)
SyncPage(t) ==
    /\ At(t, "msync") /\ io[t].pos < io[t].old
    /\ LET p == PageOf(io[t].pos) IN
       \/ /\ p \notin dirty
          /\ io' = [io EXCEPT ![t].pos = (p + 1) * PageSize]
          /\ UNCHANGED <<rec, disk, dirty, behind, pc>>
       \/ /\ p \in dirty /\ CanPageOut(p)
          /\ PageOutStep(p)
          /\ io' = [io EXCEPT ![t].pos = (p + 1) * PageSize]
          /\ UNCHANGED pc
       \/ /\ p \in dirty
          /\ \/ ~CanPageOut(p) \/ "write" \in Faults
             \/ \E s \in Threads : pc[s] = "upgrade"
          /\ Go(t, "failed")
          /\ UNCHANGED <<rec, disk, dirty, behind, io>>
    /\ UNCHANGED <<ni, drec, ubc, torn, cache, locks, calls>>
    /\ Touch

(* The record is written, or cannot be. *)
SyncRecord(t) ==
    /\ At(t, "msync") /\ io[t].pos >= io[t].old
    /\ \/ drec' = rec /\ Go(t, "ok")
       \/ "write" \in Faults /\ Go(t, "failed") /\ UNCHANGED drec
    /\ UNCHANGED <<ni, rec, disk, ubc, torn, cache, dirty, behind, locks, io,
                   calls>>
    /\ Touch

Return(t) ==
    /\ pc[t] \in {"ok", "failed"}
    /\ GoWith(t, "idle", NoCall)
    /\ UNCHANGED <<data, locks, calls>>
    /\ Touch

(***************************************************************************)
(* The specification.                                                      *)
(***************************************************************************)

(* A file on the disk that nobody has opened yet.  Some clusters of a      *)
(* sparse one are holes.                                                   *)
Init ==
    /\ \E size \in 0 .. MaxSize, init \in 0 .. MaxSize, nonres \in BOOLEAN,
          old \in [Units -> {Zero, Data}],
          holes \in SUBSET (0 .. (MaxSize \div ClusterSize) - 1) :
          /\ init <= size
          /\ ~nonres => size <= ResidentMax /\ init = size
          /\ \A u \in Units : u >= init => old[u] = Zero
          /\ \A c \in holes : nonres /\ c * ClusterSize < size
          /\ ni = [alloc |-> IF nonres THEN RoundUp(size) ELSE size,
                   data |-> size, init |-> init,
                   flags |-> (IF nonres THEN {"NonResident"} ELSE {})
                             \cup (IF holes # {} THEN {"Sparse"} ELSE {})]
          /\ rec = [data |-> size, init |-> init,
                    where |-> IF nonres THEN "clusters" ELSE "record",
                    val |-> [u \in 0 .. ResidentMax - 1 |->
                               IF nonres THEN Zero ELSE old[u]]]
          /\ disk = [u \in Units |-> IF u \div ClusterSize \in holes THEN Hole
                                     ELSE IF nonres /\ u < init THEN old[u]
                                     ELSE Junk]
          /\ ubc = size
    /\ drec = rec
    /\ torn = FALSE
    /\ cache = [u \in Units |-> None]
    /\ dirty = {} /\ behind = {}
    /\ excl = None /\ shared = {}
    /\ pc = [t \in Threads |-> "idle"]
    /\ io = [t \in Threads |-> NoCall]
    /\ touched = [t \in Threads |-> {}]
    /\ calls = 0

WriteStep(t) ==
    \/ WriteShared(t) \/ WriteUpgrade(t) \/ WriteExclusive(t)
    \/ WriteStart(t) \/ WriteExtend(t) \/ WriteConvert(t) \/ WriteInit(t)
    \/ WriteZeroPage(t) \/ WriteZeroed(t) \/ WriteCopy(t)
    \/ WriteCopyResident(t) \/ WriteDone(t) \/ WriteAbort(t)

ResizeStep(t) ==
    \/ SetAttrLock(t) \/ ResizeCache(t) \/ ResizeRecord(t) \/ ResizeTorn(t)
    \/ ResizeExtend(t) \/ ResizeConvert(t)

SyncStep(t) == SyncPush(t) \/ SyncPage(t) \/ SyncRecord(t)

Next ==
    \/ \E t \in Threads : \/ Write(t) \/ SetAttr(t) \/ Sync(t)
                          \/ WriteStep(t) \/ ResizeStep(t) \/ SyncStep(t)
                          \/ Return(t)
    \/ \E p \in Pages : PageIn(p) \/ PageOut(p) \/ Evict(p)
    \/ \E u \in StoreUnits : Store(u)

Spec == Init /\ [][Next]_vars

(***************************************************************************)
(* Properties.                                                             *)
(***************************************************************************)

(* What a caller of the file sees of each call: File's call. *)
Stage(t) ==
    CASE pc[t] \in {"idle", "ok", "failed"} -> pc[t]
      [] pc[t] \in {"wshared", "upgrade", "wexcl", "start", "tlock",
                    "slock", "msync"} -> "waiting"
      [] OTHER -> "running"

FileCall(t) ==
    [op |-> io[t].op, stage |-> Stage(t), from |-> io[t].from,
     end |-> io[t].end, was |-> IF Syncing(t) THEN 0 ELSE io[t].old]

F == INSTANCE File WITH file <- Content, loose <- Loose,
                        call <- [t \in Threads |-> FileCall(t)]

(* The data of the file behave as File promises, whatever is in memory, in *)
(* the record or on the disk: reads through ntfs_pagein() see what writes, *)
(* truncations and stores left, never what clusters held before.  Three    *)
(* failures are excepted.  Units copied beyond the end of the file stay in *)
(* their page when a later page cannot be copied ("copy") or the sizes not *)
(* be set ("record"), and a file cut in vain ("shrink") has lost what was  *)
(* only in memory.  Nor is anything promised for calls after two resizes   *)
(* in a row that failed half way.                                          *)
ImplementsFile == F!FileSpec

(* The sizes ntfs_attr.c keeps in step: the initialized, the data and the  *)
(* allocated size are in order, and whenever nobody holds ni->lock         *)
(* exclusively the inode and the record agree, whatever failed before.  So *)
(* does the page cache, which never knows of more than the file has,       *)
(* except after a resize that failed when it had changed the sizes: it     *)
(* gives the page cache the old size back, which stays until a size is     *)
(* set again.                                                              *)
SizesAgree ==
    /\ ni.init <= ni.data /\ ni.data <= ni.alloc
    /\ rec.init <= rec.data /\ rec.data = ni.data
    /\ excl = None => rec.init = ni.init
    /\ torn \/ ubc <= ni.data
    /\ excl = None => torn \/ ubc = ni.data

(* A successful ntfs_inode_sync() has made the file durable: a unit that   *)
(* nobody changed, initialized or moved out of the record meanwhile reads  *)
(* the same from the disk, unless a record could not be had for a smaller  *)
(* size ("shrink").                                                        *)
SyncDurable ==
    \A t \in Threads : Syncing(t) /\ pc[t] = "ok" =>
        \A u \in 0 .. ni.data - 1 :
            u \notin touched[t] /\ u \notin Loose =>
                u < drec.data /\ Durable(u) = View(u)
=============================================================================
