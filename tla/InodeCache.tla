----------------------------- MODULE InodeCache -----------------------------
(***************************************************************************)
(* The ntfs inode cache of the kernel extension: the inode hash            *)
(* (kext/ntfs_hash.c), loading and reclaiming an inode (kext/ntfs_inode.c),*)
(* deleting it on last close (ntfs_vnop_inactive) and reusing its mft      *)
(* record (the base inode path of ntfs_mft_record_alloc and ntfs_create).  *)
(*                                                                         *)
(* Each step is one critical section of the code.  Two pairs of steps are  *)
(* kept apart on purpose: testing NInoAlloc() and going to sleep (the hash *)
(* lock is held between them), and clearing NInoAlloc() and calling        *)
(* wakeup() (ntfs_inode_unlock_alloc() holds no lock at all).              *)
(*                                                                         *)
(* An inode and the vnode attached to it are one object here: a (vnode,    *)
(* vnode id) pair that a thread read under the hash lock is the inode in   *)
(* ni[t] together with membership of t in `vid', which ends when the inode *)
(* is destroyed and the id of the vnode changes.  NInoLocked is set and    *)
(* cleared together with NInoAlloc and is not kept separately.             *)
(***************************************************************************)

CONSTANTS
    Threads,     \* kernel threads
    Keys,        \* mft record numbers
    Inodes,      \* ntfs_inode objects; the memory of one is reused once freed
    NoThread, NoKey, NoInode,
    Ops,         \* the operations threads perform
    Faults,      \* the failures the environment may inject
    InUseAtInit  \* mft records in use when the volume is mounted

AllOps == {"vget", "lookup", "create", "unlink"}
AllFaults == {"nomem", "read", "index", "addvnode", "bdwrite", "eexist",
              "bread", "reread", "map", "clearbit", "getmftbmp"}

ASSUME InodeCacheAssumption ==
    /\ NoThread \notin Threads
    /\ NoKey \notin Keys
    /\ NoInode \notin Inodes
    /\ Ops \subseteq AllOps
    /\ Faults \subseteq AllFaults
    /\ InUseAtInit \subseteq Keys

VARIABLES
    hashLock,  \* owner of ntfs_inode_hash_lock between two steps
    key,       \* mft_no of an inode, NoKey while its memory is free
    flags,     \* NInoAlloc, NInoReclaim, NInoDeleted
    hashed,    \* inodes in the hash
    linked,    \* inodes with link_count > 0
    vnode,     \* none; live; term: VL_TERMINATE
    mark,      \* VL_MARKTERM is set
    inact,     \* VL_NEEDINACTIVE is set
    refs,      \* threads that hold an iocount reference
    bit,       \* records whose bit in the mft bitmap is set
    inuse,     \* records with MFT_RECORD_IN_USE in their buffer
    counted,   \* records whose link_count in their buffer is not zero
    named,     \* records a directory entry points to
    buf,       \* the thread that holds the buffer of a record
    errors,    \* NVolErrors: the volume stays dirty and is to be checked
    dirX,      \* exclusive holder of the lock of the directory of a record
    dirS,      \* shared holders of that lock
    pc, op, tk, ni, nni, vid,
    panicked

hashVars == <<hashLock, key, flags, hashed, linked>>
vnodeVars == <<vnode, mark, inact, refs>>
diskVars == <<bit, inuse, counted, named, buf, errors>>
dirVars == <<dirX, dirS>>
threadVars == <<pc, op, tk, ni, nni, vid>>
vars == <<hashVars, vnodeVars, diskVars, dirVars, threadVars, panicked>>

Flags == {"Alloc", "Reclaim", "Deleted"}
Labels ==
    {"idle", "getbuf", "find", "sleep", "asleep", "getref", "malloc", "check",
     "read", "addvnode", "direntry", "clear", "wake", "recycle", "using",
     "put", "inactive", "inactwake", "freerec", "reclaim", "recwake",
     "destroy", "undo", "clearbit", "panic"}
OpNames == AllOps \cup {"none", "reaper", "createfail", "rmerr"}

Init ==
    /\ hashLock = NoThread
    /\ key = [i \in Inodes |-> NoKey]
    /\ flags = [i \in Inodes |-> {}]
    /\ hashed = {}
    /\ linked = {}
    /\ vnode = [i \in Inodes |-> "none"]
    /\ mark = {}
    /\ inact = {}
    /\ refs = [i \in Inodes |-> {}]
    /\ bit = InUseAtInit
    /\ inuse = InUseAtInit
    /\ counted = InUseAtInit
    /\ named = InUseAtInit
    /\ buf = [k \in Keys |-> NoThread]
    /\ errors = FALSE
    /\ dirX = [k \in Keys |-> NoThread]
    /\ dirS = [k \in Keys |-> {}]
    /\ pc = [t \in Threads |-> "idle"]
    /\ op = [t \in Threads |-> "none"]
    /\ tk = [t \in Threads |-> NoKey]
    /\ ni = [t \in Threads |-> NoInode]
    /\ nni = [t \in Threads |-> NoInode]
    /\ vid = {}
    /\ panicked = FALSE

At(t, label) == pc[t] = label
Goto(t, label) == pc' = [pc EXCEPT ![t] = label]
Fault(f) == f \in Faults

-----------------------------------------------------------------------------
(* The operations a thread starts.                                         *)

Begin(t, o, k, label) ==
    /\ At(t, "idle")
    /\ o \in Ops
    /\ op' = [op EXCEPT ![t] = o]
    /\ tk' = [tk EXCEPT ![t] = k]
    /\ Goto(t, label)
    /\ UNCHANGED <<hashVars, vnodeVars, ni, nni, vid, panicked>>

\* ntfs_vget(): a record number with no name behind it, under no lock.
StartVget(t, k) ==
    /\ Begin(t, "vget", k, "find")
    /\ UNCHANGED <<diskVars, dirVars>>

\* ntfs_vnop_lookup() holds the directory lock shared until it has the inode.
StartLookup(t, k) ==
    /\ k \in named
    /\ dirX[k] = NoThread
    /\ dirS' = [dirS EXCEPT ![k] = @ \cup {t}]
    /\ Begin(t, "lookup", k, "find")
    /\ UNCHANGED <<diskVars, dirX>>

\* ntfs_create() locks the directory; ntfs_mft_record_alloc() finds a clear
\* bit and sets it under the mftbmp_lock.
StartCreate(t, k) ==
    /\ k \notin bit
    /\ dirX[k] = NoThread /\ dirS[k] = {}
    /\ dirX' = [dirX EXCEPT ![k] = t]
    /\ bit' = bit \cup {k}
    /\ Begin(t, "create", k, "getbuf")
    /\ UNCHANGED <<inuse, counted, named, buf, errors, dirS>>

\* The vnode layer recycles a vnode nobody has a reference on.
StartReaper(t, i) ==
    /\ At(t, "idle")
    /\ vnode[i] = "live" /\ refs[i] = {}
    /\ vnode' = [vnode EXCEPT ![i] = "term"]
    /\ inact' = inact \ {i}
    /\ op' = [op EXCEPT ![t] = "reaper"]
    /\ tk' = [tk EXCEPT ![t] = key[i]]
    /\ ni' = [ni EXCEPT ![t] = i]
    /\ Goto(t, "reclaim")
    /\ UNCHANGED <<hashVars, mark, refs, diskVars, dirVars, nni, vid, panicked>>

\* The record is laid out anew, with no links, in its buffer, which stays busy
\* until the new inode has a vnode.
GetBuf(t) ==
    /\ At(t, "getbuf")
    /\ buf[tk[t]] = NoThread
    /\ tk[t] \notin inuse
    /\ buf' = [buf EXCEPT ![tk[t]] = t]
    /\ counted' = counted \ {tk[t]}
    /\ Goto(t, "find")
    /\ UNCHANGED <<hashVars, vnodeVars, bit, inuse, named, errors, dirVars, op,
                   tk, ni, nni, vid, panicked>>

\* A record that was free in the bitmap says that it is in use: its bit stays
\* set, and another one is looked for, which is StartCreate again, or ENOSPC.
GetBufInUse(t) ==
    /\ At(t, "getbuf")
    /\ buf[tk[t]] = NoThread
    /\ tk[t] \in inuse
    /\ errors' = TRUE
    /\ dirX' = [dirX EXCEPT ![tk[t]] = NoThread]
    /\ Goto(t, "idle")
    /\ UNCHANGED <<hashVars, vnodeVars, bit, inuse, counted, named, buf, dirS,
                   op, tk, ni, nni, vid, panicked>>

\* The buffer cannot be read or mapped: only the bit is to be undone.
GetBufFails(t) ==
    /\ At(t, "getbuf") /\ Fault("bread")
    /\ buf[tk[t]] = NoThread
    /\ Goto(t, "clearbit")
    /\ UNCHANGED <<hashVars, vnodeVars, diskVars, dirVars, op, tk, ni, nni, vid,
                   panicked>>

-----------------------------------------------------------------------------
(* ntfs_inode_hash_get().  A thread that already has its new inode in nni  *)
(* is in the second search.                                                *)

Match(k) == {i \in hashed : key[i] = k}

\* Mutant of Busy: an inode that is still being loaded is returned.
BusyOnlyReclaim(i) == "Reclaim" \in flags[i]

Busy(i) == flags[i] \cap {"Reclaim", "Alloc"} # {}

FindMiss(t) ==
    /\ At(t, "find") /\ nni[t] = NoInode
    /\ hashLock = NoThread
    /\ Match(tk[t]) = {}
    /\ Goto(t, "malloc")
    /\ UNCHANGED <<hashVars, vnodeVars, diskVars, dirVars, op, tk, ni, nni, vid,
                   panicked>>

FindBusy(t) ==
    /\ At(t, "find")
    /\ hashLock = NoThread
    /\ \E i \in Match(tk[t]) :
           /\ Busy(i)
           /\ ni' = [ni EXCEPT ![t] = i]
    /\ hashLock' = t
    /\ Goto(t, "sleep")
    /\ UNCHANGED <<key, flags, hashed, linked, vnodeVars, diskVars, dirVars, op,
                   tk, nni, vid, panicked>>

\* msleep(): on the wait queue, then the hash lock is dropped.
Sleep(t) ==
    /\ At(t, "sleep")
    /\ hashLock' = NoThread
    /\ Goto(t, "asleep")
    /\ UNCHANGED <<key, flags, hashed, linked, vnodeVars, diskVars, dirVars, op,
                   tk, ni, nni, vid, panicked>>

\* Every sleeper on i goes back to its search; the waker t goes to label.
WakeupAndGoto(i, t, label) ==
    pc' = [u \in Threads |->
              IF u = t THEN label
              ELSE IF pc[u] = "asleep" /\ ni[u] = i THEN "find"
              ELSE pc[u]]

\* Memory of an inode nobody else has seen, or of one that is unhashed.
Release(i) ==
    /\ key' = [key EXCEPT ![i] = NoKey]
    /\ flags' = [flags EXCEPT ![i] = {}]

\* The thread returns the inode it found and frees the one it had allocated.
DropNew(t) ==
    /\ nni' = [nni EXCEPT ![t] = NoInode]
    /\ IF nni[t] = NoInode
       THEN UNCHANGED <<key, flags>>
       ELSE Release(nni[t])

\* The vnode and its id are read under the hash lock.
FindHit(t) ==
    /\ At(t, "find")
    /\ hashLock = NoThread
    /\ \E i \in Match(tk[t]) :
           /\ ~Busy(i)
           /\ ni' = [ni EXCEPT ![t] = i]
           /\ IF vnode[i] = "none"     \* returned with no reference taken
              THEN DropNew(t) /\ Goto(t, "check") /\ UNCHANGED vid
              ELSE /\ vid' = vid \cup {t}
                   /\ Goto(t, "getref")
                   /\ UNCHANGED <<key, flags, nni>>
    /\ UNCHANGED <<hashLock, hashed, linked, vnodeVars, diskVars, dirVars, op,
                   tk, panicked>>

\* vnode_getwithvid() on a vnode that is not being terminated.
GetRef(t) ==
    /\ At(t, "getref") /\ t \in vid
    /\ vnode[ni[t]] = "live"
    /\ refs' = [refs EXCEPT ![ni[t]] = @ \cup {t}]
    /\ vid' = vid \ {t}
    /\ Goto(t, "check")
    /\ DropNew(t)
    /\ UNCHANGED <<hashLock, hashed, linked, vnode, mark, inact, diskVars,
                   dirVars, op, tk, ni, panicked>>

\* The vnode got a new identity meanwhile: search again.
GetRefFails(t) ==
    /\ At(t, "getref") /\ t \notin vid
    /\ Goto(t, "find")
    /\ UNCHANGED <<hashVars, vnodeVars, diskVars, dirVars, op, tk, ni, nni, vid,
                   panicked>>

Malloc(t) ==
    /\ At(t, "malloc")
    /\ \E i \in Inodes :
           /\ key[i] = NoKey
           /\ key' = [key EXCEPT ![i] = tk[t]]
           /\ flags' = [flags EXCEPT ![i] = {"Alloc"}]
           /\ nni' = [nni EXCEPT ![t] = i]
    /\ Goto(t, "find")
    /\ UNCHANGED <<hashLock, hashed, linked, vnodeVars, diskVars, dirVars, op,
                   tk, ni, vid, panicked>>

MallocFails(t) ==
    /\ At(t, "malloc")
    /\ Fault("nomem") \/ \A i \in Inodes : key[i] # NoKey
    /\ Goto(t, IF op[t] = "create" THEN "undo" ELSE "idle")
    /\ dirS' = [dirS EXCEPT ![tk[t]] = @ \ {t}]
    /\ UNCHANGED <<hashVars, vnodeVars, diskVars, dirX, op, tk, ni, nni, vid,
                   panicked>>

\* Mutant of Insert: no second search after the allocation.
InsertUnchecked(t) ==
    /\ At(t, "find") /\ nni[t] # NoInode
    /\ hashLock = NoThread
    /\ hashed' = hashed \cup {nni[t]}
    /\ ni' = [ni EXCEPT ![t] = nni[t]]
    /\ nni' = [nni EXCEPT ![t] = NoInode]
    /\ Goto(t, "check")
    /\ UNCHANGED <<hashLock, key, flags, linked, vnodeVars, diskVars, dirVars,
                   op, tk, vid, panicked>>

Insert(t) ==
    /\ At(t, "find") /\ nni[t] # NoInode
    /\ hashLock = NoThread
    /\ Match(tk[t]) = {}
    /\ hashed' = hashed \cup {nni[t]}
    /\ ni' = [ni EXCEPT ![t] = nni[t]]
    /\ nni' = [nni EXCEPT ![t] = NoInode]
    /\ Goto(t, "check")
    /\ UNCHANGED <<hashLock, key, flags, linked, vnodeVars, diskVars, dirVars,
                   op, tk, vid, panicked>>

-----------------------------------------------------------------------------
(* What the callers of ntfs_inode_hash_get() do with the inode.            *)

\* ntfs_inode_get() on a cached inode: ENOENT once it is unlinked.  NInoDeleted
\* with a link count left (retry) cannot be met with a reference held, see
\* DeletedIsUnlinked.
CheckCached(t) ==
    /\ At(t, "check") /\ op[t] \in {"vget", "lookup"}
    /\ "Alloc" \notin flags[ni[t]]
    /\ Goto(t, IF ni[t] \in linked THEN "using" ELSE "put")
    /\ dirS' = [dirS EXCEPT ![tk[t]] = @ \ {t}]
    /\ UNCHANGED <<hashVars, vnodeVars, diskVars, dirX, op, tk, ni, nni, vid,
                   panicked>>

CheckFresh(t) ==
    /\ At(t, "check") /\ op[t] \in {"vget", "lookup"}
    /\ "Alloc" \in flags[ni[t]]
    /\ Goto(t, "read")
    /\ UNCHANGED <<hashVars, vnodeVars, diskVars, dirVars, op, tk, ni, nni, vid,
                   panicked>>

\* ntfs_mft_record_alloc() panics unless the inode is a new one.
CheckCreate(t) ==
    /\ At(t, "check") /\ op[t] = "create"
    /\ LET fresh == "Alloc" \in flags[ni[t]]
       IN  /\ Goto(t, IF fresh THEN "addvnode" ELSE "panic")
           /\ panicked' = (panicked \/ ~fresh)
    /\ UNCHANGED <<hashVars, vnodeVars, diskVars, dirVars, op, tk, ni, nni, vid>>

\* A record ntfs_inode_read() loads: in use, and with a link.
Readable(k) == k \in inuse \cap counted

\* ntfs_inode_read() maps the record, which waits for its buffer, and
\* ntfs_inode_add_vnode() returns the vnode with a reference.
Read(t) ==
    /\ At(t, "read")
    /\ buf[tk[t]] = NoThread
    /\ Readable(tk[t])
    /\ linked' = linked \cup {ni[t]}
    /\ vnode' = [vnode EXCEPT ![ni[t]] = "live"]
    /\ refs' = [refs EXCEPT ![ni[t]] = {t}]
    /\ \/ /\ Goto(t, "clear")
          /\ UNCHANGED <<mark, dirS>>
       \/ /\ Fault("index")     \* no index inode for a directory: kill it
          /\ mark' = mark \cup {ni[t]}
          /\ dirS' = [dirS EXCEPT ![tk[t]] = @ \ {t}]
          /\ Goto(t, "put")
    /\ UNCHANGED <<hashLock, key, flags, hashed, inact, diskVars, dirX, op, tk,
                   ni, nni, vid, panicked>>

ReadFails(t) ==
    /\ At(t, "read")
    /\ buf[tk[t]] = NoThread
    /\ ~Readable(tk[t]) \/ Fault("read")
    /\ dirS' = [dirS EXCEPT ![tk[t]] = @ \ {t}]
    /\ Goto(t, "reclaim")
    /\ UNCHANGED <<hashVars, vnodeVars, diskVars, dirX, op, tk, ni, nni, vid,
                   panicked>>

\* The end of ntfs_mft_record_alloc(): the record is set in use in its buffer,
\* the vnode attached and the buffer released.  ntfs_create() counts the link.
\* The record can fail to be written (an error is noted) or mapped again.
AddVnode(t) ==
    /\ At(t, "addvnode")
    /\ vnode' = [vnode EXCEPT ![ni[t]] = "live"]
    /\ refs' = [refs EXCEPT ![ni[t]] = {t}]
    /\ buf' = [buf EXCEPT ![tk[t]] = NoThread]
    /\ inuse' = inuse \cup {tk[t]}
    /\ \/ /\ linked' = linked \cup {ni[t]}
          /\ counted' = counted \cup {tk[t]}
          /\ Goto(t, "direntry")
          /\ UNCHANGED <<op, errors>>
       \/ /\ Fault("bdwrite")
          /\ op' = [op EXCEPT ![t] = "createfail"]
          /\ errors' \in {errors, TRUE}
          /\ Goto(t, "clear")
          /\ UNCHANGED <<linked, counted>>
    /\ UNCHANGED <<hashLock, key, flags, hashed, mark, inact, bit, named,
                   dirVars, tk, ni, nni, vid, panicked>>

AddVnodeFails(t) ==
    /\ At(t, "addvnode") /\ Fault("addvnode")
    /\ op' = [op EXCEPT ![t] = "createfail"]
    /\ Goto(t, "reclaim")
    /\ UNCHANGED <<hashVars, vnodeVars, diskVars, dirVars, tk, ni, nni, vid,
                   panicked>>

\* ntfs_create() adds the directory entry and unlocks the directory.
DirEntry(t) ==
    /\ At(t, "direntry")
    /\ named' = named \cup {tk[t]}
    /\ dirX' = [dirX EXCEPT ![tk[t]] = NoThread]
    /\ Goto(t, "clear")
    /\ UNCHANGED <<hashVars, vnodeVars, bit, inuse, counted, buf, errors, dirS,
                   op, tk, ni, nni, vid, panicked>>

\* rm_err: the record is marked not in use, if it can be mapped, and the link
\* count of the inode set to zero.
DirEntryFails(t) ==
    /\ At(t, "direntry") /\ Fault("eexist")
    /\ buf[tk[t]] = NoThread
    /\ \/ inuse' = inuse \ {tk[t]} /\ UNCHANGED errors
       \/ Fault("map") /\ errors' = TRUE /\ UNCHANGED inuse
    /\ linked' = linked \ {ni[t]}
    /\ dirX' = [dirX EXCEPT ![tk[t]] = NoThread]
    /\ op' = [op EXCEPT ![t] = "rmerr"]
    /\ Goto(t, "clear")
    /\ UNCHANGED <<hashLock, key, flags, hashed, vnodeVars, bit, counted, named,
                   buf, dirS, tk, ni, nni, vid, panicked>>

\* ntfs_inode_unlock_alloc(), without the hash lock: clear the flag ...
ClearAlloc(t) ==
    /\ At(t, "clear")
    /\ flags' = [flags EXCEPT ![ni[t]] = @ \ {"Alloc"}]
    /\ Goto(t, "wake")
    /\ UNCHANGED <<hashLock, key, hashed, linked, vnodeVars, diskVars, dirVars,
                   op, tk, ni, nni, vid, panicked>>

\* ... then wake whoever is on the wait queue now.
Wake(t) ==
    /\ At(t, "wake")
    /\ WakeupAndGoto(ni[t], t, CASE op[t] = "createfail" -> "recycle"
                                 [] op[t] = "rmerr" -> "put"
                                 [] OTHER -> "using")
    /\ dirS' = [dirS EXCEPT ![tk[t]] = @ \ {t}]
    /\ UNCHANGED <<hashVars, vnodeVars, diskVars, dirX, op, tk, ni, nni, vid,
                   panicked>>

\* vnode_recycle() of a vnode the caller has a reference on.
Recycle(t) ==
    /\ At(t, "recycle")
    /\ mark' = mark \cup {ni[t]}
    /\ Goto(t, "put")
    /\ UNCHANGED <<hashVars, vnode, inact, refs, diskVars, dirVars, op, tk, ni,
                   nni, vid, panicked>>

\* The error path of ntfs_mft_record_alloc(): the record is set not in use, in
\* the buffer the thread still holds or has to read again.
Undo(t) ==
    /\ At(t, "undo")
    /\ buf[tk[t]] \in {t, NoThread}
    /\ \/ inuse' = inuse \ {tk[t]} /\ UNCHANGED errors
       \/ /\ Fault("reread") /\ buf[tk[t]] # t
          /\ errors' = TRUE
          /\ UNCHANGED inuse
    /\ buf' = [buf EXCEPT ![tk[t]] = NoThread]
    /\ Goto(t, "clearbit")
    /\ UNCHANGED <<hashVars, vnodeVars, bit, counted, named, dirVars, op, tk, ni,
                   nni, vid, panicked>>

\* ntfs_bitmap_clear_bit(), whose failure is noted.
ClearBit(k) ==
    \/ bit' = bit \ {k} /\ UNCHANGED errors
    \/ Fault("clearbit") /\ errors' = TRUE /\ UNCHANGED bit

\* Mutant of UndoBit: the bit stays set.
UndoNoBit(t) ==
    /\ At(t, "clearbit")
    /\ dirX' = [dirX EXCEPT ![tk[t]] = NoThread]
    /\ Goto(t, "idle")
    /\ UNCHANGED <<hashVars, vnodeVars, diskVars, dirS, op, tk, ni, nni, vid,
                   panicked>>

\* Its end, and the end of ntfs_create().
UndoBit(t) ==
    /\ At(t, "clearbit")
    /\ ClearBit(tk[t])
    /\ dirX' = [dirX EXCEPT ![tk[t]] = NoThread]
    /\ Goto(t, "idle")
    /\ UNCHANGED <<hashVars, vnodeVars, inuse, counted, named, buf, dirS, op, tk,
                   ni, nni, vid, panicked>>

-----------------------------------------------------------------------------
(* A thread with a reference: unlink, close, vnode_put(), VNOP_INACTIVE(). *)

\* The last name of the inode goes: no longer in use on disk, link count zero,
\* and VNOP_REMOVE() asks for VNOP_INACTIVE() at the last vnode_put().  When the
\* record cannot be mapped again only the directory entry goes.
Unlink(t) ==
    /\ At(t, "using") /\ "unlink" \in Ops
    /\ ni[t] \in linked /\ tk[t] \in named
    /\ dirX[tk[t]] = NoThread /\ dirS[tk[t]] = {}
    /\ buf[tk[t]] = NoThread
    /\ named' = named \ {tk[t]}
    /\ \/ /\ inuse' = inuse \ {tk[t]}
          /\ linked' = linked \ {ni[t]}
          /\ inact' = inact \cup {ni[t]}
          /\ UNCHANGED errors
       \/ /\ Fault("map")
          /\ errors' = TRUE
          /\ UNCHANGED <<inuse, linked, inact>>
    /\ Goto(t, "put")
    /\ UNCHANGED <<hashLock, key, flags, hashed, vnode, mark, refs, bit, counted,
                   buf, dirVars, op, tk, ni, nni, vid, panicked>>

\* The user is done; dropping the last use count asks for VNOP_INACTIVE().
Close(t) ==
    /\ At(t, "using")
    /\ inact' \in {inact, inact \cup {ni[t]}}
    /\ Goto(t, "put")
    /\ UNCHANGED <<hashVars, vnode, mark, refs, diskVars, dirVars, op, tk, ni,
                   nni, vid, panicked>>

\* Where a thread goes when it has given up its inode.
AfterInode(t) == IF op[t] = "createfail" THEN "undo" ELSE "idle"

\* vnode_put(): inactive first, then termination, both only on the last one.
Put(t) ==
    /\ At(t, "put")
    /\ LET i == ni[t]
           last == refs[i] = {t}
       IN  \/ /\ last /\ i \in inact
              /\ inact' = inact \ {i}
              /\ Goto(t, "inactive")
              /\ UNCHANGED <<vnode, refs>>
           \/ /\ last /\ i \notin inact /\ i \in mark
              /\ vnode' = [vnode EXCEPT ![i] = "term"]
              /\ Goto(t, "reclaim")
              /\ UNCHANGED <<inact, refs>>
           \/ /\ last => i \notin inact /\ i \notin mark
              /\ refs' = [refs EXCEPT ![i] = @ \ {t}]
              /\ Goto(t, AfterInode(t))
              /\ UNCHANGED <<vnode, inact>>
    /\ UNCHANGED <<hashVars, mark, diskVars, dirVars, op, tk, ni, nni, vid,
                   panicked>>

\* ntfs_vnop_inactive() has nothing to delete: it syncs, or was here before.
InactiveKeep(t) ==
    /\ At(t, "inactive")
    /\ ni[t] \in linked \/ "Deleted" \in flags[ni[t]]
    /\ Goto(t, "put")
    /\ UNCHANGED <<hashVars, vnodeVars, diskVars, dirVars, op, tk, ni, nni, vid,
                   panicked>>

\* Mutant of InactiveDelete: the link count is not looked at.
InactiveDeleteLinked(t) ==
    /\ At(t, "inactive")
    /\ "Deleted" \notin flags[ni[t]]
    /\ hashLock = NoThread
    /\ flags' = [flags EXCEPT ![ni[t]] = @ \cup {"Deleted"}]
    /\ hashed' = hashed \ {ni[t]}
    /\ Goto(t, "inactwake")
    /\ UNCHANGED <<hashLock, key, linked, vnodeVars, diskVars, dirVars, op, tk,
                   ni, nni, vid, panicked>>

\* Mutant of InactiveDelete: the inode stays in the hash.
InactiveDeleteHashed(t) ==
    /\ At(t, "inactive")
    /\ ni[t] \notin linked /\ "Deleted" \notin flags[ni[t]]
    /\ hashLock = NoThread
    /\ flags' = [flags EXCEPT ![ni[t]] = @ \cup {"Deleted"}]
    /\ Goto(t, "inactwake")
    /\ UNCHANGED <<hashLock, key, hashed, linked, vnodeVars, diskVars, dirVars,
                   op, tk, ni, nni, vid, panicked>>

InactiveDelete(t) ==
    /\ At(t, "inactive")
    /\ ni[t] \notin linked /\ "Deleted" \notin flags[ni[t]]
    /\ hashLock = NoThread
    /\ flags' = [flags EXCEPT ![ni[t]] = @ \cup {"Deleted"}]
    /\ hashed' = hashed \ {ni[t]}
    /\ Goto(t, "inactwake")
    /\ UNCHANGED <<hashLock, key, linked, vnodeVars, diskVars, dirVars, op, tk,
                   ni, nni, vid, panicked>>

InactiveWake(t) ==
    /\ At(t, "inactwake")
    /\ mark' = mark \cup {ni[t]}
    /\ WakeupAndGoto(ni[t], t, "freerec")
    /\ UNCHANGED <<hashVars, vnode, inact, refs, diskVars, dirVars, op, tk, ni,
                   nni, vid, panicked>>

\* Free the record: panic if it is in use, then clear its bit.  A record that
\* cannot be mapped stays allocated, which is noted, and so it does when there
\* is no vnode of the mft bitmap to be had, which is not.
FreeRecord(t) ==
    /\ At(t, "freerec")
    /\ LET k == key[ni[t]]
       IN  /\ buf[k] = NoThread
           /\ \/ /\ panicked' = (panicked \/ k \in inuse)
                 /\ \/ ClearBit(k)
                    \/ Fault("getmftbmp") /\ UNCHANGED <<bit, errors>>
              \/ /\ Fault("map")
                 /\ errors' = TRUE
                 /\ UNCHANGED <<panicked, bit>>
    /\ Goto(t, "put")
    /\ UNCHANGED <<hashVars, vnodeVars, inuse, counted, named, buf, dirVars, op,
                   tk, ni, nni, vid>>

-----------------------------------------------------------------------------
(* ntfs_inode_reclaim(), from VNOP_RECLAIM() or an error path.             *)

Reclaim(t) ==
    /\ At(t, "reclaim")
    /\ hashLock = NoThread
    /\ flags' = [flags EXCEPT ![ni[t]] = (@ \ {"Alloc"}) \cup
                                             {"Reclaim", "Deleted"}]
    /\ hashed' = hashed \ {ni[t]}
    /\ Goto(t, "recwake")
    /\ UNCHANGED <<hashLock, key, linked, vnodeVars, diskVars, dirVars, op, tk,
                   ni, nni, vid, panicked>>

ReclaimWake(t) ==
    /\ At(t, "recwake")
    /\ WakeupAndGoto(ni[t], t, "destroy")
    /\ UNCHANGED <<hashVars, vnodeVars, diskVars, dirVars, op, tk, ni, nni, vid,
                   panicked>>

\* ntfs_inode_free(), and the vnode gets a new identity.
Destroy(t) ==
    /\ At(t, "destroy")
    /\ LET i == ni[t]
       IN  /\ Release(i)
           /\ linked' = linked \ {i}
           /\ vnode' = [vnode EXCEPT ![i] = "none"]
           /\ mark' = mark \ {i}
           /\ inact' = inact \ {i}
           /\ refs' = [refs EXCEPT ![i] = {}]
           /\ vid' = {u \in vid : ni[u] # i}
    /\ Goto(t, AfterInode(t))
    /\ UNCHANGED <<hashLock, hashed, diskVars, dirVars, op, tk, ni, nni,
                   panicked>>

-----------------------------------------------------------------------------
Start(t) ==
    \/ \E k \in Keys : StartVget(t, k) \/ StartLookup(t, k) \/ StartCreate(t, k)
    \/ \E i \in Inodes : StartReaper(t, i)

HashGet(t) ==
    \/ FindMiss(t) \/ FindBusy(t) \/ Sleep(t) \/ FindHit(t) \/ GetRef(t)
    \/ GetRefFails(t) \/ Malloc(t) \/ MallocFails(t) \/ Insert(t)

Load(t) ==
    \/ CheckCached(t) \/ CheckFresh(t) \/ Read(t) \/ ReadFails(t)
    \/ ClearAlloc(t) \/ Wake(t)

Create(t) ==
    \/ GetBuf(t) \/ GetBufInUse(t) \/ GetBufFails(t) \/ CheckCreate(t)
    \/ AddVnode(t) \/ AddVnodeFails(t) \/ DirEntry(t) \/ DirEntryFails(t)
    \/ Recycle(t) \/ Undo(t) \/ UndoBit(t)

Drop(t) ==
    \/ Put(t) \/ InactiveKeep(t) \/ InactiveDelete(t) \/ InactiveWake(t)
    \/ FreeRecord(t) \/ Reclaim(t) \/ ReclaimWake(t) \/ Destroy(t)

Use(t) == Unlink(t) \/ Close(t)

Next == \E t \in Threads :
            Start(t) \/ HashGet(t) \/ Load(t) \/ Create(t) \/ Drop(t) \/ Use(t)

Spec == Init /\ [][Next]_vars

-----------------------------------------------------------------------------
Types ==
    /\ hashLock \in Threads \cup {NoThread}
    /\ key \in [Inodes -> Keys \cup {NoKey}]
    /\ flags \in [Inodes -> SUBSET Flags]
    /\ hashed \subseteq Inodes
    /\ linked \subseteq Inodes
    /\ vnode \in [Inodes -> {"none", "live", "term"}]
    /\ mark \subseteq Inodes
    /\ inact \subseteq Inodes
    /\ refs \in [Inodes -> SUBSET Threads]
    /\ bit \subseteq Keys
    /\ inuse \subseteq Keys
    /\ counted \subseteq Keys
    /\ named \subseteq Keys
    /\ buf \in [Keys -> Threads \cup {NoThread}]
    /\ errors \in BOOLEAN
    /\ dirX \in [Keys -> Threads \cup {NoThread}]
    /\ dirS \in [Keys -> SUBSET Threads]
    /\ pc \in [Threads -> Labels]
    /\ op \in [Threads -> OpNames]
    /\ tk \in [Threads -> Keys \cup {NoKey}]
    /\ ni \in [Threads -> Inodes \cup {NoInode}]
    /\ nni \in [Threads -> Inodes \cup {NoInode}]
    /\ vid \subseteq Threads
    /\ panicked \in BOOLEAN

\* Types; memory that is free is not hashed, and what has no vnode is not
\* referenced through one.
TypeOK ==
    /\ Types
    /\ \A i \in Inodes : key[i] = NoKey => i \notin hashed
    /\ \A i \in Inodes : vnode[i] = "none" => refs[i] = {}

\* The hash holds at most one inode for an mft record: the second search of
\* ntfs_inode_hash_get() catches every racing insertion.
HashUnique ==
    \A i, j \in hashed : key[i] = key[j] => i = j

\* Where a thread works on the inode in ni[t] as its own or with a reference.
Pinned == {"check", "read", "addvnode", "direntry", "clear", "wake", "recycle",
           "using", "put", "inactive", "inactwake", "freerec", "reclaim",
           "recwake", "destroy", "panic"}

\* No use after free: the inode a thread works on has not been destroyed and
\* reused for another record under it, and a thread about to sleep on an inode
\* found it in the hash.
NoUseAfterFree ==
    \A t \in Threads :
        /\ At(t, "sleep") => ni[t] \in hashed
        /\ pc[t] \in Pinned => ni[t] # NoInode /\ key[ni[t]] = tk[t]

\* What lets a lookup pin what it finds: a loaded inode in the hash has a
\* vnode, and it is neither deleted nor being reclaimed.
HashedIsLive ==
    \A i \in hashed :
        /\ flags[i] \cap {"Reclaim", "Deleted"} = {}
        /\ "Alloc" \notin flags[i] => vnode[i] # "none"

\* An inode handed to a user is loaded, and one deleted under its user has no
\* link left, so the retry of ntfs_inode_get() never spins on a referenced one.
DeletedIsUnlinked ==
    \A t \in Threads :
        At(t, "using") =>
            /\ flags[ni[t]] \cap {"Alloc", "Reclaim"} = {}
            /\ "Deleted" \in flags[ni[t]] => ni[t] \notin linked

\* A record whose bit is clear has no loaded inode in the hash: what
\* ntfs_mft_record_alloc() relies on when it reuses the record.
FreeRecordNotCached ==
    \A i \in hashed : key[i] \notin bit => "Alloc" \in flags[i]

\* Neither panic() of the modelled code is reached: an allocated record with
\* a cached inode, or a deleted record still marked in use.
NoPanic == ~panicked

\* A record that stays allocated in the bitmap has a name, an inode in memory
\* that will free it, or a thread that is creating it.
NoRecordLeak ==
    \A k \in bit :
        \/ k \in named
        \/ \E i \in Inodes : key[i] = k
        \/ \E t \in Threads : tk[t] = k /\ pc[t] # "idle"
                              /\ op[t] \in {"create", "createfail"}

\* A thread asleep on an inode was woken or will be: somebody is still loading,
\* deleting or reclaiming that inode and will call ntfs_inode_wakeup().
NoLostWakeup ==
    \A t \in Threads :
        At(t, "asleep") =>
            \E u \in Threads \ {t} : pc[u] \in Pinned /\ ni[u] = ni[t]
                                     /\ pc[u] \notin {"using", "destroy", "panic"}
=============================================================================
