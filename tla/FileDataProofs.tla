--------------------------- MODULE FileDataProofs ---------------------------
(***************************************************************************)
(* SizesAgree of FileData, for any number of threads, any size of record,  *)
(* any sizes of page and cluster of which one divides the other, any       *)
(* requests and any failures.                                              *)
(*                                                                         *)
(* What keeps the sizes in order is that a thread that changes one holds   *)
(* ni->lock exclusively, and that what it tested before it still holds: a  *)
(* write which took the lock shared stays within the initialized size,     *)
(* which cannot become smaller under it.  IInv says this for each place of *)
(* a call.  Agree says which size the holder of the lock has moved before  *)
(* the others, so that every way out, the failures included, is seen to    *)
(* bring them together, but for the resize that fails half way: it leaves  *)
(* the page cache behind and is remembered by torn.                        *)
(***************************************************************************)
EXTENDS FileData, TLAPS

Values == {Zero, Data, Junk, None}

Operations == {"none", "write", "append", "resize", "sync"}

Locals == [op : Operations, ofs : Nat, from : Nat, end : Nat,
           ioflags : SUBSET {"IO_UNIT"}, old : Nat, pos : Nat, init : Nat,
           err : {"none", "failed"}]

(* The places of a call at which it holds ni->lock, and the others. *)
Exclusive == {"walloc", "zero", "resize", "resize2"}
Holding == Exclusive \cup {"upgrade", "start", "winit", "copy", "abort"}
Places == Holding \cup {"idle", "wshared", "wexcl", "tlock", "slock",
                        "msync", "ok", "failed"}

DataTypes ==
    /\ ni \in [alloc : Nat, data : Nat, init : Nat,
               flags : SUBSET {"NonResident", "Sparse"}]
    /\ rec \in [data : Nat, init : Nat, where : {"record", "clusters"},
                val : [0 .. ResidentMax - 1 -> Values]]
    /\ disk \in [Units -> Values \cup {Hole}]
    /\ ubc \in Nat
    /\ cache \in [Units -> Values]

ThreadTypes ==
    /\ excl \in Threads \cup {None}
    /\ shared \in SUBSET Threads
    /\ pc \in [Threads -> Places]
    /\ io \in [Threads -> Locals]

Ordered ==
    /\ ni.init <= ni.data /\ ni.data <= ni.alloc
    /\ rec.init <= rec.data /\ rec.data = ni.data

(* A resident value fits into the record; clusters are allocated whole. *)
Room ==
    IF NInoNonResident THEN ni.alloc % ClusterSize = 0 ELSE ni.alloc <= ResidentMax

Mutex == excl # None => shared = {}

ThreadInv(t) ==
    /\ pc[t] \in Holding => excl = t \/ t \in shared
    /\ pc[t] \in Exclusive => excl = t
    /\ pc[t] \in {"wshared", "upgrade"} => io[t].op = "write"
    /\ pc[t] = "start" /\ excl # t => io[t].op = "write"
    /\ pc[t] \in {"start", "winit", "copy"} /\ excl # t => io[t].end <= ni.init
    /\ io[t].from <= io[t].end
    /\ pc[t] \in {"winit", "zero", "copy"} => io[t].end <= ni.alloc
    /\ pc[t] = "walloc" /\ ~NInoNonResident => io[t].end > ni.alloc
    /\ pc[t] = "zero" => io[t].from <= ni.data /\ io[t].init <= ni.data

IInv ==
    /\ DataTypes /\ ThreadTypes
    /\ Ordered /\ Room
    /\ Mutex
    /\ \A t \in Threads : ThreadInv(t)

(* The page cache has the size n, unless a resize failed half way. *)
InStep(n) == torn \/ ubc = n

(* How far the sizes agree: the thread that holds ni->lock exclusively may *)
(* have moved the initialized size in memory, or the size of the cache,    *)
(* whose old size it remembers then.                                       *)
Holder(t) ==
    /\ rec.init = IF pc[t] = "zero" THEN io[t].init ELSE ni.init
    /\ InStep(IF pc[t] = "resize2" THEN Least(Target(t), ni.data) ELSE ni.data)
    /\ pc[t] = "resize2" => torn \/ io[t].pos = ni.data

Agree ==
    IF excl = None THEN rec.init = ni.init /\ InStep(ni.data) ELSE Holder(excl)

-----------------------------------------------------------------------------
(* Arithmetic of clusters and pages. *)

(* Rounding up to whole clusters gives a multiple that is large enough. *)
LEMMA RoundUpFits ==
    ASSUME NEW n \in Nat
    PROVE  /\ RoundUp(n) \in Nat
           /\ n <= RoundUp(n)
           /\ RoundUp(n) % ClusterSize = 0
  BY FileDataAssumption, SMTT(30) DEF RoundUp

(* It gives the least such multiple. *)
LEMMA RoundUpLeast ==
    ASSUME NEW n \in Nat, NEW m \in Nat, m % ClusterSize = 0, n <= m
    PROVE  RoundUp(n) <= m
  <1> DEFINE C == ClusterSize
             q == (n + C - 1) \div C
             k == m \div C
  <1>1. C \in Nat /\ C > 0 /\ q \in Nat /\ k \in Nat
    BY FileDataAssumption
  <1>2. q * C <= n + C - 1 /\ m = k * C
    BY FileDataAssumption, SMTT(30)
  <1>3. RoundUp(n) = q * C
    BY Zenon DEF RoundUp
  <1> HIDE DEF C, q, k
  <1>4. q * C <= k * C + C - 1
    BY <1>1, <1>2
  <1>5. q <= k
    <2> SUFFICES ASSUME q >= k + 1 PROVE FALSE
      BY <1>1
    <2>1. q * C >= (k + 1) * C
      BY <1>1, SMTT(30)
    <2>2. (k + 1) * C = k * C + C
      BY <1>1, SMTT(30)
    <2> QED BY <1>1, <1>4, <2>1, <2>2
  <1> QED BY <1>1, <1>2, <1>3, <1>5, SMTT(30)

(* Pages of units are natural numbers. *)
LEMMA PageNat ==
    ASSUME NEW u \in Nat
    PROVE  /\ PageOf(u) \in Nat
           /\ PageOf(u) * PageSize \in Nat
           /\ (PageOf(u) + 1) * PageSize \in Nat
  BY FileDataAssumption DEF PageOf

-----------------------------------------------------------------------------
(* What is in memory. *)

(* A unit of the file that is read is not a hole. *)
LEMMA ViewType ==
    ASSUME IInv, NEW u \in Units
    PROVE  View(u) \in Values
  <1>1. u \in Nat
    BY FileDataAssumption DEF Units
  <1>2. cache[u] \in Values /\ disk[u] \in Values \cup {Hole}
    BY Zenon DEF IInv, DataTypes
  <1>3. Stored(u) \in Values
    <2>1. CASE u >= ni.init \/ u >= ubc
      BY <2>1, Zenon DEF Stored, Values
    <2>2. CASE ~(u >= ni.init \/ u >= ubc) /\ NInoNonResident
      BY <1>2, <2>2, Zenon DEF Stored, FromDisk, Values
    <2>3. CASE ~(u >= ni.init \/ u >= ubc) /\ ~NInoNonResident
      <3>1. u \in 0 .. ResidentMax - 1
        BY <1>1, <2>3, FileDataAssumption
           DEF IInv, DataTypes, Ordered, Room
      <3>2. rec.val[u] \in Values
        BY Zenon, <3>1 DEF IInv, DataTypes
      <3> QED BY <2>3, <3>2, Zenon DEF Stored
    <2> QED BY <2>1, <2>2, <2>3, Zenon
  <1> QED BY <1>2, <1>3, Zenon DEF View

(* Bringing a page into memory keeps the type of the memory. *)
LEMMA MappedType ==
    ASSUME IInv, NEW p
    PROVE  Mapped(p) \in [Units -> Values]
  <1>1. \A u \in Units : cache[u] \in Values
    BY Zenon DEF IInv, DataTypes
  <1> QED BY <1>1, ViewType, Zenon DEF Mapped

(* So does copying into a page. *)
LEMMA FilledType ==
    ASSUME IInv, NEW t \in Threads
    PROVE  Filled(t) \in [Units -> Values]
  <1>1. \A u \in Units : cache[u] \in Values /\ View(u) \in Values
    BY ViewType, Zenon DEF IInv, DataTypes
  <1> QED BY <1>1, Zenon DEF Filled, Values

(* And so does giving up the pages beyond a size. *)
LEMMA SetSizeType ==
    ASSUME IInv, NEW n \in Nat, SetSize(n)
    PROVE  cache' \in [Units -> Values] /\ ubc' = n
  <1>1. \A u \in Units : cache[u] \in Values
    BY Zenon DEF IInv, DataTypes
  <1> QED BY <1>1, Zenon DEF SetSize, Values

(* ubc_setsize() to any size does. *)
LEMMA SetUbcType ==
    ASSUME IInv, NEW n \in Nat, SetUbc(n)
    PROVE  cache' \in [Units -> Values] /\ ubc' = n
  BY SetSizeType, Zenon DEF SetUbc, IInv, DataTypes

(* And a larger data size that the page cache learns of. *)
LEMMA LearnType ==
    ASSUME IInv, NEW n \in Nat, Learn(n)
    PROVE  /\ cache' \in [Units -> Values] /\ ubc' \in Nat
           /\ n > ni.data => ubc' = n
           /\ ~(n > ni.data) => ubc' = ubc /\ torn' = torn
  BY SetUbcType, Zenon DEF Learn, IInv, DataTypes

(* Pages written to their clusters hold values. *)
LEMMA PushedType ==
    ASSUME IInv, NEW pages, NEW mem \in [Units -> Values]
    PROVE  Pushed(pages, mem) \in [Units -> Values \cup {Hole}]
  <1>1. \A u \in Units : disk[u] \in Values \cup {Hole} /\ mem[u] \in Values
    BY Zenon DEF IInv, DataTypes
  <1> QED BY <1>1, FileDataAssumption, Zenon DEF Pushed, Values

-----------------------------------------------------------------------------
(* The other threads. *)

(* While a thread holds the lock exclusively no other is at a place that   *)
(* needs it.                                                               *)
LEMMA Alone ==
    ASSUME IInv, NEW t \in Threads, excl = t, NEW s \in Threads \ {t}
    PROVE  pc[s] \notin Holding
  BY FileDataAssumption, Zenon DEF IInv, Mutex, ThreadInv, ThreadTypes

(* So whatever it does to the sizes, the others keep their invariant, *)
LEMMA OthersLocked ==
    ASSUME IInv, NEW t \in Threads, excl = t,
           excl' \in {t, None}, shared' = shared,
           \A s \in Threads \ {t} : pc'[s] = pc[s] /\ io'[s] = io[s]
    PROVE  \A s \in Threads \ {t} : ThreadInv(s)'
  <1> SUFFICES ASSUME NEW s \in Threads \ {t} PROVE ThreadInv(s)'
    OBVIOUS
  <1>1. pc[s] \notin Holding
    BY Alone, Zenon
  <1>2. ThreadInv(s)
    BY Zenon DEF IInv
  <1> QED BY <1>1, <1>2, Zenon DEF ThreadInv, Places, Holding, Exclusive

(* and they keep it when the sizes stay and their own locks do. *)
LEMMA OthersQuiet ==
    ASSUME IInv, NEW t, ni' = ni,
           \A s \in Threads \ {t} :
              /\ pc'[s] = pc[s] /\ io'[s] = io[s]
              /\ (excl' = s) = (excl = s) /\ (s \in shared') = (s \in shared)
    PROVE  \A s \in Threads \ {t} : ThreadInv(s)'
  <1> SUFFICES ASSUME NEW s \in Threads \ {t} PROVE ThreadInv(s)'
    OBVIOUS
  <1>1. ThreadInv(s)
    BY Zenon DEF IInv
  <1> QED BY <1>1, Zenon DEF ThreadInv, NInoNonResident

(* What IInv is made of, for a step of thread t. *)
LEMMA Together ==
    ASSUME NEW t, DataTypes', ThreadTypes', Ordered', Room', Mutex',
           t \in Threads => ThreadInv(t)', \A s \in Threads \ {t} : ThreadInv(s)'
    PROVE  IInv'
  BY Zenon DEF IInv

-----------------------------------------------------------------------------
(* Steps that leave the data alone. *)

(* A step that leaves the data alone keeps what the invariant says of them. *)
LEMMA SameData ==
    ASSUME IInv, UNCHANGED data
    PROVE  DataTypes' /\ Ordered' /\ Room'
  BY Zenon DEF IInv, data, DataTypes, Ordered, Room, NInoNonResident

(* What a caller asks for. *)
LEMMA CalledType ==
    ASSUME NEW r \in Requests
    PROVE  /\ Called(r) \in Locals
           /\ Called(r).from <= Called(r).end
           /\ Called(r).op = r.op
  <1>1. /\ r.from \in Nat /\ r.n \in Nat /\ r.op \in Operations
        /\ r.ioflags \in SUBSET {"IO_UNIT"}
    BY FileDataAssumption DEF AllRequests, Operations
  <1> QED BY <1>1 DEF Called, Locals

(* A new call starts at a place without the lock. *)
LEMMA NewCall ==
    ASSUME IInv, NEW t \in Threads, UNCHANGED <<data, locks>>,
           NEW r \in Requests, NEW place \in Places \ Holding,
           place \in {"wshared"} => r.op = "write",
           GoWith(t, place, Called(r))
    PROVE  IInv'
  <1>1. DataTypes' /\ Ordered' /\ Room'
    BY SameData, Zenon
  <1>2. ThreadTypes' /\ Mutex'
    BY CalledType, Zenon DEF IInv, ThreadTypes, Mutex, GoWith, Go, locks
  <1>3. ThreadInv(t)'
    BY CalledType, Zenon DEF IInv, ThreadTypes, ThreadInv, GoWith, Go, Places,
       Holding, Exclusive
  <1>4. \A s \in Threads \ {t} : ThreadInv(s)'
    BY OthersQuiet, Zenon DEF IInv, ThreadTypes, GoWith, Go, data, locks
  <1> QED BY <1>1, <1>2, <1>3, <1>4, Together, Zenon

(* The call of ntfs_write() keeps the invariant. *)
LEMMA WriteStepInv ==
    ASSUME IInv, NEW t \in Threads, Write(t) PROVE IInv'
  <1>1. PICK r \in Requests :
          /\ r.op \in {"write", "append"}
          /\ GoWith(t, IF NInoSparse THEN "failed"
                       ELSE IF r.op = "append" THEN "wexcl" ELSE "wshared",
                    Called(r))
    BY Zenon DEF Write
  <1>2. UNCHANGED <<data, locks>>
    BY Zenon DEF Write
  <1>3. CASE NInoSparse
    BY <1>1, <1>2, <1>3, NewCall, Zenon DEF Places, Holding, Exclusive
  <1>4. CASE ~NInoSparse /\ r.op = "append"
    BY <1>1, <1>2, <1>4, NewCall, Zenon DEF Places, Holding, Exclusive
  <1>5. CASE ~NInoSparse /\ r.op = "write"
    BY <1>1, <1>2, <1>5, NewCall, Zenon DEF Places, Holding, Exclusive
  <1> QED BY <1>1, <1>3, <1>4, <1>5, Zenon

(* The call of ntfs_vnop_setattr() keeps the invariant. *)
LEMMA SetAttrInv ==
    ASSUME IInv, NEW t \in Threads, SetAttr(t) PROVE IInv'
  BY NewCall, Zenon DEF SetAttr, Places, Holding, Exclusive

(* The call of ntfs_inode_sync() keeps the invariant. *)
LEMMA SyncInv ==
    ASSUME IInv, NEW t \in Threads, Sync(t) PROVE IInv'
  BY NewCall, Zenon DEF Sync, Places, Holding, Exclusive

(* The return of a call keeps the invariant. *)
LEMMA ReturnInv ==
    ASSUME IInv, NEW t \in Threads, Return(t) PROVE IInv'
  <1>1. DataTypes' /\ Ordered' /\ Room'
    BY SameData, Zenon DEF Return
  <1>2. ThreadTypes' /\ Mutex'
    BY Zenon DEF IInv, ThreadTypes, Mutex, Return, GoWith, Go, locks, NoCall,
       Locals, Places, Operations
  <1>3. ThreadInv(t)'
    BY DEF IInv, ThreadTypes, ThreadInv, Return, GoWith, Go, Places, Holding, Exclusive,
           NoCall
  <1>4. \A s \in Threads \ {t} : ThreadInv(s)'
    BY OthersQuiet, Zenon DEF IInv, ThreadTypes, Return, GoWith, Go, data,
       locks
  <1> QED BY <1>1, <1>2, <1>3, <1>4, Together

(* ntfs_write() taking ni->lock shared keeps the invariant. *)
LEMMA WriteSharedInv ==
    ASSUME IInv, NEW t \in Threads, WriteShared(t) PROVE IInv'
  <1>1. DataTypes' /\ Ordered' /\ Room'
    BY SameData, Zenon DEF WriteShared
  <1>2. ThreadTypes' /\ Mutex'
    BY Zenon DEF IInv, ThreadTypes, Mutex, WriteShared, Go, Places, Holding
  <1>3. ThreadInv(t)'
    BY DEF IInv, ThreadTypes, ThreadInv, DataTypes, WriteShared, At, Go, Holding,
           Exclusive, data, Locals
  <1>4. \A s \in Threads \ {t} : ThreadInv(s)'
    BY OthersQuiet DEF IInv, ThreadTypes, WriteShared, Go, data
  <1> QED BY <1>1, <1>2, <1>3, <1>4, Together

(* Upgrading the lock, or dropping it, in ntfs_write() keeps it. *)
LEMMA WriteUpgradeInv ==
    ASSUME IInv, NEW t \in Threads, WriteUpgrade(t) PROVE IInv'
  <1>1. DataTypes' /\ Ordered' /\ Room'
    BY SameData, Zenon DEF WriteUpgrade
  <1>2. excl = None /\ t \in shared
    BY FileDataAssumption, Zenon DEF IInv, ThreadTypes, Mutex, ThreadInv,
       WriteUpgrade, At, Holding
  <1>3. ThreadTypes' /\ Mutex'
    BY <1>2, Zenon DEF IInv, ThreadTypes, Mutex, WriteUpgrade, Go, Places,
       Holding
  <1>4. ThreadInv(t)'
    BY <1>2, Zenon DEF IInv, ThreadTypes, ThreadInv, WriteUpgrade, At, Go,
       Holding, Exclusive
  <1>5. \A s \in Threads \ {t} : ThreadInv(s)'
    BY <1>2, OthersQuiet, FileDataAssumption
       DEF IInv, ThreadTypes, WriteUpgrade, Go, data
  <1> QED BY <1>1, <1>3, <1>4, <1>5, Together

(* ntfs_write() taking ni->lock exclusively keeps the invariant. *)
LEMMA WriteExclusiveInv ==
    ASSUME IInv, NEW t \in Threads, WriteExclusive(t) PROVE IInv'
  <1>1. DataTypes' /\ Ordered' /\ Room'
    BY SameData, Zenon DEF WriteExclusive
  <1>2. ThreadTypes' /\ Mutex'
    BY Zenon DEF IInv, ThreadTypes, Mutex, WriteExclusive, Go, Places, Holding
  <1>3. ThreadInv(t)'
    BY Zenon DEF IInv, ThreadTypes, ThreadInv, WriteExclusive, At, Go, Places,
       Holding, Exclusive
  <1>4. \A s \in Threads \ {t} : ThreadInv(s)'
    BY OthersQuiet, FileDataAssumption
       DEF IInv, ThreadTypes, WriteExclusive, Go, data
  <1> QED BY <1>1, <1>2, <1>3, <1>4, Together

(* The tests of ntfs_write() under the lock establish what its later       *)
(* places rely on: where it writes, and that there is room.                *)
LEMMA WriteStartInv ==
    ASSUME IInv, NEW t \in Threads, WriteStart(t) PROVE IInv'
  <1> USE DEF Places, Holding, Exclusive
  <1>1. DataTypes' /\ Ordered' /\ Room'
    BY SameData, Zenon DEF WriteStart
  <1>2. pc[t] = "start" /\ io[t] \in Locals /\ ThreadInv(t) /\ UNCHANGED ni
    BY Zenon DEF WriteStart, At, IInv, ThreadTypes, data
  <1> DEFINE n == io[t].end - io[t].from
             from == IF io[t].op = "append" THEN ni.data ELSE io[t].from
             locals == [io[t] EXCEPT !.from = from, !.end = from + n,
                                     !.old = ni.data]
             place == IF from + n > ni.alloc THEN "walloc" ELSE "winit"
  <1>5. CASE GoWith(t, place, locals) /\ UNCHANGED locks
    <2>1. /\ ni.data \in Nat /\ ni.alloc \in Nat /\ ni.init \in Nat
          /\ ni.init <= ni.alloc
      BY DEF IInv, DataTypes, Ordered
    <2>2. n \in Nat /\ from \in Nat
      BY <1>2, <2>1 DEF Locals, ThreadInv
    <2>4. excl # t => from + n <= ni.init
      BY <1>2, <2>1 DEF ThreadInv, Locals
    <2>5. locals \in Locals /\ locals.from = from /\ locals.end = from + n
      <3>1. from + n \in Nat
        BY <2>2
      <3>2. PICK l \in Locals, a \in Nat, b \in Nat, c \in Nat :
              l = io[t] /\ a = from /\ b = from + n /\ c = ni.data
        BY <1>2, <2>1, <2>2, <3>1, Zenon
      <3>3. locals = [l EXCEPT !.from = a, !.end = b, !.old = c]
        BY <3>2, Zenon
      <3> HIDE DEF n, from, locals
      <3> QED BY Zenon, <3>2, <3>3 DEF Locals
    <2>6. /\ pc' = [pc EXCEPT ![t] = place] /\ io' = [io EXCEPT ![t] = locals]
          /\ excl' = excl /\ shared' = shared /\ place \in {"walloc", "winit"}
      BY <1>5, Zenon DEF GoWith, Go, locks
    <2> HIDE DEF locals
    <2>7. ThreadTypes' /\ Mutex'
      BY <2>5, <2>6, Zenon DEF IInv, ThreadTypes, Mutex
    <2>8. pc'[t] = place /\ io'[t] = locals
      BY <2>6, Zenon DEF IInv, ThreadTypes
    <2>9. ThreadInv(t)'
      BY <1>2, <2>1, <2>2, <2>4, <2>5, <2>6, <2>8 DEF ThreadInv, NInoNonResident
    <2>10. \A s \in Threads \ {t} : ThreadInv(s)'
      BY <1>2, <2>6, OthersQuiet, Zenon DEF IInv, ThreadTypes
    <2> QED BY <1>1, <2>7, <2>9, <2>10, Together
  <1> QED BY <1>5, Zenon DEF WriteStart

(* The abort path of ntfs_write() leaves the sizes in order. *)
LEMMA WriteAbortInv ==
    ASSUME IInv, NEW t \in Threads, WriteAbort(t) PROVE IInv'
  <1> USE DEF Places, Holding, Exclusive
  <1>1. DataTypes' /\ Ordered' /\ Room'
    BY SameData, Zenon DEF WriteAbort
  <1>2. io[t] \in Locals /\ ThreadInv(t) /\ UNCHANGED ni
    BY Zenon DEF WriteAbort, IInv, ThreadTypes, data
  <1>3. ThreadTypes' /\ Mutex'
    BY <1>2 DEF WriteAbort, IInv, ThreadTypes, Mutex, Go, GoWith, Leave, Unlock,
                locks, Locals
  <1>4. ThreadInv(t)'
    BY <1>2 DEF WriteAbort, IInv, ThreadTypes, ThreadInv, Go, GoWith, Leave,
                Unlock, locks, Locals
  <1>5. \A s \in Threads \ {t} : ThreadInv(s)'
    <2>1. CASE excl = t
      BY <1>2, <2>1, OthersQuiet, Zenon DEF WriteAbort, IInv, ThreadTypes, Go,
         GoWith, locks
    <2>2. CASE excl # t
      BY <1>2, <2>2, OthersQuiet
         DEF WriteAbort, IInv, ThreadTypes, Go, Leave, Unlock
    <2> QED BY <2>1, <2>2, Zenon
  <1> QED BY <1>1, <1>3, <1>4, <1>5, Together

(* ntfs_vnop_setattr() taking ni->lock keeps the invariant. *)
LEMMA SetAttrLockInv ==
    ASSUME IInv, NEW t \in Threads, SetAttrLock(t) PROVE IInv'
  <1> USE DEF Places, Holding, Exclusive
  <1>1. DataTypes' /\ Ordered' /\ Room'
    BY SameData, Zenon DEF SetAttrLock
  <1>2. io[t] \in Locals /\ ThreadInv(t) /\ UNCHANGED ni /\ ni.data \in Nat
    BY Zenon DEF SetAttrLock, IInv, ThreadTypes, DataTypes, data
  <1>3. ThreadTypes' /\ Mutex'
    BY <1>2 DEF SetAttrLock, IInv, ThreadTypes, Mutex, Go, GoWith, Locals
  <1>4. ThreadInv(t)'
    BY <1>2 DEF SetAttrLock, IInv, ThreadTypes, ThreadInv, Go, GoWith, Locals
  <1>5. \A s \in Threads \ {t} : ThreadInv(s)'
    BY <1>2, OthersQuiet, FileDataAssumption, ZenonT(60)
       DEF SetAttrLock, IInv, ThreadTypes, Go, GoWith
  <1> QED BY <1>1, <1>3, <1>4, <1>5, Together

-----------------------------------------------------------------------------
(* Steps that move data between memory, the record and the disk. *)

(* The value in a record is within the first page. *)
LEMMA ResidentUnits == 0 .. ResidentMax - 1 \subseteq Units
  <1>1. PageSize <= MaxSize
    BY FileDataAssumption, SMTT(30)
  <1> QED BY <1>1, FileDataAssumption DEF Units

(* The sizes are not concerned. *)
LEMMA SameSizes ==
    ASSUME IInv, ni' = ni, rec'.data = rec.data, rec'.init = rec.init
    PROVE  Ordered' /\ Room'
  BY Zenon DEF IInv, Ordered, Room, NInoNonResident

(* ntfs_vnop_pageout() changes no size and gives no cluster away. *)
LEMMA PageOutStepData ==
    ASSUME IInv, NEW p, PageOutStep(p), UNCHANGED <<ni, ubc, cache>>
    PROVE  DataTypes' /\ Ordered' /\ Room'
  <1>1. CASE NInoNonResident
    <2>1. disk' = Pushed({p}, cache) /\ rec' = rec
      BY <1>1, Zenon DEF PageOutStep
    <2>2. disk' \in [Units -> Values \cup {Hole}]
      BY <2>1, PushedType, Zenon DEF IInv, DataTypes
    <2>3. DataTypes'
      BY Zenon, <2>1, <2>2 DEF IInv, DataTypes
    <2> QED BY <2>1, <2>2, <2>3, SameSizes, Zenon
  <1>2. CASE ~NInoNonResident
    <2> DEFINE val == [u \in DOMAIN rec.val |->
                          IF u < Least(ubc, rec.data) /\ PageOf(u) = p
                          THEN cache[u] ELSE rec.val[u]]
    <2>1. rec' = [rec EXCEPT !.val = val] /\ disk' = disk
      BY <1>2, Zenon DEF PageOutStep
    <2>2. val \in [0 .. ResidentMax - 1 -> Values]
      BY Zenon, ResidentUnits DEF IInv, DataTypes
    <2> HIDE DEF val
    <2>3. DataTypes' /\ rec'.data = rec.data /\ rec'.init = rec.init
      BY <2>1, <2>2, Zenon DEF IInv, DataTypes
    <2> QED BY <2>1, <2>3, SameSizes, Zenon
  <1> QED BY <1>1, <1>2, Zenon

(* Steps of the pager, which no thread takes. *)
LEMMA PagerInv ==
    ASSUME IInv, UNCHANGED <<ni, locks, pc, io>>,
           DataTypes', Ordered', Room'
    PROVE  IInv'
  <1>1. ThreadTypes' /\ Mutex'
    BY Zenon DEF IInv, ThreadTypes, Mutex, locks
  <1>2. \A s \in Threads \ {None} : ThreadInv(s)'
    BY OthersQuiet, Zenon DEF locks
  <1>3. None \notin Threads
    BY FileDataAssumption, Zenon
  <1> QED BY <1>1, <1>2, <1>3, Together, Zenon

(* Only the memory changes. *)
LEMMA CacheData ==
    ASSUME IInv, UNCHANGED <<ni, rec, disk, ubc>>, cache' \in [Units -> Values]
    PROVE  DataTypes' /\ Ordered' /\ Room'
  BY Zenon DEF IInv, DataTypes, Ordered, Room, NInoNonResident

(* And the size the page cache knows. *)
LEMMA CacheSize ==
    ASSUME IInv, UNCHANGED <<ni, rec, disk>>, ubc' \in Nat,
           cache' \in [Units -> Values]
    PROVE  DataTypes' /\ Ordered' /\ Room'
  BY Zenon DEF IInv, DataTypes, Ordered, Room, NInoNonResident

(* Paging in keeps the invariant. *)
LEMMA PageInInv ==
    ASSUME IInv, NEW p, PageIn(p) PROVE IInv'
  <1>1. cache' \in [Units -> Values]
    BY MappedType, Zenon DEF PageIn
  <1>2. UNCHANGED <<ni, rec, disk, ubc, locks, pc, io>>
    BY Zenon DEF PageIn
  <1> QED BY <1>1, <1>2, CacheData, PagerInv, Zenon

(* Giving up a clean page keeps the invariant. *)
LEMMA EvictInv ==
    ASSUME IInv, NEW p, Evict(p) PROVE IInv'
  <1>1. \A u \in Units : cache[u] \in Values
    BY Zenon DEF IInv, DataTypes
  <1>2. cache' \in [Units -> Values]
    BY <1>1, Zenon DEF Evict, Values
  <1>3. UNCHANGED <<ni, rec, disk, ubc, locks, pc, io>>
    BY Zenon DEF Evict
  <1> QED BY <1>2, <1>3, CacheData, PagerInv

(* A store into a mapping keeps the invariant. *)
LEMMA StoreInv ==
    ASSUME IInv, NEW u \in StoreUnits, Store(u) PROVE IInv'
  <1>1. cache' \in [Units -> Values]
    BY Zenon, FileDataAssumption DEF Store, Values, IInv, DataTypes
  <1>2. UNCHANGED <<ni, rec, disk, ubc, locks, pc, io>>
    BY Zenon DEF Store
  <1> QED BY <1>1, <1>2, CacheData, PagerInv, Zenon

(* Paging out on the pager's own account keeps the invariant. *)
LEMMA PageOutInv ==
    ASSUME IInv, NEW p, PageOut(p) PROVE IInv'
  <1>1. UNCHANGED <<ni, ubc, cache, locks, pc, io>> /\ PageOutStep(p)
    BY Zenon DEF PageOut
  <1> QED BY <1>1, PageOutStepData, PagerInv, Zenon

(* Steps of thread t that keep the sizes and the lock. *)
LEMMA Moves ==
    ASSUME IInv, NEW t \in Threads, UNCHANGED <<ni, locks>>,
           NEW place \in Places, pc' = [pc EXCEPT ![t] = place],
           NEW l \in Locals, io' = [io EXCEPT ![t] = l],
           l.op = io[t].op, l.from = io[t].from, l.end = io[t].end,
           l.init = io[t].init,
           place \in Holding => \/ place = pc[t]
                                \/ place = "abort" /\ pc[t] \in Holding
                                \/ place = "copy" /\ pc[t] = "winit"
                                \/ place = "resize2" /\ pc[t] = "resize",
           place \notin {"wshared"},
           DataTypes', Ordered', Room'
    PROVE  IInv'
  <1>1. ThreadTypes' /\ Mutex'
    BY Zenon DEF IInv, ThreadTypes, Mutex, locks
  <1>2. pc'[t] = place /\ io'[t] = l
    BY Zenon DEF IInv, ThreadTypes
  <1>3. excl' = excl /\ shared' = shared /\ ThreadInv(t)
    BY Zenon DEF IInv, locks
  <1>4. ThreadInv(t)'
    BY <1>2, <1>3, Zenon DEF ThreadInv, NInoNonResident, Holding, Exclusive
  <1>5. \A s \in Threads \ {t} : ThreadInv(s)'
    BY <1>3, OthersQuiet, Zenon DEF IInv, ThreadTypes
  <1> QED BY <1>1, <1>4, <1>5, Together, Zenon

(* The next unit behind a page. *)
LEMMA NextPos ==
    ASSUME IInv, NEW t \in Threads
    PROVE  /\ io[t] \in Locals
           /\ Least((PageOf(io[t].pos) + 1) * PageSize, io[t].end) \in Nat
           /\ (PageOf(io[t].pos) + 1) * PageSize \in Nat
  <1>1. io[t] \in Locals /\ io[t].pos \in Nat /\ io[t].end \in Nat
    BY Zenon DEF IInv, ThreadTypes, Locals
  <1>2. (PageOf(io[t].pos) + 1) * PageSize \in Nat
    BY <1>1, PageNat, Zenon
  <1> QED BY <1>1, <1>2, Zenon DEF Least

(* Moving on to another unit is such a step. *)
LEMMA MovesPos ==
    ASSUME IInv, NEW t \in Threads, UNCHANGED <<ni, locks, pc>>,
           NEW pos \in Nat, io' = [io EXCEPT ![t].pos = pos],
           pc[t] \notin {"wshared"},
           DataTypes', Ordered', Room'
    PROVE  IInv'
  <1> DEFINE l == [io[t] EXCEPT !.pos = pos]
  <1>1. io[t] \in Locals /\ pc[t] \in Places /\ pc' = [pc EXCEPT ![t] = pc[t]]
    BY Zenon DEF IInv, ThreadTypes
  <1>2. /\ l \in Locals /\ l.op = io[t].op /\ l.from = io[t].from
        /\ l.end = io[t].end /\ l.init = io[t].init
    BY <1>1, Zenon DEF Locals
  <1>3. io' = [io EXCEPT ![t] = l]
    BY Zenon DEF IInv, ThreadTypes
  <1> HIDE DEF l
  <1>4. UNCHANGED <<ni, locks>>
    OBVIOUS
  <1> QED BY Zenon, <1>1, <1>2, <1>3, <1>4, Moves

(* And so is giving up, or any other step to a place. *)
LEMMA MovesTo ==
    ASSUME IInv, NEW t \in Threads, UNCHANGED <<ni, locks, io>>,
           NEW place \in Places, Go(t, place),
           place \in Holding => \/ place = "abort" /\ pc[t] \in Holding
                                \/ place = "resize2" /\ pc[t] = "resize",
           place \notin {"wshared"},
           DataTypes', Ordered', Room'
    PROVE  IInv'
  <1>1. io[t] \in Locals /\ io' = [io EXCEPT ![t] = io[t]]
    BY Zenon DEF IInv, ThreadTypes
  <1>2. UNCHANGED <<ni, locks>> /\ pc' = [pc EXCEPT ![t] = place]
    BY Zenon DEF Go
  <1> QED BY Zenon, <1>1, <1>2, Moves

(* Copying a page of a write to clusters keeps the invariant. *)
LEMMA WriteCopyInv ==
    ASSUME IInv, NEW t \in Threads, WriteCopy(t) PROVE IInv'
  <1> DEFINE p == PageOf(io[t].pos)
  <1>1. /\ pc[t] = "copy" /\ UNCHANGED <<ni, locks>> /\ rec' = rec /\ ubc' = ubc
        /\ UNCHANGED <<rec, ubc>>
    BY Zenon DEF WriteCopy, At
  <1>3. CASE /\ cache' = Filled(t)
             /\ io' = [io EXCEPT ![t].pos = Least((p + 1) * PageSize, io[t].end)]
             /\ UNCHANGED pc
             /\ \/ UNCHANGED disk
                \/ disk' = Pushed(behind \cup {p}, cache')
    <2>1. cache' \in [Units -> Values]
      BY <1>3, FilledType, Zenon
    <2>2. disk' \in [Units -> Values \cup {Hole}]
      <3>1. CASE disk' = disk
        BY <3>1, Zenon DEF IInv, DataTypes
      <3>2. CASE disk' = Pushed(behind \cup {p}, cache')
        <4>1. PICK mem \in [Units -> Values] : mem = cache'
          BY <2>1, Zenon
        <4> QED BY <3>2, <4>1, PushedType, Zenon
      <3> QED BY <1>3, <3>1, <3>2, Zenon
    <2>3. DataTypes'
      BY <1>1, <2>1, <2>2, Zenon DEF IInv, DataTypes
    <2>4. Ordered' /\ Room'
      BY <1>1, <2>2, SameSizes, Zenon
    <2>5. Least((p + 1) * PageSize, io[t].end) \in Nat
      BY NextPos, Zenon
    <2> QED BY Zenon, <1>1, <1>3, <2>3, <2>4, <2>5, MovesPos
  <1>4. CASE Go(t, "abort") /\ UNCHANGED <<cache, dirty, behind, disk, io>>
    <2>1. DataTypes' /\ Ordered' /\ Room'
      BY <1>1, <1>4, CacheData, Zenon DEF IInv, DataTypes
    <2> QED BY <1>1, <1>4, <2>1, MovesTo, Zenon DEF Places, Holding, Exclusive
  <1> QED BY <1>3, <1>4, Zenon DEF WriteCopy

(* Copying a write into a resident value keeps the invariant. *)
LEMMA WriteCopyResidentInv ==
    ASSUME IInv, NEW t \in Threads, WriteCopyResident(t) PROVE IInv'
  <1>1. pc[t] = "copy" /\ UNCHANGED <<ni, rec, disk, ubc, locks>>
    BY Zenon DEF WriteCopyResident, At
  <1>2. CASE /\ cache' = Filled(t)
             /\ io' = [io EXCEPT ![t].pos = io[t].end]
             /\ UNCHANGED pc
    <2>1. DataTypes' /\ Ordered' /\ Room'
      BY <1>1, <1>2, FilledType, CacheData, Zenon
    <2>2. io[t].end \in Nat
      BY Zenon DEF IInv, ThreadTypes, Locals
    <2> QED BY Zenon, <1>1, <1>2, <2>1, <2>2, MovesPos
  <1>3. CASE Go(t, "abort") /\ UNCHANGED <<cache, dirty, io>>
    <2>1. DataTypes' /\ Ordered' /\ Room'
      BY <1>1, <1>3, CacheData, Zenon DEF IInv, DataTypes
    <2> QED BY <1>1, <1>3, <2>1, MovesTo, Zenon DEF Places, Holding, Exclusive
  <1> QED BY <1>2, <1>3, Zenon DEF WriteCopyResident

(* ntfs_inode_sync() pushing the dirty data keeps the invariant. *)
LEMMA SyncPushInv ==
    ASSUME IInv, NEW t \in Threads, SyncPush(t) PROVE IInv'
  <1> DEFINE l == [io[t] EXCEPT !.pos = 0, !.old = ubc]
  <1>1. /\ pc[t] = "slock" /\ UNCHANGED <<ni, locks>> /\ rec' = rec /\ ubc' = ubc
        /\ cache' = cache
        /\ pc' = [pc EXCEPT ![t] = "msync"] /\ io' = [io EXCEPT ![t] = l]
    BY Zenon DEF SyncPush, At, Go, GoWith
  <1>2. cache \in [Units -> Values]
    BY Zenon DEF IInv, DataTypes
  <1>3. disk' \in [Units -> Values \cup {Hole}]
    <2>1. CASE NInoNonResident
      <3>1. PICK done : disk' = Pushed(done, cache)
        BY <2>1, Zenon DEF SyncPush, ClusterPush
      <3> QED BY <1>2, <3>1, PushedType, Zenon
    <2>2. CASE ~NInoNonResident
      BY <2>2, Zenon DEF SyncPush, ClusterPush, IInv, DataTypes
    <2> QED BY <2>1, <2>2, Zenon
  <1>4. DataTypes'
    BY <1>1, <1>2, <1>3, Zenon DEF IInv, DataTypes
  <1>5. Ordered' /\ Room'
    BY <1>1, <1>3, SameSizes, Zenon
  <1>6. /\ l \in Locals /\ l.op = io[t].op /\ l.from = io[t].from
        /\ l.end = io[t].end /\ l.init = io[t].init
    <2>1. PICK m \in Locals, n \in Nat : m = io[t] /\ n = ubc
      BY Zenon DEF IInv, ThreadTypes, DataTypes
    <2>2. l = [m EXCEPT !.pos = 0, !.old = n]
      BY <2>1, Zenon
    <2> HIDE DEF l
    <2> QED BY Zenon, <2>1, <2>2 DEF Locals
  <1>7. "msync" \in Places \ Holding /\ "msync" \notin {"wshared"}
    BY Zenon DEF Places, Holding, Exclusive
  <1> HIDE DEF l
  <1> QED BY Zenon, <1>1, <1>4, <1>5, <1>6, <1>7, Moves

(* ubc_msync() pushing one page keeps the invariant. *)
LEMMA SyncPageInv ==
    ASSUME IInv, NEW t \in Threads, SyncPage(t) PROVE IInv'
  <1> DEFINE p == PageOf(io[t].pos)
             next == (p + 1) * PageSize
  <1>1. /\ pc[t] = "msync" /\ UNCHANGED <<ni, locks>> /\ UNCHANGED <<ni, ubc, cache>>
    BY Zenon DEF SyncPage, At
  <1>2. next \in Nat
    BY NextPos, Zenon
  <1>3. CASE /\ io' = [io EXCEPT ![t].pos = next]
             /\ UNCHANGED <<rec, disk, dirty, behind, pc>>
    <2>1. DataTypes' /\ Ordered' /\ Room'
      BY <1>1, <1>3, CacheData, Zenon DEF IInv, DataTypes
    <2> QED BY Zenon, <1>1, <1>2, <1>3, <2>1, MovesPos
  <1>4. CASE PageOutStep(p) /\ io' = [io EXCEPT ![t].pos = next] /\ UNCHANGED pc
    <2>1. DataTypes' /\ Ordered' /\ Room'
      BY <1>1, <1>4, PageOutStepData, Zenon
    <2> QED BY Zenon, <1>1, <1>2, <1>4, <2>1, MovesPos
  <1>5. CASE Go(t, "failed") /\ UNCHANGED <<rec, disk, dirty, behind, io>>
    <2>1. DataTypes' /\ Ordered' /\ Room'
      BY <1>1, <1>5, CacheData, Zenon DEF IInv, DataTypes
    <2> QED BY <1>1, <1>5, <2>1, MovesTo, Zenon DEF Places, Holding, Exclusive
  <1> QED BY <1>3, <1>4, <1>5, Zenon DEF SyncPage

(* ntfs_inode_sync() writing the record keeps the invariant. *)
LEMMA SyncRecordInv ==
    ASSUME IInv, NEW t \in Threads, SyncRecord(t) PROVE IInv'
  <1>1. UNCHANGED <<ni, rec, disk, ubc>> /\ cache' = cache /\ UNCHANGED <<ni, locks, io>>
    BY Zenon DEF SyncRecord
  <1>2. DataTypes' /\ Ordered' /\ Room'
    BY <1>1, CacheData, Zenon DEF IInv, DataTypes
  <1>3. Go(t, "ok") \/ Go(t, "failed")
    BY Zenon DEF SyncRecord
  <1> QED BY <1>1, <1>2, <1>3, MovesTo, Zenon DEF Places, Holding, Exclusive

(* The size a truncation, or a failed write, goes to. *)
LEMMA TargetType ==
    ASSUME IInv, NEW t \in Threads
    PROVE  Target(t) \in Nat
  BY Zenon DEF IInv, ThreadTypes, Locals, Target, Most

(* ntfs_attr_resize() cutting the cache keeps the invariant. *)
LEMMA ResizeCacheInv ==
    ASSUME IInv, NEW t \in Threads, ResizeCache(t) PROVE IInv'
  <1> DEFINE l == [io[t] EXCEPT !.pos = ubc]
  <1>1. /\ pc[t] = "resize" /\ UNCHANGED <<ni, locks>> /\ rec' = rec /\ disk' = disk
        /\ pc' = [pc EXCEPT ![t] = "resize2"] /\ io' = [io EXCEPT ![t] = l]
    BY Zenon DEF ResizeCache, At, GoWith, Go
  <1>2. cache' \in [Units -> Values] /\ ubc' \in Nat
    BY TargetType, SetSizeType, Zenon DEF ResizeCache, IInv, DataTypes
  <1>3. DataTypes' /\ Ordered' /\ Room'
    BY <1>1, <1>2, CacheSize, Zenon
  <1>4. /\ l \in Locals /\ l.op = io[t].op /\ l.from = io[t].from
        /\ l.end = io[t].end /\ l.init = io[t].init
    <2>1. PICK m \in Locals, n \in Nat : m = io[t] /\ n = ubc
      BY Zenon DEF IInv, ThreadTypes, DataTypes
    <2>2. l = [m EXCEPT !.pos = n]
      BY <2>1, Zenon
    <2> HIDE DEF l
    <2> QED BY Zenon, <2>1, <2>2 DEF Locals
  <1>5. "resize2" \in Places
    BY Zenon DEF Places, Holding, Exclusive
  <1> HIDE DEF l
  <1> QED BY Zenon, <1>1, <1>3, <1>4, <1>5, Moves

-----------------------------------------------------------------------------
(* Steps that change the sizes, and with the exclusive lock only. *)

(* A step of the thread that holds ni->lock exclusively keeps IInv if it   *)
(* keeps the data and that thread's part of it: no other thread is at a    *)
(* place that relies on the sizes.                                         *)
LEMMA SizeStep ==
    ASSUME IInv, NEW t \in Threads, excl = t, excl' \in {t, None}, shared' = {},
           NEW place \in Places, pc' = [pc EXCEPT ![t] = place],
           NEW l \in Locals, io' = [io EXCEPT ![t] = l],
           ThreadInv(t)', DataTypes', Ordered', Room'
    PROVE  IInv'
  <1>1. shared = {}
    BY FileDataAssumption, Zenon DEF IInv, Mutex, ThreadTypes
  <1>2. ThreadTypes' /\ Mutex'
    BY Zenon DEF IInv, ThreadTypes, Mutex
  <1>3. \A s \in Threads \ {t} : ThreadInv(s)'
    BY <1>1, OthersLocked, Zenon DEF IInv, ThreadTypes
  <1> QED BY <1>2, <1>3, Together, Zenon

(* The call goes on, with the lock, *)
LEMMA SizeKeep ==
    ASSUME IInv, NEW t \in Threads, excl = t, UNCHANGED locks,
           NEW place \in Places \ {"wshared", "upgrade"},
           pc' = [pc EXCEPT ![t] = place],
           NEW l \in Locals, io' = [io EXCEPT ![t] = l],
           l.from <= l.end,
           place \in {"winit", "zero", "copy"} => l.end <= ni'.alloc,
           place = "walloc" => "NonResident" \in ni'.flags,
           place = "zero" => l.from <= ni'.data /\ l.init <= ni'.data,
           DataTypes', Ordered', Room'
    PROVE  IInv'
  <1>1. shared' = {} /\ excl' = t
    BY FileDataAssumption, Zenon DEF IInv, Mutex, ThreadTypes, locks
  <1>2. pc'[t] = place /\ io'[t] = l
    BY Zenon DEF IInv, ThreadTypes
  <1>3. ThreadInv(t)'
    BY <1>1, <1>2, Zenon DEF ThreadInv, NInoNonResident, Holding, Exclusive
  <1> QED BY Zenon, <1>1, <1>3, SizeStep

(* or gives the lock up and ends. *)
LEMMA SizeLeave ==
    ASSUME IInv, NEW t \in Threads, excl = t,
           NEW result \in {"ok", "failed"}, Leave(t, result), io' = io,
           DataTypes', Ordered', Room'
    PROVE  IInv'
  <1>1. shared' = {} /\ excl' = None /\ pc' = [pc EXCEPT ![t] = result]
    BY FileDataAssumption, Zenon DEF IInv, Mutex, ThreadTypes, Leave, Unlock,
       Go
  <1>2. pc'[t] = result /\ io'[t] = io[t] /\ io[t] \in Locals
        /\ io' = [io EXCEPT ![t] = io[t]]
    BY <1>1, Zenon DEF IInv, ThreadTypes
  <1>3. ThreadInv(t)'
    BY <1>1, <1>2, Zenon DEF IInv, ThreadInv, Holding, Exclusive
  <1>4. result \in Places
    BY Zenon DEF Places
  <1> QED BY Zenon, <1>1, <1>2, <1>3, <1>4, SizeStep

(* A write without space goes on with what is allocated, or fails. *)
LEMMA NoSpace ==
    ASSUME IInv, NEW t \in Threads, excl = t, UNCHANGED locks,
           UNCHANGED <<ni, rec, disk, ubc, cache>>, WriteNoSpace(t)
    PROVE  IInv'
  <1>1. DataTypes' /\ Ordered' /\ Room'
    BY CacheData, Zenon DEF IInv, DataTypes
  <1>2. io[t] \in Locals /\ ni.alloc \in Nat /\ ThreadInv(t) /\ ni'.alloc = ni.alloc
    BY Zenon DEF IInv, DataTypes, ThreadTypes
  <1>3. CASE io[t].from < ni.alloc /\ "IO_UNIT" \notin io[t].ioflags
    <2> DEFINE l == [io[t] EXCEPT !.end = ni.alloc]
    <2>1. pc' = [pc EXCEPT ![t] = "winit"] /\ io' = [io EXCEPT ![t] = l]
      BY <1>3, Zenon DEF WriteNoSpace, GoWith, Go
    <2>2. l \in Locals /\ l.from <= l.end /\ l.end = ni.alloc
      BY <1>2, <1>3 DEF Locals
    <2> HIDE DEF l
    <2>3. "winit" \in Places \ {"wshared", "upgrade"}
      BY Zenon DEF Places, Holding
    <2>4. l.end <= ni'.alloc
      BY <1>2, <2>2
    <2> QED BY Zenon, <1>1, <1>2, <2>1, <2>2, <2>3, <2>4, SizeKeep
  <1>4. CASE ~(io[t].from < ni.alloc /\ "IO_UNIT" \notin io[t].ioflags)
    <2>1. Go(t, "abort") /\ io' = io
      BY <1>4, Zenon DEF WriteNoSpace
    <2>2. pc' = [pc EXCEPT ![t] = "abort"] /\ io' = [io EXCEPT ![t] = io[t]]
      BY <2>1, Zenon DEF IInv, ThreadTypes, Go
    <2>3. "abort" \in Places \ {"wshared", "upgrade"}
      BY Zenon DEF Places, Holding
    <2>4. io[t].from <= io[t].end
      BY <1>2, Zenon DEF ThreadInv
    <2> QED BY Zenon, <1>1, <1>2, <2>2, <2>3, <2>4, SizeKeep
  <1> QED BY <1>3, <1>4, Zenon

(* ntfs_attr_extend_allocation() called by a write keeps the sizes in      *)
(* order, whether it succeeds, stops half way or fails.                    *)
LEMMA WriteExtendInv ==
    ASSUME IInv, NEW t \in Threads, WriteExtend(t) PROVE IInv'
  <1>1. /\ pc[t] = "walloc" /\ UNCHANGED locks /\ cache' = cache /\ ubc' = ubc
        /\ io[t] \in Locals /\ excl = t /\ ThreadInv(t)
    BY Zenon DEF WriteExtend, At, IInv, ThreadTypes, ThreadInv, Exclusive
  <1>2. /\ ni.alloc \in Nat /\ ni.data \in Nat /\ ni.init \in Nat /\ ubc \in Nat
        /\ io[t].end \in Nat /\ io[t].from <= io[t].end
        /\ io' = io => io' = [io EXCEPT ![t] = io[t]]
    BY <1>1, Zenon DEF IInv, DataTypes, Locals, ThreadInv, ThreadTypes
  <1>3. "winit" \in Places \ {"wshared", "upgrade"}
    BY Zenon DEF Places, Holding
  <1>4. CASE /\ ~NInoNonResident /\ io[t].end <= ResidentMax
             /\ ni' = [ni EXCEPT !.alloc = io[t].end]
             /\ rec' = [rec EXCEPT !.val = [u \in DOMAIN rec.val |->
                           IF u < ni.alloc THEN rec.val[u] ELSE Junk]]
             /\ Go(t, "winit")
             /\ UNCHANGED <<disk, io>>
    <2> DEFINE val == [u \in DOMAIN rec.val |->
                         IF u < ni.alloc THEN rec.val[u] ELSE Junk]
    <2>1. val \in [0 .. ResidentMax - 1 -> Values]
      BY Zenon DEF IInv, DataTypes, Values
    <2>2. rec' = [rec EXCEPT !.val = val]
      BY <1>4, Zenon
    <2> HIDE DEF val
    <2>3. /\ DataTypes' /\ rec'.data = rec.data /\ rec'.init = rec.init
          /\ ni'.alloc = io[t].end /\ ni'.data = ni.data /\ ni'.init = ni.init
          /\ ni'.flags = ni.flags
      BY <1>1, <1>2, <1>4, <2>1, <2>2, Zenon DEF IInv, DataTypes
    <2>4. ni.alloc < io[t].end
      BY <1>1, <1>2, <1>4, Zenon DEF ThreadInv
    <2>5. Ordered' /\ Room'
      BY <1>1, <1>2, <1>4, <2>3, <2>4
         DEF IInv, Ordered, Room, NInoNonResident
    <2>6. /\ pc' = [pc EXCEPT ![t] = "winit"] /\ io' = [io EXCEPT ![t] = io[t]]
          /\ io[t].end <= ni'.alloc
      BY <1>2, <1>4, <2>3 DEF Go
    <2> QED BY Zenon, <1>1, <1>2, <1>3, <2>3, <2>5, <2>6, SizeKeep
  <1>5. CASE /\ NInoNonResident
             /\ Extended(io[t].end)
             /\ Go(t, "winit")
             /\ UNCHANGED <<rec, io>>
    <2> DEFINE size == RoundUp(io[t].end)
               most == Most(ni.alloc, size)
    <2>1. size \in Nat /\ io[t].end <= size /\ size % ClusterSize = 0
      BY <1>2, RoundUpFits, Zenon
    <2>2. ni' = [ni EXCEPT !.alloc = most]
      BY <1>5, Zenon DEF Extended
    <2>3. disk' \in [Units -> Values \cup {Hole}]
      BY <1>5, Zenon DEF Extended, IInv, DataTypes, Values
    <2> HIDE DEF size
    <2>4. /\ most \in Nat /\ ni.alloc <= most /\ io[t].end <= most
          /\ most % ClusterSize = 0
      BY <1>2, <1>5, <2>1 DEF Most, IInv, Room
    <2> HIDE DEF most
    <2>5. /\ ni'.alloc = most /\ ni'.data = ni.data /\ ni'.init = ni.init
          /\ ni'.flags = ni.flags /\ DataTypes'
      BY <1>1, <1>5, <2>2, <2>3, <2>4, ZenonT(60) DEF IInv, DataTypes
    <2>6. Ordered' /\ Room'
      BY <1>1, <1>2, <1>5, <2>4, <2>5 DEF IInv, Ordered, Room, NInoNonResident
    <2>7. /\ pc' = [pc EXCEPT ![t] = "winit"] /\ io' = [io EXCEPT ![t] = io[t]]
          /\ io[t].end <= ni'.alloc
      BY <1>2, <1>5, <2>4, <2>5, Zenon DEF Go
    <2> QED BY Zenon, <1>1, <1>2, <1>3, <2>5, <2>6, <2>7, SizeKeep
  <1>6. CASE WriteNoSpace(t) /\ UNCHANGED <<ni, rec, disk>>
    BY <1>1, <1>6, NoSpace, Zenon
  <1> QED BY <1>4, <1>5, <1>6, Zenon DEF WriteExtend

(* A value that moves into clusters. *)
LEMMA MakeNonResidentData ==
    ASSUME IInv, MakeNonResident, ubc' = ubc
    PROVE  /\ DataTypes' /\ Ordered' /\ Room'
           /\ "NonResident" \in ni'.flags
  <1> DEFINE size == RoundUp(ni.data)
  <1>1. size \in Nat /\ ni.data <= size /\ size % ClusterSize = 0
    BY RoundUpFits, Zenon DEF IInv, DataTypes
  <1> HIDE DEF size
  <1>2. ni' = [ni EXCEPT !.alloc = size, !.flags = ni.flags \cup {"NonResident"}]
    BY Zenon DEF MakeNonResident, size
  <1>3. /\ ni'.alloc = size /\ ni'.data = ni.data /\ ni'.init = ni.init
        /\ ni'.flags = ni.flags \cup {"NonResident"}
    BY <1>2, Zenon DEF IInv, DataTypes
  <1>4. ni' \in [alloc : Nat, data : Nat, init : Nat,
                 flags : SUBSET {"NonResident", "Sparse"}]
    BY Zenon, <1>1, <1>2, <1>3 DEF IInv, DataTypes
  <1>5. /\ rec' \in [data : Nat, init : Nat, where : {"record", "clusters"},
                     val : [0 .. ResidentMax - 1 -> Values]]
        /\ rec'.data = rec.data /\ rec'.init = rec.init
    BY Zenon DEF MakeNonResident, IInv, DataTypes
  <1>6. disk' \in [Units -> Values \cup {Hole}]
    BY Zenon DEF MakeNonResident, Values
  <1>7. cache' \in [Units -> Values]
    BY MappedType, Zenon DEF MakeNonResident, IInv, DataTypes
  <1>8. DataTypes'
    BY <1>4, <1>5, <1>6, <1>7, Zenon DEF IInv, DataTypes
  <1>9. Ordered' /\ Room'
    BY <1>1, <1>3, <1>5, <1>6, Zenon DEF IInv, DataTypes, Ordered, Room,
       NInoNonResident
  <1> QED BY <1>3, <1>8, <1>9, Zenon

(* A write that makes the attribute non-resident keeps the invariant. *)
LEMMA WriteConvertInv ==
    ASSUME IInv, NEW t \in Threads, WriteConvert(t) PROVE IInv'
  <1>1. /\ pc[t] = "walloc" /\ UNCHANGED locks /\ ubc' = ubc
        /\ io[t] \in Locals /\ excl = t /\ io[t].from <= io[t].end
    BY Zenon DEF WriteConvert, At, IInv, ThreadTypes, ThreadInv, Exclusive
  <1>2. CASE MakeNonResident /\ UNCHANGED <<pc, io>>
    <2>1. /\ pc' = [pc EXCEPT ![t] = "walloc"] /\ io' = [io EXCEPT ![t] = io[t]]
          /\ "walloc" \in Places \ {"wshared", "upgrade"}
      BY <1>1, <1>2, Zenon DEF IInv, ThreadTypes, Places, Holding, Exclusive
    <2>2. DataTypes' /\ Ordered' /\ Room' /\ "NonResident" \in ni'.flags
      BY <1>1, <1>2, MakeNonResidentData, Zenon
    <2> QED BY Zenon, <1>1, <2>1, <2>2, SizeKeep
  <1>3. CASE WriteNoSpace(t) /\ UNCHANGED <<ni, rec, disk, cache, dirty>>
    BY <1>1, <1>3, NoSpace, Zenon
  <1> QED BY <1>2, <1>3, Zenon DEF WriteConvert

(* A resize that fails before it changed a size keeps the invariant. *)
LEMMA ResizeFails ==
    ASSUME IInv, NEW t \in Threads, excl = t, SetUbc(rec.data) \/ SetUbc(io[t].pos),
           Leave(t, ResizeFailed(t)), UNCHANGED <<ni, rec, disk>>, io' = io
    PROVE  IInv'
  <1>1. rec.data \in Nat /\ io[t].pos \in Nat
    BY Zenon DEF IInv, DataTypes, ThreadTypes, Locals
  <1>2. cache' \in [Units -> Values] /\ ubc' \in Nat
    BY <1>1, SetUbcType, Zenon
  <1>3. DataTypes' /\ Ordered' /\ Room'
    BY <1>2, CacheSize, Zenon
  <1>4. ResizeFailed(t) \in {"ok", "failed"}
    BY Zenon DEF ResizeFailed, Result
  <1> QED BY <1>3, <1>4, SizeLeave, Zenon

(* A truncation that makes the attribute non-resident keeps it. *)
LEMMA ResizeConvertInv ==
    ASSUME IInv, NEW t \in Threads, ResizeConvert(t) PROVE IInv'
  <1>1. /\ pc[t] = "resize2" /\ io' = io
        /\ io[t] \in Locals /\ excl = t /\ io[t].from <= io[t].end
    BY Zenon DEF ResizeConvert, At, IInv, ThreadTypes, ThreadInv, Exclusive
  <1>2. CASE MakeNonResident /\ UNCHANGED <<ubc, behind, locks, pc>>
    <2>1. /\ pc' = [pc EXCEPT ![t] = "resize2"] /\ io' = [io EXCEPT ![t] = io[t]]
          /\ "resize2" \in Places \ {"wshared", "upgrade"}
          /\ UNCHANGED locks
      BY <1>1, <1>2, Zenon DEF IInv, ThreadTypes, Places, Holding, Exclusive
    <2>2. DataTypes' /\ Ordered' /\ Room'
      BY <1>1, <1>2, MakeNonResidentData, Zenon
    <2> QED BY Zenon, <1>1, <2>1, <2>2, SizeKeep
  <1>3. CASE /\ SetUbc(rec.data) /\ Leave(t, ResizeFailed(t))
             /\ UNCHANGED <<ni, rec, disk>>
    BY <1>1, <1>3, ResizeFails, Zenon
  <1> QED BY <1>2, <1>3, Zenon DEF ResizeConvert

(* A record with new sizes and another value has the type of a record. *)
LEMMA RecordType ==
    ASSUME IInv, NEW d \in Nat, NEW i \in Nat,
           NEW v \in [0 .. ResidentMax - 1 -> Values],
           rec' = [rec EXCEPT !.data = d, !.init = i, !.val = v]
    PROVE  /\ rec' \in [data : Nat, init : Nat, where : {"record", "clusters"},
                        val : [0 .. ResidentMax - 1 -> Values]]
           /\ rec'.data = d /\ rec'.init = i
  BY Zenon DEF IInv, DataTypes

(* Sizes that are all the same, and within the allocation, are in order. *)
LEMMA OneSize ==
    ASSUME NEW d \in Nat, NEW e \in Nat, NEW a \in Nat, d <= e, e <= a,
           ni'.init = d, ni'.data = d, ni'.alloc = a,
           rec'.init = d, rec'.data = d
    PROVE  Ordered'
  BY DEF Ordered

(* ntfs_write() setting the data size, and the start of                    *)
(* ntfs_attr_extend_initialized(), keep the sizes in order.                *)
LEMMA WriteInitInv ==
    ASSUME IInv, NEW t \in Threads, WriteInit(t) PROVE IInv'
  <1> DEFINE from == io[t].from
             l == [io[t] EXCEPT !.pos = from]
  <1>1. /\ pc[t] = "winit" /\ UNCHANGED locks /\ disk' = disk
        /\ io[t] \in Locals /\ ThreadInv(t)
    BY Zenon DEF WriteInit, At, IInv, ThreadTypes
  <1>2. /\ from \in Nat /\ io[t].end \in Nat /\ from <= io[t].end
        /\ io[t].end <= ni.alloc
        /\ ni \in [alloc : Nat, data : Nat, init : Nat,
                   flags : SUBSET {"NonResident", "Sparse"}]
        /\ ni.alloc \in Nat /\ ni.data \in Nat /\ ni.init \in Nat /\ ubc \in Nat
        /\ rec.data \in Nat /\ rec.init \in Nat
    BY <1>1, Zenon DEF IInv, DataTypes, Locals, ThreadInv
  <1>3. /\ l \in Locals /\ l.op = io[t].op /\ l.from = from
        /\ l.end = io[t].end /\ l.init = io[t].init
    BY <1>1, <1>2, Zenon DEF Locals
  <1>4. from > ni.init => excl = t
    BY <1>1, <1>2 DEF ThreadInv
  <1>5. {"copy", "zero", "abort"} \subseteq Places \ {"wshared", "upgrade"}
    BY Zenon DEF Places, Holding, Exclusive
  <1>6. CASE GoWith(t, "copy", l) /\ UNCHANGED <<ni, rec, ubc, cache>>
    <2>1. DataTypes' /\ Ordered' /\ Room'
      BY <1>1, <1>6, CacheData, Zenon DEF IInv, DataTypes
    <2>2. pc' = [pc EXCEPT ![t] = "copy"] /\ io' = [io EXCEPT ![t] = l]
      BY <1>6, Zenon DEF GoWith, Go
    <2>3. UNCHANGED <<ni, locks>>
      BY <1>1, <1>6, Zenon
    <2> HIDE DEF l
    <2> QED BY Zenon, <1>1, <1>3, <1>5, <2>1, <2>2, <2>3, Moves
  <1>7. CASE /\ from > ni.init /\ ~NInoNonResident
             /\ rec' = [rec EXCEPT !.data = from, !.init = from,
                           !.val = [u \in DOMAIN rec.val |->
                             IF rec.data <= u /\ u < from THEN Zero
                             ELSE rec.val[u]]]
             /\ ni' = [ni EXCEPT !.data = from, !.init = from]
             /\ SetUbc(from)
             /\ GoWith(t, "copy", l)
    <2> DEFINE val == [u \in DOMAIN rec.val |->
                         IF rec.data <= u /\ u < from THEN Zero ELSE rec.val[u]]
    <2>1. val \in [0 .. ResidentMax - 1 -> Values]
      BY Zenon DEF IInv, DataTypes, Values
    <2>2. rec' = [rec EXCEPT !.data = from, !.init = from, !.val = val]
      BY <1>7, Zenon
    <2> HIDE DEF val
    <2>3. /\ rec' \in [data : Nat, init : Nat, where : {"record", "clusters"},
                       val : [0 .. ResidentMax - 1 -> Values]]
          /\ rec'.data = from /\ rec'.init = from
      BY Zenon, <1>2, <2>1, <2>2, RecordType
    <2>4. /\ ni' \in [alloc : Nat, data : Nat, init : Nat,
                      flags : SUBSET {"NonResident", "Sparse"}]
          /\ ni'.data = from /\ ni'.init = from /\ ni'.alloc = ni.alloc
          /\ ni'.flags = ni.flags
      BY Zenon, <1>2, <1>7
    <2>5. DataTypes'
      <3>1. cache' \in [Units -> Values] /\ ubc' \in Nat
        BY <1>2, <1>7, SetUbcType, Zenon
      <3> QED BY Zenon, <1>1, <2>3, <2>4, <3>1 DEF IInv, DataTypes
    <2>6. Ordered' /\ Room'
      <3>1. ~NInoNonResident /\ ni.alloc <= ResidentMax
        BY <1>7, Zenon DEF IInv, Room
      <3>2. ~NInoNonResident'
        BY Zenon, <2>4, <3>1 DEF NInoNonResident
      <3>3. Room'
        BY Zenon, <2>4, <3>1, <3>2 DEF Room
      <3>4. Ordered'
        BY ZenonT(60), <1>2, <2>3, <2>4, <3>1, OneSize
      <3> QED BY Zenon, <3>3, <3>4
    <2>7. /\ pc' = [pc EXCEPT ![t] = "copy"] /\ io' = [io EXCEPT ![t] = l]
          /\ l.from <= l.end /\ l.end <= ni'.alloc /\ excl = t
      BY <1>2, <1>3, <1>4, <1>7, <2>4, Zenon DEF GoWith, Go
    <2> HIDE DEF l
    <2> QED BY Zenon, <1>1, <1>3, <1>5, <2>5, <2>6, <2>7, SizeKeep
  <1>8. CASE /\ from > ni.init /\ NInoNonResident
             /\ ni' = [ni EXCEPT !.data = Most(ni.data, from)]
             /\ rec' = [rec EXCEPT !.data = Most(rec.data, from)]
             /\ Learn(from)
             /\ GoWith(t, "zero", [io[t] EXCEPT !.init = ni.init,
                                     !.pos = PageOf(ni.init) * PageSize])
    <2> DEFINE pos == PageOf(ni.init) * PageSize
               m == [io[t] EXCEPT !.init = ni.init, !.pos = pos]
    <2>1. pos \in Nat
      BY <1>2, PageNat, Zenon
    <2>2. /\ m \in Locals /\ m.from = from /\ m.end = io[t].end
          /\ m.init = ni.init
      <3>1. PICK a \in Locals, b \in Nat, c \in Nat :
              a = io[t] /\ b = ni.init /\ c = pos
        BY <1>1, <1>2, <2>1, Zenon
      <3>2. m = [a EXCEPT !.init = b, !.pos = c]
        BY <3>1, Zenon
      <3> HIDE DEF m, pos
      <3> QED BY Zenon, <3>1, <3>2 DEF Locals
    <2>3. /\ DataTypes' /\ ni'.data = Most(ni.data, from) /\ ni'.init = ni.init
          /\ ni'.alloc = ni.alloc /\ ni'.flags = ni.flags
          /\ rec'.data = Most(rec.data, from) /\ rec'.init = rec.init
      <3>1. cache' \in [Units -> Values] /\ ubc' \in Nat
        BY <1>2, <1>8, LearnType, Zenon
      <3> QED BY <1>1, <1>2, <1>8, <3>1, ZenonT(60) DEF IInv, DataTypes, Most
    <2>4. Ordered' /\ Room'
      BY <1>1, <1>2, <1>8, <2>3
         DEF IInv, Ordered, Room, NInoNonResident, Most
    <2>5. /\ pc' = [pc EXCEPT ![t] = "zero"] /\ io' = [io EXCEPT ![t] = m]
      BY <1>8, Zenon DEF GoWith, Go
    <2>6. /\ m.from <= m.end /\ m.end <= ni'.alloc /\ excl = t
          /\ m.from <= ni'.data /\ m.init <= ni'.data
      BY <1>2, <1>4, <1>8, <2>2, <2>3 DEF Most, IInv, Ordered
    <2> HIDE DEF m
    <2> QED BY Zenon, <1>1, <1>5, <2>2, <2>3, <2>4, <2>5, <2>6, SizeKeep
  <1>9. CASE /\ from > IF NInoNonResident THEN ni.data ELSE ni.init
             /\ Go(t, "abort")
             /\ UNCHANGED <<ni, rec, ubc, cache, io>>
    <2>1. DataTypes' /\ Ordered' /\ Room'
      BY <1>1, <1>9, CacheData, Zenon DEF IInv, DataTypes
    <2>2. excl = t
      BY <1>2, <1>4, <1>9 DEF IInv, Ordered
    <2>3. pc' = [pc EXCEPT ![t] = "abort"] /\ io' = [io EXCEPT ![t] = io[t]]
      BY <1>9, Zenon DEF Go, IInv, ThreadTypes
    <2> HIDE DEF l
    <2> QED BY Zenon, <1>1, <1>2, <1>5, <2>1, <2>2, <2>3, SizeKeep
  <1> QED BY <1>6, <1>7, <1>8, <1>9, Zenon DEF WriteInit

(* The initialized size moves, within the data size. *)
LEMMA InitData ==
    ASSUME IInv, NEW i \in Nat, i <= ni.data, ni' = [ni EXCEPT !.init = i],
           disk' = disk, ubc' = ubc, rec' = rec, cache' \in [Units -> Values]
    PROVE  /\ DataTypes' /\ Ordered' /\ Room'
           /\ ni'.alloc = ni.alloc /\ ni'.data = ni.data /\ ni'.init = i
  <1>1. /\ DataTypes' /\ ni'.alloc = ni.alloc /\ ni'.data = ni.data
        /\ ni'.init = i /\ ni'.flags = ni.flags
    BY Zenon DEF IInv, DataTypes
  <1>2. Ordered /\ Room
    BY Zenon DEF IInv
  <1>3. Ordered'
    BY <1>1, <1>2, Zenon DEF Ordered, NInoNonResident
  <1>4. Room'
    BY <1>1, <1>2, Zenon DEF Room, NInoNonResident
  <1> QED BY <1>1, <1>3, <1>4, Zenon

(* A failed extension of the initialized size puts the old one back. *)
LEMMA ZeroFails ==
    ASSUME IInv, NEW t \in Threads, pc[t] = "zero",
           ni' = [ni EXCEPT !.init = io[t].init], Go(t, "abort"),
           UNCHANGED <<rec, disk, ubc, cache, io>>, UNCHANGED locks
    PROVE  IInv'
  <1>1. /\ excl = t /\ io[t] \in Locals /\ io[t].from <= io[t].end
        /\ io[t].init \in Nat /\ io[t].init <= ni.data
    BY Zenon DEF IInv, ThreadTypes, ThreadInv, Exclusive, Locals
  <1>2. DataTypes' /\ Ordered' /\ Room'
    BY <1>1, InitData, Zenon DEF IInv, DataTypes
  <1>3. /\ pc' = [pc EXCEPT ![t] = "abort"] /\ io' = [io EXCEPT ![t] = io[t]]
        /\ "abort" \in Places \ {"wshared", "upgrade"}
        /\ UNCHANGED locks /\ IInv
    BY Zenon DEF Go, IInv, ThreadTypes, Places, Holding
  <1> QED BY ONLY Zenon, t \in Threads, <1>1, <1>2, <1>3, SizeKeep

(* Zeroing a page in ntfs_attr_extend_initialized() keeps the sizes in     *)
(* order: the initialized size stays within the data size.                 *)
LEMMA WriteZeroPageInv ==
    ASSUME IInv, NEW t \in Threads, WriteZeroPage(t) PROVE IInv'
  <1> DEFINE p == PageOf(io[t].pos)
             next == Least((p + 1) * PageSize, io[t].from)
  <1>1. /\ pc[t] = "zero" /\ UNCHANGED locks /\ UNCHANGED <<rec, disk, ubc>>
        /\ io[t] \in Locals /\ excl = t /\ ThreadInv(t)
    BY Zenon DEF WriteZeroPage, At, IInv, ThreadTypes, ThreadInv, Exclusive
  <1>2. /\ io[t].from \in Nat /\ io[t].from <= ni.data /\ io[t].init <= ni.data
        /\ io[t].end <= ni.alloc /\ io[t].from <= io[t].end /\ ni.data \in Nat
    BY Zenon, <1>1 DEF ThreadInv, Locals, IInv, DataTypes
  <1>3. next \in Nat /\ next <= ni.data
    BY <1>2, NextPos DEF Least
  <1>4. CASE /\ ni' = [ni EXCEPT !.init = next]
             /\ cache' = Mapped(p)
             /\ io' = [io EXCEPT ![t].pos = next]
             /\ UNCHANGED pc
    <2> DEFINE l == [io[t] EXCEPT !.pos = next]
    <2>1. cache' \in [Units -> Values]
      BY <1>4, MappedType, Zenon DEF IInv, DataTypes
    <2> HIDE DEF next
    <2>2. /\ DataTypes' /\ Ordered' /\ Room'
          /\ ni'.alloc = ni.alloc /\ ni'.data = ni.data
      BY <1>1, <1>3, <1>4, <2>1, InitData, Zenon
    <2>3. /\ l \in Locals /\ l.from = io[t].from /\ l.end = io[t].end
          /\ l.init = io[t].init
      BY <1>1, <1>3, Zenon DEF Locals
    <2>4. /\ pc' = [pc EXCEPT ![t] = "zero"] /\ io' = [io EXCEPT ![t] = l]
          /\ "zero" \in Places \ {"wshared", "upgrade"}
      BY <1>1, <1>4, Zenon DEF IInv, ThreadTypes, Places, Holding, Exclusive
    <2>5. /\ l.from <= l.end /\ l.end <= ni'.alloc /\ l.from <= ni'.data
          /\ l.init <= ni'.data
      BY <1>2, <2>2, <2>3, Zenon
    <2> HIDE DEF l
    <2> QED BY Zenon, <1>1, <2>2, <2>3, <2>4, <2>5, SizeKeep
  <1>5. CASE /\ ni' = [ni EXCEPT !.init = io[t].init]
             /\ Go(t, "abort")
             /\ UNCHANGED <<cache, dirty, io>>
    BY <1>1, <1>5, ZeroFails, Zenon
  <1> QED BY <1>4, <1>5, Zenon DEF WriteZeroPage

(* The end of ntfs_attr_extend_initialized() keeps the sizes in order. *)
LEMMA WriteZeroedInv ==
    ASSUME IInv, NEW t \in Threads, WriteZeroed(t) PROVE IInv'
  <1> DEFINE l == [io[t] EXCEPT !.pos = io[t].from]
  <1>1. /\ pc[t] = "zero" /\ UNCHANGED locks /\ UNCHANGED <<disk, ubc, cache>>
        /\ io[t] \in Locals /\ excl = t /\ ThreadInv(t)
    BY Zenon DEF WriteZeroed, At, IInv, ThreadTypes, ThreadInv, Exclusive
  <1>2. CASE rec' = [rec EXCEPT !.init = ni.init] /\ GoWith(t, "copy", l) /\ UNCHANGED ni
    <2>1. /\ DataTypes' /\ rec'.data = rec.data /\ rec'.init = ni.init
      BY <1>1, <1>2, Zenon DEF IInv, DataTypes
    <2>2. Ordered' /\ Room'
      BY <1>1, <1>2, <2>1, Zenon DEF IInv, Ordered, Room, NInoNonResident
    <2>3. /\ l \in Locals /\ l.from = io[t].from /\ l.end = io[t].end
      BY <1>1, Zenon DEF Locals
    <2>4. /\ pc' = [pc EXCEPT ![t] = "copy"] /\ io' = [io EXCEPT ![t] = l]
          /\ "copy" \in Places \ {"wshared", "upgrade"}
      BY <1>2, Zenon DEF GoWith, Go, Places, Holding
    <2>5. l.from <= l.end /\ l.end <= ni'.alloc
      BY <1>1, <1>2, <2>3, Zenon DEF ThreadInv
    <2> HIDE DEF l
    <2> QED BY Zenon, <1>1, <2>1, <2>2, <2>3, <2>4, <2>5, SizeKeep
  <1>3. CASE /\ ni' = [ni EXCEPT !.init = io[t].init]
             /\ Go(t, "abort")
             /\ UNCHANGED <<rec, io>>
    BY <1>1, <1>3, ZeroFails, Zenon
  <1> QED BY <1>2, <1>3, Zenon DEF WriteZeroed

(* ntfs_attr_set_initialized_size() at the end of a write keeps the        *)
(* sizes in order: the write is within the data size by then.              *)
LEMMA WriteDoneInv ==
    ASSUME IInv, NEW t \in Threads, WriteDone(t) PROVE IInv'
  <1> DEFINE end == io[t].end
  <1>1. /\ pc[t] = "copy" /\ disk' = disk
        /\ io[t] \in Locals /\ ThreadInv(t)
    BY Zenon DEF WriteDone, At, IInv, ThreadTypes
  <1>2. /\ end \in Nat /\ io[t].from <= end /\ end <= ni.alloc
        /\ ni \in [alloc : Nat, data : Nat, init : Nat,
                   flags : SUBSET {"NonResident", "Sparse"}]
        /\ ni.alloc \in Nat /\ ni.data \in Nat /\ ni.init \in Nat /\ ubc \in Nat
        /\ rec.data \in Nat /\ rec.data = ni.data
    BY <1>1, ZenonT(60) DEF IInv, DataTypes, Locals, ThreadInv, Ordered
  <1>3. end > ni.init => excl = t
    BY <1>1, <1>2 DEF ThreadInv
  <1>4. CASE Leave(t, "ok") /\ UNCHANGED <<ni, rec, ubc, cache, io>>
    <2>1. DataTypes' /\ Ordered' /\ Room'
      BY Zenon, <1>1, <1>4, CacheData DEF IInv, DataTypes
    <2>2. CASE excl = t
      BY <1>4, <2>1, <2>2, SizeLeave, Zenon
    <2>3. CASE excl # t
      <3>1. /\ excl' = excl /\ shared' = shared \ {t} /\ io' = io
            /\ pc' = [pc EXCEPT ![t] = "ok"]
        BY <1>4, <2>3, Zenon DEF Leave, Unlock, Go
      <3>2. ThreadTypes' /\ Mutex'
        BY <3>1, Zenon DEF IInv, ThreadTypes, Mutex, Places
      <3>3. ThreadInv(t)'
        BY <1>1, <3>1, ZenonT(60) DEF IInv, ThreadTypes, ThreadInv, Holding,
           Exclusive
      <3>4. \A s \in Threads \ {t} : ThreadInv(s)'
        BY <1>4, <3>1, OthersQuiet DEF IInv, ThreadTypes
      <3> QED BY <2>1, <3>2, <3>3, <3>4, Together
    <2> QED BY <2>2, <2>3, Zenon
  <1>5. CASE /\ end > ni.init
             /\ ni' = [ni EXCEPT !.init = end, !.data = Most(ni.data, end)]
             /\ rec' = [rec EXCEPT !.init = end, !.data = Most(rec.data, end)]
             /\ Learn(end)
             /\ Leave(t, "ok")
             /\ UNCHANGED io
    <2> DEFINE size == Most(ni.data, end)
    <2>1. /\ size \in Nat /\ end <= size /\ size <= ni.alloc
      BY <1>2, <1>5 DEF Most, IInv, Ordered
    <2> HIDE DEF size
    <2>2. /\ ni' \in [alloc : Nat, data : Nat, init : Nat,
                      flags : SUBSET {"NonResident", "Sparse"}]
          /\ ni'.alloc = ni.alloc /\ ni'.data = size /\ ni'.init = end
          /\ ni'.flags = ni.flags
      <3>1. ni' = [ni EXCEPT !.init = end, !.data = size]
        BY <1>5, Zenon DEF size
      <3> QED BY Zenon, <1>2, <2>1, <3>1
    <2>3. /\ rec' \in [data : Nat, init : Nat, where : {"record", "clusters"},
                       val : [0 .. ResidentMax - 1 -> Values]]
          /\ rec'.data = size /\ rec'.init = end
      <3>1. rec' = [rec EXCEPT !.init = end, !.data = size]
        BY <1>2, <1>5, Zenon DEF size
      <3> QED BY Zenon, <1>2, <2>1, <3>1 DEF IInv, DataTypes
    <2>4. DataTypes'
      <3>1. cache' \in [Units -> Values] /\ ubc' \in Nat
        BY <1>2, <1>5, LearnType, Zenon
      <3> QED BY Zenon, <1>1, <2>2, <2>3, <3>1 DEF IInv, DataTypes
    <2>5. Ordered'
      BY Zenon, <1>1, <1>2, <2>1, <2>2, <2>3
         DEF IInv, Ordered, NInoNonResident
    <2>6. Room'
      BY <2>2, Zenon DEF IInv, Room, NInoNonResident
    <2> QED BY <1>3, <1>5, <2>4, <2>5, <2>6, SizeLeave, Zenon
  <1>6. CASE /\ end > ni.init
             /\ Go(t, "abort") /\ UNCHANGED io
             /\ UNCHANGED <<ni, rec, ubc, cache, locks>>
    <2>1. DataTypes' /\ Ordered' /\ Room'
      BY <1>1, <1>6, CacheData, Zenon DEF IInv, DataTypes
    <2>2. UNCHANGED <<ni, locks, io>>
      BY <1>6, Zenon
    <2> QED BY <1>1, <1>6, <2>1, <2>2, MovesTo, Zenon DEF Places, Holding,
               Exclusive
  <1>7. CASE /\ end > ni.init
             /\ GoWith(t, "resize", [io[t] EXCEPT !.end = Most(io[t].from, ni.init)])
             /\ UNCHANGED <<ni, rec, ubc, cache, locks>>
    <2> DEFINE l == [io[t] EXCEPT !.end = Most(io[t].from, ni.init)]
    <2>1. DataTypes' /\ Ordered' /\ Room'
      BY <1>1, <1>7, CacheData, Zenon DEF IInv, DataTypes
    <2>2. l \in Locals /\ l.from <= l.end
      BY <1>1, <1>2, <1>7 DEF Locals, Most
    <2>3. /\ pc' = [pc EXCEPT ![t] = "resize"] /\ io' = [io EXCEPT ![t] = l]
          /\ "resize" \in Places \ {"wshared", "upgrade"}
          /\ excl = t /\ UNCHANGED locks
      BY <1>3, <1>7, Zenon DEF GoWith, Go, Places, Holding, Exclusive
    <2> HIDE DEF l
    <2> QED BY Zenon, <2>1, <2>2, <2>3, SizeKeep
  <1> QED BY <1>4, <1>5, <1>6, <1>7, Zenon DEF WriteDone

(* ntfs_attr_resize() setting all three sizes keeps them in order, with    *)
(* any allocation that is large enough.                                    *)
LEMMA SetSizesData ==
    ASSUME IInv, NEW n \in Nat, NEW alloc \in Nat, n <= alloc,
           NInoNonResident => alloc % ClusterSize = 0,
           ~NInoNonResident => alloc <= ResidentMax,
           SetSizes(n, alloc), ubc' \in Nat, cache' \in [Units -> Values]
    PROVE  /\ DataTypes' /\ Ordered' /\ Room'
           /\ ni'.data = n /\ rec'.init = ni'.init
  <1> DEFINE init == ResizedInit(n)
             val == [u \in DOMAIN rec.val |->
                       IF u < Least(n, rec.data) THEN rec.val[u] ELSE Zero]
  <1>1. init \in Nat /\ init <= n
    BY DEF ResizedInit, Least, IInv, DataTypes
  <1>2. val \in [0 .. ResidentMax - 1 -> Values]
    BY Zenon DEF IInv, DataTypes, Values
  <1>3. /\ ni' = [ni EXCEPT !.alloc = alloc, !.data = n, !.init = init]
        /\ rec' = [rec EXCEPT !.data = n, !.init = init, !.val = val]
        /\ disk' = [u \in Units |-> IF u < RoundUp(n) THEN disk[u] ELSE Junk]
    BY Zenon DEF SetSizes
  <1> HIDE DEF init, val
  <1>4. /\ ni' \in [alloc : Nat, data : Nat, init : Nat,
                    flags : SUBSET {"NonResident", "Sparse"}]
        /\ ni'.alloc = alloc /\ ni'.data = n /\ ni'.init = init
        /\ ni'.flags = ni.flags
    BY Zenon, <1>1, <1>3 DEF IInv, DataTypes
  <1>5. /\ rec' \in [data : Nat, init : Nat, where : {"record", "clusters"},
                     val : [0 .. ResidentMax - 1 -> Values]]
        /\ rec'.data = n /\ rec'.init = init
    BY Zenon, <1>1, <1>2, <1>3, RecordType
  <1>6. disk' \in [Units -> Values \cup {Hole}]
    BY <1>3, Zenon DEF IInv, DataTypes, Values
  <1>7. DataTypes'
    BY <1>4, <1>5, <1>6, ZenonT(60) DEF IInv, DataTypes
  <1>8. Ordered'
    BY <1>1, <1>4, <1>5 DEF Ordered
  <1>9. Room'
    BY <1>4, Zenon DEF Room, NInoNonResident
  <1> QED BY <1>4, <1>5, <1>7, <1>8, <1>9, Zenon

(* What a resize gets, and what it may keep. *)
LEMMA ResizeRoom ==
    ASSUME IInv, NEW t \in Threads, pc[t] = "resize2"
    PROVE  /\ excl = t /\ Target(t) \in Nat /\ rec.data \in Nat
           /\ RoundUp(Target(t)) \in Nat /\ Target(t) <= RoundUp(Target(t))
           /\ RoundUp(Target(t)) % ClusterSize = 0
           /\ ni.alloc \in Nat /\ (NInoNonResident => ni.alloc % ClusterSize = 0)
           /\ Result(t) \in {"ok", "failed"} /\ ResizeFailed(t) \in {"ok", "failed"}
  BY TargetType, RoundUpFits, ZenonT(60) DEF IInv, ThreadInv, Exclusive,
     DataTypes, Room, Result, ResizeFailed

(* A resize that succeeds, or fails before it has changed a size, *)
LEMMA ResizeRecordInv ==
    ASSUME IInv, NEW t \in Threads, ResizeRecord(t) PROVE IInv'
  <1> DEFINE n == Target(t)
             room == IF NInoNonResident THEN RoundUp(n) ELSE n
  <1>1. pc[t] = "resize2" /\ io' = io
    BY Zenon DEF ResizeRecord, At
  <1>2. /\ excl = t /\ n \in Nat /\ room \in Nat /\ n <= room
        /\ NInoNonResident => room % ClusterSize = 0
        /\ Result(t) \in {"ok", "failed"}
    BY <1>1, ResizeRoom
  <1>3. ~NInoNonResident => room <= ResidentMax
    BY Zenon DEF ResizeRecord
  <1> HIDE DEF n, room
  <1>4. CASE SetSizes(n, room) /\ SetUbc(n) /\ Leave(t, Result(t))
    <2>1. cache' \in [Units -> Values] /\ ubc' \in Nat
      BY <1>2, <1>4, SetUbcType, Zenon
    <2>2. DataTypes' /\ Ordered' /\ Room'
      BY <1>2, <1>3, <1>4, <2>1, SetSizesData, Zenon
    <2> QED BY <1>1, <1>2, <1>4, <2>2, SizeLeave, Zenon
  <1>5. CASE /\ \E size \in {io[t].pos, rec.data} : SetUbc(size)
             /\ Leave(t, ResizeFailed(t)) /\ UNCHANGED <<ni, rec, disk>>
    BY <1>1, <1>2, <1>5, ResizeFails, Zenon
  <1> QED BY <1>4, <1>5, Zenon DEF ResizeRecord, n, room

(* and one that fails after that. *)
LEMMA ResizeTornInv ==
    ASSUME IInv, NEW t \in Threads, ResizeTorn(t) PROVE IInv'
  <1> DEFINE n == Target(t)
  <1>1. /\ pc[t] = "resize2" /\ io' = io /\ NInoNonResident
        /\ RoundUp(n) < ni.alloc
    BY Zenon DEF ResizeTorn, At
  <1>2. /\ excl = t /\ n \in Nat /\ RoundUp(n) \in Nat /\ n <= RoundUp(n)
        /\ RoundUp(n) % ClusterSize = 0 /\ rec.data \in Nat
        /\ ni.alloc \in Nat /\ ni.alloc % ClusterSize = 0
        /\ ResizeFailed(t) \in {"ok", "failed"}
    BY <1>1, ResizeRoom, Zenon
  <1>3. n <= ni.alloc
    BY <1>1, <1>2
  <1> HIDE DEF n
  <1>4. PICK alloc \in {RoundUp(n), ni.alloc} : SetSizes(n, alloc)
    BY Zenon DEF ResizeTorn, n
  <1>5. SetUbc(rec.data) /\ Leave(t, ResizeFailed(t))
    BY Zenon DEF ResizeTorn
  <1>6. cache' \in [Units -> Values] /\ ubc' \in Nat
    BY <1>2, <1>5, SetUbcType, Zenon
  <1>7. DataTypes' /\ Ordered' /\ Room'
    BY <1>1, <1>2, <1>3, <1>4, <1>6, SetSizesData, Zenon
  <1> QED BY <1>1, <1>2, <1>5, <1>7, SizeLeave, Zenon

(* ntfs_attr_resize() growing the allocation keeps the sizes in order. *)
LEMMA ResizeExtendInv ==
    ASSUME IInv, NEW t \in Threads, ResizeExtend(t) PROVE IInv'
  <1> DEFINE n == Target(t)
             size == RoundUp(n)
  <1>1. /\ pc[t] = "resize2" /\ excl = t /\ io' = io
        /\ NInoNonResident /\ size > ni.alloc
    BY Zenon DEF ResizeExtend, At, IInv, ThreadInv, Exclusive
  <1>2. /\ ni.alloc \in Nat /\ ni.data \in Nat /\ ni.init \in Nat
        /\ ni.alloc % ClusterSize = 0 /\ ni.init <= ni.data /\ ni.data <= ni.alloc
        /\ rec.init \in Nat /\ rec.init <= ni.data
    BY <1>1, Zenon DEF IInv, DataTypes, Ordered, Room
  <1>3. /\ n \in Nat /\ size \in Nat /\ n <= size /\ size % ClusterSize = 0
    BY TargetType, RoundUpFits, Zenon
  <1>4. ni.alloc < n
    <2> SUFFICES ASSUME n <= ni.alloc PROVE FALSE
      BY <1>2, <1>3
    <2>1. size <= ni.alloc
      BY <1>2, <1>3, RoundUpLeast, Zenon
    <2> QED BY <1>1, <1>2, <1>3, <2>1
  <1>5. Result(t) \in {"ok", "failed"}
    BY DEF Result
  <1> HIDE DEF n, size
  <1>6. CASE /\ disk' = [u \in Units |-> IF u >= ni.alloc THEN Junk ELSE disk[u]]
             /\ ni' = [ni EXCEPT !.alloc = size, !.data = n]
             /\ rec' = [rec EXCEPT !.data = n]
             /\ SetUbc(n)
             /\ Leave(t, Result(t))
    <2>1. /\ ni'.alloc = size /\ ni'.data = n /\ ni'.init = ni.init
          /\ ni'.flags = ni.flags
      BY <1>6, Zenon DEF IInv, DataTypes
    <2>2. disk' \in [Units -> Values \cup {Hole}] /\ NInoNonResident'
      BY <1>1, <1>6, <2>1, Zenon DEF IInv, DataTypes, Values, NInoNonResident
    <2>3. ni' \in [alloc : Nat, data : Nat, init : Nat,
                   flags : SUBSET {"NonResident", "Sparse"}]
      BY Zenon, <1>3, <1>6, <2>1, <2>2 DEF IInv, DataTypes
    <2>4. /\ rec' \in [data : Nat, init : Nat, where : {"record", "clusters"},
                       val : [0 .. ResidentMax - 1 -> Values]]
          /\ rec'.data = n /\ rec'.init = rec.init
      BY <1>3, <1>6, Zenon DEF IInv, DataTypes
    <2>5. DataTypes'
      <3>1. cache' \in [Units -> Values] /\ ubc' \in Nat
        BY <1>3, <1>6, SetUbcType, Zenon
      <3> QED BY <2>2, <2>3, <2>4, <3>1, ZenonT(60) DEF IInv, DataTypes
    <2>6. Ordered' /\ Room'
      BY <1>2, <1>3, <1>4, <1>6, <2>1, <2>2, <2>4 DEF Ordered, Room
    <2> QED BY <1>1, <1>5, <1>6, <2>5, <2>6, SizeLeave, Zenon
  <1>7. CASE /\ SetUbc(rec.data) /\ Leave(t, ResizeFailed(t))
             /\ UNCHANGED <<ni, rec, disk>>
    BY <1>1, <1>7, ResizeFails, Zenon
  <1> QED BY <1>6, <1>7, Zenon DEF ResizeExtend, n, size

-----------------------------------------------------------------------------
(* The order of the sizes: IInv is inductive. *)

(* The sizes of an inode that was just loaded are in order. *)
LEMMA InitInv == Init => IInv
  <1> SUFFICES ASSUME Init PROVE IInv
    OBVIOUS
  <1>1. PICK size \in 0 .. MaxSize, init \in 0 .. MaxSize, nonres \in BOOLEAN,
             old \in [Units -> {Zero, Data}],
             holes \in SUBSET (0 .. (MaxSize \div ClusterSize) - 1) :
          /\ init <= size
          /\ ~nonres => size <= ResidentMax /\ init = size
          /\ \A u \in Units : u >= init => old[u] = Zero
          /\ \A c \in holes : nonres /\ c * ClusterSize < size
          /\ ni = [alloc |-> IF nonres THEN RoundUp(size) ELSE size,
                   data |-> size, init |-> init,
                   flags |-> (IF nonres THEN {"NonResident"} ELSE {})
                             \cup (IF holes # {} THEN {"Sparse"} ELSE {})]
          /\ rec = [data |-> size, init |-> init,
                    where |-> IF nonres THEN "clusters" ELSE "record",
                    val |-> [u \in 0 .. ResidentMax - 1 |->
                               IF nonres THEN Zero ELSE old[u]]]
          /\ disk = [u \in Units |-> IF u \div ClusterSize \in holes THEN Hole
                                     ELSE IF nonres /\ u < init THEN old[u]
                                     ELSE Junk]
          /\ ubc = size
    BY Zenon DEF Init
  <1> DEFINE alloc == IF nonres THEN RoundUp(size) ELSE size
             val == [u \in 0 .. ResidentMax - 1 |-> IF nonres THEN Zero ELSE old[u]]
  <1>2. size \in Nat /\ init \in Nat
    BY FileDataAssumption
  <1>3. /\ alloc \in Nat /\ size <= alloc
        /\ IF nonres THEN alloc % ClusterSize = 0 ELSE alloc <= ResidentMax
    BY <1>1, <1>2, RoundUpFits, Zenon
  <1>4. val \in [0 .. ResidentMax - 1 -> Values]
    BY ResidentUnits, Zenon DEF Values
  <1>5. disk \in [Units -> Values \cup {Hole}]
    BY <1>1, Zenon DEF Values
  <1>6. /\ ni.alloc = alloc /\ ni.data = size /\ ni.init = init
        /\ rec.data = size /\ rec.init = init /\ ubc = size
        /\ NInoNonResident <=> nonres
    BY <1>1, Zenon DEF NInoNonResident
  <1> HIDE DEF alloc, val
  <1>7. /\ ni \in [alloc : Nat, data : Nat, init : Nat,
                   flags : SUBSET {"NonResident", "Sparse"}]
    BY <1>1, <1>2, <1>3, Zenon DEF alloc
  <1>8. rec \in [data : Nat, init : Nat, where : {"record", "clusters"},
                 val : [0 .. ResidentMax - 1 -> Values]]
    BY <1>1, <1>2, <1>4, Zenon DEF val
  <1>9. DataTypes
    BY <1>2, <1>5, <1>6, <1>7, <1>8, ZenonT(60) DEF DataTypes, Init, Values
  <1>10. Ordered /\ Room
    BY <1>1, <1>2, <1>3, <1>5, <1>6 DEF Ordered, Room
  <1>11. ThreadTypes /\ Mutex
    BY Zenon DEF Init, ThreadTypes, Mutex, NoCall, Locals, Operations, Places
  <1>12. \A t \in Threads : ThreadInv(t)
    <2>1. \A t \in Threads : pc[t] = "idle" /\ io[t].from = 0 /\ io[t].end = 0
      BY Zenon DEF Init, NoCall
    <2> SUFFICES ASSUME NEW t \in Threads PROVE ThreadInv(t)
      BY Zenon
    <2>2. pc[t] = "idle" /\ io[t].from <= io[t].end
      BY <2>1
    <2> QED BY <2>2, Zenon DEF ThreadInv, Holding, Exclusive
  <1> QED BY <1>9, <1>10, <1>11, <1>12, Zenon DEF IInv

(* Every step keeps the invariant. *)
LEMMA NextInv == IInv /\ [Next]_vars => IInv'
  <1> SUFFICES ASSUME IInv, [Next]_vars PROVE IInv'
    OBVIOUS
  <1>1. CASE UNCHANGED vars
    <2>1. DataTypes' /\ Ordered' /\ Room'
      BY <1>1, CacheData, Zenon DEF vars, IInv, DataTypes
    <2> QED BY <1>1, <2>1, PagerInv, Zenon DEF vars, locks
  <1>2. ASSUME NEW t \in Threads, Write(t) \/ SetAttr(t) \/ Sync(t) \/ Return(t)
        PROVE  IInv'
    BY <1>2, WriteStepInv, SetAttrInv, SyncInv, ReturnInv, Zenon
  <1>3. ASSUME NEW t \in Threads, WriteStep(t) PROVE IInv'
    BY <1>3, WriteSharedInv, WriteUpgradeInv, WriteExclusiveInv, WriteStartInv,
       WriteExtendInv, WriteConvertInv, WriteInitInv, WriteZeroPageInv,
       WriteZeroedInv, WriteCopyInv, WriteCopyResidentInv, WriteDoneInv,
       WriteAbortInv, ZenonT(60) DEF WriteStep
  <1>4. ASSUME NEW t \in Threads, ResizeStep(t) PROVE IInv'
    BY <1>4, SetAttrLockInv, ResizeCacheInv, ResizeRecordInv, ResizeTornInv,
       ResizeExtendInv, ResizeConvertInv, Zenon DEF ResizeStep
  <1>5. ASSUME NEW t \in Threads, SyncStep(t) PROVE IInv'
    BY <1>5, SyncPushInv, SyncPageInv, SyncRecordInv, Zenon DEF SyncStep
  <1>6. ASSUME NEW p \in Pages, PageIn(p) \/ PageOut(p) \/ Evict(p) PROVE IInv'
    BY <1>6, PageInInv, PageOutInv, EvictInv, Zenon
  <1>7. ASSUME NEW u \in StoreUnits, Store(u) PROVE IInv'
    BY <1>7, StoreInv, Zenon
  <1> QED BY <1>1, <1>2, <1>3, <1>4, <1>5, <1>6, <1>7, Zenon DEF Next

-----------------------------------------------------------------------------
(* The agreement of the sizes: Agree is inductive with IInv. *)

(* The places at which the holder of the lock has moved one size only. *)
Between == {"zero", "resize2"}

(* What the sizes are at the other places of the holder. *)
LEMMA HolderAgrees ==
    ASSUME IInv, Agree, NEW t \in Threads, excl = t, pc[t] \notin Between
    PROVE  rec.init = ni.init /\ InStep(ni.data)
  BY Zenon, FileDataAssumption DEF Agree, Holder, Between

(* Nobody else holds the lock, in any way, of a thread that has it. *)
LEMMA NobodyElse ==
    ASSUME IInv, NEW t \in Threads, pc[t] \in Holding
    PROVE  excl = t \/ excl = None
  BY Zenon DEF IInv, ThreadInv, Mutex

(* The lock is free again. *)
LEMMA AgreeFree ==
    ASSUME excl' = None, rec'.init = ni'.init, InStep(ni.data)'
    PROVE  Agree'
  BY Zenon DEF Agree

(* A thread holds the lock and is not between the two halves of a change. *)
LEMMA AgreeHeld ==
    ASSUME NEW t \in Threads, excl' = t, pc'[t] \notin Between,
           rec'.init = ni'.init, InStep(ni.data)'
    PROVE  Agree'
  BY FileDataAssumption, Zenon DEF Agree, Holder, Between

(* No size changes, and no call moves. *)
LEMMA AgreePager ==
    ASSUME Agree, excl' = excl, pc' = pc, io' = io, ni'.init = ni.init,
           ni'.data = ni.data, rec'.init = rec.init, ubc' = ubc, torn' = torn
    PROVE  Agree'
  BY Zenon DEF Agree, Holder, Target, Writes, InStep

(* No size changes, and a call moves between places of the first kind. *)
LEMMA AgreeMoves ==
    ASSUME IInv, Agree, NEW t \in Threads, NEW place, NEW l, excl' = excl,
           pc' = [pc EXCEPT ![t] = place], io' = [io EXCEPT ![t] = l],
           pc[t] \notin Between, place \notin Between,
           ni'.init = ni.init, ni'.data = ni.data, rec'.init = rec.init,
           ubc' = ubc, torn' = torn
    PROVE  Agree'
  <1>1. pc'[t] = place
    BY Zenon DEF IInv, ThreadTypes
  <1>2. CASE excl = t
    <2>1. rec.init = ni.init /\ InStep(ni.data)
      BY <1>2, HolderAgrees, Zenon
    <2> QED BY <1>1, <1>2, <2>1, AgreeHeld, Zenon DEF InStep
  <1>3. CASE excl = None
    BY <1>3, AgreeFree, Zenon DEF Agree, InStep
  <1>4. CASE excl \in Threads \ {t}
    <2>1. pc'[excl] = pc[excl] /\ io'[excl] = io[excl] /\ excl # None
      BY <1>4, FileDataAssumption, Zenon DEF IInv, ThreadTypes
    <2>2. Target(excl)' = Target(excl)
      BY <2>1 DEF Target, Writes
    <2> QED BY <2>1, <2>2, ZenonT(60) DEF Agree, Holder, InStep
  <1> QED BY Zenon, <1>2, <1>3, <1>4 DEF IInv, ThreadTypes

(* The same with the step as the calls write it. *)
LEMMA AgreeWith ==
    ASSUME IInv, Agree, NEW t \in Threads, NEW place, NEW l,
           GoWith(t, place, l), excl' = excl, ni' = ni, rec' = rec,
           ubc' = ubc, torn' = torn,
           pc[t] \notin Between, place \notin Between
    PROVE  Agree'
  <1>1. io' = [io EXCEPT ![t] = l] /\ pc' = [pc EXCEPT ![t] = place]
    BY Zenon DEF GoWith, Go
  <1> QED BY Zenon, <1>1, AgreeMoves

(* The same when the call keeps its locals. *)
LEMMA AgreeGoes ==
    ASSUME IInv, Agree, NEW t \in Threads, NEW place, excl' = excl,
           Go(t, place), io' = io, pc[t] \notin Between, place \notin Between,
           ni'.init = ni.init, ni'.data = ni.data, rec'.init = rec.init,
           ubc' = ubc, torn' = torn
    PROVE  Agree'
  <1>1. io' = [io EXCEPT ![t] = io[t]] /\ pc' = [pc EXCEPT ![t] = place]
    BY Zenon DEF IInv, ThreadTypes, Go
  <1> QED BY Zenon, <1>1, AgreeMoves

(* A thread takes the lock. *)
LEMMA AgreeTakes ==
    ASSUME IInv, Agree, NEW t \in Threads, NEW place, excl = None, excl' = t,
           pc' = [pc EXCEPT ![t] = place], place \notin Between,
           ni'.init = ni.init, ni'.data = ni.data, rec'.init = rec.init,
           ubc' = ubc, torn' = torn
    PROVE  Agree'
  <1>1. pc'[t] = place
    BY Zenon DEF IInv, ThreadTypes
  <1> QED BY <1>1, AgreeHeld, Zenon DEF Agree, InStep

(* A thread with the lock leaves, having changed nothing since its sizes   *)
(* agreed.                                                                 *)
LEMMA AgreeLeaves ==
    ASSUME IInv, Agree, NEW t \in Threads, NEW result, Leave(t, result),
           pc[t] \in Holding \ Between,
           ni'.init = ni.init, ni'.data = ni.data, rec'.init = rec.init,
           ubc' = ubc, torn' = torn
    PROVE  Agree'
  <1>1. excl' = None
    BY NobodyElse, Zenon DEF Leave, Unlock
  <1>2. rec.init = ni.init /\ InStep(ni.data)
    BY NobodyElse, HolderAgrees, Zenon DEF Agree
  <1> QED BY <1>1, <1>2, AgreeFree, Zenon DEF InStep

-----------------------------------------------------------------------------
(* The steps that change no size. *)

(* Calls begin and end. *)
LEMMA CallAgree ==
    ASSUME IInv, Agree, NEW t \in Threads,
           Write(t) \/ SetAttr(t) \/ Sync(t) \/ Return(t)
    PROVE  Agree'
  <1>1. UNCHANGED <<data, locks>> /\ pc[t] \in {"idle", "ok", "failed"}
    BY Zenon DEF Write, SetAttr, Sync, Return, At
  <1>2. ASSUME NEW place \in Places \ Between, NEW l, GoWith(t, place, l)
        PROVE  Agree'
    BY Zenon, <1>1, <1>2, AgreeWith DEF data, locks, Between
  <1>3. {"wexcl", "wshared", "tlock", "slock", "idle", "failed"} \subseteq
          Places \ Between
    BY Zenon DEF Places, Between
  <1>4. CASE Write(t)
    <2>1. PICK r \in Requests :
            GoWith(t, IF NInoSparse THEN "failed"
                      ELSE IF r.op = "append" THEN "wexcl" ELSE "wshared",
                   Called(r))
      BY <1>4, Zenon DEF Write
    <2> QED BY <1>2, <1>3, <2>1, Zenon
  <1>5. CASE SetAttr(t)
    BY <1>2, <1>3, <1>5, Zenon DEF SetAttr
  <1>6. CASE Sync(t)
    BY <1>2, <1>3, <1>6, Zenon DEF Sync
  <1>7. CASE Return(t)
    BY <1>2, <1>3, <1>7, Zenon DEF Return
  <1> QED BY <1>4, <1>5, <1>6, <1>7, Zenon

(* A write gets its lock. *)
LEMMA WriteLockAgree ==
    ASSUME IInv, Agree, NEW t \in Threads,
           WriteShared(t) \/ WriteUpgrade(t) \/ WriteExclusive(t)
    PROVE  Agree'
  <1>1. UNCHANGED <<data, io>> /\ pc[t] \in {"wshared", "upgrade", "wexcl"}
    BY Zenon DEF WriteShared, WriteUpgrade, WriteExclusive, At
  <1>2. ASSUME NEW place \in {"start", "upgrade", "wexcl"}, Go(t, place),
               excl' = excl
        PROVE  Agree'
    BY <1>1, <1>2, AgreeGoes, Zenon DEF data, Between
  <1>3. ASSUME Go(t, "start"), excl = None, excl' = t PROVE Agree'
    BY ZenonT(60), <1>1, <1>3, AgreeTakes DEF data, Go, Between
  <1>4. CASE WriteShared(t)
    BY <1>2, <1>4, Zenon DEF WriteShared
  <1>5. CASE WriteUpgrade(t)
    <2>1. shared = {t} => excl = None
      BY Zenon DEF IInv, Mutex
    <2> QED BY <1>2, <1>3, <1>5, <2>1, Zenon DEF WriteUpgrade
  <1>6. CASE WriteExclusive(t)
    BY <1>3, <1>6, Zenon DEF WriteExclusive
  <1> QED BY <1>4, <1>5, <1>6, Zenon

(* It finds its place. *)
LEMMA WriteStartAgree ==
    ASSUME IInv, Agree, NEW t \in Threads, WriteStart(t) PROVE Agree'
  <1>1. PICK place \in {"walloc", "winit"} : \E l : GoWith(t, place, l)
    BY Zenon DEF WriteStart
  <1>2. pc[t] = "start" /\ UNCHANGED <<data, locks>>
    BY Zenon DEF WriteStart, At
  <1> QED BY Zenon, <1>1, <1>2, AgreeWith DEF data, locks, Between

(* A write that failed is given up. *)
LEMMA WriteAbortAgree ==
    ASSUME IInv, Agree, NEW t \in Threads, WriteAbort(t) PROVE Agree'
  <1>1. pc[t] = "abort" /\ UNCHANGED data
    BY Zenon DEF WriteAbort, At
  <1>2. CASE GoWith(t, "resize", [io[t] EXCEPT !.err = "failed"])
             /\ UNCHANGED locks
    BY <1>1, <1>2, AgreeWith DEF data, locks, Between
  <1>3. CASE Leave(t, "failed")
    BY <1>1, <1>3, AgreeLeaves, Zenon DEF data, Holding, Between
  <1> QED BY <1>2, <1>3, Zenon DEF WriteAbort

(* A write that gets no room moves no size. *)
LEMMA NoSpaceAgree ==
    ASSUME IInv, Agree, NEW t \in Threads, pc[t] = "walloc",
           WriteNoSpace(t), UNCHANGED <<ni, rec, ubc, torn, locks>>
    PROVE  Agree'
  <1>1. CASE GoWith(t, "winit", [io[t] EXCEPT !.end = ni.alloc])
    BY <1>1, AgreeWith DEF locks, Between
  <1>2. CASE Go(t, "abort") /\ UNCHANGED io
    BY <1>2, AgreeGoes, Zenon DEF locks, Between
  <1> QED BY <1>1, <1>2, Zenon DEF WriteNoSpace

(* One that gets room moves the allocated size only. *)
LEMMA WriteExtendAgree ==
    ASSUME IInv, Agree, NEW t \in Threads, WriteExtend(t) PROVE Agree'
  <1>1. pc[t] = "walloc" /\ ubc' = ubc /\ torn' = torn /\ UNCHANGED locks
    BY Zenon DEF WriteExtend, At
  <1>2. CASE /\ \E a : ni' = [ni EXCEPT !.alloc = a]
             /\ \E v : rec' = [rec EXCEPT !.val = v]
             /\ Go(t, "winit") /\ UNCHANGED io
    <2>1. /\ ni'.init = ni.init /\ ni'.data = ni.data
          /\ rec'.init = rec.init
      BY <1>2, Zenon DEF IInv, DataTypes
    <2> QED BY <1>1, <1>2, <2>1, AgreeGoes, Zenon DEF locks, Between
  <1>3. CASE WriteNoSpace(t) /\ UNCHANGED <<ni, rec, disk>>
    BY <1>1, <1>3, NoSpaceAgree, Zenon
  <1>4. UNCHANGED rec => rec' = [rec EXCEPT !.val = rec.val]
    BY Zenon DEF IInv, DataTypes
  <1> QED BY <1>2, <1>3, <1>4, Zenon DEF WriteExtend, Extended

(* So does moving the value out of the record. *)
LEMMA MakeNonResidentSizes ==
    ASSUME IInv, MakeNonResident
    PROVE  ni'.init = ni.init /\ ni'.data = ni.data /\ rec'.init = rec.init
  BY Zenon DEF IInv, DataTypes, MakeNonResident

(* A write may need that. *)
LEMMA WriteConvertAgree ==
    ASSUME IInv, Agree, NEW t \in Threads, WriteConvert(t) PROVE Agree'
  <1>1. pc[t] = "walloc" /\ ubc' = ubc /\ torn' = torn /\ UNCHANGED locks
    BY Zenon DEF WriteConvert, At
  <1>2. CASE MakeNonResident /\ UNCHANGED <<pc, io>>
    BY <1>1, <1>2, MakeNonResidentSizes, AgreePager, Zenon DEF locks
  <1>3. CASE WriteNoSpace(t) /\ UNCHANGED <<ni, rec>>
    BY <1>1, <1>3, NoSpaceAgree, Zenon
  <1> QED BY <1>2, <1>3, Zenon DEF WriteConvert

(* Copying moves none. *)
LEMMA WriteCopyAgree ==
    ASSUME IInv, Agree, NEW t \in Threads,
           WriteCopy(t) \/ WriteCopyResident(t)
    PROVE  Agree'
  <1>1. pc[t] = "copy" /\ UNCHANGED <<ni, rec, ubc, torn, locks>>
    BY Zenon DEF WriteCopy, WriteCopyResident, At
  <1>2. CASE \E n : io' = [io EXCEPT ![t].pos = n] /\ UNCHANGED pc
    <2>1. PICK n : io' = [io EXCEPT ![t].pos = n]
      BY Zenon, <1>2
    <2>2. /\ io' = [io EXCEPT ![t] = [io[t] EXCEPT !.pos = n]]
          /\ pc' = [pc EXCEPT ![t] = pc[t]]
      BY Zenon, <1>2, <2>1 DEF IInv, ThreadTypes
    <2> QED BY Zenon, <1>1, <2>2, AgreeMoves DEF locks, Between
  <1>3. CASE Go(t, "abort") /\ UNCHANGED io
    BY <1>1, <1>3, AgreeGoes, Zenon DEF locks, Between
  <1> QED BY <1>2, <1>3, Zenon DEF WriteCopy, WriteCopyResident

(* A truncation gets its lock. *)
LEMMA SetAttrLockAgree ==
    ASSUME IInv, Agree, NEW t \in Threads, SetAttrLock(t) PROVE Agree'
  <1>1. pc[t] = "tlock" /\ excl = None /\ UNCHANGED data
    BY Zenon DEF SetAttrLock, At
  <1>2. CASE Go(t, "failed") /\ UNCHANGED <<excl, io>>
    BY <1>1, <1>2, AgreeGoes, Zenon DEF data, Between
  <1>3. CASE GoWith(t, "resize", [io[t] EXCEPT !.old = ni.data]) /\ excl' = t
    BY Zenon, <1>1, <1>3, AgreeTakes DEF data, GoWith, Go, Between
  <1> QED BY <1>2, <1>3, Zenon DEF SetAttrLock

(* Writing a page moves none. *)
LEMMA PageOutSizes ==
    ASSUME IInv, NEW p, PageOutStep(p) PROVE rec'.init = rec.init
  BY Zenon DEF PageOutStep, IInv, DataTypes

(* Nor does syncing. *)
LEMMA SyncAgree ==
    ASSUME IInv, Agree, NEW t \in Threads, SyncStep(t) PROVE Agree'
  <1>1. /\ pc[t] \in {"slock", "msync"} /\ UNCHANGED <<ni, ubc, torn, locks>>
        /\ rec'.init = rec.init
    BY PageOutSizes, Zenon DEF SyncStep, SyncPush, ClusterPush,
       SyncPage, SyncRecord, At
  <1>2. CASE SyncPush(t)
    <2> DEFINE l == [io[t] EXCEPT !.pos = 0, !.old = ubc]
    <2>1. pc' = [pc EXCEPT ![t] = "msync"] /\ io' = [io EXCEPT ![t] = l]
      BY <1>2, Zenon DEF SyncPush, GoWith, Go
    <2> HIDE DEF l
    <2> QED BY ZenonT(60), <1>1, <2>1, AgreeMoves DEF locks, Between
  <1>3. CASE SyncPage(t)
    <2>1. CASE \E n : io' = [io EXCEPT ![t].pos = n] /\ UNCHANGED pc
      <3>1. PICK n : io' = [io EXCEPT ![t].pos = n]
        BY Zenon, <2>1
      <3>2. /\ io' = [io EXCEPT ![t] = [io[t] EXCEPT !.pos = n]]
            /\ pc' = [pc EXCEPT ![t] = pc[t]]
        BY Zenon, <2>1, <3>1 DEF IInv, ThreadTypes
      <3> QED BY Zenon, <1>1, <3>2, AgreeMoves DEF locks, Between
    <2>2. CASE Go(t, "failed") /\ UNCHANGED io
      BY <1>1, <2>2, AgreeGoes, Zenon DEF locks, Between
    <2> QED BY <1>3, <2>1, <2>2, Zenon DEF SyncPage
  <1>4. CASE SyncRecord(t)
    BY <1>1, <1>4, AgreeGoes, Zenon DEF SyncRecord, locks, Between
  <1> QED BY <1>2, <1>3, <1>4, Zenon DEF SyncStep

(* Nor does the pager, or a store into a mapping. *)
LEMMA PageAgree ==
    ASSUME IInv, Agree, NEW p, PageIn(p) \/ PageOut(p) \/ Evict(p) \/ Store(p)
    PROVE  Agree'
  <1>1. UNCHANGED <<ni, ubc, torn, locks, pc, io>> /\ rec'.init = rec.init
    BY PageOutSizes, Zenon DEF PageIn, PageOut, Evict, Store
  <1> QED BY <1>1, AgreePager, Zenon DEF locks

-----------------------------------------------------------------------------
(* The steps that do. *)

(* The page cache learns of a larger data size. *)
LEMMA LearnAgree ==
    ASSUME IInv, InStep(ni.data), NEW n \in Nat, Learn(n),
           ni'.data = Most(ni.data, n)
    PROVE  InStep(ni.data)'
  <1>1. /\ n > ni.data => ubc' = n
        /\ ~(n > ni.data) => ubc' = ubc /\ torn' = torn
    BY LearnType, Zenon
  <1>2. CASE n > ni.data
    <2>1. ni'.data = n
      BY <1>2 DEF Most, IInv, DataTypes
    <2> QED BY <1>1, <1>2, <2>1, Zenon DEF InStep
  <1>3. CASE ~(n > ni.data)
    <2>1. ni'.data = ni.data
      BY <1>3 DEF Most, IInv, DataTypes
    <2>2. ubc' = ubc /\ torn' = torn
      BY <1>1, <1>3, Zenon
    <2> QED BY <2>1, <2>2, Zenon DEF InStep
  <1> QED BY <1>2, <1>3, Zenon

(* A write that begins beyond the initialized size moves all of them, or   *)
(* begins to write zeros.                                                  *)
LEMMA WriteInitAgree ==
    ASSUME IInv, Agree, NEW t \in Threads, WriteInit(t) PROVE Agree'
  <1> DEFINE from == io[t].from
  <1>1. pc[t] = "winit" /\ UNCHANGED locks
    BY Zenon DEF WriteInit, At
  <1>2. from \in Nat /\ ni.init \in Nat /\ ni.data \in Nat /\ ni.init <= ni.data
    BY Zenon DEF IInv, ThreadTypes, DataTypes, Locals, Ordered
  <1>3. from > ni.init => excl = t
    <2>1. io[t].end \in Nat /\ ThreadInv(t)
      BY Zenon DEF IInv, ThreadTypes, Locals
    <2> QED BY <1>1, <1>2, <2>1 DEF ThreadInv
  <1>4. excl = t => rec.init = ni.init /\ InStep(ni.data)
    BY <1>1, HolderAgrees, Zenon DEF Between
  <1>5. CASE GoWith(t, "copy", [io[t] EXCEPT !.pos = from])
             /\ UNCHANGED <<ni, rec, ubc, torn>>
    BY <1>1, <1>5, AgreeWith DEF locks, Between
  <1>6. CASE /\ from > ni.init
             /\ \E v : rec' = [rec EXCEPT !.data = from, !.init = from, !.val = v]
             /\ ni' = [ni EXCEPT !.data = from, !.init = from]
             /\ SetUbc(from)
             /\ GoWith(t, "copy", [io[t] EXCEPT !.pos = from])
    <2>1. rec'.init = from /\ ni'.init = from /\ ni'.data = from
      BY <1>6, Zenon DEF IInv, DataTypes
    <2>2. excl' = t /\ pc'[t] = "copy"
      BY <1>1, <1>3, <1>6, ZenonT(60) DEF locks, GoWith, Go, IInv, ThreadTypes
    <2>3. InStep(ni.data)'
      BY <1>2, <1>6, <2>1, SetUbcType, Zenon DEF InStep
    <2> QED BY <2>1, <2>2, <2>3, AgreeHeld, Zenon DEF Between
  <1>7. CASE /\ from > ni.init
             /\ ni' = [ni EXCEPT !.data = Most(@, from)]
             /\ rec' = [rec EXCEPT !.data = Most(@, from)]
             /\ Learn(from)
             /\ GoWith(t, "zero", [io[t] EXCEPT !.init = ni.init,
                                     !.pos = PageOf(ni.init) * PageSize])
    <2>1. rec'.init = rec.init /\ ni'.data = Most(ni.data, from)
      BY <1>7, ZenonT(60) DEF IInv, DataTypes
    <2>2. /\ excl' = t /\ t # None /\ pc'[t] = "zero"
          /\ io'[t].init = ni.init
      BY <1>1, <1>3, <1>7, FileDataAssumption, ZenonT(60) DEF locks, GoWith,
         Go, IInv, ThreadTypes, Locals
    <2>3. InStep(ni.data)'
      BY <1>2, <1>3, <1>4, <1>7, <2>1, LearnAgree, Zenon
    <2> QED BY <1>3, <1>4, <1>7, <2>1, <2>2, <2>3, ZenonT(60) DEF Agree, Holder
  <1>8. CASE Go(t, "abort") /\ UNCHANGED <<ni, rec, ubc, torn, io>>
    BY <1>1, <1>8, AgreeGoes, Zenon DEF locks, Between
  <1> QED BY Zenon, <1>5, <1>6, <1>7, <1>8 DEF WriteInit

(* A write of zeros that fails puts the initialized size back. *)
LEMMA ZeroFailsAgree ==
    ASSUME IInv, Agree, NEW t \in Threads, pc[t] = "zero",
           ni' = [ni EXCEPT !.init = io[t].init], Go(t, "abort"),
           UNCHANGED <<rec, ubc, torn, locks>>
    PROVE  Agree'
  <1>1. excl = t /\ t # None
    BY FileDataAssumption, ZenonT(60) DEF IInv, ThreadInv, Exclusive
  <1>2. rec.init = io[t].init /\ InStep(ni.data)
    BY <1>1, Zenon DEF Agree, Holder
  <1>3. ni'.init = io[t].init /\ ni'.data = ni.data
    BY Zenon DEF IInv, DataTypes
  <1>4. pc'[t] = "abort"
    BY Zenon DEF Go, IInv, ThreadTypes
  <1>5. InStep(ni.data)'
    BY <1>2, <1>3, Zenon DEF InStep
  <1> QED BY <1>1, <1>2, <1>3, <1>4, <1>5, AgreeHeld, ZenonT(60) DEF locks,
             Between

(* While zeros are written the record keeps the initialized size. *)
LEMMA WriteZeroPageAgree ==
    ASSUME IInv, Agree, NEW t \in Threads, WriteZeroPage(t) PROVE Agree'
  <1>1. pc[t] = "zero" /\ UNCHANGED <<rec, ubc, torn, locks>>
    BY Zenon DEF WriteZeroPage, At
  <1>2. excl = t /\ t # None
    BY <1>1, FileDataAssumption, ZenonT(60) DEF IInv, ThreadInv, Exclusive
  <1>3. CASE \E n : /\ ni' = [ni EXCEPT !.init = n]
                    /\ io' = [io EXCEPT ![t].pos = n]
                    /\ UNCHANGED pc
    <2>1. ni'.data = ni.data
      BY <1>3, Zenon DEF IInv, DataTypes
    <2>2. io'[t].init = io[t].init
      BY <1>3 DEF IInv, ThreadTypes, Locals
    <2>3. rec.init = io[t].init /\ InStep(ni.data)
      BY Zenon, <1>1, <1>2 DEF Agree, Holder
    <2>4. InStep(ni.data)'
      BY <1>1, <2>1, <2>3, Zenon DEF InStep
    <2> QED BY <1>1, <1>2, <1>3, <2>2, <2>3, <2>4, ZenonT(60) DEF Agree,
               Holder, locks
  <1>4. CASE ni' = [ni EXCEPT !.init = io[t].init] /\ Go(t, "abort")
    BY <1>1, <1>4, ZeroFailsAgree, Zenon
  <1> QED BY <1>3, <1>4, Zenon DEF WriteZeroPage

(* At the end it learns the new one. *)
LEMMA WriteZeroedAgree ==
    ASSUME IInv, Agree, NEW t \in Threads, WriteZeroed(t) PROVE Agree'
  <1>1. pc[t] = "zero" /\ UNCHANGED <<ubc, torn, locks>>
    BY Zenon DEF WriteZeroed, At
  <1>2. excl = t /\ t # None
    BY <1>1, FileDataAssumption, ZenonT(60) DEF IInv, ThreadInv, Exclusive
  <1>3. CASE /\ rec' = [rec EXCEPT !.init = ni.init]
             /\ GoWith(t, "copy", [io[t] EXCEPT !.pos = io[t].from])
             /\ UNCHANGED ni
    <2>1. rec'.init = ni.init
      BY <1>3, Zenon DEF IInv, DataTypes
    <2>2. InStep(ni.data)'
      BY Zenon, <1>1, <1>2, <1>3 DEF Agree, Holder, InStep
    <2>3. pc'[t] = "copy"
      BY <1>3, Zenon DEF GoWith, Go, IInv, ThreadTypes
    <2> QED BY <1>1, <1>2, <1>3, <2>1, <2>2, <2>3, AgreeHeld, ZenonT(60) DEF
               locks, Between
  <1>4. CASE /\ ni' = [ni EXCEPT !.init = io[t].init] /\ Go(t, "abort")
             /\ UNCHANGED <<rec, io>>
    BY <1>1, <1>4, ZeroFailsAgree, ZenonT(60)
  <1> QED BY <1>3, <1>4, Zenon DEF WriteZeroed

(* The end of a write moves all of them. *)
LEMMA WriteDoneAgree ==
    ASSUME IInv, Agree, NEW t \in Threads, WriteDone(t) PROVE Agree'
  <1> DEFINE end == io[t].end
  <1>1. pc[t] = "copy"
    BY Zenon DEF WriteDone, At
  <1>2. end \in Nat /\ ni.init \in Nat /\ ThreadInv(t)
    BY Zenon DEF IInv, ThreadTypes, DataTypes, Locals
  <1>3. CASE Leave(t, "ok") /\ UNCHANGED <<ni, rec, ubc, torn, io>>
    BY <1>1, <1>3, AgreeLeaves, Zenon DEF Holding, Between
  <1>4. CASE /\ end > ni.init
             /\ ni' = [ni EXCEPT !.init = end, !.data = Most(@, end)]
             /\ rec' = [rec EXCEPT !.init = end, !.data = Most(@, end)]
             /\ Learn(end)
             /\ Leave(t, "ok")
    <2>1. excl = t
      BY <1>1, <1>2, <1>4 DEF ThreadInv
    <2>2. InStep(ni.data)
      BY <1>1, <2>1, HolderAgrees, Zenon DEF Between
    <2>3. rec'.init = end /\ ni'.init = end /\ ni'.data = Most(ni.data, end)
      BY <1>4, Zenon DEF IInv, DataTypes
    <2>4. excl' = None
      BY <1>4, <2>1, Zenon DEF Leave, Unlock
    <2>5. InStep(ni.data)'
      BY <1>2, <1>4, <2>2, <2>3, LearnAgree, Zenon
    <2> QED BY <2>3, <2>4, <2>5, AgreeFree, Zenon
  <1>5. CASE Go(t, "abort") /\ UNCHANGED <<ni, rec, ubc, torn, io, locks>>
    BY <1>1, <1>5, AgreeGoes, Zenon DEF locks, Between
  <1>6. CASE /\ GoWith(t, "resize", [io[t] EXCEPT !.end = Most(io[t].from, ni.init)])
             /\ UNCHANGED <<ni, rec, ubc, torn, locks>>
    BY <1>1, <1>6, AgreeWith DEF locks, Between
  <1> QED BY <1>3, <1>4, <1>5, <1>6, Zenon DEF WriteDone

(* A truncation first moves that of the page cache. *)
LEMMA ResizeCacheAgree ==
    ASSUME IInv, Agree, NEW t \in Threads, ResizeCache(t) PROVE Agree'
  <1> DEFINE n == Target(t)
  <1>1. /\ pc[t] = "resize" /\ UNCHANGED <<ni, rec, locks>> /\ torn' = torn
        /\ io' = [io EXCEPT ![t] = [io[t] EXCEPT !.pos = ubc]]
        /\ Go(t, "resize2")
    BY Zenon DEF ResizeCache, At, GoWith
  <1>2. excl = t /\ t # None
    BY ZenonT(60), <1>1, FileDataAssumption DEF IInv, ThreadInv, Exclusive
  <1>3. rec.init = ni.init /\ InStep(ni.data)
    BY Zenon, <1>1, <1>2, HolderAgrees DEF Between
  <1>4. n \in Nat /\ ni.data \in Nat
    BY Zenon, TargetType DEF IInv, DataTypes
  <1>5. Target(t)' = n /\ io'[t].pos = ubc
    BY <1>1 DEF Target, Writes, IInv, ThreadTypes, Locals
  <1>6. pc'[t] = "resize2"
    BY <1>1, ZenonT(60) DEF Go, IInv, ThreadTypes
  <1> HIDE DEF n
  <1>7. torn \/ ubc' = Least(n, ni.data)
    BY <1>3, <1>4, Zenon DEF ResizeCache, SetSize, Least, InStep, n
  <1>8. InStep(Least(Target(t), ni.data))'
    BY <1>1, <1>5, <1>7, Zenon DEF InStep, Least
  <1>9. torn' \/ io'[t].pos = ni'.data
    BY <1>1, <1>3, <1>5, Zenon DEF InStep
  <1> QED BY <1>1, <1>2, <1>3, <1>6, <1>8, <1>9, ZenonT(60) DEF Agree, Holder,
             locks

(* What is true of the holder at the second step of a truncation. *)
LEMMA Resizing ==
    ASSUME IInv, Agree, NEW t \in Threads, pc[t] = "resize2"
    PROVE  /\ excl = t /\ t # None /\ rec.init = ni.init /\ rec.data = ni.data
           /\ torn \/ io[t].pos = ni.data
           /\ Target(t) \in Nat /\ ni.data \in Nat /\ io[t].pos \in Nat
  <1>1. excl = t /\ t # None
    BY ZenonT(60), FileDataAssumption DEF IInv, ThreadInv, Exclusive
  <1>2. rec.init = ni.init /\ (torn \/ io[t].pos = ni.data)
    BY Zenon, <1>1 DEF Agree, Holder
  <1>3. io[t].pos \in Nat
    BY Zenon DEF IInv, ThreadTypes, Locals
  <1> QED BY ZenonT(60), <1>1, <1>2, <1>3, TargetType DEF IInv, Ordered, DataTypes

(* One that fails before it changed a size puts that of the page cache     *)
(* back.                                                                   *)
LEMMA ResizeFailsAgree ==
    ASSUME IInv, Agree, NEW t \in Threads, pc[t] = "resize2",
           SetUbc(rec.data) \/ SetUbc(io[t].pos), torn' = torn,
           Leave(t, ResizeFailed(t)), UNCHANGED <<ni, rec, disk>>
    PROVE  Agree'
  <1>1. /\ excl = t /\ rec.init = ni.init /\ rec.data = ni.data
        /\ torn \/ io[t].pos = ni.data
        /\ ni.data \in Nat /\ io[t].pos \in Nat
    BY Resizing, Zenon
  <1>2. torn \/ ubc' = ni.data
    BY <1>1, SetUbcType, Zenon
  <1>3. InStep(ni.data)'
    BY <1>2, Zenon DEF InStep
  <1> QED BY <1>1, <1>3, AgreeFree, Zenon DEF Leave, Unlock

(* What setting the sizes does to the two that must agree. *)
LEMMA SetSizesAgree ==
    ASSUME IInv, NEW n, NEW alloc, SetSizes(n, alloc)
    PROVE  rec'.init = ni'.init /\ ni'.data = n
  <1> DEFINE init == ResizedInit(n)
             val == [u \in DOMAIN rec.val |->
                       IF u < Least(n, rec.data) THEN rec.val[u] ELSE Zero]
  <1>1. /\ ni' = [ni EXCEPT !.alloc = alloc, !.data = n, !.init = init]
        /\ rec' = [rec EXCEPT !.data = n, !.init = init, !.val = val]
    BY Zenon DEF SetSizes
  <1> HIDE DEF init, val
  <1> QED BY <1>1, Zenon DEF IInv, DataTypes

(* Then it moves the others, or puts that of the page cache back, *)
LEMMA ResizeRecordAgree ==
    ASSUME IInv, Agree, NEW t \in Threads, ResizeRecord(t) PROVE Agree'
  <1> DEFINE n == Target(t)
             room == IF NInoNonResident THEN RoundUp(n) ELSE n
  <1>1. pc[t] = "resize2"
    BY Zenon DEF ResizeRecord, At
  <1>2. excl = t /\ n \in Nat
    BY Zenon, <1>1, Resizing
  <1> HIDE DEF n, room
  <1>3. CASE SetSizes(n, room) /\ SetUbc(n) /\ Leave(t, Result(t))
    <2>1. rec'.init = ni'.init /\ ni'.data = n
      BY <1>3, SetSizesAgree, Zenon
    <2>2. InStep(ni.data)'
      BY <1>2, <1>3, <2>1, SetUbcType, Zenon DEF InStep
    <2>3. excl' = None
      BY <1>2, <1>3, Zenon DEF Leave, Unlock
    <2> QED BY <2>1, <2>2, <2>3, AgreeFree, Zenon
  <1>4. CASE /\ \E size \in {io[t].pos, rec.data} : SetUbc(size)
             /\ Leave(t, ResizeFailed(t)) /\ UNCHANGED <<ni, rec, disk, torn>>
    BY <1>1, <1>4, ResizeFailsAgree, Zenon
  <1> QED BY <1>3, <1>4, Zenon DEF ResizeRecord, n, room

(* or leaves it behind, and is remembered if that matters. *)
LEMMA ResizeTornAgree ==
    ASSUME IInv, Agree, NEW t \in Threads, ResizeTorn(t) PROVE Agree'
  <1> DEFINE n == Target(t)
  <1>1. pc[t] = "resize2"
    BY Zenon DEF ResizeTorn, At
  <1>2. excl = t /\ rec.data = ni.data /\ ni.data \in Nat
    BY <1>1, Resizing, Zenon
  <1>3. /\ SetUbc(rec.data) /\ Leave(t, ResizeFailed(t))
        /\ torn' = (torn \/ n # rec.data)
    BY Zenon DEF ResizeTorn
  <1>4. rec'.init = ni'.init /\ ni'.data = n
    BY SetSizesAgree, Zenon DEF ResizeTorn
  <1> HIDE DEF n
  <1>5. InStep(ni.data)'
    BY <1>2, <1>3, <1>4, SetUbcType, Zenon DEF InStep
  <1>6. excl' = None
    BY <1>2, <1>3, Zenon DEF Leave, Unlock
  <1> QED BY <1>4, <1>5, <1>6, AgreeFree, Zenon

(* A larger size moves that of the page cache last. *)
LEMMA ResizeExtendAgree ==
    ASSUME IInv, Agree, NEW t \in Threads, ResizeExtend(t) PROVE Agree'
  <1> DEFINE n == Target(t)
  <1>1. pc[t] = "resize2"
    BY Zenon DEF ResizeExtend, At
  <1>2. excl = t /\ rec.init = ni.init /\ n \in Nat
    BY <1>1, Resizing, Zenon
  <1> HIDE DEF n
  <1>3. CASE /\ ni' = [ni EXCEPT !.alloc = RoundUp(n), !.data = n]
             /\ rec' = [rec EXCEPT !.data = n]
             /\ SetUbc(n)
             /\ Leave(t, Result(t))
    <2>1. rec'.init = rec.init /\ ni'.init = ni.init /\ ni'.data = n
      BY <1>3, Zenon DEF IInv, DataTypes
    <2>2. excl' = None
      BY <1>2, <1>3, Zenon DEF Leave, Unlock
    <2>3. InStep(ni.data)'
      BY <1>2, <1>3, <2>1, SetUbcType, Zenon DEF InStep
    <2> QED BY <1>2, <2>1, <2>2, <2>3, AgreeFree, Zenon
  <1>4. CASE /\ SetUbc(rec.data) /\ Leave(t, ResizeFailed(t))
             /\ UNCHANGED <<ni, rec, disk, torn>>
    BY <1>1, <1>4, ResizeFailsAgree, Zenon
  <1> QED BY <1>3, <1>4, Zenon DEF ResizeExtend, n

(* Moving the value out of the record does not. *)
LEMMA ResizeConvertAgree ==
    ASSUME IInv, Agree, NEW t \in Threads, ResizeConvert(t) PROVE Agree'
  <1>1. pc[t] = "resize2" /\ torn' = torn /\ io' = io
    BY Zenon DEF ResizeConvert, At
  <1>2. CASE MakeNonResident /\ UNCHANGED <<ubc, behind, locks, pc>>
    BY <1>1, <1>2, MakeNonResidentSizes, AgreePager, Zenon DEF locks
  <1>3. CASE /\ SetUbc(rec.data) /\ Leave(t, ResizeFailed(t))
             /\ UNCHANGED <<ni, rec, disk>>
    BY <1>1, <1>3, ResizeFailsAgree, Zenon
  <1> QED BY <1>2, <1>3, Zenon DEF ResizeConvert

-----------------------------------------------------------------------------
(* The specification. *)

(* A file that was just opened agrees with its record. *)
LEMMA InitAgree == Init => Agree
  BY DEF Init, Agree, InStep

(* Every step keeps the agreement. *)
LEMMA NextAgree == IInv /\ Agree /\ [Next]_vars => Agree'
  <1> SUFFICES ASSUME IInv, Agree, [Next]_vars PROVE Agree'
    OBVIOUS
  <1>1. CASE UNCHANGED vars
    BY <1>1, AgreePager, Zenon DEF vars
  <1>2. ASSUME NEW t \in Threads, Write(t) \/ SetAttr(t) \/ Sync(t) \/ Return(t)
        PROVE  Agree'
    BY <1>2, CallAgree, Zenon
  <1>3. ASSUME NEW t \in Threads, WriteStep(t) PROVE Agree'
    BY <1>3, WriteLockAgree, WriteStartAgree, WriteExtendAgree,
       WriteConvertAgree, WriteInitAgree, WriteZeroPageAgree, WriteZeroedAgree,
       WriteCopyAgree, WriteDoneAgree, WriteAbortAgree, ZenonT(60) DEF
       WriteStep
  <1>4. ASSUME NEW t \in Threads, ResizeStep(t) PROVE Agree'
    BY <1>4, SetAttrLockAgree, ResizeCacheAgree, ResizeRecordAgree,
       ResizeTornAgree, ResizeExtendAgree, ResizeConvertAgree, ZenonT(60) DEF ResizeStep
  <1>5. ASSUME NEW t \in Threads, SyncStep(t) PROVE Agree'
    BY <1>5, SyncAgree, Zenon
  <1>6. ASSUME NEW p, PageIn(p) \/ PageOut(p) \/ Evict(p) \/ Store(p)
        PROVE  Agree'
    BY <1>6, PageAgree, Zenon
  <1> QED BY <1>1, <1>2, <1>3, <1>4, <1>5, <1>6, ZenonT(60) DEF Next

(* The sizes ntfs_attr.c keeps in step are in order, and the inode and the *)
(* record agree on them whenever nobody holds ni->lock exclusively,        *)
(* whatever failed; so does the page cache, except after a resize that     *)
(* failed half way: SizesAgree of FileData.                                *)
THEOREM SizesAgreeHolds == Spec => []SizesAgree
  <1>1. ASSUME IInv, Agree PROVE SizesAgree
    <2>1. torn \/ ubc <= ni.data
      <3>1. CASE excl = None
        BY <1>1, <3>1 DEF Agree, InStep, IInv, DataTypes
      <3>2. CASE excl # None
        <4>1. PICK t \in Threads : excl = t
          BY <1>1, <3>2, Zenon DEF IInv, ThreadTypes
        <4>2. Target(t) \in Nat /\ ni.data \in Nat
          BY <1>1, TargetType, Zenon DEF IInv, DataTypes
        <4>3. InStep(Least(Target(t), ni.data)) \/ InStep(ni.data)
          BY <1>1, <3>2, <4>1, Zenon DEF Agree, Holder
        <4> QED BY <4>2, <4>3 DEF InStep, Least
      <3> QED BY <3>1, <3>2, Zenon
    <2> QED BY <1>1, <2>1, Zenon DEF IInv, Ordered, Agree, InStep, SizesAgree
  <1> QED BY <1>1, InitInv, NextInv, InitAgree, NextAgree, PTL DEF Spec
=============================================================================
