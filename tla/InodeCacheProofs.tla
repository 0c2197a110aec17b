-------------------------- MODULE InodeCacheProofs --------------------------
(***************************************************************************)
(* The inode cache is consistent for every number of threads, records and  *)
(* inode objects, every set of operations and every injected failure.      *)
(*                                                                         *)
(* The inductive invariant says, for each place of a thread, what it may   *)
(* rely on of the inode it works on (ThreadInv), that two threads never    *)
(* both own an inode (PairInv, NewInv), and what the flags, the vnode and  *)
(* the references of an inode say of one another (InodeInv).               *)
(*                                                                         *)
(* A step of a thread is seen by the others only through Works: it changes *)
(* an inode nobody else has in any way (Alone), or one that others have    *)
(* only in a way they do not rely on (Shares).  So each action is taken    *)
(* apart once, and what Works means for the other threads is shown once.   *)
(***************************************************************************)
EXTENDS InodeCache, TLAPS

\* A thread that owns an inode alone: it loads it, or it destroys it.  At the
\* other places of Pinned it has a reference, except where it has just put a
\* new inode into the hash.
Tearing == {"reclaim", "recwake", "destroy"}
Loading == {"read", "addvnode"}
Held == {"direntry", "clear", "wake", "recycle", "using", "put", "inactive",
         "inactwake", "freerec", "panic"}

Sole(t) ==
    \/ pc[t] \in Tearing \cup Loading
    \/ pc[t] \in Pinned /\ "Alloc" \in flags[ni[t]]

\* An inode a thread has allocated and not inserted, one it loads, and one it
\* has a reference on.
New(i) == i \notin hashed /\ vnode[i] = "none" /\ flags[i] = {"Alloc"}
Unloaded(i) == vnode[i] = "none" /\ flags[i] = {"Alloc"}
Has(t) == t \in refs[ni[t]] /\ vnode[ni[t]] = "live"

\* What a thread relies on at each of its places.
ThreadInv(t) ==
    /\ pc[t] # "idle" => tk[t] \in Keys
    /\ pc[t] = "sleep" <=> hashLock = t
    /\ pc[t] = "sleep" => ni[t] \in hashed
    /\ pc[t] \in Pinned => ni[t] \in Inodes /\ key[ni[t]] = tk[t]
    /\ pc[t] \in Held => Has(t)
    /\ pc[t] = "check" => IF "Alloc" \in flags[ni[t]]
                          THEN Unloaded(ni[t]) ELSE Has(t)
    /\ pc[t] \in Loading => Unloaded(ni[t])
    /\ pc[t] \in Tearing => vnode[ni[t]] # "live"
    /\ pc[t] \in {"recwake", "destroy"} => ni[t] \notin hashed
    /\ pc[t] \in {"wake", "using"} => "Alloc" \notin flags[ni[t]]
    /\ t \in vid => /\ pc[t] = "getref" /\ ni[t] \in Inodes
                    /\ vnode[ni[t]] # "none" /\ key[ni[t]] = tk[t]
                    /\ "Alloc" \notin flags[ni[t]]
    /\ nni[t] # NoInode => /\ pc[t] \in {"find", "sleep", "asleep", "getref"}
                           /\ New(nni[t]) /\ key[nni[t]] = tk[t]

\* No thread works on an inode another one owns.
PairInv(t, u) ==
    /\ Sole(t) /\ pc[u] \in Pinned => ni[u] # ni[t]
    /\ nni[t] # NoInode => nni[u] # nni[t]

NewInv(t, u) == nni[t] # NoInode /\ pc[u] \in Pinned => ni[u] # nni[t]

\* NI_Deleted is set on an inode without a link, or on one that is reclaimed
\* and whose vnode nobody can get.
InodeLocal(i) ==
    /\ vnode[i] # "none" => key[i] # NoKey
    /\ vnode[i] = "none" => refs[i] = {}
    /\ i \in hashed => /\ key[i] # NoKey
                       /\ flags[i] \cap {"Reclaim", "Deleted"} = {}
                       /\ "Alloc" \notin flags[i] => vnode[i] # "none"
    /\ "Reclaim" \in flags[i] => vnode[i] # "live"
    /\ "Deleted" \in flags[i] => "Reclaim" \in flags[i] \/ i \notin linked

InodeInv(i) ==
    /\ InodeLocal(i)
    /\ \A t \in refs[i] : pc[t] \in Pinned /\ ni[t] = i

IInv ==
    /\ Types
    /\ HashUnique
    /\ \A t \in Threads : ThreadInv(t)
    /\ \A t, u \in Threads : t # u => PairInv(t, u)
    /\ \A t, u \in Threads : NewInv(t, u)
    /\ \A i \in Inodes : InodeInv(i)

\* What a step of t leaves alone: the other threads, and the inodes not in X.
Only(t, X) ==
    /\ X \subseteq Inodes
    /\ \A v \in Threads \ {t} : /\ pc'[v] = pc[v] /\ tk'[v] = tk[v]
                                /\ ni'[v] = ni[v] /\ nni'[v] = nni[v]
    /\ \A j \in Inodes \ X :
           /\ key'[j] = key[j] /\ flags'[j] = flags[j]
           /\ vnode'[j] = vnode[j] /\ refs'[j] = refs[j]
           /\ j \in hashed' <=> j \in hashed
           /\ j \in linked' <=> j \in linked

\* Nobody but t works on j, or has allocated it.
Alone(t, j) ==
    \A v \in Threads \ {t} : (pc[v] \in Pinned => ni[v] # j) /\ nni[v] # j

\* A step of t that others who have j do not notice.
Shares(t, j) ==
    /\ key'[j] = key[j] /\ vnode'[j] = vnode[j]
    /\ "Alloc" \in flags'[j] <=> "Alloc" \in flags[j]
    /\ \A v \in Threads \ {t} : v \in refs'[j] <=> v \in refs[j]
    /\ \/ flags'[j] = flags[j] /\ (j \in hashed' <=> j \in hashed)
       \/ pc[t] \in Pinned /\ ni[t] = j

\* A step of t, as the other threads see it.
Works(t) ==
    /\ \A v \in Threads \ {t} :
           /\ pc'[v] = pc[v] \/ (pc[v] = "asleep" /\ pc'[v] = "find")
           /\ tk'[v] = tk[v] /\ ni'[v] = ni[v] /\ nni'[v] = nni[v]
           /\ hashLock' = v <=> hashLock = v
           /\ v \in vid' => /\ v \in vid
                            /\ key'[ni[v]] = key[ni[v]]
                            /\ vnode'[ni[v]] # "none"
                            /\ "Alloc" \notin flags'[ni[v]]
    /\ hashLock # NoThread => hashed \subseteq hashed'
    /\ \A j \in Inodes : Alone(t, j) \/ Shares(t, j)
    /\ pc'[t] \in Pinned => \A v \in Threads \ {t} :
           (Sole(v) => ni[v] # ni'[t]) /\ nni[v] # ni'[t]
    /\ Sole(t)' => \A v \in Threads \ {t} : pc[v] \in Pinned => ni[v] # ni'[t]
    /\ nni'[t] # NoInode => Alone(t, nni'[t])

After(t) ==
    /\ ThreadInv(t)' /\ NewInv(t, t)'
    /\ Works(t)
    /\ \A j \in Inodes : InodeInv(j)'
    /\ HashUnique'

\* A step that changes no inode, and takes t from one place to another with
\* the same rights to the inode it works on.
Outside == {"idle", "getbuf", "find", "malloc", "getref", "undo", "clearbit"}

Moves(t) ==
    \/ /\ pc[t] \in Outside /\ pc'[t] \in Outside \ {"getref"}
       /\ t \notin vid /\ (nni[t] # NoInode => pc'[t] = "find")
    \/ pc[t] = "check" /\ "Alloc" \in flags[ni[t]] /\ pc'[t] \in Loading
    \/ pc[t] \in Loading /\ pc'[t] = "reclaim"
    \/ pc[t] = "recwake" /\ pc'[t] = "destroy"
    \/ /\ pc[t] \in Held \/ (pc[t] = "check" /\ "Alloc" \notin flags[ni[t]])
       /\ pc'[t] \in Held \ {"wake"}
       /\ pc'[t] = "using" => "Alloc" \notin flags[ni[t]]

Quiet(t) ==
    /\ UNCHANGED <<hashLock, key, flags, hashed, vnode, refs, ni, nni, vid>>
    /\ linked' \subseteq linked
    /\ \A v \in Threads \ {t} :
           /\ pc'[v] = pc[v] \/ (pc[v] = "asleep" /\ pc'[v] = "find")
           /\ tk'[v] = tk[v]
    /\ pc[t] # "idle" => tk'[t] = tk[t]
    /\ tk'[t] \in Keys
    /\ Moves(t)

Step(t) == Start(t) \/ HashGet(t) \/ Load(t) \/ Create(t) \/ Drop(t) \/ Use(t)

-----------------------------------------------------------------------------
(* Types.                                                                  *)

\* Every step keeps the types.
LEMMA TypesStep ==
    ASSUME IInv, NEW t \in Threads, Step(t)
    PROVE  Types'
<1>0. /\ Types
      /\ pc[t] # "idle" => tk[t] \in Keys
      /\ pc[t] \in Pinned => ni[t] \in Inodes
  BY Zenon DEF IInv, ThreadInv
<1> USE <1>0 DEF Types, Pinned, AllOps, Labels, OpNames, Flags, At, Goto,
                 hashVars, vnodeVars, diskVars, dirVars, threadVars
<1>1. ASSUME NEW k \in Keys, StartVget(t, k) PROVE Types'
  BY <1>1, Zenon DEF StartVget, Begin
<1>2. ASSUME NEW k \in Keys, StartLookup(t, k) PROVE Types'
  BY <1>2, Zenon DEF StartLookup, Begin
<1>3. ASSUME NEW k \in Keys, StartCreate(t, k) PROVE Types'
  BY <1>3, Zenon DEF StartCreate, Begin
<1>4. ASSUME NEW i \in Inodes, StartReaper(t, i) PROVE Types'
  BY <1>4, Zenon DEF StartReaper
<1>5. CASE FindMiss(t)
  BY <1>5, Zenon DEF FindMiss, Match
<1>6. CASE FindBusy(t)
  BY <1>6 DEF FindBusy, Match, Busy
<1>7. CASE Sleep(t)
  BY <1>7, Zenon DEF Sleep
<1>8. CASE FindHit(t)
  <2>1. PICK i \in hashed :
            /\ ni' = [ni EXCEPT ![t] = i]
            /\ \/ DropNew(t) /\ Goto(t, "check") /\ UNCHANGED vid
               \/ /\ vid' = vid \cup {t} /\ Goto(t, "getref")
                  /\ UNCHANGED <<key, flags, nni>>
    BY <1>8, Zenon DEF FindHit, Match
  <2>2. /\ key' \in [Inodes -> Keys \cup {NoKey}]
        /\ flags' \in [Inodes -> SUBSET Flags]
        /\ nni' \in [Threads -> Inodes \cup {NoInode}]
    BY <2>1, ZenonT(60) DEF DropNew, Release
  <2>3. /\ ni' \in [Threads -> Inodes \cup {NoInode}]
        /\ pc' \in [Threads -> Labels] /\ vid' \subseteq Threads
    BY <2>1
  <2>4. UNCHANGED <<hashLock, hashed, linked, vnodeVars, diskVars, dirVars, op,
                    tk, panicked>>
    BY <1>8, Zenon DEF FindHit
  <2> QED
    BY <2>2, <2>3, <2>4, Zenon
<1>9. CASE GetRef(t)
  BY <1>9, ZenonT(60) DEF GetRef, DropNew, Release
<1>10. CASE GetRefFails(t)
  BY <1>10, Zenon DEF GetRefFails
<1>11. CASE Malloc(t)
  BY <1>11 DEF Malloc
<1>12. CASE MallocFails(t)
  BY <1>12, Zenon DEF MallocFails
<1>13. CASE Insert(t)
  BY <1>13, ZenonT(60) DEF Insert, Match
<1>14. CASE CheckCached(t)
  BY <1>14, Zenon DEF CheckCached
<1>15. CASE CheckFresh(t)
  BY <1>15, Zenon DEF CheckFresh
<1>16. CASE Read(t)
  BY <1>16, SMTT(60) DEF Read
<1>17. CASE ReadFails(t)
  BY <1>17, Zenon DEF ReadFails
<1>18. CASE ClearAlloc(t)
  BY <1>18, Zenon DEF ClearAlloc
<1>19. CASE Wake(t)
  BY <1>19, Zenon DEF Wake, WakeupAndGoto
<1>20. CASE GetBuf(t)
  BY <1>20, Zenon DEF GetBuf
<1>21. CASE CheckCreate(t)
  BY <1>21, Zenon DEF CheckCreate
<1>22. CASE AddVnode(t)
  <2>1. /\ errors' \in BOOLEAN /\ op' \in [Threads -> OpNames]
        /\ counted' \subseteq Keys /\ linked' \subseteq Inodes
        /\ pc' \in [Threads -> Labels]
    <3>1. /\ errors' = errors \/ errors' = TRUE
          /\ op' = op \/ op' = [op EXCEPT ![t] = "createfail"]
          /\ counted' = counted \/ counted' = counted \cup {tk[t]}
          /\ linked' = linked \/ linked' = linked \cup {ni[t]}
          /\ Goto(t, "direntry") \/ Goto(t, "clear")
          /\ tk[t] \in Keys /\ ni[t] \in Inodes
      <4> HIDE DEF Types, Goto
      <4> QED BY <1>22, Zenon DEF AddVnode
    <3>2. errors' \in BOOLEAN /\ counted' \subseteq Keys
      BY <3>1, Zenon
    <3>3. linked' \subseteq Inodes
      BY <3>1, SMTT(60)
    <3>4. op' \in [Threads -> OpNames]
      BY <3>1, Zenon
    <3>5. pc' \in [Threads -> Labels]
      BY <3>1, Zenon
    <3> QED BY <3>2, <3>3, <3>4, <3>5, Zenon
  <2>2. /\ vnode' \in [Inodes -> {"none", "live", "term"}]
        /\ refs' \in [Inodes -> SUBSET Threads]
        /\ buf' \in [Keys -> Threads \cup {NoThread}] /\ inuse' \subseteq Keys
    BY <1>22 DEF AddVnode
  <2>3. UNCHANGED <<hashLock, key, flags, hashed, mark, inact, bit, named, dirX,
                    dirS, tk, ni, nni, vid, panicked>>
    BY <1>22, Zenon DEF AddVnode
  <2> QED BY <2>1, <2>2, <2>3, Zenon
<1>23. CASE AddVnodeFails(t)
  BY <1>23, Zenon DEF AddVnodeFails
<1>24. CASE DirEntry(t)
  BY <1>24, Zenon DEF DirEntry
<1>25. CASE DirEntryFails(t)
  BY <1>25, Zenon DEF DirEntryFails
<1>26. CASE Recycle(t)
  BY <1>26, Zenon DEF Recycle
<1>27. CASE Undo(t)
  BY <1>27, Zenon DEF Undo
<1>38. CASE UndoBit(t)
  BY <1>38, Zenon DEF UndoBit, ClearBit
<1>39. CASE GetBufInUse(t)
  BY <1>39, Zenon DEF GetBufInUse
<1>40. CASE GetBufFails(t)
  BY <1>40, Zenon DEF GetBufFails
<1>28. CASE Put(t)
  BY <1>28 DEF Put, AfterInode
<1>29. CASE InactiveKeep(t)
  BY <1>29, Zenon DEF InactiveKeep
<1>30. CASE InactiveDelete(t)
  BY <1>30, Zenon DEF InactiveDelete
<1>31. CASE InactiveWake(t)
  BY <1>31, Zenon DEF InactiveWake, WakeupAndGoto
<1>32. CASE FreeRecord(t)
  BY <1>32, Zenon DEF FreeRecord, ClearBit
<1>33. CASE Reclaim(t)
  BY <1>33, Zenon DEF Reclaim
<1>34. CASE ReclaimWake(t)
  BY <1>34, Zenon DEF ReclaimWake, WakeupAndGoto
<1>35. CASE Destroy(t)
  BY <1>35, Zenon DEF Destroy, Release, AfterInode
<1>36. CASE Unlink(t)
  BY <1>36, Zenon DEF Unlink
<1>37. CASE Close(t)
  BY <1>37, Zenon DEF Close
<1> HIDE <1>0 DEF Types, Pinned, AllOps, Labels, OpNames, Flags, At, Goto,
                  hashVars, vnodeVars, diskVars, dirVars, threadVars
<1> QED
  BY <1>1, <1>2, <1>3, <1>4, <1>5, <1>6, <1>7, <1>8, <1>9, <1>10, <1>11, <1>12,
     <1>13, <1>14, <1>15, <1>16, <1>17, <1>18, <1>19, <1>20, <1>21, <1>22,
     <1>23, <1>24, <1>25, <1>26, <1>27, <1>28, <1>29, <1>30, <1>31, <1>32,
     <1>33, <1>34, <1>35, <1>36, <1>37, <1>38, <1>39, <1>40, Zenon
     DEF Step, Start, HashGet, Load, Create, Drop, Use

-----------------------------------------------------------------------------
(* Places, and what a thread has at them.                                  *)

\* The places at which a thread works on an inode.
LEMMA Places ==
    /\ Pinned = Held \cup Loading \cup Tearing \cup {"check"}
    /\ "check" \notin Held \cup Loading \cup Tearing
    /\ Held \cap (Loading \cup Tearing) = {} /\ Loading \cap Tearing = {}
    /\ Pinned \cap (Outside \cup {"sleep", "asleep"}) = {}
    /\ "sleep" \notin Outside /\ "asleep" \notin Outside
BY Zenon DEF Pinned, Held, Loading, Tearing, Outside

\* A thread that works on an inode sleeps on none, searches for none and has
\* none of its own.
LEMMA PinnedThread ==
    ASSUME NEW t \in Threads, ThreadInv(t), pc[t] \in Pinned
    PROVE  /\ tk[t] \in Keys /\ ni[t] \in Inodes /\ key[ni[t]] = tk[t]
           /\ hashLock # t /\ t \notin vid /\ nni[t] = NoInode
<1>1. pc[t] \notin {"idle", "sleep", "find", "asleep", "getref"}
  BY Places, Zenon DEF Outside
<1> QED
  BY <1>1, Zenon DEF ThreadInv

\* A thread that has a reference.
LEMMA HeldThread ==
    ASSUME NEW t \in Threads, pc'[t] \in Held, tk'[t] \in Keys,
           ni'[t] \in Inodes, key'[ni'[t]] = tk'[t], Has(t)', hashLock' # t,
           t \notin vid', nni'[t] = NoInode,
           pc'[t] \in {"wake", "using"} => "Alloc" \notin flags'[ni'[t]]
    PROVE  ThreadInv(t)' /\ NewInv(t, t)'
<1>1. /\ pc'[t] \notin {"sleep", "check", "recwake", "destroy"}
      /\ pc'[t] \notin Loading /\ pc'[t] \notin Tearing
  BY Places, Zenon DEF Tearing
<1> QED
  BY <1>1, Zenon DEF ThreadInv, NewInv

\* A thread that destroys an inode.
LEMMA TearingThread ==
    ASSUME NEW t \in Threads, pc'[t] \in Tearing, tk'[t] \in Keys,
           ni'[t] \in Inodes, key'[ni'[t]] = tk'[t], hashLock' # t,
           t \notin vid', nni'[t] = NoInode, vnode'[ni'[t]] # "live",
           pc'[t] # "reclaim" => ni'[t] \notin hashed'
    PROVE  ThreadInv(t)' /\ NewInv(t, t)'
<1>1. /\ pc'[t] \notin {"sleep", "check", "wake", "using"}
      /\ pc'[t] \notin Loading /\ pc'[t] \notin Held
  BY Places, Zenon DEF Tearing
<1> QED
  BY <1>1, Zenon DEF ThreadInv, NewInv

\* A thread that loads an inode.
LEMMA LoadingThread ==
    ASSUME NEW t \in Threads, pc'[t] \in Loading \cup {"check"},
           tk'[t] \in Keys, ni'[t] \in Inodes, key'[ni'[t]] = tk'[t],
           hashLock' # t, t \notin vid', nni'[t] = NoInode, Unloaded(ni[t])'
    PROVE  ThreadInv(t)' /\ NewInv(t, t)'
<1>1. /\ pc'[t] \notin {"sleep", "wake", "using", "recwake", "destroy"}
      /\ pc'[t] \notin Tearing /\ pc'[t] \notin Held
  BY Places, Zenon DEF Tearing, Loading
<1>2. pc'[t] = "check" => "Alloc" \in flags'[ni'[t]]
  BY Zenon DEF Unloaded
<1> QED
  BY <1>1, <1>2, Zenon DEF ThreadInv, NewInv

\* A thread that works on no inode.
LEMMA OutsideThread ==
    ASSUME NEW t \in Threads, pc'[t] \in Outside \cup {"asleep"},
           tk'[t] \in Keys, hashLock' # t, t \notin vid',
           nni'[t] # NoInode => /\ pc'[t] \in {"find", "asleep"}
                                /\ New(nni[t])' /\ key'[nni'[t]] = tk'[t]
    PROVE  ThreadInv(t)' /\ NewInv(t, t)'
<1>1. /\ pc'[t] \notin Pinned
      /\ pc'[t] # "sleep"
  BY Places, Zenon
<1>2. /\ pc'[t] \notin Held /\ pc'[t] \notin Loading /\ pc'[t] \notin Tearing
      /\ pc'[t] # "check"
  BY <1>1, Places, Zenon
<1>3. pc'[t] \notin {"wake", "using", "recwake", "destroy"}
  BY <1>2, Zenon DEF Held, Tearing
<1> QED
  BY <1>1, <1>2, <1>3, Zenon DEF ThreadInv, NewInv

-----------------------------------------------------------------------------
(* What a thread has to itself.                                            *)

\* No other thread works on the inode a thread owns.
LEMMA SoleAlone ==
    ASSUME IInv, NEW t \in Threads, Sole(t), pc[t] \in Pinned
    PROVE  Alone(t, ni[t])
<1>1. ni[t] # NoInode
  BY PinnedThread, InodeCacheAssumption, Zenon DEF IInv
<1>2. ASSUME NEW v \in Threads, v # t
      PROVE  (pc[v] \in Pinned => ni[v] # ni[t]) /\ nni[v] # ni[t]
  <2>1. PairInv(t, v) /\ NewInv(v, t)
    BY <1>2, Zenon DEF IInv
  <2> QED
    BY <1>1, <2>1, Zenon DEF PairInv, NewInv
<1> QED
  BY <1>2, Zenon DEF Alone

\* No other thread has the inode a thread allocated.
LEMMA NewAlone ==
    ASSUME IInv, NEW t \in Threads, nni[t] # NoInode
    PROVE  Alone(t, nni[t])
<1>1. ASSUME NEW v \in Threads, v # t
      PROVE  (pc[v] \in Pinned => ni[v] # nni[t]) /\ nni[v] # nni[t]
  <2>1. PairInv(t, v) /\ NewInv(t, v)
    BY <1>1, Zenon DEF IInv
  <2> QED
    BY <2>1, Zenon DEF PairInv, NewInv
<1> QED
  BY <1>1, Zenon DEF Alone

\* No thread has memory that is free.
LEMMA FreeAlone ==
    ASSUME IInv, NEW t \in Threads, NEW j \in Inodes, key[j] = NoKey
    PROVE  Alone(t, j)
<1>1. ASSUME NEW v \in Threads
      PROVE  (pc[v] \in Pinned => ni[v] # j) /\ nni[v] # j
  <2>1. ThreadInv(v)
    BY Zenon DEF IInv
  <2>2. pc[v] \in Pinned => key[ni[v]] \in Keys
    BY <2>1, PinnedThread, Zenon
  <2>3. CASE nni[v] = j
    <3>1. nni[v] # NoInode
      BY <2>3, InodeCacheAssumption, Zenon
    <3>2. pc[v] # "idle" /\ key[nni[v]] = tk[v]
      BY ONLY <2>1, <3>1, Zenon DEF ThreadInv
    <3>3. tk[v] \in Keys
      BY ONLY <2>1, <3>2, Zenon DEF ThreadInv
    <3> QED
      BY <2>3, <3>2, <3>3, InodeCacheAssumption, Zenon
  <2> QED
    BY <2>2, <2>3, InodeCacheAssumption, Zenon
<1> QED
  BY <1>1, Zenon DEF Alone

\* A thread that works on an inode with a live vnode has a reference on it.
LEMMA LiveIsHeld ==
    ASSUME NEW v \in Threads, ThreadInv(v), pc[v] \in Pinned,
           vnode[ni[v]] = "live"
    PROVE  v \in refs[ni[v]]
<1>1. CASE pc[v] \in Held
  BY <1>1, Zenon DEF ThreadInv, Has
<1>2. CASE pc[v] \in Loading \cup Tearing
  BY <1>2, Zenon DEF ThreadInv, Unloaded
<1>3. CASE pc[v] = "check"
  BY <1>3, Zenon DEF ThreadInv, Unloaded, Has
<1> QED
  BY <1>1, <1>2, <1>3, Places, Zenon

\* No other thread has an inode with a vnode on which only t has a reference.
LEMMA LastAlone ==
    ASSUME IInv, NEW t \in Threads, NEW j \in Inodes, vnode[j] = "live",
           refs[j] \subseteq {t}
    PROVE  Alone(t, j)
<1>1. ASSUME NEW v \in Threads, v # t
      PROVE  (pc[v] \in Pinned => ni[v] # j) /\ nni[v] # j
  <2>1. ThreadInv(v)
    BY Zenon DEF IInv
  <2>2. pc[v] \in Pinned => ni[v] # j
    BY <1>1, <2>1, LiveIsHeld, Zenon
  <2>3. nni[v] # j
    BY <2>1, InodeCacheAssumption, Zenon DEF ThreadInv, New
  <2> QED
    BY <2>2, <2>3, Zenon
<1> QED
  BY <1>1, Zenon DEF Alone

\* A thread that works on an inode works on none another thread owns.
LEMMA PinnedApart ==
    ASSUME IInv, NEW t \in Threads, pc[t] \in Pinned
    PROVE  \A v \in Threads \ {t} : (Sole(v) => ni[v] # ni[t]) /\ nni[v] # ni[t]
<1>1. ni[t] # NoInode
  BY PinnedThread, InodeCacheAssumption, Zenon DEF IInv
<1>2. ASSUME NEW v \in Threads, v # t
      PROVE  (Sole(v) => ni[v] # ni[t]) /\ nni[v] # ni[t]
  <2>1. PairInv(v, t) /\ NewInv(v, t)
    BY <1>2, Zenon DEF IInv
  <2> QED
    BY <1>1, <2>1, Zenon DEF PairInv, NewInv
<1> QED
  BY <1>2, Zenon

\* An owner works on its inode.
LEMMA SolePinned ==
    ASSUME NEW t \in Threads, Sole(t)
    PROVE  pc[t] \in Pinned
BY Places, Zenon DEF Sole

-----------------------------------------------------------------------------
(* What follows for the inodes and the other threads from the changes to   *)
(* the inodes a step touches.                                              *)

\* The inodes a step does not touch keep their part of the invariant, and the
\* references on those it touches are of the thread or were there before.
LEMMA InodesAfter ==
    ASSUME IInv, Types', NEW t \in Threads, NEW X, Only(t, X),
           pc[t] \in Pinned => ni[t] \in X,
           \A j \in X : /\ InodeLocal(j)'
                        /\ refs'[j] \subseteq refs[j] \cup {t}
                        /\ t \in refs'[j] => pc'[t] \in Pinned /\ ni'[t] = j
    PROVE  \A j \in Inodes : InodeInv(j)'
<1> SUFFICES ASSUME NEW j \in Inodes PROVE InodeInv(j)'
  OBVIOUS
<1>1. InodeInv(j)
  BY Zenon DEF IInv
<1>2. InodeLocal(j)'
  <2>1. CASE j \in X
    BY <2>1, Zenon
  <2>2. CASE j \notin X
    BY <1>1, <2>2, Zenon DEF Only, InodeInv, InodeLocal
  <2> QED
    BY <2>1, <2>2, Zenon
<1>3. ASSUME NEW v \in refs'[j] PROVE pc'[v] \in Pinned /\ ni'[v] = j
  <2>1. v \in Threads
    BY Zenon DEF Types
  <2>2. v # t => v \in refs[j]
    BY Zenon DEF Only
  <2>3. CASE v # t
    BY <1>1, <2>1, <2>2, <2>3, Zenon DEF Only, InodeInv
  <2>4. CASE v = t /\ j \in X
    BY <2>4, Zenon
  <2>5. CASE v = t /\ j \notin X
    BY <1>1, <2>5, Zenon DEF Only, InodeInv
  <2> QED
    BY <2>3, <2>4, <2>5, Zenon
<1> QED
  BY <1>2, <1>3, Zenon DEF InodeInv

\* No inode enters the hash, and those in it keep their keys.
LEMMA HashAfter ==
    ASSUME IInv, NEW t \in Threads, NEW X, Only(t, X), hashed' \subseteq Inodes,
           \A j \in X : j \in hashed' => j \in hashed /\ key'[j] = key[j]
    PROVE  HashUnique'
<1>1. \A j \in hashed' : j \in hashed /\ key'[j] = key[j]
  BY Zenon DEF Only
<1>2. HashUnique
  BY Zenon DEF IInv
<1> QED
  BY <1>1, <1>2, Zenon DEF HashUnique

\* What the other threads see of a step that touches the inodes in X.
LEMMA WorksAfter ==
    ASSUME IInv, NEW t \in Threads, NEW X, Only(t, X),
           \A j \in X : Alone(t, j) \/ Shares(t, j),
           hashLock' = hashLock \/ (hashLock' \in {t, NoThread}
                                    /\ hashLock \in {t, NoThread}),
           hashLock # NoThread => hashed \subseteq hashed',
           \A v \in vid' : v # t => v \in vid,
           \A v \in vid' : v # t /\ ni[v] \in X =>
               /\ key'[ni[v]] = key[ni[v]] /\ vnode'[ni[v]] # "none"
               /\ "Alloc" \notin flags'[ni[v]],
           pc'[t] \in Pinned => \A v \in Threads \ {t} :
               (Sole(v) => ni[v] # ni'[t]) /\ nni[v] # ni'[t],
           Sole(t)' => \A v \in Threads \ {t} : pc[v] \in Pinned => ni[v] # ni'[t],
           nni'[t] # NoInode => Alone(t, nni'[t])
    PROVE  Works(t)
<1>1. ASSUME NEW v \in Threads, v # t
      PROVE  /\ pc'[v] = pc[v] /\ tk'[v] = tk[v]
             /\ ni'[v] = ni[v] /\ nni'[v] = nni[v]
             /\ hashLock' = v <=> hashLock = v
  <2>1. /\ pc'[v] = pc[v] /\ tk'[v] = tk[v]
        /\ ni'[v] = ni[v] /\ nni'[v] = nni[v]
    BY <1>1, Zenon DEF Only
  <2>2. v # NoThread
    BY InodeCacheAssumption, Zenon
  <2>3. hashLock' = v <=> hashLock = v
    BY <1>1, <2>2, Zenon
  <2> QED
    BY <2>1, <2>3, Zenon
<1>2. ASSUME NEW v \in Threads, v # t, v \in vid'
      PROVE  /\ v \in vid
             /\ key'[ni[v]] = key[ni[v]] /\ vnode'[ni[v]] # "none"
             /\ "Alloc" \notin flags'[ni[v]]
  <2>1. v \in vid
    BY <1>2, Zenon
  <2>2. ni[v] \in Inodes /\ vnode[ni[v]] # "none" /\ "Alloc" \notin flags[ni[v]]
    BY <2>1, Zenon DEF IInv, ThreadInv
  <2>3. CASE ni[v] \in X
    BY <1>2, <2>1, <2>3, Zenon
  <2>4. CASE ni[v] \notin X
    BY <2>1, <2>2, <2>4, Zenon DEF Only
  <2> QED
    BY <2>3, <2>4, Zenon
<1>3. ASSUME NEW j \in Inodes PROVE Alone(t, j) \/ Shares(t, j)
  <2>1. CASE j \notin X
    BY <2>1, Zenon DEF Only, Shares
  <2> QED
    BY <2>1, Zenon
<1> QED
  BY <1>1, <1>2, <1>3, Zenon DEF Works

\* The same for a thread that works on an inode and touches only that one.
LEMMA PinnedWorks ==
    ASSUME IInv, NEW t \in Threads, pc[t] \in Pinned, Only(t, {ni[t]}),
           ni'[t] = ni[t], nni'[t] = nni[t],
           Alone(t, ni[t]) \/ Shares(t, ni[t]),
           hashLock' = hashLock,
           hashLock # NoThread => hashed \subseteq hashed',
           \A v \in vid' : v \in vid,
           \A v \in vid' : ni[v] = ni[t] =>
               /\ key'[ni[t]] = key[ni[t]] /\ vnode'[ni[t]] # "none"
               /\ "Alloc" \notin flags'[ni[t]],
           Sole(t)' => Alone(t, ni[t])
    PROVE  Works(t)
<1>1. \A v \in Threads \ {t} : (Sole(v) => ni[v] # ni'[t]) /\ nni[v] # ni'[t]
  BY PinnedApart, Zenon
<1>2. Sole(t)' => \A v \in Threads \ {t} : pc[v] \in Pinned => ni[v] # ni'[t]
  BY Zenon DEF Alone
<1>3. nni'[t] = NoInode
  BY PinnedThread, Zenon DEF IInv
<1>4. \A v \in vid' : v # t /\ ni[v] \in {ni[t]} =>
          /\ key'[ni[v]] = key[ni[v]] /\ vnode'[ni[v]] # "none"
          /\ "Alloc" \notin flags'[ni[v]]
  OBVIOUS
<1>5. \A j \in {ni[t]} : Alone(t, j) \/ Shares(t, j)
  OBVIOUS
<1> QED
  BY <1>1, <1>2, <1>3, <1>4, <1>5, WorksAfter, Zenon

\* Nobody has a vnode id of an inode without a vnode.
LEMMA NoId ==
    ASSUME IInv, NEW v \in vid
    PROVE  /\ v \in Threads /\ ni[v] \in Inodes /\ vnode[ni[v]] # "none"
           /\ "Alloc" \notin flags[ni[v]]
BY Zenon DEF IInv, Types, ThreadInv

-----------------------------------------------------------------------------
(* The steps that change an inode.                                         *)

\* ntfs_inode_read() and ntfs_mft_record_alloc() attach a vnode to the inode
\* they load.
LEMMA LoadedStep ==
    ASSUME IInv, Types', NEW t \in Threads, pc[t] \in Loading,
           NEW l \in Held \ {"wake", "using"}, pc' = [pc EXCEPT ![t] = l],
           vnode' = [vnode EXCEPT ![ni[t]] = "live"],
           refs' = [refs EXCEPT ![ni[t]] = {t}],
           linked' \in {linked, linked \cup {ni[t]}},
           UNCHANGED <<hashLock, key, flags, hashed, tk, ni, nni, vid>>
    PROVE  After(t)
<1>1. ThreadInv(t) /\ pc[t] \in Pinned
  BY Places, Zenon DEF IInv
<1>2. /\ tk[t] \in Keys /\ ni[t] \in Inodes /\ key[ni[t]] = tk[t]
      /\ hashLock # t /\ t \notin vid /\ nni[t] = NoInode
  BY <1>1, PinnedThread, Zenon
<1>3. Unloaded(ni[t])
  BY <1>1, Zenon DEF ThreadInv
<1>4. Alone(t, ni[t])
  BY <1>1, SoleAlone, Zenon DEF Sole
<1>5. pc'[t] = l /\ vnode'[ni[t]] = "live" /\ refs'[ni[t]] = {t}
  BY <1>2, ZenonT(60) DEF IInv, Types
<1>6. Only(t, {ni[t]})
  BY <1>2, ZenonT(60) DEF IInv, Types, Only
<1>7. ThreadInv(t)' /\ NewInv(t, t)'
  BY <1>2, <1>5, HeldThread, Zenon DEF Has
<1>8. \A v \in vid' : ni[v] # ni[t]
  BY <1>3, NoId, Zenon DEF Unloaded
<1>9. Works(t)
  BY <1>1, <1>4, <1>6, <1>8, PinnedWorks, Zenon
<1>10. InodeLocal(ni[t])'
  BY <1>2, <1>3, <1>5, InodeCacheAssumption, Zenon DEF InodeLocal, Unloaded
<1>11. \A j \in Inodes : InodeInv(j)'
  BY <1>1, <1>5, <1>6, <1>10, Places, InodesAfter
<1>12. HashUnique'
  BY <1>6, HashAfter, Zenon DEF Types
<1> QED
  BY <1>7, <1>9, <1>11, <1>12, Zenon DEF After

\* Both branches of ntfs_inode_read().
LEMMA ReadStep ==
    ASSUME IInv, Types', NEW t \in Threads, Read(t)
    PROVE  After(t)
<1>1. /\ pc[t] = "read"
      /\ \E l \in {"clear", "put"} : pc' = [pc EXCEPT ![t] = l]
      /\ vnode' = [vnode EXCEPT ![ni[t]] = "live"]
      /\ refs' = [refs EXCEPT ![ni[t]] = {t}]
      /\ linked' = linked \cup {ni[t]}
      /\ UNCHANGED <<hashLock, key, flags, hashed, tk, ni, nni, vid>>
  BY Zenon DEF Read, At, Goto
<1>2. PICK l \in {"clear", "put"} : pc' = [pc EXCEPT ![t] = l]
  BY <1>1, Zenon
<1>3. l \in Held \ {"wake", "using"} /\ pc[t] \in Loading
  BY <1>1, Zenon DEF Held, Loading
<1> QED
  BY <1>1, <1>2, <1>3, LoadedStep, Zenon

\* Both branches of the end of ntfs_mft_record_alloc().
LEMMA AddVnodeStep ==
    ASSUME IInv, Types', NEW t \in Threads, AddVnode(t)
    PROVE  After(t)
<1>1. /\ pc[t] = "addvnode"
      /\ \E l \in {"clear", "direntry"} : pc' = [pc EXCEPT ![t] = l]
      /\ vnode' = [vnode EXCEPT ![ni[t]] = "live"]
      /\ refs' = [refs EXCEPT ![ni[t]] = {t}]
      /\ linked' \in {linked, linked \cup {ni[t]}}
      /\ UNCHANGED <<hashLock, key, flags, hashed, tk, ni, nni, vid>>
  BY Zenon DEF AddVnode, At, Goto
<1>2. PICK l \in {"clear", "direntry"} : pc' = [pc EXCEPT ![t] = l]
  BY <1>1, Zenon
<1>3. l \in Held \ {"wake", "using"} /\ pc[t] \in Loading
  BY <1>1, Zenon DEF Held, Loading
<1> QED
  BY <1>1, <1>2, <1>3, LoadedStep, Zenon

\* ntfs_inode_unlock_alloc() takes NI_Alloc from an inode that only the thread
\* has, or that does not have it.
LEMMA ClearAllocStep ==
    ASSUME IInv, Types', NEW t \in Threads, ClearAlloc(t)
    PROVE  After(t)
<1>0. /\ pc[t] = "clear" /\ pc' = [pc EXCEPT ![t] = "wake"]
      /\ flags' = [flags EXCEPT ![ni[t]] = @ \ {"Alloc"}]
      /\ UNCHANGED <<hashLock, key, hashed, linked, vnode, refs, tk, ni, nni, vid>>
  BY Zenon DEF ClearAlloc, At, Goto, vnodeVars
<1>1. ThreadInv(t) /\ pc[t] \in Pinned /\ pc[t] \in Held
  BY <1>0, Places, Zenon DEF IInv, Held
<1>2. /\ tk[t] \in Keys /\ ni[t] \in Inodes /\ key[ni[t]] = tk[t]
      /\ hashLock # t /\ t \notin vid /\ nni[t] = NoInode
  BY <1>1, PinnedThread, Zenon
<1>3. Has(t) /\ Has(t)'
  BY <1>0, <1>1, Zenon DEF ThreadInv, Has
<1>4. pc'[t] = "wake" /\ flags'[ni[t]] = flags[ni[t]] \ {"Alloc"}
  BY <1>0, <1>2, Zenon DEF IInv, Types
<1>5. Only(t, {ni[t]})
  BY <1>0, <1>2, ZenonT(60) DEF IInv, Types, Only
<1>6. ThreadInv(t)' /\ NewInv(t, t)'
  BY <1>0, <1>2, <1>3, <1>4, HeldThread, Zenon DEF Held
<1>7. Alone(t, ni[t]) \/ Shares(t, ni[t])
  <2>1. CASE "Alloc" \in flags[ni[t]]
    BY <1>1, <2>1, SoleAlone, Zenon DEF Sole
  <2>2. CASE "Alloc" \notin flags[ni[t]]
    BY <1>0, <1>1, <1>4, <2>2, Zenon DEF Shares
  <2> QED
    BY <2>1, <2>2, Zenon
<1>8. ~Sole(t)'
  BY <1>0, <1>4, Zenon DEF Sole, Tearing, Loading
<1>9. \A v \in vid' : ni[v] = ni[t] => vnode[ni[t]] # "none"
  BY <1>0, NoId, Zenon
<1>10. Works(t)
  BY <1>0, <1>1, <1>4, <1>5, <1>7, <1>8, <1>9, PinnedWorks, Zenon
<1>11. InodeLocal(ni[t])'
  BY <1>0, <1>2, <1>3, <1>4, Zenon DEF IInv, InodeInv, InodeLocal, Has
<1>12. \A j \in Inodes : InodeInv(j)'
  BY <1>0, <1>1, <1>4, <1>5, <1>11, Places, InodesAfter DEF Held
<1>13. HashUnique'
  BY <1>0, <1>5, HashAfter, Zenon DEF Types
<1> QED
  BY <1>6, <1>10, <1>12, <1>13, Zenon DEF After

\* ntfs_vnop_inactive() takes a deleted inode out of the hash.  Others that have
\* a reference keep it.
LEMMA InactiveDeleteStep ==
    ASSUME IInv, Types', NEW t \in Threads, InactiveDelete(t)
    PROVE  After(t)
<1>0. /\ pc[t] = "inactive" /\ pc' = [pc EXCEPT ![t] = "inactwake"]
      /\ ni[t] \notin linked /\ hashLock = NoThread
      /\ flags' = [flags EXCEPT ![ni[t]] = @ \cup {"Deleted"}]
      /\ hashed' = hashed \ {ni[t]}
      /\ UNCHANGED <<hashLock, key, linked, vnode, refs, tk, ni, nni, vid>>
  BY Zenon DEF InactiveDelete, At, Goto, vnodeVars
<1>1. ThreadInv(t) /\ pc[t] \in Pinned /\ pc[t] \in Held
  BY <1>0, Places, Zenon DEF IInv, Held
<1>2. /\ tk[t] \in Keys /\ ni[t] \in Inodes /\ key[ni[t]] = tk[t]
      /\ hashLock # t /\ t \notin vid /\ nni[t] = NoInode
  BY <1>1, PinnedThread
<1>3. Has(t) /\ Has(t)'
  BY <1>0, <1>1, Zenon DEF ThreadInv, Has
<1>4. pc'[t] = "inactwake" /\ flags'[ni[t]] = flags[ni[t]] \cup {"Deleted"}
  BY <1>0, <1>2, Zenon DEF IInv, Types
<1>5. Only(t, {ni[t]})
  BY <1>0, <1>2, ZenonT(60) DEF IInv, Types, Only
<1>6. ThreadInv(t)' /\ NewInv(t, t)'
  BY <1>0, <1>2, <1>3, <1>4, HeldThread, Zenon DEF Held
<1>7. Shares(t, ni[t])
  BY <1>0, <1>1, <1>4, Zenon DEF Shares
<1>8. Sole(t)' => Alone(t, ni[t])
  BY <1>0, <1>1, <1>4, SoleAlone DEF Sole, Tearing, Loading
<1>9. \A v \in vid' : ni[v] = ni[t] =>
          vnode[ni[t]] # "none" /\ "Alloc" \notin flags[ni[t]]
  BY <1>0, NoId, Zenon
<1>10. Works(t)
  BY <1>0, <1>1, <1>4, <1>5, <1>7, <1>8, <1>9, PinnedWorks, Zenon
<1>11. InodeLocal(ni[t])'
  BY <1>0, <1>2, <1>3, <1>4 DEF IInv, InodeInv, InodeLocal, Has
<1>12. \A j \in Inodes : InodeInv(j)'
  BY <1>0, <1>1, <1>4, <1>5, <1>11, Places, InodesAfter DEF Held
<1>13. HashUnique'
  BY <1>0, <1>5, HashAfter, Zenon DEF Types
<1> QED
  BY <1>6, <1>10, <1>12, <1>13 DEF After

\* ntfs_inode_reclaim() takes an inode that only the thread has out of the hash.
LEMMA ReclaimStep ==
    ASSUME IInv, Types', NEW t \in Threads, Reclaim(t)
    PROVE  After(t)
<1>0. /\ pc[t] = "reclaim" /\ pc' = [pc EXCEPT ![t] = "recwake"]
      /\ hashLock = NoThread
      /\ flags' = [flags EXCEPT ![ni[t]] = (@ \ {"Alloc"}) \cup
                                               {"Reclaim", "Deleted"}]
      /\ hashed' = hashed \ {ni[t]}
      /\ UNCHANGED <<hashLock, key, linked, vnode, refs, tk, ni, nni, vid>>
  BY Zenon DEF Reclaim, At, Goto, vnodeVars
<1>1. ThreadInv(t) /\ pc[t] \in Pinned /\ pc[t] \in Tearing
  BY <1>0, Places, Zenon DEF IInv, Tearing
<1>2. /\ tk[t] \in Keys /\ ni[t] \in Inodes /\ key[ni[t]] = tk[t]
      /\ hashLock # t /\ t \notin vid /\ nni[t] = NoInode
  BY <1>1, PinnedThread
<1>3. vnode[ni[t]] # "live" /\ Alone(t, ni[t])
  BY <1>1, SoleAlone, Zenon DEF ThreadInv, Sole
<1>4. /\ pc'[t] = "recwake"
      /\ flags'[ni[t]] = (flags[ni[t]] \ {"Alloc"}) \cup {"Reclaim", "Deleted"}
  BY <1>0, <1>2, Zenon DEF IInv, Types
<1>5. Only(t, {ni[t]})
  BY <1>0, <1>2, ZenonT(60) DEF IInv, Types, Only
<1>6. ThreadInv(t)' /\ NewInv(t, t)'
  BY <1>0, <1>2, <1>3, <1>4, TearingThread, Zenon DEF Tearing
<1>7. \A v \in vid' : ni[v] = ni[t] => vnode[ni[t]] # "none"
  BY <1>0, NoId, Zenon
<1>8. Works(t)
  BY <1>0, <1>1, <1>3, <1>4, <1>5, <1>7, PinnedWorks, Zenon
<1>9. InodeLocal(ni[t])'
  BY <1>0, <1>2, <1>3, <1>4, Zenon DEF IInv, InodeInv, InodeLocal
<1>10. \A j \in Inodes : InodeInv(j)'
  BY <1>0, <1>1, <1>4, <1>5, <1>9, Places, InodesAfter DEF Tearing
<1>11. HashUnique'
  BY <1>0, <1>5, HashAfter, Zenon DEF Types
<1> QED
  BY <1>6, <1>8, <1>10, <1>11 DEF After

\* ntfs_inode_free(): the inode only the thread has becomes free memory, and
\* the ids of its vnode that others have read are void.
LEMMA DestroyStep ==
    ASSUME IInv, Types', NEW t \in Threads, Destroy(t)
    PROVE  After(t)
<1>0. /\ pc[t] = "destroy"
      /\ \E l \in {"undo", "idle"} : pc' = [pc EXCEPT ![t] = l]
      /\ key' = [key EXCEPT ![ni[t]] = NoKey]
      /\ flags' = [flags EXCEPT ![ni[t]] = {}]
      /\ vnode' = [vnode EXCEPT ![ni[t]] = "none"]
      /\ refs' = [refs EXCEPT ![ni[t]] = {}]
      /\ linked' = linked \ {ni[t]}
      /\ vid' = {u \in vid : ni[u] # ni[t]}
      /\ UNCHANGED <<hashLock, hashed, tk, ni, nni>>
  BY Zenon DEF Destroy, Release, AfterInode, At, Goto
<1>1. ThreadInv(t) /\ pc[t] \in Pinned /\ pc[t] \in Tearing
  BY <1>0, Places, Zenon DEF IInv, Tearing
<1>2. /\ tk[t] \in Keys /\ ni[t] \in Inodes /\ key[ni[t]] = tk[t]
      /\ hashLock # t /\ t \notin vid /\ nni[t] = NoInode
  BY <1>1, PinnedThread
<1>3. Alone(t, ni[t]) /\ ni[t] \notin hashed
  BY <1>0, <1>1, SoleAlone, Zenon DEF ThreadInv, Sole
<1>4. /\ pc'[t] \in {"undo", "idle"}
      /\ key'[ni[t]] = NoKey /\ flags'[ni[t]] = {}
      /\ vnode'[ni[t]] = "none" /\ refs'[ni[t]] = {}
  BY <1>0, <1>2, SMTT(60) DEF IInv, Types
<1>5. Only(t, {ni[t]})
  BY <1>0, <1>2 DEF IInv, Types, Only
<1>6. ThreadInv(t)' /\ NewInv(t, t)'
  BY <1>0, <1>2, <1>4, OutsideThread, Zenon DEF Outside
<1>7. Works(t)
  <2>1. \A v \in vid' : v \in vid /\ ni[v] # ni[t]
    BY <1>0, Zenon
  <2>2. ni'[t] = ni[t] /\ nni'[t] = nni[t] /\ hashLock' = hashLock /\ hashed' = hashed
    BY <1>0, Zenon
  <2> QED
    BY <1>1, <1>3, <1>5, <2>1, <2>2, PinnedWorks, Zenon
<1>8. InodeLocal(ni[t])'
  BY <1>0, <1>3, <1>4, Zenon DEF InodeLocal
<1>9. \A j \in Inodes : InodeInv(j)'
  BY <1>0, <1>1, <1>4, <1>5, <1>8, InodesAfter
<1>10. HashUnique'
  BY <1>0, <1>3, <1>5, HashAfter DEF Types
<1> QED
  BY <1>6, <1>7, <1>9, <1>10 DEF After

\* vnode_put(): the last reference keeps everybody else away, another one is
\* given up and no longer needed.
LEMMA PutStep ==
    ASSUME IInv, Types', NEW t \in Threads, Put(t)
    PROVE  After(t)
<1>0. /\ pc[t] = "put"
      /\ UNCHANGED <<hashLock, key, flags, hashed, linked, tk, ni, nni, vid>>
      /\ \/ pc' = [pc EXCEPT ![t] = "inactive"] /\ UNCHANGED <<vnode, refs>>
         \/ /\ refs[ni[t]] = {t} /\ pc' = [pc EXCEPT ![t] = "reclaim"]
            /\ vnode' = [vnode EXCEPT ![ni[t]] = "term"] /\ UNCHANGED refs
         \/ /\ \E l \in {"undo", "idle"} : pc' = [pc EXCEPT ![t] = l]
            /\ refs' = [refs EXCEPT ![ni[t]] = @ \ {t}] /\ UNCHANGED vnode
  BY Zenon DEF Put, AfterInode, At, Goto, hashVars
<1>1. ThreadInv(t) /\ pc[t] \in Pinned /\ pc[t] \in Held
  BY <1>0, Places, Zenon DEF IInv, Held
<1>2. /\ tk[t] \in Keys /\ ni[t] \in Inodes /\ key[ni[t]] = tk[t]
      /\ hashLock # t /\ t \notin vid /\ nni[t] = NoInode
  BY <1>1, PinnedThread
<1>3. Has(t) /\ InodeLocal(ni[t])
  BY <1>1, <1>2, Zenon DEF ThreadInv, IInv, InodeInv
<1>4. Only(t, {ni[t]})
  BY <1>0, <1>2 DEF IInv, Types, Only
<1>5. HashUnique'
  BY <1>0, <1>4, HashAfter, Zenon DEF Types
<1>6. CASE pc' = [pc EXCEPT ![t] = "inactive"] /\ UNCHANGED <<vnode, refs>>
  <2>1. pc'[t] = "inactive" /\ Has(t)'
    BY <1>0, <1>3, <1>6, ZenonT(60) DEF IInv, Types, Has
  <2>2. ThreadInv(t)' /\ NewInv(t, t)'
    BY <1>0, <1>2, <2>1, HeldThread, Zenon DEF Held
  <2>3. Sole(t)' => Alone(t, ni[t])
    BY <1>0, <1>1, <2>1, SoleAlone, Zenon DEF Sole, Tearing, Loading
  <2>4. Shares(t, ni[t])
    BY <1>0, <1>6, Zenon DEF Shares
  <2>5. \A v \in vid' : vnode'[ni[v]] # "none" /\ "Alloc" \notin flags'[ni[v]]
    BY <1>0, <1>6, NoId, Zenon
  <2>6. Works(t)
    BY <1>0, <1>1, <1>4, <2>3, <2>4, <2>5, PinnedWorks, ZenonT(60)
  <2>7. InodeLocal(ni[t])'
    BY <1>0, <1>3, <1>6, Zenon DEF InodeLocal
  <2>8. \A j \in Inodes : InodeInv(j)'
    BY <1>0, <1>1, <1>4, <1>6, <2>1, <2>7, Places, InodesAfter DEF Held
  <2> QED
    BY <1>5, <2>2, <2>6, <2>8, Zenon DEF After
<1>7. CASE /\ refs[ni[t]] = {t} /\ pc' = [pc EXCEPT ![t] = "reclaim"]
           /\ vnode' = [vnode EXCEPT ![ni[t]] = "term"] /\ UNCHANGED refs
  <2>1. pc'[t] = "reclaim" /\ vnode'[ni[t]] = "term"
    BY <1>2, <1>7, Zenon DEF IInv, Types
  <2>2. ThreadInv(t)' /\ NewInv(t, t)'
    BY <1>0, <1>2, <2>1, TearingThread, Zenon DEF Tearing
  <2>3. Alone(t, ni[t])
    BY <1>2, <1>3, <1>7, LastAlone, Zenon DEF Has
  <2>4. \A v \in vid' : "Alloc" \notin flags'[ni[v]]
    BY <1>0, NoId, Zenon
  <2>5. Works(t)
    BY <1>0, <1>1, <1>4, <2>1, <2>3, <2>4, PinnedWorks, Zenon
  <2>6. InodeLocal(ni[t])'
    BY <1>0, <1>3, <1>7, <2>1, Zenon DEF InodeLocal, Has
  <2>7. \A j \in Inodes : InodeInv(j)'
    BY <1>0, <1>1, <1>4, <1>7, <2>1, <2>6, Places, InodesAfter, SMTT(60) DEF
       Tearing
  <2> QED
    BY <1>5, <2>2, <2>5, <2>7 DEF After
<1>8. CASE /\ \E l \in {"undo", "idle"} : pc' = [pc EXCEPT ![t] = l]
           /\ refs' = [refs EXCEPT ![ni[t]] = @ \ {t}] /\ UNCHANGED vnode
  <2>1. pc'[t] \in {"undo", "idle"} /\ refs'[ni[t]] = refs[ni[t]] \ {t}
    BY <1>2, <1>8 DEF IInv, Types
  <2>2. ThreadInv(t)' /\ NewInv(t, t)'
    BY <1>0, <1>2, <2>1, OutsideThread, Zenon DEF Outside
  <2>3. Shares(t, ni[t])
    BY <1>0, <1>8, <2>1, Zenon DEF Shares
  <2>4. \A v \in vid' : vnode'[ni[v]] # "none" /\ "Alloc" \notin flags'[ni[v]]
    BY <1>0, <1>8, NoId, Zenon
  <2>5. ~Sole(t)'
    BY <2>1, Places, Zenon DEF Sole, Outside
  <2>6. Works(t)
    BY <1>0, <1>1, <1>4, <2>3, <2>4, <2>5, PinnedWorks, Zenon
  <2>7. InodeLocal(ni[t])'
    BY <1>0, <1>3, <1>8, <2>1, Zenon DEF InodeLocal, Has
  <2>8. \A j \in Inodes : InodeInv(j)'
    BY <1>0, <1>1, <1>4, <2>1, <2>7, InodesAfter
  <2> QED
    BY <1>5, <2>2, <2>6, <2>8 DEF After
<1> QED
  BY <1>0, <1>6, <1>7, <1>8, Zenon

\* The vnode layer terminates a vnode nobody has a reference on.
LEMMA StartReaperStep ==
    ASSUME IInv, Types', NEW t \in Threads, NEW i \in Inodes, StartReaper(t, i)
    PROVE  After(t)
<1>0. /\ pc[t] = "idle" /\ pc' = [pc EXCEPT ![t] = "reclaim"]
      /\ vnode[i] = "live" /\ refs[i] = {}
      /\ vnode' = [vnode EXCEPT ![i] = "term"]
      /\ tk' = [tk EXCEPT ![t] = key[i]]
      /\ ni' = [ni EXCEPT ![t] = i]
      /\ UNCHANGED <<hashLock, key, flags, hashed, linked, refs, nni, vid>>
  BY Zenon DEF StartReaper, At, Goto, hashVars
<1>1. ThreadInv(t) /\ pc[t] \notin Pinned /\ InodeLocal(i)
  BY <1>0, Places, Zenon DEF IInv, Outside, InodeInv
<1>2. hashLock # t /\ t \notin vid /\ nni[t] = NoInode
  BY <1>0, <1>1, Zenon DEF ThreadInv
<1>3. Alone(t, i)
  BY <1>0, LastAlone, Zenon
<1>4. pc'[t] = "reclaim" /\ vnode'[i] = "term" /\ tk'[t] = key[i] /\ ni'[t] = i
  BY <1>0, ZenonT(60) DEF IInv, Types
<1>5. Only(t, {i})
  BY <1>0, ZenonT(60) DEF IInv, Types, Only
<1>6. key[i] \in Keys
  BY <1>0, <1>1, Zenon DEF IInv, Types, InodeLocal
<1>7. ThreadInv(t)' /\ NewInv(t, t)'
  BY <1>0, <1>2, <1>4, <1>6, TearingThread, Zenon DEF Tearing
<1>8. \A v \in vid' : vnode'[i] # "none" /\ "Alloc" \notin flags'[ni[v]]
  BY <1>0, <1>4, NoId, Zenon
<1>9. Works(t)
  <2>1. \A v \in Threads \ {t} : /\ Sole(v) => ni[v] # ni'[t]
                                 /\ nni[v] # ni'[t]
                                 /\ pc[v] \in Pinned => ni[v] # ni'[t]
    BY <1>3, <1>4, SolePinned, Zenon DEF Alone
  <2> QED
    BY <1>0, <1>2, <1>3, <1>4, <1>5, <1>8, <2>1, WorksAfter
<1>10. InodeLocal(i)'
  BY <1>0, <1>1, <1>4, ZenonT(60) DEF InodeLocal
<1>11. \A j \in Inodes : InodeInv(j)'
  BY <1>0, <1>1, <1>5, <1>10, InodesAfter
<1>12. HashUnique'
  BY <1>0, <1>5, HashAfter, Zenon DEF Types
<1> QED
  BY <1>7, <1>9, <1>11, <1>12, Zenon DEF After

\* A step that touches no inode, by a thread that works on none.
LEMMA LookStep ==
    ASSUME IInv, Types', NEW t \in Threads, pc[t] \notin Pinned,
           NEW l, l \notin Pinned, pc' = [pc EXCEPT ![t] = l],
           NEW i, ni' = [ni EXCEPT ![t] = i],
           hashLock \in {t, NoThread}, hashLock' \in {t, NoThread},
           vid' \subseteq vid \cup {t},
           UNCHANGED <<key, flags, hashed, linked, vnode, refs, tk, nni>>,
           ThreadInv(t)'
    PROVE  After(t)
<1>1. pc'[t] = l
  BY Zenon DEF IInv, Types
<1>2. Only(t, {})
  BY Zenon DEF IInv, Types, Only
<1>3. NewInv(t, t)'
  BY <1>1, Zenon DEF NewInv
<1>4. ~Sole(t)'
  BY <1>1, Places, Zenon DEF Sole
<1>5. nni[t] # NoInode => Alone(t, nni[t])
  BY NewAlone, Zenon
<1>6. Works(t)
  BY <1>1, <1>2, <1>4, <1>5, WorksAfter
<1>7. \A j \in Inodes : InodeInv(j)'
  BY <1>2, InodesAfter
<1>8. HashUnique'
  BY <1>2, HashAfter, Zenon DEF Types
<1> QED
  BY <1>3, <1>6, <1>7, <1>8, Zenon DEF After

\* The search meets an inode that is being loaded or reclaimed, and keeps the
\* hash lock until it sleeps.
LEMMA FindBusyStep ==
    ASSUME IInv, Types', NEW t \in Threads, FindBusy(t)
    PROVE  After(t)
<1>1. PICK i \in Match(tk[t]) : ni' = [ni EXCEPT ![t] = i]
  BY Zenon DEF FindBusy
<1>2. /\ pc[t] = "find" /\ pc' = [pc EXCEPT ![t] = "sleep"]
      /\ hashLock = NoThread /\ hashLock' = t
      /\ UNCHANGED <<key, flags, hashed, linked, vnode, refs, tk, nni, vid>>
  BY Zenon DEF FindBusy, At, Goto, vnodeVars
<1>3. pc[t] \notin Pinned /\ "sleep" \notin Pinned
  BY <1>2, Places, Zenon DEF Outside
<1>4. pc'[t] = "sleep" /\ ni'[t] = i /\ i \in hashed
  BY <1>1, <1>2, Zenon DEF IInv, Types, Match
<1>5. ThreadInv(t)'
  <2>1. tk[t] \in Keys /\ t \notin vid
    BY <1>2, Zenon DEF IInv, ThreadInv
  <2>2. nni[t] # NoInode => New(nni[t]) /\ key[nni[t]] = tk[t]
    BY Zenon DEF IInv, ThreadInv
  <2>3. pc'[t] \notin Held /\ pc'[t] \notin Loading /\ pc'[t] \notin Tearing
    BY <1>3, <1>4, Places, Zenon
  <2> QED
    BY <1>2, <1>3, <1>4, <2>1, <2>2, <2>3, Zenon DEF ThreadInv, New
<1> QED
  BY <1>1, <1>2, <1>3, <1>5, LookStep, Zenon

\* The thread gives up the hash lock when it is asleep.
LEMMA SleepStep ==
    ASSUME IInv, Types', NEW t \in Threads, Sleep(t)
    PROVE  After(t)
<1>1. /\ pc[t] = "sleep" /\ pc' = [pc EXCEPT ![t] = "asleep"]
      /\ hashLock' = NoThread
      /\ UNCHANGED <<key, flags, hashed, linked, vnode, refs, tk, ni, nni, vid>>
  BY Zenon DEF Sleep, At, Goto, vnodeVars
<1>2. pc[t] \notin Pinned /\ "asleep" \notin Pinned
  BY <1>1, Places, Zenon DEF Outside
<1>3. /\ hashLock = t /\ tk[t] \in Keys /\ t \notin vid
      /\ nni[t] # NoInode => New(nni[t]) /\ key[nni[t]] = tk[t]
  BY <1>1, Zenon DEF IInv, ThreadInv
<1>4. pc'[t] = "asleep" /\ ni = [ni EXCEPT ![t] = ni[t]]
  BY <1>1, Zenon DEF IInv, Types
<1>5. ThreadInv(t)'
  <2>1. nni'[t] # NoInode => New(nni[t])' /\ key'[nni'[t]] = tk'[t]
    BY <1>1, <1>3, Zenon DEF New
  <2> QED
    BY <1>1, <1>3, <1>4, <2>1, OutsideThread, InodeCacheAssumption, Zenon
<1> QED
  BY <1>1, <1>2, <1>3, <1>4, <1>5, LookStep, Zenon

\* The search finds an inode with a vnode, and reads the id of the vnode: the
\* branch without a vnode is never taken.
LEMMA FindHitStep ==
    ASSUME IInv, Types', NEW t \in Threads, FindHit(t)
    PROVE  After(t)
<1>1. PICK i \in Match(tk[t]) :
          /\ ~Busy(i)
          /\ ni' = [ni EXCEPT ![t] = i]
          /\ vnode[i] # "none" => /\ vid' = vid \cup {t}
                                  /\ pc' = [pc EXCEPT ![t] = "getref"]
                                  /\ UNCHANGED <<key, flags, nni>>
  BY Zenon DEF FindHit, Goto
<1>2. i \in hashed /\ i \in Inodes /\ key[i] = tk[t] /\ "Alloc" \notin flags[i]
  BY <1>1, Zenon DEF Match, Busy, IInv, Types
<1>3. vnode[i] # "none"
  BY <1>2, Zenon DEF IInv, InodeInv, InodeLocal
<1>4. /\ pc[t] = "find" /\ pc' = [pc EXCEPT ![t] = "getref"]
      /\ hashLock = NoThread /\ vid' = vid \cup {t}
      /\ UNCHANGED <<hashLock, key, flags, hashed, linked, vnode, refs, tk, nni>>
  BY <1>1, <1>3, Zenon DEF FindHit, At, vnodeVars
<1>5. pc[t] \notin Pinned /\ "getref" \notin Pinned
  BY <1>4, Places, Zenon DEF Outside
<1>6. pc'[t] = "getref" /\ ni'[t] = i
  BY <1>1, <1>4, Zenon DEF IInv, Types
<1>7. ThreadInv(t)'
  <2>1. tk[t] \in Keys
    BY <1>4, Zenon DEF IInv, ThreadInv
  <2>2. nni[t] # NoInode => New(nni[t]) /\ key[nni[t]] = tk[t]
    BY DEF IInv, ThreadInv
  <2>3. pc'[t] \notin Held /\ pc'[t] \notin Loading /\ pc'[t] \notin Tearing
    BY <1>5, <1>6, Places, Zenon
  <2>4. hashLock' # t
    BY <1>4, InodeCacheAssumption, Zenon
  <2> QED
    BY <1>2, <1>3, <1>4, <1>5, <1>6, <2>1, <2>2, <2>3, <2>4, Zenon
    DEF ThreadInv, New
<1> QED
  BY <1>1, <1>4, <1>5, <1>7, LookStep, Zenon

\* vnode_getwithvid() takes a reference on a live vnode whose id is still the
\* one read under the hash lock, and the thread frees the inode it allocated.
LEMMA GetRefStep ==
    ASSUME IInv, Types', NEW t \in Threads, GetRef(t)
    PROVE  After(t)
<1> DEFINE X == {ni[t]} \cup ({nni[t]} \ {NoInode})
<1>0. /\ pc[t] = "getref" /\ t \in vid /\ pc' = [pc EXCEPT ![t] = "check"]
      /\ vnode[ni[t]] = "live"
      /\ refs' = [refs EXCEPT ![ni[t]] = @ \cup {t}]
      /\ nni' = [nni EXCEPT ![t] = NoInode]
      /\ IF nni[t] = NoInode
         THEN UNCHANGED <<key, flags>>
         ELSE /\ key' = [key EXCEPT ![nni[t]] = NoKey]
              /\ flags' = [flags EXCEPT ![nni[t]] = {}]
      /\ vid' = vid \ {t}
      /\ UNCHANGED <<hashLock, hashed, linked, vnode, tk, ni>>
  BY Zenon DEF GetRef, DropNew, Release, At, Goto
<1>1. /\ ThreadInv(t) /\ ni[t] \in Inodes /\ tk[t] \in Keys
      /\ key[ni[t]] = tk[t] /\ "Alloc" \notin flags[ni[t]] /\ hashLock # t
      /\ nni[t] \in Inodes \cup {NoInode}
      /\ nni[t] # NoInode => New(nni[t])
  BY <1>0, Zenon DEF IInv, Types, ThreadInv
<1>2. /\ nni[t] # ni[t]
      /\ nni[t] # NoInode => nni[t] \in Inodes
  BY <1>0, <1>1, InodeCacheAssumption, Zenon DEF New
<1>3. /\ pc'[t] = "check" /\ nni'[t] = NoInode
      /\ refs'[ni[t]] = refs[ni[t]] \cup {t}
      /\ key'[ni[t]] = key[ni[t]] /\ flags'[ni[t]] = flags[ni[t]]
  <2>1. /\ pc \in [Threads -> Labels] /\ refs \in [Inodes -> SUBSET Threads]
        /\ key \in [Inodes -> Keys \cup {NoKey}]
        /\ flags \in [Inodes -> SUBSET Flags]
        /\ nni \in [Threads -> Inodes \cup {NoInode}]
    BY Zenon DEF IInv, Types
  <2>2. pc'[t] = "check" /\ nni'[t] = NoInode
    BY <1>0, <2>1, Zenon
  <2>3. refs'[ni[t]] = refs[ni[t]] \cup {t}
    BY <1>0, <1>1, <2>1, Zenon
  <2>4. key'[ni[t]] = key[ni[t]] /\ flags'[ni[t]] = flags[ni[t]]
    BY <1>0, <1>1, <1>2, <2>1, Zenon
  <2> QED
    BY <2>2, <2>3, <2>4, Zenon
<1>4. nni[t] # NoInode => /\ key'[nni[t]] = NoKey /\ flags'[nni[t]] = {}
                          /\ vnode'[nni[t]] = "none" /\ refs'[nni[t]] = {}
                          /\ nni[t] \notin hashed
  <2>1. nni[t] # NoInode => InodeInv(nni[t])
    BY <1>2, Zenon DEF IInv
  <2>2. /\ key \in [Inodes -> Keys \cup {NoKey}]
        /\ flags \in [Inodes -> SUBSET Flags]
        /\ refs \in [Inodes -> SUBSET Threads]
    BY Zenon DEF IInv, Types
  <2>3. nni[t] # NoInode => key'[nni[t]] = NoKey /\ flags'[nni[t]] = {}
    BY <1>0, <1>2, <2>2, Zenon
  <2>4. nni[t] # NoInode => vnode[nni[t]] = "none" /\ nni[t] \notin hashed
    BY <1>1, Zenon DEF New
  <2>5. nni[t] # NoInode => refs[nni[t]] = {}
    BY <2>1, <2>4, Zenon DEF InodeInv, InodeLocal
  <2>6. nni[t] # NoInode => refs'[nni[t]] = refs[nni[t]]
    BY <1>0, <1>2, <2>2, ZenonT(60)
  <2> QED
    BY <1>0, <2>3, <2>4, <2>5, <2>6, Zenon
<1>5. Only(t, X)
  BY <1>0, <1>1 DEF IInv, Types, Only
<1>6. ThreadInv(t)' /\ NewInv(t, t)'
  <2>1. pc'[t] \notin Held /\ pc'[t] \notin Loading /\ pc'[t] \notin Tearing
    BY <1>3, Places, Zenon
  <2> QED
    BY <1>0, <1>1, <1>3, <2>1, Zenon DEF ThreadInv, NewInv, Has, Tearing
<1>7. Shares(t, ni[t])
  BY <1>0, <1>1, <1>3, Zenon DEF Shares
<1>8. \A j \in X : Alone(t, j) \/ Shares(t, j)
  BY <1>7, NewAlone, Zenon
<1>9. ASSUME NEW v \in Threads, v # t
      PROVE  (Sole(v) => ni[v] # ni[t]) /\ nni[v] # ni[t]
  <2>1. ThreadInv(v)
    BY Zenon DEF IInv
  <2>2. nni[v] # ni[t]
    BY <1>0, <1>1, <2>1, InodeCacheAssumption, Zenon DEF ThreadInv, New
  <2>3. ASSUME Sole(v), ni[v] = ni[t] PROVE FALSE
    <3>1. pc[v] \in Tearing \cup Loading
      BY <1>1, <2>3, Zenon DEF Sole
    <3> QED
      BY <1>0, <2>1, <2>3, <3>1, Zenon DEF ThreadInv, Unloaded
  <2> QED
    BY <2>2, <2>3, Zenon
<1>10. ~Sole(t)'
  BY <1>0, <1>1, <1>3, Places, Zenon DEF Sole
<1>11. \A v \in vid' : v # t /\ ni[v] \in X =>
           /\ key'[ni[v]] = key[ni[v]] /\ vnode'[ni[v]] # "none"
           /\ "Alloc" \notin flags'[ni[v]]
  BY <1>0, <1>1, <1>3, NoId, Zenon DEF New
<1>12. Works(t)
  <2>1. \A v \in Threads \ {t} : (Sole(v) => ni[v] # ni'[t]) /\ nni[v] # ni'[t]
    BY <1>0, <1>9, ZenonT(60)
  <2> HIDE DEF X
  <2> QED
    BY <1>0, <1>3, <1>5, <1>8, <1>10, <1>11, <2>1, WorksAfter, Zenon
<1>13. \A j \in X : /\ InodeLocal(j)'
                    /\ refs'[j] \subseteq refs[j] \cup {t}
                    /\ t \in refs'[j] => pc'[t] \in Pinned /\ ni'[t] = j
  <2>1. InodeLocal(ni[t])
    BY <1>1, Zenon DEF IInv, InodeInv
  <2>2. InodeLocal(ni[t])'
    BY <1>0, <1>3, <2>1, Zenon DEF InodeLocal
  <2>3. nni[t] # NoInode => \A j \in {nni[t]} : InodeLocal(j)'
    BY <1>0, <1>4, Zenon DEF InodeLocal
  <2> QED
    BY <1>0, <1>3, <1>4, <2>2, <2>3, Places
<1>14. \A j \in Inodes : InodeInv(j)'
  <2>1. pc[t] \notin Pinned
    BY <1>0, Places, Zenon DEF Outside
  <2> QED
    BY <1>5, <1>13, <2>1, InodesAfter, Zenon
<1>15. HashUnique'
  BY <1>0, <1>3, <1>4, <1>5, HashAfter DEF Types
<1> QED
  BY <1>6, <1>12, <1>14, <1>15 DEF After

\* ntfs_inode_hash_get() allocates an inode from free memory.
LEMMA MallocStep ==
    ASSUME IInv, Types', NEW t \in Threads, Malloc(t)
    PROVE  After(t)
<1>0. PICK i \in Inodes : /\ key[i] = NoKey
                          /\ key' = [key EXCEPT ![i] = tk[t]]
                          /\ flags' = [flags EXCEPT ![i] = {"Alloc"}]
                          /\ nni' = [nni EXCEPT ![t] = i]
  BY Zenon DEF Malloc
<1>1. /\ pc[t] = "malloc" /\ pc' = [pc EXCEPT ![t] = "find"]
      /\ UNCHANGED <<hashLock, hashed, linked, vnode, refs, tk, ni, vid>>
  BY Zenon DEF Malloc, At, Goto, vnodeVars
<1>2. /\ pc[t] \notin Pinned /\ "find" \notin Pinned
      /\ tk[t] \in Keys /\ hashLock # t /\ t \notin vid
  BY <1>1, Places, ZenonT(60) DEF IInv, ThreadInv, Outside
<1>3. i \notin hashed /\ vnode[i] = "none" /\ refs[i] = {}
  BY <1>0, Zenon DEF IInv, InodeInv, InodeLocal
<1>4. pc'[t] = "find" /\ key'[i] = tk[t] /\ flags'[i] = {"Alloc"} /\ nni'[t] = i
  BY <1>0, <1>1, ZenonT(60) DEF IInv, Types
<1>5. Only(t, {i})
  BY <1>0, <1>1, ZenonT(60) DEF IInv, Types, Only
<1>6. New(nni[t])'
  BY <1>1, <1>3, <1>4, Zenon DEF New
<1>7. ThreadInv(t)' /\ NewInv(t, t)'
  BY <1>1, <1>2, <1>4, <1>6, OutsideThread, Zenon DEF Outside
<1>8. Alone(t, i)
  BY <1>0, FreeAlone, Zenon
<1>9. \A v \in vid' : ni[v] # i
  BY <1>1, <1>3, NoId, Zenon
<1>10. ~Sole(t)'
  BY <1>2, <1>4, Places, Zenon DEF Sole
<1>11. Works(t)
  BY <1>1, <1>2, <1>4, <1>5, <1>8, <1>9, <1>10, WorksAfter
<1>12. InodeLocal(i)'
  BY <1>1, <1>3, <1>4, Zenon DEF InodeLocal
<1>13. \A j \in Inodes : InodeInv(j)'
  BY <1>1, <1>2, <1>3, <1>5, <1>12, InodesAfter, Zenon
<1>14. HashUnique'
  BY <1>1, <1>3, <1>5, HashAfter DEF Types
<1> QED
  BY <1>7, <1>11, <1>13, <1>14, Zenon DEF After

\* The second search finds nothing, and the new inode enters the hash: no other
\* inode of its record is there.
LEMMA InsertStep ==
    ASSUME IInv, Types', NEW t \in Threads, Insert(t)
    PROVE  After(t)
<1>0. /\ pc[t] = "find" /\ nni[t] # NoInode /\ hashLock = NoThread
      /\ pc' = [pc EXCEPT ![t] = "check"] /\ Match(tk[t]) = {}
      /\ hashed' = hashed \cup {nni[t]}
      /\ ni' = [ni EXCEPT ![t] = nni[t]] /\ nni' = [nni EXCEPT ![t] = NoInode]
      /\ UNCHANGED <<hashLock, key, flags, linked, vnode, refs, tk, vid>>
  BY Zenon DEF Insert, At, Goto, vnodeVars
<1>1. PICK i \in Inodes : i = nni[t]
  BY <1>0, Zenon DEF IInv, Types
<1>2. /\ pc[t] \notin Pinned /\ "check" \in Pinned
      /\ tk[t] \in Keys /\ hashLock # t /\ t \notin vid
      /\ New(i) /\ key[i] = tk[t]
  BY <1>0, <1>1, Places, InodeCacheAssumption, Zenon DEF IInv, ThreadInv,
     Outside
<1>3. pc'[t] = "check" /\ ni'[t] = i /\ nni'[t] = NoInode
  BY <1>0, <1>1, Zenon DEF IInv, Types
<1>4. Only(t, {i})
  BY <1>0, <1>1, Zenon DEF IInv, Types, Only
<1>5. ThreadInv(t)' /\ NewInv(t, t)'
  <2>1. Unloaded(ni[t])'
    BY <1>0, <1>2, <1>3, Zenon DEF New, Unloaded
  <2> QED
    BY <1>0, <1>2, <1>3, <2>1, LoadingThread, Zenon
<1>6. Alone(t, i)
  BY <1>0, <1>1, NewAlone, Zenon
<1>7. \A v \in vid' : v \in vid /\ ni[v] # i
  BY <1>0, <1>2, NoId, ZenonT(60) DEF New
<1>8. Works(t)
  <2>1. \A v \in Threads \ {t} : /\ Sole(v) => ni[v] # ni'[t]
                                 /\ nni[v] # ni'[t]
                                 /\ pc[v] \in Pinned => ni[v] # ni'[t]
    BY <1>3, <1>6, SolePinned, Zenon DEF Alone
  <2>2. hashLock # NoThread => hashed \subseteq hashed'
    BY <1>0, Zenon
  <2> QED
    BY <1>0, <1>3, <1>4, <1>6, <1>7, <2>1, <2>2, WorksAfter
<1>9. InodeLocal(i) /\ refs[i] = {}
  BY <1>2, Zenon DEF IInv, InodeInv, InodeLocal, New
<1>10. InodeLocal(i)'
  BY <1>0, <1>2, <1>9, InodeCacheAssumption, ZenonT(60) DEF InodeLocal, New
<1>11. \A j \in Inodes : InodeInv(j)'
  BY <1>0, <1>2, <1>4, <1>9, <1>10, InodesAfter
<1>12. HashUnique'
  <2>1. \A j \in hashed : key[j] # key[i]
    BY <1>0, <1>2, Zenon DEF Match
  <2>2. HashUnique
    BY Zenon DEF IInv
  <2> QED
    BY <1>0, <1>1, <2>1, <2>2, Zenon DEF HashUnique
<1> QED
  BY <1>5, <1>8, <1>11, <1>12 DEF After

-----------------------------------------------------------------------------
(* The steps that change no inode.                                         *)

\* A quiet step takes a thread to a place at which it may rely on the same.
LEMMA QuietThread ==
    ASSUME IInv, NEW t \in Threads, Quiet(t)
    PROVE  ThreadInv(t)' /\ NewInv(t, t)'
<1>1. ThreadInv(t)
  BY Zenon DEF IInv
<1>2. /\ UNCHANGED <<hashLock, key, flags, hashed, vnode, refs, ni, nni, vid>>
      /\ pc[t] # "idle" => tk'[t] = tk[t]
      /\ tk'[t] \in Keys
  BY Zenon DEF Quiet
<1>3. /\ pc[t] \in Pinned => pc[t] # "idle"
      /\ pc[t] \in Outside => pc[t] # "sleep"
  BY Places, Zenon DEF Outside
<1>4. pc[t] \in Pinned => /\ ni'[t] \in Inodes /\ key'[ni'[t]] = tk'[t]
                          /\ hashLock' # t /\ t \notin vid' /\ nni'[t] = NoInode
  BY <1>1, <1>2, <1>3, PinnedThread, Zenon
<1>5. CASE /\ pc[t] \in Outside /\ pc'[t] \in Outside \ {"getref"}
           /\ t \notin vid /\ (nni[t] # NoInode => pc'[t] = "find")
  <2>1. hashLock # t
    BY <1>1, <1>3, <1>5, Zenon DEF ThreadInv
  <2>2. nni[t] # NoInode => pc[t] # "idle" /\ New(nni[t]) /\ key[nni[t]] = tk[t]
    BY <1>1, Zenon DEF ThreadInv
  <2>3. nni'[t] # NoInode => New(nni[t])' /\ key'[nni'[t]] = tk'[t]
    BY <1>2, <2>2, Zenon DEF New
  <2> QED
    BY <1>2, <1>5, <2>1, <2>3, OutsideThread, Zenon
<1>6. CASE pc[t] = "check" /\ "Alloc" \in flags[ni[t]] /\ pc'[t] \in Loading
  <2>1. pc[t] \in Pinned /\ Unloaded(ni[t])'
    BY <1>1, <1>2, <1>6, Places, Zenon DEF ThreadInv, Unloaded
  <2> QED
    BY <1>2, <1>4, <1>6, <2>1, LoadingThread, Zenon
<1>7. CASE pc[t] \in Loading /\ pc'[t] = "reclaim"
  <2>1. pc[t] \in Pinned /\ vnode'[ni'[t]] # "live" /\ pc'[t] \in Tearing
    BY <1>1, <1>2, <1>7, Places, Zenon DEF ThreadInv, Unloaded, Tearing
  <2> QED
    BY <1>2, <1>4, <1>7, <2>1, TearingThread, Zenon
<1>8. CASE pc[t] = "recwake" /\ pc'[t] = "destroy"
  <2>1. pc[t] \in Tearing /\ pc'[t] \in Tearing
    BY <1>8, Zenon DEF Tearing
  <2>2. pc[t] \in Pinned /\ vnode'[ni'[t]] # "live" /\ ni'[t] \notin hashed'
    BY <1>1, <1>2, <1>8, <2>1, Places, Zenon DEF ThreadInv
  <2> QED
    BY <1>2, <1>4, <2>1, <2>2, TearingThread, Zenon
<1>9. CASE /\ pc[t] \in Held \/ (pc[t] = "check" /\ "Alloc" \notin flags[ni[t]])
           /\ pc'[t] \in Held \ {"wake"}
           /\ pc'[t] = "using" => "Alloc" \notin flags[ni[t]]
  <2>1. pc[t] \in Pinned /\ Has(t)
    BY <1>1, <1>9, Places, Zenon DEF ThreadInv
  <2>2. Has(t)'
    BY <1>2, <2>1, Zenon DEF Has
  <2> QED
    BY <1>2, <1>4, <1>9, <2>1, <2>2, HeldThread, Zenon
<1> QED
  BY <1>5, <1>6, <1>7, <1>8, <1>9, Zenon DEF Quiet, Moves

\* A thread that works on an inode after a quiet step did so before, and one
\* that owns it then owned it.
LEMMA QuietRights ==
    ASSUME IInv, NEW t \in Threads, Quiet(t)
    PROVE  /\ pc'[t] \in Pinned <=> pc[t] \in Pinned
           /\ Sole(t)' => Sole(t)
<1>1. Moves(t) /\ flags' = flags /\ ni' = ni
  BY Zenon DEF Quiet
<1>2. "recwake" \in Tearing /\ "destroy" \in Tearing /\ "reclaim" \in Tearing
  BY Zenon DEF Tearing
<1>3. pc'[t] \in Pinned <=> pc[t] \in Pinned
  BY <1>1, <1>2, Places, Zenon DEF Moves
<1>4. ASSUME Sole(t)' PROVE Sole(t)
  <2>1. pc'[t] \in Pinned
    BY <1>4, Places, Zenon DEF Sole
  <2>2. CASE pc'[t] \in Tearing \cup Loading
    BY <1>1, <1>2, <2>2, Places, Zenon DEF Moves, Sole
  <2>3. CASE pc'[t] \notin Tearing \cup Loading
    BY <1>1, <1>3, <1>4, <2>1, <2>3, Zenon DEF Sole
  <2> QED
    BY <2>2, <2>3, Zenon
<1> QED
  BY <1>3, <1>4, Zenon

\* A quiet step keeps the invariant.
LEMMA QuietAfter ==
    ASSUME IInv, Types', NEW t \in Threads, Quiet(t)
    PROVE  After(t)
<1>1. /\ UNCHANGED <<hashLock, key, flags, hashed, vnode, refs, ni, nni, vid>>
      /\ linked' \subseteq linked
      /\ \A v \in Threads \ {t} :
             /\ pc'[v] = pc[v] \/ (pc[v] = "asleep" /\ pc'[v] = "find")
             /\ tk'[v] = tk[v]
  BY Zenon DEF Quiet
<1>2. /\ pc'[t] \in Pinned <=> pc[t] \in Pinned
      /\ Sole(t)' => Sole(t)
  BY QuietRights, Zenon
<1>3. Works(t)
  <2>1. \A j \in Inodes : Shares(t, j)
    BY <1>1, Zenon DEF Shares
  <2>2. pc'[t] \in Pinned => \A v \in Threads \ {t} :
            (Sole(v) => ni[v] # ni'[t]) /\ nni[v] # ni'[t]
    BY <1>1, <1>2, PinnedApart, Zenon
  <2>3. Sole(t)' => Alone(t, ni[t])
    BY <1>2, SoleAlone, SolePinned, Zenon
  <2>4. nni[t] # NoInode => Alone(t, nni[t])
    BY NewAlone, Zenon
  <2>5. \A v \in vid : vnode[ni[v]] # "none" /\ "Alloc" \notin flags[ni[v]]
    BY NoId, Zenon
  <2> QED
    BY <1>1, <2>1, <2>2, <2>3, <2>4, <2>5, Zenon DEF Works, Alone
<1>4. ASSUME NEW j \in Inodes PROVE InodeInv(j)'
  <2>1. InodeInv(j)
    BY Zenon DEF IInv
  <2>2. InodeLocal(j)'
    BY <1>1, <2>1, Zenon DEF InodeInv, InodeLocal
  <2>3. ASSUME NEW v \in refs'[j] PROVE pc'[v] \in Pinned /\ ni'[v] = j
    <3>1. v \in Threads /\ v \in refs[j]
      BY <1>1, Zenon DEF Types
    <3>2. pc[v] \in Pinned /\ ni[v] = j
      BY <2>1, <3>1, Zenon DEF InodeInv
    <3> QED
      BY <1>1, <1>2, <3>1, <3>2, Places, Zenon
  <2> QED
    BY <2>2, <2>3, Zenon DEF InodeInv
<1>5. HashUnique'
  BY <1>1, Zenon DEF HashUnique, IInv
<1>6. ThreadInv(t)' /\ NewInv(t, t)'
  BY QuietThread, Zenon
<1> QED
  BY <1>3, <1>4, <1>5, <1>6, Zenon DEF After

\* A step that takes t to l.
Calm(t, l) ==
    /\ pc'[t] = l
    /\ \A v \in Threads \ {t} :
           pc'[v] = pc[v] \/ (pc[v] = "asleep" /\ pc'[v] = "find")
    /\ linked' \subseteq linked
    /\ UNCHANGED <<hashLock, key, flags, hashed, vnode, refs, tk, ni, nni, vid>>

\* An action that only goes on is such a step.
LEMMA GotoCalm ==
    ASSUME IInv, NEW t \in Threads, NEW l, Goto(t, l), linked' \subseteq linked,
           UNCHANGED <<hashLock, key, flags, hashed, vnode, refs, tk, ni, nni, vid>>
    PROVE  Calm(t, l)
<1>1. pc \in [Threads -> Labels]
  BY Zenon DEF IInv, Types
<1> QED
  BY <1>1, Zenon DEF Goto, Calm

\* So is one that goes on and wakes those who wait for an inode.
LEMMA WakeupCalm ==
    ASSUME NEW t \in Threads, NEW l, NEW i, WakeupAndGoto(i, t, l),
           linked' = linked,
           UNCHANGED <<hashLock, key, flags, hashed, vnode, refs, tk, ni, nni, vid>>
    PROVE  Calm(t, l)
BY Zenon DEF WakeupAndGoto, Calm

\* Such a step is quiet if the place it leads to gives t the same rights.
LEMMA CalmQuiet ==
    ASSUME IInv, NEW t \in Threads, NEW l, Calm(t, l), pc[t] # "idle",
           pc'[t] = l => Moves(t)
    PROVE  Quiet(t)
<1>1. tk[t] \in Keys
  BY Zenon DEF IInv, ThreadInv
<1> QED
  BY <1>1, Zenon DEF Quiet, Calm

\* From one place with a reference to another.
LEMMA HeldQuiet ==
    ASSUME IInv, NEW t \in Threads, NEW l \in Held \ {"wake"}, Calm(t, l),
           pc[t] \in Held \/ (pc[t] = "check" /\ "Alloc" \notin flags[ni[t]]),
           l = "using" => "Alloc" \notin flags[ni[t]]
    PROVE  Quiet(t)
<1>1. pc[t] # "idle"
  BY Places, Zenon DEF Outside
<1>2. pc'[t] = l => Moves(t)
  BY Zenon DEF Moves
<1> QED
  BY <1>1, <1>2, CalmQuiet, Zenon

\* From one place without an inode to another.
LEMMA OutsideQuiet ==
    ASSUME IInv, NEW t \in Threads, NEW l \in Outside \ {"getref"}, Calm(t, l),
           pc[t] \in Outside \ {"idle"}, pc[t] = "getref" => t \notin vid,
           l = "find" \/ (pc[t] # "getref" /\ (pc[t] = "find" => nni[t] = NoInode))
    PROVE  Quiet(t)
<1>1. t \notin vid /\ (nni[t] # NoInode => l = "find")
  BY Zenon DEF IInv, ThreadInv, Outside
<1>2. pc'[t] = l => Moves(t)
  BY <1>1, Zenon DEF Moves
<1> QED
  BY <1>2, CalmQuiet, Zenon

\* An operation starts.
LEMMA BeginQuiet ==
    ASSUME IInv, NEW t \in Threads, NEW k \in Keys, NEW o,
           NEW l \in {"find", "getbuf"}, Begin(t, o, k, l)
    PROVE  Quiet(t)
<1>1. /\ pc[t] = "idle" /\ pc' = [pc EXCEPT ![t] = l]
      /\ tk' = [tk EXCEPT ![t] = k] /\ linked' = linked
      /\ UNCHANGED <<hashLock, key, flags, hashed, vnode, refs, ni, nni, vid>>
  BY Zenon DEF Begin, At, Goto, hashVars, vnodeVars
<1>2. /\ pc'[t] = l /\ tk'[t] = k
      /\ \A v \in Threads \ {t} : pc'[v] = pc[v] /\ tk'[v] = tk[v]
  BY <1>1, Zenon DEF IInv, Types
<1>3. t \notin vid /\ nni[t] = NoInode
  BY <1>1, Zenon DEF IInv, ThreadInv
<1>4. Moves(t)
  BY <1>1, <1>2, <1>3, Zenon DEF Moves, Outside
<1> QED
  BY <1>1, <1>2, <1>4, Zenon DEF Quiet

\* The steps that change no inode are quiet.
LEMMA QuietStep ==
    ASSUME IInv, NEW t \in Threads,
           \/ \E k \in Keys : StartVget(t, k) \/ StartLookup(t, k) \/ StartCreate(t, k)
           \/ FindMiss(t) \/ GetRefFails(t) \/ MallocFails(t) \/ CheckCached(t)
           \/ CheckFresh(t) \/ ReadFails(t) \/ Wake(t) \/ GetBuf(t)
           \/ CheckCreate(t) \/ AddVnodeFails(t) \/ DirEntry(t)
           \/ DirEntryFails(t) \/ Recycle(t) \/ Undo(t) \/ UndoBit(t)
           \/ GetBufInUse(t) \/ GetBufFails(t) \/ InactiveKeep(t)
           \/ InactiveWake(t) \/ FreeRecord(t) \/ ReclaimWake(t) \/ Unlink(t)
           \/ Close(t)
    PROVE  Quiet(t)
<1>1. ASSUME NEW k \in Keys,
             StartVget(t, k) \/ StartLookup(t, k) \/ StartCreate(t, k)
      PROVE  Quiet(t)
  BY <1>1, BeginQuiet, Zenon DEF StartVget, StartLookup, StartCreate
<1>2. CASE FindMiss(t)
  <2>1. /\ pc[t] = "find" /\ nni[t] = NoInode
        /\ Goto(t, "malloc") /\ linked' = linked
        /\ UNCHANGED <<hashLock, key, flags, hashed, vnode, refs, tk, ni, nni, vid>>
    BY <1>2, Zenon DEF FindMiss, At, hashVars, vnodeVars
  <2>2. Calm(t, "malloc")
    BY <2>1, GotoCalm, Zenon
  <2> QED
    BY <2>1, <2>2, OutsideQuiet, Zenon DEF Outside
<1>3. CASE GetRefFails(t)
  <2>1. /\ pc[t] = "getref" /\ t \notin vid
        /\ Goto(t, "find") /\ linked' = linked
        /\ UNCHANGED <<hashLock, key, flags, hashed, vnode, refs, tk, ni, nni, vid>>
    BY <1>3, Zenon DEF GetRefFails, At, hashVars, vnodeVars
  <2>2. Calm(t, "find")
    BY <2>1, GotoCalm, Zenon
  <2> QED
    BY <2>1, <2>2, OutsideQuiet, Zenon DEF Outside
<1>4. CASE MallocFails(t)
  <2>1. /\ pc[t] = "malloc"
        /\ (Goto(t, "undo") \/ Goto(t, "idle")) /\ linked' = linked
        /\ UNCHANGED <<hashLock, key, flags, hashed, vnode, refs, tk, ni, nni, vid>>
    BY <1>4, Zenon DEF MallocFails, At, hashVars, vnodeVars
  <2>2. Calm(t, "undo") \/ Calm(t, "idle")
    BY <2>1, GotoCalm, Zenon
  <2> QED
    BY <2>1, <2>2, OutsideQuiet, Zenon DEF Outside
<1>5. CASE CheckCached(t)
  <2>1. /\ pc[t] = "check" /\ "Alloc" \notin flags[ni[t]]
        /\ (Goto(t, "using") \/ Goto(t, "put")) /\ linked' = linked
        /\ UNCHANGED <<hashLock, key, flags, hashed, vnode, refs, tk, ni, nni, vid>>
    BY <1>5, Zenon DEF CheckCached, At, hashVars, vnodeVars
  <2>2. Calm(t, "using") \/ Calm(t, "put")
    BY <2>1, GotoCalm, Zenon
  <2> QED
    BY <2>1, <2>2, HeldQuiet, Zenon DEF Held
<1>6. CASE CheckFresh(t)
  <2>1. /\ pc[t] = "check" /\ "Alloc" \in flags[ni[t]]
        /\ Goto(t, "read") /\ linked' = linked
        /\ UNCHANGED <<hashLock, key, flags, hashed, vnode, refs, tk, ni, nni, vid>>
    BY <1>6, Zenon DEF CheckFresh, At, hashVars, vnodeVars
  <2>2. Calm(t, "read")
    BY <2>1, GotoCalm, Zenon
  <2> QED
    BY <2>1, <2>2, CalmQuiet, Zenon DEF Moves, Loading
<1>7. CASE ReadFails(t)
  <2>1. /\ pc[t] = "read"
        /\ Goto(t, "reclaim") /\ linked' = linked
        /\ UNCHANGED <<hashLock, key, flags, hashed, vnode, refs, tk, ni, nni, vid>>
    BY <1>7, Zenon DEF ReadFails, At, hashVars, vnodeVars
  <2>2. Calm(t, "reclaim")
    BY <2>1, GotoCalm, Zenon
  <2> QED
    BY <2>1, <2>2, CalmQuiet, Zenon DEF Moves, Loading
<1>8. CASE GetBuf(t)
  <2>1. /\ pc[t] = "getbuf"
        /\ Goto(t, "find") /\ linked' = linked
        /\ UNCHANGED <<hashLock, key, flags, hashed, vnode, refs, tk, ni, nni, vid>>
    BY <1>8, Zenon DEF GetBuf, At, hashVars, vnodeVars
  <2>2. Calm(t, "find")
    BY <2>1, GotoCalm, Zenon
  <2> QED
    BY <2>1, <2>2, OutsideQuiet, Zenon DEF Outside
<1>9. CASE AddVnodeFails(t)
  <2>1. /\ pc[t] = "addvnode"
        /\ Goto(t, "reclaim") /\ linked' = linked
        /\ UNCHANGED <<hashLock, key, flags, hashed, vnode, refs, tk, ni, nni, vid>>
    BY <1>9, Zenon DEF AddVnodeFails, At, hashVars, vnodeVars
  <2>2. Calm(t, "reclaim")
    BY <2>1, GotoCalm, Zenon
  <2> QED
    BY <2>1, <2>2, CalmQuiet, Zenon DEF Moves, Loading
<1>10. CASE DirEntry(t)
  <2>1. /\ pc[t] = "direntry"
        /\ Goto(t, "clear") /\ linked' = linked
        /\ UNCHANGED <<hashLock, key, flags, hashed, vnode, refs, tk, ni, nni, vid>>
    BY <1>10, Zenon DEF DirEntry, At, hashVars, vnodeVars
  <2>2. Calm(t, "clear")
    BY <2>1, GotoCalm, Zenon
  <2> QED
    BY <2>1, <2>2, HeldQuiet, Zenon DEF Held
<1>11. CASE DirEntryFails(t)
  <2>1. /\ pc[t] = "direntry"
        /\ Goto(t, "clear") /\ linked' \subseteq linked
        /\ UNCHANGED <<hashLock, key, flags, hashed, vnode, refs, tk, ni, nni, vid>>
    BY <1>11, Zenon DEF DirEntryFails, At, hashVars, vnodeVars
  <2>2. Calm(t, "clear")
    BY <2>1, GotoCalm, Zenon
  <2> QED
    BY <2>1, <2>2, HeldQuiet, Zenon DEF Held
<1>12. CASE Recycle(t)
  <2>1. /\ pc[t] = "recycle"
        /\ Goto(t, "put") /\ linked' = linked
        /\ UNCHANGED <<hashLock, key, flags, hashed, vnode, refs, tk, ni, nni, vid>>
    BY <1>12, Zenon DEF Recycle, At, hashVars, vnodeVars
  <2>2. Calm(t, "put")
    BY <2>1, GotoCalm, Zenon
  <2> QED
    BY <2>1, <2>2, HeldQuiet, Zenon DEF Held
<1>13. CASE Undo(t)
  <2>1. /\ pc[t] = "undo"
        /\ Goto(t, "clearbit") /\ linked' = linked
        /\ UNCHANGED <<hashLock, key, flags, hashed, vnode, refs, tk, ni, nni, vid>>
    BY <1>13, Zenon DEF Undo, At, hashVars, vnodeVars
  <2>2. Calm(t, "clearbit")
    BY <2>1, GotoCalm, Zenon
  <2> QED
    BY <2>1, <2>2, OutsideQuiet, Zenon DEF Outside
<1>14. CASE InactiveKeep(t)
  <2>1. /\ pc[t] = "inactive"
        /\ Goto(t, "put") /\ linked' = linked
        /\ UNCHANGED <<hashLock, key, flags, hashed, vnode, refs, tk, ni, nni, vid>>
    BY <1>14, Zenon DEF InactiveKeep, At, hashVars, vnodeVars
  <2>2. Calm(t, "put")
    BY <2>1, GotoCalm, Zenon
  <2> QED
    BY <2>1, <2>2, HeldQuiet, Zenon DEF Held
<1>15. CASE FreeRecord(t)
  <2>1. /\ pc[t] = "freerec"
        /\ Goto(t, "put") /\ linked' = linked
        /\ UNCHANGED <<hashLock, key, flags, hashed, vnode, refs, tk, ni, nni, vid>>
    BY <1>15, Zenon DEF FreeRecord, At, hashVars, vnodeVars
  <2>2. Calm(t, "put")
    BY <2>1, GotoCalm, Zenon
  <2> QED
    BY <2>1, <2>2, HeldQuiet, Zenon DEF Held
<1>16. CASE Unlink(t)
  <2>1. /\ pc[t] = "using"
        /\ Goto(t, "put") /\ linked' \subseteq linked
        /\ UNCHANGED <<hashLock, key, flags, hashed, vnode, refs, tk, ni, nni, vid>>
    BY <1>16, Zenon DEF Unlink, At, hashVars, vnodeVars
  <2>2. Calm(t, "put")
    BY <2>1, GotoCalm, Zenon
  <2> QED
    BY <2>1, <2>2, HeldQuiet, Zenon DEF Held
<1>17. CASE Close(t)
  <2>1. /\ pc[t] = "using"
        /\ Goto(t, "put") /\ linked' = linked
        /\ UNCHANGED <<hashLock, key, flags, hashed, vnode, refs, tk, ni, nni, vid>>
    BY <1>17, Zenon DEF Close, At, hashVars, vnodeVars
  <2>2. Calm(t, "put")
    BY <2>1, GotoCalm, Zenon
  <2> QED
    BY <2>1, <2>2, HeldQuiet, Zenon DEF Held
<1>18. CASE InactiveWake(t)
  <2>1. /\ pc[t] = "inactwake"
        /\ WakeupAndGoto(ni[t], t, "freerec") /\ linked' = linked
        /\ UNCHANGED <<hashLock, key, flags, hashed, vnode, refs, tk, ni, nni, vid>>
    BY <1>18, Zenon DEF InactiveWake, At, hashVars, vnodeVars
  <2>2. Calm(t, "freerec")
    BY <2>1, WakeupCalm, Zenon
  <2> QED
    BY <2>1, <2>2, HeldQuiet, Zenon DEF Held
<1>19. CASE ReclaimWake(t)
  <2>1. /\ pc[t] = "recwake"
        /\ WakeupAndGoto(ni[t], t, "destroy") /\ linked' = linked
        /\ UNCHANGED <<hashLock, key, flags, hashed, vnode, refs, tk, ni, nni, vid>>
    BY <1>19, Zenon DEF ReclaimWake, At, hashVars, vnodeVars
  <2>2. Calm(t, "destroy")
    BY <2>1, WakeupCalm, Zenon
  <2> QED
    BY <2>1, <2>2, CalmQuiet, Zenon DEF Moves
<1>20. CASE Wake(t)
  <2>1. PICK l \in {"recycle", "put", "using"} : WakeupAndGoto(ni[t], t, l)
    BY <1>20, Zenon DEF Wake
  <2>2. /\ pc[t] = "wake" /\ linked' = linked
        /\ UNCHANGED <<hashLock, key, flags, hashed, vnode, refs, tk, ni, nni, vid>>
    BY <1>20, Zenon DEF Wake, At, hashVars, vnodeVars
  <2>3. Calm(t, l)
    BY <2>1, <2>2, WakeupCalm, Zenon
  <2>4. "Alloc" \notin flags[ni[t]]
    BY <2>2, Zenon DEF IInv, ThreadInv
  <2> QED
    BY <2>2, <2>3, <2>4, HeldQuiet, Zenon DEF Held
<1>21. CASE CheckCreate(t)
  <2>1. /\ pc[t] = "check" /\ linked' = linked
        /\ Goto(t, IF "Alloc" \in flags[ni[t]] THEN "addvnode" ELSE "panic")
        /\ UNCHANGED <<hashLock, key, flags, hashed, vnode, refs, tk, ni, nni, vid>>
    BY <1>21, Zenon DEF CheckCreate, At, hashVars, vnodeVars
  <2>2. CASE "Alloc" \in flags[ni[t]]
    <3>1. Calm(t, "addvnode")
      BY <2>1, <2>2, GotoCalm, Zenon
    <3> QED
      BY <2>1, <2>2, <3>1, CalmQuiet, Zenon DEF Moves, Loading
  <2>3. CASE "Alloc" \notin flags[ni[t]]
    <3>1. Calm(t, "panic")
      BY <2>1, <2>3, GotoCalm, Zenon
    <3> QED
      BY <2>1, <2>3, <3>1, HeldQuiet, Zenon DEF Held
  <2> QED
    BY <2>2, <2>3, Zenon
<1>22. CASE UndoBit(t)
  <2>1. /\ pc[t] = "clearbit"
        /\ Goto(t, "idle") /\ linked' = linked
        /\ UNCHANGED <<hashLock, key, flags, hashed, vnode, refs, tk, ni, nni, vid>>
    BY <1>22, Zenon DEF UndoBit, At, hashVars, vnodeVars
  <2>2. Calm(t, "idle")
    BY <2>1, GotoCalm, Zenon
  <2> QED
    BY <2>1, <2>2, OutsideQuiet, Zenon DEF Outside
<1>23. CASE GetBufInUse(t)
  <2>1. /\ pc[t] = "getbuf"
        /\ Goto(t, "idle") /\ linked' = linked
        /\ UNCHANGED <<hashLock, key, flags, hashed, vnode, refs, tk, ni, nni, vid>>
    BY <1>23, Zenon DEF GetBufInUse, At, hashVars, vnodeVars
  <2>2. Calm(t, "idle")
    BY <2>1, GotoCalm, Zenon
  <2> QED
    BY <2>1, <2>2, OutsideQuiet, Zenon DEF Outside
<1>24. CASE GetBufFails(t)
  <2>1. /\ pc[t] = "getbuf"
        /\ Goto(t, "clearbit") /\ linked' = linked
        /\ UNCHANGED <<hashLock, key, flags, hashed, vnode, refs, tk, ni, nni, vid>>
    BY <1>24, Zenon DEF GetBufFails, At, hashVars, vnodeVars
  <2>2. Calm(t, "clearbit")
    BY <2>1, GotoCalm, Zenon
  <2> QED
    BY <2>1, <2>2, OutsideQuiet, Zenon DEF Outside
<1> QED
  BY <1>1, <1>2, <1>3, <1>4, <1>5, <1>6, <1>7, <1>8, <1>9, <1>10, <1>11, <1>12,
     <1>13, <1>14, <1>15, <1>16, <1>17, <1>18, <1>19, <1>20, <1>21, <1>22,
     <1>23, <1>24, ZenonT(60)

-----------------------------------------------------------------------------
(* What a step of one thread means for the others.                         *)

\* A thread that works on an inode before or after a step of another one does
\* so before and after it, and the step only shares the inode with it.
LEMMA OtherPinned ==
    ASSUME NEW t \in Threads, Works(t), NEW v \in Threads, v # t,
           ThreadInv(v)
    PROVE  /\ pc'[v] \in Pinned <=> pc[v] \in Pinned
           /\ pc[v] \in Pinned => /\ pc'[v] = pc[v] /\ Shares(t, ni[v])
                                  /\ ni'[v] = ni[v] /\ tk'[v] = tk[v]
           /\ Sole(v)' <=> Sole(v)
<1>1. /\ pc'[v] = pc[v] \/ (pc[v] = "asleep" /\ pc'[v] = "find")
      /\ tk'[v] = tk[v] /\ ni'[v] = ni[v]
  BY Zenon DEF Works
<1>2. "asleep" \notin Pinned /\ "find" \notin Pinned
  BY Places, Zenon DEF Outside
<1>3. pc'[v] \in Pinned <=> pc[v] \in Pinned
  BY <1>1, <1>2, Zenon
<1>4. ASSUME pc[v] \in Pinned
      PROVE  pc'[v] = pc[v] /\ Shares(t, ni[v])
  <2>1. ni[v] \in Inodes
    BY <1>4, Zenon DEF ThreadInv
  <2>2. ~Alone(t, ni[v])
    BY <1>4, Zenon DEF Alone
  <2> QED
    BY <1>1, <1>2, <1>4, <2>1, <2>2, Zenon DEF Works
<1>5. Sole(v)' <=> Sole(v)
  <2>1. CASE pc[v] \in Pinned
    <3>1. "Alloc" \in flags'[ni[v]] <=> "Alloc" \in flags[ni[v]]
      BY <1>4, <2>1, Zenon DEF Shares
    <3> QED
      BY <1>1, <1>4, <2>1, <3>1, Zenon DEF Sole
  <2>2. CASE pc[v] \notin Pinned
    BY <1>3, <2>2, Places, Zenon DEF Sole
  <2> QED
    BY <2>1, <2>2, Zenon
<1> QED
  BY <1>1, <1>3, <1>4, <1>5, Zenon

\* A step of one thread takes nothing from another.
LEMMA OtherThread ==
    ASSUME IInv, NEW t \in Threads, Works(t), NEW v \in Threads, v # t
    PROVE  ThreadInv(v)'
<1>0. ThreadInv(v)
  BY Zenon DEF IInv
<1>1. /\ pc'[v] = pc[v] \/ (pc[v] = "asleep" /\ pc'[v] = "find")
      /\ tk'[v] = tk[v] /\ ni'[v] = ni[v] /\ nni'[v] = nni[v]
      /\ hashLock' = v <=> hashLock = v
      /\ v \in vid' => /\ v \in vid
                       /\ key'[ni[v]] = key[ni[v]]
                       /\ vnode'[ni[v]] # "none"
                       /\ "Alloc" \notin flags'[ni[v]]
  BY Zenon DEF Works
<1>2. /\ pc'[v] \in Pinned <=> pc[v] \in Pinned
      /\ pc[v] \in Pinned => pc'[v] = pc[v] /\ Shares(t, ni[v])
  BY <1>0, OtherPinned, Zenon
<1>3. pc'[v] # "idle" => tk'[v] \in Keys
  BY <1>0, <1>1, Zenon DEF ThreadInv
<1>4. /\ pc'[v] = "sleep" <=> hashLock' = v
      /\ pc'[v] = "sleep" => ni'[v] \in hashed'
  <2>1. pc'[v] = "sleep" <=> pc[v] = "sleep"
    BY <1>1, Zenon
  <2>2. pc[v] = "sleep" => hashLock # NoThread /\ ni[v] \in hashed
    BY <1>0, InodeCacheAssumption, Zenon DEF ThreadInv
  <2>3. hashLock # NoThread => hashed \subseteq hashed'
    BY Zenon DEF Works
  <2> QED
    BY <1>0, <1>1, <2>1, <2>2, <2>3, Zenon DEF ThreadInv
<1>5. CASE pc[v] \in Pinned
  <2>1. /\ tk[v] \in Keys /\ ni[v] \in Inodes /\ key[ni[v]] = tk[v]
        /\ hashLock # v /\ v \notin vid /\ nni[v] = NoInode
    BY <1>0, <1>5, PinnedThread, Zenon
  <2>2. /\ key'[ni[v]] = key[ni[v]] /\ vnode'[ni[v]] = vnode[ni[v]]
        /\ "Alloc" \in flags'[ni[v]] <=> "Alloc" \in flags[ni[v]]
        /\ v \in refs'[ni[v]] <=> v \in refs[ni[v]]
    BY <1>2, <1>5, Zenon DEF Shares
  <2>3. Sole(v) => /\ flags'[ni[v]] = flags[ni[v]]
                   /\ ni[v] \in hashed' <=> ni[v] \in hashed
    BY <1>2, <1>5, Zenon DEF Shares, IInv, PairInv
  <2>4. Has(v)' <=> Has(v)
    BY <1>1, <2>2, Zenon DEF Has
  <2>5. Sole(v) => (Unloaded(ni[v])' <=> Unloaded(ni[v]))
    BY <1>1, <2>2, <2>3, Zenon DEF Unloaded
  <2>6. Sole(v) <=> \/ pc[v] \in Tearing \cup Loading
                    \/ "Alloc" \in flags[ni[v]]
    BY <1>5, Zenon DEF Sole
  <2>7. /\ pc'[v] \in Held => Has(v)'
        /\ pc'[v] = "check" => IF "Alloc" \in flags'[ni'[v]]
                               THEN Unloaded(ni[v])' ELSE Has(v)'
        /\ pc'[v] \in Loading => Unloaded(ni[v])'
    BY <1>0, <1>1, <1>2, <1>5, <2>2, <2>4, <2>5, <2>6, Zenon DEF ThreadInv
  <2>8. /\ pc'[v] \in Tearing => vnode'[ni'[v]] # "live"
        /\ pc'[v] \in {"recwake", "destroy"} => ni'[v] \notin hashed'
        /\ pc'[v] \in {"wake", "using"} => "Alloc" \notin flags'[ni'[v]]
    BY <1>0, <1>1, <1>2, <1>5, <2>2, <2>3, <2>6, Zenon DEF ThreadInv, Tearing
  <2>9. ni'[v] \in Inodes /\ key'[ni'[v]] = tk'[v] /\ v \notin vid'
        /\ nni'[v] = NoInode
    BY <1>1, <2>1, <2>2, Zenon
  <2> QED
    BY <1>3, <1>4, <2>7, <2>8, <2>9, Zenon DEF ThreadInv
<1>6. CASE pc[v] \notin Pinned
  <2>1. /\ pc'[v] \notin Pinned /\ pc'[v] \notin Held /\ pc'[v] \notin Loading
        /\ pc'[v] \notin Tearing /\ pc'[v] # "check"
    BY <1>2, <1>6, Places, Zenon
  <2>2. pc'[v] \notin {"wake", "using", "recwake", "destroy"}
    BY <2>1, Zenon DEF Held, Tearing
  <2>3. v \in vid' => /\ pc'[v] = "getref" /\ ni'[v] \in Inodes
                      /\ vnode'[ni'[v]] # "none" /\ key'[ni'[v]] = tk'[v]
                      /\ "Alloc" \notin flags'[ni'[v]]
    BY <1>0, <1>1, Zenon DEF ThreadInv
  <2>4. ASSUME nni'[v] # NoInode
        PROVE  /\ pc'[v] \in {"find", "sleep", "asleep", "getref"}
               /\ New(nni[v])' /\ key'[nni'[v]] = tk'[v]
    <3>1. /\ pc[v] \in {"find", "sleep", "asleep", "getref"}
          /\ New(nni[v]) /\ key[nni[v]] = tk[v]
      BY <1>0, <1>1, <2>4, Zenon DEF ThreadInv
    <3>2. nni[v] \in Inodes /\ ~Alone(t, nni[v])
      BY <1>1, <2>4, Zenon DEF Alone, IInv, Types
    <3>3. Shares(t, nni[v])
      BY <3>2, Zenon DEF Works
    <3>4. ~(pc[t] \in Pinned /\ ni[t] = nni[v])
      BY <1>1, <2>4, Zenon DEF IInv, NewInv
    <3> QED
      BY <1>1, <3>1, <3>3, <3>4, Zenon DEF Shares, New
  <2> QED
    BY <1>3, <1>4, <2>1, <2>2, <2>3, <2>4, Zenon DEF ThreadInv
<1> QED
  BY <1>5, <1>6, Zenon

\* After a step of t, no two threads own the same inode.
LEMMA PairAfter ==
    ASSUME IInv, NEW t \in Threads, After(t), \A v \in Threads : ThreadInv(v)',
           NEW v \in Threads, NEW w \in Threads
    PROVE  (v # w => PairInv(v, w)') /\ NewInv(v, w)'
<1>1. Works(t) /\ ThreadInv(v) /\ ThreadInv(w) /\ NewInv(t, t)'
  BY Zenon DEF After, IInv
<1>2. \A u \in Threads \ {t} : ni'[u] = ni[u] /\ nni'[u] = nni[u]
  BY <1>1, Zenon DEF Works
<1>3. v # t => /\ pc'[v] \in Pinned <=> pc[v] \in Pinned
               /\ Sole(v)' <=> Sole(v)
  BY <1>1, OtherPinned, Zenon
<1>4. w # t => (pc'[w] \in Pinned <=> pc[w] \in Pinned)
  BY <1>1, OtherPinned, Zenon
<1>5. CASE v # t /\ w # t
  <2>1. (v # w => PairInv(v, w)) /\ NewInv(v, w)
    BY Zenon DEF IInv
  <2> QED
    BY <1>2, <1>3, <1>4, <1>5, <2>1, Zenon DEF PairInv, NewInv
<1>6. CASE v = t /\ w # t
  <2>1. /\ Sole(t)' => (pc[w] \in Pinned => ni[w] # ni'[t])
        /\ nni'[t] # NoInode => Alone(t, nni'[t])
    BY <1>1, <1>6, Zenon DEF Works
  <2>2. nni'[t] # NoInode => (pc[w] \in Pinned => ni[w] # nni'[t])
                             /\ nni[w] # nni'[t]
    BY <1>6, <2>1, Zenon DEF Alone
  <2> QED
    BY <1>2, <1>4, <1>6, <2>1, <2>2, Zenon DEF PairInv, NewInv
<1>7. CASE v # t /\ w = t
  <2>1. /\ pc'[t] \in Pinned => (Sole(v) => ni[v] # ni'[t]) /\ nni[v] # ni'[t]
        /\ nni'[t] # NoInode => Alone(t, nni'[t])
    BY <1>1, <1>7, Zenon DEF Works
  <2>2. nni'[t] # NoInode => nni[v] # nni'[t]
    BY <1>7, <2>1, Zenon DEF Alone
  <2> QED
    BY <1>2, <1>3, <1>7, <2>1, <2>2, Zenon DEF PairInv, NewInv
<1> QED
  BY <1>1, <1>5, <1>6, <1>7, Zenon

\* What the invariant says of the properties.
LEMMA Consequences ==
    IInv => /\ TypeOK /\ HashUnique
            /\ NoUseAfterFree /\ HashedIsLive /\ DeletedIsUnlinked
<1> SUFFICES ASSUME IInv PROVE /\ TypeOK /\ HashUnique
                               /\ NoUseAfterFree /\ HashedIsLive
                               /\ DeletedIsUnlinked
  OBVIOUS
<1>1. TypeOK
  BY Zenon DEF IInv, InodeInv, InodeLocal, TypeOK
<1>2. HashUnique
  BY Zenon DEF IInv
<1>3. NoUseAfterFree
  <2> SUFFICES ASSUME NEW t \in Threads
               PROVE  /\ pc[t] = "sleep" => ni[t] \in hashed
                      /\ pc[t] \in Pinned =>
                             ni[t] # NoInode /\ key[ni[t]] = tk[t]
    BY Zenon DEF NoUseAfterFree, At
  <2>1. ThreadInv(t)
    BY Zenon DEF IInv
  <2> QED
    BY <2>1, InodeCacheAssumption, Zenon DEF ThreadInv
<1>4. HashedIsLive
  BY Zenon DEF IInv, Types, InodeInv, InodeLocal, HashedIsLive
<1>5. DeletedIsUnlinked
  <2> SUFFICES ASSUME NEW t \in Threads, pc[t] = "using"
               PROVE  /\ flags[ni[t]] \cap {"Alloc", "Reclaim"} = {}
                      /\ "Deleted" \in flags[ni[t]] => ni[t] \notin linked
    BY Zenon DEF DeletedIsUnlinked, At
  <2>1. pc[t] \in Held /\ pc[t] \in Pinned /\ ThreadInv(t)
    BY Zenon DEF Held, Pinned, IInv
  <2>2. ni[t] \in Inodes /\ vnode[ni[t]] = "live" /\ "Alloc" \notin flags[ni[t]]
    BY <2>1, Zenon DEF ThreadInv, Has
  <2>3. InodeLocal(ni[t])
    BY <2>2, Zenon DEF IInv, InodeInv
  <2> QED
    BY <2>2, <2>3, Zenon DEF InodeLocal
<1> QED BY <1>1, <1>2, <1>3, <1>4, <1>5, Zenon

\* A step that changes nothing keeps the invariant.
LEMMA StutterInv == IInv /\ UNCHANGED vars => IInv'
<1> SUFFICES ASSUME IInv, UNCHANGED vars PROVE IInv'
  OBVIOUS
<1>0. UNCHANGED <<hashLock, key, flags, hashed, linked, vnode, refs, pc, tk, ni, nni, vid>>
  BY Zenon DEF vars, hashVars, vnodeVars, threadVars
<1>1. Types'
  BY Zenon DEF vars, hashVars, vnodeVars, diskVars, dirVars, threadVars, IInv,
     Types
<1>2. \A t \in Threads : ThreadInv(t)'
  BY <1>0, ZenonT(60) DEF IInv, ThreadInv, New, Has, Unloaded
<1>3. \A t, u \in Threads : t # u => PairInv(t, u)'
  BY <1>0, Zenon DEF IInv, PairInv, Sole
<1>4. \A t, u \in Threads : NewInv(t, u)'
  BY <1>0, Zenon DEF IInv, NewInv
<1>5. \A i \in Inodes : InodeInv(i)'
  BY <1>0, Zenon DEF IInv, InodeInv, InodeLocal
<1>6. HashUnique'
  BY <1>0, Zenon DEF IInv, HashUnique
<1> QED BY <1>1, <1>2, <1>3, <1>4, <1>5, <1>6, Zenon DEF IInv

\* In the initial state nothing is allocated and every thread is idle.
LEMMA InitInv == Init => IInv
<1> SUFFICES ASSUME Init PROVE IInv
  OBVIOUS
<1>1. Types
  BY InodeCacheAssumption, Zenon DEF Init, Types, Labels, AllOps, OpNames,
     Flags
<1>2. HashUnique
  BY Zenon DEF Init, HashUnique
<1>3. \A t \in Threads : pc[t] \notin Pinned
  BY Zenon DEF Init, Pinned
<1>4. \A t \in Threads : ThreadInv(t)
  BY InodeCacheAssumption, Zenon DEF Init, ThreadInv, Held, Loading, Pinned,
     Tearing
<1>5. \A t, u \in Threads : t # u => PairInv(t, u)
  BY <1>3, Zenon DEF Init, PairInv
<1>6. \A t, u \in Threads : NewInv(t, u)
  BY <1>3, Zenon DEF NewInv
<1>7. \A i \in Inodes : InodeInv(i)
  BY Zenon DEF Init, InodeInv, InodeLocal
<1> QED BY <1>1, <1>2, <1>4, <1>5, <1>6, <1>7, Zenon DEF IInv

\* The inductive invariant holds in every reachable state.
THEOREM Inductive == Spec => []IInv
<1>1. IInv /\ [Next]_vars => IInv'
  <2> SUFFICES ASSUME IInv, Next PROVE IInv'
    BY StutterInv, Zenon
  <2>0. PICK t \in Threads : Step(t)
    BY Zenon DEF Next, Step
  <2>1. Types'
    BY <2>0, TypesStep, Zenon
  <2>2. After(t)
    BY <2>0, <2>1, QuietStep, QuietAfter, StartReaperStep, FindBusyStep,
       SleepStep, FindHitStep, GetRefStep, MallocStep, InsertStep, ReadStep,
       ClearAllocStep, AddVnodeStep, PutStep, InactiveDeleteStep, ReclaimStep,
       DestroyStep, Zenon
    DEF Step, Start, HashGet, Load, Create, Drop, Use
  <2>3. \A v \in Threads : ThreadInv(v)'
    BY <2>2, OtherThread, Zenon DEF After
  <2>4. \A v, w \in Threads : (v # w => PairInv(v, w)') /\ NewInv(v, w)'
    BY <2>2, <2>3, PairAfter, Zenon
  <2> QED
    BY <2>1, <2>2, <2>3, <2>4, Zenon DEF IInv, After
<1> QED BY InitInv, <1>1, PTL DEF Spec

\* However many threads load, delete, recycle and reuse inodes, and whatever
\* fails, the hash never holds two inodes for one mft record.
THEOREM HashUniqueHolds == Spec => []HashUnique
BY Consequences, Inductive, PTL

\* No thread works on an inode that was destroyed under it: the vnode id taken
\* under the hash lock and the iocount reference protect every use.
THEOREM NoUseAfterFreeHolds == Spec => []NoUseAfterFree
BY Consequences, Inductive, PTL

\* What a lookup finds in the hash can be pinned: it is not deleted, and once
\* loaded it has a vnode.
THEOREM HashedIsLiveHolds == Spec => []HashedIsLive
BY Consequences, Inductive, PTL

\* Types, and free memory is neither hashed nor referenced.
THEOREM TypeOKHolds == Spec => []TypeOK
BY Consequences, Inductive, PTL

\* An inode in the hands of a user is loaded and not being reclaimed, and it is
\* marked deleted only when its last link is gone: the retry that
\* ntfs_inode_get() makes on a deleted inode never meets one that its own
\* reference keeps from being destroyed.
THEOREM DeletedIsUnlinkedHolds == Spec => []DeletedIsUnlinked
BY Consequences, Inductive, PTL
=============================================================================
