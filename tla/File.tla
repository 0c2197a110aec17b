-------------------------------- MODULE File --------------------------------
(***************************************************************************)
(* What the data of a file promises to its callers, whatever the cache,    *)
(* the record and the clusters are doing: a sequence of units that writes, *)
(* truncations and stores into a mapping change.  FileData implements it.  *)
(*                                                                         *)
(* A write puts its units into the file in any order while it runs, and    *)
(* may make the file longer on the way.  When it succeeds all of its units *)
(* are there.  When it fails the file has the length it had before, and of *)
(* its units any number may have been changed.  Those of them that lie     *)
(* beyond the initialized size are loose: they are in memory only, and     *)
(* read as zero again once the memory is given up.                         *)
(***************************************************************************)
EXTENDS Naturals, FiniteSets

CONSTANTS Threads,      \* the callers
          MaxSize,      \* the largest size of the file
          Zero, Data    \* what a unit holds: zeros, or what callers write

VARIABLES file,         \* the units of the file
          loose,        \* the units a failed write may take back
          call          \* the call of each thread

fvars == <<file, loose, call>>

Size(f) == Cardinality(DOMAIN f)

Idle == [op |-> "none", stage |-> "idle", from |-> 0, end |-> 0, was |-> 0]

Range(t) == {u \in 0 .. MaxSize - 1 : call[t].from <= u /\ u < call[t].end}

FileInit ==
    /\ \E n \in 0 .. MaxSize : file \in [0 .. n - 1 -> {Zero, Data}]
    /\ loose = {}
    /\ call = [t \in Threads |-> Idle]

(* A file f with the length n: cut, or continued with zeros. *)
Resized(f, n) == [u \in 0 .. n - 1 |-> IF u \in DOMAIN f THEN f[u] ELSE Zero]

Invoke(t) ==
    /\ call[t] = Idle /\ call'[t] # Idle
    /\ \E op \in {"write", "append", "resize", "sync"}, a, b \in 0 .. 2 * MaxSize,
          stage \in {"waiting", "failed"} :
          call' = [call EXCEPT ![t] = [op |-> op, stage |-> stage,
                                       from |-> a, end |-> b, was |-> 0]]
    /\ UNCHANGED <<file, loose>>

(* The call gets the lock it needs.  An append learns where it writes. *)
Begin(t) ==
    /\ call[t].stage = "waiting"
    /\ LET c == [call[t] EXCEPT !.stage = "running", !.was = Size(file)]
           n == call[t].end - call[t].from IN
       call' = [call EXCEPT ![t] =
                  IF c.op = "append"
                  THEN [c EXCEPT !.from = Size(file), !.end = Size(file) + n]
                  ELSE c]
    /\ UNCHANGED <<file, loose>>

(* Some units of a running write reach the file. *)
Put(t) ==
    /\ call[t].stage = "running" /\ call[t].op \in {"write", "append"}
    /\ Size(file') \in Size(file) .. IF call[t].end > Size(file) THEN call[t].end
                                     ELSE Size(file)
    /\ file' \in [DOMAIN file' -> {Zero, Data}]
    /\ \A u \in DOMAIN file' :
          \/ file'[u] = Resized(file, Size(file'))[u]
          \/ u \in Range(t) /\ file'[u] = Data
    /\ loose' \subseteq (loose \cup Range(t)) \cap DOMAIN file'
    /\ UNCHANGED call

(* A write that need not be complete gives up some of its last units. *)
Shorten(t) ==
    /\ call[t].stage = "running" /\ call[t].op \in {"write", "append"}
    /\ \E e \in call[t].from + 1 .. call[t].end - 1 :
          call' = [call EXCEPT ![t].end = e]
    /\ UNCHANGED <<file, loose>>

(* A write has succeeded: its units are in the file. *)
Complete(t) ==
    /\ call[t].stage = "running" /\ call[t].op \in {"write", "append"}
    /\ call' = [call EXCEPT ![t].stage = "ok"]
    /\ LET n == IF call[t].end > Size(file) THEN call[t].end ELSE Size(file) IN
       file' = [u \in 0 .. n - 1 |-> IF u \in Range(t) THEN Data
                                     ELSE Resized(file, n)[u]]
    /\ loose' \subseteq loose \ Range(t)

(* A write has failed: the file is as long as it was.  A truncation that   *)
(* failed may have been done all the same.                                 *)
Fail(t) ==
    /\ call[t].stage \in {"waiting", "running"}
    /\ call' = [call EXCEPT ![t].stage = "failed"]
    /\ \/ call[t].stage = "waiting" /\ UNCHANGED file
       \/ call[t].stage = "running" /\ file' = Resized(file, call[t].was)
       \/ /\ call[t].stage = "running" /\ call[t].op = "resize"
          /\ file' = Resized(file, call[t].end)
    /\ loose' \subseteq loose

(* A truncation, or a write that is going to fail, first cuts the file. *)
Cut(t) ==
    /\ call[t].stage = "running"
    /\ LET n == IF call[t].op = "resize" THEN call[t].end ELSE call[t].was IN
       /\ n < Size(file)
       /\ file' = Resized(file, n)
    /\ loose' \subseteq loose
    /\ UNCHANGED call

(* A truncation: all at once, and a longer file continues with zeros. *)
Resize(t) ==
    /\ call[t].stage = "running" /\ call[t].op = "resize"
    /\ call' = [call EXCEPT ![t].stage = "ok"]
    /\ file' = Resized(file, call[t].end)
    /\ loose' \subseteq loose

Sync(t) ==
    /\ call[t].stage = "waiting" /\ call[t].op = "sync"
    /\ call' = [call EXCEPT ![t].stage = "ok"]
    /\ UNCHANGED <<file, loose>>

Return(t) ==
    /\ call[t].stage \in {"ok", "failed"}
    /\ call' = [call EXCEPT ![t] = Idle]
    /\ UNCHANGED <<file, loose>>

(* A store into a mapping of the file. *)
Store ==
    /\ \E u \in DOMAIN file : file' = [file EXCEPT ![u] = Data]
    /\ loose' \subseteq loose
    /\ UNCHANGED call

(* Loose units are taken back. *)
Settle ==
    /\ loose' \subseteq loose
    /\ DOMAIN file' = DOMAIN file
    /\ \A u \in DOMAIN file : file'[u] # file[u] => u \in loose /\ file'[u] = Zero
    /\ UNCHANGED call

FileNext ==
    \/ \E t \in Threads : \/ Invoke(t) \/ Begin(t) \/ Put(t) \/ Shorten(t)
                          \/ Complete(t) \/ Fail(t) \/ Cut(t) \/ Resize(t)
                          \/ Sync(t) \/ Return(t)
    \/ Store
    \/ Settle

FileSpec == FileInit /\ [][FileNext]_fvars
=============================================================================
