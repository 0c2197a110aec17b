---------------------------- MODULE VolumeTables ----------------------------
(***************************************************************************)
(* The tables that all volumes share are there exactly as long as some     *)
(* volume uses them, for every number of volumes, every disk and every     *)
(* failure but one.                                                        *)
(*                                                                         *)
(* Whether a volume has a reference on the default upcase table, a         *)
(* temporary one, and one on the compression buffer is told from its       *)
(* ntfs_volume r and its place l.  A step changes this for one volume, and *)
(* the counts by as much.                                                  *)
(***************************************************************************)
EXTENDS VolumeProofs

INSTANCE FiniteSetTheorems

Ref(r) == r.upcase = "default"
Tmp(l) == l \in Loading
Com(r, l) == r.comp /\ l \notin Early /\ ~(l = "u_start" /\ ~r.mft)
Num(b) == IF b THEN 1 ELSE 0

Refs == {v \in Volumes : vol[v].upcase = "default"}
Tmps == {v \in Volumes : pc[v] \in Loading}
Coms == {v \in Volumes : Compresses(v)}

\* Until ntfs_mount() has looked at the size of the clusters, the volume has
\* NVolCompressionEnabled() set and does not count as a user yet.
EarlyComp == \A v \in Volumes : pc[v] \in Early => vol[v].comp

SInv == IInv /\ EarlyComp /\ SharedTables

Steps(v, q, l) == vol' = [vol EXCEPT ![v] = q] /\ pc' = [pc EXCEPT ![v] = l]

\* Two sets of volumes that differ in v at most.
LEMMA CountStep ==
    ASSUME NEW S \in SUBSET Volumes, NEW T \in SUBSET Volumes, NEW v \in Volumes,
           S \ {v} = T \ {v}
    PROVE  /\ Cardinality(S) \in Nat /\ Cardinality(T) \in Nat
           /\ Cardinality(T) = Cardinality(S) + Num(v \in T) - Num(v \in S)
<1>1. IsFiniteSet(S) /\ IsFiniteSet(T)
  BY WorkloadAssumption, FS_Subset, ZenonT(60)
<1>2. Cardinality(S) \in Nat /\ Cardinality(T) \in Nat
  BY <1>1, FS_CardinalityType, ZenonT(60)
<1>3. Cardinality(S \ {v}) = IF v \in S THEN Cardinality(S) - 1 ELSE Cardinality(S)
  BY <1>1, FS_RemoveElement, ZenonT(60)
<1>4. Cardinality(T \ {v}) = IF v \in T THEN Cardinality(T) - 1 ELSE Cardinality(T)
  BY <1>1, FS_RemoveElement, ZenonT(60)
<1>5. PICK c : c = Cardinality(S \ {v})
  BY Zenon
<1>6. /\ c = IF v \in S THEN Cardinality(S) - 1 ELSE Cardinality(S)
      /\ c = IF v \in T THEN Cardinality(T) - 1 ELSE Cardinality(T)
  BY <1>3, <1>4, <1>5, ZenonT(60)
<1>7. PICK m \in Nat, n \in Nat : m = Cardinality(S) /\ n = Cardinality(T)
  BY <1>2, ZenonT(60)
<1>8. n = m + Num(v \in T) - Num(v \in S)
  <2>1. PICK a, b : a = Num(v \in S) /\ b = Num(v \in T)
    BY ZenonT(60)
  <2>2. a \in {0, 1} /\ b \in {0, 1} /\ m - 0 = m /\ n - 0 = n
    BY <2>1, SMTT(60) DEF Num
  <2>3. c = m - a /\ c = n - b
    BY <1>6, <1>7, <2>1, <2>2, ZenonT(60) DEF Num
  <2>4. n = m + b - a
    BY <2>2, <2>3, SMTT(60)
  <2> QED
    BY <2>1, <2>4, ZenonT(60)
<1> QED
  BY <1>2, <1>7, <1>8, ZenonT(60)

\* What becomes of the three sets.
LEMMA SetsStep ==
    ASSUME Types, NEW v \in Volumes, NEW q, NEW l, Steps(v, q, l)
    PROVE  /\ Refs' \ {v} = Refs \ {v} /\ (v \in Refs' <=> Ref(q)) /\ (v \in Refs <=> Ref(vol[v]))
           /\ Tmps' \ {v} = Tmps \ {v} /\ (v \in Tmps' <=> Tmp(l)) /\ (v \in Tmps <=> Tmp(pc[v]))
           /\ Coms' \ {v} = Coms \ {v} /\ (v \in Coms' <=> Com(q, l))
           /\ (v \in Coms <=> Com(vol[v], pc[v]))
<1>1. vol'[v] = q /\ pc'[v] = l
  BY ZenonT(60) DEF Types, Steps
<1>2. \A u \in Volumes : u # v => vol'[u] = vol[u] /\ pc'[u] = pc[u]
  BY ZenonT(60) DEF Types, Steps
<1>3. Refs' \ {v} = Refs \ {v} /\ (v \in Refs' <=> Ref(q)) /\ (v \in Refs <=> Ref(vol[v]))
  BY <1>1, <1>2, ZenonT(60) DEF Refs, Ref
<1>4. Tmps' \ {v} = Tmps \ {v} /\ (v \in Tmps' <=> Tmp(l)) /\ (v \in Tmps <=> Tmp(pc[v]))
  BY <1>1, <1>2, ZenonT(60) DEF Tmps, Tmp
<1>5. /\ Coms' \ {v} = Coms \ {v} /\ (v \in Coms' <=> Com(q, l))
      /\ (v \in Coms <=> Com(vol[v], pc[v]))
  BY <1>1, <1>2, ZenonT(60) DEF Coms, Com, Compresses, Early
<1> QED
  BY <1>3, <1>4, <1>5, ZenonT(60)

\* The counts follow.
LEMMA CountsInv ==
    ASSUME SInv, NEW v \in Volumes, NEW q, NEW l, Steps(v, q, l), l \in Early => q.comp,
           upcaseUsers' = upcaseUsers + Num(Ref(q)) - Num(Ref(vol[v]))
                                      + Num(Tmp(l)) - Num(Tmp(pc[v])),
           compUsers' = compUsers + Num(Com(q, l)) - Num(Com(vol[v], pc[v]))
    PROVE  /\ upcaseUsers' \in Nat /\ compUsers' \in Nat /\ EarlyComp'
           /\ (upcase' <=> upcaseUsers' > 0) /\ (comp' <=> compUsers' > 0)
                => SharedTables'
<1>1. Types
  BY ZenonT(60) DEF SInv, IInv
<1>2. EarlyComp'
  BY <1>1, ZenonT(60) DEF SInv, EarlyComp, Types, Steps
<1>3. /\ Refs \in SUBSET Volumes /\ Tmps \in SUBSET Volumes /\ Coms \in SUBSET Volumes
      /\ Refs' \in SUBSET Volumes /\ Tmps' \in SUBSET Volumes /\ Coms' \in SUBSET Volumes
  BY Zenon DEF Refs, Tmps, Coms
<1>4. /\ Cardinality(Refs) \in Nat /\ Cardinality(Refs') \in Nat
      /\ Cardinality(Refs') = Cardinality(Refs) + Num(Ref(q)) - Num(Ref(vol[v]))
  <2>1. Num(v \in Refs') = Num(Ref(q)) /\ Num(v \in Refs) = Num(Ref(vol[v]))
    BY <1>1, SetsStep, ZenonT(60) DEF Num
  <2>2. Refs' \ {v} = Refs \ {v}
    BY <1>1, SetsStep, ZenonT(60)
  <2>3. PICK A \in SUBSET Volumes, B \in SUBSET Volumes : A = Refs /\ B = Refs'
    BY <1>3, ZenonT(60)
  <2>4. A \ {v} = B \ {v}
    BY <2>2, <2>3, ZenonT(60)
  <2>5. Cardinality(A) \in Nat /\ Cardinality(B) \in Nat
        /\ Cardinality(B) = Cardinality(A) + Num(v \in B) - Num(v \in A)
    BY <2>4, CountStep, ZenonT(60)
  <2> QED
    BY <2>1, <2>3, <2>5, ZenonT(60)
<1>5. /\ Cardinality(Tmps) \in Nat /\ Cardinality(Tmps') \in Nat
      /\ Cardinality(Tmps') = Cardinality(Tmps) + Num(Tmp(l)) - Num(Tmp(pc[v]))
  <2>1. Num(v \in Tmps') = Num(Tmp(l)) /\ Num(v \in Tmps) = Num(Tmp(pc[v]))
    BY <1>1, SetsStep, ZenonT(60) DEF Num
  <2>2. Tmps' \ {v} = Tmps \ {v}
    BY <1>1, SetsStep, ZenonT(60)
  <2>3. PICK A \in SUBSET Volumes, B \in SUBSET Volumes : A = Tmps /\ B = Tmps'
    BY <1>3, ZenonT(60)
  <2>4. A \ {v} = B \ {v}
    BY <2>2, <2>3, Zenon
  <2>5. Cardinality(A) \in Nat /\ Cardinality(B) \in Nat
        /\ Cardinality(B) = Cardinality(A) + Num(v \in B) - Num(v \in A)
    BY <2>4, CountStep, Zenon
  <2> QED
    BY <2>1, <2>3, <2>5, ZenonT(60)
<1>6. /\ Cardinality(Coms) \in Nat /\ Cardinality(Coms') \in Nat
      /\ Cardinality(Coms') = Cardinality(Coms) + Num(Com(q, l)) - Num(Com(vol[v], pc[v]))
  <2>1. Num(v \in Coms') = Num(Com(q, l)) /\ Num(v \in Coms) = Num(Com(vol[v], pc[v]))
    BY <1>1, SetsStep, ZenonT(60) DEF Num
  <2>2. Coms' \ {v} = Coms \ {v}
    BY <1>1, SetsStep, ZenonT(60)
  <2>3. PICK A \in SUBSET Volumes, B \in SUBSET Volumes : A = Coms /\ B = Coms'
    BY <1>3, ZenonT(60)
  <2>4. A \ {v} = B \ {v}
    BY <2>2, <2>3, Zenon
  <2>5. Cardinality(A) \in Nat /\ Cardinality(B) \in Nat
        /\ Cardinality(B) = Cardinality(A) + Num(v \in B) - Num(v \in A)
    BY <2>4, CountStep, Zenon
  <2> QED
    BY <2>1, <2>3, <2>5, ZenonT(60)
<1>7. upcaseUsers = Cardinality(Refs) + Cardinality(Tmps) /\ compUsers = Cardinality(Coms)
  BY Zenon DEF SInv, SharedTables, UpcaseRefs, Refs, Tmps, Coms
<1>8. \A b : Num(b) \in {0, 1}
  BY ZenonT(60) DEF Num
<1>9. upcaseUsers' = Cardinality(Refs') + Cardinality(Tmps')
  BY <1>4, <1>5, <1>7, <1>8, SMTT(60)
<1>10. compUsers' = Cardinality(Coms')
  BY <1>6, <1>7, <1>8, ZenonT(60)
<1>11. upcaseUsers' \in Nat /\ compUsers' \in Nat
  BY <1>4, <1>5, <1>6, <1>9, <1>10, SMTT(60)
<1> QED
  BY <1>2, <1>9, <1>10, <1>11, ZenonT(60) DEF SharedTables, UpcaseRefs, Refs,
     Tmps, Coms

\* The counts are numbers, and the tables are there if they are not 0.
LEMMA UsersCounted ==
    ASSUME SInv
    PROVE  /\ upcaseUsers \in Nat /\ compUsers \in Nat
           /\ (upcase <=> upcaseUsers > 0) /\ (comp <=> compUsers > 0)
<1>1. Refs \in SUBSET Volumes /\ Tmps \in SUBSET Volumes /\ Coms \in SUBSET Volumes
  BY Zenon DEF Refs, Tmps, Coms
<1>2. Cardinality(Refs) \in Nat /\ Cardinality(Tmps) \in Nat /\ Cardinality(Coms) \in Nat
  BY <1>1, WorkloadAssumption, FS_Subset, FS_CardinalityType, ZenonT(60)
<1>3. upcaseUsers = Cardinality(Refs) + Cardinality(Tmps) /\ compUsers = Cardinality(Coms)
  BY ZenonT(60) DEF SInv, SharedTables, UpcaseRefs, Refs, Tmps, Coms
<1>4. upcaseUsers \in Nat /\ compUsers \in Nat
  BY <1>2, <1>3, SMTT(60)
<1> QED
  BY <1>4, ZenonT(60) DEF SInv, SharedTables

\* A step that changes no reference.
Calm(v) ==
    /\ UNCHANGED tables
    /\ \E q, l : /\ Steps(v, q, l) /\ (l \in Early => q.comp)
                 /\ Ref(q) <=> Ref(vol[v])
                 /\ Tmp(l) <=> Tmp(pc[v])
                 /\ Com(q, l) <=> Com(vol[v], pc[v])

\* It keeps the counts exact.
LEMMA CalmInv ==
    ASSUME SInv, NEW v \in Volumes, Calm(v) PROVE EarlyComp' /\ SharedTables'
<1>1. PICK q, l : /\ Steps(v, q, l) /\ (l \in Early => q.comp)
                  /\ Ref(q) <=> Ref(vol[v])
                  /\ Tmp(l) <=> Tmp(pc[v])
                  /\ Com(q, l) <=> Com(vol[v], pc[v])
  BY ZenonT(60) DEF Calm
<1>2. /\ Num(Ref(q)) = Num(Ref(vol[v])) /\ Num(Tmp(l)) = Num(Tmp(pc[v]))
      /\ Num(Com(q, l)) = Num(Com(vol[v], pc[v]))
  BY <1>1, ZenonT(60) DEF Num
<1>3. upcaseUsers \in Nat /\ compUsers \in Nat
  BY UsersCounted, ZenonT(60)
<1>4. \A b : Num(b) \in Nat
  BY ZenonT(60) DEF Num
<1>5. /\ upcaseUsers = upcaseUsers + Num(Ref(q)) - Num(Ref(vol[v]))
                                   + Num(Tmp(l)) - Num(Tmp(pc[v]))
      /\ compUsers = compUsers + Num(Com(q, l)) - Num(Com(vol[v], pc[v]))
  BY <1>2, <1>3, <1>4, SMTT(60)
<1>6. /\ upcaseUsers' = upcaseUsers /\ compUsers' = compUsers
      /\ upcase' = upcase /\ comp' = comp
  BY ZenonT(60) DEF Calm, tables
<1>7. (upcase <=> upcaseUsers > 0) /\ (comp <=> compUsers > 0)
  BY UsersCounted, ZenonT(60)
<1> QED
  BY <1>1, <1>5, <1>6, <1>7, CountsInv, ZenonT(60)

\* The step leaves the tables of v and $MFT as they are.
Kept(v) ==
    \E q : /\ vol' = [vol EXCEPT ![v] = q]
           /\ q.upcase = vol[v].upcase /\ q.comp = vol[v].comp /\ q.mft = vol[v].mft

\* An ntfs_volume that is not changed, and one whose other fields are.
LEMMA KeptSame ==
    ASSUME SInv, NEW v \in Volumes, UNCHANGED vol PROVE Kept(v)
BY AllSame, ZenonT(60) DEF Kept, SInv, IInv

\* Changing the other fields of an ntfs_volume leaves those three alone.
Alters(r, q, b) ==
    \/ q = [r EXCEPT !.root = b] \/ q = [r EXCEPT !.volni = b]
    \/ q = [r EXCEPT !.errors = b] \/ q = [r EXCEPT !.dirty = b]
    \/ q = [r EXCEPT !.logEmpty = b] \/ q = [r EXCEPT !.ro = b]

\* They keep their values.
LEMMA OtherFields ==
    ASSUME NEW r \in Vols, NEW q, NEW b, Alters(r, q, b)
    PROVE  q.upcase = r.upcase /\ q.comp = r.comp /\ q.mft = r.mft
BY DEF Vols, Alters

\* So does the step that makes the change.
LEMMA KeptPut ==
    ASSUME SInv, NEW v \in Volumes, NEW q, NEW b, Set(v, q),
           Alters(vol[v], q, b)
    PROVE  Kept(v)
<1>1. PICK r \in Vols : r = vol[v]
  BY Here, ZenonT(60) DEF SInv, Typed
<1>2. q.upcase = r.upcase /\ q.comp = r.comp /\ q.mft = r.mft
  BY <1>1, OtherFields, ZenonT(60)
<1> QED
  BY <1>1, <1>2, ZenonT(60) DEF Kept, Set

\* ntfs_volume_flags_set() and ntfs_volume_flags_clear().
LEMMA KeptFlags ==
    ASSUME SInv, NEW v \in Volumes, NEW d, ntfs_volume_flags_write(v, d) PROVE Kept(v)
BY KeptPut, ZenonT(60) DEF ntfs_volume_flags_write, Alters

\* Files are reclaimed.
LEMMA KeptFiles ==
    ASSUME SInv, NEW v \in Volumes, ReclaimFiles(v) PROVE Kept(v)
BY KeptSame, KeptPut, ZenonT(60) DEF ReclaimFiles, Alters

\* The step stays where it is.
LEMMA StayCalm ==
    ASSUME SInv, NEW v \in Volumes, Kept(v), UNCHANGED <<pc, tables>> PROVE Calm(v)
<1>1. PICK q : /\ vol' = [vol EXCEPT ![v] = q]
               /\ q.upcase = vol[v].upcase /\ q.comp = vol[v].comp /\ q.mft = vol[v].mft
  BY ZenonT(60) DEF Kept
<1>2. Steps(v, q, pc[v]) /\ (pc[v] \in Early => q.comp)
  BY <1>1, AllSame, ZenonT(60) DEF SInv, IInv, EarlyComp, Steps
<1> QED
  BY <1>1, <1>2, ZenonT(60) DEF Calm, Ref, Tmp, Com

\* It goes on loading the system inodes.
LEMMA LoadingCalm ==
    ASSUME SInv, NEW v \in Volumes, Kept(v), UNCHANGED tables, pc[v] \in Loading,
           NEW l \in Loading, pc' = [pc EXCEPT ![v] = l]
    PROVE  Calm(v)
<1>1. PICK q : /\ vol' = [vol EXCEPT ![v] = q]
               /\ q.upcase = vol[v].upcase /\ q.comp = vol[v].comp /\ q.mft = vol[v].mft
  BY ZenonT(60) DEF Kept
<1>2. l \notin Early \cup {"u_start"} /\ pc[v] \notin Early \cup {"u_start"}
  BY ZenonT(60) DEF Loading, Early
<1> QED
  BY <1>1, <1>2, ZenonT(60) DEF Calm, Ref, Tmp, Com, Steps

\* It is about a volume that is mounted, or being unmounted.
LEMMA OffCalm ==
    ASSUME SInv, NEW v \in Volumes, Kept(v), UNCHANGED tables,
           pc[v] \notin Early \cup Loading, NEW l, l \notin Early \cup Loading,
           vol[v].mft \/ (pc[v] # "u_start" /\ l # "u_start"),
           pc' = [pc EXCEPT ![v] = l]
    PROVE  Calm(v)
<1>1. PICK q : /\ vol' = [vol EXCEPT ![v] = q]
               /\ q.upcase = vol[v].upcase /\ q.comp = vol[v].comp /\ q.mft = vol[v].mft
  BY ZenonT(60) DEF Kept
<1> QED
  BY <1>1, ZenonT(60) DEF Calm, Ref, Tmp, Com, Steps

\* It is at the beginning of a mount.
LEMMA EarlyCalm ==
    ASSUME SInv, NEW v \in Volumes, NEW q, NEW l, Steps(v, q, l), UNCHANGED tables,
           pc[v] \in Early, q.upcase = vol[v].upcase,
           (l \in Early /\ q.comp) \/ (l = "u_start" /\ (~q.mft \/ ~q.comp))
    PROVE  Calm(v)
<1>1. l \notin Loading /\ pc[v] \notin Loading /\ "u_start" \notin Early
  BY ZenonT(60) DEF Loading, Early
<1> QED
  BY <1>1, ZenonT(60) DEF Calm, Ref, Tmp, Com

\* How most problems are dealt with.
LEMMA ProblemCalm ==
    ASSUME SInv, NEW v \in Volumes, NEW r \in Vols, NEW l \in Loading,
           pc[v] \in Loading,
           r.upcase = vol[v].upcase, r.comp = vol[v].comp, r.mft = vol[v].mft,
           Problem(v, r, l), UNCHANGED tables
    PROVE  Calm(v)
<1>1. CASE Set(v, r) /\ SystemFails(v)
  <2>1. Kept(v)
    BY <1>1, ZenonT(60) DEF Kept, Set
  <2>2. "drop" \in Loading /\ pc' = [pc EXCEPT ![v] = "drop"]
    BY <1>1, ZenonT(60) DEF SystemFails, Loading
  <2> QED
    BY <2>1, <2>2, LoadingCalm, ZenonT(60)
<1>2. CASE Set(v, [r EXCEPT !.errors = TRUE]) /\ Goto(v, l)
  <2>1. PICK q : q = [r EXCEPT !.errors = TRUE]
    BY ZenonT(60)
  <2>2. q.upcase = r.upcase /\ q.comp = r.comp /\ q.mft = r.mft
    BY <2>1, OtherFields, ZenonT(60) DEF Alters
  <2>3. Kept(v)
    BY <1>2, <2>1, <2>2, ZenonT(60) DEF Kept, Set
  <2> QED
    BY <1>2, <2>3, LoadingCalm, ZenonT(60) DEF Goto
<1> QED
  BY <1>1, <1>2, ZenonT(60) DEF Problem

\* ntfs_system_inodes_get() but for the upcase table.
LEMMA SystemCalm ==
    ASSUME SInv, NEW v \in Volumes,
           \/ LoadRoot(v) \/ LoadMirror(v) \/ LoadVolume(v) \/ CheckLog(v)
           \/ CheckHibernation(v) \/ MarkDirty(v) \/ ntfs_logfile_empty(v)
           \/ LoadExtended(v) \/ Stamp(v)
    PROVE  Calm(v)
<1>0. {"root", "mirror", "upcase", "volume", "log", "hibernation", "dirty",
       "empty", "extend", "stamp", "drop"} = Loading
  BY PlaceNames, ZenonT(60)
<1>11. vol[v] \in Vols
  BY Here, ZenonT(60) DEF SInv, Typed
<1>1. ASSUME UNCHANGED <<vol, tables>>, pc[v] \in Loading,
             SystemFails(v) \/ \E l \in Loading : Goto(v, l)
      PROVE  Calm(v)
  <2>1. Kept(v)
    BY <1>1, KeptSame, ZenonT(60)
  <2>2. \E l \in Loading : pc' = [pc EXCEPT ![v] = l]
    BY <1>0, <1>1, ZenonT(60) DEF SystemFails, Goto
  <2> QED
    BY <1>1, <2>1, <2>2, LoadingCalm, ZenonT(60)
<1>2. CASE LoadRoot(v)
  <2>1. pc[v] \in Loading /\ "mirror" \in Loading /\ UNCHANGED tables
    BY <1>0, <1>2, ZenonT(60) DEF LoadRoot, At
  <2>2. CASE Set(v, [vol[v] EXCEPT !.root = TRUE]) /\ Goto(v, "mirror")
    BY <2>1, <2>2, KeptPut, LoadingCalm, ZenonT(60) DEF Goto, Alters
  <2> QED
    BY <1>1, <1>2, <2>1, <2>2, ZenonT(60) DEF LoadRoot
<1>3. CASE LoadMirror(v)
  <2>1. pc[v] \in Loading /\ "upcase" \in Loading /\ UNCHANGED tables
    BY <1>0, <1>3, ZenonT(60) DEF LoadMirror, At
  <2> QED
    BY <1>1, <1>3, <1>11, <2>1, ProblemCalm, ZenonT(60) DEF LoadMirror
<1>4. CASE LoadVolume(v)
  <2>1. /\ pc[v] \in Loading /\ "log" \in Loading /\ "drop" \in Loading
        /\ UNCHANGED tables
    BY <1>0, <1>4, ZenonT(60) DEF LoadVolume, At
  <2>2. Kept(v)
    <3>1. PICK x \in Vols, c \in BOOLEAN, f \in BOOLEAN :
                x = vol[v] /\ c = disk[v].dirty /\ f = disk[v].rofl
      BY Here, ZenonT(60) DEF SInv, Typed, Contents
    <3>2. PICK r : r = [x EXCEPT !.volni = TRUE, !.dirty = c, !.rofl = f]
      BY Zenon
    <3>3. r \in Vols /\ r.upcase = x.upcase /\ r.comp = x.comp /\ r.mft = x.mft
      <4>1. r \in Vols /\ Keeps(x, r, {"volni", "dirty"})
        BY <3>2, PutFlags, ZenonT(60)
      <4> QED
        BY <4>1, ZenonT(60) DEF Keeps
    <3>4. Set(v, [r EXCEPT !.errors = @ \/ r.dirty]) \/ Set(v, r) \/ Set(v, x)
      BY <1>4, <3>1, <3>2, ZenonT(60) DEF LoadVolume
    <3>5. CASE Set(v, [r EXCEPT !.errors = @ \/ r.dirty])
      <4>1. PICK b, q : b = (r.errors \/ r.dirty) /\ q = [r EXCEPT !.errors = b] /\ Set(v, q)
        BY <3>5, ZenonT(60)
      <4>2. q.upcase = r.upcase /\ q.comp = r.comp /\ q.mft = r.mft
        BY <3>3, <4>1, OtherFields, ZenonT(60) DEF Alters
      <4> QED
        BY <3>1, <3>3, <4>1, <4>2, ZenonT(60) DEF Kept, Set
    <3> QED
      BY <3>1, <3>3, <3>4, <3>5, ZenonT(60) DEF Kept, Set
  <2>3. \E l \in Loading : pc' = [pc EXCEPT ![v] = l]
    BY <1>4, <2>1, ZenonT(60) DEF LoadVolume, SystemFails, Goto
  <2> QED
    BY <2>1, <2>2, <2>3, LoadingCalm, ZenonT(60)
<1>5. CASE CheckLog(v)
  <2>1. pc[v] \in Loading /\ "hibernation" \in Loading /\ UNCHANGED tables
    BY <1>0, <1>5, ZenonT(60) DEF CheckLog, At
  <2>2. PICK x \in Vols, b \in LogEmpties : x = vol[v] /\ b = LogScan(disk[v].log).empty
    BY Here, ZenonT(60) DEF SInv, Typed, Contents, LogEmpties
  <2>3. PICK r : r = [x EXCEPT !.logEmpty = b]
    BY ZenonT(60)
  <2>4. /\ r \in Vols /\ x \in Vols
        /\ r.upcase = vol[v].upcase /\ r.comp = vol[v].comp /\ r.mft = vol[v].mft
    <3>1. r \in Vols /\ Keeps(x, r, {"logEmpty"})
      BY <2>3, PutLogEmpty, ZenonT(60)
    <3> QED
      BY <2>2, <3>1, ZenonT(60) DEF Keeps
  <2>5. \/ Set(v, r) /\ Goto(v, "hibernation")
        \/ Problem(v, r, "hibernation") \/ Problem(v, x, "hibernation")
    BY <1>5, <2>2, <2>3, ZenonT(60) DEF CheckLog
  <2>6. CASE Set(v, r) /\ Goto(v, "hibernation")
    BY <2>1, <2>2, <2>3, <2>6, KeptPut, LoadingCalm, ZenonT(60) DEF Goto,
       Alters
  <2> QED
    BY <2>1, <2>2, <2>4, <2>5, <2>6, ProblemCalm, ZenonT(60)
<1>6. CASE CheckHibernation(v)
  <2>1. pc[v] \in Loading /\ "dirty" \in Loading /\ UNCHANGED tables
    BY <1>0, <1>6, ZenonT(60) DEF CheckHibernation, At
  <2> QED
    BY <1>1, <1>6, <1>11, <2>1, ProblemCalm, ZenonT(60) DEF CheckHibernation
<1>7. CASE MarkDirty(v)
  <2>1. pc[v] \in Loading /\ "empty" \in Loading /\ UNCHANGED tables
    BY <1>0, <1>7, ZenonT(60) DEF MarkDirty, At
  <2>2. CASE ntfs_volume_flags_write(v, TRUE) /\ Goto(v, "empty")
    BY <2>1, <2>2, KeptFlags, LoadingCalm, ZenonT(60) DEF Goto
  <2> QED
    BY <1>1, <1>7, <2>1, <2>2, ZenonT(60) DEF MarkDirty
<1>8. CASE ntfs_logfile_empty(v)
  <2>1. pc[v] \in Loading /\ "extend" \in Loading /\ UNCHANGED tables
    BY <1>0, <1>8, ZenonT(60) DEF ntfs_logfile_empty, At
  <2>2. CASE Set(v, [vol[v] EXCEPT !.logEmpty = TRUE]) /\ Goto(v, "extend")
    BY <2>1, <2>2, KeptPut, LoadingCalm, ZenonT(60) DEF Goto, Alters
  <2> QED
    BY <1>1, <1>8, <2>1, <2>2, ZenonT(60) DEF ntfs_logfile_empty
<1>9. CASE LoadExtended(v)
  <2>1. /\ pc[v] \in Loading /\ "stamp" \in Loading /\ "drop" \in Loading
        /\ UNCHANGED tables
    BY <1>0, <1>9, ZenonT(60) DEF LoadExtended, At
  <2> QED
    BY <1>1, <1>9, <1>11, <2>1, ProblemCalm, ZenonT(60) DEF LoadExtended
<1>10. CASE Stamp(v)
  <2>1. pc[v] \in Loading /\ "drop" \in Loading /\ UNCHANGED <<vol, tables>>
    BY <1>0, <1>10, ZenonT(60) DEF Stamp, At
  <2> QED
    BY <1>1, <1>10, <2>1, ZenonT(60) DEF Stamp
<1> QED
  BY <1>2, <1>3, <1>4, <1>5, <1>6, <1>7, <1>8, <1>9, <1>10, ZenonT(60)

\* The beginning of a mount, if $MFT fails before its first extent is loaded
\* or not at all.
LEMMA StartCalm ==
    ASSUME MftFailsEarly, SInv, NEW v \in Volumes,
           MountStart(v) \/ ntfs_boot_sector_read(v) \/ ntfs_mft_inode_get(v)
    PROVE  Calm(v)
<1>0. Types /\ Is(v, pc[v]) /\ vol[v] \in Vols
  BY Here, ZenonT(60) DEF SInv, Typed
<1>1. CASE MountStart(v)
  <2>1. UNCHANGED tables /\ pc[v] = "idle" /\ vol[v].upcase = "none" /\ ~vol[v].comp
    BY <1>0, <1>1, ZenonT(60) DEF MountStart, At, Is, Good, Life
  <2>2. CASE UNCHANGED <<vol, pc>>
    BY <2>1, <2>2, KeptSame, StayCalm, ZenonT(60)
  <2>3. CASE ~UNCHANGED <<vol, pc>>
    <3>1. PICK b \in BOOLEAN :
            Steps(v, [NoVol EXCEPT !.live = TRUE, !.mp = TRUE, !.comp = TRUE, !.ro = b], "boot")
      BY <1>1, <2>3, ZenonT(60) DEF MountStart, Set, Steps
    <3>2. PICK q : q = [NoVol EXCEPT !.live = TRUE, !.mp = TRUE, !.comp = TRUE, !.ro = b]
      BY ZenonT(60)
    <3>3. q.upcase = "none" /\ q.comp
      BY <3>2, ZenonT(60) DEF NoVol
    <3>4. "boot" \in Early /\ "boot" \notin Loading /\ "idle" \notin Loading
      BY ZenonT(60) DEF Early, Loading
    <3> QED
      BY <2>1, <3>1, <3>2, <3>3, <3>4, ZenonT(60) DEF Calm, Ref, Tmp, Com
  <2> QED
    BY <2>2, <2>3, ZenonT(60)
<1>2. CASE ntfs_boot_sector_read(v)
  <2>1. /\ pc[v] \in Early /\ "mft" \in Early /\ vol[v].comp /\ ~vol[v].mft
        /\ UNCHANGED <<vol, tables>>
    BY <1>0, <1>2, ZenonT(60) DEF ntfs_boot_sector_read, At, Early, SInv,
       EarlyComp, Is, Good, Loaded
  <2>2. \E l \in {"mft", "u_start"} : Steps(v, vol[v], l)
    BY <1>0, <1>2, AllSame, ZenonT(60) DEF ntfs_boot_sector_read, Steps, Goto,
       FailMount
  <2> QED
    BY <2>1, <2>2, EarlyCalm, ZenonT(60)
<1>3. CASE ntfs_mft_inode_get(v)
  <2>1. pc[v] \in Early /\ "tables" \in Early /\ vol[v].comp /\ UNCHANGED tables
    BY <1>0, <1>3, ZenonT(60) DEF ntfs_mft_inode_get, At, Early, SInv,
       EarlyComp
  <2>2. load \in Workloads /\ load.mftFails \subseteq BOOLEAN
    BY <1>0, WorkloadAssumption, ZenonT(60) DEF Types
  <2>3. \A late \in load.mftFails : late = FALSE
    BY <2>2, ZenonT(60) DEF MftFailsEarly
  <2>4. PICK b \in BOOLEAN, l \in {"tables", "u_start"} :
            /\ Steps(v, [vol[v] EXCEPT !.mft = b], l)
            /\ l = "tables" \/ (l = "u_start" /\ b = FALSE)
    BY <1>3, <2>3, ZenonT(60) DEF ntfs_mft_inode_get, Set, Goto, FailMount,
       Steps
  <2>5. PICK q : q = [vol[v] EXCEPT !.mft = b]
    BY Zenon
  <2>6. Keeps(vol[v], q, {"mft"}) /\ q.mft = b
    BY <1>0, <2>4, <2>5, PutMft, ZenonT(60)
  <2>7. q.upcase = vol[v].upcase /\ q.comp = vol[v].comp
    BY <2>6, ZenonT(60) DEF Keeps
  <2> QED
    BY <2>1, <2>4, <2>5, <2>6, <2>7, EarlyCalm, ZenonT(60)
<1> QED
  BY <1>1, <1>2, <1>3, ZenonT(60)

\* Places where no table is waited for.
LEMMA OffPlaces ==
    {"idle", "count", "r_sync", "r_clear", "r_flush", "u_sync", "u_start", "u_clear",
     "u_volume", "u_rest", "u_mft", "u_final"} \cap (Early \cup Loading) = {}
BY ZenonT(60) DEF Early, Loading

\* A mounted volume has its system inodes.
LEMMA MountedHasMft ==
    ASSUME SInv, NEW v \in Volumes,
           pc[v] = "count" \/ (v \in mounted /\ pc[v] \in {"idle", "u_sync", "u_start"})
    PROVE  vol[v].mft
BY Here, ZenonT(60) DEF SInv, Is, Good, Loaded

\* The end of a mount, and unmounting, but for the end of it.
LEMMA UnmountCalm ==
    ASSUME SInv, NEW v \in Volumes,
           \/ CountFree(v) \/ Unmount(v) \/ UnmountSync(v) \/ UnmountBusy(v)
           \/ UnmountFlush(v) \/ UnmountClear(v) \/ UnmountVolume(v) \/ UnmountRest(v)
    PROVE  Calm(v)
<1>1. CASE CountFree(v)
  <2>1. pc[v] = "count" /\ Kept(v) /\ UNCHANGED tables
    BY <1>1, KeptSame, ZenonT(60) DEF CountFree, At
  <2>2. \E l \in {"idle", "u_start"} : pc' = [pc EXCEPT ![v] = l]
    BY <1>1, ZenonT(60) DEF CountFree, Idle, FailMount
  <2> QED
    BY <2>1, <2>2, MountedHasMft, OffPlaces, OffCalm, ZenonT(60)
<1>2. CASE Unmount(v)
  <2>1. v \in mounted /\ pc[v] = "idle" /\ Kept(v) /\ UNCHANGED tables
    BY <1>2, KeptSame, ZenonT(60) DEF Unmount, At
  <2>2. \E l \in {"u_sync", "u_start"} : pc' = [pc EXCEPT ![v] = l]
    BY <1>2, ZenonT(60) DEF Unmount
  <2> QED
    BY <2>1, <2>2, MountedHasMft, OffPlaces, OffCalm, ZenonT(60)
<1>3. CASE UnmountSync(v)
  <2>1. pc[v] = "u_sync" /\ Kept(v) /\ UNCHANGED tables
    BY <1>3, KeptSame, ZenonT(60) DEF UnmountSync, At
  <2>2. v \in mounted
    BY <2>1, Here, ZenonT(60) DEF SInv, Is, Good, Loaded
  <2>3. \E l \in {"idle", "u_start"} : pc' = [pc EXCEPT ![v] = l]
    BY <1>3, ZenonT(60) DEF UnmountSync, Goto, Idle
  <2> QED
    BY <2>1, <2>2, <2>3, MountedHasMft, OffPlaces, OffCalm, ZenonT(60)
<1>4. CASE UnmountBusy(v) \/ UnmountFlush(v)
  <2>1. pc[v] = "u_start" /\ vol[v].root /\ Kept(v) /\ UNCHANGED tables
    BY <1>4, KeptSame, KeptFiles, ZenonT(60) DEF UnmountBusy, UnmountFlush, At
  <2>2. vol[v].mft
    BY <2>1, Here, ZenonT(60) DEF SInv, Is, Good, Loaded
  <2>3. \E l \in {"idle", "u_clear"} : pc' = [pc EXCEPT ![v] = l]
    BY <1>4, ZenonT(60) DEF UnmountBusy, UnmountFlush, Goto, Idle
  <2> QED
    BY <2>1, <2>2, <2>3, OffPlaces, OffCalm, ZenonT(60)
<1>5. CASE UnmountClear(v)
  <2>1. pc[v] = "u_clear" /\ pc' = [pc EXCEPT ![v] = "u_volume"] /\ UNCHANGED tables
    BY <1>5, ZenonT(60) DEF UnmountClear, At, Goto
  <2>2. Kept(v)
    BY <1>5, KeptSame, KeptFlags, ZenonT(60) DEF UnmountClear
  <2> QED
    BY <2>1, <2>2, OffPlaces, OffCalm, ZenonT(60)
<1>6. CASE UnmountVolume(v)
  <2>1. pc[v] = "u_volume" /\ pc' = [pc EXCEPT ![v] = "u_rest"] /\ UNCHANGED tables
    BY <1>6, ZenonT(60) DEF UnmountVolume, At, Goto
  <2>2. Kept(v)
    BY <1>6, KeptPut, ZenonT(60) DEF UnmountVolume, Alters
  <2> QED
    BY <2>1, <2>2, OffPlaces, OffCalm, ZenonT(60)
<1>7. CASE UnmountRest(v)
  <2>1. pc[v] = "u_rest" /\ pc' = [pc EXCEPT ![v] = "u_mft"] /\ UNCHANGED tables
    BY <1>7, ZenonT(60) DEF UnmountRest, At, Goto
  <2>2. Kept(v)
    BY <1>7, KeptPut, ZenonT(60) DEF UnmountRest, Alters
  <2> QED
    BY <2>1, <2>2, OffPlaces, OffCalm, ZenonT(60)
<1> QED
  BY <1>1, <1>2, <1>3, <1>4, <1>5, <1>6, <1>7, ZenonT(60)

\* A volume being unmounted loses $MFT, or its mount.
LEMMA OffSteps ==
    ASSUME NEW v, NEW q, NEW l, Steps(v, q, l), UNCHANGED tables,
           q.upcase = vol[v].upcase, q.comp = vol[v].comp,
           pc[v] \notin Early \cup Loading, l \notin Early \cup Loading,
           pc[v] = "u_start" => vol[v].mft, l # "u_start"
    PROVE  Calm(v)
<1>1. (Ref(q) <=> Ref(vol[v])) /\ (Tmp(l) <=> Tmp(pc[v])) /\ (l \in Early => q.comp)
  BY Zenon DEF Ref, Tmp
<1>2. Com(q, l) <=> q.comp
  BY ZenonT(60) DEF Com
<1>3. Com(vol[v], pc[v]) <=> vol[v].comp
  BY Zenon DEF Com
<1> QED
  BY <1>1, <1>2, <1>3, ZenonT(60) DEF Calm

\* The end of an unmount: the volume keeps its references until it is released.
LEMMA UnmountedCalm ==
    ASSUME SInv, NEW v \in Volumes,
           UnmountNoMft(v) \/ UnmountMft(v) \/ UnmountFinal(v) \/ FreeInode(v)
    PROVE  Calm(v)
<1>0. Types /\ Is(v, pc[v]) /\ vol[v] \in Vols
  BY Here, ZenonT(60) DEF SInv, Typed
<1>1. CASE UnmountNoMft(v)
  <2>1. /\ pc[v] = "u_start" /\ ~vol[v].mft /\ vol[v].upcase = "none"
        /\ Steps(v, NoVol, "idle") /\ UNCHANGED tables
    BY <1>0, <1>1, ZenonT(60) DEF UnmountNoMft, At, Is, Good, Loaded, Set,
       Unmounted, Steps
  <2>2. NoVol.upcase = "none" /\ ~NoVol.comp
    BY Zenon DEF NoVol
  <2> QED
    BY <2>1, <2>2, OffPlaces, ZenonT(60) DEF Calm, Ref, Tmp, Com
<1>2. CASE UnmountMft(v)
  <2>1. PICK q : q = [vol[v] EXCEPT !.mft = FALSE]
    BY ZenonT(60)
  <2>2. /\ pc[v] = "u_mft" \/ (pc[v] = "u_start" /\ vol[v].mft)
        /\ Steps(v, q, "u_final") /\ UNCHANGED tables
    BY <1>2, <2>1, ZenonT(60) DEF UnmountMft, At, Set, Goto, Steps
  <2>3. Keeps(vol[v], q, {"mft"})
    BY <1>0, <2>1, PutMft, ZenonT(60)
  <2>4. q.upcase = vol[v].upcase /\ q.comp = vol[v].comp
    BY <2>3, ZenonT(60) DEF Keeps
  <2> QED
    BY <2>2, <2>4, OffPlaces, OffSteps, ZenonT(60)
<1>3. CASE UnmountFinal(v)
  <2>1. PICK b \in BOOLEAN, c \in BOOLEAN : b = InodesLeft(v) /\ c = ~InodesLeft(v)
    BY Zenon DEF InodesLeft
  <2>2. PICK q : q = [vol[v] EXCEPT !.mp = FALSE, !.postponed = b, !.release = c]
    BY Zenon
  <2>3. pc[v] = "u_final" /\ Steps(v, q, "idle") /\ UNCHANGED tables
    BY <1>3, <2>1, <2>2, ZenonT(60) DEF UnmountFinal, At, Set, Unmounted, Steps
  <2>4. Keeps(vol[v], q, {"mp", "postponed", "release"})
    BY <1>0, <2>2, PutPostponed, ZenonT(60)
  <2>5. q.upcase = vol[v].upcase /\ q.comp = vol[v].comp
    BY <2>4, Zenon DEF Keeps
  <2> QED
    BY <2>3, <2>5, OffPlaces, OffSteps, ZenonT(60)
<1>4. CASE FreeInode(v)
  <2>1. UNCHANGED <<pc, tables>>
    BY <1>4, ZenonT(60) DEF FreeInode
  <2>2. CASE UNCHANGED vol
    BY <2>1, <2>2, KeptSame, StayCalm, ZenonT(60)
  <2>3. CASE Set(v, [vol[v] EXCEPT !.postponed = FALSE, !.release = TRUE])
    <3>1. PICK q : q = [vol[v] EXCEPT !.postponed = FALSE, !.release = TRUE]
      BY ZenonT(60)
    <3>2. Keeps(vol[v], q, {"postponed", "release"})
      BY <1>0, <3>1, PutRelease, ZenonT(60)
    <3>3. Kept(v)
      BY <2>3, <3>1, <3>2, ZenonT(60) DEF Keeps, Kept, Set
    <3> QED
      BY <2>1, <3>3, StayCalm, ZenonT(60)
  <2> QED
    BY <1>4, <2>2, <2>3, ZenonT(60) DEF FreeInode
<1> QED
  BY <1>1, <1>2, <1>3, <1>4, ZenonT(60)

\* Update mounts.
LEMMA RemountCalm ==
    ASSUME SInv, NEW v \in Volumes, Remount(v) \/ RemountStep(v) PROVE Calm(v)
<1>1. UNCHANGED tables /\ pc[v] \in {"idle", "r_sync", "r_clear", "r_flush"}
  BY ZenonT(60) DEF Remount, RemountStep, RemountSync, RemountClear,
     RemountFlush, At
<1>2. \E l \in {"idle", "r_sync", "r_clear", "r_flush"} : pc' = [pc EXCEPT ![v] = l]
  BY ZenonT(60) DEF Remount, RemountStep, RemountSync, RemountClear,
     RemountFlush, Goto, Idle, RemountFails, RemountReadOnly
<1>3. Kept(v)
  <2>1. CASE RemountReadOnly(v)
    BY <2>1, KeptPut, ZenonT(60) DEF RemountReadOnly, Alters
  <2>2. CASE Remount(v) \/ RemountSync(v)
    BY <2>2, KeptSame, ZenonT(60) DEF Remount, RemountSync
  <2>3. CASE RemountClear(v)
    BY <2>1, <2>3, KeptSame, KeptFlags, ZenonT(60) DEF RemountClear
  <2>4. CASE RemountFlush(v)
    BY <2>1, <2>4, KeptSame, KeptPut, ZenonT(60) DEF RemountFlush, Alters
  <2> QED
    BY <2>2, <2>3, <2>4, ZenonT(60) DEF RemountStep
<1> QED
  BY <1>1, <1>2, <1>3, OffPlaces, OffCalm, ZenonT(60)

\* What happens on a mounted volume, and chkdsk.
LEMMA UseCalm ==
    ASSUME SInv, NEW v \in Volumes,
           \/ ChangeMetadata(v) \/ NoteErrors(v) \/ Flush(v) \/ Recycle(v)
           \/ ntfs_sync(v) \/ Chkdsk(v)
    PROVE  Calm(v)
<1>1. UNCHANGED <<pc, tables>>
  BY ZenonT(60) DEF ChangeMetadata, NoteErrors, Flush, Recycle, ntfs_sync,
     Chkdsk
<1>2. Kept(v)
  <2>1. CASE NoteErrors(v)
    BY <2>1, KeptPut, ZenonT(60) DEF NoteErrors, Alters
  <2>2. CASE Recycle(v)
    BY <2>2, KeptFiles, ZenonT(60) DEF Recycle
  <2> QED
    BY <2>1, <2>2, KeptSame, ZenonT(60) DEF ChangeMetadata, Flush, ntfs_sync, Chkdsk
<1> QED
  BY <1>1, <1>2, StayCalm, ZenonT(60)

\* A count changes by as much as the references of v, and the table goes with
\* the last reference.
UpcaseCounted(v, q, l) ==
    /\ upcaseUsers' = upcaseUsers + Num(Ref(q)) - Num(Ref(vol[v]))
                                  + Num(Tmp(l)) - Num(Tmp(pc[v]))
    /\ upcaseUsers' \in Nat => (upcase' <=> upcaseUsers' > 0)

CompCounted(v, q, l) ==
    /\ compUsers' = compUsers + Num(Com(q, l)) - Num(Com(vol[v], pc[v]))
    /\ compUsers' \in Nat => (comp' <=> compUsers' > 0)

\* Then both counts are exact.
LEMMA CountedInv ==
    ASSUME SInv, NEW v \in Volumes, NEW q, NEW l, Steps(v, q, l), l \in Early => q.comp,
           UpcaseCounted(v, q, l), CompCounted(v, q, l)
    PROVE  EarlyComp' /\ SharedTables'
<1>1. /\ upcaseUsers' \in Nat /\ compUsers' \in Nat /\ EarlyComp'
      /\ (upcase' <=> upcaseUsers' > 0) /\ (comp' <=> compUsers' > 0) => SharedTables'
  BY CountsInv, ZenonT(60) DEF UpcaseCounted, CompCounted
<1> QED
  BY <1>1, ZenonT(60) DEF UpcaseCounted, CompCounted

\* Nothing happens to the upcase table.
LEMMA UpcaseSame ==
    ASSUME SInv, NEW v, NEW q, NEW l, upcase' = upcase, upcaseUsers' = upcaseUsers,
           Ref(q) <=> Ref(vol[v]), Tmp(l) <=> Tmp(pc[v])
    PROVE  UpcaseCounted(v, q, l)
<1>1. PICK a, c : /\ a = Num(Ref(q)) /\ a = Num(Ref(vol[v])) /\ a \in {0, 1}
                  /\ c = Num(Tmp(l)) /\ c = Num(Tmp(pc[v])) /\ c \in {0, 1}
  BY ZenonT(60) DEF Num
<1>2. upcaseUsers = upcaseUsers + a - a + c - c
  BY <1>1, UsersCounted, SMTT(60)
<1> QED
  BY <1>1, <1>2, UsersCounted, ZenonT(60) DEF UpcaseCounted

\* ntfs_mount() takes its temporary reference.
LEMMA UpcaseTaken ==
    ASSUME SInv, NEW v, NEW q, NEW l, upcase' = TRUE, upcaseUsers' = upcaseUsers + 1,
           Ref(q) <=> Ref(vol[v]), Tmp(l), ~Tmp(pc[v])
    PROVE  UpcaseCounted(v, q, l)
<1>1. PICK a : a = Num(Ref(q)) /\ a = Num(Ref(vol[v])) /\ a \in {0, 1}
  BY ZenonT(60) DEF Num
<1>2. Num(Tmp(l)) = 1 /\ Num(Tmp(pc[v])) = 0
  BY ZenonT(60) DEF Num
<1>3. /\ upcaseUsers + 1 = upcaseUsers + a - a + 1 - 0 /\ upcaseUsers' > 0
  BY <1>1, UsersCounted, SMTT(60)
<1> QED
  BY <1>1, <1>2, <1>3, ZenonT(60) DEF UpcaseCounted

\* ntfs_upcase_load() takes one for the volume.
LEMMA UpcaseRef ==
    ASSUME SInv, NEW v, NEW q, NEW l, upcase' = upcase, upcase, GetUpcase,
           Ref(q), ~Ref(vol[v]), Tmp(l) <=> Tmp(pc[v])
    PROVE  UpcaseCounted(v, q, l)
<1>1. PICK c : c = Num(Tmp(l)) /\ c = Num(Tmp(pc[v])) /\ c \in {0, 1}
  BY ZenonT(60) DEF Num
<1>2. Num(Ref(q)) = 1 /\ Num(Ref(vol[v])) = 0
  BY ZenonT(60) DEF Num
<1>3. /\ upcaseUsers' = upcaseUsers + 1 - 0 + c - c /\ upcaseUsers' > 0
  BY <1>1, UsersCounted, SMTT(60) DEF GetUpcase
<1> QED
  BY <1>1, <1>2, <1>3, ZenonT(60) DEF UpcaseCounted

\* A reference goes, and the table if it was the last one.
LEMMA TableGoes ==
    ASSUME SInv, PutUpcase
    PROVE  upcaseUsers' \in Nat => (upcase' <=> upcaseUsers' > 0)
<1>1. ASSUME upcaseUsers' \in Nat PROVE upcaseUsers > 0 /\ (upcaseUsers' # 0 <=> upcaseUsers' > 0)
  BY <1>1, UsersCounted, SMTT(60) DEF PutUpcase
<1> QED
  BY <1>1, UsersCounted, ZenonT(60) DEF PutUpcase

\* The temporary one.
LEMMA UpcaseDropped ==
    ASSUME SInv, NEW v, NEW q, NEW l, PutUpcase,
           Ref(q) <=> Ref(vol[v]), ~Tmp(l), Tmp(pc[v])
    PROVE  UpcaseCounted(v, q, l)
<1>1. PICK a : a = Num(Ref(q)) /\ a = Num(Ref(vol[v])) /\ a \in {0, 1}
  BY ZenonT(60) DEF Num
<1>2. Num(Tmp(l)) = 0 /\ Num(Tmp(pc[v])) = 1
  BY ZenonT(60) DEF Num
<1>3. upcaseUsers' = upcaseUsers + a - a + 0 - 1
  BY <1>1, UsersCounted, SMTT(60) DEF PutUpcase
<1> QED
  BY <1>1, <1>2, <1>3, TableGoes, ZenonT(60) DEF UpcaseCounted

\* The volume's.
LEMMA UpcaseReleased ==
    ASSUME SInv, NEW v, NEW q, NEW l, PutUpcase,
           ~Ref(q), Ref(vol[v]), Tmp(l) <=> Tmp(pc[v])
    PROVE  UpcaseCounted(v, q, l)
<1>1. PICK c : c = Num(Tmp(l)) /\ c = Num(Tmp(pc[v])) /\ c \in {0, 1}
  BY ZenonT(60) DEF Num
<1>2. Num(Ref(q)) = 0 /\ Num(Ref(vol[v])) = 1
  BY ZenonT(60) DEF Num
<1>3. upcaseUsers' = upcaseUsers + 0 - 1 + c - c
  BY <1>1, UsersCounted, SMTT(60) DEF PutUpcase
<1> QED
  BY <1>1, <1>2, <1>3, TableGoes, ZenonT(60) DEF UpcaseCounted

\* Nothing happens to the compression buffer.
LEMMA CompSame ==
    ASSUME SInv, NEW v, NEW q, NEW l, comp' = comp, compUsers' = compUsers,
           Com(q, l) <=> Com(vol[v], pc[v])
    PROVE  CompCounted(v, q, l)
<1>1. PICK a : a = Num(Com(q, l)) /\ a = Num(Com(vol[v], pc[v])) /\ a \in {0, 1}
  BY ZenonT(60) DEF Num
<1>2. compUsers = compUsers + a - a
  BY <1>1, UsersCounted, SMTT(60)
<1> QED
  BY <1>1, <1>2, UsersCounted, ZenonT(60) DEF CompCounted

\* ntfs_mount() makes the volume a user of it.
LEMMA CompTaken ==
    ASSUME SInv, NEW v, NEW q, NEW l, comp' = TRUE, compUsers' = compUsers + 1,
           Com(q, l), ~Com(vol[v], pc[v])
    PROVE  CompCounted(v, q, l)
<1>1. Num(Com(q, l)) = 1 /\ Num(Com(vol[v], pc[v])) = 0
  BY ZenonT(60) DEF Num
<1>2. compUsers' = compUsers + 1 - 0 /\ compUsers' > 0
  BY UsersCounted, SMTT(60)
<1> QED
  BY <1>1, <1>2, ZenonT(60) DEF CompCounted

\* ntfs_do_postponed_release() gives it back.
LEMMA CompReleased ==
    ASSUME SInv, NEW v, NEW q, NEW l, compUsers' = compUsers - 1,
           comp' = (comp /\ compUsers' # 0), ~Com(q, l), Com(vol[v], pc[v])
    PROVE  CompCounted(v, q, l)
<1>1. Num(Com(q, l)) = 0 /\ Num(Com(vol[v], pc[v])) = 1
  BY ZenonT(60) DEF Num
<1>2. compUsers' = compUsers + 0 - 1
  BY UsersCounted, SMTT(60)
<1>3. ASSUME compUsers' \in Nat PROVE compUsers > 0 /\ (compUsers' # 0 <=> compUsers' > 0)
  BY <1>3, UsersCounted, SMTT(60)
<1> QED
  BY <1>1, <1>2, <1>3, UsersCounted, ZenonT(60) DEF CompCounted

\* ntfs_mount() takes the tables.
LEMMA TakeTablesCounted ==
    ASSUME SInv, NEW v \in Volumes, TakeTables(v) PROVE EarlyComp' /\ SharedTables'
<1>0. /\ Types /\ vol[v] \in Vols /\ pc[v] = "tables" /\ pc[v] \in Early /\ vol[v].comp
      /\ vol[v].mft
  BY Here, ZenonT(60) DEF TakeTables, At, Early, SInv, EarlyComp, Typed, Is,
     Good, Loaded
<1>1. PICK x : x = [vol[v] EXCEPT !.comp = FALSE]
  BY Zenon
<1>2. x.upcase = vol[v].upcase /\ ~x.comp
  <2>1. Keeps(vol[v], x, {"comp"}) /\ x.comp = FALSE
    BY <1>0, <1>1, PutComp, ZenonT(60)
  <2> QED
    BY <2>1, ZenonT(60) DEF Keeps
<1>3. /\ "root" \notin Early /\ "u_start" \notin Early /\ Tmp("root") /\ ~Tmp("u_start")
      /\ ~Tmp(pc[v]) /\ ~Com(vol[v], pc[v])
  BY <1>0, ZenonT(60) DEF Early, Tmp, Com, Loading
<1>4. CASE Set(v, x) /\ FailMount(v, "ok") /\ UNCHANGED tables
  <2>1. Steps(v, x, "u_start")
    BY <1>4, ZenonT(60) DEF Set, FailMount, Steps
  <2> QED
    BY <1>0, <1>2, <1>4, <2>1, EarlyCalm, CalmInv, ZenonT(60)
<1>5. CASE ~(Set(v, x) /\ FailMount(v, "ok") /\ UNCHANGED tables)
  <2>1. PICK q, l : /\ Steps(v, q, l) /\ q \in {x, vol[v]} /\ l \in {"root", "u_start"}
                    /\ \/ q = vol[v] /\ comp' = TRUE /\ compUsers' = compUsers + 1
                       \/ q = x /\ comp' = comp /\ compUsers' = compUsers
                    /\ \/ l = "root" /\ upcase' = TRUE /\ upcaseUsers' = upcaseUsers + 1
                       \/ l = "u_start" /\ upcase' = upcase /\ upcaseUsers' = upcaseUsers
    <3>1. PICK q \in {x, vol[v]} :
            /\ vol' = [vol EXCEPT ![v] = q]
            /\ \/ q = vol[v] /\ comp' = TRUE /\ compUsers' = compUsers + 1
               \/ q = x /\ comp' = comp /\ compUsers' = compUsers
      BY <1>0, <1>1, <1>5, AllSame, ZenonT(60) DEF TakeTables, Set
    <3>2. PICK l \in {"root", "u_start"} :
            /\ pc' = [pc EXCEPT ![v] = l]
            /\ \/ l = "root" /\ upcase' = TRUE /\ upcaseUsers' = upcaseUsers + 1
               \/ l = "u_start" /\ upcase' = upcase /\ upcaseUsers' = upcaseUsers
      BY <1>1, <1>5, ZenonT(60) DEF TakeTables, Goto, FailMount
    <3> QED
      BY <3>1, <3>2, ZenonT(60) DEF Steps
  <2>2. Ref(q) <=> Ref(vol[v])
    BY <1>2, <2>1, ZenonT(60) DEF Ref
  <2>3. UpcaseCounted(v, q, l)
    BY <1>3, <2>1, <2>2, UpcaseSame, UpcaseTaken, ZenonT(60)
  <2>4. (q = vol[v] => Com(q, l)) /\ ~Com(x, l)
    BY <1>0, <1>2, <1>3, <2>1, ZenonT(60) DEF Com
  <2>5. CompCounted(v, q, l)
    BY <1>3, <2>1, <2>4, CompSame, CompTaken, ZenonT(60)
  <2> QED
    BY <1>3, <2>1, <2>3, <2>5, CountedInv, ZenonT(60)
<1> QED
  BY <1>4, <1>5, ZenonT(60)

\* ntfs_upcase_load().
LEMMA UpcaseLoadCounted ==
    ASSUME SInv, NEW v \in Volumes, ntfs_upcase_load(v) PROVE EarlyComp' /\ SharedTables'
<1>0. Types /\ vol[v] \in Vols /\ pc[v] = "upcase" /\ vol[v].upcase = "none"
  BY Here, ZenonT(60) DEF ntfs_upcase_load, At, SInv, Typed, Is, Good, Loaded
<1>1. PICK q, l : /\ Steps(v, q, l) /\ l \in {"volume", "drop"} /\ q.comp = vol[v].comp
                  /\ \/ q.upcase = "default" /\ upcase /\ GetUpcase
                     \/ q.upcase \in {"none", "own"} /\ upcaseUsers' = upcaseUsers
  <2>1. ASSUME NEW t \in {"default", "own"}, Set(v, [vol[v] EXCEPT !.upcase = t])
        PROVE  \E q : /\ vol' = [vol EXCEPT ![v] = q] /\ q.upcase = t
                      /\ q.comp = vol[v].comp
    <3>1. PICK q : q = [vol[v] EXCEPT !.upcase = t]
      BY Zenon
    <3>2. Keeps(vol[v], q, {"upcase"}) /\ q.upcase = t
      BY <1>0, <3>1, PutTable, ZenonT(60)
    <3>3. q.comp = vol[v].comp
      BY <3>2, Zenon DEF Keeps
    <3> QED
      BY <2>1, <3>1, <3>2, <3>3, ZenonT(60) DEF Set
  <2>2. \/ /\ upcase /\ GetUpcase /\ Goto(v, "volume")
           /\ Set(v, [vol[v] EXCEPT !.upcase = "default"])
        \/ /\ upcaseUsers' = upcaseUsers /\ Goto(v, "volume")
           /\ Set(v, [vol[v] EXCEPT !.upcase = "own"])
        \/ upcaseUsers' = upcaseUsers /\ SystemFails(v) /\ UNCHANGED vol
    BY ZenonT(60) DEF ntfs_upcase_load
  <2>3. CASE /\ upcase /\ GetUpcase /\ Goto(v, "volume")
             /\ Set(v, [vol[v] EXCEPT !.upcase = "default"])
    BY <2>1, <2>3, ZenonT(60) DEF Goto, Steps
  <2>4. CASE /\ upcaseUsers' = upcaseUsers /\ Goto(v, "volume")
             /\ Set(v, [vol[v] EXCEPT !.upcase = "own"])
    BY <2>1, <2>4, ZenonT(60) DEF Goto, Steps
  <2>5. CASE upcaseUsers' = upcaseUsers /\ SystemFails(v) /\ UNCHANGED vol
    BY <1>0, <2>5, AllSame, ZenonT(60) DEF SystemFails, Steps
  <2> QED
    BY <2>2, <2>3, <2>4, <2>5, ZenonT(60)
<1>2. upcase' = upcase /\ comp' = comp /\ compUsers' = compUsers
  BY ZenonT(60) DEF ntfs_upcase_load
<1>3. Tmp(l) /\ Tmp(pc[v]) /\ l \notin Early /\ pc[v] \notin Early
  BY <1>0, <1>1, ZenonT(60) DEF Tmp, Loading, Early
<1>4. UpcaseCounted(v, q, l)
  <2>1. ~Ref(vol[v])
    BY <1>0, ZenonT(60) DEF Ref
  <2>2. CASE q.upcase = "default" /\ upcase /\ GetUpcase
    BY <1>2, <1>3, <2>1, <2>2, UpcaseRef, ZenonT(60) DEF Ref
  <2>3. CASE q.upcase \in {"none", "own"} /\ upcaseUsers' = upcaseUsers
    BY <1>2, <1>3, <2>1, <2>3, UpcaseSame, ZenonT(60) DEF Ref
  <2> QED
    BY <1>1, <2>2, <2>3, ZenonT(60)
<1>5. CompCounted(v, q, l)
  <2>1. Com(q, l) <=> Com(vol[v], pc[v])
    BY <1>0, <1>1, <1>3, ZenonT(60) DEF Com
  <2> QED
    BY <1>2, <2>1, CompSame, ZenonT(60)
<1> QED
  BY <1>1, <1>3, <1>4, <1>5, CountedInv, ZenonT(60)

\* ntfs_mount() drops its temporary reference.
LEMMA DropCounted ==
    ASSUME SInv, NEW v \in Volumes, DropTables(v) PROVE EarlyComp' /\ SharedTables'
<1>0. Types /\ pc[v] = "drop" /\ pc[v] \in Loading /\ vol[v].mft /\ PutUpcase
  <2>1. Types /\ Is(v, pc[v]) /\ pc[v] = "drop" /\ PutUpcase
    BY Here, ZenonT(60) DEF DropTables, At, SInv
  <2>2. "drop" \in Loading
    BY ZenonT(60) DEF Loading
  <2> QED
    BY <2>1, <2>2, ZenonT(60) DEF Is, Good, Loaded
<1>1. PICK l \in {"u_start", "count"} : Steps(v, vol[v], l)
  BY <1>0, AllSame, ZenonT(60) DEF DropTables, FailMount, Goto, Steps
<1>2. ~Tmp(l) /\ Tmp(pc[v]) /\ l \notin Early /\ pc[v] \notin Early
  BY <1>0, <1>1, OffPlaces, ZenonT(60) DEF Tmp, Early
<1>3. Com(vol[v], l) <=> Com(vol[v], pc[v])
  BY <1>0, <1>2, ZenonT(60) DEF Com
<1>4. comp' = comp /\ compUsers' = compUsers
  BY ZenonT(60) DEF DropTables
<1>5. UpcaseCounted(v, vol[v], l)
  BY <1>0, <1>2, UpcaseDropped, ZenonT(60)
<1>6. CompCounted(v, vol[v], l)
  BY <1>3, <1>4, CompSame, ZenonT(60)
<1> QED
  BY <1>1, <1>2, <1>5, <1>6, CountedInv, ZenonT(60)

\* ntfs_do_postponed_release() gives back what the volume has.
LEMMA ReleaseCounted ==
    ASSUME SInv, NEW v \in Volumes, ntfs_do_postponed_release(v)
    PROVE  EarlyComp' /\ SharedTables'
<1>0. Types /\ pc[v] = "idle"
  BY Here, ZenonT(60) DEF ntfs_do_postponed_release, SInv, Is, Good, Life
<1>1. Steps(v, NoVol, "idle")
  BY <1>0, AllSame, ZenonT(60) DEF ntfs_do_postponed_release, Set, Steps
<1>2. /\ "idle" \notin Early /\ ~Ref(NoVol) /\ ~Com(NoVol, "idle")
      /\ (Com(vol[v], pc[v]) <=> vol[v].comp)
  BY <1>0, OffPlaces, ZenonT(60) DEF Ref, Com, NoVol
<1>3. UpcaseCounted(v, NoVol, "idle")
  <2>1. CASE vol[v].upcase = "default"
    BY <1>0, <1>2, <2>1, UpcaseReleased, ZenonT(60) DEF
       ntfs_do_postponed_release, Ref
  <2>2. CASE vol[v].upcase # "default"
    BY <1>0, <1>2, <2>2, UpcaseSame, ZenonT(60) DEF ntfs_do_postponed_release,
       Ref
  <2> QED
    BY <2>1, <2>2, ZenonT(60)
<1>4. CompCounted(v, NoVol, "idle")
  <2>1. CASE vol[v].comp
    BY <1>2, <2>1, CompReleased, ZenonT(60) DEF ntfs_do_postponed_release
  <2>2. CASE ~vol[v].comp
    BY <1>2, <2>2, CompSame, ZenonT(60) DEF ntfs_do_postponed_release
  <2> QED
    BY <2>1, <2>2, ZenonT(60)
<1> QED
  BY <1>1, <1>2, <1>3, <1>4, CountedInv, ZenonT(60)

\* After a crash, and at first, no volume has a reference.
LEMMA NoneCounted ==
    /\ Init => EarlyComp /\ SharedTables
    /\ Crash => EarlyComp' /\ SharedTables'
<1>1. NoVol.upcase # "default" /\ ~NoVol.comp /\ "idle" \notin Early \cup Loading
  BY ZenonT(60) DEF NoVol, Early, Loading
<1>2. Cardinality({}) = 0 /\ 0 = 0 + 0 /\ ~(0 > 0)
  <2>1. Cardinality({}) = 0
    BY FS_EmptySet, ZenonT(60)
  <2> QED
    BY <2>1, SMTT(60)
<1>3. ASSUME Init PROVE EarlyComp /\ SharedTables
  <2>1. Refs = {} /\ Tmps = {} /\ Coms = {} /\ EarlyComp
    BY <1>1, <1>3, ZenonT(60) DEF Init, Refs, Tmps, Coms, Compresses, EarlyComp
  <2>2. upcaseUsers = 0 /\ compUsers = 0 /\ ~upcase /\ ~comp
    BY <1>3, ZenonT(60) DEF Init
  <2> QED
    BY <1>2, <2>1, <2>2, ZenonT(60) DEF SharedTables, UpcaseRefs, Refs, Tmps,
       Coms
<1>4. ASSUME Crash PROVE EarlyComp' /\ SharedTables'
  <2>1. Refs' = {} /\ Tmps' = {} /\ Coms' = {} /\ EarlyComp'
    BY <1>1, <1>4, ZenonT(60) DEF Crash, Refs, Tmps, Coms, Compresses,
       EarlyComp
  <2>2. upcaseUsers' = 0 /\ compUsers' = 0 /\ ~upcase' /\ ~comp'
    BY <1>4, ZenonT(60) DEF Crash
  <2> QED
    BY <1>2, <2>1, <2>2, ZenonT(60) DEF SharedTables, UpcaseRefs, Refs, Tmps,
       Coms
<1> QED
  BY <1>3, <1>4, ZenonT(60)

\* The tables that all volumes share are allocated exactly as long as some
\* volume uses them, however mounts, failed mounts, unmounts and postponed
\* releases of any number of volumes overlap: ntfs_default_upcase_users and
\* ntfs_compression_users count the volumes that ntfs_mount(),
\* ntfs_upcase_load() and ntfs_do_postponed_release() made users, if $MFT fails
\* before its first extent is loaded or not at all.
THEOREM SharedTablesHolds == MftFailsEarly => (Spec => []SharedTables)
<1> SUFFICES ASSUME MftFailsEarly PROVE Spec => []SharedTables
  BY ZenonT(60)
<1>1. Init => SInv
  BY InitInv, NoneCounted, ZenonT(60) DEF SInv
<1>2. ASSUME SInv, [Next]_vars PROVE SInv'
  <2>1. IInv'
    BY <1>2, NextInv, ZenonT(60) DEF SInv
  <2>2. CASE UNCHANGED vars
    <3>1. SharedTables' /\ EarlyComp'
      BY <1>2, <2>2, ZenonT(60) DEF vars, SInv, SharedTables, UpcaseRefs,
         Compresses, EarlyComp
    <3> QED
      BY <2>1, <3>1, ZenonT(60) DEF SInv
  <2>3. ASSUME NEW v \in Volumes, Calm(v) PROVE SInv'
    BY <1>2, <2>1, <2>3, CalmInv, ZenonT(60) DEF SInv
  <2>4. ASSUME NEW v \in Volumes, MountStep(v) PROVE SInv'
    <3>1. CASE \/ TakeTables(v) \/ ntfs_upcase_load(v) \/ DropTables(v)
      BY <1>2, <2>1, <3>1, TakeTablesCounted, UpcaseLoadCounted, DropCounted,
         ZenonT(60) DEF SInv
    <3>2. CASE ~(TakeTables(v) \/ ntfs_upcase_load(v) \/ DropTables(v))
      BY <1>2, <2>3, <2>4, <3>2, StartCalm, SystemCalm, UnmountCalm, ZenonT(60)
         DEF MountStep
    <3> QED
      BY <3>1, <3>2, ZenonT(60)
  <2>5. ASSUME NEW v \in Volumes, UnmountStep(v) PROVE SInv'
    BY <1>2, <2>3, <2>5, UnmountCalm, UnmountedCalm, ZenonT(60) DEF UnmountStep
  <2>6. ASSUME NEW v \in Volumes,
               \/ MountStart(v) \/ Unmount(v) \/ Remount(v) \/ RemountStep(v)
               \/ ChangeMetadata(v) \/ NoteErrors(v) \/ Flush(v) \/ Recycle(v)
               \/ ntfs_sync(v)
               \/ FreeInode(v) \/ Chkdsk(v)
        PROVE  SInv'
    BY <1>2, <2>3, <2>6, StartCalm, UnmountCalm, UnmountedCalm, RemountCalm,
       UseCalm, ZenonT(60)
  <2>7. ASSUME NEW v \in Volumes, ntfs_do_postponed_release(v) PROVE SInv'
    BY <1>2, <2>1, <2>7, ReleaseCounted, ZenonT(60) DEF SInv
  <2>8. CASE Crash
    BY <2>1, <2>8, NoneCounted, ZenonT(60) DEF SInv
  <2>9. CASE Next
    BY <2>4, <2>5, <2>6, <2>7, <2>8, <2>9, ZenonT(60) DEF Next
  <2> QED
    BY <1>2, <2>2, <2>9, ZenonT(60)
<1>3. SInv /\ [Next]_vars => SInv'
  BY <1>2, ZenonT(60)
<1>4. SInv => SharedTables
  BY Zenon DEF SInv
<1> QED
  BY <1>1, <1>3, <1>4, PTL DEF Spec
=============================================================================
