------------------------ MODULE ClusterAllocOwners -------------------------
(***************************************************************************)
(* Who holds a cluster, for every volume and every set of requests: the    *)
(* lemmas that the theorems about the cluster allocator rest on.           *)
(*                                                                         *)
(* A runlist is sound when it maps all of its vcns, each once, to clusters *)
(* of the volume or to holes, and no cluster twice.  What the allocator    *)
(* does to a runlist keeps it sound: a cluster is appended to the last run *)
(* or as a run of its own, and a truncation cuts the run at the new end.   *)
(*                                                                         *)
(* Inside a call the bitmap is the one the call began with, with the       *)
(* clusters of the runlist being built, without the clusters that the      *)
(* active free has taken and not put back (Balance).  The clusters a free  *)
(* has taken are the ones that its runlist maps the vcns from fr.vcn on    *)
(* to, fr.total of them; its roll back walks the same vcns again and       *)
(* counts down what is left (Gone).  Every count and every return value    *)
(* follows from that.                                                      *)
(***************************************************************************)
EXTENDS ClusterAlloc, TLAPS

\* The outer loop of ntfs_cluster_alloc(): the labels between two of its
\* mappings of a page of the bitmap.
Searching == pc \in {"map", "scan", "passdone", "switch", "alldone"}

\* The volume has at least one cluster.
LEMMA VolumeSize == NrClusters \in Nat /\ NrClusters # 0
BY ClusterAllocAssumption, Zenon

(***************************************************************************)
(* Runlists.                                                               *)
(***************************************************************************)
Runs == [vcn : Nat, lcn : Nat \cup {Hole}, length : Nat \ {0}]

\* A runlist that maps its vcns, all of them and each once, to clusters of the
\* volume or to holes.
RunsOrdered(r) ==
    \A i, j \in DOMAIN r : i < j => r[i].vcn + r[i].length <= r[j].vcn
RunsAdjacent(r) ==
    \A i \in 1..(Len(r) - 1) : r[i + 1].vcn = r[i].vcn + r[i].length
RunsCover(r) ==
    \A v \in r[1].vcn..(EndVcn(r) - 1) : Covering(r, v) # {}
RunsInside(r) ==
    \A i \in DOMAIN r : r[i].lcn # Hole => r[i].lcn + r[i].length <= NrClusters
RunsDisjoint(r) ==
    \A i, j \in DOMAIN r :
        i # j => RunClusters(r[i]) \cap RunClusters(r[j]) = {}

Sound(r) ==
    /\ r \in Seq(Runs) /\ r # <<>>
    /\ RunsOrdered(r) /\ RunsAdjacent(r) /\ RunsCover(r)
    /\ RunsInside(r) /\ RunsDisjoint(r)

\* The clusters of r that vcns from a on and before b are mapped to.
At(r, i, a, b) ==
    {c \in RunClusters(r[i]) : /\ a <= r[i].vcn + (c - r[i].lcn)
                               /\ r[i].vcn + (c - r[i].lcn) < b}
Part(r, a, b) == UNION {At(r, i, a, b) : i \in DOMAIN r}

\* The fields of a run.
LEMMA RunFields ==
    ASSUME NEW r \in Seq(Runs), NEW i \in DOMAIN r
    PROVE  /\ i \in Nat /\ 1 <= i /\ i <= Len(r) /\ Len(r) \in Nat
           /\ r[i] \in Runs
           /\ r[i].vcn \in Nat
           /\ r[i].lcn \in Int /\ r[i].lcn >= -1
           /\ r[i].lcn # Hole => r[i].lcn \in Nat
           /\ r[i].length \in Nat /\ r[i].length > 0
<1>1. r[i] \in Runs /\ i \in 1..Len(r) /\ Len(r) \in Nat
  OBVIOUS
<1> DEFINE x == r[i]
<1> HIDE DEF x
<1>2. x \in Runs
  BY <1>1, Zenon DEF x
<1>3. /\ x.vcn \in Nat /\ x.lcn \in Nat \cup {-1}
      /\ x.length \in Nat /\ x.length > 0
  BY <1>2 DEF Runs, Hole
<1> QED
  BY <1>1, <1>3 DEF x, Hole

\* The ends of a runlist.
LEMMA Ends ==
    ASSUME NEW r \in Seq(Runs), r # <<>>
    PROVE  /\ Len(r) \in DOMAIN r /\ 1 \in DOMAIN r
           /\ Len(r) \in Nat /\ Len(r) >= 1
           /\ EndVcn(r) = r[Len(r)].vcn + r[Len(r)].length
           /\ EndLcn(r) = r[Len(r)].lcn + r[Len(r)].length
           /\ EndVcn(r) \in Nat /\ EndLcn(r) \in Int
<1>1. Len(r) \in DOMAIN r /\ 1 \in DOMAIN r
  OBVIOUS
<1>2. /\ r[Len(r)].vcn \in Nat /\ r[Len(r)].lcn \in Int
      /\ r[Len(r)].length \in Nat
  BY <1>1, RunFields, Zenon
<1> QED
  BY <1>1, <1>2 DEF EndVcn, EndLcn, Last

\* No run of a sound runlist goes beyond its end.
LEMMA BeforeEnd ==
    ASSUME NEW r, Sound(r), NEW i \in DOMAIN r
    PROVE  /\ r[i].vcn + r[i].length <= EndVcn(r)
           /\ r[1].vcn <= r[i].vcn
<1>0. r \in Seq(Runs) /\ r # <<>>
  BY Zenon DEF Sound
<1>1. /\ Len(r) \in DOMAIN r /\ 1 \in DOMAIN r
      /\ EndVcn(r) = r[Len(r)].vcn + r[Len(r)].length
  BY <1>0, Ends, Zenon
<1>2. \A j \in DOMAIN r : /\ j \in Nat /\ 1 <= j /\ j <= Len(r) /\ Len(r) \in Nat
                          /\ r[j].vcn \in Nat /\ r[j].length \in Nat
                          /\ r[j].length > 0
  BY <1>0, RunFields, Zenon
<1>3. i = Len(r) \/ i < Len(r)
  BY <1>2
<1>4. i = 1 \/ 1 < i
  BY <1>2
<1>5. \A j, k \in DOMAIN r : j < k => r[j].vcn + r[j].length <= r[k].vcn
  BY Zenon DEF Sound, RunsOrdered
<1>6. r[i].vcn + r[i].length <= EndVcn(r)
  BY <1>1, <1>2, <1>3, <1>5
<1>7. r[1].vcn <= r[i].vcn
  BY <1>1, <1>2, <1>4, <1>5
<1> QED
  BY <1>6, <1>7, Zenon
-----------------------------------------------------------------------------
(***************************************************************************)
(* The clusters of a part of a runlist.                                    *)
(***************************************************************************)

\* No vcns, no clusters.
LEMMA PartEmpty ==
    ASSUME NEW r \in Seq(Runs), NEW a \in Nat
    PROVE  Part(r, a, a) = {}
<1> SUFFICES ASSUME NEW c \in Part(r, a, a)
             PROVE  FALSE
  OBVIOUS
<1>1. PICK i \in DOMAIN r : c \in At(r, i, a, a)
  BY Zenon DEF Part
<1>2. r[i].lcn \in Int /\ r[i].vcn \in Nat /\ r[i].length \in Nat
  BY RunFields, Zenon
<1>3. c \in Int
  BY <1>1, <1>2 DEF At, RunClusters
<1> QED
  BY <1>1, <1>2, <1>3 DEF At

\* A cluster of a sound runlist has one vcn.
LEMMA OneRun ==
    ASSUME NEW r, Sound(r), NEW i \in DOMAIN r, NEW j \in DOMAIN r,
           NEW c, c \in RunClusters(r[i]), c \in RunClusters(r[j])
    PROVE  i = j
BY Zenon DEF Sound, RunsDisjoint

\* The clusters of adjacent ranges of vcns.
LEMMA PartSplit ==
    ASSUME NEW r, Sound(r), NEW a \in Nat, NEW b \in Nat, NEW d \in Nat,
           a <= b, b <= d
    PROVE  /\ Part(r, a, d) = Part(r, a, b) \cup Part(r, b, d)
           /\ Part(r, a, b) \cap Part(r, b, d) = {}
           /\ Part(r, a, d) \subseteq RlClusters(r)
<1>0. r \in Seq(Runs)
  BY Zenon DEF Sound
<1>1. \A i \in DOMAIN r : r[i].lcn \in Int /\ r[i].vcn \in Nat /\ r[i].length \in Nat
  BY <1>0, RunFields, Zenon
<1>2. \A i \in DOMAIN r : \A c \in RunClusters(r[i]) : c \in Int
  BY <1>1 DEF RunClusters
<1>3. ASSUME NEW i \in DOMAIN r
      PROVE  /\ At(r, i, a, d) = At(r, i, a, b) \cup At(r, i, b, d)
             /\ At(r, i, a, b) \cap At(r, i, b, d) = {}
             /\ At(r, i, a, d) \subseteq RunClusters(r[i])
             /\ At(r, i, a, b) \subseteq RunClusters(r[i])
             /\ At(r, i, b, d) \subseteq RunClusters(r[i])
  BY <1>1, <1>2 DEF At
<1>4. Part(r, a, d) = Part(r, a, b) \cup Part(r, b, d)
  BY <1>3 DEF Part
<1>5. Part(r, a, b) \cap Part(r, b, d) = {}
  <2> SUFFICES ASSUME NEW c, c \in Part(r, a, b), c \in Part(r, b, d)
               PROVE  FALSE
    OBVIOUS
  <2>1. PICK i \in DOMAIN r : c \in At(r, i, a, b)
    BY Zenon DEF Part
  <2>2. PICK j \in DOMAIN r : c \in At(r, j, b, d)
    BY Zenon DEF Part
  <2>3. i = j
    BY <2>1, <2>2, <1>3, OneRun, Zenon
  <2> QED
    BY <2>1, <2>2, <2>3, <1>3, Zenon
<1>6. Part(r, a, d) \subseteq RlClusters(r)
  BY <1>3, Zenon DEF Part, RlClusters
<1> QED
  BY <1>4, <1>5, <1>6, Zenon

\* The clusters of all vcns.
LEMMA PartAll ==
    ASSUME NEW r, Sound(r), NEW a \in Nat, NEW b \in Nat,
           a <= r[1].vcn, EndVcn(r) <= b
    PROVE  Part(r, a, b) = RlClusters(r)
<1>0. r \in Seq(Runs) /\ r # <<>>
  BY Zenon DEF Sound
<1>1. \A i \in DOMAIN r : r[i].lcn \in Int /\ r[i].vcn \in Nat /\ r[i].length \in Nat
  BY <1>0, RunFields, Zenon
<1>2. EndVcn(r) \in Nat /\ 1 \in DOMAIN r
  BY <1>0, Ends, Zenon
<1>3. ASSUME NEW i \in DOMAIN r
      PROVE  At(r, i, a, b) = RunClusters(r[i])
  <2>1. r[i].vcn + r[i].length <= EndVcn(r) /\ r[1].vcn <= r[i].vcn
    BY BeforeEnd, Zenon
  <2> QED
    BY <2>1, <1>1, <1>2 DEF At, RunClusters
<1> QED
  BY <1>3, Zenon DEF Part, RlClusters

\* The part that lies in one run is an interval.
LEMMA PartOfRun ==
    ASSUME NEW r, Sound(r), NEW i \in DOMAIN r, NEW a \in Nat, NEW b \in Nat,
           r[i].vcn <= a, a <= b, b <= r[i].vcn + r[i].length
    PROVE  Part(r, a, b) =
             IF r[i].lcn = Hole THEN {}
             ELSE (r[i].lcn + (a - r[i].vcn))..(r[i].lcn + (a - r[i].vcn) + (b - a) - 1)
<1>0. r \in Seq(Runs)
  BY Zenon DEF Sound
<1>1. \A j \in DOMAIN r : /\ r[j].lcn \in Int /\ r[j].vcn \in Nat
                          /\ r[j].length \in Nat /\ j \in Nat
  BY <1>0, RunFields, Zenon
<1>2. ASSUME NEW j \in DOMAIN r, j # i
      PROVE  At(r, j, a, b) = {}
  <2>1. \/ r[i].vcn + r[i].length <= r[j].vcn
        \/ r[j].vcn + r[j].length <= r[i].vcn
    BY <1>1, <1>2 DEF Sound, RunsOrdered
  <2> SUFFICES ASSUME NEW c \in At(r, j, a, b)
               PROVE  FALSE
    OBVIOUS
  <2>2. /\ r[j].lcn <= c /\ c <= r[j].lcn + r[j].length - 1 /\ c \in Int
        /\ a <= r[j].vcn + (c - r[j].lcn) /\ r[j].vcn + (c - r[j].lcn) < b
    BY <1>1 DEF At, RunClusters
  <2> QED
    BY <1>1, <2>1, <2>2
<1>3. Part(r, a, b) = At(r, i, a, b)
  BY <1>2, Zenon DEF Part
<1>4. CASE r[i].lcn = Hole
  BY <1>3, <1>4, Zenon DEF At, RunClusters
<1>5. CASE r[i].lcn # Hole
  <2>1. RunClusters(r[i]) = r[i].lcn..(r[i].lcn + r[i].length - 1)
    BY <1>5, Zenon DEF RunClusters
  <2> DEFINE l == r[i].lcn
             v == r[i].vcn
             n == r[i].length
  <2>2. l \in Int /\ v \in Nat /\ n \in Nat /\ v <= a /\ b <= v + n
    BY <1>1, Zenon
  <2>3. At(r, i, a, b) = {c \in l..(l + n - 1) : a <= v + (c - l) /\ v + (c - l) < b}
    BY <2>1, Zenon DEF At
  <2> HIDE DEF l, v, n
  <2>4. {c \in l..(l + n - 1) : a <= v + (c - l) /\ v + (c - l) < b}
          = (l + (a - v))..(l + (a - v) + (b - a) - 1)
    BY <2>2
  <2> QED
    BY <1>3, <1>5, <2>3, <2>4, Zenon DEF l, v, n
<1> QED
  BY <1>4, <1>5, Zenon
\* A run with another length.
LEMMA RunCut ==
    ASSUME NEW x \in Runs, NEW n \in Nat \ {0}
    PROVE  /\ [x EXCEPT !.length = n] \in Runs
           /\ [x EXCEPT !.length = n].vcn = x.vcn
           /\ [x EXCEPT !.length = n].lcn = x.lcn
           /\ [x EXCEPT !.length = n].length = n
<1>1. x = [vcn |-> x.vcn, lcn |-> x.lcn, length |-> x.length]
  BY Zenon DEF Runs
<1>2. [x EXCEPT !.length = n] = [vcn |-> x.vcn, lcn |-> x.lcn, length |-> n]
  BY <1>1
<1>3. x.vcn \in Nat /\ x.lcn \in Nat \cup {Hole}
  BY Zenon DEF Runs
<1> QED
  BY <1>2, <1>3, Zenon DEF Runs

\* The first k runs of a runlist.
LEMMA FirstRuns ==
    ASSUME NEW f \in Seq(Runs), NEW k \in 1..Len(f)
    PROVE  /\ SubSeq(f, 1, k) \in Seq(Runs) /\ Len(SubSeq(f, 1, k)) = k
           /\ \A i \in 1..k : SubSeq(f, 1, k)[i] = f[i]
OBVIOUS

\* Truncating a runlist keeps the part before the vcn.
LEMMA TruncateRunlist ==
    ASSUME NEW f, Sound(f), f[1].vcn = 0, NEW v \in Nat, 0 < v, v <= EndVcn(f)
    PROVE  /\ Sound(Truncated(f, v))
           /\ Truncated(f, v)[1].vcn = 0
           /\ RlClusters(Truncated(f, v)) = Part(f, 0, v)
<1>0. f \in Seq(Runs) /\ f # <<>>
  BY Zenon DEF Sound
<1>1. \A i \in DOMAIN f : /\ i \in Nat /\ 1 <= i /\ i <= Len(f) /\ Len(f) \in Nat
                          /\ f[i] \in Runs /\ f[i].lcn \in Int
                          /\ f[i].vcn \in Nat /\ f[i].length \in Nat
                          /\ f[i].length > 0
  BY <1>0, RunFields, Zenon
<1>2. EndVcn(f) \in Nat /\ 1 \in DOMAIN f /\ Len(f) \in Nat
  BY <1>0, Ends, Zenon
<1> DEFINE k == CHOOSE i \in Covering(f, v - 1) : TRUE
           t == Truncated(f, v)
<1>3. k \in Covering(f, v - 1)
  <2>1. v - 1 \in f[1].vcn..(EndVcn(f) - 1)
    BY <1>2
  <2>2. Covering(f, v - 1) # {}
    BY <2>1, Zenon DEF Sound, RunsCover
  <2> QED
    BY <2>2, Zenon
<1>4. k \in DOMAIN f /\ f[k].vcn < v /\ v <= f[k].vcn + f[k].length
  BY <1>1, <1>3 DEF Covering
<1> DEFINE m == v - f[k].vcn
           s == SubSeq(f, 1, k)
<1>5. m \in Nat \ {0} /\ m <= f[k].length
  BY <1>1, <1>4, SMTT(60)
<1>6. t = [s EXCEPT ![k] = [s[k] EXCEPT !.length = m]]
  BY Zenon DEF Truncated
<1> HIDE DEF k, m, t
<1>7. s \in Seq(Runs) /\ Len(s) = k /\ \A i \in 1..k : s[i] = f[i]
  <2>1. k \in 1..Len(f)
    BY <1>1, <1>4
  <2> QED
    BY <1>0, <2>1, FirstRuns, Zenon
<1> HIDE DEF s
<1>8. [s[k] EXCEPT !.length = m] \in Runs
  BY <1>1, <1>4, <1>5, <1>7, RunCut
<1>9. /\ t \in Seq(Runs) /\ Len(t) = k /\ DOMAIN t = 1..k
      /\ \A i \in 1..k : i # k => t[i] = f[i]
      /\ t[k] = [f[k] EXCEPT !.length = m]
  BY <1>1, <1>4, <1>6, <1>7, <1>8, SMTT(60)
<1>10. /\ t[k].vcn = f[k].vcn /\ t[k].lcn = f[k].lcn /\ t[k].length = m
  BY <1>1, <1>4, <1>5, <1>9, RunCut
<1>11. /\ \A i \in DOMAIN t : /\ i \in DOMAIN f /\ i \in Nat
                              /\ t[i].vcn = f[i].vcn /\ t[i].lcn = f[i].lcn
                              /\ t[i].length <= f[i].length
                              /\ t[i].length \in Nat
                              /\ i < k => t[i].length = f[i].length
       /\ t # <<>> /\ Len(t) = k /\ DOMAIN t = 1..k /\ k \in Nat /\ k >= 1
       /\ k <= Len(f)
  <2>1. /\ t # <<>> /\ Len(t) = k /\ DOMAIN t = 1..k /\ k \in Nat /\ k >= 1
        /\ k <= Len(f) /\ Len(f) \in Nat /\ DOMAIN f = 1..Len(f)
    BY <1>0, <1>1, <1>4, <1>9
  <2>2. ASSUME NEW i \in DOMAIN t
        PROVE  /\ i \in DOMAIN f /\ i \in Nat
               /\ t[i].vcn = f[i].vcn /\ t[i].lcn = f[i].lcn
               /\ t[i].length <= f[i].length
               /\ t[i].length \in Nat
               /\ i < k => t[i].length = f[i].length
    <3>1. i \in DOMAIN f /\ i \in Nat /\ i \in 1..k
      BY <2>1
    <3>2. CASE i = k
      BY <3>1, <3>2, <1>1, <1>5, <1>10
    <3>3. CASE i # k
      <4>1. t[i] = f[i]
        BY <3>1, <3>3, <1>9, Zenon
      <4> QED
        BY <3>1, <4>1, <1>1
    <3> QED
      BY <3>2, <3>3, Zenon
  <2> QED
    BY <2>1, <2>2, Zenon
<1>12. EndVcn(t) = v
  BY <1>1, <1>4, <1>9, <1>10 DEF EndVcn, Last, m
<1>13. \A i, j \in DOMAIN f : i < j => f[i].vcn + f[i].length <= f[j].vcn
  BY Zenon DEF Sound, RunsOrdered
<1>14. RunsOrdered(t)
  <2> SUFFICES ASSUME NEW i \in DOMAIN t, NEW j \in DOMAIN t, i < j
               PROVE  t[i].vcn + t[i].length <= t[j].vcn
    BY Zenon DEF RunsOrdered
  <2> QED
    BY <1>1, <1>11, <1>13, SMTT(60)
<1>15. RunsAdjacent(t)
  <2> SUFFICES ASSUME NEW i \in 1..(k - 1)
               PROVE  t[i + 1].vcn = t[i].vcn + t[i].length
    BY <1>11, Zenon DEF RunsAdjacent
  <2>1. i \in DOMAIN t /\ i + 1 \in DOMAIN t /\ i < k /\ i \in 1..(Len(f) - 1)
    BY <1>1, <1>2, <1>4, <1>11, SMTT(60)
  <2>2. f[i + 1].vcn = f[i].vcn + f[i].length
    BY <2>1, Zenon DEF Sound, RunsAdjacent
  <2> QED
    BY <2>1, <2>2, <1>11, Zenon
<1>16. RunsCover(t)
  <2> SUFFICES ASSUME NEW w \in t[1].vcn..(v - 1)
               PROVE  Covering(t, w) # {}
    BY <1>12, Zenon DEF RunsCover
  <2>1. t[1].vcn = f[1].vcn /\ w \in Int /\ w < v /\ f[1].vcn <= w
    BY <1>11
  <2>2. w \in f[1].vcn..(EndVcn(f) - 1)
    BY <2>1, <1>2
  <2>3. PICK i \in DOMAIN f : f[i].vcn <= w /\ w < f[i].vcn + f[i].length
    BY <2>2, Zenon DEF Sound, RunsCover, Covering
  <2>4. i <= k
    BY <2>1, <2>3, <1>1, <1>4, <1>13, SMTT(60)
  <2>5. i \in DOMAIN t
    BY <2>4, <1>1, <1>11
  <2>6. w < t[i].vcn + t[i].length
    <3>1. CASE i = k
      BY <3>1, <2>1, <1>1, <1>4, <1>10 DEF m
    <3>2. CASE i < k
      BY <3>2, <2>3, <2>5, <1>11, Zenon
    <3> QED
      BY <3>1, <3>2, <2>4, <2>5, <1>11
  <2> QED
    BY <2>3, <2>5, <2>6, <1>11, Zenon DEF Covering
<1>17. RunsInside(t)
  <2> SUFFICES ASSUME NEW i \in DOMAIN t, t[i].lcn # Hole
               PROVE  t[i].lcn + t[i].length <= NrClusters
    BY Zenon DEF RunsInside
  <2>1. i \in DOMAIN f /\ f[i].lcn + f[i].length <= NrClusters
    BY <1>11, Zenon DEF Sound, RunsInside
  <2> QED
    BY <2>1, <1>1, <1>11, VolumeSize, SMTT(60)
<1>18. ASSUME NEW i \in DOMAIN t
       PROVE  RunClusters(t[i]) \subseteq RunClusters(f[i])
  BY <1>1, <1>11, SMTT(60) DEF RunClusters
<1>19. RunsDisjoint(t)
  BY <1>11, <1>18, Zenon DEF Sound, RunsDisjoint
<1>20. t[1].vcn = 0
  BY <1>11
<1>21. ASSUME NEW i \in DOMAIN t
       PROVE  RunClusters(t[i]) = At(f, i, 0, v)
  <2>1. i < k => f[i].vcn + f[i].length <= f[k].vcn
    BY <1>4, <1>11, <1>13, Zenon
  <2>2. i = k \/ i < k
    BY <1>11
  <2>3. i = k => t[i].length = v - f[i].vcn
    BY <1>10, Zenon DEF m
  <2>4. CASE f[i].lcn = Hole
    BY <2>4, <1>11, Zenon DEF At, RunClusters
  <2>5. CASE f[i].lcn # Hole
    <3> DEFINE l == f[i].lcn
               u == f[i].vcn
               n == f[i].length
               q == t[i].length
    <3>1. /\ l \in Int /\ u \in Nat /\ n \in Nat /\ q \in Nat
          /\ (q = n /\ u + n < v) \/ (q = v - u /\ q <= n)
      BY <2>1, <2>2, <2>3, <1>1, <1>4, <1>11
    <3>2. /\ RunClusters(t[i]) = l..(l + q - 1)
          /\ RunClusters(f[i]) = l..(l + n - 1)
      BY <2>5, <1>11, Zenon DEF RunClusters
    <3>3. At(f, i, 0, v) = {c \in l..(l + n - 1) : 0 <= u + (c - l) /\ u + (c - l) < v}
      BY <3>2, Zenon DEF At
    <3> HIDE DEF l, u, n, q
    <3>4. {c \in l..(l + n - 1) : 0 <= u + (c - l) /\ u + (c - l) < v} = l..(l + q - 1)
      BY <3>1
    <3> QED
      BY <3>2, <3>3, <3>4, Zenon
  <2> QED
    BY <2>4, <2>5, Zenon
<1>22. ASSUME NEW i \in DOMAIN f, i \notin DOMAIN t
       PROVE  At(f, i, 0, v) = {}
  <2>1. k < i
    BY <1>1, <1>11, <1>22
  <2>2. v <= f[i].vcn
    BY <2>1, <1>1, <1>4, <1>13
  <2> SUFFICES ASSUME NEW c \in At(f, i, 0, v)
               PROVE  FALSE
    OBVIOUS
  <2>3. c \in Int /\ f[i].lcn <= c /\ f[i].vcn + (c - f[i].lcn) < v
    BY <1>1 DEF At, RunClusters
  <2> QED
    BY <2>2, <2>3, <1>1
<1>23. RlClusters(t) = Part(f, 0, v)
  BY <1>11, <1>21, <1>22 DEF RlClusters, Part
<1> QED
  BY <1>9, <1>11, <1>14, <1>15, <1>16, <1>17, <1>19, <1>20, <1>23, Zenon DEF
     Sound, t

\* What AddCluster does to a runlist.
Grown(r) == [r EXCEPT ![Len(r)].length = @ + 1]
Extended(r, c) == Append(r, Run(EndVcn(r), c, 1))

\* The last run grows by the cluster behind it.
LEMMA GrowLast ==
    ASSUME NEW r, Sound(r), r[Len(r)].lcn # Hole, NEW c \in Clusters,
           EndLcn(r) = c, c \notin RlClusters(r),
           NEW g, g = Grown(r)
    PROVE  /\ Sound(g)
           /\ RlClusters(g) = RlClusters(r) \cup {c}
           /\ EndVcn(g) = EndVcn(r) + 1
           /\ Len(g) = Len(r) /\ DOMAIN g = DOMAIN r
           /\ \A i \in DOMAIN r : /\ g[i].vcn = r[i].vcn /\ g[i].lcn = r[i].lcn
                                  /\ i # Len(r) => g[i].length = r[i].length
<1>0. r \in Seq(Runs) /\ r # <<>>
  BY Zenon DEF Sound
<1> DEFINE k == Len(r)
           x == r[k]
           n == x.length + 1
<1>1. \A i \in DOMAIN r : /\ i \in Nat /\ 1 <= i /\ i <= k /\ k \in Nat
                          /\ r[i] \in Runs /\ r[i].lcn \in Int
                          /\ r[i].vcn \in Nat /\ r[i].length \in Nat
                          /\ r[i].length > 0
  BY <1>0, RunFields, Zenon
<1>2. /\ k \in DOMAIN r /\ k \in Nat /\ k >= 1 /\ 1 \in DOMAIN r
      /\ EndVcn(r) = x.vcn + x.length /\ EndVcn(r) \in Nat
      /\ c = x.lcn + x.length /\ x.lcn # Hole
  BY <1>0, Ends, Zenon
<1>3. n \in Nat \ {0} /\ x \in Runs
  BY <1>1, <1>2
<1>4. g = [r EXCEPT ![k] = [r[k] EXCEPT !.length = n]]
  BY Zenon DEF Grown
<1>5. /\ [x EXCEPT !.length = n] \in Runs
      /\ [x EXCEPT !.length = n].vcn = x.vcn
      /\ [x EXCEPT !.length = n].lcn = x.lcn
      /\ [x EXCEPT !.length = n].length = n
  BY <1>3, RunCut, Zenon
<1> HIDE DEF n
<1>6. /\ g \in Seq(Runs) /\ Len(g) = k /\ DOMAIN g = DOMAIN r
      /\ g[k] = [x EXCEPT !.length = n]
      /\ \A i \in DOMAIN r : i # k => g[i] = r[i]
  BY <1>0, <1>2, <1>4, <1>5
<1> HIDE DEF k
<1>7. /\ g[k].vcn = r[k].vcn /\ g[k].lcn = r[k].lcn
      /\ g[k].length = r[k].length + 1
  BY <1>5, <1>6, Zenon DEF n
<1>8. ASSUME NEW i \in DOMAIN r
      PROVE  /\ g[i].vcn = r[i].vcn /\ g[i].lcn = r[i].lcn
             /\ i # k => g[i].length = r[i].length
             /\ g[i].length \in Nat
  <2>1. CASE i = k
    BY <2>1, <1>1, <1>7
  <2>2. CASE i # k
    <3>1. g[i] = r[i]
      BY <2>2, <1>6, Zenon
    <3> QED
      BY <3>1, <2>2, <1>1, Zenon
  <2> QED
    BY <2>1, <2>2, Zenon
<1>9. g # <<>> /\ EndVcn(g) = EndVcn(r) + 1
  <2>1. g # <<>> /\ EndVcn(g) = g[k].vcn + g[k].length
    BY ONLY <1>2, <1>6 DEF EndVcn, Last
  <2>2. r[k].vcn \in Nat /\ r[k].length \in Nat /\ EndVcn(r) = r[k].vcn + r[k].length
    BY <1>1, <1>2, Zenon
  <2> QED
    BY <2>1, <2>2, <1>7, SMTT(60)
<1>10. RunsOrdered(g)
  <2> SUFFICES ASSUME NEW i \in DOMAIN r, NEW j \in DOMAIN r, i < j
               PROVE  g[i].vcn + g[i].length <= g[j].vcn
    BY <1>6, Zenon DEF RunsOrdered
  <2>1. i # k /\ r[i].vcn + r[i].length <= r[j].vcn
    BY <1>1 DEF Sound, RunsOrdered
  <2> QED
    BY <2>1, <1>8, Zenon
<1>11. RunsAdjacent(g)
  <2> SUFFICES ASSUME NEW i \in 1..(k - 1)
               PROVE  g[i + 1].vcn = g[i].vcn + g[i].length
    BY <1>6, Zenon DEF RunsAdjacent
  <2>1. i \in DOMAIN r /\ i + 1 \in DOMAIN r /\ i # k
    BY <1>0, <1>2 DEF k
  <2>2. r[i + 1].vcn = r[i].vcn + r[i].length
    BY Zenon DEF Sound, RunsAdjacent, k
  <2> QED
    BY <2>1, <2>2, <1>8, Zenon
<1>12. RunsCover(g)
  <2> SUFFICES ASSUME NEW w \in r[1].vcn..EndVcn(r)
               PROVE  Covering(g, w) # {}
    <3>1. g[1].vcn = r[1].vcn /\ EndVcn(g) - 1 = EndVcn(r)
      BY ONLY <1>2, <1>8, <1>9
    <3> QED
      BY <3>1, Zenon DEF RunsCover
  <2>1. w \in Int /\ r[1].vcn <= w /\ w <= EndVcn(r)
    BY <1>1, <1>2
  <2>2. CASE w = EndVcn(r)
    <3>1. g[k].vcn <= w /\ w < g[k].vcn + g[k].length
      BY <2>2, <1>1, <1>2, <1>7, SMTT(60)
    <3> QED
      BY <3>1, <1>2, <1>6, Zenon DEF Covering
  <2>3. CASE w # EndVcn(r)
    <3>1. w \in r[1].vcn..(EndVcn(r) - 1)
      BY <2>1, <2>3, <1>1, <1>2
    <3>2. PICK i \in DOMAIN r : r[i].vcn <= w /\ w < r[i].vcn + r[i].length
      BY <3>1, Zenon DEF Sound, RunsCover, Covering
    <3>3. g[i].vcn <= w /\ w < g[i].vcn + g[i].length
      <4>1. CASE i = k
        BY <3>2, <4>1, <2>1, <1>1, <1>7, SMTT(60)
      <4>2. CASE i # k
        BY <3>2, <4>2, <1>8, Zenon
      <4> QED
        BY <4>1, <4>2, Zenon
    <3> QED
      BY <3>3, <1>6, Zenon DEF Covering
  <2> QED
    BY <2>2, <2>3, Zenon
<1>13. RunsInside(g)
  <2> SUFFICES ASSUME NEW i \in DOMAIN r, g[i].lcn # Hole
               PROVE  g[i].lcn + g[i].length <= NrClusters
    BY <1>6, Zenon DEF RunsInside
  <2>1. CASE i = k
    <3>1. c \in Int /\ c < NrClusters
      BY VolumeSize DEF Clusters
    <3>2. r[k].lcn \in Int /\ r[k].length \in Nat /\ c = r[k].lcn + r[k].length
      BY <1>1, <1>2, Zenon
    <3> QED
      BY <2>1, <3>1, <3>2, <1>7, VolumeSize
  <2>2. CASE i # k
    BY <2>2, <1>8, Zenon DEF Sound, RunsInside
  <2> QED
    BY <2>1, <2>2, Zenon
<1>14. RunClusters(g[k]) = RunClusters(r[k]) \cup {c}
  <2> DEFINE l == r[k].lcn
             q == r[k].length
  <2>1. /\ RunClusters(g[k]) = l..(l + (q + 1) - 1)
        /\ RunClusters(r[k]) = l..(l + q - 1)
        /\ c = l + q /\ l \in Int /\ q \in Nat
    BY <1>1, <1>2, <1>7, Zenon DEF RunClusters
  <2> HIDE DEF l, q
  <2> QED
    BY <2>1
<1>15. ASSUME NEW i \in DOMAIN r, i # k
       PROVE  RunClusters(g[i]) = RunClusters(r[i])
  BY <1>6, <1>15, Zenon
<1>16. RlClusters(g) = RlClusters(r) \cup {c}
  BY <1>2, <1>6, <1>14, <1>15 DEF RlClusters
<1>17. \A i \in DOMAIN r : c \notin RunClusters(r[i])
  BY Zenon DEF RlClusters
<1>18. RunsDisjoint(g)
  <2> SUFFICES ASSUME NEW i \in DOMAIN r, NEW j \in DOMAIN r, i # j,
                      NEW d \in RunClusters(g[i]), d \in RunClusters(g[j])
               PROVE  FALSE
    BY <1>6, Zenon DEF RunsDisjoint
  <2>1. RunClusters(r[i]) \cap RunClusters(r[j]) = {}
    BY Zenon DEF Sound, RunsDisjoint
  <2> QED
    BY <2>1, <1>14, <1>15, <1>17, Zenon
<1> QED
  BY <1>6, <1>8, <1>9, <1>10, <1>11, <1>12, <1>13, <1>16, <1>18, Zenon DEF
     Sound, k

\* A run of one cluster is appended.
LEMMA AppendRun ==
    ASSUME NEW r, Sound(r), NEW c \in Clusters, c \notin RlClusters(r),
           NEW g, g = Extended(r, c)
    PROVE  /\ Sound(g)
           /\ RlClusters(g) = RlClusters(r) \cup {c}
           /\ EndVcn(g) = EndVcn(r) + 1
           /\ Len(g) = Len(r) + 1
           /\ \A i \in DOMAIN r : i \in DOMAIN g /\ g[i] = r[i]
           /\ g[Len(g)].lcn = c
<1>0. r \in Seq(Runs) /\ r # <<>>
  BY Zenon DEF Sound
<1> DEFINE k == Len(r) + 1
           x == Run(EndVcn(r), c, 1)
<1>1. \A i \in DOMAIN r : /\ i \in Nat /\ 1 <= i /\ i < k /\ k \in Nat
                          /\ r[i] \in Runs /\ r[i].lcn \in Int
                          /\ r[i].vcn \in Nat /\ r[i].length \in Nat
                          /\ r[i].length > 0
  BY <1>0, RunFields
<1>2. /\ k \in Nat /\ k > 1 /\ 1 \in DOMAIN r /\ Len(r) \in DOMAIN r
      /\ EndVcn(r) \in Nat /\ c \in Nat /\ c < NrClusters
      /\ EndVcn(r) = r[Len(r)].vcn + r[Len(r)].length
  BY <1>0, Ends, VolumeSize DEF Clusters
<1>3. x \in Runs /\ x.vcn = EndVcn(r) /\ x.lcn = c /\ x.length = 1
  BY <1>2 DEF Run, Runs
<1> HIDE DEF x
<1>4. /\ g \in Seq(Runs) /\ Len(g) = k /\ g # <<>> /\ g[k] = x
      /\ \A i \in DOMAIN r : i \in DOMAIN g /\ g[i] = r[i]
      /\ \A i \in DOMAIN g : i \in DOMAIN r \/ i = k
      /\ k \in DOMAIN g
  <2>1. g = Append(r, x)
    BY Zenon DEF Extended, x
  <2> QED
    BY <1>0, <1>3, <2>1
<1> HIDE DEF k
<1>5. EndVcn(g) = EndVcn(r) + 1
  BY <1>3, <1>4, Zenon DEF EndVcn, Last
<1>6. RunsOrdered(g)
  <2> SUFFICES ASSUME NEW i \in DOMAIN g, NEW j \in DOMAIN g, i < j
               PROVE  g[i].vcn + g[i].length <= g[j].vcn
    BY Zenon DEF RunsOrdered
  <2>1. i \in DOMAIN r
    BY <1>1, <1>2, <1>4
  <2>2. CASE j \in DOMAIN r
    BY <2>1, <2>2, <1>4, Zenon DEF Sound, RunsOrdered
  <2>3. CASE j = k
    BY <2>1, <2>3, <1>3, <1>4, BeforeEnd
  <2> QED
    BY <2>2, <2>3, <1>4, Zenon
<1>7. RunsAdjacent(g)
  <2> SUFFICES ASSUME NEW i \in 1..(k - 1)
               PROVE  g[i + 1].vcn = g[i].vcn + g[i].length
    BY <1>4, Zenon DEF RunsAdjacent
  <2>1. i \in DOMAIN r /\ (i = Len(r) \/ i \in 1..(Len(r) - 1))
    BY <1>0, <1>2 DEF k
  <2>2. CASE i = Len(r)
    <3>1. i + 1 = k
      BY <2>2, Zenon DEF k
    <3> QED
      BY <2>1, <2>2, <3>1, <1>2, <1>3, <1>4, Zenon
  <2>3. CASE i \in 1..(Len(r) - 1)
    <3>1. i + 1 \in DOMAIN r /\ r[i + 1].vcn = r[i].vcn + r[i].length
      BY <2>3, <1>0 DEF Sound, RunsAdjacent
    <3> QED
      BY <3>1, <2>1, <1>4, Zenon
  <2> QED
    BY <2>1, <2>2, <2>3, Zenon
<1>8. RunsCover(g)
  <2> SUFFICES ASSUME NEW w \in r[1].vcn..EndVcn(r)
               PROVE  Covering(g, w) # {}
    BY <1>2, <1>4, <1>5, SMTT(60) DEF RunsCover
  <2>1. w \in Int /\ r[1].vcn <= w /\ w <= EndVcn(r)
    BY <1>1, <1>2
  <2>2. CASE w = EndVcn(r)
    <3>1. g[k].vcn <= w /\ w < g[k].vcn + g[k].length
      BY <2>2, <1>2, <1>3, <1>4
    <3> QED
      BY <3>1, <1>4, Zenon DEF Covering
  <2>3. CASE w # EndVcn(r)
    <3>1. w \in r[1].vcn..(EndVcn(r) - 1)
      BY <2>1, <2>3, <1>1, <1>2
    <3>2. PICK i \in DOMAIN r : r[i].vcn <= w /\ w < r[i].vcn + r[i].length
      BY <3>1, Zenon DEF Sound, RunsCover, Covering
    <3> QED
      BY <3>2, <1>4, Zenon DEF Covering
  <2> QED
    BY <2>2, <2>3, Zenon
<1>9. RunsInside(g)
  <2> SUFFICES ASSUME NEW i \in DOMAIN g, g[i].lcn # Hole
               PROVE  g[i].lcn + g[i].length <= NrClusters
    BY Zenon DEF RunsInside
  <2>1. CASE i = k
    BY <2>1, <1>2, <1>3, <1>4, VolumeSize
  <2>2. CASE i \in DOMAIN r
    BY <2>2, <1>4, Zenon DEF Sound, RunsInside
  <2> QED
    BY <2>1, <2>2, <1>4, Zenon
<1>10. RunClusters(g[k]) = {c}
  <2>1. RunClusters(x) = c..(c + 1 - 1)
    BY <1>2, <1>3 DEF RunClusters, Hole
  <2> QED
    BY <2>1, <1>2, <1>4
<1>11. RlClusters(g) = RlClusters(r) \cup {c}
  BY <1>4, <1>10 DEF RlClusters
<1>12. \A i \in DOMAIN r : c \notin RunClusters(r[i])
  BY Zenon DEF RlClusters
<1>13. RunsDisjoint(g)
  <2> SUFFICES ASSUME NEW i \in DOMAIN g, NEW j \in DOMAIN g, i # j,
                      NEW d \in RunClusters(g[i]), d \in RunClusters(g[j])
               PROVE  FALSE
    BY Zenon DEF RunsDisjoint
  <2>1. \A a, b \in DOMAIN r : a # b => RunClusters(r[a]) \cap RunClusters(r[b]) = {}
    BY Zenon DEF Sound, RunsDisjoint
  <2> QED
    BY <2>1, <1>4, <1>10, <1>12
<1> QED
  BY <1>3, <1>4, <1>5, <1>6, <1>7, <1>8, <1>9, <1>11, <1>13, Zenon DEF Sound, k

\* A runlist of one cluster.
LEMMA FirstRun ==
    ASSUME NEW v \in Nat, NEW c \in Clusters, NEW g, g = <<Run(v, c, 1)>>
    PROVE  /\ Sound(g)
           /\ RlClusters(g) = {c}
           /\ EndVcn(g) = v + 1
           /\ Len(g) = 1 /\ g[1].vcn = v /\ g[1].lcn = c
<1> DEFINE x == Run(v, c, 1)
<1>1. c \in Nat /\ c < NrClusters /\ c # Hole
  BY VolumeSize DEF Clusters, Hole
<1>2. x \in Runs /\ x.vcn = v /\ x.lcn = c /\ x.length = 1
  BY <1>1 DEF Run, Runs
<1> HIDE DEF x
<1>3. g \in Seq(Runs) /\ g # <<>> /\ Len(g) = 1 /\ g[1] = x /\ DOMAIN g = {1}
  BY <1>2 DEF x
<1>4. EndVcn(g) = v + 1
  BY <1>2, <1>3, Zenon DEF EndVcn, Last
<1>5. RunClusters(x) = {c}
  <2>1. RunClusters(x) = c..(c + 1 - 1)
    BY <1>1, <1>2, Zenon DEF RunClusters
  <2> QED
    BY <2>1, <1>1
<1>6. RlClusters(g) = {c}
  BY <1>3, <1>5, Zenon DEF RlClusters
<1>7. RunsOrdered(g) /\ RunsDisjoint(g)
  BY <1>3 DEF RunsOrdered, RunsDisjoint
<1>8. RunsAdjacent(g)
  BY <1>3 DEF RunsAdjacent
<1>9. RunsInside(g)
  BY <1>1, <1>2, <1>3, VolumeSize DEF RunsInside
<1>10. RunsCover(g)
  <2> SUFFICES ASSUME NEW w \in v..v
               PROVE  Covering(g, w) # {}
    BY <1>2, <1>3, <1>4 DEF RunsCover
  <2> QED
    BY <1>2, <1>3 DEF Covering
<1> QED
  BY <1>2, <1>3, <1>4, <1>6, <1>7, <1>8, <1>9, <1>10, Zenon DEF Sound

\* A fragment behind a hole.
LEMMA BehindHole ==
    ASSUME NEW r, Sound(r)
    PROVE  /\ Sound(Merged(r))
           /\ Merged(r)[1].vcn = 0
           /\ RlClusters(Merged(r)) = RlClusters(r)
<1>0. r \in Seq(Runs) /\ r # <<>>
  BY Zenon DEF Sound
<1>1. \A i \in DOMAIN r : /\ i \in Nat /\ 1 <= i /\ i <= Len(r) /\ Len(r) \in Nat
                          /\ r[i] \in Runs /\ r[i].lcn \in Int
                          /\ r[i].vcn \in Nat /\ r[i].length \in Nat
                          /\ r[i].length > 0
  BY <1>0, RunFields, Zenon
<1>2. /\ Len(r) \in Nat /\ Len(r) >= 1 /\ 1 \in DOMAIN r /\ Len(r) \in DOMAIN r
      /\ EndVcn(r) \in Nat /\ DOMAIN r = 1..Len(r)
  BY <1>0, Ends
<1>3. CASE r[1].vcn = 0
  BY <1>3, Zenon DEF Merged
<1>4. CASE r[1].vcn # 0
  <2> DEFINE v == r[1].vcn
             x == Run(0, Hole, v)
             g == <<x>> \o r
  <2>1. v \in Nat \ {0}
    BY <1>1, <1>2, <1>4, Zenon
  <2>2. x \in Runs /\ x.vcn = 0 /\ x.lcn = Hole /\ x.length = v
    BY <2>1, Zenon DEF Run, Runs
  <2> HIDE DEF x
  <2>3. /\ g \in Seq(Runs) /\ g # <<>> /\ Len(g) = Len(r) + 1 /\ g[1] = x
        /\ \A i \in 1..Len(r) : g[i + 1] = r[i]
        /\ DOMAIN g = 1..(Len(r) + 1)
    BY <1>0, <2>2
  <2>4. Merged(r) = g
    BY <1>4, Zenon DEF Merged, x
  <2> HIDE DEF g, v
  <2>5. ASSUME NEW i \in DOMAIN g
        PROVE  \/ i = 1 /\ g[i] = x
               \/ i > 1 /\ i - 1 \in DOMAIN r /\ g[i] = r[i - 1] /\ i \in Nat
    <3>1. i = 1 \/ i - 1 \in 1..Len(r)
      BY <2>3, <1>2
    <3>2. i \in Int /\ (i - 1) + 1 = i
      BY <2>3, <1>2
    <3> QED
      BY <3>1, <3>2, <2>3, <1>1, <1>2
  <2>6. EndVcn(g) = EndVcn(r)
    BY <2>3, <1>2, Zenon DEF EndVcn, Last
  <2>7. RunsOrdered(g)
    <3> SUFFICES ASSUME NEW i \in DOMAIN g, NEW j \in DOMAIN g, i < j
                 PROVE  g[i].vcn + g[i].length <= g[j].vcn
      BY Zenon DEF RunsOrdered
    <3>1. j > 1 /\ j - 1 \in DOMAIN r /\ g[j] = r[j - 1] /\ j \in Nat
      BY <2>3, <2>5
    <3>2. CASE i = 1
      BY <3>1, <3>2, <2>1, <2>2, <2>3, BeforeEnd DEF v
    <3>3. CASE i > 1
      <4>1. i - 1 \in DOMAIN r /\ g[i] = r[i - 1] /\ i \in Nat
        BY <3>3, <2>5
      <4>2. i - 1 < j - 1
        BY <3>1, <4>1
      <4> QED
        BY <3>1, <4>1, <4>2, Zenon DEF Sound, RunsOrdered
    <3> QED
      BY <3>2, <3>3, <2>5, Zenon
  <2>8. RunsAdjacent(g)
    <3> SUFFICES ASSUME NEW i \in 1..Len(r)
                 PROVE  g[i + 1].vcn = g[i].vcn + g[i].length
      BY <2>3, <1>2 DEF RunsAdjacent
    <3>1. g[i + 1] = r[i]
      BY <2>3, Zenon
    <3>2. CASE i = 1
      BY <3>1, <3>2, <2>1, <2>2, <2>3 DEF v
    <3>3. CASE i # 1
      <4>1. i - 1 \in 1..(Len(r) - 1) /\ (i - 1) + 1 = i /\ i - 1 \in 1..Len(r)
        BY <3>3, <1>2
      <4>2. r[(i - 1) + 1].vcn = r[i - 1].vcn + r[i - 1].length
        BY <4>1, Zenon DEF Sound, RunsAdjacent
      <4>3. g[(i - 1) + 1] = r[i - 1]
        BY <4>1, <2>3, Zenon
      <4> QED
        BY <3>1, <4>1, <4>2, <4>3, Zenon
    <3> QED
      BY <3>2, <3>3, Zenon
  <2>9. RunsCover(g)
    <3> SUFFICES ASSUME NEW w \in 0..(EndVcn(r) - 1)
                 PROVE  Covering(g, w) # {}
      BY <2>2, <2>3, <2>6, Zenon DEF RunsCover
    <3>1. CASE w < v
      <4>1. 1 \in DOMAIN g /\ g[1].vcn <= w /\ w < g[1].vcn + g[1].length
        BY <3>1, <1>2, <2>1, <2>2, <2>3
      <4> QED
        BY <4>1, Zenon DEF Covering
    <3>2. CASE ~(w < v)
      <4>1. w \in v..(EndVcn(r) - 1)
        BY <3>2, <1>2, <2>1
      <4>2. PICK i \in DOMAIN r : r[i].vcn <= w /\ w < r[i].vcn + r[i].length
        BY <4>1, Zenon DEF Sound, RunsCover, Covering, v
      <4>3. i + 1 \in DOMAIN g /\ g[i + 1] = r[i]
        BY <1>2, <2>3
      <4> QED
        BY <4>2, <4>3, Zenon DEF Covering
    <3> QED
      BY <3>1, <3>2, Zenon
  <2>10. RunsInside(g)
    BY <2>2, <2>5, Zenon DEF Sound, RunsInside
  <2>11. RunClusters(x) = {}
    BY <2>2, Zenon DEF RunClusters
  <2>12. RunsDisjoint(g)
    <3> SUFFICES ASSUME NEW i \in DOMAIN g, NEW j \in DOMAIN g, i # j
                 PROVE  RunClusters(g[i]) \cap RunClusters(g[j]) = {}
      BY Zenon DEF RunsDisjoint
    <3>1. CASE i = 1 \/ j = 1
      BY <3>1, <2>3, <2>11, Zenon
    <3>2. CASE i # 1 /\ j # 1
      <4>1. /\ i - 1 \in DOMAIN r /\ g[i] = r[i - 1] /\ i \in Nat
            /\ j - 1 \in DOMAIN r /\ g[j] = r[j - 1] /\ j \in Nat
        BY <3>2, <2>5, Zenon
      <4>2. i - 1 # j - 1
        BY <4>1
      <4> QED
        BY <4>1, <4>2, Zenon DEF Sound, RunsDisjoint
    <3> QED
      BY <3>1, <3>2, Zenon
  <2>13. RlClusters(g) = RlClusters(r)
    <3>1. ASSUME NEW i \in DOMAIN g
          PROVE  RunClusters(g[i]) \subseteq RlClusters(r)
      BY <2>5, <2>11, Zenon DEF RlClusters
    <3>2. ASSUME NEW i \in DOMAIN r
          PROVE  RunClusters(r[i]) \subseteq RlClusters(g)
      <4>1. i + 1 \in DOMAIN g /\ g[i + 1] = r[i]
        BY <1>2, <2>3
      <4> QED
        BY <4>1, Zenon DEF RlClusters
    <3> QED
      BY <3>1, <3>2, Zenon DEF RlClusters
  <2> QED
    BY <2>2, <2>3, <2>4, <2>7, <2>8, <2>9, <2>10, <2>12, <2>13, Zenon DEF Sound
<1> QED
  BY <1>3, <1>4, Zenon
-----------------------------------------------------------------------------
\* The runlist that is being built.
BuildSound ==
    /\ rl # <<>> =>
          /\ Sound(rl)
          /\ rl[1].vcn = req.start_vcn
          /\ EndVcn(rl) = req.start_vcn + (req.count - clusters)
          /\ \A i \in DOMAIN rl : rl[i].lcn # Hole
          /\ \A i \in 1..(Len(rl) - 1) :
                rl[i + 1].lcn # rl[i].lcn + rl[i].length
          /\ RlClusters(rl) \cap before = {}
    /\ Cardinality(RlClusters(rl)) = req.count - clusters
    /\ Searching => clusters > 0 /\ err = "none"
    /\ pc = "out" /\ err = "none" => clusters = 0
    /\ pc \notin {"idle", "free"} => req \in Requests
    /\ pc = "idle" => rl = <<>>
    /\ rl = <<>> => clusters = req.count
    /\ pc = "idle" => req = NoReq
    /\ pc \notin {"idle", "free"} => used = before \cup RlClusters(rl)

Builds ==
    /\ rl \in Seq(Runs) /\ clusters \in Nat /\ req \in Requests \cup {NoReq}
    /\ pc \in {"idle", "map", "scan", "passdone", "switch", "alldone", "out",
               "free"}
    /\ BuildSound

-----------------------------------------------------------------------------
(***************************************************************************)
(* Counting clusters.                                                      *)
(***************************************************************************)
\* What counting clusters amounts to.  The lemmas below that need it assume
\* it, and CountingHolds proves it at the end of ClusterAllocOwners.
Counting ==
    /\ Cardinality({}) = 0
    /\ \A c : Cardinality({c}) = 1
    /\ \A S \in SUBSET Clusters :
          /\ Cardinality(S) \in Nat /\ Cardinality(S) <= NrClusters
          /\ Cardinality(S) = 0 => S = {}
    /\ \A U, B \in SUBSET Clusters :
          U \cap B = {} => Cardinality(U \cup B) = Cardinality(U) + Cardinality(B)
    /\ \A U \in SUBSET Clusters : \A B \in SUBSET U :
          Cardinality(U \ B) = Cardinality(U) - Cardinality(B)

\* The number of clusters of a part of the volume.
LEMMA CountType ==
    ASSUME Counting, NEW S \in SUBSET Clusters
    PROVE  Cardinality(S) \in Nat /\ Cardinality(S) <= NrClusters
BY Zenon DEF Counting

\* Taking clusters out of the bitmap, or putting them in.
LEMMA CountOut ==
    ASSUME Counting, NEW U \in SUBSET Clusters, NEW B \in SUBSET U
    PROVE  /\ U \ B \in SUBSET Clusters
           /\ Clamp(NrClusters - Cardinality(U) + Cardinality(B))
                = NrClusters - Cardinality(U \ B)
<1>2. Cardinality(U \ B) = Cardinality(U) - Cardinality(B)
  BY Zenon DEF Counting
<1>3. /\ Cardinality(U) \in Nat /\ Cardinality(B) \in Nat
      /\ Cardinality(U \ B) \in Nat /\ Cardinality(U \ B) <= NrClusters
      /\ NrClusters \in Nat
  BY CountType, VolumeSize, Zenon
<1> DEFINE u == Cardinality(U)
           b == Cardinality(B)
           d == Cardinality(U \ B)
<1>4. Clamp(NrClusters - u + b) = NrClusters - d
  <2> HIDE DEF u, b, d
  <2> SUFFICES ASSUME u \in Nat, b \in Nat, d \in Nat, d <= NrClusters,
                      NrClusters \in Nat, d = u - b
               PROVE  Clamp(NrClusters - u + b) = NrClusters - d
    BY <1>2, <1>3, Zenon DEF u, b, d
  <2> QED
    BY DEF Clamp
<1> QED
  BY <1>4, Zenon

\* What the count of free clusters becomes when clusters are allocated.
LEMMA CountIn ==
    ASSUME Counting,
           NEW U \in SUBSET Clusters, NEW B \in SUBSET Clusters, U \cap B = {}
    PROVE  /\ U \cup B \in SUBSET Clusters
           /\ Clamp(NrClusters - Cardinality(U) - Cardinality(B))
                = NrClusters - Cardinality(U \cup B)
<1>2. Cardinality(U \cup B) = Cardinality(U) + Cardinality(B)
  BY Zenon DEF Counting
<1>3. /\ Cardinality(U) \in Nat /\ Cardinality(B) \in Nat
      /\ Cardinality(U \cup B) \in Nat /\ Cardinality(U \cup B) <= NrClusters
      /\ NrClusters \in Nat
  BY CountType, VolumeSize, Zenon
<1> DEFINE u == Cardinality(U)
           b == Cardinality(B)
           d == Cardinality(U \cup B)
<1>4. Clamp(NrClusters - u - b) = NrClusters - d
  <2> HIDE DEF u, b, d
  <2> SUFFICES ASSUME u \in Nat, b \in Nat, d \in Nat, d <= NrClusters,
                      NrClusters \in Nat, d = u + b
               PROVE  Clamp(NrClusters - u - b) = NrClusters - d
    BY <1>2, <1>3, Zenon DEF u, b, d
  <2> QED
    BY DEF Clamp
<1> QED
  BY <1>4, Zenon

\* No clusters count nothing.
LEMMA CountNone ==
    ASSUME Counting
    PROVE  /\ Cardinality({}) = 0
           /\ \A S \in SUBSET Clusters : Cardinality(S) = 0 => S = {}
BY Zenon DEF Counting

\* A cluster counts one.
LEMMA CountOne ==
    ASSUME Counting
    PROVE  /\ \A c : Cardinality({c}) = 1
           /\ \A S \in SUBSET Clusters : \A c \in Clusters :
                 c \notin S => Cardinality(S \cup {c}) = Cardinality(S) + 1
<1>1. \A c : Cardinality({c}) = 1
  BY Zenon DEF Counting
<1>2. ASSUME NEW S \in SUBSET Clusters, NEW c \in Clusters, c \notin S
      PROVE  Cardinality(S \cup {c}) = Cardinality(S) + Cardinality({c})
  BY <1>2, SMTT(60) DEF Counting
<1> QED
  BY <1>1, <1>2, Zenon

-----------------------------------------------------------------------------
\* The clusters of a sound runlist are clusters of the volume.
LEMMA SoundInside ==
    ASSUME NEW r, Sound(r)
    PROVE  RlClusters(r) \subseteq Clusters
<1> SUFFICES ASSUME NEW i \in DOMAIN r, NEW c \in RunClusters(r[i])
             PROVE  c \in Clusters
  BY Zenon DEF RlClusters
<1>1. /\ r[i].lcn \in Int /\ r[i].lcn >= -1 /\ r[i].length \in Nat
      /\ r[i].lcn # Hole => r[i].lcn \in Nat
  BY RunFields, Zenon DEF Sound
<1>2. r[i].lcn # Hole /\ c \in r[i].lcn..(r[i].lcn + r[i].length - 1)
  BY Zenon DEF RunClusters
<1>3. r[i].lcn + r[i].length <= NrClusters
  BY <1>2, Zenon DEF Sound, RunsInside
<1> QED
  BY <1>1, <1>2, <1>3, VolumeSize DEF Clusters

\* An empty runlist has no clusters.
LEMMA EmptyRunlist ==
    ASSUME Counting
    PROVE  RlClusters(<<>>) = {} /\ Cardinality(RlClusters(<<>>)) = 0
<1>1. RlClusters(<<>>) = {}
  BY DEF RlClusters
<1> QED
  BY <1>1, CountNone, Zenon

\* What is asked of an allocation.
LEMMA RequestCount ==
    ASSUME NEW r \in Requests \cup {NoReq}
    PROVE  /\ r.count \in Nat /\ r.start_vcn \in Nat
           /\ r \in Requests => r.count > 0
           /\ r = NoReq => r.count = 0
BY ClusterAllocAssumption DEF NoReq
-----------------------------------------------------------------------------
(***************************************************************************)
(* The runlist that ntfs_cluster_alloc() builds.                           *)
(***************************************************************************)

\* At first nothing is being built.
LEMMA InitBuilds ==
    ASSUME Counting
    PROVE  Init => Builds
<1> SUFFICES ASSUME Init
             PROVE  Builds
  OBVIOUS
<1>1. rl = <<>> /\ pc = "idle" /\ req = NoReq /\ clusters = 0
  BY Zenon DEF Init
<1>2. req.count = 0
  BY <1>1, Zenon DEF NoReq
<1> QED
  BY <1>1, <1>2, EmptyRunlist DEF Builds, BuildSound, Searching

\* Steps that only move the search.
LEMMA QuietBuilds ==
    ASSUME Builds, Searching,
           UNCHANGED <<used, rl, clusters, req, before>>,
           \/ Searching' /\ err' = err
           \/ pc' = "out" /\ err' # "none"
    PROVE  Builds'
<1>1. /\ pc \notin {"idle", "free", "out"} /\ pc' \notin {"idle", "free"}
      /\ err = "none"
  BY Zenon DEF Searching, Builds, BuildSound
<1> QED
  BY <1>1, Zenon DEF Builds, BuildSound, Searching

\* An allocation begins with an empty runlist.
LEMMA StartAllocBuilds ==
    ASSUME Counting, Builds, NEW r \in Requests, StartAlloc(r)
    PROVE  Builds'
<1>1. /\ pc = "idle" /\ pc' = "map" /\ err' = "none" /\ req' = r
      /\ clusters' = r.count /\ before' = used /\ used' = used /\ rl' = rl
  BY Zenon DEF StartAlloc, bitmapVars
<1>2. rl = <<>> /\ r.count \in Nat /\ r.count > 0
  BY <1>1, RequestCount, Zenon DEF Builds, BuildSound
<1>3. Cardinality(RlClusters(rl')) = req'.count - clusters'
  BY <1>1, <1>2, EmptyRunlist
<1>4. used' = before' \cup RlClusters(rl')
  BY <1>1, <1>2, EmptyRunlist, Zenon
<1> QED
  BY <1>1, <1>2, <1>3, <1>4, Zenon DEF Builds, BuildSound, Searching

\* The runs before the last.
LEMMA Before ==
    ASSUME NEW n \in Nat, NEW i \in 1..(n - 1)
    PROVE  i \in 1..n /\ i + 1 \in 1..n /\ i # n
OBVIOUS

\* The runs of a runlist that grew.
LEMMA UpTo ==
    ASSUME NEW n \in Nat, NEW i \in 1..((n + 1) - 1)
    PROVE  i \in 1..n /\ (i = n \/ i \in 1..(n - 1))
OBVIOUS

\* One more cluster on the runlist that is built.
LEMMA AddClusterSound ==
    ASSUME Counting,
           Builds, Searching, NEW c \in Clusters, c \notin RlClusters(rl),
           NEW g, g = AddCluster(c)
    PROVE  /\ Sound(g) /\ g[1].vcn = req.start_vcn
           /\ EndVcn(g) = req.start_vcn + (req.count - clusters) + 1
           /\ \A i \in DOMAIN g : g[i].lcn # Hole
           /\ \A i \in 1..(Len(g) - 1) : g[i + 1].lcn # g[i].lcn + g[i].length
           /\ RlClusters(g) = RlClusters(rl) \cup {c}
<1>0. /\ req.start_vcn \in Nat /\ req.count \in Nat /\ clusters \in Nat
      /\ c \in Nat /\ c # Hole
  BY RequestCount, VolumeSize DEF Builds, Clusters, Hole
<1>a. c \in Clusters /\ c \notin RlClusters(rl)
  OBVIOUS
<1>1. CASE rl = <<>>
  <2>1. clusters = req.count
    BY <1>1, Zenon DEF Builds, BuildSound
  <2>2. g = <<Run(req.start_vcn, c, 1)>>
    BY <1>1 DEF AddCluster
  <2>3. /\ Sound(g) /\ RlClusters(g) = {c} /\ EndVcn(g) = req.start_vcn + 1
        /\ Len(g) = 1 /\ g[1].vcn = req.start_vcn /\ g[1].lcn = c
    BY <1>0, <2>2, FirstRun
  <2>4. DOMAIN g = {1} /\ 1..(Len(g) - 1) = {}
    BY <2>3 DEF Sound
  <2> QED
    BY <1>0, <1>1, <2>1, <2>3, <2>4, EmptyRunlist
<1>2. CASE rl # <<>>
  <2>1. /\ Sound(rl) /\ rl[1].vcn = req.start_vcn
        /\ EndVcn(rl) = req.start_vcn + (req.count - clusters)
        /\ \A i \in DOMAIN rl : rl[i].lcn # Hole
        /\ \A i \in 1..(Len(rl) - 1) : rl[i + 1].lcn # rl[i].lcn + rl[i].length
    BY <1>2, Zenon DEF Builds, BuildSound
  <2>2. /\ Len(rl) \in DOMAIN rl /\ 1 \in DOMAIN rl /\ Len(rl) \in Nat
        /\ DOMAIN rl = 1..Len(rl) /\ EndVcn(rl) \in Nat
        /\ EndLcn(rl) = rl[Len(rl)].lcn + rl[Len(rl)].length
    BY <2>1, Ends DEF Sound
  <2>a. Sound(rl)
    BY <2>1, Zenon
  <2>3. CASE EndLcn(rl) = c
    <3>1. g = Grown(rl)
      BY <1>2, <2>3, Zenon DEF AddCluster, Grown
    <3>2. /\ Sound(g) /\ RlClusters(g) = RlClusters(rl) \cup {c}
          /\ EndVcn(g) = EndVcn(rl) + 1
          /\ Len(g) = Len(rl) /\ DOMAIN g = DOMAIN rl
          /\ \A i \in DOMAIN rl : /\ g[i].vcn = rl[i].vcn /\ g[i].lcn = rl[i].lcn
                                  /\ i # Len(rl) => g[i].length = rl[i].length
      <4>1. rl[Len(rl)].lcn # Hole
        BY <2>1, <2>2, Zenon
      <4> QED
        BY ONLY <1>a, <2>a, <2>3, <3>1, <4>1, GrowLast
    <3>3. ASSUME NEW i \in 1..(Len(g) - 1)
          PROVE  g[i + 1].lcn # g[i].lcn + g[i].length
      <4>0. i \in 1..(Len(rl) - 1)
        BY ONLY <3>2, <3>3, Zenon
      <4>1. i \in DOMAIN rl /\ i + 1 \in DOMAIN rl /\ i # Len(rl)
        <5>1. i \in 1..Len(rl) /\ i + 1 \in 1..Len(rl) /\ i # Len(rl)
          BY ONLY <2>2, <4>0, Before, Zenon
        <5> QED
          BY ONLY <2>2, <5>1, Zenon
      <4>2. rl[i + 1].lcn # rl[i].lcn + rl[i].length
        BY <2>1, <3>2, Zenon
      <4> QED
        BY <3>2, <4>1, <4>2, Zenon
    <3>4. /\ g[1].vcn = req.start_vcn
          /\ EndVcn(g) = req.start_vcn + (req.count - clusters) + 1
          /\ \A i \in DOMAIN g : g[i].lcn # Hole
      BY ONLY <1>0, <2>1, <2>2, <3>2, Zenon
    <3> QED
      BY ONLY <3>2, <3>3, <3>4, Zenon
  <2>4. CASE EndLcn(rl) # c
    <3>1. g = Extended(rl, c)
      BY <1>2, <2>4, Zenon DEF AddCluster, Extended
    <3>2. /\ Sound(g) /\ RlClusters(g) = RlClusters(rl) \cup {c}
          /\ EndVcn(g) = EndVcn(rl) + 1 /\ Len(g) = Len(rl) + 1
          /\ \A i \in DOMAIN rl : i \in DOMAIN g /\ g[i] = rl[i]
          /\ g[Len(g)].lcn = c
      BY ONLY <1>a, <2>a, <3>1, AppendRun
    <3>3. ASSUME NEW i \in 1..(Len(g) - 1)
          PROVE  g[i + 1].lcn # g[i].lcn + g[i].length
      <4>0. i \in 1..((Len(rl) + 1) - 1)
        BY ONLY <3>2, <3>3, Zenon
      <4>1. i \in DOMAIN rl /\ (i = Len(rl) \/ i \in 1..(Len(rl) - 1))
        <5>1. i \in 1..Len(rl) /\ (i = Len(rl) \/ i \in 1..(Len(rl) - 1))
          BY ONLY <2>2, <4>0, UpTo, Zenon
        <5> QED
          BY ONLY <2>2, <5>1, Zenon
      <4>2. CASE i = Len(rl)
        BY <2>2, <2>4, <3>2, <4>1, <4>2, Zenon
      <4>3. CASE i \in 1..(Len(rl) - 1)
        <5>1. i + 1 \in DOMAIN rl /\ rl[i + 1].lcn # rl[i].lcn + rl[i].length
          BY <2>1, <2>2, <4>3
        <5> QED
          BY <3>2, <4>1, <5>1, ZenonT(60)
      <4> QED
        BY <4>1, <4>2, <4>3, Zenon
    <3>4. \A i \in DOMAIN g : i \in DOMAIN rl \/ i = Len(g)
      BY <2>2, <3>2 DEF Sound
    <3> QED
      BY <1>0, <2>1, <2>2, <3>2, <3>3, <3>4, Zenon
  <2> QED
    BY <2>3, <2>4, Zenon
<1> QED
  BY <1>1, <1>2, Zenon

\* A cluster is appended to the runlist.
LEMMA TakeClusterBuilds ==
    ASSUME Counting, Builds, NEW c \in Clusters, TakeCluster(c)
    PROVE  /\ Builds' /\ c \notin used
           /\ RlClusters(rl') = RlClusters(rl) \cup {c}
<1>1. /\ pc = "scan" /\ c \notin used /\ used' = used \cup {c}
      /\ rl' = AddCluster(c) /\ clusters' = clusters - 1
      /\ UNCHANGED <<req, before, err>>
      /\ \/ clusters = 1 /\ pc' = "out"
         \/ clusters > 1 /\ pc' = "scan"
  BY Zenon DEF TakeCluster, NextFree, Available, callVars
<1>2. /\ Searching /\ clusters \in Nat /\ clusters > 0 /\ err = "none"
      /\ req \in Requests /\ req.count \in Nat /\ req.start_vcn \in Nat
  BY <1>1, RequestCount, Zenon DEF Searching, Builds, BuildSound
<1>3. used = before \cup RlClusters(rl) /\ RlClusters(rl) \cap before = {}
  BY <1>1, EmptyRunlist, Zenon DEF Builds, BuildSound
<1>4. c \notin RlClusters(rl) /\ c \notin before
  BY <1>1, <1>3, Zenon
<1> DEFINE g == AddCluster(c)
<1>5. /\ Sound(g) /\ g[1].vcn = req.start_vcn
      /\ EndVcn(g) = req.start_vcn + (req.count - clusters) + 1
      /\ \A i \in DOMAIN g : g[i].lcn # Hole
      /\ \A i \in 1..(Len(g) - 1) : g[i + 1].lcn # g[i].lcn + g[i].length
      /\ RlClusters(g) = RlClusters(rl) \cup {c}
  BY <1>2, <1>4, AddClusterSound, Zenon
<1> HIDE DEF g
<1>6. rl' = g
  BY <1>1, Zenon DEF g
<1>7. Cardinality(RlClusters(g)) = req.count - (clusters - 1)
  <2>1. RlClusters(rl) \in SUBSET Clusters
    BY EmptyRunlist, SoundInside, Zenon DEF Builds, BuildSound
  <2>2. Cardinality(RlClusters(g)) = Cardinality(RlClusters(rl)) + 1
    BY <1>4, <1>5, <2>1, CountOne, Zenon
  <2>3. Cardinality(RlClusters(rl)) = req.count - clusters
    BY Zenon DEF Builds, BuildSound
  <2> QED
    BY <1>2, <2>2, <2>3
<1>8. RlClusters(g) \cap before = {} /\ used' = before \cup RlClusters(g)
  BY <1>1, <1>3, <1>4, <1>5, Zenon
<1>9. EndVcn(g) = req.start_vcn + (req.count - (clusters - 1))
  BY <1>2, <1>5
<1>10. g # <<>> /\ g \in Seq(Runs)
  BY <1>5, Zenon DEF Sound
<1>11. req' = req /\ before' = before /\ err' = err /\ clusters' = clusters - 1
  BY <1>1, Zenon
<1>12. /\ pc' \in {"scan", "out"} /\ (pc' = "scan" => clusters - 1 > 0)
       /\ (pc' = "out" => clusters - 1 = 0) /\ clusters - 1 \in Nat
  BY <1>1, <1>2
<1>13. BuildSound'
  BY ONLY <1>2, <1>5, <1>6, <1>7, <1>8, <1>9, <1>10, <1>11, <1>12, ZenonT(60)
     DEF BuildSound, Searching
<1> QED
  BY <1>1, <1>2, <1>5, <1>6, <1>10, <1>11, <1>12, <1>13, Zenon DEF Builds

\* A call returns.
LEMMA ReturnBuilds ==
    ASSUME Counting, NEW e, NEW F, Return(e, F)
    PROVE  Builds'
<1>1. pc' = "idle" /\ req' = NoReq /\ clusters' = 0 /\ rl' = <<>>
  BY Zenon DEF Return
<1>2. req'.count = 0
  BY <1>1, Zenon DEF NoReq
<1> QED
  BY <1>1, <1>2, EmptyRunlist DEF Builds, BuildSound, Searching

\* Inside a free operation the runlist does not change.
LEMMA FreeBuilds ==
    ASSUME Builds, pc \in {"idle", "out", "free"}, pc' = "free",
           UNCHANGED <<rl, clusters, req, before>>
    PROVE  Builds'
BY Zenon DEF Builds, BuildSound, Searching
-----------------------------------------------------------------------------
(***************************************************************************)
(* All steps.                                                              *)
(***************************************************************************)

Quiet ==
    \/ MapPage \/ MapFails \/ NoMemory \/ PageDone \/ SecondPass \/ ZoneDone
    \/ SwitchToData1 \/ SwitchToData2 \/ NoSpace \/ ShrinkMftZone

\* The steps of the search that take no cluster.
LEMMA QuietSteps ==
    ASSUME Quiet
    PROVE  /\ Searching
           /\ UNCHANGED <<used, nr_free_clusters, errors, rl, clusters, req, fr,
                          before, files>>
           /\ \/ Searching' /\ err' = err
              \/ pc' = "out" /\ err' # "none"
<1> USE DEF Searching, bitmapVars, buildVars, callVars, MapKeep
<1>1. CASE MapPage
  BY <1>1, Zenon DEF MapPage
<1>2. CASE MapFails
  BY <1>2, Zenon DEF MapFails
<1>3. CASE NoMemory
  BY <1>3, Zenon DEF NoMemory
<1>4. CASE PageDone
  BY <1>4, Zenon DEF PageDone
<1>5. CASE SecondPass
  BY <1>5, Zenon DEF SecondPass
<1>6. CASE ZoneDone
  BY <1>6, Zenon DEF ZoneDone
<1>7. CASE SwitchToData1
  BY <1>7, Zenon DEF SwitchToData1, SwitchTo
<1>8. CASE SwitchToData2
  BY <1>8, Zenon DEF SwitchToData2, SwitchTo
<1>9. CASE NoSpace
  BY <1>9, Zenon DEF NoSpace
<1>10. CASE ShrinkMftZone
  BY <1>10, Zenon DEF ShrinkMftZone
<1> QED
  BY <1>1, <1>2, <1>3, <1>4, <1>5, <1>6, <1>7, <1>8, <1>9, <1>10, Zenon DEF
     Quiet

\* The steps, sorted by what they change.
LEMMA StepCases ==
    ASSUME Next
    PROVE  /\ UNCHANGED system
           /\ \/ Quiet
              \/ \E r \in Requests : StartAlloc(r)
              \/ \E f \in files : \E v \in 0..(EndVcn(f) - 1) :
                    \E by \in {"free_from_rl", "free"} :
                        \E n \in {-1, EndVcn(f) - v} : StartFree(by, f, v, n)
              \/ \E c \in Clusters : TakeCluster(c)
              \/ AllocSucceeds \/ AllocFails
              \/ LookupVcn \/ FreeRun \/ FreeRunFails \/ MapFragmentFails
              \/ FreeDone
BY Zenon DEF Next, Start, AllocStep, FreeStep, Quiet

\* A free function goes on or returns.
LEMMA FreeStepEnds ==
    ASSUME LookupVcn \/ FreeRun \/ FreeRunFails \/ MapFragmentFails \/ FreeDone
    PROVE  /\ pc = "free" /\ before' = before
           /\ \/ pc' = "free" /\ UNCHANGED <<rl, clusters, req>>
              \/ \E e, F : Return(e, F)
<1>1. \A e : FreeReturns(e) => \E x, F : Return(x, F)
  BY Zenon DEF FreeReturns
<1>2. CASE LookupVcn
  BY <1>1, <1>2, Zenon DEF LookupVcn, buildVars
<1>3. CASE FreeRun
  BY <1>3, Zenon DEF FreeRun, buildVars
<1>4. CASE FreeRunFails
  BY <1>1, <1>4, Zenon DEF FreeRunFails, buildVars
<1>5. CASE MapFragmentFails
  BY <1>1, <1>5, Zenon DEF MapFragmentFails, buildVars
<1>6. CASE FreeDone
  BY <1>1, <1>6, Zenon DEF FreeDone
<1> QED
  BY <1>2, <1>3, <1>4, <1>5, <1>6, Zenon

\* Every step keeps the runlist and what is left to allocate in agreement.
LEMMA BuildsStep ==
    ASSUME Counting
    PROVE  Builds /\ [Next]_vars => Builds'
<1> SUFFICES ASSUME Builds, [Next]_vars
             PROVE  Builds'
  OBVIOUS
<1>1. CASE Quiet
  BY <1>1, QuietSteps, QuietBuilds, Zenon
<1>2. CASE \E r \in Requests : StartAlloc(r)
  BY <1>2, StartAllocBuilds, Zenon
<1>3. CASE \E f \in files : \E v \in 0..(EndVcn(f) - 1) :
             \E by \in {"free_from_rl", "free"} :
                 \E n \in {-1, EndVcn(f) - v} : StartFree(by, f, v, n)
  <2>1. pc = "idle" /\ pc' = "free" /\ UNCHANGED <<rl, clusters, req>>
    BY <1>3, Zenon DEF StartFree, buildVars
  <2>2. rl = <<>>
    BY <2>1, Zenon DEF Builds, BuildSound
  <2> QED
    BY <2>1, <2>2, Zenon DEF Builds, BuildSound, Searching
<1>4. CASE \E c \in Clusters : TakeCluster(c)
  BY <1>4, TakeClusterBuilds, Zenon
<1>5. CASE AllocSucceeds
  <2>1. \E e, F : Return(e, F)
    BY <1>5, Zenon DEF AllocSucceeds
  <2> QED
    BY <2>1, ReturnBuilds, Zenon
<1>6. CASE AllocFails
  <2>1. \/ \E e, F : Return(e, F)
        \/ pc = "out" /\ pc' = "free" /\ UNCHANGED <<rl, clusters, req, before>>
    BY <1>6, Zenon DEF AllocFails, buildVars
  <2> QED
    BY <2>1, ReturnBuilds, FreeBuilds, Zenon
<1>7. CASE LookupVcn \/ FreeRun \/ FreeRunFails \/ MapFragmentFails \/ FreeDone
  <2>1. /\ pc = "free" /\ before' = before
        /\ \/ pc' = "free" /\ UNCHANGED <<rl, clusters, req>>
           \/ \E e, F : Return(e, F)
    BY <1>7, FreeStepEnds, Zenon
  <2> QED
    BY <2>1, ReturnBuilds, FreeBuilds, Zenon
<1>8. CASE UNCHANGED vars
  BY <1>8, Zenon DEF vars, bitmapVars, buildVars, callVars, Builds, BuildSound,
     Searching
<1> QED
  BY <1>1, <1>2, <1>3, <1>4, <1>5, <1>6, <1>7, <1>8, StepCases, Zenon

-----------------------------------------------------------------------------
(***************************************************************************)
(* Free operations.                                                        *)
(***************************************************************************)
\* The records that describe a free operation.
Frees == [by : {"none", "alloc", "free_from_rl", "free", "undo"},
          rl : Seq(Runs), vcn : Nat, count : Int, i : Nat, total : Nat,
          real : Nat]

FreeRec(b, r, v, n, i, s, u) ==
    [by |-> b, rl |-> r, vcn |-> v, count |-> n, i |-> i, total |-> s, real |-> u]

\* The state of a free operation.
LEMMA FreeFields ==
    ASSUME NEW y \in Frees
    PROVE  /\ y = [by |-> y.by, rl |-> y.rl, vcn |-> y.vcn, count |-> y.count,
                   i |-> y.i, total |-> y.total, real |-> y.real]
           /\ y.by \in {"none", "alloc", "free_from_rl", "free", "undo"}
           /\ y.rl \in Seq(Runs) /\ y.vcn \in Nat /\ y.count \in Int
           /\ y.i \in Nat /\ y.total \in Nat /\ y.real \in Nat
BY Zenon DEF Frees

\* It has found its first run.
LEMMA FreeLookup ==
    ASSUME NEW y \in Frees, NEW j \in Nat, NEW x, x = [y EXCEPT !.i = j]
    PROVE  /\ x \in Frees
           /\ x.by = y.by /\ x.rl = y.rl /\ x.vcn = y.vcn /\ x.count = y.count
           /\ x.i = j /\ x.total = y.total /\ x.real = y.real
BY Zenon DEF Frees

Advanced(y, n, m) ==
    [y EXCEPT !.i = @ + 1, !.total = @ + n, !.real = @ + m,
              !.count = IF @ < 0 THEN @ ELSE @ - n]

Undone(y) == [y EXCEPT !.by = "undo", !.count = y.total, !.i = 0,
                       !.total = 0, !.real = 0]

Follows(x, y, n, m) ==
    /\ x \in Frees
    /\ x.by = y.by /\ x.rl = y.rl /\ x.vcn = y.vcn
    /\ x.i = y.i + 1 /\ x.total = y.total + n /\ x.real = y.real + m
    /\ x.count = IF y.count < 0 THEN y.count ELSE y.count - n

\* It goes on to the next run.
LEMMA FreeNext ==
    ASSUME NEW y \in Frees, NEW n \in Nat, NEW m \in Nat
    PROVE  Follows(Advanced(y, n, m), y, n, m)
<1>0. PICK x : x = Advanced(y, n, m)
  BY Zenon
<1>1. PICK b, r, v, c, i, s, u :
          /\ b = y.by /\ r = y.rl /\ v = y.vcn /\ c = y.count /\ i = y.i
          /\ s = y.total /\ u = y.real
  BY Zenon
<1>2. /\ y = [by |-> b, rl |-> r, vcn |-> v, count |-> c, i |-> i, total |-> s,
              real |-> u]
      /\ b \in {"none", "alloc", "free_from_rl", "free", "undo"}
      /\ r \in Seq(Runs) /\ v \in Nat /\ c \in Int
      /\ i \in Nat /\ s \in Nat /\ u \in Nat
  BY <1>1, FreeFields, Zenon
<1> DEFINE k == IF c < 0 THEN c ELSE c - n
<1>3. x = FreeRec(b, r, v, k, i + 1, s + n, u + m)
  BY <1>0, <1>2, Zenon DEF FreeRec, Advanced
<1>4. k \in Int /\ i + 1 \in Nat /\ s + n \in Nat /\ u + m \in Nat
  <2>1. n \in Nat /\ m \in Nat /\ c \in Int /\ i \in Nat /\ s \in Nat /\ u \in Nat
    BY <1>2, Zenon
  <2> QED
    BY ONLY <2>1
<1>5. k = IF y.count < 0 THEN y.count ELSE y.count - n
  BY <1>1, Zenon
<1> HIDE DEF k
<1>6. /\ x \in Frees
      /\ x.by = b /\ x.rl = r /\ x.vcn = v /\ x.count = k
      /\ x.i = i + 1 /\ x.total = s + n /\ x.real = u + m
  BY ONLY <1>2, <1>3, <1>4, Zenon DEF Frees, FreeRec
<1> QED
  BY <1>0, <1>1, <1>5, <1>6, Zenon DEF Follows

Reverses(x, y) ==
    /\ x \in Frees
    /\ x.by = "undo" /\ x.rl = y.rl /\ x.vcn = y.vcn
    /\ x.count = y.total /\ x.i = 0 /\ x.total = 0 /\ x.real = 0

\* It turns into its own roll back.
LEMMA FreeUndo ==
    ASSUME NEW y \in Frees
    PROVE  Reverses(Undone(y), y)
<1>0. PICK x : x = Undone(y)
  BY Zenon
<1>1. PICK b, r, v, c, i, s, u :
          /\ b = y.by /\ r = y.rl /\ v = y.vcn /\ c = y.count /\ i = y.i
          /\ s = y.total /\ u = y.real
  BY Zenon
<1>2. /\ y = [by |-> b, rl |-> r, vcn |-> v, count |-> c, i |-> i, total |-> s,
              real |-> u]
      /\ r \in Seq(Runs) /\ v \in Nat /\ s \in Nat
  BY <1>1, FreeFields, Zenon
<1>3. x = FreeRec("undo", r, v, s, 0, 0, 0)
  BY <1>0, <1>1, <1>2, Zenon DEF FreeRec, Undone
<1>4. /\ s \in Int /\ 0 \in Nat
      /\ "undo" \in {"none", "alloc", "free_from_rl", "free", "undo"}
  BY <1>2
<1>5. /\ x \in Frees
      /\ x.by = "undo" /\ x.rl = r /\ x.vcn = v /\ x.count = s
      /\ x.i = 0 /\ x.total = 0 /\ x.real = 0
  BY ONLY <1>2, <1>3, <1>4, Zenon DEF Frees, FreeRec
<1> QED
  BY <1>0, <1>1, <1>5, Zenon DEF Reverses

-----------------------------------------------------------------------------
(***************************************************************************)
(* What stays true on a volume whose errors flag is set: owners and counts *)
(* are lost, but every runlist still maps its vcns into the volume, and no *)
(* bit is set behind its end.                                              *)
(***************************************************************************)

SoundFiles(F) == \A f \in F : Sound(f) /\ f[1].vcn = 0

Shapes ==
    /\ used \subseteq Clusters /\ fr \in Frees /\ SoundFiles(files)
    /\ pc = "free" =>
          /\ Sound(fr.rl)
          /\ fr.by # "alloc" => fr.rl \in files /\ fr.vcn < EndVcn(fr.rl)

\* At first there are no frees and no runlists.
LEMMA InitShapes == Init => Shapes
<1> SUFFICES ASSUME Init
             PROVE  Shapes
  OBVIOUS
<1>1. used \in UsedAtMount /\ files = {} /\ fr = NoFree /\ pc = "idle"
  BY Zenon DEF Init
<1>2. UsedAtMount \subseteq SUBSET Clusters
  BY ClusterAllocAssumption, ZenonT(60)
<1>3. NoFree \in Frees
  BY DEF NoFree, Frees
<1> QED
  BY <1>1, <1>2, <1>3, Zenon DEF Shapes, SoundFiles

\* Outside a free nothing but the bitmap and the runlists matters.
LEMMA KeptShapes ==
    ASSUME Shapes, UNCHANGED <<fr, files>>, used' \subseteq Clusters, pc' # "free"
    PROVE  Shapes'
BY Zenon DEF Shapes, SoundFiles

\* A call returns.
LEMMA ReturnShapes ==
    ASSUME NEW e, NEW F, Return(e, F), SoundFiles(F), used' \subseteq Clusters
    PROVE  Shapes'
<1>1. pc' = "idle" /\ files' = F /\ fr' = NoFree
  BY Zenon DEF Return
<1> QED
  BY <1>1 DEF Shapes, SoundFiles, Frees, NoFree

\* The caller cuts its runlist at the vcn of the free.
LEMMA FreeReturnsShapes ==
    ASSUME Shapes, pc = "free", NEW e, FreeReturns(e), used' \subseteq Clusters
    PROVE  Shapes'
<1>1. SoundFiles(files)
  BY Zenon DEF Shapes
<1>2. CASE \E x : Return(x, files)
  BY <1>1, <1>2, ReturnShapes, Zenon
<1>3. CASE fr.by # "alloc" /\ Return(e, FilesAfterFree)
  <2>1. PICK r, v : r = fr.rl /\ v = fr.vcn
    BY Zenon
  <2>2. /\ r \in files /\ Sound(r) /\ r[1].vcn = 0 /\ v \in Nat
        /\ v < EndVcn(r) /\ EndVcn(r) \in Nat
    BY <1>3, <2>1, Ends, FreeFields, Zenon DEF Shapes, SoundFiles, Sound
  <2>3. v # 0 => Sound(Truncated(r, v)) /\ Truncated(r, v)[1].vcn = 0
    <3>1. v # 0 => 0 < v /\ v <= EndVcn(r)
      BY <2>2
    <3> QED
      BY ONLY <2>2, <3>1, TruncateRunlist, Zenon
  <2>4. FilesAfterFree = (files \ {r}) \cup (IF v = 0 THEN {} ELSE {Truncated(r, v)})
    BY <2>1, Zenon DEF FilesAfterFree
  <2>5. SoundFiles(FilesAfterFree)
    BY <1>1, <2>3, <2>4, Zenon DEF SoundFiles
  <2> QED
    BY <1>3, <2>5, ReturnShapes, Zenon
<1> QED
  BY <1>2, <1>3, Zenon DEF FreeReturns

\* What is freed of a run lies in the volume.
LEMMA BitsInside ==
    ASSUME Counting, Shapes, pc = "free", fr.i \in DOMAIN fr.rl
    PROVE  /\ CurrentRun.bits \subseteq Clusters /\ CurrentRun.n \in Nat
           /\ Cardinality(CurrentRun.bits) \in Nat
<1>1. PICK r, i, v, m : r = fr.rl /\ i = fr.i /\ v = fr.vcn /\ m = fr.count
  BY Zenon
<1>2. Sound(r) /\ i \in DOMAIN r /\ v \in Nat /\ m \in Int /\ r \in Seq(Runs)
  BY <1>1, FreeFields, Zenon DEF Shapes
<1> DEFINE x == r[i]
           skip == IF i \in Covering(r, v) THEN v - x.vcn ELSE 0
           len == x.length - skip
           k == IF m >= 0 THEN Lower(m, len) ELSE len
<1>3. /\ x.vcn \in Nat /\ x.length \in Nat /\ x.length > 0 /\ x.lcn \in Int
      /\ x.lcn # Hole => x.lcn \in Nat /\ x.lcn + x.length <= NrClusters
  BY <1>2, RunFields, ZenonT(60) DEF Sound, RunsInside
<1>4. skip \in Nat /\ skip < x.length
  BY <1>2, <1>3, SMTT(60) DEF Covering
<1>5. CurrentRun.n = k /\ CurrentRun.bits = IF x.lcn = Hole THEN {}
                                 ELSE (x.lcn + skip)..(x.lcn + skip + k - 1)
  BY <1>1, Zenon DEF CurrentRun
<1> HIDE DEF skip
<1>6. k \in Nat /\ k <= x.length - skip
  <2>1. len \in Nat /\ len = x.length - skip
    BY <1>3, <1>4
  <2> HIDE DEF len
  <2>2. m \in Int /\ len \in Nat
    BY <1>2, <2>1, Zenon
  <2>3. k \in Nat /\ k <= len
    BY ONLY <2>2 DEF Lower
  <2> QED
    BY <2>1, <2>3, ZenonT(60)
<1> HIDE DEF k
<1>7. CurrentRun.bits \subseteq Clusters
  <2>1. CASE x.lcn = Hole
    BY <1>5, <2>1, Zenon
  <2>2. CASE x.lcn # Hole
    <3>1. PICK l, n : l = x.lcn + skip /\ n = k
      BY Zenon
    <3>2. l \in Nat /\ n \in Nat /\ l + n <= NrClusters
      BY <1>3, <1>4, <1>6, <2>2, <3>1, VolumeSize
    <3>3. l..(l + n - 1) \subseteq Clusters
      BY <3>2, VolumeSize DEF Clusters
    <3> QED
      BY <1>5, <2>2, <3>1, <3>3, Zenon
  <2> QED
    BY <2>1, <2>2, Zenon
<1> QED
  BY <1>5, <1>6, <1>7, CountType, ZenonT(60)

\* The next run of a free, or its roll back.
LEMMA FreeGoesOn ==
    ASSUME Shapes, pc = "free", UNCHANGED <<pc, files>>, used' \subseteq Clusters,
           fr' \in Frees, fr'.rl = fr.rl, fr'.vcn = fr.vcn,
           fr'.by = "alloc" => fr.by = "alloc", fr.by = "alloc" => fr'.by = "alloc"
    PROVE  Shapes'
BY Zenon DEF Shapes, SoundFiles

\* A run is freed, or allocated again.
LEMMA NextRunShapes ==
    ASSUME Counting, Shapes, pc = "free", fr.i \in DOMAIN fr.rl,
           fr' = Advanced(fr, CurrentRun.n, Cardinality(CurrentRun.bits)),
           UNCHANGED <<pc, files>>, used' \subseteq Clusters
    PROVE  Shapes'
<1>1. PICK x, y, n, m : /\ x = fr' /\ y = fr /\ n = CurrentRun.n
                        /\ m = Cardinality(CurrentRun.bits)
  BY Zenon
<1>2. x = Advanced(y, n, m)
  BY <1>1, Zenon
<1>3. y \in Frees /\ n \in Nat /\ m \in Nat
  BY <1>1, BitsInside, Zenon DEF Shapes
<1>4. Follows(x, y, n, m)
  BY ONLY <1>2, <1>3, FreeNext, Zenon
<1> QED
  BY <1>1, <1>4, FreeGoesOn, Zenon DEF Follows

\* A free is rolled back.
LEMMA UndoShapes ==
    ASSUME Shapes, pc = "free", fr.by = "free", fr' = UndoCall,
           UNCHANGED <<pc, files>>, used' \subseteq Clusters
    PROVE  Shapes'
<1>1. PICK x, y : x = fr' /\ y = fr
  BY Zenon
<1>2. x = Undone(y) /\ y \in Frees
  BY <1>1, Zenon DEF Undone, UndoCall, Shapes
<1>3. Reverses(x, y)
  BY ONLY <1>2, FreeUndo, Zenon
<1>4. "undo" # "alloc" /\ "free" # "alloc"
  OBVIOUS
<1> QED
  BY <1>1, <1>3, <1>4, FreeGoesOn, Zenon DEF Reverses

\* A call begins.
LEMMA StartShapes ==
    ASSUME Shapes, NEW f \in files, NEW v \in 0..(EndVcn(f) - 1),
           NEW b \in {"free_from_rl", "free"}, NEW n \in {-1, EndVcn(f) - v},
           StartFree(b, f, v, n)
    PROVE  Shapes'
<1>1. /\ pc' = "free" /\ UNCHANGED <<used, files>>
      /\ fr' = [NoFree EXCEPT !.by = b, !.rl = f, !.vcn = v, !.count = n]
  BY Zenon DEF StartFree, bitmapVars
<1>2. Sound(f) /\ f \in Seq(Runs) /\ EndVcn(f) \in Nat
  BY Ends, Zenon DEF Shapes, SoundFiles, Sound
<1>3. /\ v \in Nat /\ v < EndVcn(f) /\ n \in Int /\ 0 \in Nat
      /\ b \in {"none", "alloc", "free_from_rl", "free", "undo"}
  BY <1>2
<1>4. fr' = FreeRec(b, f, v, n, 0, 0, 0)
  BY <1>1, Zenon DEF NoFree, FreeRec
<1>5. fr' \in Frees /\ fr'.rl = f /\ fr'.vcn = v
  BY ONLY <1>2, <1>3, <1>4, Zenon DEF Frees, FreeRec
<1> QED
  BY <1>1, <1>2, <1>3, <1>5 DEF Shapes, SoundFiles

\* An allocation ends, or frees what it has.
LEMMA AllocEndShapes ==
    ASSUME Builds, Shapes, AllocSucceeds \/ AllocFails
    PROVE  Shapes'
<1>1. used' = used /\ used \subseteq Clusters /\ SoundFiles(files)
  BY Zenon DEF AllocSucceeds, AllocFails, bitmapVars, Shapes
<1>2. CASE AllocSucceeds
  <2>1. pc = "out" /\ err = "none" /\ Return("none", files \cup {Merged(rl)})
    BY <1>2, Zenon DEF AllocSucceeds
  <2>2. clusters = 0 /\ req \in Requests /\ req.count > 0
    BY <2>1, RequestCount, Zenon DEF Builds, BuildSound
  <2>3. rl # <<>>
    BY <2>2 DEF Builds, BuildSound
  <2>4. Sound(rl)
    BY <2>3, Zenon DEF Builds, BuildSound
  <2>5. Sound(Merged(rl)) /\ Merged(rl)[1].vcn = 0
    BY <2>4, BehindHole, Zenon
  <2>6. SoundFiles(files \cup {Merged(rl)})
    BY <1>1, <2>5, Zenon DEF SoundFiles
  <2> QED
    BY <1>1, <2>1, <2>6, ReturnShapes, Zenon
<1>3. CASE AllocFails /\ Return(err, files)
  BY <1>1, <1>3, ReturnShapes, Zenon
<1>4. CASE /\ rl # <<>> /\ pc' = "free"
           /\ fr' = [NoFree EXCEPT !.by = "alloc", !.rl = rl, !.count = -1]
           /\ UNCHANGED files
  <2>1. Sound(rl) /\ rl \in Seq(Runs) /\ -1 \in Int /\ 0 \in Nat
        /\ "alloc" \in {"none", "alloc", "free_from_rl", "free", "undo"}
    BY <1>4 DEF Builds, BuildSound
  <2>2. fr' = FreeRec("alloc", rl, 0, -1, 0, 0, 0)
    BY <1>4, Zenon DEF NoFree, FreeRec
  <2>3. fr' \in Frees /\ fr'.rl = rl /\ fr'.by = "alloc"
    BY ONLY <2>1, <2>2, Zenon DEF Frees, FreeRec
  <2> QED
    BY <1>1, <1>4, <2>1, <2>3, Zenon DEF Shapes, SoundFiles
<1> QED
  BY <1>2, <1>3, <1>4, Zenon DEF AllocFails

\* The steps of a free.
LEMMA FreeShapes ==
    ASSUME Counting, Shapes,
           LookupVcn \/ FreeRun \/ FreeRunFails \/ MapFragmentFails \/ FreeDone
    PROVE  Shapes'
<1>0. pc = "free" /\ used \subseteq Clusters
  BY Zenon DEF LookupVcn, FreeRun, FreeRunFails, MapFragmentFails, FreeDone,
     Shapes
<1>1. CASE LookupVcn
  <2>1. used' \subseteq Clusters
    BY <1>0, <1>1, Zenon DEF LookupVcn, bitmapVars
  <2>2. CASE FreeReturns("none")
    BY <1>0, <2>1, <2>2, FreeReturnsShapes, Zenon
  <2>3. CASE /\ \E i \in Covering(fr.rl, fr.vcn) : fr' = [fr EXCEPT !.i = i]
             /\ UNCHANGED <<pc, files>>
    <3>1. PICK i \in Covering(fr.rl, fr.vcn) : fr' = [fr EXCEPT !.i = i]
      BY <2>3, Zenon
    <3>2. i \in Nat /\ fr \in Frees
      BY <1>0, <3>1, FreeFields DEF Covering, Shapes
    <3>3. fr' \in Frees /\ fr'.rl = fr.rl /\ fr'.vcn = fr.vcn /\ fr'.by = fr.by
      BY <3>1, <3>2, FreeLookup
    <3> QED
      BY <1>0, <2>1, <2>3, <3>3, FreeGoesOn, Zenon
  <2> QED
    BY <1>1, <2>2, <2>3, Zenon DEF LookupVcn
<1>2. CASE FreeRun
  <2>1. fr.i \in DOMAIN fr.rl /\ UNCHANGED <<pc, files>>
    BY <1>2, Zenon DEF FreeRun
  <2>2. used' \subseteq Clusters
    <3>1. used' = IF fr.by = "undo" THEN used \cup CurrentRun.bits
                                    ELSE used \ CurrentRun.bits
      BY <1>2, Zenon DEF FreeRun
    <3>2. CurrentRun.bits \subseteq Clusters
      BY <1>0, <2>1, BitsInside, Zenon
    <3> QED
      BY <1>0, <3>1, <3>2, Zenon
  <2> QED
    <3>1. fr' = Advanced(fr, CurrentRun.n, Cardinality(CurrentRun.bits))
      BY <1>2, Zenon DEF FreeRun, Advanced
    <3> QED
      BY <1>0, <2>1, <2>2, <3>1, NextRunShapes, Zenon
<1>3. CASE FreeRunFails
  <2>1. fr.i \in DOMAIN fr.rl
    BY <1>3, Zenon DEF FreeRunFails
  <2>2. PICK changed \in LeftChanged(CurrentRun.bits) :
            used' = IF fr.by = "undo" THEN used \cup changed ELSE used \ changed
    BY <1>3, Zenon DEF FreeRunFails
  <2>3. changed \subseteq CurrentRun.bits
    BY DEF LeftChanged
  <2>4. used' \subseteq Clusters
    BY <1>0, <2>1, <2>2, <2>3, BitsInside, Zenon
  <2>5. CASE FreeReturns("EIO")
    BY <1>0, <2>4, <2>5, FreeReturnsShapes, Zenon
  <2>6. CASE /\ fr' = Advanced(fr, CurrentRun.n, Cardinality(CurrentRun.bits))
             /\ UNCHANGED <<pc, files>>
    BY <1>0, <2>1, <2>4, <2>6, NextRunShapes, Zenon
  <2>7. CASE fr.by = "free" /\ fr' = UndoCall /\ UNCHANGED <<pc, files>>
    BY <1>0, <2>4, <2>7, UndoShapes, Zenon
  <2> QED
    BY <1>3, <2>5, <2>6, <2>7, Zenon DEF FreeRunFails, Advanced
<1>4. CASE MapFragmentFails
  <2>1. used' \subseteq Clusters
    BY <1>0, <1>4, Zenon DEF MapFragmentFails, bitmapVars
  <2>2. CASE FreeReturns("EIO")
    BY <1>0, <2>1, <2>2, FreeReturnsShapes, Zenon
  <2>3. CASE fr.by = "free" /\ fr' = UndoCall /\ UNCHANGED <<pc, files>>
    BY <1>0, <2>1, <2>3, UndoShapes, Zenon
  <2> QED
    BY <1>4, <2>2, <2>3, Zenon DEF MapFragmentFails
<1>5. CASE FreeDone
  <2>1. used' \subseteq Clusters
    BY <1>0, <1>5, Zenon DEF FreeDone, bitmapVars
  <2> QED
    BY <1>0, <1>5, <2>1, FreeReturnsShapes, Zenon DEF FreeDone
<1> QED
  BY <1>1, <1>2, <1>3, <1>4, <1>5, Zenon

\* Every step keeps the runlists sound.
LEMMA StepShapes ==
    ASSUME Counting
    PROVE  Builds /\ Shapes /\ [Next]_vars => Shapes'
<1> SUFFICES ASSUME Builds, Shapes, [Next]_vars
             PROVE  Shapes'
  OBVIOUS
<1>0. used \subseteq Clusters
  BY Zenon DEF Shapes
<1>1. CASE Quiet
  <2>1. pc' # "free" /\ UNCHANGED <<used, fr, files>>
    BY <1>1, QuietSteps, Zenon DEF Searching
  <2> QED
    BY <1>0, <2>1, KeptShapes, Zenon
<1>2. CASE \E r \in Requests : StartAlloc(r)
  <2>1. pc' = "map" /\ UNCHANGED <<used, fr, files>>
    BY <1>2, Zenon DEF StartAlloc, bitmapVars
  <2> QED
    BY <1>0, <2>1, KeptShapes, Zenon
<1>3. CASE \E f \in files : \E v \in 0..(EndVcn(f) - 1) :
             \E by \in {"free_from_rl", "free"} :
                 \E n \in {-1, EndVcn(f) - v} : StartFree(by, f, v, n)
  BY <1>3, StartShapes, Zenon
<1>4. CASE \E c \in Clusters : TakeCluster(c)
  <2>1. /\ pc' \in {"scan", "out"} /\ UNCHANGED <<fr, files>>
        /\ \E c \in Clusters : used' = used \cup {c}
    BY <1>4, Zenon DEF TakeCluster, callVars
  <2> QED
    BY <1>0, <2>1, KeptShapes, Zenon
<1>5. CASE AllocSucceeds \/ AllocFails
  BY <1>5, AllocEndShapes, Zenon
<1>6. CASE LookupVcn \/ FreeRun \/ FreeRunFails \/ MapFragmentFails \/ FreeDone
  BY <1>6, FreeShapes, Zenon
<1>7. CASE UNCHANGED vars
  BY <1>7, Zenon DEF vars, bitmapVars, callVars, Shapes, SoundFiles
<1> QED
  BY <1>1, <1>2, <1>3, <1>4, <1>5, <1>6, <1>7, StepCases, Zenon

-----------------------------------------------------------------------------
(***************************************************************************)
(* The owners of clusters.                                                 *)
(***************************************************************************)

\* The clusters that the active free operation has taken from the bitmap and
\* not put back.
Gone ==
    IF pc # "free" THEN {}
    ELSE IF fr.by = "undo"
      THEN Part(fr.rl, fr.vcn + fr.total, fr.vcn + fr.total + fr.count)
    ELSE Part(fr.rl, fr.vcn, fr.vcn + fr.total)

\* The vcn at which run i is freed.
Pos(i) ==
    IF i \in DOMAIN fr.rl
      THEN IF fr.rl[i].vcn < fr.vcn THEN fr.vcn ELSE fr.rl[i].vcn
      ELSE EndVcn(fr.rl)

Types ==
    used \subseteq Clusters /\ before \subseteq Clusters /\ fr \in Frees

\* The runlists of the callers, and the bitmap they are counted in: the
\* present one between calls, the one the call began with inside a call.
OwnedBy(F) == UNION {RlClusters(f) : f \in F}

FilesIn(F, bits) ==
    /\ \A f \in F : Sound(f) /\ f[1].vcn = 0
    /\ \A f, g \in F : f = g \/ RlClusters(f) \cap RlClusters(g) = {}
    /\ OwnedBy(F) \cap system = {}
    /\ OwnedBy(F) \cup system \subseteq bits

FilesSound == FilesIn(files, IF pc = "idle" THEN used ELSE before)

\* The active free operation: what it frees, and how far it is.
FreeSound ==
    pc = "free" =>
        /\ fr.by # "none"
        /\ fr.by = "alloc" => /\ rl # <<>> /\ fr.rl = rl /\ err # "none"
                              /\ fr.vcn = 0 /\ fr.count = -1
        /\ fr.by # "alloc" => /\ rl = <<>> /\ fr.rl \in files /\ req = NoReq
                              /\ fr.vcn < EndVcn(fr.rl)
        /\ fr.by = "undo" => fr.count >= 0
        /\ fr.by \in {"free", "free_from_rl"} =>
              \/ fr.count = -1
              \/ fr.count >= 0 /\ fr.vcn + fr.total + fr.count = EndVcn(fr.rl)
        /\ fr.i = 0 => fr.total = 0
        /\ fr.i <= Len(fr.rl) + 1
        /\ fr.i \in DOMAIN fr.rl =>
              fr.vcn < fr.rl[fr.i].vcn + fr.rl[fr.i].length
        /\ (fr.i > 0 /\ fr.count # 0) => fr.vcn + fr.total = Pos(fr.i)
        /\ (fr.by # "undo" /\ fr.real = 0) => Gone = {}

Balance == pc # "idle" => used = (before \cup RlClusters(rl)) \ Gone

Counted == nr_free_clusters = NrClusters - Cardinality(used)

Owners == Types /\ FilesSound /\ Builds /\ FreeSound /\ Balance /\ Counted

OInv == Builds /\ (errors \/ Owners)
-----------------------------------------------------------------------------
(***************************************************************************)
(* The steps of ntfs_cluster_alloc().                                      *)
(***************************************************************************)

\* Steps that only move the search.
LEMMA QuietOwners ==
    ASSUME Owners, Builds', Searching,
           UNCHANGED <<used, nr_free_clusters, rl, clusters, req, fr, before,
                       files, system>>,
           Searching' \/ pc' = "out"
    PROVE  Owners'
<1>1. /\ pc \notin {"idle", "free", "out"} /\ pc' \notin {"idle", "free"}
  BY Zenon DEF Searching
<1>2. Types'
  BY Zenon DEF Owners, Types
<1>3. FilesSound'
  BY <1>1, Zenon DEF Owners, FilesSound, FilesIn
<1>4. FreeSound'
  BY <1>1, Zenon DEF FreeSound
<1>5. Balance'
  BY <1>1, Zenon DEF Owners, Balance, Gone
<1>6. Counted'
  BY Zenon DEF Owners, Counted
<1> QED
  BY <1>2, <1>3, <1>4, <1>5, <1>6, Zenon DEF Owners

\* At first the bitmap holds what the system uses.
LEMMA InitOwners ==
    ASSUME Counting
    PROVE  Init => Owners
<1> SUFFICES ASSUME Init
             PROVE  Owners
  OBVIOUS
<1>1. Types
  BY ClusterAllocAssumption DEF Init, Types, Frees, NoFree
<1>2. FilesSound
  BY Zenon DEF Init, FilesSound, FilesIn, OwnedBy
<1>3. Builds
  BY InitBuilds, Zenon
<1>4. FreeSound /\ Balance /\ Counted
  BY Zenon DEF Init, FreeSound, Balance, Counted
<1> QED
  BY <1>1, <1>2, <1>3, <1>4, Zenon DEF Owners

\* An allocation begins.
LEMMA StartAllocOwners ==
    ASSUME Counting,
           Owners, NEW r \in Requests, StartAlloc(r), UNCHANGED system
    PROVE  Owners'
<1>1. /\ pc = "idle" /\ pc' = "map" /\ before' = used
      /\ UNCHANGED <<used, nr_free_clusters, rl, fr, files, system>>
  BY Zenon DEF StartAlloc, bitmapVars
<1>2. rl = <<>>
  BY <1>1, Zenon DEF Owners, Builds, BuildSound
<1>3. Types'
  BY <1>1, Zenon DEF Owners, Types
<1>4. FilesSound'
  BY <1>1, Zenon DEF Owners, FilesSound, FilesIn
<1>5. Builds'
  BY StartAllocBuilds, Zenon DEF Owners
<1>6. FreeSound'
  BY <1>1, Zenon DEF FreeSound
<1>7. Balance'
  BY <1>1, <1>2, EmptyRunlist, Zenon DEF Balance, Gone
<1>8. Counted'
  BY <1>1, Zenon DEF Owners, Counted
<1> QED
  BY <1>3, <1>4, <1>5, <1>6, <1>7, <1>8, Zenon DEF Owners

\* A cluster that was free is taken.
LEMMA TakeClusterOwners ==
    ASSUME Counting,
           Owners, NEW c \in Clusters, TakeCluster(c), UNCHANGED system
    PROVE  Owners'
<1>1. /\ pc = "scan" /\ used' = used \cup {c}
      /\ nr_free_clusters' = Clamp(nr_free_clusters - 1)
      /\ UNCHANGED <<fr, before, files, system>> /\ pc' \in {"scan", "out"}
  BY Zenon DEF TakeCluster, callVars
<1>2. Builds' /\ c \notin used /\ RlClusters(rl') = RlClusters(rl) \cup {c}
  BY TakeClusterBuilds, Zenon DEF Owners
<1>3. used = before \cup RlClusters(rl) /\ used \subseteq Clusters
  BY <1>1, Zenon DEF Owners, Types, Builds, BuildSound
<1>4. Types'
  BY <1>1, Zenon DEF Owners, Types
<1>5. FilesSound'
  BY <1>1, Zenon DEF Owners, FilesSound, FilesIn
<1>6. FreeSound'
  BY <1>1, Zenon DEF FreeSound
<1>7. Balance'
  <2>1. Gone' = {}
    BY <1>1, Zenon DEF Gone
  <2> QED
    BY <2>1, <1>1, <1>2, <1>3, Zenon DEF Balance
<1>8. Counted'
  <2>1. {c} \in SUBSET Clusters /\ used \in SUBSET Clusters /\ used \cap {c} = {}
    BY <1>2, <1>3, Zenon
  <2>2. Clamp(NrClusters - Cardinality(used) - Cardinality({c}))
          = NrClusters - Cardinality(used \cup {c})
    BY ONLY <2>1, Counting, CountIn, Zenon
  <2>3. Cardinality({c}) = 1 /\ nr_free_clusters = NrClusters - Cardinality(used)
    BY CountOne, Zenon DEF Owners, Counted
  <2> QED
    BY <1>1, <2>2, <2>3, Zenon DEF Counted
<1> QED
  BY <1>2, <1>4, <1>5, <1>6, <1>7, <1>8, Zenon DEF Owners

\* The return of a call, with the runlists F for its callers.
LEMMA ReturnOwners ==
    ASSUME Counting, Owners, NEW e, NEW F, Return(e, F), FilesIn(F, used),
           UNCHANGED <<used, nr_free_clusters, before, system>>
    PROVE  Owners'
<1>1. /\ pc' = "idle" /\ files' = F /\ req' = NoReq /\ fr' = NoFree
      /\ clusters' = 0 /\ rl' = <<>>
  BY Zenon DEF Return
<1>2. Types'
  BY <1>1 DEF Owners, Types, Frees, NoFree
<1>3. FilesSound'
  BY <1>1, Zenon DEF FilesSound, FilesIn
<1>4. Builds'
  BY ReturnBuilds, Zenon
<1>5. FreeSound' /\ Balance'
  BY <1>1, Zenon DEF FreeSound, Balance
<1>6. Counted'
  BY Zenon DEF Owners, Counted
<1> QED
  BY <1>2, <1>3, <1>4, <1>5, <1>6, Zenon DEF Owners

\* The new runlist goes to its caller.
LEMMA AllocSucceedsOwners ==
    ASSUME Counting, Owners, AllocSucceeds, UNCHANGED system
    PROVE  Owners'
<1>1. /\ pc = "out" /\ err = "none" /\ Return("none", files \cup {Merged(rl)})
      /\ UNCHANGED <<used, nr_free_clusters, before, system>>
  BY Zenon DEF AllocSucceeds, bitmapVars
<1>2. clusters = 0 /\ req \in Requests /\ req.count > 0
  BY <1>1, RequestCount, Zenon DEF Owners, Builds, BuildSound
<1>3. rl # <<>>
  BY <1>2 DEF Owners, Builds, BuildSound
<1>4. Sound(rl) /\ RlClusters(rl) \cap before = {}
  BY <1>3, Zenon DEF Owners, Builds, BuildSound
<1>5. /\ Sound(Merged(rl)) /\ Merged(rl)[1].vcn = 0
      /\ RlClusters(Merged(rl)) = RlClusters(rl)
  BY <1>4, BehindHole, Zenon
<1>6. FilesIn(files, before) /\ used = before \cup RlClusters(rl)
  BY <1>1, Zenon DEF Owners, FilesSound, Balance, Gone
<1> DEFINE m == Merged(rl)
<1> HIDE DEF m
<1>7. FilesIn(files \cup {m}, used)
  <2>1. \A f \in files \cup {m} : Sound(f) /\ f[1].vcn = 0
    BY <1>5, <1>6, Zenon DEF FilesIn, m
  <2>2. \A f \in files : RlClusters(f) \subseteq before
    BY <1>6, Zenon DEF FilesIn, OwnedBy
  <2>3. RlClusters(m) \cap before = {} /\ RlClusters(m) \subseteq used
    BY <1>4, <1>5, <1>6, Zenon DEF m
  <2>4. \A f, g \in files \cup {m} : f = g \/ RlClusters(f) \cap RlClusters(g) = {}
    BY <2>2, <2>3, <1>6, Zenon DEF FilesIn
  <2>5. OwnedBy(files \cup {m}) = OwnedBy(files) \cup RlClusters(m)
    BY Zenon DEF OwnedBy
  <2>6. /\ OwnedBy(files) \cap system = {} /\ OwnedBy(files) \subseteq before
        /\ system \subseteq before
    BY <1>6, Zenon DEF FilesIn
  <2> QED
    BY <2>1, <2>3, <2>4, <2>5, <2>6, <1>6, Zenon DEF FilesIn
<1> QED
  BY <1>1, <1>7, ReturnOwners, Zenon DEF m
-----------------------------------------------------------------------------
(***************************************************************************)
(* The free functions.                                                     *)
(***************************************************************************)

\* The runlist that is freed.
LEMMA FreedRunlist ==
    ASSUME Counting, Owners, pc = "free"
    PROVE  /\ fr \in Frees /\ fr.rl \in Seq(Runs)
           /\ fr.by \in {"alloc", "free_from_rl", "free", "undo"}
           /\ fr.vcn \in Nat /\ fr.count \in Int /\ fr.i \in Nat
           /\ fr.total \in Nat /\ fr.real \in Nat
           /\ Sound(fr.rl) /\ RlClusters(fr.rl) \subseteq before \cup RlClusters(rl)
           /\ fr.by # "alloc" => /\ fr.rl[1].vcn = 0 /\ RlClusters(rl) = {}
                                 /\ fr.rl \in files
           /\ 1 \in DOMAIN fr.rl /\ DOMAIN fr.rl = 1..Len(fr.rl)
           /\ Len(fr.rl) \in Nat /\ EndVcn(fr.rl) \in Nat /\ fr.rl[1].vcn \in Nat
           /\ FilesIn(files, before) /\ before \subseteq Clusters
<1>1. /\ fr \in Frees /\ fr.by # "none" /\ before \subseteq Clusters
  BY Zenon DEF Owners, Types, FreeSound
<1>2. /\ fr.rl \in Seq(Runs)
      /\ fr.by \in {"alloc", "free_from_rl", "free", "undo"}
      /\ fr.vcn \in Nat /\ fr.count \in Int /\ fr.i \in Nat
      /\ fr.total \in Nat /\ fr.real \in Nat
  BY <1>1, Zenon DEF Frees
<1>3. FilesIn(files, before)
  BY Zenon DEF Owners, FilesSound
<1>4. CASE fr.by = "alloc"
  <2>1. fr.rl = rl /\ rl # <<>>
    BY <1>4, Zenon DEF Owners, FreeSound
  <2>2. Sound(rl)
    BY <2>1, Zenon DEF Owners, Builds, BuildSound
  <2>3. 1 \in DOMAIN rl /\ DOMAIN rl = 1..Len(rl) /\ Len(rl) \in Nat
        /\ EndVcn(rl) \in Nat /\ rl[1].vcn \in Nat
    BY <2>2, Ends, RunFields DEF Sound
  <2> QED
    BY <1>1, <1>2, <1>3, <1>4, <2>1, <2>2, <2>3, Zenon
<1>5. CASE fr.by # "alloc"
  <2>1. fr.rl \in files /\ rl = <<>>
    BY <1>5, Zenon DEF Owners, FreeSound
  <2>2. Sound(fr.rl) /\ fr.rl[1].vcn = 0 /\ RlClusters(fr.rl) \subseteq before
    BY <1>3, <2>1, Zenon DEF FilesIn, OwnedBy
  <2>3. 1 \in DOMAIN fr.rl /\ DOMAIN fr.rl = 1..Len(fr.rl)
        /\ Len(fr.rl) \in Nat /\ EndVcn(fr.rl) \in Nat
    BY <1>2, <2>2, Ends DEF Sound
  <2> QED
    BY <1>1, <1>2, <1>3, <1>5, <2>1, <2>2, <2>3, EmptyRunlist
<1> QED
  BY <1>4, <1>5, Zenon

\* Nothing is mapped behind the end.
LEMMA PartBehind ==
    ASSUME NEW r, Sound(r), NEW a \in Nat, NEW b \in Nat, EndVcn(r) <= a, a <= b
    PROVE  Part(r, a, b) = {}
<1>1. EndVcn(r) \in Nat /\ r[1].vcn \in Nat /\ 0 <= r[1].vcn
  BY Ends, RunFields DEF Sound
<1>2. Part(r, 0, a) = RlClusters(r)
  BY <1>1, PartAll, Zenon
<1>3. /\ Part(r, 0, b) = Part(r, 0, a) \cup Part(r, a, b)
      /\ Part(r, 0, a) \cap Part(r, a, b) = {}
      /\ Part(r, 0, b) \subseteq RlClusters(r)
  <2>1. 0 \in Nat /\ 0 <= a
    OBVIOUS
  <2> QED
    BY <2>1, PartSplit, Zenon
<1> QED
  BY <1>2, <1>3, Zenon

\* What was allocated is freed.
LEMMA AllocFailsOwners ==
    ASSUME Counting, Owners, AllocFails, UNCHANGED system
    PROVE  Owners'
<1>1. /\ pc = "out" /\ err # "none"
      /\ UNCHANGED <<used, nr_free_clusters, before, system>>
  BY Zenon DEF AllocFails, bitmapVars
<1>2. FilesIn(files, before) /\ used = before \cup RlClusters(rl)
  BY <1>1, Zenon DEF Owners, FilesSound, Builds, BuildSound
<1>3. CASE rl = <<>> /\ Return(err, files)
  <2>1. FilesIn(files, used)
    BY <1>2, Zenon DEF FilesIn
  <2> QED
    BY <1>1, <1>3, <2>1, ReturnOwners, Zenon
<1>4. CASE /\ rl # <<>> /\ pc' = "free"
           /\ fr' = [NoFree EXCEPT !.by = "alloc", !.rl = rl, !.count = -1]
           /\ UNCHANGED <<rl, clusters, req, err, files>>
  <2>1. /\ fr' \in Frees /\ fr'.by = "alloc" /\ fr'.rl = rl /\ fr'.vcn = 0
        /\ fr'.count = -1 /\ fr'.i = 0 /\ fr'.total = 0 /\ fr'.real = 0
    <3>1. rl \in Seq(Runs) /\ -1 \in Int /\ 0 \in Nat
      BY DEF Owners, Builds
    <3>2. fr' = [by |-> "alloc", rl |-> rl, vcn |-> 0, count |-> -1, i |-> 0,
                 total |-> 0, real |-> 0]
      BY <1>4, Zenon DEF NoFree
    <3> QED
      BY <3>1, <3>2, Zenon DEF Frees
  <2>2. Types'
    BY <1>1, <2>1, Zenon DEF Owners, Types
  <2>3. FilesSound'
    BY <1>1, <1>2, <1>4, Zenon DEF FilesSound, FilesIn
  <2>4. Builds'
    BY <1>1, <1>4, FreeBuilds, Zenon DEF Owners
  <2>5. Gone' = {}
    <3>1. Gone' = Part(rl, 0, 0)
      BY <1>4, <2>1 DEF Gone
    <3> QED
      BY <3>1, PartEmpty, Zenon DEF Owners, Builds
  <2>6. FreeSound'
    <3>1. Len(rl) \in Nat /\ 0 \notin DOMAIN rl
      BY DEF Owners, Builds
    <3> QED
      BY <1>1, <1>4, <2>1, <2>5, <3>1 DEF FreeSound
  <2>7. Balance'
    BY <1>1, <1>2, <1>4, <2>5, Zenon DEF Balance
  <2>8. Counted'
    BY <1>1, Zenon DEF Owners, Counted
  <2> QED
    BY <2>2, <2>3, <2>4, <2>6, <2>7, <2>8, Zenon DEF Owners
<1> QED
  BY <1>3, <1>4, Zenon DEF AllocFails, buildVars

\* A free begins.
LEMMA StartFreeOwners ==
    ASSUME Counting, Owners, NEW f \in files, NEW v \in 0..(EndVcn(f) - 1),
           NEW b \in {"free_from_rl", "free"}, NEW n \in {-1, EndVcn(f) - v},
           StartFree(b, f, v, n), UNCHANGED system
    PROVE  Owners'
<1>1. /\ pc = "idle" /\ pc' = "free" /\ before' = used
      /\ fr' = [NoFree EXCEPT !.by = b, !.rl = f, !.vcn = v, !.count = n]
      /\ UNCHANGED <<used, nr_free_clusters, rl, clusters, req, files, system>>
  BY Zenon DEF StartFree, bitmapVars, buildVars
<1>2. FilesIn(files, used) /\ rl = <<>> /\ req = NoReq /\ used \subseteq Clusters
  BY <1>1, Zenon DEF Owners, FilesSound, Builds, BuildSound, Types
<1>3. Sound(f) /\ f \in Seq(Runs) /\ EndVcn(f) \in Nat /\ Len(f) \in Nat
  BY <1>2, Ends, Zenon DEF FilesIn, Sound
<1>4. /\ v \in Nat /\ v < EndVcn(f) /\ n \in Int
      /\ n = -1 \/ (n >= 0 /\ v + 0 + n = EndVcn(f))
  BY <1>3
<1>5. /\ fr' \in Frees /\ fr'.by = b /\ fr'.rl = f /\ fr'.vcn = v /\ fr'.count = n
      /\ fr'.i = 0 /\ fr'.total = 0 /\ fr'.real = 0
  <2>1. b \in {"none", "alloc", "free_from_rl", "free", "undo"} /\ 0 \in Nat
    OBVIOUS
  <2>2. fr' = FreeRec(b, f, v, n, 0, 0, 0)
    BY <1>1, Zenon DEF NoFree, FreeRec
  <2> QED
    BY ONLY <1>3, <1>4, <2>1, <2>2, Zenon DEF Frees, FreeRec
<1>6. Types'
  BY <1>1, <1>2, <1>5, Zenon DEF Types
<1>7. FilesSound'
  BY <1>1, <1>2, Zenon DEF FilesSound, FilesIn
<1>8. Builds'
  <2>1. Cardinality(RlClusters(rl)) = req.count - clusters /\ clusters = req.count
    BY <1>2, Zenon DEF Owners, Builds, BuildSound
  <2> QED
    BY <1>1, <1>2, <2>1, Zenon DEF Owners, Builds, BuildSound, Searching
<1>9. Gone' = {}
  <2>1. Gone' = Part(f, v, v + 0)
    BY <1>1, <1>5, Zenon DEF Gone
  <2> QED
    BY <1>3, <1>4, <2>1, PartEmpty
<1>10. FreeSound'
  <2>1. 0 \notin DOMAIN f
    BY <1>3
  <2>2. b # "alloc" /\ b # "undo" /\ b # "none"
    OBVIOUS
  <2> QED
    BY <1>1, <1>2, <1>3, <1>4, <1>5, <1>9, <2>1, <2>2 DEF FreeSound
<1>11. Balance'
  BY <1>1, <1>2, <1>9, EmptyRunlist, Zenon DEF Balance
<1>12. Counted'
  BY <1>1, Zenon DEF Owners, Counted
<1> QED
  BY <1>6, <1>7, <1>8, <1>10, <1>11, <1>12, Zenon DEF Owners

\* A free operation that finds no run at its vcn is a roll back of a fragment.
LEMMA NothingFound ==
    ASSUME Counting,
           Owners, pc = "free", fr.i = 0, Covering(fr.rl, fr.vcn) = {}
    PROVE  fr.by = "alloc" /\ Gone = {} /\ fr.vcn < fr.rl[1].vcn
<1>1. /\ Sound(fr.rl) /\ fr.vcn \in Nat /\ EndVcn(fr.rl) \in Nat
      /\ fr.rl[1].vcn \in Nat /\ fr.rl \in Seq(Runs)
      /\ fr.by # "alloc" => fr.rl[1].vcn = 0
  BY FreedRunlist, Zenon
<1>2. fr.vcn < fr.rl[1].vcn \/ EndVcn(fr.rl) <= fr.vcn
  BY <1>1 DEF Sound, RunsCover
<1>3. fr.by = "alloc"
  <2>1. fr.by # "alloc" => fr.vcn < EndVcn(fr.rl)
    BY Zenon DEF Owners, FreeSound
  <2> QED
    BY <1>1, <1>2, <2>1
<1>4. fr.vcn = 0 /\ fr.total = 0
  BY <1>3, Zenon DEF Owners, FreeSound
<1>5. EndVcn(fr.rl) > 0
  <2>1. 1 \in DOMAIN fr.rl /\ fr.rl[1].length \in Nat /\ fr.rl[1].length > 0
    BY <1>1, FreedRunlist, RunFields, Zenon
  <2> QED
    BY <1>1, <2>1, BeforeEnd
<1>6. Gone = {}
  <2>1. Gone = Part(fr.rl, 0, 0)
    BY <1>3, <1>4 DEF Gone
  <2> QED
    BY <1>1, <2>1, PartEmpty
<1> QED
  BY <1>1, <1>2, <1>3, <1>4, <1>5, <1>6

\* The first run is found.
LEMMA LookupVcnOwners ==
    ASSUME Counting, Owners, LookupVcn, UNCHANGED system
    PROVE  Owners'
<1>1. /\ pc = "free" /\ fr.i = 0
      /\ UNCHANGED <<used, nr_free_clusters, before, system>>
  BY Zenon DEF LookupVcn, bitmapVars
<1>2. /\ fr \in Frees /\ Sound(fr.rl) /\ fr.rl \in Seq(Runs) /\ fr.vcn \in Nat
      /\ fr.i \in Nat /\ fr.total = 0 /\ fr.count \in Int
      /\ DOMAIN fr.rl = 1..Len(fr.rl) /\ Len(fr.rl) \in Nat
      /\ FilesIn(files, before)
  BY <1>1, FreedRunlist, Zenon DEF Owners, FreeSound
<1>3. CASE Covering(fr.rl, fr.vcn) = {} /\ FreeReturns("none")
  <2>1. fr.by = "alloc" /\ Gone = {}
    BY <1>1, <1>3, NothingFound, Zenon
  <2>2. Return(err, files)
    BY <1>3, <2>1, Zenon DEF FreeReturns
  <2>3. used = before \cup RlClusters(rl)
    BY <1>1, <2>1, Zenon DEF Owners, Balance
  <2>4. FilesIn(files, used)
    BY <1>2, <2>3, Zenon DEF FilesIn
  <2> QED
    BY <1>1, <2>2, <2>4, ReturnOwners, Zenon
<1>4. ASSUME NEW j \in Covering(fr.rl, fr.vcn), fr' = [fr EXCEPT !.i = j],
             UNCHANGED <<rl, clusters, req, pc, err, files>>
      PROVE  Owners'
  <2>0. /\ j \in DOMAIN fr.rl /\ fr.rl[j].vcn <= fr.vcn
        /\ fr.vcn < fr.rl[j].vcn + fr.rl[j].length
    BY Zenon DEF Covering
  <2>1. j \in Nat /\ j >= 1 /\ j <= Len(fr.rl)
    BY <1>2, <2>0
  <2>2. /\ fr' \in Frees /\ fr'.by = fr.by /\ fr'.rl = fr.rl /\ fr'.vcn = fr.vcn
        /\ fr'.count = fr.count /\ fr'.i = j /\ fr'.total = fr.total
        /\ fr'.real = fr.real
    BY ONLY <1>2, <1>4, <2>1, FreeLookup
  <2>3. Types'
    BY <1>1, <2>2, Zenon DEF Owners, Types
  <2>4. FilesSound'
    BY <1>1, <1>4, Zenon DEF Owners, FilesSound, FilesIn
  <2>5. Builds'
    BY <1>1, <1>4, FreeBuilds, Zenon DEF Owners
  <2>6. Gone' = Gone
    BY <1>1, <1>4, <2>2 DEF Gone
  <2>7. FreeSound'
    <3>1. fr.vcn + fr.total = (Pos(j))'
      <4>1. fr.rl[j].vcn \in Nat
        BY <1>2, <2>0, RunFields, Zenon
      <4>2. fr.vcn = IF fr.rl[j].vcn < fr.vcn THEN fr.vcn ELSE fr.rl[j].vcn
        BY <1>2, <2>0, <4>1
      <4>3. fr.vcn + fr.total = fr.vcn
        BY <1>2
      <4> QED
        BY <2>0, <2>2, <4>2, <4>3, Zenon DEF Pos
    <3>2. Pos(fr.i)' = Pos(j)'
      BY <2>2, Zenon DEF Pos
    <3> QED
      BY <1>1, <1>2, <1>4, <2>0, <2>1, <2>2, <2>6, <3>1, <3>2
         DEF Owners, FreeSound
  <2>8. Balance'
    BY <1>1, <1>4, <2>6, Zenon DEF Owners, Balance
  <2>9. Counted'
    BY <1>1, Zenon DEF Owners, Counted
  <2> QED
    BY <2>3, <2>4, <2>5, <2>7, <2>8, <2>9, Zenon DEF Owners
<1> QED
  BY <1>3, <1>4, Zenon DEF LookupVcn, buildVars

\* The part of a run that is freed next begins at the vcn the operation has
\* reached, and ends with the run or with what is to be freed.
LEMMA RunToFree ==
    ASSUME Counting, Owners, pc = "free", fr.i \in DOMAIN fr.rl, fr.count # 0,
           NEW p, p = fr.vcn + fr.total, NEW n, n = CurrentRun.n
    PROVE  /\ p \in Nat /\ n \in Nat /\ n > 0
           /\ CurrentRun.bits = Part(fr.rl, p, p + n)
           /\ CurrentRun.bits \subseteq RlClusters(fr.rl)
           /\ fr.count < 0 => p + n = fr.rl[fr.i].vcn + fr.rl[fr.i].length
           /\ fr.count >= 0 => n <= fr.count
           /\ n # fr.count => p + n = fr.rl[fr.i].vcn + fr.rl[fr.i].length
<1>0. /\ Sound(fr.rl) /\ fr.rl \in Seq(Runs) /\ fr.vcn \in Nat /\ fr.total \in Nat
      /\ fr.count \in Int /\ fr.i \in Nat
  BY FreedRunlist, Zenon
<1>1. PICK r, i, v, s, m : /\ r = fr.rl /\ i = fr.i /\ v = fr.vcn /\ s = fr.total
                           /\ m = fr.count
  BY Zenon
<1> DEFINE x == r[i]
           skip == IF i \in Covering(r, v) THEN v - x.vcn ELSE 0
           len == x.length - skip
           k == IF m >= 0 THEN Lower(m, len) ELSE len
<1>2. /\ i \in DOMAIN r /\ Sound(r) /\ r \in Seq(Runs) /\ v \in Nat /\ s \in Nat
      /\ m \in Int /\ m # 0 /\ i \in Nat
  BY <1>0, <1>1, Zenon
<1>3. x.vcn \in Nat /\ x.length \in Nat /\ x.length > 0 /\ x.lcn \in Int
  BY <1>2, RunFields, Zenon
<1>4. /\ v < x.vcn + x.length
      /\ p = IF x.vcn < v THEN v ELSE x.vcn
  <2>1. i > 0
    BY <1>2
  <2>2. /\ fr.i \in DOMAIN fr.rl =>
              fr.vcn < fr.rl[fr.i].vcn + fr.rl[fr.i].length
        /\ (fr.i > 0 /\ fr.count # 0) => fr.vcn + fr.total = Pos(fr.i)
    BY Zenon DEF Owners, FreeSound
  <2> QED
    BY <1>1, <1>2, <2>1, <2>2, Zenon DEF Pos
<1>5. skip \in Nat /\ skip < x.length /\ p = x.vcn + skip
  <2>1. i \in Covering(r, v) <=> x.vcn <= v
    BY <1>2, <1>4, Zenon DEF Covering
  <2> QED
    BY <1>2, <1>3, <1>4, <2>1, SMTT(60)
<1>6. n = k /\ CurrentRun.bits = IF x.lcn = Hole THEN {}
                                 ELSE (x.lcn + skip)..(x.lcn + skip + k - 1)
  BY <1>1, Zenon DEF CurrentRun
<1> HIDE DEF skip
<1>7. len \in Nat /\ len > 0 /\ p + len = x.vcn + x.length /\ p \in Nat
  BY <1>3, <1>5
<1> HIDE DEF len
<1>8. /\ k \in Nat /\ k > 0 /\ k <= len
      /\ m < 0 => k = len
      /\ m >= 0 => k <= m
      /\ k # m => k = len
  BY <1>2, <1>7 DEF Lower
<1> HIDE DEF k
<1>9. /\ x.vcn <= p /\ p <= p + k /\ p + k <= x.vcn + x.length /\ p + k \in Nat
      /\ p - x.vcn = skip /\ (p + k) - p = k
  BY <1>3, <1>5, <1>7, <1>8
<1>10. Part(r, p, p + k) =
         IF x.lcn = Hole THEN {}
         ELSE (x.lcn + (p - x.vcn))..(x.lcn + (p - x.vcn) + ((p + k) - p) - 1)
  <2>1. PICK q : q = p + k
    BY Zenon
  <2>2. q \in Nat /\ p \in Nat /\ r[i].vcn <= p /\ p <= q
        /\ q <= r[i].vcn + r[i].length /\ Sound(r) /\ i \in DOMAIN r
    BY ONLY <1>2, <1>7, <1>9, <2>1, Zenon
  <2>3. Part(r, p, q) =
          IF r[i].lcn = Hole THEN {}
          ELSE (r[i].lcn + (p - r[i].vcn))..(r[i].lcn + (p - r[i].vcn) + (q - p) - 1)
    BY ONLY <2>2, PartOfRun
  <2> QED
    BY ONLY <2>1, <2>3, Zenon
<1>11. Part(r, p, p + k) \subseteq RlClusters(r)
  <2>1. p <= p
    BY <1>7
  <2> QED
    BY ONLY <1>2, <1>7, <1>9, <2>1, PartSplit, Zenon
<1>12. CurrentRun.bits = Part(r, p, p + k)
  BY ONLY <1>6, <1>9, <1>10, Zenon
<1> QED
  BY <1>1, <1>6, <1>7, <1>8, <1>9, <1>11, <1>12, Zenon

\* The vcn at which the next run begins.
LEMMA NextPos ==
    ASSUME NEW r, Sound(r), NEW i \in DOMAIN r, NEW v \in Nat,
           v < r[i].vcn + r[i].length
    PROVE  /\ i + 1 \in DOMAIN r =>
                 /\ r[i + 1].vcn = r[i].vcn + r[i].length
                 /\ v < r[i + 1].vcn + r[i + 1].length
           /\ r[i].vcn + r[i].length =
                 IF i + 1 \in DOMAIN r
                   THEN IF r[i + 1].vcn < v THEN v ELSE r[i + 1].vcn
                   ELSE EndVcn(r)
<1>1. /\ i \in Nat /\ i >= 1 /\ i <= Len(r) /\ Len(r) \in Nat
      /\ DOMAIN r = 1..Len(r) /\ r[i].vcn \in Nat /\ r[i].length \in Nat
      /\ r \in Seq(Runs) /\ r # <<>>
  BY RunFields DEF Sound
<1>2. CASE i + 1 \in DOMAIN r
  <2>1. i \in 1..(Len(r) - 1)
    BY <1>1, <1>2
  <2>2. r[i + 1].vcn = r[i].vcn + r[i].length
    BY <2>1, Zenon DEF Sound, RunsAdjacent
  <2>3. r[i + 1].length \in Nat /\ r[i + 1].length > 0 /\ r[i + 1].vcn \in Nat
    BY <1>1, <1>2, RunFields, Zenon
  <2> QED
    BY <1>1, <1>2, <2>2, <2>3
<1>3. CASE i + 1 \notin DOMAIN r
  <2>1. i = Len(r)
    BY <1>1, <1>3
  <2> QED
    BY <1>1, <1>3, <2>1, Ends, Zenon
<1> QED
  BY <1>2, <1>3, Zenon

\* A run is freed, or allocated again.
LEMMA FreeRunOwners ==
    ASSUME Counting, Owners, FreeRun, UNCHANGED system
    PROVE  Owners'
<1>1. /\ pc = "free" /\ fr.i \in DOMAIN fr.rl /\ fr.count # 0
      /\ used' = IF fr.by = "undo" THEN used \cup CurrentRun.bits
                                   ELSE used \ CurrentRun.bits
      /\ nr_free_clusters' = NrFreeAfterRun
      /\ fr' = [fr EXCEPT !.i = @ + 1,
                          !.total = @ + CurrentRun.n,
                          !.real = @ + Cardinality(CurrentRun.bits),
                          !.count = IF @ < 0 THEN @ ELSE @ - CurrentRun.n]
      /\ UNCHANGED <<rl, clusters, req, before, pc, err, files, system>>
  BY Zenon DEF FreeRun, buildVars
<1>2. PICK p, n, bits : /\ p = fr.vcn + fr.total /\ n = CurrentRun.n
                        /\ bits = CurrentRun.bits
  BY Zenon
<1>3. /\ p \in Nat /\ n \in Nat /\ n > 0
      /\ bits = Part(fr.rl, p, p + n) /\ bits \subseteq RlClusters(fr.rl)
      /\ fr.count < 0 => p + n = fr.rl[fr.i].vcn + fr.rl[fr.i].length
      /\ fr.count >= 0 => n <= fr.count
      /\ n # fr.count => p + n = fr.rl[fr.i].vcn + fr.rl[fr.i].length
  BY <1>1, <1>2, RunToFree, Zenon
<1>4. /\ fr \in Frees /\ Sound(fr.rl) /\ fr.rl \in Seq(Runs) /\ fr.vcn \in Nat
      /\ fr.count \in Int /\ fr.i \in Nat /\ fr.total \in Nat /\ fr.real \in Nat
      /\ RlClusters(fr.rl) \subseteq before \cup RlClusters(rl)
      /\ DOMAIN fr.rl = 1..Len(fr.rl) /\ Len(fr.rl) \in Nat
      /\ RlClusters(fr.rl) \subseteq Clusters /\ EndVcn(fr.rl) \in Nat
  BY <1>1, FreedRunlist, SoundInside, Zenon
<1>5. bits \subseteq Clusters /\ Cardinality(bits) \in Nat
  BY <1>3, <1>4, CountType, Zenon
<1>6. /\ fr' \in Frees /\ fr'.by = fr.by /\ fr'.rl = fr.rl /\ fr'.vcn = fr.vcn
      /\ fr'.i = fr.i + 1 /\ fr'.total = fr.total + n
      /\ fr'.real = fr.real + Cardinality(bits)
      /\ fr'.count = IF fr.count < 0 THEN fr.count ELSE fr.count - n
  <2>1. fr' = Advanced(fr, n, Cardinality(bits))
    BY <1>1, <1>2, Zenon DEF Advanced
  <2>2. PICK m, x, y : m = Cardinality(bits) /\ x = fr' /\ y = fr
    BY Zenon
  <2>3. x = Advanced(y, n, m) /\ y \in Frees /\ n \in Nat /\ m \in Nat
    BY <1>3, <1>4, <1>5, <2>1, <2>2, Zenon
  <2>4. Follows(x, y, n, m)
    BY ONLY <2>3, FreeNext, Zenon
  <2> QED
    BY ONLY <2>2, <2>4, Zenon DEF Follows
<1>7. used = (before \cup RlClusters(rl)) \ Gone /\ used \subseteq Clusters
  BY <1>1, Zenon DEF Owners, Balance, Types
<1>8. IF fr.by = "undo"
        THEN Gone = Gone' \cup bits /\ Gone' \cap bits = {}
        ELSE Gone' = Gone \cup bits /\ Gone \cap bits = {}
  <2>1. CASE fr.by = "undo"
    <3>1. /\ fr.count >= 0 /\ n <= fr.count
          /\ fr'.vcn + fr'.total = p + n /\ fr'.count = fr.count - n
          /\ (p + n) + (fr.count - n) = p + fr.count
      <4>1. fr.count >= 0
        BY <1>1, <2>1, Zenon DEF Owners, FreeSound
      <4>2. PICK c, t, v : c = fr.count /\ t = fr.total /\ v = fr.vcn
        BY Zenon
      <4>3. /\ c >= 0 /\ c \in Int /\ t \in Nat /\ v \in Nat /\ p = v + t
            /\ fr'.vcn = v /\ fr'.total = t + n /\ n <= c
            /\ fr'.count = IF c < 0 THEN c ELSE c - n
        BY <1>2, <1>3, <1>4, <1>6, <4>1, <4>2, Zenon
      <4> QED
        BY ONLY <1>3, <4>2, <4>3
    <3>2. Gone = Part(fr.rl, p, p + fr.count)
      BY <1>1, <1>2, <2>1, Zenon DEF Gone
    <3>3. Gone' = Part(fr.rl, p + n, p + fr.count)
      BY <1>1, <1>6, <2>1, <3>1, Zenon DEF Gone
    <3>4. PICK a, b : a = p + n /\ b = p + fr.count
      BY Zenon
    <3>5. a \in Nat /\ b \in Nat /\ p <= a /\ a <= b /\ p \in Nat
      <4>1. PICK c : c = fr.count
        BY Zenon
      <4>2. /\ p \in Nat /\ n \in Nat /\ c \in Int /\ c >= 0 /\ n <= c
            /\ a = p + n /\ b = p + c
        BY <1>3, <1>4, <3>1, <3>4, <4>1, Zenon
      <4> QED
        BY ONLY <4>2
    <3>6. /\ Part(fr.rl, p, b) = Part(fr.rl, p, a) \cup Part(fr.rl, a, b)
          /\ Part(fr.rl, p, a) \cap Part(fr.rl, a, b) = {}
      BY ONLY <1>4, <3>5, PartSplit
    <3> QED
      BY <1>3, <2>1, <3>2, <3>3, <3>4, <3>6, ZenonT(60)
  <2>2. CASE fr.by # "undo"
    <3>1. fr'.vcn + fr'.total = p + n
      BY ONLY <1>2, <1>3, <1>4, <1>6
    <3>2. Gone = Part(fr.rl, fr.vcn, p)
      BY <1>1, <1>2, <2>2, Zenon DEF Gone
    <3>3. Gone' = Part(fr.rl, fr.vcn, p + n)
      BY <1>1, <1>6, <2>2, <3>1, Zenon DEF Gone
    <3>4. PICK v, a : v = fr.vcn /\ a = p + n
      BY Zenon
    <3>5. a \in Nat /\ v \in Nat /\ v <= p /\ p <= a /\ p \in Nat
      BY <1>2, <1>3, <1>4, <3>4, SMTT(60)
    <3>6. /\ Part(fr.rl, v, a) = Part(fr.rl, v, p) \cup Part(fr.rl, p, a)
          /\ Part(fr.rl, v, p) \cap Part(fr.rl, p, a) = {}
      BY ONLY <1>4, <3>5, PartSplit
    <3> QED
      BY <1>3, <2>2, <3>2, <3>3, <3>4, <3>6, Zenon
  <2> QED
    BY <2>1, <2>2, Zenon
<1>9. bits \subseteq before \cup RlClusters(rl)
  BY <1>3, <1>4, Zenon
<1>10. used' = IF fr.by = "undo" THEN used \cup bits ELSE used \ bits
  BY <1>1, <1>2, Zenon
<1>11. used' \subseteq Clusters
  BY <1>5, <1>7, <1>10, Zenon
<1>12. Types'
  BY <1>1, <1>6, <1>11, Zenon DEF Owners, Types
<1>13. FilesSound'
  BY <1>1, Zenon DEF Owners, FilesSound, FilesIn
<1>14. Builds'
  BY <1>1, FreeBuilds, Zenon DEF Owners
<1>15. Balance'
  <2>1. used' = (before \cup RlClusters(rl)) \ Gone'
    BY <1>7, <1>8, <1>9, <1>10, Zenon
  <2> QED
    BY <1>1, <2>1, Zenon DEF Balance
<1>16. Counted'
  <2>1. nr_free_clusters = NrClusters - Cardinality(used)
    BY Zenon DEF Owners, Counted
  <2>2. nr_free_clusters' =
          Clamp(IF fr.by = "undo" THEN nr_free_clusters - Cardinality(bits)
                ELSE nr_free_clusters + Cardinality(bits))
    BY <1>1, <1>2, Zenon DEF NrFreeAfterRun
  <2>3. used \in SUBSET Clusters /\ bits \in SUBSET Clusters
    BY <1>5, <1>7, Zenon
  <2>4. CASE fr.by = "undo"
    <3>1. used \cap bits = {} /\ used' = used \cup bits
      BY <1>7, <1>8, <1>10, <2>4, Zenon
    <3>2. Clamp(NrClusters - Cardinality(used) - Cardinality(bits))
            = NrClusters - Cardinality(used \cup bits)
      BY ONLY <2>3, <3>1, Counting, CountIn, Zenon
    <3> QED
      BY <2>1, <2>2, <2>4, <3>1, <3>2, Zenon DEF Counted
  <2>5. CASE fr.by # "undo"
    <3>1. bits \in SUBSET used /\ used' = used \ bits
      BY <1>7, <1>8, <1>9, <1>10, <2>5, Zenon
    <3>2. Clamp(NrClusters - Cardinality(used) + Cardinality(bits))
            = NrClusters - Cardinality(used \ bits)
      BY ONLY <2>3, <3>1, Counting, CountOut, Zenon
    <3> QED
      BY <2>1, <2>2, <2>5, <3>1, <3>2, Zenon DEF Counted
  <2> QED
    BY <2>4, <2>5, Zenon
<1>17. FreeSound'
  <2>1. /\ fr.vcn < fr.rl[fr.i].vcn + fr.rl[fr.i].length
        /\ fr.by # "none"
        /\ fr.by = "alloc" => /\ rl # <<>> /\ fr.rl = rl /\ err # "none"
                              /\ fr.vcn = 0 /\ fr.count = -1
        /\ fr.by # "alloc" => /\ rl = <<>> /\ fr.rl \in files /\ req = NoReq
                              /\ fr.vcn < EndVcn(fr.rl)
        /\ fr.by = "undo" => fr.count >= 0
        /\ fr.by \in {"free", "free_from_rl"} =>
              \/ fr.count = -1
              \/ fr.count >= 0 /\ fr.vcn + fr.total + fr.count = EndVcn(fr.rl)
        /\ (fr.by # "undo" /\ fr.real = 0) => Gone = {}
    BY <1>1, Zenon DEF Owners, FreeSound
  <2>2. PICK r, i, v : r = fr.rl /\ i = fr.i /\ v = fr.vcn
    BY Zenon
  <2>3. /\ i + 1 \in DOMAIN r => v < r[i + 1].vcn + r[i + 1].length
        /\ r[i].vcn + r[i].length =
              IF i + 1 \in DOMAIN r
                THEN IF r[i + 1].vcn < v THEN v ELSE r[i + 1].vcn
                ELSE EndVcn(r)
    <3>1. Sound(r) /\ i \in DOMAIN r /\ v \in Nat /\ v < r[i].vcn + r[i].length
      BY <1>1, <1>4, <2>1, <2>2, Zenon
    <3> QED
      BY ONLY <3>1, NextPos, ZenonT(30)
  <2>4. Pos(fr.i)' = r[i].vcn + r[i].length
    BY <1>6, <2>2, <2>3, Zenon DEF Pos
  <2>5. (fr'.i > 0 /\ fr'.count # 0) => fr'.vcn + fr'.total = Pos(fr.i)'
    <3>1. fr'.vcn + fr'.total = p + n
      BY <1>2, <1>3, <1>4, <1>6, SMTT(60)
    <3>2. fr'.count # 0 => p + n = fr.rl[fr.i].vcn + fr.rl[fr.i].length
      BY <1>3, <1>4, <1>6
    <3> QED
      BY <2>2, <2>4, <3>1, <3>2, ZenonT(60)
  <2>6. (fr'.by # "undo" /\ fr'.real = 0) => Gone' = {}
    <3>1. fr'.real = 0 => fr.real = 0 /\ Cardinality(bits) = 0
      BY <1>4, <1>5, <1>6
    <3>2. Cardinality(bits) = 0 => bits = {}
      BY <1>5, CountNone, Zenon
    <3> QED
      BY <1>6, <1>8, <2>1, <3>1, <3>2, Zenon
  <2>7. /\ fr'.i # 0 /\ fr'.i <= Len(fr'.rl) + 1
        /\ fr'.i \in DOMAIN fr'.rl =>
              fr'.vcn < fr'.rl[fr'.i].vcn + fr'.rl[fr'.i].length
    BY <1>1, <1>4, <1>6, <2>2, <2>3
  <2>8. /\ fr'.by = "alloc" => fr'.count = -1
        /\ fr'.by = "undo" => fr'.count >= 0
        /\ fr'.by \in {"free", "free_from_rl"} =>
              \/ fr'.count = -1
              \/ fr'.count >= 0 /\ fr'.vcn + fr'.total + fr'.count = EndVcn(fr'.rl)
    <3>1. PICK c, d, s, e : /\ c = fr.count /\ d = fr'.count /\ s = fr.total
                            /\ e = EndVcn(fr.rl)
      BY Zenon
    <3>2. /\ c \in Int /\ c # 0 /\ s \in Nat /\ v \in Nat /\ e \in Nat
          /\ d = IF c < 0 THEN c ELSE c - n
          /\ c >= 0 => n <= c
          /\ n \in Nat
      BY <1>1, <1>3, <1>4, <1>6, <2>2, <3>1, ZenonT(60)
    <3>3. /\ c = -1 => d = -1
          /\ c >= 0 => d >= 0
          /\ (c >= 0 /\ v + s + c = e) => v + (s + n) + d = e
      BY ONLY <3>2
    <3>4. /\ fr'.by = fr.by /\ fr'.vcn = v /\ fr'.total = s + n /\ fr'.count = d
          /\ EndVcn(fr'.rl) = e
      BY <1>6, <2>2, <3>1, Zenon
    <3>5. /\ fr.by = "alloc" => c = -1
          /\ fr.by = "undo" => c >= 0
          /\ fr.by \in {"free", "free_from_rl"} =>
                c = -1 \/ (c >= 0 /\ v + s + c = e)
      BY <2>1, <2>2, <3>1, Zenon
    <3> QED
      BY ONLY <3>3, <3>4, <3>5, Zenon
  <2>9. /\ fr'.by # "none"
        /\ fr'.by = "alloc" => /\ rl' # <<>> /\ fr'.rl = rl' /\ err' # "none"
                               /\ fr'.vcn = 0
        /\ fr'.by # "alloc" => /\ rl' = <<>> /\ fr'.rl \in files' /\ req' = NoReq
                               /\ fr'.vcn < EndVcn(fr'.rl)
    BY <1>1, <1>6, <2>1
  <2> QED
    BY <2>5, <2>6, <2>7, <2>8, <2>9, Zenon DEF FreeSound
<1> QED
  BY <1>12, <1>13, <1>14, <1>15, <1>16, <1>17, Zenon DEF Owners

\* What has been freed is to be allocated again.
LEMMA UndoOwners ==
    ASSUME Counting, Owners, pc = "free", fr.by = "free", fr' = UndoCall,
           UNCHANGED <<used, nr_free_clusters, rl, clusters, req, before, pc,
                       err, files, system>>
    PROVE  Owners'
<1>1. /\ fr \in Frees /\ fr.vcn \in Nat /\ fr.total \in Nat
      /\ Len(fr.rl) \in Nat /\ DOMAIN fr.rl = 1..Len(fr.rl)
  BY FreedRunlist, Zenon
<1>2. /\ fr' \in Frees /\ fr'.by = "undo" /\ fr'.rl = fr.rl /\ fr'.vcn = fr.vcn
      /\ fr'.count = fr.total /\ fr'.i = 0 /\ fr'.total = 0 /\ fr'.real = 0
  <2>1. fr' = Undone(fr)
    BY Zenon DEF UndoCall, Undone
  <2>2. PICK y : y = fr
    BY Zenon
  <2>3. Reverses(Undone(y), y)
    BY ONLY <1>1, <2>2, FreeUndo, Zenon
  <2> QED
    BY ONLY <2>1, <2>2, <2>3, Zenon DEF Reverses
<1>3. Types'
  BY <1>2, Zenon DEF Owners, Types
<1>4. FilesSound'
  BY Zenon DEF Owners, FilesSound, FilesIn
<1>5. Builds'
  BY FreeBuilds, Zenon DEF Owners
<1>6. Gone' = Gone
  <2>1. Gone = Part(fr.rl, fr.vcn, fr.vcn + fr.total)
    BY Zenon DEF Gone
  <2>2. Gone' = Part(fr.rl, fr.vcn + 0, fr.vcn + 0 + fr.total)
    BY <1>2, Zenon DEF Gone
  <2>3. fr.vcn + 0 = fr.vcn
    BY <1>1
  <2> QED
    BY <2>1, <2>2, <2>3, Zenon
<1>7. FreeSound'
  <2>1. 0 \notin DOMAIN fr.rl
    BY <1>1
  <2>2. /\ rl = <<>> /\ fr.rl \in files /\ req = NoReq /\ fr.vcn < EndVcn(fr.rl)
    BY Zenon DEF Owners, FreeSound
  <2> QED
    BY <1>1, <1>2, <2>1, <2>2 DEF FreeSound
<1>8. Balance'
  BY <1>6, Zenon DEF Owners, Balance
<1>9. Counted'
  BY Zenon DEF Owners, Counted
<1> QED
  BY <1>3, <1>4, <1>5, <1>7, <1>8, <1>9, Zenon DEF Owners

\* A free operation that has changed nothing returns.
LEMMA NothingFreed ==
    ASSUME Counting, Owners, pc = "free", fr.by \in {"free", "free_from_rl"},
           fr.total = 0 \/ fr.real = 0
    PROVE  used = before /\ FilesIn(files, used)
<1>1. FilesIn(files, before) /\ RlClusters(rl) = {} /\ fr.rl \in Seq(Runs)
      /\ fr.vcn \in Nat
  BY FreedRunlist, Zenon
<1>2. Gone = {}
  <2>1. CASE fr.total = 0
    <3>1. Gone = Part(fr.rl, fr.vcn, fr.vcn + 0)
      BY <2>1, Zenon DEF Gone
    <3> QED
      BY <1>1, <3>1, PartEmpty
  <2>2. CASE fr.real = 0
    BY <2>2, Zenon DEF Owners, FreeSound
  <2> QED
    BY <2>1, <2>2, Zenon
<1>3. used = before
  BY <1>1, <1>2, Zenon DEF Owners, Balance
<1> QED
  BY <1>1, <1>3, Zenon

\* A run cannot be freed.
LEMMA FreeRunFailsOwners ==
    ASSUME Counting, Owners, FreeRunFails, ~errors', UNCHANGED system
    PROVE  /\ Owners'
           /\ pc' = "idle" => used' = before /\ files' = files /\ used = before
<1>1. /\ pc = "free" /\ UNCHANGED <<nr_free_clusters, before, system>>
  BY Zenon DEF FreeRunFails
<1>2. PICK changed \in LeftChanged(CurrentRun.bits) :
          /\ used' = IF fr.by = "undo" THEN used \cup changed ELSE used \ changed
          /\ errors' = \/ errors
                       \/ changed # {}
                       \/ fr.by \in {"alloc", "undo"}
                       \/ fr.by = "free_from_rl" /\ fr.total > 0
  BY Zenon DEF FreeRunFails
<1>3. /\ changed = {} /\ fr.by \notin {"alloc", "undo"}
      /\ ~(fr.by = "free_from_rl" /\ fr.total > 0)
  BY <1>2, Zenon
<1>4. used' = used
  BY <1>2, <1>3, Zenon
<1>5. fr.by \in {"free", "free_from_rl"}
  BY <1>1, <1>3, FreedRunlist, Zenon
<1>6. CASE /\ \/ fr.by \in {"alloc", "free_from_rl"} /\ fr.total = 0
              \/ fr.by = "free" /\ fr.real = 0
              \/ fr.by = "undo"
           /\ FreeReturns("EIO")
  <2>1. Return("EIO", files)
    BY <1>5, <1>6, Zenon DEF FreeReturns
  <2>2. used = before /\ FilesIn(files, used)
    BY <1>1, <1>3, <1>5, <1>6, NothingFreed, Zenon
  <2>3. Owners'
    BY <1>1, <1>4, <2>1, <2>2, ReturnOwners, Zenon
  <2>4. files' = files
    BY <2>1, Zenon DEF Return
  <2> QED
    BY <1>4, <2>2, <2>3, <2>4, Zenon
<1>7. CASE /\ fr.by = "free" /\ fr' = UndoCall
           /\ UNCHANGED <<rl, clusters, req, pc, err, files>>
  BY <1>1, <1>4, <1>7, UndoOwners, Zenon
<1> QED
  BY <1>3, <1>6, <1>7, Zenon DEF FreeRunFails, buildVars

\* A part of the runlist cannot be mapped.
LEMMA MapFragmentFailsOwners ==
    ASSUME Counting, Owners, MapFragmentFails, UNCHANGED system
    PROVE  /\ Owners'
           /\ pc' = "idle" => used' = before /\ files' = files /\ used = before
<1>1. /\ pc = "free" /\ fr.by = "free"
      /\ UNCHANGED <<used, nr_free_clusters, before, system>>
  BY Zenon DEF MapFragmentFails, bitmapVars
<1>2. CASE fr.real = 0 /\ FreeReturns("EIO")
  <2>1. Return("EIO", files)
    BY <1>1, <1>2, Zenon DEF FreeReturns
  <2>2. used = before /\ FilesIn(files, used)
    BY <1>1, <1>2, NothingFreed, Zenon
  <2>3. Owners'
    BY <1>1, <2>1, <2>2, ReturnOwners, Zenon
  <2>4. files' = files
    BY <2>1, Zenon DEF Return
  <2> QED
    BY <1>1, <2>2, <2>3, <2>4, Zenon
<1>3. CASE fr' = UndoCall /\ UNCHANGED <<rl, clusters, req, pc, err, files>>
  BY <1>1, <1>3, UndoOwners, Zenon
<1> QED
  BY <1>2, <1>3, Zenon DEF MapFragmentFails, buildVars

\* The runlists that remain when the rest of r from vcn v on has been freed.
Remaining(F, r, v) ==
    (F \ {r}) \cup (IF v = 0 THEN {} ELSE {Truncated(r, v)})

\* A caller gives up the end of its runlist.
LEMMA TruncateFiles ==
    ASSUME NEW F, NEW bits, FilesIn(F, bits), NEW r \in F, NEW v \in Nat,
           v < EndVcn(r), NEW gone, gone = Part(r, v, EndVcn(r)),
           NEW G, G = Remaining(F, r, v)
    PROVE  /\ FilesIn(G, bits \ gone)
           /\ OwnedBy(G) = OwnedBy(F) \ gone
           /\ gone \subseteq OwnedBy(F)
<1>1. Sound(r) /\ r[1].vcn = 0 /\ EndVcn(r) \in Nat /\ 0 <= v /\ v <= EndVcn(r)
  BY Ends DEF FilesIn, Sound
<1>2. PICK kept, all : kept = Part(r, 0, v) /\ all = RlClusters(r)
  BY Zenon
<1>3. all = kept \cup gone /\ kept \cap gone = {}
  <2>1. Part(r, 0, EndVcn(r)) = RlClusters(r)
    BY <1>1, PartAll
  <2>2. /\ Part(r, 0, EndVcn(r)) = Part(r, 0, v) \cup Part(r, v, EndVcn(r))
        /\ Part(r, 0, v) \cap Part(r, v, EndVcn(r)) = {}
    <3>1. 0 \in Nat
      OBVIOUS
    <3> QED
      BY <1>1, <3>1, PartSplit
  <2> QED
    BY <1>2, <2>1, <2>2, Zenon
<1>4. \A f \in F \ {r} : RlClusters(f) \cap all = {}
  BY <1>2, Zenon DEF FilesIn
<1>5. OwnedBy(F) = OwnedBy(F \ {r}) \cup all
  BY <1>2, Zenon DEF OwnedBy
<1>6. OwnedBy(F \ {r}) \cap all = {}
  BY <1>4, Zenon DEF OwnedBy
<1>7. FilesIn(F \ {r}, bits \ gone)
  <2>1. /\ \A f \in F \ {r} : Sound(f) /\ f[1].vcn = 0
        /\ \A f, g \in F \ {r} : f = g \/ RlClusters(f) \cap RlClusters(g) = {}
        /\ OwnedBy(F) \cap system = {}
        /\ OwnedBy(F) \cup system \subseteq bits
    BY Zenon DEF FilesIn
  <2>2. OwnedBy(F \ {r}) \cap system = {}
    BY <1>5, <2>1, Zenon
  <2>3. OwnedBy(F \ {r}) \cup system \subseteq bits \ gone
    BY <1>3, <1>5, <1>6, <2>1, Zenon
  <2> QED
    BY <2>1, <2>2, <2>3, Zenon DEF FilesIn
<1>8. CASE v = 0
  <2>1. G = F \ {r}
    BY <1>8, Zenon DEF Remaining
  <2>2. kept = {}
    <3>1. kept = Part(r, 0, 0)
      BY <1>2, <1>8, Zenon
    <3> QED
      BY <1>1, <3>1, PartEmpty, Zenon DEF Sound
  <2>3. all = gone
    BY <1>3, <2>2, Zenon
  <2> QED
    BY <1>5, <1>6, <1>7, <2>1, <2>3, Zenon
<1>9. CASE v # 0
  <2>1. PICK t : t = Truncated(r, v)
    BY Zenon
  <2>2. Sound(t) /\ t[1].vcn = 0 /\ RlClusters(t) = kept
    BY <1>1, <1>2, <1>9, <2>1, TruncateRunlist
  <2>3. G = (F \ {r}) \cup {t}
    BY <1>9, <2>1, Zenon DEF Remaining
  <2>4. OwnedBy(G) = OwnedBy(F \ {r}) \cup kept
    BY <2>2, <2>3, Zenon DEF OwnedBy
  <2>5. OwnedBy(G) = OwnedBy(F) \ gone
    BY <1>3, <1>5, <1>6, <2>4, Zenon
  <2>6. /\ OwnedBy(F) \cap system = {} /\ OwnedBy(F) \cup system \subseteq bits
    BY Zenon DEF FilesIn
  <2>7. OwnedBy(G) \cap system = {} /\ OwnedBy(G) \cup system \subseteq bits \ gone
    BY <1>3, <1>5, <2>5, <2>6, Zenon
  <2>8. \A f \in G : Sound(f) /\ f[1].vcn = 0
    BY <2>2, <2>3, Zenon DEF FilesIn
  <2>9. \A f, g \in G : f = g \/ RlClusters(f) \cap RlClusters(g) = {}
    <3>1. \A f \in F \ {r} : RlClusters(f) \cap RlClusters(t) = {}
      BY <1>3, <1>4, <2>2, Zenon
    <3>2. \A f, g \in F \ {r} : f = g \/ RlClusters(f) \cap RlClusters(g) = {}
      BY Zenon DEF FilesIn
    <3> QED
      BY <2>3, <3>1, <3>2, Zenon
  <2>10. FilesIn(G, bits \ gone)
    BY <2>7, <2>8, <2>9, Zenon DEF FilesIn
  <2> QED
    BY <1>3, <1>5, <2>5, <2>10, Zenon
<1> QED
  BY <1>8, <1>9, Zenon

\* What a free has done when it ends.
LEMMA FreeEnds ==
    ASSUME Counting, Owners, FreeDone
    PROVE  /\ fr.by \in {"alloc", "undo"} => used = before
           /\ fr.by \in {"free", "free_from_rl"} =>
                 /\ used = before \ Gone /\ Gone \subseteq OwnedBy(files)
                 /\ FilesIn(FilesAfterFree, used)
                 /\ OwnedBy(FilesAfterFree) = OwnedBy(files) \ Gone
<1>1. /\ pc = "free" /\ fr.i > 0 /\ (fr.i \notin DOMAIN fr.rl \/ fr.count = 0)
  BY Zenon DEF FreeDone
<1>2. /\ Sound(fr.rl) /\ fr.rl \in Seq(Runs) /\ fr.vcn \in Nat /\ fr.count \in Int
      /\ fr.i \in Nat /\ fr.total \in Nat /\ EndVcn(fr.rl) \in Nat
      /\ fr.rl[1].vcn \in Nat /\ FilesIn(files, before)
      /\ fr.by # "alloc" => RlClusters(rl) = {} /\ fr.rl \in files
      /\ fr.by \in {"alloc", "free_from_rl", "free", "undo"}
  BY <1>1, FreedRunlist, Zenon
<1>3. fr.count # 0 => fr.vcn + fr.total = EndVcn(fr.rl)
  BY <1>1, Zenon DEF Owners, FreeSound, Pos
<1>4. used = (before \cup RlClusters(rl)) \ Gone
  BY <1>1, Zenon DEF Owners, Balance
<1>5. CASE fr.by = "alloc"
  <2>1. fr.vcn = 0 /\ fr.count = -1 /\ fr.rl = rl /\ rl # <<>>
    BY <1>1, <1>5, Zenon DEF Owners, FreeSound
  <2>2. RlClusters(rl) \cap before = {}
    BY <2>1, Zenon DEF Owners, Builds, BuildSound
  <2>3. Gone = Part(rl, 0, EndVcn(rl))
    BY <1>1, <1>3, <1>5, <2>1 DEF Gone
  <2>4. Gone = RlClusters(rl)
    <3>1. Sound(rl) /\ EndVcn(rl) \in Nat /\ 0 \in Nat /\ 0 <= rl[1].vcn
          /\ EndVcn(rl) <= EndVcn(rl)
      BY <1>2, <2>1
    <3> QED
      BY ONLY <2>3, <3>1, PartAll, ZenonT(60)
  <2> QED
    BY <1>4, <1>5, <2>2, <2>4, Zenon
<1>6. CASE fr.by = "undo"
  <2>1. PICK a, b : a = fr.vcn + fr.total /\ b = fr.vcn + fr.total + fr.count
    BY Zenon
  <2>2. Gone = Part(fr.rl, a, b) /\ fr.count >= 0
    BY <1>1, <1>6, <2>1, ZenonT(60) DEF Gone, Owners, FreeSound
  <2>3. a \in Nat /\ b \in Nat /\ a <= b /\ (fr.count = 0 => b = a)
    BY <1>2, <2>1, <2>2, SMTT(60)
  <2>4. Gone = {}
    <3>1. CASE fr.count = 0
      BY <1>2, <2>2, <2>3, <3>1, PartEmpty, Zenon
    <3>2. CASE fr.count # 0
      <4>1. EndVcn(fr.rl) <= a
        BY <1>2, <1>3, <2>1, <3>2
      <4> QED
        BY ONLY <1>2, <2>2, <2>3, <4>1, PartBehind, Zenon
    <3> QED
      BY <3>1, <3>2, Zenon
  <2> QED
    BY <1>2, <1>4, <1>6, <2>4, Zenon
<1>7. CASE fr.by \in {"free", "free_from_rl"}
  <2>1. fr.vcn < EndVcn(fr.rl) /\ fr.vcn + fr.total = EndVcn(fr.rl)
    <3>1. /\ fr.vcn < EndVcn(fr.rl)
          /\ \/ fr.count = -1
             \/ fr.count >= 0 /\ fr.vcn + fr.total + fr.count = EndVcn(fr.rl)
      BY <1>1, <1>7, Zenon DEF Owners, FreeSound
    <3> QED
      BY <1>2, <1>3, <3>1
  <2>2. Gone = Part(fr.rl, fr.vcn, EndVcn(fr.rl))
    BY <1>1, <1>7, <2>1, Zenon DEF Gone
  <2>3. FilesAfterFree = Remaining(files, fr.rl, fr.vcn)
    BY Zenon DEF FilesAfterFree, Remaining
  <2>4. used = before \ Gone /\ fr.rl \in files
    BY <1>2, <1>4, <1>7, Zenon
  <2>5. /\ FilesIn(FilesAfterFree, before \ Gone)
        /\ OwnedBy(FilesAfterFree) = OwnedBy(files) \ Gone
        /\ Gone \subseteq OwnedBy(files)
    <3>1. PICK r, v, gone, G : /\ r = fr.rl /\ v = fr.vcn /\ gone = Gone
                               /\ G = FilesAfterFree
      BY ZenonT(30)
    <3>2. /\ FilesIn(files, before) /\ r \in files /\ v \in Nat /\ v < EndVcn(r)
          /\ gone = Part(r, v, EndVcn(r)) /\ G = Remaining(files, r, v)
      BY <1>2, <2>1, <2>2, <2>3, <2>4, <3>1, ZenonT(60)
    <3>3. /\ FilesIn(G, before \ gone)
          /\ OwnedBy(G) = OwnedBy(files) \ gone
          /\ gone \subseteq OwnedBy(files)
      BY ONLY <3>2, TruncateFiles
    <3> QED
      BY <3>1, <3>3, Zenon
  <2> QED
    BY <1>7, <2>4, <2>5, Zenon
<1> QED
  BY <1>2, <1>5, <1>6, <1>7, Zenon

\* A free ends.
LEMMA FreeDoneOwners ==
    ASSUME Counting, Owners, FreeDone, UNCHANGED system
    PROVE  Owners'
<1>1. /\ pc = "free" /\ FreeReturns("none")
      /\ UNCHANGED <<used, nr_free_clusters, before, system>>
  BY Zenon DEF FreeDone, bitmapVars
<1>2. FilesIn(files, before) /\ fr.by \in {"alloc", "free_from_rl", "free", "undo"}
  BY <1>1, FreedRunlist, Zenon
<1>3. CASE fr.by \in {"alloc", "undo"}
  <2>1. FilesIn(files, used)
    BY <1>2, <1>3, FreeEnds, Zenon
  <2>2. Return(err, files) \/ Return("EIO", files)
    BY <1>1, <1>3, Zenon DEF FreeReturns
  <2> QED
    BY <1>1, <2>1, <2>2, ReturnOwners, Zenon
<1>4. CASE fr.by \in {"free", "free_from_rl"}
  <2>1. FilesIn(FilesAfterFree, used)
    BY <1>4, FreeEnds, Zenon
  <2>2. Return("none", FilesAfterFree)
    BY <1>1, <1>4, Zenon DEF FreeReturns
  <2> QED
    BY <1>1, <2>1, <2>2, ReturnOwners, Zenon
<1> QED
  BY <1>2, <1>3, <1>4, Zenon
-----------------------------------------------------------------------------
\* The errors flag is never cleared.
LEMMA ErrorsStay == errors /\ [Next]_vars => errors'
<1> SUFFICES ASSUME errors, [Next]_vars
             PROVE  errors'
  OBVIOUS
<1>1. CASE FreeRunFails
  BY <1>1, Zenon DEF FreeRunFails
<1>2. CASE Quiet
  BY <1>2, QuietSteps, Zenon
<1>3. CASE \/ \E r \in Requests : StartAlloc(r)
           \/ \E f \in files : \E v \in 0..(EndVcn(f) - 1) :
                 \E by \in {"free_from_rl", "free"} :
                     \E n \in {-1, EndVcn(f) - v} : StartFree(by, f, v, n)
           \/ \E c \in Clusters : TakeCluster(c)
  BY <1>3, Zenon DEF StartAlloc, StartFree, TakeCluster, bitmapVars
<1>4. CASE AllocSucceeds \/ AllocFails \/ LookupVcn \/ FreeRun
              \/ MapFragmentFails \/ FreeDone
  BY <1>4, Zenon DEF AllocSucceeds, AllocFails, LookupVcn, FreeRun,
                     MapFragmentFails, FreeDone, bitmapVars
<1>5. CASE UNCHANGED vars
  BY <1>5, Zenon DEF vars, bitmapVars
<1> QED
  BY <1>1, <1>2, <1>3, <1>4, <1>5, StepCases, Zenon

\* Every step keeps the owners in balance.
LEMMA OwnersStep ==
    ASSUME Counting
    PROVE  Owners /\ [Next]_vars /\ ~errors' => Owners'
<1> SUFFICES ASSUME Owners, [Next]_vars, ~errors'
             PROVE  Owners'
  OBVIOUS
<1>0. Builds'
  BY BuildsStep, Zenon DEF Owners
<1>1. ASSUME UNCHANGED system, Quiet
      PROVE  Owners'
  BY <1>0, <1>1, QuietSteps, QuietOwners, Zenon
<1>2. ASSUME UNCHANGED system, \E r \in Requests : StartAlloc(r)
      PROVE  Owners'
  BY <1>2, StartAllocOwners, Zenon
<1>3. ASSUME UNCHANGED system,
             \E f \in files : \E v \in 0..(EndVcn(f) - 1) :
                 \E by \in {"free_from_rl", "free"} :
                     \E n \in {-1, EndVcn(f) - v} : StartFree(by, f, v, n)
      PROVE  Owners'
  BY <1>3, StartFreeOwners, Zenon
<1>4. ASSUME UNCHANGED system, \E c \in Clusters : TakeCluster(c)
      PROVE  Owners'
  BY <1>4, TakeClusterOwners, Zenon
<1>5. ASSUME UNCHANGED system, AllocSucceeds \/ AllocFails
      PROVE  Owners'
  BY <1>5, AllocSucceedsOwners, AllocFailsOwners, Zenon
<1>6. ASSUME UNCHANGED system, LookupVcn \/ FreeRun
      PROVE  Owners'
  BY <1>6, LookupVcnOwners, FreeRunOwners
<1>7. ASSUME UNCHANGED system, FreeRunFails \/ MapFragmentFails
      PROVE  Owners'
  BY <1>7, FreeRunFailsOwners, MapFragmentFailsOwners, Zenon
<1>8. ASSUME UNCHANGED system, FreeDone
      PROVE  Owners'
  BY <1>8, FreeDoneOwners, Zenon
<1>9. CASE UNCHANGED vars
  <2>1. UNCHANGED <<used, nr_free_clusters, pc, rl, fr, before, files, system,
                    req, err, clusters>>
    BY <1>9, Zenon DEF vars, bitmapVars, buildVars, callVars
  <2>2. Types' /\ Counted' /\ FilesSound'
    BY <2>1, Zenon DEF Owners, Types, Counted, FilesSound, FilesIn
  <2>3. Gone' = Gone
    BY <2>1, Zenon DEF Gone
  <2>4. FreeSound' /\ Balance'
    BY <2>1, <2>3, Zenon DEF Owners, FreeSound, Balance, Pos
  <2> QED
    BY <1>0, <2>2, <2>4, Zenon DEF Owners
<1> QED
  BY <1>1, <1>2, <1>3, <1>4, <1>5, <1>6, <1>7, <1>8, <1>9, StepCases,
     ZenonT(60)

\* What a call leaves behind when it returns.
LEMMA ReturnExact ==
    ASSUME Counting, Owners, Next, ~errors', pc # "idle", pc' = "idle"
    PROVE  /\ (err' # "none" => req.start_vcn = 0)
                 => used' \ Owned' = before \ Owned
           /\ (pc = "free" /\ fr.by \in {"free", "undo"} /\ err' # "none")
                 => used' = before
<1>0. Owned = OwnedBy(files) /\ Owned' = OwnedBy(files')
  BY Zenon DEF Owned, OwnedBy
<1>1. ~Quiet
  BY QuietSteps, Zenon DEF Searching
<1>2. ~(\E r \in Requests : StartAlloc(r)) /\ ~(\E c \in Clusters : TakeCluster(c))
  BY Zenon DEF StartAlloc, TakeCluster
<1>3. ~(\E f \in files : \E v \in 0..(EndVcn(f) - 1) :
           \E by \in {"free_from_rl", "free"} :
               \E n \in {-1, EndVcn(f) - v} : StartFree(by, f, v, n))
  BY Zenon DEF StartFree
<1>4. CASE AllocSucceeds
  <2>1. /\ pc = "out" /\ err = "none" /\ files' = files \cup {Merged(rl)}
        /\ used' = used
    BY <1>4, ZenonT(60) DEF AllocSucceeds, Return, bitmapVars
  <2>2. rl # <<>>
    BY <2>1, RequestCount DEF Owners, Builds, BuildSound
  <2>3. Sound(rl) /\ RlClusters(rl) \cap before = {}
    BY <2>2, Zenon DEF Owners, Builds, BuildSound
  <2>4. RlClusters(Merged(rl)) = RlClusters(rl)
    BY <2>3, BehindHole, Zenon
  <2>5. used = before \cup RlClusters(rl)
    BY <2>1, Zenon DEF Owners, Builds, BuildSound
  <2>6. PICK m : m = Merged(rl)
    BY Zenon
  <2>7. Owned' = Owned \cup RlClusters(rl)
    BY <1>0, <2>1, <2>4, <2>6, Zenon DEF OwnedBy
  <2> QED
    BY <2>1, <2>3, <2>5, <2>7, Zenon
<1>5. CASE AllocFails
  <2>1. pc = "out" /\ rl = <<>> /\ files' = files /\ used' = used
    BY <1>5, Zenon DEF AllocFails, Return, bitmapVars
  <2>2. used = before
    BY <2>1, EmptyRunlist, Zenon DEF Owners, Builds, BuildSound
  <2> QED
    BY <1>0, <2>1, <2>2, Zenon
<1>6. CASE LookupVcn
  <2>1. /\ pc = "free" /\ fr.i = 0 /\ Covering(fr.rl, fr.vcn) = {}
        /\ FreeReturns("none")
    BY <1>6, Zenon DEF LookupVcn
  <2>2. fr.by = "alloc" /\ fr.vcn < fr.rl[1].vcn
    BY <2>1, NothingFound, Zenon
  <2>3. fr.rl = rl /\ rl # <<>> /\ err # "none" /\ fr.vcn = 0
    BY <2>1, <2>2, Zenon DEF Owners, FreeSound
  <2>4. rl[1].vcn = req.start_vcn
    BY <2>3, Zenon DEF Owners, Builds, BuildSound
  <2>5. err' = err
    BY <2>1, <2>2, Zenon DEF FreeReturns, Return
  <2> QED
    BY <2>2, <2>3, <2>4, <2>5
<1>7. CASE FreeRun
  BY <1>7, Zenon DEF FreeRun
<1>8. CASE FreeRunFails \/ MapFragmentFails
  <2>1. used' = before /\ files' = files
    BY <1>8, StepCases, FreeRunFailsOwners, MapFragmentFailsOwners, Zenon
  <2> QED
    BY <1>0, <2>1, Zenon
<1>9. CASE FreeDone
  <2>1. /\ pc = "free" /\ FreeReturns("none") /\ used' = used
    BY <1>9, Zenon DEF FreeDone, bitmapVars
  <2>2. fr.by \in {"alloc", "free_from_rl", "free", "undo"}
    BY <2>1, FreedRunlist, Zenon
  <2>3. CASE fr.by \in {"alloc", "undo"}
    <3>1. files' = files
      BY <2>1, <2>3, Zenon DEF FreeReturns, Return
    <3>2. used = before
      BY <1>9, <2>3, FreeEnds, Zenon
    <3> QED
      BY <1>0, <2>1, <3>1, <3>2, Zenon
  <2>4. CASE fr.by \in {"free", "free_from_rl"}
    <3>1. files' = FilesAfterFree /\ err' = "none"
      BY <2>1, <2>4, Zenon DEF FreeReturns, Return
    <3>2. /\ used = before \ Gone /\ Gone \subseteq OwnedBy(files)
          /\ OwnedBy(FilesAfterFree) = OwnedBy(files) \ Gone
      BY <1>9, <2>4, FreeEnds, Zenon
    <3>3. Owned' = Owned \ Gone
      BY <1>0, <3>1, <3>2, Zenon
    <3> QED
      BY <1>0, <2>1, <3>1, <3>2, <3>3, ZenonT(60)
  <2> QED
    BY <2>2, <2>3, <2>4, Zenon
<1> QED
  BY <1>1, <1>2, <1>3, <1>4, <1>5, <1>6, <1>7, <1>8, <1>9, StepCases,
     ZenonT(60)

=============================================================================
