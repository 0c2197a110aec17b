-------------------------- MODULE NamespaceProofs ---------------------------
(***************************************************************************)
(* Link counts and names agree, the directories stay a tree and a failed   *)
(* call leaves nothing behind, for any directories, files, names, threads  *)
(* and failures.                                                           *)
(*                                                                         *)
(* A rename looks its source up before it has the lock of the inode, and   *)
(* moves the name later.  That the name still leads to the inode by then   *)
(* is a matter of who holds the locks of the directories: the invariant    *)
(* says for each place in a call which locks are held (Place), and that    *)
(* inodes being created are dead and distinct.                             *)
(*                                                                         *)
(* What the functions that change names do to the agreement of names and   *)
(* link counts comes first.  They keep it as long as the name they are     *)
(* given is an entry for the inode they are given, also for the inode      *)
(* whose link count a rename holds one too high; or else they set the      *)
(* errors flag, which is never reset.                                      *)
(***************************************************************************)
EXTENDS Namespace, TLAPS

\* Names agree, except that the link count of inode x is one too high.
AgreeBut(v, x) ==
    /\ \A d \in Dirs, n \in Names :
        v.ents[d][n] # None =>
            /\ v.ents[d][n] # Root
            /\ v.link[v.ents[d][n]] > 0
            /\ <<d, n>> \in v.fns[v.ents[d][n]]
    /\ \A i \in Inodes \ {Root} :
        /\ i \in v.inuse <=> v.link[i] > 0
        /\ v.link[i] > 0 =>
            /\ \A d \in Dirs, n \in Names :
                  <<d, n>> \in v.fns[i] => v.ents[d][n] = i
            /\ v.mlink[i] = Cardinality(v.fns[i])
            /\ v.link[i] = IF i = x THEN v.mlink[i] + 1 ELSE v.mlink[i]

Sound(v, x) == ~v.panic /\ v.link[Root] > 0 /\ AgreeBut(v, x)

-----------------------------------------------------------------------------
\* What counting names amounts to.  The lemmas below that need it assume it,
\* and CountingHolds proves it at the end of this module.
Counting ==
    /\ \A e : Cardinality({e}) = 1
    /\ \A S \in SUBSET (Dirs \X Names) :
          /\ Cardinality(S) \in Nat
          /\ \A e \in S : /\ Cardinality(S \ {e}) = Cardinality(S) - 1
                          /\ Cardinality(S) >= 1
                          /\ Cardinality(S) = 1 => S = {e}
          /\ \A e \in (Dirs \X Names) \ S :
                Cardinality(S \cup {e}) = Cardinality(S) + 1

\* The number of names of an inode, and of the names without one and with one
\* more of them.
LEMMA NamesCounted ==
    ASSUME Counting, NEW v \in Namespaces, NEW i \in Inodes
    PROVE  /\ Cardinality(v.fns[i]) \in Nat
           /\ \A e \in v.fns[i] :
                /\ Cardinality(v.fns[i] \ {e}) = Cardinality(v.fns[i]) - 1
                /\ Cardinality(v.fns[i]) >= 1
                /\ Cardinality(v.fns[i]) = 1 => v.fns[i] = {e}
           /\ \A e \in (Dirs \X Names) \ v.fns[i] :
                Cardinality(v.fns[i] \cup {e}) = Cardinality(v.fns[i]) + 1
<1>1. v.fns[i] \in SUBSET (Dirs \X Names)
  BY Zenon DEF Namespaces
<1> QED
  BY <1>1, Zenon DEF Counting

\* A set with one name counts one.
LEMMA OneName ==
    ASSUME Counting
    PROVE  \A e : Cardinality({e}) = 1
BY Zenon DEF Counting

\* The two ways to say that the names agree.
LEMMA AgreeButNobody ==
    ASSUME NEW v \in Namespaces
    PROVE  AgreeBut(v, None) <=> NamesAgree(v)
<1>1. None \notin Inodes
  BY NamespaceAssumption, Zenon
<1>2. ASSUME NEW i \in Inodes
      PROVE  (\A e \in v.fns[i] : v.ents[e[1]][e[2]] = i)
             <=> (\A d \in Dirs, n \in Names : <<d, n>> \in v.fns[i] => v.ents[d][n] = i)
  <2>1. v.fns[i] \subseteq Dirs \X Names
    BY Zenon DEF Namespaces
  <2> QED
    BY <2>1
<1>3. \A i \in Inodes : v.link[i] \in Int /\ v.mlink[i] \in Int
  BY Zenon DEF Namespaces
<1> QED
  BY <1>1, <1>2, <1>3 DEF AgreeBut, NamesAgree

-----------------------------------------------------------------------------
(***************************************************************************)
(* Trees.                                                                  *)
(***************************************************************************)

\* The parent of a directory has an entry for it, and so is not deleted.
LEMMA TreeParent ==
    ASSUME NEW v \in Namespaces, Sound(v, None), IsTree(v),
           NEW d \in Dirs \ {Root}, v.link[d] > 0
    PROVE  /\ v.parent[d] \in Dirs /\ v.link[v.parent[d]] > 0
           /\ ~ntfs_dir_is_empty(v, v.parent[d])
<1>1. PICK n \in Names : v.fns[d] = {<<v.parent[d], n>>}
  BY Zenon DEF IsTree
<1>2. v.parent[d] \in Dirs /\ d \in Inodes
  BY NamespaceAssumption, Zenon DEF Namespaces, Inodes
<1>3. v.ents[v.parent[d]][n] = d
  <2>1. \A e \in Dirs, m \in Names : <<e, m>> \in v.fns[d] => v.ents[e][m] = d
    BY <1>2, Zenon DEF Sound, AgreeBut
  <2>2. <<v.parent[d], n>> \in v.fns[d]
    BY <1>1, Zenon
  <2> QED
    BY <1>2, <2>1, <2>2, Zenon
<1>4. ~ntfs_dir_is_empty(v, v.parent[d])
  BY <1>2, <1>3, NamespaceAssumption, Zenon DEF ntfs_dir_is_empty
<1>5. v.link[v.parent[d]] > 0
  BY <1>2, <1>4, Zenon DEF IsTree, Sound
<1> QED
  BY <1>2, <1>4, <1>5, Zenon

\* Directories other than i are the same in w as in v.
DirsSame(v, w, i) ==
    \A d \in Dirs \ {i} : /\ w.fns[d] = v.fns[d] /\ w.link[d] = v.link[d]
                          /\ w.parent[d] = v.parent[d]

\* No directories all have their parents among them.
NoLoop(v) ==
    \A S \in SUBSET (Dirs \ {Root}) :
        S # {} /\ (\A d \in S : v.link[d] > 0) => \E d \in S : v.parent[d] \notin S

Shape(v, d) ==
    IF v.link[d] > 0 THEN \E n \in Names : v.fns[d] = {<<v.parent[d], n>>}
                     ELSE ntfs_dir_is_empty(v, d)

\* A tree has a parent for each directory and no loops.
LEMMA TreeParts ==
    ASSUME NEW v
    PROVE  IsTree(v) <=> (\A d \in Dirs \ {Root} : Shape(v, d)) /\ NoLoop(v)
BY Zenon DEF IsTree, Shape, NoLoop

\* The one name of a directory.
LEMMA TreeName ==
    ASSUME NEW v, IsTree(v), NEW i, i # Root, v.link[i] > 0,
           NEW dir, NEW name, <<dir, name>> \in v.fns[i]
    PROVE  i \in Dirs => v.fns[i] = {<<dir, name>>} /\ v.parent[i] = dir
<1> SUFFICES ASSUME i \in Dirs
             PROVE  v.fns[i] = {<<dir, name>>} /\ v.parent[i] = dir
  OBVIOUS
<1>1. PICK n \in Names : v.fns[i] = {<<v.parent[i], n>>}
  BY Zenon DEF IsTree
<1>2. <<dir, name>> = <<v.parent[i], n>>
  BY <1>1, Zenon
<1> QED
  BY <1>1, <1>2, Zenon

\* A new directory.
LEMMA CreateTree ==
    ASSUME NEW v \in Namespaces, NEW w \in Namespaces, Sound(v, None), IsTree(v),
           NEW dir \in Dirs, NEW name \in Names, NEW i \in Inodes,
           v.link[dir] > 0, ~(v.link[i] > 0), DirsSame(v, w, i),
           \A d \in Dirs \ {dir} : w.ents[d] = v.ents[d],
           i \in Dirs => w.fns[i] = {<<dir, name>>} /\ w.link[i] = 1 /\ w.parent[i] = dir
    PROVE  IsTree(w)
<1>0. i # dir /\ i # Root
  BY Zenon DEF Sound
<1>1. ASSUME NEW d \in Dirs \ {Root} PROVE Shape(w, d)
  <2>1. CASE d = i
    BY <2>1 DEF Shape
  <2>2. CASE d # i /\ v.link[d] > 0
    BY <2>2 DEF DirsSame, IsTree, Shape
  <2>3. CASE d # i /\ ~(v.link[d] > 0)
    <3>1. d # dir /\ w.ents[d] = v.ents[d] /\ w.link[d] = v.link[d]
      BY <2>3, Zenon DEF DirsSame
    <3> QED
      BY <2>3, <3>1 DEF IsTree, Shape, ntfs_dir_is_empty
  <2> QED
    BY <2>1, <2>2, <2>3, Zenon
<1>2. ASSUME NEW S \in SUBSET (Dirs \ {Root}), S # {}, \A d \in S : w.link[d] > 0,
             \A d \in S : w.parent[d] \in S
      PROVE  FALSE
  <2> DEFINE T == S \ {i}
  <2>1. T \in SUBSET (Dirs \ {Root}) /\ \A d \in T : v.link[d] > 0 /\ v.parent[d] \in S
    BY <1>2, Zenon DEF DirsSame
  <2>2. T # {}
    BY <1>0, <1>2
  <2>3. ASSUME NEW d \in T PROVE v.parent[d] # i
    BY <2>1, TreeParent, Zenon
  <2>4. \A d \in T : v.parent[d] \in T
    BY <2>1, <2>3, Zenon
  <2> QED
    BY <2>1, <2>2, <2>4, Zenon DEF IsTree
<1>3. NoLoop(w)
  BY <1>2, Zenon DEF NoLoop
<1> QED
  BY <1>1, <1>3, TreeParts, Zenon

\* A name less: i is empty when it is a directory, and is then deleted.
LEMMA UnlinkTree ==
    ASSUME NEW v \in Namespaces, NEW w \in Namespaces, IsTree(v), NEW i \in Inodes,
           DirsSame(v, w, i),
           \A d \in Dirs, n \in Names : w.ents[d][n] \in {None, v.ents[d][n]},
           i \in Dirs => ntfs_dir_is_empty(v, i) /\ ~(w.link[i] > 0)
    PROVE  IsTree(w)
<1>1. ASSUME NEW d \in Dirs \ {Root} PROVE Shape(w, d)
  <2>1. ntfs_dir_is_empty(v, d) => ntfs_dir_is_empty(w, d)
    BY Zenon DEF ntfs_dir_is_empty
  <2>2. CASE d = i
    BY <2>1, <2>2, Zenon DEF Shape
  <2>3. CASE d # i
    BY <2>1, <2>3 DEF DirsSame, IsTree, Shape
  <2> QED
    BY <2>2, <2>3, Zenon
<1>2. ASSUME NEW S \in SUBSET (Dirs \ {Root}), S # {}, \A d \in S : w.link[d] > 0,
             \A d \in S : w.parent[d] \in S
      PROVE  FALSE
  <2>1. i \notin S
    BY <1>2, Zenon
  <2>2. \A d \in S : v.link[d] > 0 /\ v.parent[d] \in S
    BY <1>2, <2>1, Zenon DEF DirsSame
  <2> QED
    BY <1>2, <2>2, Zenon DEF IsTree
<1>3. NoLoop(w)
  BY <1>2, Zenon DEF NoLoop
<1> QED
  BY <1>1, <1>3, TreeParts, Zenon

\* A directory that is moved, or moved and put back, or a file that is linked
\* or moved.
LEMMA MoveTree ==
    ASSUME NEW v \in Namespaces, NEW w \in Namespaces, Sound(v, None), IsTree(v),
           NEW i \in Inodes, NEW dir \in Dirs, NEW dst_dir \in Dirs,
           NEW name \in Names, NEW dst_name \in Names,
           v.link[dst_dir] > 0, v.link[dir] > 0, DirsSame(v, w, i),
           \A d \in Dirs \ {dir, dst_dir} : w.ents[d] = v.ents[d],
           i \in Dirs =>
               /\ i \notin {Root, dir}
               /\ v.link[i] > 0 /\ w.link[i] = v.link[i] /\ v.parent[i] = dir
               /\ \/ w.fns[i] = {<<dir, name>>} /\ w.parent[i] = dir
                  \/ w.fns[i] = {<<dst_dir, dst_name>>} /\ w.parent[i] = dst_dir,
           NEW P, i \in Dirs =>
               /\ P \in SUBSET Dirs /\ dst_dir \in P /\ i \notin P
               /\ \A d \in P \ {dir, Root} : v.link[d] > 0 /\ v.parent[d] \in P
    PROVE  IsTree(w)
<1>1. ASSUME NEW d \in Dirs \ {Root} PROVE Shape(w, d)
  <2>1. CASE d = i
    BY <2>1, Zenon DEF Shape
  <2>2. CASE d # i /\ v.link[d] > 0
    BY <2>2 DEF DirsSame, IsTree, Shape
  <2>3. CASE d # i /\ ~(v.link[d] > 0)
    <3>1. d \notin {dir, dst_dir} /\ w.ents[d] = v.ents[d] /\ w.link[d] = v.link[d]
      BY <2>3, Zenon DEF DirsSame
    <3> QED
      BY <2>3, <3>1 DEF IsTree, Shape, ntfs_dir_is_empty
  <2> QED
    BY <2>1, <2>2, <2>3, Zenon
<1>2. ASSUME NEW S \in SUBSET (Dirs \ {Root}), S # {}, \A d \in S : w.link[d] > 0,
             \A d \in S : w.parent[d] \in S
      PROVE  FALSE
  <2>1. \A d \in S \ {i} : v.link[d] > 0 /\ v.parent[d] \in S
    BY <1>2, Zenon DEF DirsSame
  <2>2. CASE i \notin S \/ dir \in S
    <3>1. \A d \in S : v.link[d] > 0 /\ v.parent[d] \in S
      BY <2>1, <2>2, Zenon
    <3> QED
      BY <1>2, <3>1, Zenon DEF IsTree
  <2>3. CASE i \in S /\ dir \notin S
    <3> DEFINE T == S \cap P
    <3>1. i \in Dirs /\ dst_dir \in T
      BY <1>2, <2>3, Zenon
    <3>2. \A d \in T : v.link[d] > 0 /\ v.parent[d] \in T
      BY <2>1, <2>3, <3>1, Zenon
    <3>3. T \in SUBSET (Dirs \ {Root}) /\ T # {}
      BY <3>1, Zenon
    <3> QED
      BY <3>2, <3>3, Zenon DEF IsTree
  <2> QED
    BY <2>2, <2>3, Zenon
<1>3. NoLoop(w)
  BY <1>2, Zenon DEF NoLoop
<1> QED
  BY <1>1, <1>3, TreeParts, Zenon

-----------------------------------------------------------------------------
(***************************************************************************)
(* The functions that change one name.                                     *)
(***************************************************************************)
LEMMA OutcomeParts ==
    ASSUME NEW v, NEW e
    PROVE  Outcome(v, e).ns = v /\ Outcome(v, e).err = e
BY Zenon DEF Outcome

\* Corrupt() sets the errors flag and nothing else.
LEMMA CorruptParts ==
    ASSUME NEW v \in Namespaces
    PROVE  /\ Corrupt(v) \in Namespaces /\ Corrupt(v).errors
           /\ Corrupt(v).ents = v.ents /\ Corrupt(v).link = v.link
BY Zenon DEF Corrupt, Namespaces

\* ntfs_unlink_internal(), for an inode that has the name, once as a call of
\* its own and once from a rename, which has raised the link count of i.
LEMMA UnlinkSound ==
    ASSUME Counting,
           NEW v \in Namespaces, NEW dir \in Dirs, NEW name \in Names,
           NEW i \in Inodes, NEW is_rename \in BOOLEAN, NEW x,
           x = (IF is_rename THEN i ELSE None),
           v.ents[dir][name] = i, Sound(v, x),
           NEW o \in ntfs_unlink_internal(v, dir, name, i, is_rename)
    PROVE  /\ o.ns \in Namespaces
           /\ \A d \in Dirs \ {dir} : o.ns.ents[d] = v.ents[d]
           /\ o.ns.errors \/ Sound(o.ns, x)
           /\ \A j \in Inodes : o.ns.link[j] <= v.link[j]
           /\ o.err # "ok" /\ ~o.ns.errors => o.ns = v
           /\ \A n \in Names \ {name} : o.ns.ents[dir][n] = v.ents[dir][n]
           /\ o.err = "ok" /\ x = i => o.ns.link[i] > 0
<1> DEFINE extra == IF is_rename THEN 1 ELSE 0
           gone == [v EXCEPT !.ents[dir][name] = None]
           done == [gone EXCEPT
                       !.fns[i] = IF v.link[i] > 1 THEN @ \ {<<dir, name>>} ELSE @,
                       !.mlink[i] = IF v.link[i] > 1 THEN v.link[i] - 1 - extra ELSE @,
                       !.inuse = IF v.link[i] > 1 THEN @ ELSE @ \ {i},
                       !.link[i] = @ - 1]
<1>1. /\ i # Root /\ i # None /\ v.link[i] > 0 /\ <<dir, name>> \in v.fns[i]
      /\ v.mlink[i] = Cardinality(v.fns[i]) /\ v.link[i] = v.mlink[i] + extra
  BY NamespaceAssumption DEF Sound, AgreeBut, Namespaces
<1>2. /\ Cardinality(v.fns[i] \ {<<dir, name>>}) = Cardinality(v.fns[i]) - 1
      /\ Cardinality(v.fns[i]) \in Nat /\ Cardinality(v.fns[i]) >= 1
      /\ Cardinality(v.fns[i]) = 1 => v.fns[i] = {<<dir, name>>}
  BY <1>1, NamesCounted, ZenonT(60)
<1>3. /\ gone \in Namespaces /\ gone.ents = [v.ents EXCEPT ![dir][name] = None]
      /\ gone.link = v.link
  BY Zenon DEF Namespaces
<1>4. /\ done \in Namespaces
      /\ done.ents = gone.ents
      /\ done.fns = [v.fns EXCEPT ![i] = IF v.link[i] > 1 THEN v.fns[i] \ {<<dir, name>>} ELSE v.fns[i]]
      /\ done.mlink = [v.mlink EXCEPT ![i] = IF v.link[i] > 1 THEN v.link[i] - 1 - extra ELSE v.mlink[i]]
      /\ done.inuse = IF v.link[i] > 1 THEN v.inuse ELSE v.inuse \ {i}
      /\ done.link = [v.link EXCEPT ![i] = v.link[i] - 1]
      /\ done.panic = v.panic /\ done.errors = v.errors
  <2>1. done.fns = [v.fns EXCEPT ![i] = IF v.link[i] > 1 THEN v.fns[i] \ {<<dir, name>>} ELSE v.fns[i]]
    BY Zenon DEF Namespaces
  <2>2. done.mlink = [v.mlink EXCEPT ![i] = IF v.link[i] > 1 THEN v.link[i] - 1 - extra ELSE v.mlink[i]]
    BY Zenon DEF Namespaces
  <2>3. done.inuse = IF v.link[i] > 1 THEN v.inuse ELSE v.inuse \ {i}
    BY Zenon DEF Namespaces
  <2>4. done.link = [v.link EXCEPT ![i] = v.link[i] - 1]
    BY Zenon DEF Namespaces
  <2>5. done.ents = gone.ents /\ done.parent = v.parent
    BY ZenonT(60) DEF Namespaces
  <2>6. done.panic = v.panic /\ done.errors = v.errors
    BY Zenon DEF Namespaces
  <2>7. /\ done.fns \in [Inodes -> SUBSET (Dirs \X Names)]
        /\ done.mlink \in [Inodes -> Int] /\ done.link \in [Inodes -> Int]
        /\ done.inuse \in SUBSET Inodes
    BY <2>1, <2>2, <2>3, <2>4 DEF Namespaces
  <2>8. done = [gone EXCEPT !.fns = done.fns, !.mlink = done.mlink,
                            !.inuse = done.inuse, !.link = done.link]
    BY <1>3, Zenon DEF Namespaces
  <2> HIDE DEF done, gone
  <2>9. done \in Namespaces
    BY <1>3, <2>7, <2>8, Zenon DEF Namespaces
  <2> QED
    BY <2>1, <2>2, <2>3, <2>4, <2>5, <2>6, <2>9, Zenon
<1> HIDE DEF done
<1>5. Sound(done, x)
  <2> USE DEF Namespaces
  <2>1. ASSUME NEW d \in Dirs, NEW n \in Names, done.ents[d][n] # None
        PROVE  /\ done.ents[d][n] # Root
               /\ done.link[done.ents[d][n]] > 0
               /\ <<d, n>> \in done.fns[done.ents[d][n]]
    <3>1. <<d, n>> # <<dir, name>> /\ done.ents[d][n] = v.ents[d][n]
      BY <1>3, <1>4, <2>1
    <3>2. /\ v.ents[d][n] # Root /\ v.link[v.ents[d][n]] > 0
          /\ <<d, n>> \in v.fns[v.ents[d][n]] /\ v.ents[d][n] \in Inodes
      BY <2>1, <3>1 DEF Sound, AgreeBut
    <3>3. CASE v.ents[d][n] # i
      BY <1>4, <3>1, <3>2, <3>3
    <3>4. CASE v.ents[d][n] = i
      <4>1. v.link[i] > 1
        BY <1>1, <1>2, <3>1, <3>2, <3>4
      <4> QED
        BY <1>4, <3>1, <3>2, <3>4, <4>1
    <3> QED
      BY <3>3, <3>4, Zenon
  <2>2. ASSUME NEW j \in Inodes \ {Root}
        PROVE  /\ j \in done.inuse <=> done.link[j] > 0
               /\ done.link[j] > 0 =>
                   /\ \A d \in Dirs, n \in Names :
                         <<d, n>> \in done.fns[j] => done.ents[d][n] = j
                   /\ done.mlink[j] = Cardinality(done.fns[j])
                   /\ done.link[j] = IF j = x THEN done.mlink[j] + 1 ELSE done.mlink[j]
    <3>1. CASE j # i
      <4>1. /\ (j \in done.inuse <=> j \in v.inuse) /\ done.link[j] = v.link[j]
            /\ done.fns[j] = v.fns[j] /\ done.mlink[j] = v.mlink[j]
        BY <1>4, <3>1
      <4>2. ASSUME v.link[j] > 0, NEW d \in Dirs, NEW n \in Names, <<d, n>> \in v.fns[j]
            PROVE  done.ents[d][n] = j
        <5>1. v.ents[d][n] = j
          BY <4>2 DEF Sound, AgreeBut
        <5>2. <<d, n>> # <<dir, name>>
          BY <5>1, <3>1, Zenon
        <5> QED
          BY <1>3, <1>4, <5>1, <5>2
      <4> QED
        BY <4>1, <4>2 DEF Sound, AgreeBut
    <3>2. CASE j = i /\ v.link[i] > 1
      <4>0. i \in v.inuse
        BY <1>1, <3>2, Zenon DEF Sound, AgreeBut
      <4>1. /\ i \in done.inuse /\ done.link[i] = v.link[i] - 1
            /\ done.fns[i] = v.fns[i] \ {<<dir, name>>}
            /\ done.mlink[i] = v.link[i] - 1 - extra
        BY <1>4, <3>2, <4>0, Zenon
      <4>2. ASSUME NEW d \in Dirs, NEW n \in Names, <<d, n>> \in done.fns[i]
            PROVE  done.ents[d][n] = i
        <5>1. <<d, n>> \in v.fns[i] /\ <<d, n>> # <<dir, name>>
          BY <4>1, <4>2, Zenon
        <5>2. v.ents[d][n] = i
          BY <1>1, <5>1 DEF Sound, AgreeBut
        <5> QED
          BY <1>3, <1>4, <5>1, <5>2
      <4>3. /\ v.link[i] \in Int /\ extra \in {0, 1} /\ (extra = 1 <=> i = x)
        BY <1>1
      <4> QED
        BY <1>1, <1>2, <3>2, <4>1, <4>2, <4>3
    <3>3. CASE j = i /\ ~(v.link[i] > 1)
      <4>1. i \notin done.inuse /\ done.link[i] = v.link[i] - 1 /\ v.link[i] \in Int
        BY <1>4, <3>3
      <4> QED
        BY <3>3, <4>1
    <3> QED
      BY <3>1, <3>2, <3>3, Zenon
  <2>3. ~done.panic /\ done.link[Root] > 0
    BY <1>1, <1>4, NamespaceAssumption, Zenon DEF Sound, Inodes
  <2> QED
    BY <2>1, <2>2, <2>3, Zenon DEF Sound, AgreeBut
<1>6. \/ o = Outcome(done, "ok")
      \/ o = Outcome(v, "fail")
      \/ o = Outcome(Corrupt(gone), "fail")
  BY <1>1, Zenon DEF ntfs_unlink_internal, done
<1> HIDE DEF gone
<1>7. CASE o = Outcome(done, "ok")
  <2>1. o.ns = done /\ o.err = "ok"
    BY <1>7, OutcomeParts, Zenon
  <2>2. \A j \in Inodes : done.link[j] <= v.link[j]
    BY <1>4 DEF Namespaces
  <2>3. x = i => done.link[i] > 0
    BY <1>1, <1>2, <1>4 DEF Namespaces
  <2>4. /\ \A d \in Dirs \ {dir} : done.ents[d] = v.ents[d]
        /\ \A n \in Names \ {name} : done.ents[dir][n] = v.ents[dir][n]
    BY <1>3, <1>4 DEF Namespaces
  <2> QED
    BY <1>4, <1>5, <2>1, <2>2, <2>3, <2>4, Zenon
<1>8. CASE o = Outcome(v, "fail")
  <2>1. o.ns = v /\ o.err = "fail"
    BY <1>8, OutcomeParts, Zenon
  <2> QED
    BY <2>1 DEF Namespaces
<1>9. CASE o = Outcome(Corrupt(gone), "fail")
  <2>1. o.ns = Corrupt(gone) /\ o.err = "fail"
    BY <1>9, OutcomeParts, Zenon
  <2>2. /\ Corrupt(gone) \in Namespaces /\ Corrupt(gone).errors
        /\ Corrupt(gone).ents = gone.ents /\ Corrupt(gone).link = v.link
    BY <1>3, CorruptParts, Zenon
  <2> QED
    BY <1>3, <2>1, <2>2 DEF Namespaces
<1> QED
  BY <1>6, <1>7, <1>8, <1>9, Zenon

\* ntfs_link_internal(), for an inode that is not deleted.
LEMMA LinkSound ==
    ASSUME Counting,
           NEW v \in Namespaces, NEW dir \in Dirs, NEW name \in Names,
           NEW i \in Inodes \ {Root}, NEW is_rename \in BOOLEAN, NEW x,
           x = (IF is_rename THEN i ELSE None),
           v.link[i] > 0, Sound(v, x),
           NEW o \in ntfs_link_internal(v, i, dir, name, is_rename)
    PROVE  /\ o.ns \in Namespaces
           /\ \A d \in Dirs \ {dir} : o.ns.ents[d] = v.ents[d]
           /\ o.ns.errors \/ Sound(o.ns, x)
           /\ \A j \in Inodes \ {i} : o.ns.link[j] = v.link[j]
           /\ o.err # "ok" /\ ~o.ns.errors => o.ns = v
           /\ o.err = "ok" => o.ns.ents[dir][name] = i
<1> DEFINE extra == IF is_rename THEN 1 ELSE 0
           added == [v EXCEPT !.ents[dir][name] = i]
           done == [added EXCEPT
                       !.fns[i] = @ \cup {<<dir, name>>},
                       !.link[i] = @ + 1,
                       !.mlink[i] = v.link[i] + 1 - extra,
                       !.parent = IF is_rename /\ i \in Dirs
                                  THEN [@ EXCEPT ![i] = dir] ELSE @]
<1>1. /\ i # None /\ None \notin Inodes /\ i \in v.inuse
      /\ v.mlink[i] = Cardinality(v.fns[i]) /\ v.link[i] = v.mlink[i] + extra
  BY NamespaceAssumption DEF Sound, AgreeBut, Namespaces
<1>2. ASSUME <<dir, name>> \notin v.fns[i]
      PROVE  Cardinality(v.fns[i] \cup {<<dir, name>>}) = Cardinality(v.fns[i]) + 1
  BY <1>2, NamesCounted, Zenon
<1>3. /\ added \in Namespaces /\ added.ents = [v.ents EXCEPT ![dir][name] = i]
      /\ added.link = v.link
  BY Zenon DEF Namespaces
<1>4. /\ done \in Namespaces
      /\ done.ents = added.ents
      /\ done.fns = [v.fns EXCEPT ![i] = v.fns[i] \cup {<<dir, name>>}]
      /\ done.mlink = [v.mlink EXCEPT ![i] = v.link[i] + 1 - extra]
      /\ done.link = [v.link EXCEPT ![i] = v.link[i] + 1]
      /\ done.inuse = v.inuse /\ done.panic = v.panic /\ done.errors = v.errors
  <2>1. done.fns = [v.fns EXCEPT ![i] = v.fns[i] \cup {<<dir, name>>}]
    BY Zenon DEF Namespaces
  <2>2. done.mlink = [v.mlink EXCEPT ![i] = v.link[i] + 1 - extra]
    BY Zenon DEF Namespaces
  <2> DEFINE P == IF is_rename /\ i \in Dirs THEN [added.parent EXCEPT ![i] = dir] ELSE added.parent
             F == [added.fns EXCEPT ![i] = @ \cup {<<dir, name>>}]
             L == [added.link EXCEPT ![i] = @ + 1]
             M == [added.mlink EXCEPT ![i] = v.link[i] + 1 - extra]
  <2>3. P \in [Dirs -> Dirs]
    BY Zenon DEF Namespaces
  <2>4. done.link = [v.link EXCEPT ![i] = v.link[i] + 1]
    BY Zenon DEF Namespaces
  <2>5. done.ents = added.ents /\ done.inuse = v.inuse
    BY Zenon DEF Namespaces
  <2>6. done.panic = v.panic /\ done.errors = v.errors
    BY Zenon DEF Namespaces
  <2>7. /\ done.fns \in [Inodes -> SUBSET (Dirs \X Names)]
        /\ done.mlink \in [Inodes -> Int] /\ done.link \in [Inodes -> Int]
    BY <2>1, <2>2, <2>4 DEF Namespaces
  <2>8. done = [added EXCEPT !.fns = F, !.link = L, !.mlink = M, !.parent = P]
    OBVIOUS
  <2>9. done.fns = F /\ done.link = L /\ done.mlink = M
    BY <1>3, Zenon DEF Namespaces
  <2> HIDE DEF done, added, P, F, L, M
  <2>10. done \in Namespaces
    BY <1>3, <2>3, <2>7, <2>8, <2>9, Zenon DEF Namespaces
  <2> QED
    BY <2>1, <2>2, <2>4, <2>5, <2>6, <2>10, Zenon
<1>5. /\ o = Outcome(done, "ok") => <<dir, name>> \notin v.fns[i] /\ v.ents[dir][name] = None
      /\ \/ o = Outcome(done, "ok")
         \/ o = Outcome(v, "fail")
         \/ o = Outcome(Corrupt(added), "fail")
  <2>1. Outcome(done, "ok") # Outcome(v, "fail") /\ Outcome(done, "ok") # Outcome(Corrupt(added), "fail")
    BY OutcomeParts
  <2> QED
    BY <2>1, Zenon DEF ntfs_link_internal
<1> HIDE DEF done, added
<1>6. CASE o = Outcome(done, "ok")
  <2>1. o.ns = done /\ o.err = "ok"
    BY <1>6, OutcomeParts, Zenon
  <2>2. <<dir, name>> \notin v.fns[i] /\ v.ents[dir][name] = None
    BY <1>5, <1>6, Zenon
  <2>3. ASSUME NEW d \in Dirs, NEW n \in Names, done.ents[d][n] # None
        PROVE  /\ done.ents[d][n] # Root
               /\ done.link[done.ents[d][n]] > 0
               /\ <<d, n>> \in done.fns[done.ents[d][n]]
    <3>1. CASE <<d, n>> = <<dir, name>>
      <4>1. done.ents[d][n] = i
        BY <1>3, <1>4, <3>1 DEF Namespaces
      <4>2. done.link[i] = v.link[i] + 1 /\ <<dir, name>> \in done.fns[i] /\ v.link[i] \in Int
        BY <1>4, SMTT(60) DEF Namespaces
      <4> QED
        BY <3>1, <4>1, <4>2
    <3>2. CASE <<d, n>> # <<dir, name>>
      <4>1. done.ents[d][n] = v.ents[d][n]
        BY <1>3, <1>4, <3>2 DEF Namespaces
      <4>2. /\ v.ents[d][n] # Root /\ v.link[v.ents[d][n]] > 0
            /\ <<d, n>> \in v.fns[v.ents[d][n]] /\ v.ents[d][n] \in Inodes
        BY <2>3, <4>1 DEF Sound, AgreeBut, Namespaces
      <4>3. /\ done.link[v.ents[d][n]] >= v.link[v.ents[d][n]]
            /\ v.link[v.ents[d][n]] \in Int /\ done.link[v.ents[d][n]] \in Int
            /\ v.fns[v.ents[d][n]] \subseteq done.fns[v.ents[d][n]]
        BY <1>4, <4>2 DEF Namespaces
      <4> QED
        BY <4>1, <4>2, <4>3
    <3> QED
      BY <3>1, <3>2, Zenon
  <2>4. ASSUME NEW j \in Inodes \ {Root}
        PROVE  /\ j \in done.inuse <=> done.link[j] > 0
               /\ done.link[j] > 0 =>
                   /\ \A d \in Dirs, n \in Names :
                         <<d, n>> \in done.fns[j] => done.ents[d][n] = j
                   /\ done.mlink[j] = Cardinality(done.fns[j])
                   /\ done.link[j] = IF j = x THEN done.mlink[j] + 1 ELSE done.mlink[j]
    <3>1. CASE j # i
      <4>1. /\ done.link[j] = v.link[j] /\ done.inuse = v.inuse
            /\ done.fns[j] = v.fns[j] /\ done.mlink[j] = v.mlink[j]
        BY <1>4, <3>1, ZenonT(60) DEF Namespaces
      <4>2. ASSUME v.link[j] > 0, NEW d \in Dirs, NEW n \in Names, <<d, n>> \in v.fns[j]
            PROVE  done.ents[d][n] = j
        <5>1. v.ents[d][n] = j
          BY <4>2 DEF Sound, AgreeBut
        <5>2. <<d, n>> # <<dir, name>>
          BY <1>1, <2>2, <5>1, Zenon
        <5> QED
          BY <1>3, <1>4, <5>1, <5>2 DEF Namespaces
      <4> QED
        BY <4>1, <4>2 DEF Sound, AgreeBut
    <3>2. CASE j = i
      <4>1. /\ done.inuse = v.inuse /\ done.link[i] = v.link[i] + 1
            /\ done.fns[i] = v.fns[i] \cup {<<dir, name>>}
            /\ done.mlink[i] = v.link[i] + 1 - extra
            /\ v.link[i] \in Int /\ v.mlink[i] \in Int
        BY <1>4, ZenonT(60) DEF Namespaces
      <4>2. ASSUME NEW d \in Dirs, NEW n \in Names, <<d, n>> \in done.fns[i]
            PROVE  done.ents[d][n] = i
        <5>1. CASE <<d, n>> = <<dir, name>>
          BY <1>3, <1>4, <5>1 DEF Namespaces
        <5>2. CASE <<d, n>> # <<dir, name>>
          <6>1. v.ents[d][n] = i
            BY <4>1, <4>2, <5>2 DEF Sound, AgreeBut
          <6> QED
            BY <1>3, <1>4, <5>2, <6>1 DEF Namespaces
        <5> QED
          BY <5>1, <5>2, Zenon
      <4>3. extra \in {0, 1} /\ (extra = 1 <=> i = x)
        BY <1>1
      <4> QED
        BY <1>1, <1>2, <2>2, <3>2, <4>1, <4>2, <4>3
    <3> QED
      BY <3>1, <3>2, Zenon
  <2>5. ~done.panic /\ done.link[Root] > 0
    BY <1>1, <1>4, NamespaceAssumption, Zenon DEF Sound, Inodes, Namespaces
  <2>6. Sound(done, x)
    BY <2>3, <2>4, <2>5, Zenon DEF Sound, AgreeBut
  <2>7. /\ \A d \in Dirs \ {dir} : done.ents[d] = v.ents[d]
        /\ \A j \in Inodes \ {i} : done.link[j] = v.link[j]
        /\ done.ents[dir][name] = i
    BY <1>3, <1>4 DEF Namespaces
  <2> QED
    BY <1>4, <2>1, <2>6, <2>7, Zenon
<1>7. CASE o = Outcome(v, "fail")
  <2>1. o.ns = v /\ o.err = "fail"
    BY <1>7, OutcomeParts, Zenon
  <2> QED
    BY <2>1, Zenon
<1>8. CASE o = Outcome(Corrupt(added), "fail")
  <2>1. o.ns = Corrupt(added) /\ o.err = "fail"
    BY <1>8, OutcomeParts, Zenon
  <2>2. /\ Corrupt(added) \in Namespaces /\ Corrupt(added).errors
        /\ Corrupt(added).ents = added.ents /\ Corrupt(added).link = v.link
    BY <1>3, CorruptParts, ZenonT(60)
  <2> QED
    BY <1>3, <2>1, <2>2 DEF Namespaces
<1> QED
  BY <1>5, <1>6, <1>7, <1>8, Zenon

\* The two as a rename calls them.
UnlinkOld(v, dir, name, i) == ntfs_unlink_internal(v, dir, name, i, TRUE)

LinkNew(v, i, dir, name) == ntfs_link_internal(v, i, dir, name, TRUE)

\* Unlinking the old name in a rename.
LEMMA RenameUnlinkSound ==
    ASSUME Counting,
           NEW v \in Namespaces, NEW dir \in Dirs, NEW name \in Names,
           NEW i \in Inodes, v.ents[dir][name] = i, Sound(v, i),
           NEW o \in UnlinkOld(v, dir, name, i)
    PROVE  /\ o.ns \in Namespaces
           /\ \A d \in Dirs \ {dir} : o.ns.ents[d] = v.ents[d]
           /\ o.ns.errors \/ Sound(o.ns, i)
           /\ \A j \in Inodes : o.ns.link[j] <= v.link[j]
           /\ o.err # "ok" /\ ~o.ns.errors => o.ns = v
           /\ o.err = "ok" => o.ns.link[i] > 0
<1> DEFINE b == TRUE
<1>1. b \in BOOLEAN /\ i = (IF b THEN i ELSE None) /\ o \in ntfs_unlink_internal(v, dir, name, i, b)
  BY Zenon DEF UnlinkOld
<1> HIDE DEF b
<1> QED
  BY <1>1, UnlinkSound

\* Linking the new name in a rename.
LEMMA RenameLinkSound ==
    ASSUME Counting,
           NEW v \in Namespaces, NEW dir \in Dirs, NEW name \in Names,
           NEW i \in Inodes \ {Root}, v.link[i] > 0, Sound(v, i),
           NEW o \in LinkNew(v, i, dir, name)
    PROVE  /\ o.ns \in Namespaces
           /\ \A d \in Dirs \ {dir} : o.ns.ents[d] = v.ents[d]
           /\ o.ns.errors \/ Sound(o.ns, i)
           /\ \A j \in Inodes \ {i} : o.ns.link[j] = v.link[j]
           /\ o.err # "ok" /\ ~o.ns.errors => o.ns = v
           /\ o.err = "ok" => o.ns.ents[dir][name] = i
<1> DEFINE b == TRUE
<1>1. b \in BOOLEAN /\ i = (IF b THEN i ELSE None) /\ o \in ntfs_link_internal(v, i, dir, name, b)
  BY Zenon DEF LinkNew
<1> HIDE DEF b
<1> QED
  BY <1>1, LinkSound

\* ntfs_unlink_internal() and ntfs_link_internal() as calls of their own.
UnlinkName(v, dir, name, i) == ntfs_unlink_internal(v, dir, name, i, FALSE)

LinkName(v, i, dir, name) == ntfs_link_internal(v, i, dir, name, FALSE)

\* Unlinking a name outside of a rename.
LEMMA PlainUnlinkSound ==
    ASSUME Counting,
           NEW v \in Namespaces, NEW dir \in Dirs, NEW name \in Names,
           NEW i \in Inodes, v.ents[dir][name] = i, Sound(v, None),
           NEW o \in UnlinkName(v, dir, name, i)
    PROVE  /\ o.ns \in Namespaces /\ o.err \in {"ok", "fail"}
           /\ \A d \in Dirs \ {dir} : o.ns.ents[d] = v.ents[d]
           /\ \A n \in Names \ {name} : o.ns.ents[dir][n] = v.ents[dir][n]
           /\ o.ns.errors \/ Sound(o.ns, None)
           /\ \A j \in Inodes : o.ns.link[j] > 0 => v.link[j] > 0
<1> DEFINE b == FALSE
<1>1. /\ b \in BOOLEAN /\ None = (IF b THEN i ELSE None)
      /\ o \in ntfs_unlink_internal(v, dir, name, i, b)
  BY Zenon DEF UnlinkName
<1>2. o.err \in {"ok", "fail"}
  BY OutcomeParts DEF UnlinkName, ntfs_unlink_internal
<1> HIDE DEF b
<1>3. /\ o.ns \in Namespaces
      /\ \A d \in Dirs \ {dir} : o.ns.ents[d] = v.ents[d]
      /\ \A n \in Names \ {name} : o.ns.ents[dir][n] = v.ents[dir][n]
      /\ o.ns.errors \/ Sound(o.ns, None)
      /\ \A j \in Inodes : o.ns.link[j] <= v.link[j]
  BY <1>1, UnlinkSound
<1>4. \A j \in Inodes : o.ns.link[j] \in Int /\ v.link[j] \in Int
  BY <1>3, Zenon DEF Namespaces
<1> QED
  BY <1>2, <1>3, <1>4

\* Linking a name outside of a rename.
LEMMA PlainLinkSound ==
    ASSUME Counting,
           NEW v \in Namespaces, NEW dir \in Dirs, NEW name \in Names,
           NEW i \in Inodes \ {Root}, v.link[i] > 0, Sound(v, None),
           NEW o \in LinkName(v, i, dir, name)
    PROVE  /\ o.ns \in Namespaces /\ o.err \in {"ok", "fail"}
           /\ \A d \in Dirs \ {dir} : o.ns.ents[d] = v.ents[d]
           /\ o.ns.errors \/ Sound(o.ns, None)
           /\ \A j \in Inodes : o.ns.link[j] > 0 => v.link[j] > 0
<1> DEFINE b == FALSE
<1>1. /\ b \in BOOLEAN /\ None = (IF b THEN i ELSE None)
      /\ o \in ntfs_link_internal(v, i, dir, name, b)
  BY Zenon DEF LinkName
<1>2. o.err \in {"ok", "fail"}
  BY OutcomeParts DEF LinkName, ntfs_link_internal
<1> HIDE DEF b
<1>3. /\ o.ns \in Namespaces
      /\ \A d \in Dirs \ {dir} : o.ns.ents[d] = v.ents[d]
      /\ o.ns.errors \/ Sound(o.ns, None)
      /\ \A j \in Inodes \ {i} : o.ns.link[j] = v.link[j]
  BY <1>1, LinkSound
<1> QED
  BY <1>2, <1>3, Zenon

\* Elevate() changes one link count and nothing else.
LEMMA ElevateParts ==
    ASSUME NEW v \in Namespaces, NEW i \in Inodes, NEW by \in Int
    PROVE  LET w == Elevate(v, i, by) IN
           /\ w \in Namespaces
           /\ w.ents = v.ents /\ w.fns = v.fns /\ w.mlink = v.mlink /\ w.inuse = v.inuse
           /\ w.link = [v.link EXCEPT ![i] = v.link[i] + by]
           /\ w.panic = v.panic /\ w.errors = v.errors
<1> DEFINE L == [v.link EXCEPT ![i] = v.link[i] + by]
<1>1. Elevate(v, i, by) = [v EXCEPT !.link = L]
  BY Zenon DEF Elevate
<1>2. L \in [Inodes -> Int]
  BY DEF Namespaces
<1> HIDE DEF L
<1>3. [v EXCEPT !.link = L] \in Namespaces
  BY <1>2, Zenon DEF Namespaces
<1>4. LET w == [v EXCEPT !.link = L] IN
      /\ w.ents = v.ents /\ w.fns = v.fns /\ w.mlink = v.mlink /\ w.inuse = v.inuse
      /\ w.link = L
  BY Zenon DEF Namespaces
<1>5. LET w == [v EXCEPT !.link = L] IN w.panic = v.panic /\ w.errors = v.errors
  BY Zenon DEF Namespaces
<1> QED
  BY <1>1, <1>3, <1>4, <1>5, Zenon DEF L

\* The link counts of the others stay.
LEMMA ElevateOthers ==
    ASSUME NEW v \in Namespaces, NEW i \in Inodes, NEW by \in Int, NEW j \in Inodes \ {i}
    PROVE  Elevate(v, i, by).link[j] = v.link[j]
<1>1. Elevate(v, i, by).link = [v.link EXCEPT ![i] = v.link[i] + by]
  BY ElevateParts
<1> QED
  BY <1>1, Zenon DEF Namespaces

\* An entry leads to a live inode.
LEMMA EntryLive ==
    ASSUME NEW v \in Namespaces, NEW x, Sound(v, x), NEW i \in Inodes,
           NEW dir \in Dirs, NEW name \in Names, v.ents[dir][name] = i
    PROVE  i # None /\ i # Root /\ v.link[i] > 0 /\ <<dir, name>> \in v.fns[i]
<1>1. i # None
  BY NamespaceAssumption, Zenon
<1>2. \A d \in Dirs, n \in Names :
        v.ents[d][n] # None =>
            /\ v.ents[d][n] # Root
            /\ v.link[v.ents[d][n]] > 0
            /\ <<d, n>> \in v.fns[v.ents[d][n]]
  BY Zenon DEF Sound, AgreeBut
<1> QED
  BY <1>1, <1>2, Zenon

\* A rename raises the link count of the inode it moves.
LEMMA RaiseSound ==
    ASSUME NEW v \in Namespaces, NEW i \in Inodes, Sound(v, None),
           NEW dir \in Dirs, NEW name \in Names, v.ents[dir][name] = i
    PROVE  /\ Elevate(v, i, 1) \in Namespaces
           /\ Sound(Elevate(v, i, 1), i)
           /\ Elevate(v, i, 1).ents = v.ents
           /\ Elevate(v, i, 1).errors = v.errors
<1> DEFINE w == Elevate(v, i, 1)
<1>1. /\ w \in Namespaces /\ w.ents = v.ents /\ w.fns = v.fns
      /\ w.mlink = v.mlink /\ w.inuse = v.inuse /\ w.panic = v.panic
      /\ w.errors = v.errors /\ w.link = [v.link EXCEPT ![i] = v.link[i] + 1]
  BY ElevateParts
<1>2. i # None /\ None \notin Inodes /\ i # Root /\ v.link[i] > 0
  BY EntryLive, NamespaceAssumption, Zenon
<1> HIDE DEF w
<1>3. \A j \in Inodes : /\ j # i => w.link[j] = v.link[j]
                        /\ w.link[i] = v.link[i] + 1
                        /\ v.link[j] \in Int /\ v.mlink[j] \in Int
  BY <1>1, Zenon DEF Namespaces
<1>4. \A j \in Inodes : w.link[j] > 0 <=> v.link[j] > 0
  BY <1>2, <1>3, SMTT(60)
<1>5. Sound(w, i)
  <2>1. Root \in Inodes /\ ~w.panic /\ w.link[Root] > 0
    BY <1>1, <1>4, NamespaceAssumption, Zenon DEF Sound, Inodes
  <2>2. \A d \in Dirs, n \in Names : w.ents[d][n] # None => w.ents[d][n] \in Inodes
    BY <1>1 DEF Namespaces
  <2> QED
    BY <1>1, <1>2, <1>3, <1>4, <2>1, <2>2 DEF Sound, AgreeBut
<1> QED
  BY <1>1, <1>5, Zenon DEF w

\* It lowers the count again, when the inode has a name.
LEMMA LowerSound ==
    ASSUME Counting, NEW v \in Namespaces, NEW i \in Inodes, Sound(v, i),
           NEW dir \in Dirs, NEW name \in Names, v.ents[dir][name] = i
    PROVE  /\ Elevate(v, i, -1) \in Namespaces
           /\ Sound(Elevate(v, i, -1), None)
           /\ Elevate(v, i, -1).ents = v.ents
<1> DEFINE w == Elevate(v, i, -1)
<1>1. /\ w \in Namespaces /\ w.ents = v.ents /\ w.fns = v.fns
      /\ w.mlink = v.mlink /\ w.inuse = v.inuse /\ w.panic = v.panic
      /\ w.link = [v.link EXCEPT ![i] = v.link[i] + (-1)]
  BY ElevateParts
<1>2. /\ i # None /\ i # Root /\ v.link[i] > 0 /\ None \notin Inodes
      /\ <<dir, name>> \in v.fns[i] /\ v.link[i] = v.mlink[i] + 1
      /\ v.mlink[i] = Cardinality(v.fns[i])
  BY NamespaceAssumption, Zenon DEF Sound, AgreeBut
<1>3. Cardinality(v.fns[i]) \in Nat /\ Cardinality(v.fns[i]) >= 1
  BY <1>2, NamesCounted, Zenon
<1> HIDE DEF w
<1>4. \A j \in Inodes : /\ j # i => w.link[j] = v.link[j]
                        /\ w.link[i] = v.link[i] - 1
                        /\ v.link[j] \in Int /\ v.mlink[j] \in Int
  BY <1>1, Zenon DEF Namespaces
<1>5. \A j \in Inodes : w.link[j] > 0 <=> v.link[j] > 0
  BY <1>2, <1>3, <1>4, SMTT(60)
<1>6. Sound(w, None)
  <2>1. Root \in Inodes /\ ~w.panic /\ w.link[Root] > 0
    BY <1>1, <1>5, NamespaceAssumption, Zenon DEF Sound, Inodes
  <2>2. \A d \in Dirs, n \in Names : w.ents[d][n] # None => w.ents[d][n] \in Inodes
    BY <1>1 DEF Namespaces
  <2> QED
    BY <1>1, <1>2, <1>4, <1>5, <2>1, <2>2 DEF Sound, AgreeBut
<1> QED
  BY <1>1, <1>6, Zenon DEF w

\* Creating a name for an inode that had none.
LEMMA CreateSound ==
    ASSUME Counting,
           NEW v \in Namespaces, NEW dir \in Dirs, NEW name \in Names,
           NEW i \in Inodes, Sound(v, None),
           ~(v.link[i] > 0), v.ents[dir][name] = None
    PROVE  LET w == Create(v, dir, name, i) IN
           /\ w \in Namespaces /\ Sound(w, None)
           /\ \A d \in Dirs \ {dir} : w.ents[d] = v.ents[d]
           /\ \A j \in Inodes \ {i} : w.link[j] = v.link[j]
<1> DEFINE w == Create(v, dir, name, i)
           E == [v.ents EXCEPT ![dir][name] = i]
           F == [v.fns EXCEPT ![i] = {<<dir, name>>}]
           L == [v.link EXCEPT ![i] = 1]
           M == [v.mlink EXCEPT ![i] = 1]
           U == v.inuse \cup {i}
           P == IF i \in Dirs THEN [v.parent EXCEPT ![i] = dir] ELSE v.parent
<1>1. w = [v EXCEPT !.ents = E, !.fns = F, !.link = L, !.mlink = M, !.inuse = U, !.parent = P]
  BY Zenon DEF Create
<1>2. /\ E \in [Dirs -> [Names -> Inodes \cup {None}]]
      /\ F \in [Inodes -> SUBSET (Dirs \X Names)]
      /\ L \in [Inodes -> Int] /\ M \in [Inodes -> Int] /\ U \in SUBSET Inodes
  BY DEF Namespaces
<1>3. P \in [Dirs -> Dirs]
  BY Zenon DEF Namespaces
<1> HIDE DEF w, E, F, L, M, U, P
<1>4. w \in Namespaces
  BY <1>1, <1>2, <1>3, Zenon DEF Namespaces
<1>5. w.ents = E /\ w.fns = F /\ w.link = L /\ w.mlink = M /\ w.inuse = U
  BY <1>1, Zenon DEF Namespaces
<1>6. w.panic = v.panic
  BY <1>1, Zenon DEF Namespaces
<1>7. i # Root /\ None \notin Inodes /\ Root \in Inodes
  BY NamespaceAssumption, Zenon DEF Sound, Inodes
<1>8. ASSUME NEW d \in Dirs, NEW n \in Names, w.ents[d][n] # None
      PROVE  /\ w.ents[d][n] # Root
             /\ w.link[w.ents[d][n]] > 0
             /\ <<d, n>> \in w.fns[w.ents[d][n]]
  <2>1. CASE <<d, n>> = <<dir, name>>
    BY <1>5, <1>7, <2>1 DEF Namespaces, E, F, L
  <2>2. CASE <<d, n>> # <<dir, name>>
    <3>1. w.ents[d][n] = v.ents[d][n] /\ v.ents[d][n] \in Inodes
      BY <1>5, <1>8, <2>2, SMTT(60) DEF Namespaces, E
    <3>2. /\ v.ents[d][n] # Root /\ v.link[v.ents[d][n]] > 0
          /\ <<d, n>> \in v.fns[v.ents[d][n]]
      BY <1>8, <3>1 DEF Sound, AgreeBut
    <3>3. v.ents[d][n] # i
      BY <3>2, Zenon
    <3> QED
      BY <1>5, <3>1, <3>2, <3>3 DEF Namespaces, F, L
  <2> QED
    BY <2>1, <2>2, Zenon
<1>9. ASSUME NEW j \in Inodes \ {Root}
      PROVE  /\ j \in w.inuse <=> w.link[j] > 0
             /\ w.link[j] > 0 =>
                 /\ \A d \in Dirs, n \in Names :
                       <<d, n>> \in w.fns[j] => w.ents[d][n] = j
                 /\ w.mlink[j] = Cardinality(w.fns[j])
                 /\ w.link[j] = IF j = None THEN w.mlink[j] + 1 ELSE w.mlink[j]
  <2>1. CASE j # i
    <3>1. /\ w.link[j] = v.link[j] /\ (j \in w.inuse <=> j \in v.inuse)
          /\ w.fns[j] = v.fns[j] /\ w.mlink[j] = v.mlink[j]
      BY <1>5, <2>1, Zenon DEF Namespaces, F, L, M, U
    <3>2. ASSUME v.link[j] > 0, NEW d \in Dirs, NEW n \in Names, <<d, n>> \in v.fns[j]
          PROVE  w.ents[d][n] = j
      <4>1. v.ents[d][n] = j
        BY <3>2 DEF Sound, AgreeBut
      <4>2. <<d, n>> # <<dir, name>>
        BY <1>7, <4>1, Zenon
      <4> QED
        BY <1>5, <4>1, <4>2 DEF Namespaces, E
    <3> QED
      BY <3>1, <3>2 DEF Sound, AgreeBut
  <2>2. CASE j = i
    <3>1. Cardinality({<<dir, name>>}) = 1
      BY OneName, Zenon
    <3>2. /\ w.link[i] = 1 /\ i \in w.inuse
          /\ w.fns[i] = {<<dir, name>>} /\ w.mlink[i] = 1
          /\ w.ents[dir][name] = i
      BY <1>5 DEF Namespaces, E, F, L, M, U
    <3> QED
      BY <1>7, <2>2, <3>1, <3>2
  <2> QED
    BY <2>1, <2>2, ZenonT(60)
<1>10. ~w.panic /\ w.link[Root] > 0
  BY <1>5, <1>6, <1>7, Zenon DEF Sound, Namespaces, L
<1>11. Sound(w, None)
  BY <1>8, <1>9, <1>10, Zenon DEF Sound, AgreeBut
<1>12. /\ \A d \in Dirs \ {dir} : w.ents[d] = v.ents[d]
       /\ \A j \in Inodes \ {i} : w.link[j] = v.link[j]
  BY <1>5, Zenon DEF Namespaces, E, L
<1> QED
  BY <1>4, <1>11, <1>12, Zenon DEF w

-----------------------------------------------------------------------------
(***************************************************************************)
(* Once set, the errors flag stays set, whatever the rest is by then.      *)
(***************************************************************************)
Marked(v) ==
    /\ v = [k \in DOMAIN v |-> v[k]]
    /\ "errors" \in DOMAIN v
    /\ v.errors = TRUE

\* A volume with errors is marked.
LEMMA TypedMarked ==
    ASSUME NEW v \in Namespaces, v.errors
    PROVE  Marked(v)
BY Zenon DEF Marked, Namespaces

\* A marked volume stays marked.
LEMMA MarkedStays ==
    ASSUME NEW v, Marked(v), NEW dir, NEW name, NEW i, NEW is_rename, NEW by
    PROVE  /\ Marked(Corrupt(v))
           /\ Marked(Elevate(v, i, by))
           /\ Marked(Create(v, dir, name, i))
           /\ \A o \in ntfs_unlink_internal(v, dir, name, i, is_rename) : Marked(o.ns)
           /\ \A o \in ntfs_link_internal(v, i, dir, name, is_rename) : Marked(o.ns)
<1>1. ASSUME NEW w, Marked(w) PROVE Marked(Corrupt(w))
  BY <1>1, Zenon DEF Marked, Corrupt
<1>2. Marked(Elevate(v, i, by))
  BY Zenon DEF Marked, Elevate
<1>3. Marked(Create(v, dir, name, i))
  BY ZenonT(60) DEF Marked, Create
<1>4. ASSUME NEW o \in ntfs_unlink_internal(v, dir, name, i, is_rename)
      PROVE  Marked(o.ns)
  <2> DEFINE extra == IF is_rename THEN 1 ELSE 0
             gone == [v EXCEPT !.ents[dir][name] = None]
             done == [gone EXCEPT
                         !.fns[i] = IF v.link[i] > 1 THEN @ \ {<<dir, name>>} ELSE @,
                         !.mlink[i] = IF v.link[i] > 1 THEN v.link[i] - 1 - extra ELSE @,
                         !.inuse = IF v.link[i] > 1 THEN @ ELSE @ \ {i},
                         !.link[i] = @ - 1]
  <2>1. Marked(gone)
    BY Zenon DEF Marked
  <2>2. Marked(done)
    <3>1. ASSUME NEW w, Marked(w), NEW a, NEW b, NEW c, NEW d
          PROVE  Marked([w EXCEPT !.fns = a, !.mlink = b, !.inuse = c, !.link = d])
      BY <3>1, Zenon DEF Marked
    <3>2. done = [gone EXCEPT
                     !.fns = [gone.fns EXCEPT ![i] = IF v.link[i] > 1 THEN @ \ {<<dir, name>>} ELSE @],
                     !.mlink = [gone.mlink EXCEPT ![i] = IF v.link[i] > 1 THEN v.link[i] - 1 - extra ELSE @],
                     !.inuse = IF v.link[i] > 1 THEN gone.inuse ELSE gone.inuse \ {i},
                     !.link = [gone.link EXCEPT ![i] = @ - 1]]
      OBVIOUS
    <3> HIDE DEF gone, done
    <3> QED
      BY <2>1, <3>1, <3>2, ZenonT(60)
  <2>3. Marked([v EXCEPT !.panic = TRUE])
    BY Zenon DEF Marked
  <2>4. \/ o = Outcome(v, "fail") \/ o = Outcome(done, "ok")
        \/ o = Outcome(Corrupt(v), "fail") \/ o = Outcome(Corrupt(gone), "fail")
        \/ o = Outcome([v EXCEPT !.panic = TRUE], "fail")
    BY Zenon DEF ntfs_unlink_internal
  <2> HIDE DEF gone, done
  <2>5. o.ns = v \/ o.ns = done \/ o.ns = Corrupt(v) \/ o.ns = Corrupt(gone)
        \/ o.ns = [v EXCEPT !.panic = TRUE]
    BY <2>4, OutcomeParts
  <2> QED
    BY <1>1, <2>1, <2>2, <2>3, <2>5, Zenon
<1>5. ASSUME NEW o \in ntfs_link_internal(v, i, dir, name, is_rename)
      PROVE  Marked(o.ns)
  <2> DEFINE extra == IF is_rename THEN 1 ELSE 0
             added == [v EXCEPT !.ents[dir][name] = i]
             done == [added EXCEPT
                         !.fns[i] = @ \cup {<<dir, name>>},
                         !.link[i] = @ + 1,
                         !.mlink[i] = v.link[i] + 1 - extra,
                         !.parent = IF is_rename /\ i \in Dirs
                                    THEN [@ EXCEPT ![i] = dir] ELSE @]
  <2>1. Marked(added)
    BY Zenon DEF Marked
  <2>2. Marked(done)
    <3>1. ASSUME NEW w, Marked(w), NEW a, NEW b, NEW c, NEW d
          PROVE  Marked([w EXCEPT !.fns = a, !.link = b, !.mlink = c, !.parent = d])
      BY <3>1, Zenon DEF Marked
    <3>2. done = [added EXCEPT
                     !.fns = [added.fns EXCEPT ![i] = @ \cup {<<dir, name>>}],
                     !.link = [added.link EXCEPT ![i] = @ + 1],
                     !.mlink = [added.mlink EXCEPT ![i] = v.link[i] + 1 - extra],
                     !.parent = IF is_rename /\ i \in Dirs
                                THEN [added.parent EXCEPT ![i] = dir] ELSE added.parent]
      OBVIOUS
    <3> HIDE DEF added, done
    <3> QED
      BY <2>1, <3>1, <3>2, Zenon
  <2>3. \/ o = Outcome(v, "fail") \/ o = Outcome(done, "ok")
        \/ o = Outcome(Corrupt(added), "fail")
    BY Zenon DEF ntfs_link_internal
  <2> HIDE DEF added, done
  <2>4. o.ns = v \/ o.ns = done \/ o.ns = Corrupt(added)
    BY <2>3, OutcomeParts
  <2> QED
    BY <1>1, <2>1, <2>2, <2>4, Zenon
<1> QED
  BY <1>1, <1>2, <1>3, <1>4, <1>5, Zenon

\* Also when the new name of a rename is linked.
LEMMA MarkedLinkNew ==
    ASSUME NEW v, Marked(v), NEW dir, NEW name, NEW i, NEW o \in LinkNew(v, i, dir, name)
    PROVE  Marked(o.ns)
<1> DEFINE b == TRUE
<1>1. o \in ntfs_link_internal(v, i, dir, name, b)
  BY Zenon DEF LinkNew
<1> HIDE DEF b
<1> QED
  BY <1>1, MarkedStays, Zenon

\* Also when a name is linked or unlinked.
LEMMA MarkedNames ==
    ASSUME NEW v, Marked(v), NEW dir, NEW name, NEW i
    PROVE  /\ \A o \in UnlinkName(v, dir, name, i) : Marked(o.ns)
           /\ \A o \in LinkName(v, i, dir, name) : Marked(o.ns)
           /\ \A o \in UnlinkOld(v, dir, name, i) : Marked(o.ns)
<1> DEFINE b == FALSE
           d == TRUE
<1>1. /\ UnlinkName(v, dir, name, i) = ntfs_unlink_internal(v, dir, name, i, b)
      /\ LinkName(v, i, dir, name) = ntfs_link_internal(v, i, dir, name, b)
      /\ UnlinkOld(v, dir, name, i) = ntfs_unlink_internal(v, dir, name, i, d)
  BY Zenon DEF UnlinkName, LinkName, UnlinkOld
<1> HIDE DEF b, d
<1> QED
  BY <1>1, MarkedStays, Zenon

-----------------------------------------------------------------------------
(***************************************************************************)
(* Moving a name.                                                          *)
(***************************************************************************)

\* Either the errors flag is set, or the names agree and no inode is live that
\* was not live before.
LEMMA MoveSound ==
    ASSUME Counting, NEW v \in Namespaces, Sound(v, None),
           NEW dir \in Dirs, NEW name \in Names, NEW i \in Inodes,
           NEW dst_dir \in Dirs, NEW dst_name \in Names, v.ents[dir][name] = i,
           NEW o \in MoveName(Elevate(v, i, 1), i, dir, name, dst_dir, dst_name),
           NEW w, w = Elevate(o.ns, i, -1)
    PROVE  \/ Marked(w)
           \/ /\ w \in Namespaces /\ Sound(w, None)
              /\ \A d \in Dirs \ {dir, dst_dir} : w.ents[d] = v.ents[d]
              /\ \A j \in Inodes : w.link[j] > 0 => v.link[j] > 0
<1> DEFINE e == Elevate(v, i, 1)
<1>1. /\ e \in Namespaces /\ Sound(e, i) /\ e.ents = v.ents
      /\ i # Root /\ i # None /\ v.link[i] > 0
  <2>1. e \in Namespaces /\ Sound(e, i) /\ e.ents = v.ents
    BY RaiseSound, Zenon
  <2> QED
    BY <2>1, EntryLive, Zenon
<1>2. \A j \in Inodes \ {i} : e.link[j] = v.link[j]
  BY ElevateOthers
<1> HIDE DEF e
<1>3. PICK u \in UnlinkOld(e, dir, name, i) :
         o \in IF u.err # "ok" THEN {u}
               ELSE UNION {IF l.err = "ok" THEN {l}
                           ELSE {IF r.err = "ok" THEN Outcome(r.ns, "fail")
                                 ELSE Outcome(Corrupt(r.ns), "EIO") :
                                 r \in LinkNew(l.ns, i, dir, name)} :
                           l \in LinkNew(u.ns, i, dst_dir, dst_name)}
  <2> DEFINE Rest(u) == IF u.err # "ok" THEN {u}
                        ELSE UNION {IF l.err = "ok" THEN {l}
                                    ELSE {IF r.err = "ok" THEN Outcome(r.ns, "fail")
                                          ELSE Outcome(Corrupt(r.ns), "EIO") :
                                          r \in LinkNew(l.ns, i, dir, name)} :
                                    l \in LinkNew(u.ns, i, dst_dir, dst_name)}
  <2>1. o \in UNION {Rest(u) : u \in UnlinkOld(e, dir, name, i)}
    BY Zenon DEF MoveName, e, UnlinkOld, LinkNew
  <2> HIDE DEF Rest
  <2>2. \E u \in UnlinkOld(e, dir, name, i) : o \in Rest(u)
    BY <2>1, Zenon
  <2> QED
    BY <2>2, Zenon DEF Rest
<1>4. /\ u.ns \in Namespaces
      /\ \A d \in Dirs \ {dir} : u.ns.ents[d] = v.ents[d]
      /\ u.ns.errors \/ Sound(u.ns, i)
      /\ \A j \in Inodes : u.ns.link[j] <= e.link[j]
      /\ u.err # "ok" /\ ~u.ns.errors => u.ns = e
      /\ u.err = "ok" => u.ns.link[i] > 0
  BY <1>1, RenameUnlinkSound
<1>5. CASE u.err # "ok"
  <2>1. o = u
    BY <1>3, <1>5, Zenon
  <2>2. CASE u.ns.errors
    BY <1>4, <2>1, <2>2, TypedMarked, MarkedStays, Zenon
  <2>3. CASE ~u.ns.errors
    <3>1. o.ns = e /\ e.ents[dir][name] = i
      BY <1>1, <1>4, <1>5, <2>1, <2>3, Zenon
    <3>2. w \in Namespaces /\ Sound(w, None) /\ w.ents = v.ents
      BY <1>1, <3>1, LowerSound, ZenonT(60)
    <3>3. \A j \in Inodes \ {i} : w.link[j] = v.link[j]
      BY <1>1, <1>2, <3>1, ElevateOthers
    <3> QED
      BY <1>1, <3>2, <3>3, Zenon
  <2> QED
    BY <2>2, <2>3, Zenon
<1>6. CASE u.err = "ok"
  <2>1. PICK l \in LinkNew(u.ns, i, dst_dir, dst_name) :
           o \in IF l.err = "ok" THEN {l}
                 ELSE {IF r.err = "ok" THEN Outcome(r.ns, "fail")
                       ELSE Outcome(Corrupt(r.ns), "EIO") :
                       r \in LinkNew(l.ns, i, dir, name)}
    BY <1>3, <1>6, Zenon
  <2>2. ASSUME Marked(l.ns) PROVE Marked(w)
    <3>1. CASE l.err = "ok"
      BY <2>1, <2>2, <3>1, MarkedStays, Zenon
    <3>2. CASE l.err # "ok"
      <4>1. PICK r \in LinkNew(l.ns, i, dir, name) :
               o = IF r.err = "ok" THEN Outcome(r.ns, "fail")
                   ELSE Outcome(Corrupt(r.ns), "EIO")
        BY <2>1, <3>2, Zenon
      <4>2. Marked(r.ns)
        BY <2>2, MarkedLinkNew, Zenon
      <4>3. Marked(Corrupt(r.ns))
        BY <4>2, MarkedStays, Zenon
      <4>4. o.ns = r.ns \/ o.ns = Corrupt(r.ns)
        BY <4>1, OutcomeParts
      <4>5. Marked(o.ns)
        BY <4>2, <4>3, <4>4, Zenon
      <4> QED
        BY <4>5, MarkedStays, Zenon
    <3> QED
      BY <3>1, <3>2, Zenon
  <2>3. CASE u.ns.errors
    <3>1. Marked(u.ns)
      BY <1>4, <2>3, TypedMarked, Zenon
    <3> QED
      BY <2>2, <3>1, MarkedLinkNew, Zenon
  <2>4. CASE ~u.ns.errors
    <3>1. /\ l.ns \in Namespaces
          /\ \A d \in Dirs \ {dst_dir} : l.ns.ents[d] = u.ns.ents[d]
          /\ l.ns.errors \/ Sound(l.ns, i)
          /\ \A j \in Inodes \ {i} : l.ns.link[j] = u.ns.link[j]
          /\ l.err # "ok" /\ ~l.ns.errors => l.ns = u.ns
          /\ l.err = "ok" => l.ns.ents[dst_dir][dst_name] = i
      BY <1>1, <1>4, <1>6, <2>4, RenameLinkSound
    <3>2. CASE l.ns.errors
      BY <2>2, <3>1, <3>2, TypedMarked, ZenonT(60)
    <3>3. ASSUME NEW z \in Namespaces, Sound(z, i), w = Elevate(z, i, -1),
                 \A d \in Dirs \ {dir, dst_dir} : z.ents[d] = u.ns.ents[d],
                 \A j \in Inodes \ {i} : z.link[j] = u.ns.link[j],
                 \/ z.ents[dst_dir][dst_name] = i
                 \/ z.ents[dir][name] = i
          PROVE  /\ w \in Namespaces /\ Sound(w, None)
                 /\ \A d \in Dirs \ {dir, dst_dir} : w.ents[d] = v.ents[d]
                 /\ \A j \in Inodes : w.link[j] > 0 => v.link[j] > 0
      <4>1. w \in Namespaces /\ Sound(w, None) /\ w.ents = z.ents
        BY <3>3, LowerSound
      <4>2. \A j \in Inodes \ {i} : w.link[j] = z.link[j]
        BY <3>3, ElevateOthers
      <4>3. \A j \in Inodes \ {i} : w.link[j] <= v.link[j] /\ w.link[j] \in Int /\ v.link[j] \in Int
        BY <1>2, <1>4, <3>3, <4>1, <4>2, ZenonT(60) DEF Namespaces
      <4> QED
        BY <1>1, <1>4, <3>3, <4>1, <4>3, SMTT(60)
    <3>4. CASE ~l.ns.errors /\ l.err = "ok"
      <4>1. o = l
        BY <2>1, <3>4, Zenon
      <4> QED
        BY <3>1, <3>3, <3>4, <4>1, Zenon
    <3>5. CASE ~l.ns.errors /\ l.err # "ok"
      <4>1. PICK r \in LinkNew(l.ns, i, dir, name) :
               o = IF r.err = "ok" THEN Outcome(r.ns, "fail")
                   ELSE Outcome(Corrupt(r.ns), "EIO")
        BY <2>1, <3>5, Zenon
      <4>2. l.ns = u.ns
        BY <3>1, <3>5, ZenonT(60)
      <4>3. /\ r.ns \in Namespaces
            /\ \A d \in Dirs \ {dir} : r.ns.ents[d] = u.ns.ents[d]
            /\ r.ns.errors \/ Sound(r.ns, i)
            /\ \A j \in Inodes \ {i} : r.ns.link[j] = u.ns.link[j]
            /\ r.err = "ok" => r.ns.ents[dir][name] = i
        BY <1>1, <1>4, <1>6, <2>4, <4>2, RenameLinkSound
      <4>4. CASE r.err # "ok"
        <5>1. o.ns = Corrupt(r.ns)
          BY <4>1, <4>4, OutcomeParts, Zenon
        <5>2. Marked(o.ns)
          BY <4>3, <5>1, CorruptParts, TypedMarked, Zenon
        <5> QED
          BY <5>2, MarkedStays, Zenon
      <4>5. CASE r.err = "ok"
        <5>1. o.ns = r.ns
          BY <4>1, <4>5, OutcomeParts, Zenon
        <5>2. CASE r.ns.errors
          BY <4>3, <5>1, <5>2, TypedMarked, MarkedStays, Zenon
        <5>3. CASE ~r.ns.errors
          BY <3>3, <4>3, <4>5, <5>1, <5>3, Zenon
        <5> QED
          BY <5>2, <5>3, Zenon
      <4> QED
        BY <4>4, <4>5, Zenon
    <3> QED
      BY <3>2, <3>4, <3>5, ZenonT(60)
  <2> QED
    BY <2>3, <2>4, Zenon
<1> QED
  BY <1>5, <1>6, Zenon

\* Also when a name is moved.
LEMMA MarkedMove ==
    ASSUME NEW v, Marked(v), NEW i, NEW dir, NEW name, NEW dst_dir, NEW dst_name,
           NEW o \in MoveName(Elevate(v, i, 1), i, dir, name, dst_dir, dst_name)
    PROVE  Marked(Elevate(o.ns, i, -1))
<1> DEFINE e == Elevate(v, i, 1)
           Back(l) == {IF r.err = "ok" THEN Outcome(r.ns, "fail")
                       ELSE Outcome(Corrupt(r.ns), "EIO") : r \in LinkNew(l.ns, i, dir, name)}
           Fwd(l) == IF l.err = "ok" THEN {l} ELSE Back(l)
           Rest(u) == IF u.err # "ok" THEN {u}
                      ELSE UNION {Fwd(l) : l \in LinkNew(u.ns, i, dst_dir, dst_name)}
<1>1. o \in UNION {Rest(u) : u \in UnlinkOld(e, dir, name, i)}
  BY Zenon DEF MoveName, UnlinkOld, LinkNew
<1>2. Marked(e)
  BY MarkedStays, Zenon
<1> HIDE DEF e, Rest
<1>3. PICK u \in UnlinkOld(e, dir, name, i) : o \in Rest(u)
  BY <1>1, Zenon
<1>4. Marked(u.ns)
  BY <1>2, MarkedNames, Zenon
<1>5. Marked(o.ns)
  <2>1. CASE u.err # "ok"
    BY <1>3, <1>4, <2>1, Zenon DEF Rest
  <2>2. CASE u.err = "ok"
    <3> HIDE DEF Fwd
    <3>1. PICK l \in LinkNew(u.ns, i, dst_dir, dst_name) : o \in Fwd(l)
      BY <1>3, <2>2, Zenon DEF Rest
    <3>2. Marked(l.ns)
      BY <1>4, MarkedLinkNew, Zenon
    <3>3. CASE l.err = "ok"
      BY <3>1, <3>2, <3>3, Zenon DEF Fwd
    <3>4. CASE l.err # "ok"
      <4>1. PICK r \in LinkNew(l.ns, i, dir, name) :
               o = IF r.err = "ok" THEN Outcome(r.ns, "fail")
                   ELSE Outcome(Corrupt(r.ns), "EIO")
        BY <3>1, <3>4, Zenon DEF Fwd
      <4>2. Marked(r.ns)
        BY <3>2, MarkedLinkNew, Zenon
      <4>3. Marked(Corrupt(r.ns))
        BY <4>2, MarkedStays, Zenon
      <4>4. o.ns = r.ns \/ o.ns = Corrupt(r.ns)
        BY <4>1, OutcomeParts, ZenonT(60)
      <4> QED
        BY <4>2, <4>3, <4>4, Zenon
    <3> QED
      BY <3>3, <3>4, Zenon
  <2> QED
    BY <2>1, <2>2, Zenon
<1> QED
  BY <1>5, MarkedStays, Zenon

\* What a moved name reports.
LEMMA MoveErrs ==
    ASSUME NEW v, NEW i, NEW dir, NEW name, NEW dst_dir, NEW dst_name,
           NEW o \in MoveName(v, i, dir, name, dst_dir, dst_name)
    PROVE  o.err \in {"ok", "fail", "EIO"}
<1> DEFINE Back(l) == {IF r.err = "ok" THEN Outcome(r.ns, "fail")
                       ELSE Outcome(Corrupt(r.ns), "EIO") : r \in LinkNew(l.ns, i, dir, name)}
           Fwd(l) == IF l.err = "ok" THEN {l} ELSE Back(l)
           Rest(u) == IF u.err # "ok" THEN {u}
                      ELSE UNION {Fwd(l) : l \in LinkNew(u.ns, i, dst_dir, dst_name)}
<1>1. o \in UNION {Rest(u) : u \in UnlinkOld(v, dir, name, i)}
  BY Zenon DEF MoveName, UnlinkOld, LinkNew
<1>2. ASSUME NEW u \in UnlinkOld(v, dir, name, i)
      PROVE  u.err \in {"ok", "fail"}
  BY <1>2, OutcomeParts DEF UnlinkOld, ntfs_unlink_internal
<1> HIDE DEF Rest
<1>3. PICK u \in UnlinkOld(v, dir, name, i) : o \in Rest(u)
  BY <1>1, Zenon
<1>4. CASE u.err # "ok"
  BY <1>2, <1>3, <1>4, Zenon DEF Rest
<1>5. CASE u.err = "ok"
  <2> HIDE DEF Fwd
  <2>1. PICK l \in LinkNew(u.ns, i, dst_dir, dst_name) : o \in Fwd(l)
    BY <1>3, <1>5, Zenon DEF Rest
  <2> USE DEF Fwd
  <2>2. o.err = "ok" \/ \E w : o = Outcome(w, "fail") \/ o = Outcome(w, "EIO")
    BY <2>1, Zenon
  <2> QED
    BY <2>2, OutcomeParts
<1> QED
  BY <1>4, <1>5, Zenon

-----------------------------------------------------------------------------
Places == {"idle", "to", "dir", "ni", "rename", "walk", "dst_dir", "src_dir",
           "src_dir first", "dst_dir last", "target", "source"}
Ops == {"none", "unlink", "rename", "link", "create"}
Errs == {"ok", "fail", "EIO"}

Calls ==
    [pc : Places, op : Ops, err : Errs,
     dir : Dirs \cup {None}, name : Names \cup {None}, ni : Inodes \cup {None},
     dst_dir : Dirs \cup {None}, dst_name : Names \cup {None},
     dst_ni : Inodes \cup {None}, at : Dirs \cup {None}, have_unlinked : BOOLEAN]

Owners == [Inodes -> Threads \cup {None}]

\* What holds of thread t in call c.
Place(v, own, t, c) ==
    /\ c.pc # "idle" => c.dir \in Dirs /\ c.name \in Names /\ c.ni \in Inodes
    /\ c.pc = "idle" => c.op = "none"
    /\ c.op = "create" => c.pc = "dir" /\ ~(v.link[c.ni] > 0)
    /\ c.op = "link" => c.ni \in Files
    /\ c.op \in {"unlink", "link"} => c.pc \in {"dir", "ni"}
    /\ c.op = "rename" /\ c.pc = "dir" => c.dst_dir = c.dir /\ c.dst_name \in Names
    /\ c.pc \notin {"idle", "to", "dir", "ni"} => c.dst_dir \in Dirs /\ c.dst_name \in Names
    /\ c.pc = "walk" => c.at \in Dirs
    /\ c.pc \in {"ni", "target", "source", "dst_dir last"} => own[c.dir] = t
    /\ c.pc \in {"src_dir", "target", "source"} => own[c.dst_dir] = t
    /\ c.pc = "source" => v.ents[c.dir][c.name] = c.ni

Good ==
    /\ ns \in Namespaces /\ Sound(ns, None)
    /\ owner \in Owners /\ th \in [Threads -> Calls]
    /\ \A t \in Threads : Place(ns, owner, t, th[t])
    /\ \A t, u \in Threads :
        t # u /\ th[t].op = "create" /\ th[u].op = "create" => th[t].ni # th[u].ni

IInv == Good \/ Marked(ns)

-----------------------------------------------------------------------------
\* A step of thread t keeps what holds of the others, if it leaves their locks
\* and the directories they have locked alone, and brings no inode to life but
\* the one it creates.
LEMMA OthersKeep ==
    ASSUME Good, NEW t \in Threads, NEW c \in Calls, th' = [th EXCEPT ![t] = c],
           owner' \in Owners,
           \A i \in Inodes, u \in Threads \ {t} : owner[i] = u => owner'[i] = u,
           ns' \in Namespaces, Sound(ns', None),
           \A d \in Dirs, u \in Threads \ {t} :
               owner[d] = u => ns'.ents[d] = ns.ents[d],
           \A j \in Inodes : ns'.link[j] > 0 =>
               ns.link[j] > 0 \/ (th[t].op = "create" /\ j = th[t].ni),
           Place(ns', owner', t, c),
           c.op = "create" =>
               \A u \in Threads \ {t} : th[u].op = "create" => th[u].ni # c.ni
    PROVE  Good'
<1>1. th' \in [Threads -> Calls] /\ th'[t] = c /\ \A u \in Threads \ {t} : th'[u] = th[u]
  BY Zenon DEF Good
<1>2. ASSUME NEW u \in Threads \ {t}
      PROVE  Place(ns', owner', u, th[u])
  <2> DEFINE d == th[u]
  <2>0. Place(ns, owner, u, d)
    BY Zenon DEF Good
  <2>1. d.op = "create" => d.ni \in Inodes /\ ~(ns.link[d.ni] > 0) /\ d.pc = "dir"
    BY <2>0, Zenon DEF Place
  <2>2. d.op = "create" => ~(ns'.link[d.ni] > 0)
    BY <2>1, Zenon DEF Good
  <2>3. Dirs \subseteq Inodes
    BY Zenon DEF Inodes
  <2> HIDE DEF d
  <2>4. d.pc \in {"ni", "target", "source", "dst_dir last"} =>
            d.dir \in Dirs /\ owner[d.dir] = u /\ owner'[d.dir] = u
    BY <2>0, <2>3, Zenon DEF Place
  <2>5. d.pc \in {"src_dir", "target", "source"} => owner'[d.dst_dir] = u
    BY <2>0, <2>3, Zenon DEF Place
  <2>6. d.pc = "source" => ns'.ents[d.dir][d.name] = d.ni
    BY <2>0, <2>4, Zenon DEF Place
  <2>7. Place(ns', owner', u, d)
    BY <2>0, <2>2, <2>4, <2>5, <2>6, Zenon DEF Place
  <2> QED
    BY <2>7, Zenon DEF d
<1>3. \A u \in Threads : Place(ns', owner', u, th'[u])
  BY <1>1, <1>2, ZenonT(60)
<1>4. \A u, w \in Threads :
        u # w /\ th'[u].op = "create" /\ th'[w].op = "create" => th'[u].ni # th'[w].ni
  BY <1>1 DEF Good
<1> QED
  BY <1>1, <1>3, <1>4, Zenon DEF Good

\* The call of an idle thread.
LEMMA IdleCall == Idle \in Calls /\ Idle.op = "none" /\ Idle.pc = "idle"
<1>1. ASSUME NEW f \in BOOLEAN
      PROVE  [pc |-> "idle", op |-> "none", err |-> "ok", dir |-> None, name |-> None,
              ni |-> None, dst_dir |-> None, dst_name |-> None, dst_ni |-> None,
              at |-> None, have_unlinked |-> f] \in Calls
  BY Zenon DEF Calls, Places, Ops, Errs
<1>2. Idle.op = "none" /\ Idle.pc = "idle"
  BY Zenon DEF Idle
<1>3. Idle \in Calls
  BY <1>1, Zenon DEF Idle
<1> QED
  BY <1>2, <1>3, Zenon

\* A call gets its result.
LEMMA ErrCall ==
    ASSUME NEW b \in Calls, NEW e \in Errs
    PROVE  LET c == [b EXCEPT !.err = e] IN
           c \in Calls /\ c.op = b.op /\ c.pc = b.pc
BY ZenonT(60) DEF Calls

\* A call that returns.
LEMMA ReturnGood ==
    ASSUME Good, NEW t \in Threads, NEW e \in Errs, Return(t, e),
           ns' \in Namespaces, Sound(ns', None),
           \A d \in Dirs, u \in Threads \ {t} :
               owner[d] = u => ns'.ents[d] = ns.ents[d],
           \A j \in Inodes : ns'.link[j] > 0 =>
               ns.link[j] > 0 \/ (th[t].op = "create" /\ j = th[t].ni)
    PROVE  Good'
<1> DEFINE c == [Idle EXCEPT !.err = e]
<1>1. c \in Calls /\ c.pc = "idle" /\ c.op = "none"
  BY IdleCall, ErrCall, Zenon
<1>2. th' = [th EXCEPT ![t] = c]
  BY Zenon DEF Return
<1> HIDE DEF c
<1>3. Place(ns', owner', t, c)
  BY <1>1, Zenon DEF Place
<1>4. owner' \in Owners /\ \A i \in Inodes, u \in Threads \ {t} : owner[i] = u => owner'[i] = u
  BY Zenon DEF Return, Good, Owners
<1> QED
  BY <1>1, <1>2, <1>3, <1>4, OthersKeep, Zenon

\* A call that changes no name.
LEMMA ReturnUnchanged ==
    ASSUME Good, NEW t \in Threads, NEW e \in Errs, Return(t, e), UNCHANGED ns
    PROVE  Good'
BY ReturnGood, Zenon DEF Good

\* A step to another place of the same call.
LEMMA MoveOn ==
    ASSUME Good, NEW t \in Threads, NEW c \in Calls, th' = [th EXCEPT ![t] = c],
           UNCHANGED ns, owner' \in Owners,
           \A i \in Inodes, u \in Threads \ {t} : owner[i] = u => owner'[i] = u,
           Place(ns, owner', t, c), c.op # "create"
    PROVE  Good'
<1>1. ns' = ns
  OBVIOUS
<1>2. ns' \in Namespaces /\ Sound(ns', None) /\ Place(ns', owner', t, c)
  BY <1>1, Zenon DEF Good
<1> QED
  BY <1>1, <1>2, OthersKeep, Zenon

\* Thread t goes to place p with the same arguments, in call c.
Goes(t, p, c) ==
    /\ c \in Calls /\ th' = [th EXCEPT ![t] = c] /\ c.pc = p
    /\ c.op = th[t].op /\ c.dir = th[t].dir /\ c.name = th[t].name /\ c.ni = th[t].ni
    /\ c.dst_dir = th[t].dst_dir /\ c.dst_name = th[t].dst_name

\* A call moves on.
LEMMA GotoGoes ==
    ASSUME Good, NEW t \in Threads, NEW p \in Places, Goto(t, p)
    PROVE  \E c \in Calls : Goes(t, p, c)
<1> DEFINE c == [th[t] EXCEPT !.pc = p]
<1>1. th \in [Threads -> Calls] /\ th[t] \in Calls
  BY Zenon DEF Good
<1>2. c \in Calls
  BY <1>1, Zenon DEF Calls
<1>3. /\ c.pc = p /\ c.op = th[t].op /\ c.dir = th[t].dir /\ c.name = th[t].name
      /\ c.ni = th[t].ni /\ c.dst_dir = th[t].dst_dir /\ c.dst_name = th[t].dst_name
  BY <1>1, Zenon DEF Calls
<1>4. th' = [th EXCEPT ![t] = c]
  BY <1>1, Zenon DEF Goto
<1> HIDE DEF c
<1> QED
  BY <1>2, <1>3, <1>4, Zenon DEF Goes

\* The walk of a rename moves on.
LEMMA WalkGoes ==
    ASSUME Good, NEW t \in Threads, NEW p \in Places, NEW a \in Dirs \cup {None},
           th' = [th EXCEPT ![t].pc = p, ![t].at = a]
    PROVE  \E c \in Calls : Goes(t, p, c) /\ c.at = a
<1> DEFINE c == [th[t] EXCEPT !.pc = p, !.at = a]
<1>1. th \in [Threads -> Calls] /\ th[t] \in Calls
  BY Zenon DEF Good
<1>2. c \in Calls
  BY <1>1, Zenon DEF Calls
<1>3. /\ c.pc = p /\ c.op = th[t].op /\ c.dir = th[t].dir /\ c.name = th[t].name
      /\ c.ni = th[t].ni /\ c.dst_dir = th[t].dst_dir /\ c.dst_name = th[t].dst_name
      /\ c.at = a
  BY <1>1, Zenon DEF Calls
<1>4. th' = [th EXCEPT ![t] = c]
  BY <1>1, Zenon
<1> HIDE DEF c
<1> QED
  BY <1>2, <1>3, <1>4, Zenon DEF Goes

\* A rename has unlinked its target.
LEMMA UnlinkedGoes ==
    ASSUME Good, NEW t \in Threads,
           th' = [th EXCEPT ![t].pc = "source", ![t].have_unlinked = TRUE]
    PROVE  \E c \in Calls : Goes(t, "source", c)
<1> DEFINE c == [th[t] EXCEPT !.pc = "source", !.have_unlinked = TRUE]
<1>1. th \in [Threads -> Calls] /\ th[t] \in Calls
  BY Zenon DEF Good
<1>2. c \in Calls
  BY <1>1, Zenon DEF Calls, Places
<1>3. /\ c.pc = "source" /\ c.op = th[t].op /\ c.dir = th[t].dir /\ c.name = th[t].name
      /\ c.ni = th[t].ni /\ c.dst_dir = th[t].dst_dir /\ c.dst_name = th[t].dst_name
  BY <1>1, Zenon DEF Calls
<1>4. th' = [th EXCEPT ![t] = c]
  BY <1>1, Zenon
<1> HIDE DEF c
<1> QED
  BY <1>2, <1>3, <1>4, Zenon DEF Goes

\* Taking a free lock takes none away.
LEMMA LockTakesNothing ==
    ASSUME Good, NEW t \in Threads, NEW i \in Inodes, Lock(t, i)
    PROVE  /\ owner' \in Owners /\ owner'[i] = t
           /\ \A j \in Inodes, u \in Threads : owner[j] = u => owner'[j] = u
BY NamespaceAssumption, Zenon DEF Good, Lock, Unlocked, Owners

-----------------------------------------------------------------------------
(***************************************************************************)
(* The steps, one by one.                                                  *)
(***************************************************************************)
LEMMA LookupFirstGood ==
    ASSUME Good, NEW t \in Threads, LookupFirst(t)
    PROVE  Good'
<1>1. PICK dir \in Dirs, name \in Names, op \in {"unlink", "rename", "link", "create"},
           pc \in {"dir", "to"}, i \in Inodes :
        /\ Begin(t, op, pc, dir, name, i)
        /\ op \in {"unlink", "link", "create"} => pc = "dir"
        /\ op = "rename" => pc = "to"
        /\ op = "link" => i \in Files
        /\ op = "create" => Reusable(i)
  <2>1. PICK dir \in Dirs, name \in Names :
          \/ \E i \in Inodes : \/ Begin(t, "unlink", "dir", dir, name, i)
                               \/ Begin(t, "rename", "to", dir, name, i)
          \/ \E i \in Files : Begin(t, "link", "dir", dir, name, i)
          \/ \E i \in Inodes : Reusable(i) /\ Begin(t, "create", "dir", dir, name, i)
    BY Zenon DEF LookupFirst
  <2>2. Files \subseteq Inodes
    BY Zenon DEF Inodes
  <2> QED
    BY <2>1, <2>2, Zenon
<1> DEFINE c == [Idle EXCEPT !.op = op, !.pc = pc, !.dir = dir, !.name = name, !.ni = i]
<1>2. th' = [th EXCEPT ![t] = c]
  BY <1>1, Zenon DEF Begin
<1>3. /\ c \in Calls /\ c.op = op /\ c.pc = pc /\ c.dir = dir /\ c.name = name /\ c.ni = i
  <2>1. op \in Ops /\ pc \in Places
    BY Zenon DEF Ops, Places
  <2>2. Idle \in Calls
    BY IdleCall, Zenon
  <2>3. c \in Calls
    BY <2>1, <2>2, Zenon DEF Calls
  <2>4. c.op = op /\ c.pc = pc /\ c.dir = dir /\ c.name = name /\ c.ni = i
    BY <2>2, Zenon DEF Calls
  <2> QED
    BY <2>3, <2>4, Zenon
<1>4. UNCHANGED <<ns, owner>>
  BY Zenon DEF LookupFirst, locks
<1> HIDE DEF c
<1>5. op = "create" => ~(ns.link[i] > 0) /\ \A u \in Threads : th[u].ni # i
  BY <1>1, Zenon DEF Reusable, Live
<1>6. Place(ns, owner, t, c)
  BY <1>1, <1>3, <1>5, Zenon DEF Place
<1>7. ns' \in Namespaces /\ Sound(ns', None) /\ owner' \in Owners /\ Place(ns', owner', t, c)
  BY <1>4, <1>6, Zenon DEF Good
<1> QED
  BY <1>2, <1>3, <1>4, <1>5, <1>7, OthersKeep, Zenon

\* The target of a rename is looked up.
LEMMA LookupTargetGood ==
    ASSUME Good, NEW t \in Threads, LookupTarget(t)
    PROVE  Good'
<1>1. PICK dir \in Dirs, name \in Names, i \in Inodes \cup {None} :
        th' = [th EXCEPT ![t].dst_dir = dir, ![t].dst_name = name, ![t].dst_ni = i,
                         ![t].pc = IF dir = th[t].dir THEN "dir" ELSE "rename"]
  BY ZenonT(60) DEF LookupTarget
<1> DEFINE p == IF dir = th[t].dir THEN "dir" ELSE "rename"
           c == [th[t] EXCEPT !.dst_dir = dir, !.dst_name = name, !.dst_ni = i, !.pc = p]
<1>2. th[t] \in Calls /\ th \in [Threads -> Calls] /\ Place(ns, owner, t, th[t]) /\ th[t].pc = "to"
  BY Zenon DEF Good, LookupTarget
<1>3. th' = [th EXCEPT ![t] = c]
  BY <1>1, <1>2, Zenon
<1>4. p \in {"dir", "rename"} /\ (p = "dir" => dir = th[t].dir)
  OBVIOUS
<1> HIDE DEF p
<1>5. /\ c \in Calls /\ c.op = th[t].op /\ c.pc = p /\ c.dir = th[t].dir /\ c.name = th[t].name
      /\ c.ni = th[t].ni /\ c.dst_dir = dir /\ c.dst_name = name
  <2>1. p \in Places
    BY <1>4, Zenon DEF Places
  <2>2. c \in Calls
    BY <1>2, <2>1, Zenon DEF Calls
  <2>3. /\ c.op = th[t].op /\ c.pc = p /\ c.dir = th[t].dir /\ c.name = th[t].name
        /\ c.ni = th[t].ni /\ c.dst_dir = dir /\ c.dst_name = name
    BY <1>2, Zenon DEF Calls
  <2> QED
    BY <2>2, <2>3, Zenon
<1> HIDE DEF c
<1>6. th[t].op \notin {"create", "unlink", "link"}
  BY <1>2, Zenon DEF Place
<1>7. Place(ns, owner, t, c) /\ c.op # "create"
  BY <1>2, <1>4, <1>5, <1>6, Zenon DEF Place
<1>8. UNCHANGED <<ns, owner>> /\ owner' \in Owners
  BY Zenon DEF LookupTarget, locks, Good
<1> QED
  BY <1>3, <1>5, <1>7, <1>8, MoveOn, Zenon

\* The directory is locked.
LEMMA LockDirGood ==
    ASSUME Good, NEW t \in Threads, LockDir(t)
    PROVE  Good'
<1> DEFINE p == IF th[t].op = "rename" THEN "target" ELSE "ni"
<1>1. /\ Place(ns, owner, t, th[t]) /\ th[t].pc = "dir" /\ th[t].op # "create"
      /\ Lock(t, th[t].dir) /\ Goto(t, p) /\ UNCHANGED ns
  BY DEF Good, LockDir
<1>2. p \in Places /\ (p = "target" <=> th[t].op = "rename") /\ (p # "target" => p = "ni")
  BY Zenon DEF Places
<1> HIDE DEF p
<1>3. PICK c \in Calls : Goes(t, p, c)
  BY <1>1, <1>2, GotoGoes, Zenon
<1>4. th[t].dir \in Dirs /\ th[t].dir \in Inodes
  BY <1>1, Zenon DEF Place, Inodes
<1>5. /\ owner' \in Owners /\ owner'[th[t].dir] = t
      /\ \A j \in Inodes, u \in Threads : owner[j] = u => owner'[j] = u
  BY <1>1, <1>4, LockTakesNothing, Zenon
<1>6. Place(ns, owner', t, c)
  BY <1>1, <1>2, <1>3, <1>5, ZenonT(60) DEF Place, Goes
<1> QED
  BY <1>1, <1>3, <1>5, <1>6, MoveOn, ZenonT(60) DEF Goes

\* Both directories of a rename are locked.
LEMMA LockDirsGood ==
    ASSUME Good, NEW t \in Threads, LockDirs(t)
    PROVE  Good'
<1>1. Place(ns, owner, t, th[t]) /\ UNCHANGED ns
  BY Zenon DEF Good, LockDirs
<1>2. PICK d \in {th[t].dir, th[t].dst_dir}, p \in {"src_dir", "target", "dst_dir last"} :
        /\ Lock(t, d) /\ Goto(t, p)
        /\ \/ th[t].pc = "dst_dir" /\ d = th[t].dst_dir /\ p = "src_dir"
           \/ th[t].pc = "src_dir" /\ d = th[t].dir /\ p = "target"
           \/ th[t].pc = "src_dir first" /\ d = th[t].dir /\ p = "dst_dir last"
           \/ th[t].pc = "dst_dir last" /\ d = th[t].dst_dir /\ p = "target"
  BY Zenon DEF LockDirs
<1>3. p \in Places
  BY Zenon DEF Places
<1>4. PICK c \in Calls : Goes(t, p, c)
  BY <1>2, <1>3, GotoGoes, Zenon
<1>5. /\ th[t].dir \in Dirs /\ th[t].dst_dir \in Dirs /\ Dirs \subseteq Inodes
      /\ th[t].op \notin {"create", "unlink", "link"}
  BY <1>1, <1>2, Zenon DEF Place, Inodes
<1>6. /\ owner' \in Owners /\ owner'[d] = t
      /\ \A j \in Inodes, u \in Threads : owner[j] = u => owner'[j] = u
  BY <1>2, <1>5, LockTakesNothing, Zenon
<1>7. Place(ns, owner', t, c)
  <2>1. p \in {"target", "dst_dir last"} => owner'[th[t].dir] = t
    BY <1>1, <1>2, <1>5, <1>6, Zenon DEF Place
  <2>2. p \in {"src_dir", "target"} => owner'[th[t].dst_dir] = t
    BY <1>1, <1>2, <1>5, <1>6, Zenon DEF Place
  <2>3. th[t].name \in Names /\ th[t].ni \in Inodes /\ th[t].dst_name \in Names
    BY <1>1, <1>2, Zenon DEF Place
  <2> QED
    BY <1>4, <1>5, <2>1, <2>2, <2>3, Zenon DEF Place, Goes
<1> QED
  BY <1>1, <1>4, <1>5, <1>6, <1>7, MoveOn, ZenonT(60) DEF Goes

\* The walk goes on, or ends at the root.
LEMMA WalkOnGood ==
    ASSUME Good, NEW t \in Threads, NEW i \in Dirs, WalkOn(t, i),
           th[t].pc \in {"rename", "walk"}, UNCHANGED <<ns, owner>>
    PROVE  Good'
<1>1. /\ Place(ns, owner, t, th[t]) /\ ns.parent[i] \in Dirs /\ owner \in Owners
  BY Zenon DEF Good, Namespaces
<1>2. PICK p \in {"dst_dir", "walk"}, a \in Dirs \cup {None} :
        /\ th' = [th EXCEPT ![t].pc = p, ![t].at = a]
        /\ p = "walk" => a \in Dirs
  BY <1>1, Zenon DEF WalkOn
<1>3. p \in Places
  BY Zenon DEF Places
<1>4. PICK c \in Calls : Goes(t, p, c) /\ c.at = a
  BY <1>2, <1>3, WalkGoes, ZenonT(60)
<1>5. th[t].op \notin {"create", "unlink", "link"}
  BY <1>1, Zenon DEF Place
<1>6. Place(ns, owner, t, c)
  BY <1>1, <1>2, <1>4, <1>5, Zenon DEF Place, Goes
<1>7. owner' = owner /\ owner' \in Owners /\ Place(ns, owner', t, c)
  BY <1>1, <1>6, Zenon
<1> QED
  BY <1>4, <1>5, <1>7, MoveOn, Zenon DEF Goes

\* The rename lock is taken.
LEMMA TakeRenameLockGood ==
    ASSUME Good, NEW t \in Threads, TakeRenameLock(t)
    PROVE  Good'
<1>1. CASE Fail(t)
  BY <1>1, ReturnUnchanged, Zenon DEF Fail, Errs
<1>2. CASE WalkOn(t, th[t].dst_dir) /\ UNCHANGED <<ns, owner>>
  <2>1. th[t].pc = "rename" /\ th[t].dst_dir \in Dirs
    BY Zenon DEF TakeRenameLock, Good, Place
  <2> QED
    BY <1>2, <2>1, WalkOnGood, Zenon
<1> QED
  BY <1>1, <1>2, Zenon DEF TakeRenameLock

\* The walk goes up.
LEMMA WalkGood ==
    ASSUME Good, NEW t \in Threads, Walk(t)
    PROVE  Good'
<1>1. Place(ns, owner, t, th[t]) /\ th[t].pc = "walk" /\ th[t].at \in Dirs /\ owner \in Owners
  BY Zenon DEF Walk, Good, Place
<1>2. CASE Fail(t)
  BY <1>2, ReturnUnchanged DEF Fail, Errs
<1>3. CASE /\ th' = [th EXCEPT ![t].pc = "src_dir first", ![t].at = None]
           /\ UNCHANGED <<ns, locks>>
  <2>1. "src_dir first" \in Places
    BY Zenon DEF Places
  <2>2. PICK c \in Calls : Goes(t, "src_dir first", c)
    BY <1>3, <2>1, WalkGoes, Zenon
  <2>3. th[t].op \notin {"create", "unlink", "link"}
    BY <1>1, Zenon DEF Place
  <2>4. owner' = owner /\ owner' \in Owners /\ ns' = ns
    BY <1>1, <1>3, Zenon DEF locks
  <2>5. Place(ns, owner', t, c)
    BY <1>1, <2>2, <2>3, Zenon DEF Place, Goes
  <2> QED
    BY <2>2, <2>3, <2>4, <2>5, MoveOn, Zenon DEF Goes
<1>4. CASE WalkOn(t, th[t].at) /\ UNCHANGED <<ns, locks>>
  BY <1>1, <1>4, WalkOnGood, Zenon DEF locks
<1> QED
  BY <1>2, <1>3, <1>4, Zenon DEF Walk

\* A file or directory is created.
LEMMA CreateGood ==
    ASSUME Counting, Good, NEW t \in Threads, ntfs_create(t)
    PROVE  IInv'
<1> DEFINE c == th[t]
<1>1. CASE Fail(t)
  BY <1>1, ReturnUnchanged, Zenon DEF Fail, Errs, IInv
<1>2. CASE /\ ns.ents[c.dir][c.name] = None
           /\ ns' = Create(ns, c.dir, c.name, c.ni) /\ Return(t, "ok")
  <2>1. /\ Place(ns, owner, t, c) /\ c.op = "create" /\ c.pc = "dir" /\ owner[c.dir] = None
        /\ ns \in Namespaces /\ Sound(ns, None)
    BY Zenon DEF Good, ntfs_create, Unlocked
  <2>2. /\ c.dir \in Dirs /\ c.name \in Names /\ c.ni \in Inodes /\ ~(ns.link[c.ni] > 0)
    BY <2>1, ZenonT(60) DEF Place
  <2>3. /\ ns' \in Namespaces /\ Sound(ns', None)
        /\ \A d \in Dirs \ {c.dir} : ns'.ents[d] = ns.ents[d]
        /\ \A j \in Inodes \ {c.ni} : ns'.link[j] = ns.link[j]
    BY <1>2, <2>1, <2>2, CreateSound
  <2>4. \A u \in Threads : u # None
    BY NamespaceAssumption, Zenon
  <2>5. \A d \in Dirs, u \in Threads \ {t} : owner[d] = u => ns'.ents[d] = ns.ents[d]
    BY <2>1, <2>2, <2>3, <2>4, Zenon
  <2>6. \A j \in Inodes : ns'.link[j] > 0 => ns.link[j] > 0 \/ (c.op = "create" /\ j = c.ni)
    BY <2>1, <2>3, Zenon
  <2>7. "ok" \in Errs
    BY Zenon DEF Errs
  <2> QED
    BY <1>2, <2>3, <2>5, <2>6, <2>7, ReturnGood, Zenon DEF IInv
<1>3. CASE ns' = Corrupt(ns)
  <2>1. ns \in Namespaces
    BY Zenon DEF Good
  <2> QED
    BY <1>3, <2>1, CorruptParts, TypedMarked, Zenon DEF IInv
<1> QED
  BY <1>1, <1>2, <1>3, Zenon DEF ntfs_create

\* A name is unlinked.
LEMMA UnlinkGood ==
    ASSUME Counting, Good, NEW t \in Threads, ntfs_unlink(t)
    PROVE  IInv'
<1> DEFINE c == th[t]
<1>1. CASE Fail(t)
  BY <1>1, ReturnUnchanged DEF Fail, Errs, IInv
<1>2. CASE /\ ns.ents[c.dir][c.name] = c.ni
           /\ \E o \in UnlinkName(ns, c.dir, c.name, c.ni) : ns' = o.ns /\ Return(t, o.err)
  <2>1. /\ Place(ns, owner, t, c) /\ c.op = "unlink" /\ c.pc = "ni"
        /\ ns \in Namespaces /\ Sound(ns, None)
    BY Zenon DEF Good, ntfs_unlink
  <2>2. c.dir \in Dirs /\ c.name \in Names /\ c.ni \in Inodes /\ owner[c.dir] = t
    BY <2>1, Zenon DEF Place
  <2> HIDE DEF c
  <2>3. PICK o \in UnlinkName(ns, c.dir, c.name, c.ni) : ns' = o.ns /\ Return(t, o.err)
    BY <1>2, Zenon
  <2>4. /\ ns' \in Namespaces /\ o.err \in {"ok", "fail"}
        /\ \A d \in Dirs \ {c.dir} : ns'.ents[d] = ns.ents[d]
        /\ ns'.errors \/ Sound(ns', None)
        /\ \A j \in Inodes : ns'.link[j] > 0 => ns.link[j] > 0
    BY <1>2, <2>1, <2>2, <2>3, PlainUnlinkSound, ZenonT(60)
  <2>5. CASE ns'.errors
    BY <2>4, <2>5, TypedMarked, Zenon DEF IInv
  <2>6. CASE Sound(ns', None)
    <3>1. \A d \in Dirs, u \in Threads \ {t} : owner[d] = u => ns'.ents[d] = ns.ents[d]
      BY <2>2, <2>4, Zenon
    <3>2. o.err \in Errs
      BY <2>4, Zenon DEF Errs
    <3> QED
      BY <2>3, <2>4, <2>6, <3>1, <3>2, ReturnGood, Zenon DEF IInv
  <2> QED
    BY <2>4, <2>5, <2>6, Zenon
<1> QED
  BY <1>1, <1>2, Zenon DEF ntfs_unlink, UnlinkName

\* A name is linked.
LEMMA LinkGood ==
    ASSUME Counting, Good, NEW t \in Threads, ntfs_vnop_link(t)
    PROVE  IInv'
<1> DEFINE c == th[t]
<1>1. CASE Fail(t)
  BY <1>1, ReturnUnchanged DEF Fail, Errs, IInv
<1>2. CASE /\ ns.link[c.ni] > 0
           /\ \E o \in LinkName(ns, c.ni, c.dir, c.name) : ns' = o.ns /\ Return(t, o.err)
  <2>1. /\ Place(ns, owner, t, c) /\ c.op = "link" /\ c.pc = "ni"
        /\ ns \in Namespaces /\ Sound(ns, None)
    BY Zenon DEF Good, ntfs_vnop_link
  <2>2. /\ c.dir \in Dirs /\ c.name \in Names /\ c.ni \in Inodes \ {Root} /\ owner[c.dir] = t
    BY <2>1, NamespaceAssumption, Zenon DEF Place
  <2> HIDE DEF c
  <2>3. PICK o \in LinkName(ns, c.ni, c.dir, c.name) : ns' = o.ns /\ Return(t, o.err)
    BY <1>2, Zenon
  <2>4. /\ ns' \in Namespaces /\ o.err \in {"ok", "fail"}
        /\ \A d \in Dirs \ {c.dir} : ns'.ents[d] = ns.ents[d]
        /\ ns'.errors \/ Sound(ns', None)
        /\ \A j \in Inodes : ns'.link[j] > 0 => ns.link[j] > 0
    BY <1>2, <2>1, <2>2, <2>3, PlainLinkSound
  <2>5. CASE ns'.errors
    BY <2>4, <2>5, TypedMarked, Zenon DEF IInv
  <2>6. CASE Sound(ns', None)
    <3>1. \A d \in Dirs, u \in Threads \ {t} : owner[d] = u => ns'.ents[d] = ns.ents[d]
      BY <2>2, <2>4, Zenon
    <3>2. o.err \in Errs
      BY <2>4, Zenon DEF Errs
    <3> QED
      BY <2>3, <2>4, <2>6, <3>1, <3>2, ReturnGood, Zenon DEF IInv
  <2> QED
    BY <2>4, <2>5, <2>6, Zenon
<1> QED
  BY <1>1, <1>2, Zenon DEF ntfs_vnop_link, LinkName, Live

\* The target of a rename is unlinked.
LEMMA RenameTargetGood ==
    ASSUME Counting, Good, NEW t \in Threads, RenameTarget(t)
    PROVE  IInv'
<1> DEFINE c == th[t]
           dst == IF c.dst_ni # None /\ Live(c.dst_ni) THEN c.dst_ni ELSE None
           found == ns.ents[c.dst_dir][c.dst_name]
<1>1. /\ Place(ns, owner, t, c) /\ c.pc = "target"
      /\ ns \in Namespaces /\ Sound(ns, None) /\ owner \in Owners
  BY Zenon DEF Good, RenameTarget
<1>2. /\ c.dir \in Dirs /\ c.name \in Names /\ c.ni \in Inodes /\ owner[c.dir] = t
      /\ c.dst_dir \in Dirs /\ c.dst_name \in Names /\ owner[c.dst_dir] = t
      /\ c.op \notin {"create", "unlink", "link"}
  BY <1>1, Zenon DEF Place
<1>3. \/ Fail(t)
      \/ /\ ~Refused(c, dst)
         /\ \/ Goto(t, "source") /\ UNCHANGED <<ns, locks>>
            \/ Return(t, "ok") /\ UNCHANGED ns
            \/ /\ found \notin {None, c.ni}
               /\ \E o \in UnlinkName(ns, c.dst_dir, c.dst_name, dst) :
                     /\ ns' = o.ns
                     /\ IF o.err # "ok" THEN Return(t, "fail")
                        ELSE /\ th' = [th EXCEPT ![t].pc = "source", ![t].have_unlinked = TRUE]
                             /\ UNCHANGED locks
  BY Zenon DEF RenameTarget, UnlinkName
<1>4. ~Refused(c, dst) => ns.ents[c.dir][c.name] = c.ni /\ (found # None => found = dst)
  BY Zenon DEF Refused
<1> HIDE DEF c, dst, found
<1>5. CASE Fail(t)
  BY <1>5, ReturnUnchanged DEF Fail, Errs, IInv
<1>6. CASE Return(t, "ok") /\ UNCHANGED ns
  BY <1>6, ReturnUnchanged, Zenon DEF Errs, IInv
<1>7. ASSUME NEW b \in Calls, Goes(t, "source", b), UNCHANGED owner,
             ns' \in Namespaces, Sound(ns', None), ns'.ents[c.dir][c.name] = c.ni,
             \A d \in Dirs \ {c.dst_dir} : ns'.ents[d] = ns.ents[d],
             \A j \in Inodes : ns'.link[j] > 0 => ns.link[j] > 0
      PROVE  Good'
  <2>1. Place(ns', owner', t, b)
    BY <1>1, <1>2, <1>7, Zenon DEF Place, Goes, c
  <2>2. \A d \in Dirs, u \in Threads \ {t} : owner[d] = u => ns'.ents[d] = ns.ents[d]
    BY <1>2, <1>7, Zenon
  <2>3. owner' = owner /\ owner' \in Owners /\ b.op # "create" /\ th' = [th EXCEPT ![t] = b]
    BY <1>1, <1>2, <1>7, Zenon DEF Goes, c
  <2> QED
    BY <1>7, <2>1, <2>2, <2>3, OthersKeep, Zenon
<1>8. CASE ~Refused(c, dst) /\ Goto(t, "source") /\ UNCHANGED <<ns, locks>>
  <2>1. PICK b \in Calls : Goes(t, "source", b)
    BY <1>8, GotoGoes, Zenon DEF Places
  <2>2. ns' = ns /\ UNCHANGED owner
    BY <1>8, Zenon DEF locks
  <2>3. ns' \in Namespaces /\ Sound(ns', None) /\ ns'.ents[c.dir][c.name] = c.ni
    BY <1>1, <1>4, <1>8, <2>2, Zenon
  <2> QED
    BY <1>7, <2>1, <2>2, <2>3, Zenon DEF IInv
<1>9. ASSUME ~Refused(c, dst), found \notin {None, c.ni},
             NEW o \in UnlinkName(ns, c.dst_dir, c.dst_name, dst), ns' = o.ns,
             IF o.err # "ok" THEN Return(t, "fail")
             ELSE /\ th' = [th EXCEPT ![t].pc = "source", ![t].have_unlinked = TRUE]
                  /\ UNCHANGED locks
      PROVE  IInv'
  <2>1. found = dst /\ ns.ents[c.dst_dir][c.dst_name] = dst /\ dst \in Inodes
    <3>1. found = dst /\ found # None
      BY <1>4, <1>9, ZenonT(60)
    <3>2. ns.ents[c.dst_dir][c.dst_name] \in Inodes \cup {None}
      BY <1>1, <1>2 DEF Namespaces
    <3> QED
      BY <3>1, <3>2, Zenon DEF found
  <2>2. /\ ns' \in Namespaces
        /\ \A d \in Dirs \ {c.dst_dir} : ns'.ents[d] = ns.ents[d]
        /\ \A n \in Names \ {c.dst_name} : ns'.ents[c.dst_dir][n] = ns.ents[c.dst_dir][n]
        /\ ns'.errors \/ Sound(ns', None)
        /\ \A j \in Inodes : ns'.link[j] > 0 => ns.link[j] > 0
    BY <1>1, <1>2, <1>9, <2>1, PlainUnlinkSound
  <2>3. CASE ns'.errors
    BY <2>2, <2>3, TypedMarked, Zenon DEF IInv
  <2>4. CASE Sound(ns', None) /\ o.err # "ok"
    <3>1. \A d \in Dirs, u \in Threads \ {t} : owner[d] = u => ns'.ents[d] = ns.ents[d]
      BY <1>2, <2>2, Zenon
    <3>2. "fail" \in Errs /\ Return(t, "fail")
      BY <1>9, <2>4, Zenon DEF Errs
    <3> QED
      BY <2>2, <2>4, <3>1, <3>2, ReturnGood, Zenon DEF IInv
  <2>5. CASE Sound(ns', None) /\ o.err = "ok"
    <3>1. PICK b \in Calls : Goes(t, "source", b)
      BY <1>9, <2>5, UnlinkedGoes, Zenon
    <3>2. ns'.ents[c.dir][c.name] = c.ni
      <4>1. ns.ents[c.dir][c.name] = c.ni
        BY <1>4, <1>9, Zenon
      <4>2. c.dir # c.dst_dir \/ c.name # c.dst_name
        BY <1>9, <4>1, Zenon DEF found
      <4> QED
        BY <1>2, <2>2, <4>1, <4>2, Zenon
    <3>3. UNCHANGED owner
      BY <1>9, <2>5, Zenon DEF locks
    <3> QED
      BY <1>7, <2>2, <2>5, <3>1, <3>2, <3>3, ZenonT(60) DEF IInv
  <2> QED
    BY <2>2, <2>3, <2>4, <2>5, Zenon
<1> QED
  BY <1>3, <1>5, <1>6, <1>8, <1>9, Zenon

\* The source of a rename is moved.
LEMMA RenameSourceGood ==
    ASSUME Counting, Good, NEW t \in Threads, RenameSource(t)
    PROVE  IInv'
<1> DEFINE c == th[t]
<1>1. /\ Place(ns, owner, t, c) /\ c.pc = "source"
      /\ ns \in Namespaces /\ Sound(ns, None)
  BY Zenon DEF Good, RenameSource
<1>2. /\ c.dir \in Dirs /\ c.name \in Names /\ c.ni \in Inodes /\ owner[c.dir] = t
      /\ c.dst_dir \in Dirs /\ c.dst_name \in Names /\ owner[c.dst_dir] = t
      /\ ns.ents[c.dir][c.name] = c.ni
  BY <1>1, Zenon DEF Place
<1>3. PICK o \in MoveName(Elevate(ns, c.ni, 1), c.ni, c.dir, c.name, c.dst_dir, c.dst_name) :
        /\ ns' = Elevate(o.ns, c.ni, -1)
        /\ Return(t, IF o.err # "ok" /\ c.have_unlinked THEN "EIO" ELSE o.err)
  BY Zenon DEF RenameSource
<1> HIDE DEF c
<1>4. \/ Marked(ns')
      \/ /\ ns' \in Namespaces /\ Sound(ns', None)
         /\ \A d \in Dirs \ {c.dir, c.dst_dir} : ns'.ents[d] = ns.ents[d]
         /\ \A j \in Inodes : ns'.link[j] > 0 => ns.link[j] > 0
  <2>1. PICK dir, name, i, dst_dir, dst_name :
            /\ dir = c.dir /\ name = c.name /\ i = c.ni
            /\ dst_dir = c.dst_dir /\ dst_name = c.dst_name
    BY Zenon
  <2>2. PICK v, w : v = ns /\ w = ns'
    BY Zenon
  <2>3. /\ v \in Namespaces /\ Sound(v, None)
        /\ dir \in Dirs /\ name \in Names /\ i \in Inodes
        /\ dst_dir \in Dirs /\ dst_name \in Names /\ v.ents[dir][name] = i
        /\ o \in MoveName(Elevate(v, i, 1), i, dir, name, dst_dir, dst_name)
        /\ w = Elevate(o.ns, i, -1)
    BY <1>1, <1>2, <1>3, <2>1, <2>2, ZenonT(60)
  <2>4. \/ Marked(w)
        \/ /\ w \in Namespaces /\ Sound(w, None)
           /\ \A d \in Dirs \ {dir, dst_dir} : w.ents[d] = v.ents[d]
           /\ \A j \in Inodes : w.link[j] > 0 => v.link[j] > 0
    BY ONLY <2>3, Counting, MoveSound
  <2> QED
    BY <2>1, <2>2, <2>4, Zenon
<1>5. o.err \in Errs
  BY <1>1, <1>2, <1>3, MoveErrs, Zenon DEF Errs
<1>6. CASE Marked(ns')
  BY <1>6, Zenon DEF IInv
<1>7. CASE ~Marked(ns')
  <2>1. \A d \in Dirs, u \in Threads \ {t} : owner[d] = u => ns'.ents[d] = ns.ents[d]
    BY <1>2, <1>4, <1>7, Zenon
  <2> DEFINE e == IF o.err # "ok" /\ c.have_unlinked THEN "EIO" ELSE o.err
  <2>2. e \in Errs /\ Return(t, e)
    BY <1>3, <1>5, Zenon DEF Errs
  <2> HIDE DEF e
  <2> QED
    BY <1>4, <1>7, <2>1, <2>2, ReturnGood, Zenon DEF IInv
<1> QED
  BY <1>6, <1>7, Zenon

-----------------------------------------------------------------------------
\* The errors flag is never reset.
LEMMA MarkedStep ==
    ASSUME Marked(ns), NEW t \in Threads, Step(t)
    PROVE  Marked(ns')
<1> DEFINE c == th[t]
<1>1. CASE LookupFirst(t) \/ LookupTarget(t) \/ LockDir(t) \/ LockDirs(t)
  BY <1>1, Zenon DEF LookupFirst, LookupTarget, LockDir, LockDirs
<1>2. CASE TakeRenameLock(t) \/ Walk(t)
  BY <1>2, Zenon DEF TakeRenameLock, Walk, Fail
<1>3. CASE ntfs_create(t)
  <2>1. ns' = ns \/ ns' = Create(ns, c.dir, c.name, c.ni) \/ ns' = Corrupt(ns)
    BY <1>3, Zenon DEF ntfs_create, Fail
  <2> QED
    BY <2>1, MarkedStays, Zenon
<1>4. CASE ntfs_unlink(t)
  <2>1. ns' = ns \/ \E o \in UnlinkName(ns, c.dir, c.name, c.ni) : ns' = o.ns
    BY <1>4, Zenon DEF ntfs_unlink, Fail, UnlinkName
  <2> QED
    BY <2>1, MarkedNames, Zenon
<1>5. CASE ntfs_vnop_link(t)
  <2>1. ns' = ns \/ \E o \in LinkName(ns, c.ni, c.dir, c.name) : ns' = o.ns
    BY <1>5, Zenon DEF ntfs_vnop_link, Fail, LinkName
  <2> QED
    BY <2>1, MarkedNames, Zenon
<1>6. CASE RenameTarget(t)
  <2>1. ns' = ns \/ \E d : \E o \in UnlinkName(ns, c.dst_dir, c.dst_name, d) : ns' = o.ns
    BY <1>6, Zenon DEF RenameTarget, Fail, UnlinkName
  <2> QED
    BY <2>1, MarkedNames, Zenon
<1>7. CASE RenameSource(t)
  <2>1. \E o \in MoveName(Elevate(ns, c.ni, 1), c.ni, c.dir, c.name, c.dst_dir, c.dst_name) :
          ns' = Elevate(o.ns, c.ni, -1)
    BY <1>7, Zenon DEF RenameSource
  <2> HIDE DEF c
  <2> QED
    BY <2>1, MarkedMove, Zenon
<1> QED
  BY <1>1, <1>2, <1>3, <1>4, <1>5, <1>6, <1>7, Zenon DEF Step

\* The invariant holds at first.
LEMMA InitGood == Init => IInv
<1> SUFFICES ASSUME Init PROVE Good
  BY Zenon DEF IInv
<1>1. ns \in Namespaces /\ Sound(ns, None)
  BY TreesAssumption, AgreeButNobody, Zenon DEF Init, Sound
<1>2. owner \in Owners /\ th \in [Threads -> Calls]
  BY IdleCall, Zenon DEF Init, Owners
<1>3. \A t \in Threads : th[t].op = "none" /\ th[t].pc = "idle"
  BY IdleCall, Zenon DEF Init
<1>4. \A t \in Threads : Place(ns, owner, t, th[t])
  BY <1>3, Zenon DEF Place
<1> QED
  BY <1>1, <1>2, <1>3, <1>4, Zenon DEF Good

\* Every step keeps it.
LEMMA StepKeeps ==
    ASSUME Counting
    PROVE  IInv /\ [Next]_vars => IInv'
<1> SUFFICES ASSUME IInv, [Next]_vars PROVE IInv'
  OBVIOUS
<1>1. CASE UNCHANGED vars
  BY <1>1, Zenon DEF vars, IInv, Good, Marked
<1>2. ASSUME NEW t \in Threads, Step(t), Marked(ns)
      PROVE  IInv'
  BY <1>2, MarkedStep, Zenon DEF IInv
<1>3. ASSUME NEW t \in Threads, Step(t), Good
      PROVE  IInv'
  <2>1. CASE LookupFirst(t)
    BY <1>3, <2>1, LookupFirstGood, Zenon DEF IInv
  <2>2. CASE LookupTarget(t)
    BY <1>3, <2>2, LookupTargetGood DEF IInv
  <2>3. CASE ntfs_create(t)
    BY <1>3, <2>3, CreateGood
  <2>4. CASE LockDir(t)
    BY <1>3, <2>4, LockDirGood DEF IInv
  <2>5. CASE ntfs_unlink(t)
    BY <1>3, <2>5, UnlinkGood, ZenonT(60)
  <2>6. CASE ntfs_vnop_link(t)
    BY <1>3, <2>6, LinkGood
  <2>7. CASE TakeRenameLock(t)
    BY <1>3, <2>7, TakeRenameLockGood DEF IInv
  <2>8. CASE Walk(t)
    BY <1>3, <2>8, WalkGood DEF IInv
  <2>9. CASE LockDirs(t)
    BY <1>3, <2>9, LockDirsGood DEF IInv
  <2>10. CASE RenameTarget(t)
    BY <1>3, <2>10, RenameTargetGood
  <2>11. CASE RenameSource(t)
    BY <1>3, <2>11, RenameSourceGood
  <2> QED
    BY <1>3, <2>1, <2>2, <2>3, <2>4, <2>5, <2>6, <2>7, <2>8, <2>9, <2>10,
       <2>11, ZenonT(60) DEF Step
<1> QED
  BY <1>1, <1>2, <1>3, Zenon DEF IInv, Next
-----------------------------------------------------------------------------
(***************************************************************************)
(* The directories stay a tree.                                            *)
(*                                                                         *)
(* A rename into another directory could make a loop.  It does not since   *)
(* it walks up from the target directory under the rename lock and meets   *)
(* the source nowhere: what it has walked over (Clear) cannot change until *)
(* it is done, for other calls only create directories and remove empty    *)
(* ones, and no other rename into another directory is under way.          *)
(***************************************************************************)

\* A rename into another directory, from the walk on.
Renaming(c) ==
    \/ c.pc \in {"walk", "dst_dir", "src_dir", "src_dir first", "dst_dir last"}
    \/ c.pc \in {"target", "source"} /\ c.dir # c.dst_dir

\* The walk of call c has seen no c.ni on the way up from c.dst_dir to c.at, or
\* to the source directory or the root, where it ends.
ClearBy(v, c, P) ==
    /\ P \in SUBSET Dirs /\ c.dst_dir \in P
    /\ c.ni \in P => c.ni \in {c.dir, Root}
    /\ \A d \in P \ {c.dir, Root} : v.link[d] > 0 /\ v.parent[d] \in P \cup {c.at}

Clear(v, c) == \E P : ClearBy(v, c, P)

\* What a rename into another directory has seen, at each place of it.
Walks(v, lock, t, c) ==
    /\ Renaming(c) => /\ lock = t /\ (v.link[c.dst_dir] > 0 => Clear(v, c))
                      /\ c.pc # "walk" => c.at = None
    /\ c.pc = "source" => v.link[c.dst_dir] > 0 /\ c.ni # c.dir

\* The inductive invariant, added to the one above.
TInv ==
    /\ IsTree(ns)
    /\ \A t \in Threads : Walks(ns, rename_lock, t, th[t])
    /\ \A t, u \in Threads :
        t # u /\ th[t].op = "create" => th[t].ni # th[u].dst_dir

-----------------------------------------------------------------------------
\* What a walk has seen stays clear of c.ni while directories are created, and
\* an empty one removed.
LEMMA KeepClear ==
    ASSUME NEW v \in Namespaces, NEW w, Sound(v, None), IsTree(v), NEW x, NEW c,
           Clear(v, c), c.dst_dir # x, x \in Dirs => ntfs_dir_is_empty(v, x),
           \A d \in Dirs \ {Root, x} :
               v.link[d] > 0 => w.link[d] > 0 /\ w.parent[d] = v.parent[d]
    PROVE  Clear(w, c)
<1>1. PICK P : ClearBy(v, c, P)
  BY Zenon DEF Clear
<1> DEFINE Q == P \ {x}
<1>2. ASSUME NEW d \in Q \ {c.dir, Root}
      PROVE  w.link[d] > 0 /\ w.parent[d] \in Q \cup {c.at}
  <2>1. d \in Dirs \ {Root, x} /\ v.link[d] > 0 /\ v.parent[d] \in P \cup {c.at}
    BY <1>1, Zenon DEF ClearBy
  <2>2. v.parent[d] # x
    BY <2>1, TreeParent, Zenon
  <2> QED
    BY <2>1, <2>2, Zenon
<1>3. ClearBy(w, c, Q)
  BY <1>1, <1>2, Zenon DEF ClearBy
<1> QED
  BY <1>3, Zenon DEF Clear

-----------------------------------------------------------------------------
(***************************************************************************)
(* What changing one name does to each part of the namespace.              *)
(***************************************************************************)
Unlinked(v, w, dir, name, i, extra) ==
    /\ w.ents = [v.ents EXCEPT ![dir][name] = None]
    /\ w.fns = [v.fns EXCEPT ![i] = IF v.link[i] > 1 THEN v.fns[i] \ {<<dir, name>>}
                                    ELSE v.fns[i]]
    /\ w.mlink = [v.mlink EXCEPT ![i] = IF v.link[i] > 1 THEN v.link[i] - 1 - extra
                                        ELSE v.mlink[i]]
    /\ w.inuse = IF v.link[i] > 1 THEN v.inuse ELSE v.inuse \ {i}
    /\ w.link = [v.link EXCEPT ![i] = v.link[i] - 1]
    /\ w.parent = v.parent

\* ntfs_unlink_internal() takes the name away, or changes nothing.
LEMMA UnlinkEffect ==
    ASSUME NEW v \in Namespaces, NEW dir \in Dirs, NEW name \in Names,
           NEW i \in Inodes, NEW is_rename \in BOOLEAN,
           NEW extra, extra = (IF is_rename THEN 1 ELSE 0),
           NEW o \in ntfs_unlink_internal(v, dir, name, i, is_rename),
           ~o.ns.errors, ~o.ns.panic
    PROVE  \/ o.err = "fail" /\ o.ns = v
           \/ o.err = "ok" /\ Unlinked(v, o.ns, dir, name, i, extra)
<1> DEFINE gone == [v EXCEPT !.ents[dir][name] = None]
           done == [gone EXCEPT
                       !.fns[i] = IF v.link[i] > 1 THEN @ \ {<<dir, name>>} ELSE @,
                       !.mlink[i] = IF v.link[i] > 1 THEN v.link[i] - 1 - extra ELSE @,
                       !.inuse = IF v.link[i] > 1 THEN @ ELSE @ \ {i},
                       !.link[i] = @ - 1]
<1>1. gone \in Namespaces
  BY Zenon DEF Namespaces
<1>2. Unlinked(v, done, dir, name, i, extra)
  <2>1. done.fns = [v.fns EXCEPT ![i] = IF v.link[i] > 1 THEN v.fns[i] \ {<<dir, name>>} ELSE v.fns[i]]
    BY Zenon DEF Namespaces
  <2>2. done.mlink = [v.mlink EXCEPT ![i] = IF v.link[i] > 1 THEN v.link[i] - 1 - extra ELSE v.mlink[i]]
    BY Zenon DEF Namespaces
  <2>3. done.inuse = IF v.link[i] > 1 THEN v.inuse ELSE v.inuse \ {i}
    BY Zenon DEF Namespaces
  <2>4. done.link = [v.link EXCEPT ![i] = v.link[i] - 1]
    BY Zenon DEF Namespaces
  <2>5. done.ents = [v.ents EXCEPT ![dir][name] = None] /\ done.parent = v.parent
    BY Zenon DEF Namespaces
  <2> HIDE DEF done
  <2> QED
    BY <2>1, <2>2, <2>3, <2>4, <2>5, Zenon DEF Unlinked
<1>3. [v EXCEPT !.panic = TRUE].panic
  BY Zenon DEF Namespaces
<1>4. Corrupt(v).errors /\ Corrupt(gone).errors
  BY <1>1, CorruptParts, Zenon
<1>5. \/ o = Outcome([v EXCEPT !.panic = TRUE], "fail")
      \/ o = Outcome(Corrupt(v), "fail") \/ o = Outcome(done, "ok")
      \/ o = Outcome(v, "fail") \/ o = Outcome(Corrupt(gone), "fail")
  BY ZenonT(60) DEF ntfs_unlink_internal
<1> HIDE DEF done, gone
<1>6. CASE o = Outcome([v EXCEPT !.panic = TRUE], "fail")
  <2>1. o.ns = [v EXCEPT !.panic = TRUE]
    BY <1>6, OutcomeParts, Zenon
  <2>2. o.ns.panic = [v EXCEPT !.panic = TRUE].panic
    BY <2>1, Zenon
  <2> QED
    BY <1>3, <2>2, Zenon
<1>7. CASE o = Outcome(Corrupt(v), "fail") \/ o = Outcome(Corrupt(gone), "fail")
  <2>1. o.ns = Corrupt(v) \/ o.ns = Corrupt(gone)
    BY <1>7, OutcomeParts
  <2> QED
    BY <1>4, <2>1, Zenon
<1>8. CASE o = Outcome(done, "ok")
  <2>1. o.ns = done /\ o.err = "ok"
    BY <1>8, OutcomeParts, Zenon
  <2> QED
    BY <1>2, <2>1, Zenon
<1>9. CASE o = Outcome(v, "fail")
  BY <1>9, OutcomeParts, Zenon
<1> QED
  BY <1>5, <1>6, <1>7, <1>8, <1>9, Zenon

Linked(v, w, i, dir, name, extra) ==
    /\ w.ents = [v.ents EXCEPT ![dir][name] = i]
    /\ w.fns = [v.fns EXCEPT ![i] = v.fns[i] \cup {<<dir, name>>}]
    /\ w.mlink = [v.mlink EXCEPT ![i] = v.link[i] + 1 - extra]
    /\ w.inuse = v.inuse
    /\ w.link = [v.link EXCEPT ![i] = v.link[i] + 1]
    /\ w.parent = IF extra = 1 /\ i \in Dirs THEN [v.parent EXCEPT ![i] = dir] ELSE v.parent

\* ntfs_link_internal() adds the name, or changes nothing.
LEMMA LinkEffect ==
    ASSUME NEW v \in Namespaces, NEW dir \in Dirs, NEW name \in Names,
           NEW i \in Inodes, NEW is_rename \in BOOLEAN,
           NEW extra, extra = (IF is_rename THEN 1 ELSE 0),
           NEW o \in ntfs_link_internal(v, i, dir, name, is_rename), ~o.ns.errors
    PROVE  \/ o.err = "fail" /\ o.ns = v
           \/ o.err = "ok" /\ Linked(v, o.ns, i, dir, name, extra)
<1> DEFINE added == [v EXCEPT !.ents[dir][name] = i]
           done == [added EXCEPT
                       !.fns[i] = @ \cup {<<dir, name>>},
                       !.link[i] = @ + 1,
                       !.mlink[i] = v.link[i] + 1 - extra,
                       !.parent = IF is_rename /\ i \in Dirs
                                  THEN [@ EXCEPT ![i] = dir] ELSE @]
<1>1. added \in Namespaces
  BY Zenon DEF Namespaces
<1>2. Linked(v, done, i, dir, name, extra)
  <2>1. done.fns = [v.fns EXCEPT ![i] = v.fns[i] \cup {<<dir, name>>}]
    BY Zenon DEF Namespaces
  <2>2. done.mlink = [v.mlink EXCEPT ![i] = v.link[i] + 1 - extra]
    BY Zenon DEF Namespaces
  <2>3. done.inuse = v.inuse
    BY Zenon DEF Namespaces
  <2>4. done.link = [v.link EXCEPT ![i] = v.link[i] + 1]
    BY Zenon DEF Namespaces
  <2>5. done.ents = [v.ents EXCEPT ![dir][name] = i]
    BY Zenon DEF Namespaces
  <2>6. done.parent = IF is_rename /\ i \in Dirs THEN [v.parent EXCEPT ![i] = dir] ELSE v.parent
    BY Zenon DEF Namespaces
  <2> HIDE DEF done
  <2> QED
    BY <2>1, <2>2, <2>3, <2>4, <2>5, <2>6 DEF Linked
<1>3. Corrupt(added).errors
  BY <1>1, CorruptParts, Zenon
<1>4. \/ o = Outcome(done, "ok") \/ o = Outcome(v, "fail")
      \/ o = Outcome(Corrupt(added), "fail")
  BY Zenon DEF ntfs_link_internal
<1> HIDE DEF done, added
<1> QED
  BY <1>2, <1>3, <1>4, OutcomeParts

\* UnlinkEffect and LinkEffect for the two calls of a rename.
LEMMA RenameUnlinkEffect ==
    ASSUME NEW v \in Namespaces, NEW dir \in Dirs, NEW name \in Names,
           NEW i \in Inodes, NEW o \in UnlinkOld(v, dir, name, i),
           ~o.ns.errors, ~o.ns.panic
    PROVE  \/ o.err = "fail" /\ o.ns = v
           \/ o.err = "ok" /\ Unlinked(v, o.ns, dir, name, i, 1)
<1>1. o \in ntfs_unlink_internal(v, dir, name, i, TRUE)
  BY Zenon DEF UnlinkOld
<1> QED
  BY <1>1, UnlinkEffect, Zenon

\* The same when ntfs_vnop_rename() calls it.
LEMMA RenameLinkEffect ==
    ASSUME NEW v \in Namespaces, NEW dir \in Dirs, NEW name \in Names,
           NEW i \in Inodes, NEW o \in LinkNew(v, i, dir, name), ~o.ns.errors
    PROVE  \/ o.err = "fail" /\ o.ns = v
           \/ o.err = "ok" /\ Linked(v, o.ns, i, dir, name, 1)
<1>1. o \in ntfs_link_internal(v, i, dir, name, TRUE)
  BY Zenon DEF LinkNew
<1> QED
  BY <1>1, LinkEffect, Zenon

\* From v to z the name of i is replaced; the count was raised in between.
Relinked(v, z, i, dir, name, d, n) ==
    \E u \in Namespaces : /\ Unlinked(Elevate(v, i, 1), u, dir, name, i, 1)
                          /\ Linked(u, z, i, d, n, 1)

\* How MoveName() ends without setting the errors flag.
LEMMA MoveCases ==
    ASSUME Counting, NEW v \in Namespaces, Sound(v, None),
           NEW dir \in Dirs, NEW name \in Names, NEW i \in Inodes,
           NEW dst_dir \in Dirs, NEW dst_name \in Names, v.ents[dir][name] = i,
           NEW o \in MoveName(Elevate(v, i, 1), i, dir, name, dst_dir, dst_name),
           ~Marked(Elevate(o.ns, i, -1))
    PROVE  /\ o.ns \in Namespaces
           /\ \/ o.err = "fail" /\ o.ns = Elevate(v, i, 1)
              \/ o.err = "ok" /\ Relinked(v, o.ns, i, dir, name, dst_dir, dst_name)
              \/ o.err = "fail" /\ Relinked(v, o.ns, i, dir, name, dir, name)
<1> DEFINE e == Elevate(v, i, 1)
<1>0. ~Marked(o.ns)
  BY MarkedStays, Zenon
<1>1. e \in Namespaces /\ Sound(e, i) /\ e.ents = v.ents /\ i # Root
  <2>1. e \in Namespaces /\ Sound(e, i) /\ e.ents = v.ents
    BY RaiseSound, Zenon
  <2> QED
    BY <2>1, EntryLive, Zenon
<1> HIDE DEF e
<1>3. PICK u \in UnlinkOld(e, dir, name, i) :
         o \in IF u.err # "ok" THEN {u}
               ELSE UNION {IF l.err = "ok" THEN {l}
                           ELSE {IF r.err = "ok" THEN Outcome(r.ns, "fail")
                                 ELSE Outcome(Corrupt(r.ns), "EIO") :
                                 r \in LinkNew(l.ns, i, dir, name)} :
                           l \in LinkNew(u.ns, i, dst_dir, dst_name)}
  <2> DEFINE Rest(u) == IF u.err # "ok" THEN {u}
                        ELSE UNION {IF l.err = "ok" THEN {l}
                                    ELSE {IF r.err = "ok" THEN Outcome(r.ns, "fail")
                                          ELSE Outcome(Corrupt(r.ns), "EIO") :
                                          r \in LinkNew(l.ns, i, dir, name)} :
                                    l \in LinkNew(u.ns, i, dst_dir, dst_name)}
  <2>1. o \in UNION {Rest(u) : u \in UnlinkOld(e, dir, name, i)}
    BY Zenon DEF MoveName, e, UnlinkOld, LinkNew
  <2> HIDE DEF Rest
  <2>2. \E u \in UnlinkOld(e, dir, name, i) : o \in Rest(u)
    BY <2>1, Zenon
  <2> QED
    BY <2>2, Zenon DEF Rest
<1>4. /\ u.ns \in Namespaces /\ (u.ns.errors \/ Sound(u.ns, i))
      /\ u.err = "ok" => u.ns.link[i] > 0
  BY <1>1, RenameUnlinkSound
<1>5. CASE u.err # "ok"
  <2>1. o = u
    BY <1>3, <1>5, Zenon
  <2>2. ~u.ns.errors
    BY <1>0, <1>4, <2>1, TypedMarked, Zenon
  <2>3. ~u.ns.panic
    BY <1>4, <2>2, Zenon DEF Sound
  <2> QED
    BY <1>1, <1>4, <1>5, <2>1, <2>2, <2>3, RenameUnlinkEffect, ZenonT(60) DEF e
<1>6. CASE u.err = "ok"
  <2>1. PICK l \in LinkNew(u.ns, i, dst_dir, dst_name) :
           o \in IF l.err = "ok" THEN {l}
                 ELSE {IF r.err = "ok" THEN Outcome(r.ns, "fail")
                       ELSE Outcome(Corrupt(r.ns), "EIO") :
                       r \in LinkNew(l.ns, i, dir, name)}
    BY <1>3, <1>6, Zenon
  <2>2. ASSUME l.err # "ok"
        PROVE  \E r \in LinkNew(l.ns, i, dir, name) :
                  \/ r.err = "ok" /\ o.ns = r.ns /\ o.err = "fail"
                  \/ r.err # "ok" /\ o.ns = Corrupt(r.ns)
    BY <2>1, <2>2, OutcomeParts
  <2>3. ~Marked(l.ns)
    <3>1. CASE l.err = "ok"
      BY <1>0, <2>1, <3>1, Zenon
    <3>2. CASE l.err # "ok"
      <4>1. PICK r \in LinkNew(l.ns, i, dir, name) : o.ns = r.ns \/ o.ns = Corrupt(r.ns)
        BY <2>2, <3>2, Zenon
      <4>2. Marked(l.ns) => Marked(r.ns) /\ Marked(Corrupt(r.ns))
        BY MarkedLinkNew, MarkedStays, Zenon
      <4> QED
        BY <1>0, <4>1, <4>2, Zenon
    <3> QED
      BY <3>1, <3>2, Zenon
  <2>4. ~u.ns.errors /\ ~u.ns.panic
    <3>1. ~u.ns.errors
      BY <1>4, <2>3, MarkedLinkNew, TypedMarked, Zenon
    <3> QED
      BY <1>4, <3>1, Zenon DEF Sound
  <2>5. Unlinked(e, u.ns, dir, name, i, 1)
    BY <1>1, <1>6, <2>4, RenameUnlinkEffect, Zenon
  <2>6. l.ns \in Namespaces /\ ~l.ns.errors
    BY <1>1, <1>4, <1>6, <2>3, <2>4, RenameLinkSound, TypedMarked
  <2>7. \/ l.err = "fail" /\ l.ns = u.ns
        \/ l.err = "ok" /\ Linked(u.ns, l.ns, i, dst_dir, dst_name, 1)
    BY <1>4, <2>6, RenameLinkEffect, Zenon
  <2>8. CASE l.err = "ok"
    <3>1. o = l
      BY <2>1, <2>8, Zenon
    <3> QED
      BY <1>4, <2>5, <2>6, <2>7, <2>8, <3>1, Zenon DEF Relinked, e
  <2>9. CASE l.err # "ok"
    <3>1. PICK r \in LinkNew(l.ns, i, dir, name) :
             \/ r.err = "ok" /\ o.ns = r.ns /\ o.err = "fail"
             \/ r.err # "ok" /\ o.ns = Corrupt(r.ns)
      BY <2>2, <2>9, Zenon
    <3>2. l.ns = u.ns
      BY <2>7, <2>9, Zenon
    <3>3. r.ns \in Namespaces
      BY <1>1, <1>4, <1>6, <2>4, <3>2, RenameLinkSound, Zenon
    <3>4. r.err = "ok" /\ o.ns = r.ns /\ o.err = "fail"
      BY <1>0, <3>1, <3>3, CorruptParts, TypedMarked, Zenon
    <3>5. ~r.ns.errors
      BY <1>0, <3>3, <3>4, TypedMarked, Zenon
    <3>6. Linked(u.ns, r.ns, i, dir, name, 1)
      BY <1>4, <3>2, <3>4, <3>5, RenameLinkEffect, Zenon
    <3> QED
      BY <1>4, <2>5, <3>3, <3>4, <3>6, Zenon DEF Relinked, e
  <2> QED
    BY <2>8, <2>9, Zenon
<1> QED
  BY <1>5, <1>6, Zenon

\* Elevate() is about the link count of i and nothing else.
LEMMA ElevateParent ==
    ASSUME NEW v \in Namespaces, NEW i \in Inodes, NEW by \in Int
    PROVE  Elevate(v, i, by).parent = v.parent
BY Zenon DEF Elevate, Namespaces

\* Lowering a link count changes nothing else.
LEMMA LowerParts ==
    ASSUME NEW z \in Namespaces, NEW i \in Inodes, NEW w, w = Elevate(z, i, -1)
    PROVE  /\ w \in Namespaces
           /\ w.ents = z.ents /\ w.fns = z.fns /\ w.mlink = z.mlink /\ w.inuse = z.inuse
           /\ w.link = [z.link EXCEPT ![i] = z.link[i] - 1] /\ w.parent = z.parent
<1>1. PICK by \in Int : by = -1
  OBVIOUS
<1>2. w = Elevate(z, i, by)
  BY <1>1, Zenon
<1>3. /\ w \in Namespaces
      /\ w.ents = z.ents /\ w.fns = z.fns /\ w.mlink = z.mlink /\ w.inuse = z.inuse
      /\ w.link = [z.link EXCEPT ![i] = z.link[i] + by] /\ w.parent = z.parent
  BY <1>2, ElevateParts, ElevateParent
<1>4. z.link[i] + by = z.link[i] - 1
  BY <1>1, Zenon DEF Namespaces
<1> QED
  BY <1>3, <1>4, Zenon

Renamed(v, w, i, dir, name, d, n) ==
    /\ w.ents = [[v.ents EXCEPT ![dir][name] = None] EXCEPT ![d][n] = i]
    /\ w.fns = [v.fns EXCEPT ![i] = (v.fns[i] \ {<<dir, name>>}) \cup {<<d, n>>}]
    /\ w.mlink = [v.mlink EXCEPT ![i] = v.link[i]]
    /\ w.inuse = v.inuse /\ w.link = v.link
    /\ w.parent = IF i \in Dirs THEN [v.parent EXCEPT ![i] = d] ELSE v.parent

\* Between them, the two calls of a rename move the name.
LEMMA RelinkedParts ==
    ASSUME NEW v \in Namespaces, NEW z \in Namespaces, NEW i \in Inodes, v.link[i] > 0,
           NEW dir \in Dirs, NEW name \in Names, NEW d \in Dirs, NEW n \in Names,
           Relinked(v, z, i, dir, name, d, n), NEW w, w = Elevate(z, i, -1)
    PROVE  /\ w \in Namespaces
           /\ Renamed(v, w, i, dir, name, d, n)
<1> DEFINE e == Elevate(v, i, 1)
<1>1. /\ e \in Namespaces
      /\ e.ents = v.ents /\ e.fns = v.fns /\ e.mlink = v.mlink /\ e.inuse = v.inuse
      /\ e.link = [v.link EXCEPT ![i] = v.link[i] + 1] /\ e.parent = v.parent
  BY ElevateParts, ElevateParent
<1>2. /\ w \in Namespaces
      /\ w.ents = z.ents /\ w.fns = z.fns /\ w.mlink = z.mlink /\ w.inuse = z.inuse
      /\ w.link = [z.link EXCEPT ![i] = z.link[i] - 1] /\ w.parent = z.parent
  BY LowerParts, SMTT(60)
<1>3. PICK u \in Namespaces : Unlinked(e, u, dir, name, i, 1) /\ Linked(u, z, i, d, n, 1)
  BY Zenon DEF Relinked
<1> HIDE DEF e
<1>4. v.link \in [Inodes -> Int] /\ v.fns \in [Inodes -> SUBSET (Dirs \X Names)]
      /\ v.mlink \in [Inodes -> Int]
  BY Zenon DEF Namespaces
<1>5. e.link[i] = v.link[i] + 1 /\ e.link[i] > 1
  BY <1>1, <1>4
<1>6. /\ u.ents = [v.ents EXCEPT ![dir][name] = None]
      /\ u.fns = [v.fns EXCEPT ![i] = v.fns[i] \ {<<dir, name>>}]
      /\ u.mlink = [v.mlink EXCEPT ![i] = v.link[i] - 1]
      /\ u.inuse = v.inuse /\ u.parent = v.parent
  BY <1>1, <1>3, <1>4, <1>5 DEF Unlinked
<1>7. u.link = v.link
  BY <1>1, <1>3, <1>4, <1>5 DEF Unlinked
<1>8. z.fns = [v.fns EXCEPT ![i] = (v.fns[i] \ {<<dir, name>>}) \cup {<<d, n>>}]
  BY <1>3, <1>4, <1>6, ZenonT(60) DEF Linked
<1>9. z.mlink = [v.mlink EXCEPT ![i] = v.link[i]]
  BY <1>3, <1>4, <1>6, <1>7 DEF Linked
<1>10. z.link = [v.link EXCEPT ![i] = v.link[i] + 1]
  BY <1>3, <1>7, Zenon DEF Linked
<1>11. w.link = v.link
  BY <1>2, <1>4, <1>10
<1>12. z.ents = [[v.ents EXCEPT ![dir][name] = None] EXCEPT ![d][n] = i]
  BY <1>3, <1>6, Zenon DEF Linked
<1>13. z.inuse = v.inuse
  BY <1>3, <1>6, Zenon DEF Linked
<1>14. z.parent = IF i \in Dirs THEN [v.parent EXCEPT ![i] = d] ELSE v.parent
  BY <1>3, <1>6, Zenon DEF Linked
<1> QED
  BY <1>2, <1>8, <1>9, <1>11, <1>12, <1>13, <1>14, Zenon DEF Renamed

\* Two namespaces that agree in every part are the same.
LEMMA SameParts ==
    ASSUME NEW v \in Namespaces, NEW w \in Namespaces,
           w.ents = v.ents, w.fns = v.fns, w.link = v.link, w.mlink = v.mlink,
           w.inuse = v.inuse, w.parent = v.parent,
           ~v.errors, ~w.errors, ~v.panic, ~w.panic
    PROVE  w = v
<1>1. v.errors = w.errors /\ v.panic = w.panic
  BY Zenon DEF Namespaces
<1>2. /\ v = [ents |-> v.ents, fns |-> v.fns, link |-> v.link, mlink |-> v.mlink,
              inuse |-> v.inuse, parent |-> v.parent, errors |-> v.errors, panic |-> v.panic]
  BY Zenon DEF Namespaces
<1>3. /\ w = [ents |-> w.ents, fns |-> w.fns, link |-> w.link, mlink |-> w.mlink,
              inuse |-> w.inuse, parent |-> w.parent, errors |-> w.errors, panic |-> w.panic]
  BY Zenon DEF Namespaces
<1> QED
  BY <1>1, <1>2, <1>3, Zenon

\* What moving a name does to the directories.
LEMMA MoveEffect ==
    ASSUME Counting, NEW v \in Namespaces, Sound(v, None),
           NEW dir \in Dirs, NEW name \in Names, NEW i \in Inodes,
           NEW dst_dir \in Dirs, NEW dst_name \in Names, v.ents[dir][name] = i,
           i \in Dirs => v.fns[i] = {<<dir, name>>} /\ v.parent[i] = dir,
           NEW o \in MoveName(Elevate(v, i, 1), i, dir, name, dst_dir, dst_name),
           NEW w, w = Elevate(o.ns, i, -1), ~Marked(w)
    PROVE  /\ DirsSame(v, w, i) /\ w.link = v.link
           /\ i \in Dirs =>
                \/ w.fns[i] = {<<dir, name>>} /\ w.parent[i] = dir
                \/ w.fns[i] = {<<dst_dir, dst_name>>} /\ w.parent[i] = dst_dir
           /\ o.err # "ok" => o.err = "fail" /\ w = v
<1>0. /\ v.link[i] > 0 /\ <<dir, name>> \in v.fns[i] /\ i \in Inodes \ {Root}
      /\ Dirs \subseteq Inodes
  BY EntryLive, Zenon DEF Inodes
<1>1. /\ o.ns \in Namespaces
      /\ \/ o.err = "fail" /\ o.ns = Elevate(v, i, 1)
         \/ o.err = "ok" /\ Relinked(v, o.ns, i, dir, name, dst_dir, dst_name)
         \/ o.err = "fail" /\ Relinked(v, o.ns, i, dir, name, dir, name)
  BY MoveCases
<1>2. /\ v.link \in [Inodes -> Int] /\ v.fns \in [Inodes -> SUBSET (Dirs \X Names)]
      /\ v.mlink \in [Inodes -> Int] /\ v.parent \in [Dirs -> Dirs]
      /\ v.ents \in [Dirs -> [Names -> Inodes \cup {None}]]
  BY Zenon DEF Namespaces
<1>3. ~v.errors
  BY MarkedMove, TypedMarked, Zenon
<1>4. ASSUME w \in Namespaces, w.ents = v.ents, w.fns = v.fns, w.link = v.link,
             w.mlink = v.mlink, w.inuse = v.inuse, w.parent = v.parent
      PROVE  w = v
  <2>1. ~w.errors
    BY <1>4, TypedMarked, Zenon
  <2>2. ~v.panic /\ ~w.panic
    <3>1. Sound(w, None)
      BY MoveSound, ZenonT(60)
    <3> QED
      BY <3>1, Zenon DEF Sound
  <2> QED
    BY <1>3, <1>4, <2>1, <2>2, SameParts, Zenon
<1>5. CASE o.err = "fail" /\ o.ns = Elevate(v, i, 1)
  <2> DEFINE e == Elevate(v, i, 1)
  <2>1. /\ e \in Namespaces
        /\ e.ents = v.ents /\ e.fns = v.fns /\ e.mlink = v.mlink /\ e.inuse = v.inuse
        /\ e.link = [v.link EXCEPT ![i] = v.link[i] + 1] /\ e.parent = v.parent
    BY ElevateParts, ElevateParent
  <2>2. /\ w \in Namespaces
        /\ w.ents = e.ents /\ w.fns = e.fns /\ w.mlink = e.mlink /\ w.inuse = e.inuse
        /\ w.link = [e.link EXCEPT ![i] = e.link[i] - 1] /\ w.parent = e.parent
    BY <1>5, <2>1, LowerParts
  <2> HIDE DEF e
  <2>3. w.link = v.link
    BY <1>2, <2>1, <2>2
  <2>4. w = v
    BY <1>4, <2>1, <2>2, <2>3, Zenon
  <2> QED
    BY <1>5, <2>4, Zenon DEF DirsSame
<1>6. CASE o.err = "ok" /\ Relinked(v, o.ns, i, dir, name, dst_dir, dst_name)
  <2>1. /\ w.link = v.link
        /\ w.fns = [v.fns EXCEPT ![i] = (v.fns[i] \ {<<dir, name>>}) \cup {<<dst_dir, dst_name>>}]
        /\ w.parent = IF i \in Dirs THEN [v.parent EXCEPT ![i] = dst_dir] ELSE v.parent
    <3>1. PICK z : z = o.ns
      BY Zenon
    <3>2. z \in Namespaces /\ Relinked(v, z, i, dir, name, dst_dir, dst_name) /\ w = Elevate(z, i, -1)
      BY <1>1, <1>6, <3>1, Zenon
    <3>3. w \in Namespaces /\ Renamed(v, w, i, dir, name, dst_dir, dst_name)
      BY <1>0, <3>2, RelinkedParts, Zenon
    <3> QED
      BY <3>3, Zenon DEF Renamed
  <2>2. DirsSame(v, w, i)
    BY <1>0, <1>2, <2>1 DEF DirsSame
  <2>3. i \in Dirs => w.fns[i] = {<<dst_dir, dst_name>>} /\ w.parent[i] = dst_dir
    BY <1>0, <1>2, <2>1
  <2> QED
    BY <1>6, <2>1, <2>2, <2>3, Zenon
<1>7. CASE o.err = "fail" /\ Relinked(v, o.ns, i, dir, name, dir, name)
  <2>1. /\ w \in Namespaces
        /\ w.ents = [[v.ents EXCEPT ![dir][name] = None] EXCEPT ![dir][name] = i]
        /\ w.fns = [v.fns EXCEPT ![i] = (v.fns[i] \ {<<dir, name>>}) \cup {<<dir, name>>}]
        /\ w.mlink = [v.mlink EXCEPT ![i] = v.link[i]]
        /\ w.inuse = v.inuse /\ w.link = v.link
        /\ w.parent = IF i \in Dirs THEN [v.parent EXCEPT ![i] = dir] ELSE v.parent
    <3>1. PICK z : z = o.ns
      BY Zenon
    <3>2. z \in Namespaces /\ Relinked(v, z, i, dir, name, dir, name) /\ w = Elevate(z, i, -1)
      BY <1>1, <1>7, <3>1, Zenon
    <3>3. w \in Namespaces /\ Renamed(v, w, i, dir, name, dir, name)
      BY <1>0, <3>2, RelinkedParts, Zenon
    <3> QED
      BY <3>3, Zenon DEF Renamed
  <2>2. w.fns = v.fns
    <3>1. (v.fns[i] \ {<<dir, name>>}) \cup {<<dir, name>>} = v.fns[i]
      BY <1>0, Zenon
    <3>2. w.fns = [v.fns EXCEPT ![i] = v.fns[i]]
      BY <2>1, <3>1, Zenon
    <3> QED
      BY <1>2, <3>2, Zenon
  <2>3. w.mlink = v.mlink
    <3>1. v.link[i] = v.mlink[i]
      BY <1>0, NamespaceAssumption DEF Sound, AgreeBut
    <3> QED
      BY <1>2, <2>1, <3>1
  <2>4. w.parent = v.parent
    BY <1>2, <2>1
  <2>5. w.ents = v.ents
    BY <1>2, <2>1, SMTT(60)
  <2>6. w = v
    BY <1>4, <2>1, <2>2, <2>3, <2>4, <2>5, Zenon
  <2> QED
    BY <1>7, <2>6, Zenon DEF DirsSame
<1> QED
  BY <1>1, <1>5, <1>6, <1>7, Zenon

\* A new directory is empty, and its parent is where its name is.
LEMMA CreateEffect ==
    ASSUME NEW v \in Namespaces, NEW dir \in Dirs, NEW name \in Names, NEW i \in Inodes,
           NEW w, w = Create(v, dir, name, i)
    PROVE  /\ DirsSame(v, w, i)
           /\ i \in Dirs => w.fns[i] = {<<dir, name>>} /\ w.link[i] = 1 /\ w.parent[i] = dir
<1>1. /\ w.fns = [v.fns EXCEPT ![i] = {<<dir, name>>}]
      /\ w.link = [v.link EXCEPT ![i] = 1]
  BY Zenon DEF Create, Namespaces
<1>2. w.parent = IF i \in Dirs THEN [v.parent EXCEPT ![i] = dir] ELSE v.parent
  BY Zenon DEF Create, Namespaces
<1>3. Dirs \subseteq Inodes /\ v.fns \in [Inodes -> SUBSET (Dirs \X Names)]
      /\ v.link \in [Inodes -> Int] /\ v.parent \in [Dirs -> Dirs]
  BY Zenon DEF Namespaces, Inodes
<1>4. DirsSame(v, w, i)
  BY <1>1, <1>2, <1>3, Zenon DEF DirsSame
<1> QED
  BY <1>1, <1>2, <1>3, <1>4, Zenon

\* ntfs_unlink_internal() on an empty directory deletes it; on a file it
\* changes no directory but the one that has the name.
LEMMA PlainUnlinkEffect ==
    ASSUME Counting, NEW v \in Namespaces, Sound(v, None), IsTree(v),
           NEW dir \in Dirs, NEW name \in Names,
           NEW i \in Inodes, v.ents[dir][name] = i,
           NEW o \in UnlinkName(v, dir, name, i), ~o.ns.errors
    PROVE  \/ o.err = "fail" /\ o.ns = v
           \/ /\ o.err = "ok" /\ DirsSame(v, o.ns, i)
              /\ \A d \in Dirs, n \in Names : o.ns.ents[d][n] \in {None, v.ents[d][n]}
              /\ i \in Dirs => ~(o.ns.link[i] > 0)
<1>1. o.ns \in Namespaces /\ Sound(o.ns, None)
  BY PlainUnlinkSound, Zenon
<1>2. ~o.ns.panic
  BY <1>1, Zenon DEF Sound
<1>3. o \in ntfs_unlink_internal(v, dir, name, i, FALSE)
  BY Zenon DEF UnlinkName
<1>4. \/ o.err = "fail" /\ o.ns = v
      \/ o.err = "ok" /\ Unlinked(v, o.ns, dir, name, i, 0)
  BY <1>2, <1>3, UnlinkEffect, Zenon
<1>5. ASSUME Unlinked(v, o.ns, dir, name, i, 0)
      PROVE  /\ DirsSame(v, o.ns, i)
             /\ \A d \in Dirs, n \in Names : o.ns.ents[d][n] \in {None, v.ents[d][n]}
             /\ i \in Dirs => ~(o.ns.link[i] > 0)
  <2>1. /\ Dirs \subseteq Inodes /\ v.fns \in [Inodes -> SUBSET (Dirs \X Names)]
        /\ v.link \in [Inodes -> Int] /\ v.parent \in [Dirs -> Dirs]
        /\ v.ents \in [Dirs -> [Names -> Inodes \cup {None}]]
    BY Zenon DEF Namespaces, Inodes
  <2>2. DirsSame(v, o.ns, i)
    BY <1>5, <2>1, Zenon DEF DirsSame, Unlinked
  <2>3. \A d \in Dirs, n \in Names : o.ns.ents[d][n] \in {None, v.ents[d][n]}
    BY <1>5, <2>1 DEF Unlinked
  <2>4. ASSUME i \in Dirs PROVE ~(o.ns.link[i] > 0)
    <3>1. i # Root /\ v.link[i] > 0
      BY EntryLive, Zenon
    <3>2. PICK n \in Names : v.fns[i] = {<<v.parent[i], n>>}
      BY <2>4, <3>1, Zenon DEF IsTree
    <3>3. Cardinality(v.fns[i]) = 1
      BY <3>2, OneName, Zenon
    <3>4. v.link[i] = 1
      BY <3>1, <3>3, NamespaceAssumption, ZenonT(60) DEF Sound, AgreeBut
    <3>5. o.ns.link[i] = 0
      BY <1>5, <2>1, <3>4 DEF Unlinked
    <3> QED
      BY <3>5
  <2> QED
    BY <2>2, <2>3, <2>4, Zenon
<1> QED
  BY <1>4, <1>5, Zenon

\* ntfs_link_internal() for a file.
LEMMA PlainLinkEffect ==
    ASSUME NEW v \in Namespaces, NEW dir \in Dirs, NEW name \in Names,
           NEW i \in Files, NEW o \in LinkName(v, i, dir, name), ~o.ns.errors
    PROVE  \/ o.err = "fail" /\ o.ns = v
           \/ o.err = "ok" /\ DirsSame(v, o.ns, i)
<1>0. i \in Inodes /\ i \notin Dirs
  BY NamespaceAssumption, Zenon DEF Inodes
<1>1. o \in ntfs_link_internal(v, i, dir, name, FALSE)
  BY Zenon DEF LinkName
<1>2. \/ o.err = "fail" /\ o.ns = v
      \/ o.err = "ok" /\ Linked(v, o.ns, i, dir, name, 0)
  BY <1>0, <1>1, LinkEffect, Zenon
<1>3. /\ Dirs \subseteq Inodes /\ v.fns \in [Inodes -> SUBSET (Dirs \X Names)]
      /\ v.link \in [Inodes -> Int] /\ v.parent \in [Dirs -> Dirs]
  BY Zenon DEF Namespaces, Inodes
<1>4. Linked(v, o.ns, i, dir, name, 0) => DirsSame(v, o.ns, i)
  BY <1>0, <1>3, Zenon DEF DirsSame, Linked
<1> QED
  BY <1>2, <1>4, Zenon

-----------------------------------------------------------------------------
(***************************************************************************)
(* Each step keeps the tree, and what the walks have seen.                 *)
(***************************************************************************)

\* A step of thread t that deletes at most an empty directory x, which nobody
\* has locked, and gives directories another parent only with the rename lock.
LEMMA OthersWalk ==
    ASSUME Good, Good', TInv, IsTree(ns'),
           NEW t \in Threads, NEW c, th' = [th EXCEPT ![t] = c],
           \A u \in Threads \ {t} : rename_lock = u => rename_lock' = u,
           NEW x, x \in Dirs => /\ ntfs_dir_is_empty(ns, x) /\ owner[x] = None
                                /\ ~(ns'.link[x] > 0),
           \A d \in Dirs \ {x} : ns.link[d] > 0 => ns'.link[d] > 0,
           \/ rename_lock = t
           \/ \A d \in Dirs \ {Root, x} : ns.link[d] > 0 => ns'.parent[d] = ns.parent[d],
           \A d \in Dirs : ns'.link[d] > 0 =>
               ns.link[d] > 0 \/ (th[t].op = "create" /\ d = th[t].ni),
           Walks(ns', rename_lock', t, c),
           c.op = "create" => \A u \in Threads \ {t} : th[u].dst_dir # c.ni,
           \A u \in Threads \ {t} : th[u].op = "create" => th[u].ni # c.dst_dir
    PROVE  TInv'
<1>1. th'[t] = c /\ \A u \in Threads \ {t} : th'[u] = th[u]
  BY Zenon DEF Good
<1>2. ASSUME NEW u \in Threads \ {t} PROVE Walks(ns', rename_lock', u, th[u])
  <2> DEFINE b == th[u]
  <2>0. /\ Walks(ns, rename_lock, u, b) /\ Place(ns, owner, u, b)
        /\ ns \in Namespaces /\ Sound(ns, None) /\ IsTree(ns) /\ u # None
        /\ th[t].op = "create" => th[t].ni # b.dst_dir
    BY NamespaceAssumption, Zenon DEF TInv, Good
  <2> HIDE DEF b
  <2>1. ASSUME b.pc = "source" PROVE ns'.link[b.dst_dir] > 0 /\ b.ni # b.dir
    <3>1. b.dst_dir \in Dirs /\ owner[b.dst_dir] = u /\ ns.link[b.dst_dir] > 0 /\ b.ni # b.dir
      BY <2>0, <2>1, Zenon DEF Place, Walks
    <3> QED
      BY <2>0, <3>1, Zenon
  <2>2. ASSUME Renaming(b)
        PROVE  /\ rename_lock' = u /\ (ns'.link[b.dst_dir] > 0 => Clear(ns', b))
               /\ b.pc # "walk" => b.at = None
    <3>1. /\ rename_lock = u /\ (ns.link[b.dst_dir] > 0 => Clear(ns, b))
          /\ b.pc # "walk" => b.at = None
      BY <2>0, <2>2, Zenon DEF Walks
    <3>2. b.dst_dir \in Dirs
      BY <2>0, <2>2, Zenon DEF Place, Renaming
    <3>3. ASSUME ns'.link[b.dst_dir] > 0 PROVE Clear(ns', b)
      <4>1. Clear(ns, b) /\ b.dst_dir # x
        BY <2>0, <3>1, <3>2, <3>3, Zenon
      <4>2. \A d \in Dirs \ {Root, x} :
              ns.link[d] > 0 => ns'.link[d] > 0 /\ ns'.parent[d] = ns.parent[d]
        BY <3>1, Zenon
      <4>3. PICK v, w : v = ns /\ w = ns'
        BY Zenon
      <4>4. /\ v \in Namespaces /\ Sound(v, None) /\ IsTree(v) /\ Clear(v, b) /\ b.dst_dir # x
            /\ x \in Dirs => ntfs_dir_is_empty(v, x)
            /\ \A d \in Dirs \ {Root, x} :
                 v.link[d] > 0 => w.link[d] > 0 /\ w.parent[d] = v.parent[d]
        BY <2>0, <4>1, <4>2, <4>3, Zenon
      <4>5. Clear(w, b)
        BY ONLY <4>4, KeepClear, Zenon
      <4> QED
        BY <4>3, <4>5, Zenon
    <3> QED
      BY <3>1, <3>3, Zenon
  <2>3. Walks(ns', rename_lock', u, b)
    BY <2>1, <2>2, Zenon DEF Walks
  <2> QED
    BY <2>3, Zenon DEF b
<1>3. \A u \in Threads : Walks(ns', rename_lock', u, th'[u])
  BY <1>1, <1>2, Zenon
<1>4. \A u, v \in Threads :
        u # v /\ th'[u].op = "create" => th'[u].ni # th'[v].dst_dir
  <2> SUFFICES ASSUME NEW u \in Threads, NEW v \in Threads, u # v, th'[u].op = "create"
               PROVE  th'[u].ni # th'[v].dst_dir
    OBVIOUS
  <2>1. CASE u = t
    BY <1>1, <2>1
  <2>2. CASE v = t
    BY <1>1, <2>2, Zenon
  <2>3. CASE u # t /\ v # t
    BY <1>1, <2>3 DEF TInv
  <2> QED
    BY <2>1, <2>2, <2>3, Zenon
<1> QED
  BY <1>3, <1>4, Zenon DEF TInv

\* A step that changes no name.
LEMMA StayTree ==
    ASSUME Good, Good', TInv, UNCHANGED ns,
           NEW t \in Threads, NEW c, th' = [th EXCEPT ![t] = c],
           \A u \in Threads \ {t} : rename_lock = u => rename_lock' = u,
           Walks(ns, rename_lock', t, c),
           c.op = "create" => \A u \in Threads \ {t} : th[u].dst_dir # c.ni,
           \A u \in Threads \ {t} : th[u].op = "create" => th[u].ni # c.dst_dir
    PROVE  TInv'
<1>1. None \notin Dirs /\ ns' = ns /\ IsTree(ns') /\ Walks(ns', rename_lock', t, c)
  BY NamespaceAssumption, Zenon DEF TInv, Inodes
<1>2. PICK x : x = None
  BY Zenon
<1>3. /\ x \notin Dirs
      /\ \A d \in Dirs \ {x} : ns.link[d] > 0 => ns'.link[d] > 0
      /\ \A d \in Dirs \ {Root, x} : ns.link[d] > 0 => ns'.parent[d] = ns.parent[d]
      /\ \A d \in Dirs : ns'.link[d] > 0 =>
           ns.link[d] > 0 \/ (th[t].op = "create" /\ d = th[t].ni)
  BY <1>1, <1>2, Zenon
<1> QED
  BY <1>1, <1>3, OthersWalk, Zenon

\* A call that returns.
LEMMA ReturnTree ==
    ASSUME Good, Good', TInv, IsTree(ns'),
           NEW t \in Threads, NEW e \in Errs, Return(t, e),
           NEW x, x \in Dirs => /\ ntfs_dir_is_empty(ns, x) /\ owner[x] = None
                                /\ ~(ns'.link[x] > 0),
           \A d \in Dirs \ {x} : ns.link[d] > 0 => ns'.link[d] > 0,
           \/ rename_lock = t
           \/ \A d \in Dirs \ {Root, x} : ns.link[d] > 0 => ns'.parent[d] = ns.parent[d],
           \A d \in Dirs : ns'.link[d] > 0 =>
               ns.link[d] > 0 \/ (th[t].op = "create" /\ d = th[t].ni)
    PROVE  TInv'
<1> DEFINE c == [Idle EXCEPT !.err = e]
<1>1. c.pc = "idle" /\ c.op = "none" /\ c.dst_dir = None
  BY Zenon DEF Idle
<1>2. th' = [th EXCEPT ![t] = c]
  BY Zenon DEF Return
<1>3. \A u \in Threads \ {t} : rename_lock = u => rename_lock' = u
  BY Zenon DEF Return
<1> HIDE DEF c
<1>4. Walks(ns', rename_lock', t, c)
  BY <1>1, Zenon DEF Walks, Renaming
<1>5. \A u \in Threads \ {t} : th[u].op = "create" => th[u].ni # c.dst_dir
  BY <1>1, NamespaceAssumption, Zenon DEF Good, Place
<1> QED
  BY <1>1, <1>2, <1>3, <1>4, <1>5, OthersWalk, Zenon

\* A call returns, having changed nothing.
LEMMA ReturnSame ==
    ASSUME Good, Good', TInv, NEW t \in Threads, NEW e \in Errs, Return(t, e), UNCHANGED ns
    PROVE  TInv'
<1>1. None \notin Dirs /\ ns' = ns /\ IsTree(ns')
  BY NamespaceAssumption, Zenon DEF TInv, Inodes
<1>2. PICK x : x = None
  BY Zenon
<1>3. /\ x \notin Dirs
      /\ \A d \in Dirs \ {x} : ns.link[d] > 0 => ns'.link[d] > 0
      /\ \A d \in Dirs \ {Root, x} : ns.link[d] > 0 => ns'.parent[d] = ns.parent[d]
      /\ \A d \in Dirs : ns'.link[d] > 0 =>
           ns.link[d] > 0 \/ (th[t].op = "create" /\ d = th[t].ni)
  BY <1>1, <1>2, Zenon
<1> QED
  BY <1>1, <1>3, ReturnTree, Zenon

\* A step to another place of the same call.
LEMMA GoesTree ==
    ASSUME Good, Good', TInv, UNCHANGED ns,
           NEW t \in Threads, NEW p, NEW c, Goes(t, p, c),
           \A u \in Threads \ {t} : rename_lock = u => rename_lock' = u,
           Walks(ns, rename_lock', t, c)
    PROVE  TInv'
<1>1. /\ c.op = "create" => \A u \in Threads \ {t} : th[u].dst_dir # c.ni
      /\ \A u \in Threads \ {t} : th[u].op = "create" => th[u].ni # c.dst_dir
  BY ZenonT(60) DEF TInv, Goes
<1> QED
  BY <1>1, StayTree, Zenon DEF Goes

\* The lookups, the locks and the walk leave the tree alone.
LEMMA LookupFirstTree ==
    ASSUME Good, Good', TInv, NEW t \in Threads, LookupFirst(t)
    PROVE  TInv'
<1>1. PICK dir \in Dirs, name \in Names, op \in {"unlink", "rename", "link", "create"},
           pc \in {"dir", "to"}, i \in Inodes :
        Begin(t, op, pc, dir, name, i) /\ (op = "create" => Reusable(i))
  <2>1. PICK dir \in Dirs, name \in Names :
          \/ \E i \in Inodes : \/ Begin(t, "unlink", "dir", dir, name, i)
                               \/ Begin(t, "rename", "to", dir, name, i)
          \/ \E i \in Files : Begin(t, "link", "dir", dir, name, i)
          \/ \E i \in Inodes : Reusable(i) /\ Begin(t, "create", "dir", dir, name, i)
    BY Zenon DEF LookupFirst
  <2>2. Files \subseteq Inodes
    BY Zenon DEF Inodes
  <2> QED
    BY <2>1, <2>2, Zenon
<1> DEFINE c == [Idle EXCEPT !.op = op, !.pc = pc, !.dir = dir, !.name = name, !.ni = i]
<1>2. th' = [th EXCEPT ![t] = c]
  BY <1>1, Zenon DEF Begin
<1>3. c.op = op /\ c.pc = pc /\ c.ni = i /\ c.dst_dir = None
  BY Zenon DEF Idle
<1>4. UNCHANGED ns /\ UNCHANGED rename_lock
  BY Zenon DEF LookupFirst, locks
<1> HIDE DEF c
<1>5. Walks(ns, rename_lock', t, c)
  BY <1>1, <1>3, Zenon DEF Walks, Renaming
<1>6. c.op = "create" => \A u \in Threads \ {t} : th[u].dst_dir # c.ni
  BY <1>1, <1>3, Zenon DEF Reusable
<1>7. \A u \in Threads \ {t} : th[u].op = "create" => th[u].ni # c.dst_dir
  BY <1>3, NamespaceAssumption, Zenon DEF Good, Place
<1> QED
  BY <1>2, <1>4, <1>5, <1>6, <1>7, StayTree, Zenon

\* The second lookup.
LEMMA LookupTargetTree ==
    ASSUME Good, Good', TInv, NEW t \in Threads, LookupTarget(t)
    PROVE  TInv'
<1>1. PICK dir \in Dirs, name \in Names, i \in Inodes \cup {None} :
        /\ Finds(dir, name, i)
        /\ th' = [th EXCEPT ![t].dst_dir = dir, ![t].dst_name = name, ![t].dst_ni = i,
                            ![t].pc = IF dir = th[t].dir THEN "dir" ELSE "rename"]
  BY Zenon DEF LookupTarget
<1> DEFINE p == IF dir = th[t].dir THEN "dir" ELSE "rename"
           c == [th[t] EXCEPT !.dst_dir = dir, !.dst_name = name, !.dst_ni = i, !.pc = p]
<1>2. th[t] \in Calls /\ th \in [Threads -> Calls] /\ Place(ns, owner, t, th[t]) /\ th[t].pc = "to"
  BY Zenon DEF Good, LookupTarget
<1>3. th' = [th EXCEPT ![t] = c]
  BY <1>1, <1>2, Zenon
<1>4. p \in {"dir", "rename"}
  OBVIOUS
<1> HIDE DEF p
<1>5. c.op = th[t].op /\ c.pc = p /\ c.dst_dir = dir
  BY <1>2, Zenon DEF Calls
<1>6. UNCHANGED ns /\ UNCHANGED rename_lock
  BY Zenon DEF LookupTarget, locks
<1> HIDE DEF c
<1>7. Walks(ns, rename_lock', t, c)
  BY <1>4, <1>5, Zenon DEF Walks, Renaming
<1>8. c.op # "create"
  BY <1>2, <1>5, Zenon DEF Place
<1>9. \A u \in Threads \ {t} : th[u].op = "create" => th[u].ni # c.dst_dir
  BY <1>1, <1>5, Zenon DEF Good, Place, Finds, Live
<1> QED
  BY <1>3, <1>6, <1>7, <1>8, <1>9, StayTree, ZenonT(60)

\* One directory is locked.
LEMMA LockDirTree ==
    ASSUME Good, Good', TInv, NEW t \in Threads, LockDir(t)
    PROVE  TInv'
<1> DEFINE p == IF th[t].op = "rename" THEN "target" ELSE "ni"
<1>1. /\ Place(ns, owner, t, th[t]) /\ th[t].pc = "dir"
      /\ Goto(t, p) /\ UNCHANGED ns /\ UNCHANGED rename_lock
  BY Zenon DEF Good, LockDir
<1>2. p \in Places /\ (p = "target" => th[t].op = "rename") /\ p \in {"target", "ni"}
  BY Zenon DEF Places
<1> HIDE DEF p
<1>3. PICK c \in Calls : Goes(t, p, c)
  BY <1>1, <1>2, GotoGoes, Zenon
<1>4. Walks(ns, rename_lock', t, c)
  BY <1>1, <1>2, <1>3, Zenon DEF Walks, Renaming, Goes, Place
<1> QED
  BY <1>1, <1>3, <1>4, GoesTree, Zenon

\* Clear() is about these fields.
LEMMA ClearSame ==
    ASSUME NEW v, NEW c, NEW b, Clear(v, c),
           b.dir = c.dir, b.ni = c.ni, b.dst_dir = c.dst_dir, b.at = c.at
    PROVE  Clear(v, b)
BY Zenon DEF Clear, ClearBy

\* A step of the walk that stays where it is.
LEMMA GotoAt ==
    ASSUME Good, NEW t \in Threads, NEW p, Goto(t, p), NEW c, Goes(t, p, c)
    PROVE  c.at = th[t].at
<1>1. th'[t] = c /\ th'[t].at = th[t].at
  BY DEF Good, Goto, Goes, Calls
<1> QED
  BY <1>1, Zenon

\* Both directories of a rename are locked.
LEMMA LockDirsTree ==
    ASSUME Good, Good', TInv, NEW t \in Threads, LockDirs(t)
    PROVE  TInv'
<1>1. UNCHANGED ns /\ UNCHANGED rename_lock
  BY Zenon DEF LockDirs
<1>2. PICK p \in {"src_dir", "target", "dst_dir last"} :
        Goto(t, p) /\ th[t].pc \in {"dst_dir", "src_dir", "src_dir first", "dst_dir last"}
  BY Zenon DEF LockDirs
<1>3. p \in Places
  BY Zenon DEF Places
<1>4. PICK c \in Calls : Goes(t, p, c)
  BY <1>2, <1>3, GotoGoes, Zenon
<1>5. c.at = th[t].at
  BY <1>2, <1>4, GotoAt, Zenon
<1>6. Walks(ns, rename_lock, t, th[t])
  BY Zenon DEF TInv
<1>7. Renaming(c) => Renaming(th[t])
  BY <1>2, <1>4, Zenon DEF Renaming, Goes
<1>8. Clear(ns, th[t]) => Clear(ns, c)
  BY <1>4, <1>5, ClearSame, Zenon DEF Goes
<1>9. Walks(ns, rename_lock, t, c)
  BY <1>2, <1>4, <1>5, <1>6, <1>7, <1>8, Zenon DEF Walks, Goes
<1>10. Walks(ns, rename_lock', t, c)
  BY <1>1, <1>9, Zenon
<1> QED
  BY <1>1, <1>4, <1>10, GoesTree, Zenon

\* The walk leaves directory i, which is clear of the source like the ones
\* before it.
LEMMA WalkOnTree ==
    ASSUME Good, Good', TInv, NEW t \in Threads, NEW i \in Dirs, WalkOn(t, i), UNCHANGED ns,
           rename_lock' = t, \A u \in Threads \ {t} : rename_lock # u,
           th[t].pc \in {"rename", "walk"},
           NEW P, ns.link[th[t].dst_dir] > 0 =>
             /\ P \in SUBSET Dirs /\ th[t].dst_dir \in P
             /\ th[t].ni \in P => th[t].ni \in {th[t].dir, Root}
             /\ \A d \in P \ {th[t].dir, Root} :
                  ns.link[d] > 0 /\ ns.parent[d] \in P \cup (IF i = Root THEN {} ELSE {ns.parent[i]})
    PROVE  TInv'
<1>1. ns.parent[i] \in Dirs
  BY Zenon DEF Good, Namespaces
<1>2. PICK p \in {"dst_dir", "walk"}, a \in Dirs \cup {None} :
        /\ th' = [th EXCEPT ![t].pc = p, ![t].at = a]
        /\ i = Root => p = "dst_dir" /\ a = None
        /\ i # Root => p = "walk" /\ a = ns.parent[i]
  BY <1>1, Zenon DEF WalkOn
<1>3. p \in Places
  BY Zenon DEF Places
<1>4. PICK c \in Calls : Goes(t, p, c) /\ c.at = a
  BY <1>2, <1>3, WalkGoes, Zenon
<1>5. ns.link[c.dst_dir] > 0 => ClearBy(ns, c, P)
  <2>1. c.dst_dir = th[t].dst_dir /\ c.ni = th[t].ni /\ c.dir = th[t].dir
    BY <1>4, Zenon DEF Goes
  <2>2. (IF i = Root THEN {} ELSE {ns.parent[i]}) \subseteq {c.at}
    BY <1>2, <1>4, Zenon
  <2> QED
    BY <2>1, <2>2, Zenon DEF ClearBy
<1>6. Walks(ns, rename_lock', t, c)
  BY <1>2, <1>4, <1>5, Zenon DEF Walks, Clear, Goes
<1> QED
  BY <1>4, <1>6, GoesTree, Zenon

\* The rename lock is taken: the walk begins at the target directory.
LEMMA TakeRenameLockTree ==
    ASSUME Good, Good', TInv, NEW t \in Threads, TakeRenameLock(t)
    PROVE  TInv'
<1>1. CASE Fail(t)
  BY <1>1, ReturnSame, Zenon DEF Fail, Errs
<1>2. CASE /\ th[t].dst_dir # th[t].ni /\ rename_lock' = t
           /\ WalkOn(t, th[t].dst_dir) /\ UNCHANGED <<ns, owner>>
  <2>1. th[t].pc = "rename" /\ th[t].dst_dir \in Dirs /\ rename_lock = None
    BY Zenon DEF TakeRenameLock, Good, Place
  <2>2. \A u \in Threads \ {t} : rename_lock # u
    BY <2>1, NamespaceAssumption, Zenon
  <2>3. PICK P : P = {th[t].dst_dir}
    BY Zenon
  <2>4. /\ P \in SUBSET Dirs /\ th[t].dst_dir \in P /\ th[t].ni \notin P
        /\ \A d \in P : d = th[t].dst_dir
    BY <1>2, <2>1, <2>3, Zenon
  <2> QED
    BY <1>2, <2>1, <2>2, <2>4, WalkOnTree
<1> QED
  BY <1>1, <1>2, Zenon DEF TakeRenameLock

\* The walk goes up one directory, and ends at the root or where the source is
\* met.
LEMMA WalkTree ==
    ASSUME Good, Good', TInv, NEW t \in Threads, Walk(t)
    PROVE  TInv'
<1> DEFINE c == th[t]
<1>1. /\ Place(ns, owner, t, c) /\ c.pc = "walk" /\ c.at \in Dirs
      /\ Walks(ns, rename_lock, t, c) /\ c.dst_dir \in Dirs
  BY Zenon DEF Walk, Good, Place, TInv
<1>2. CASE Fail(t)
  BY <1>2, ReturnSame DEF Fail, Errs
<1>3. rename_lock = t /\ t # None /\ (ns.link[c.dst_dir] > 0 => Clear(ns, c))
  BY <1>1, NamespaceAssumption, Zenon DEF Walks, Renaming
<1>4. PICK P : ns.link[c.dst_dir] > 0 => ClearBy(ns, c, P)
  BY <1>3, Zenon DEF Clear
<1>5. PICK Q : Q = P \cup {c.at}
  BY Zenon
<1>6. ASSUME UNCHANGED <<ns, locks>>, ns.link[c.at] > 0,
             c.at = c.ni => c.at \in {c.dir, Root},
             IF c.at = c.dir
             THEN th' = [th EXCEPT ![t].pc = "src_dir first", ![t].at = None]
             ELSE WalkOn(t, c.at)
      PROVE  TInv'
  <2>1. UNCHANGED ns /\ rename_lock' = t
    BY <1>3, <1>6, Zenon DEF locks
  <2>2. CASE c.at = c.dir
    <3>1. "src_dir first" \in Places
      BY DEF Places
    <3>2. PICK b \in Calls : Goes(t, "src_dir first", b) /\ b.at = None
      <4>1. th' = [th EXCEPT ![t].pc = "src_dir first", ![t].at = None]
        BY <1>6, <2>2, Zenon
      <4>2. None \in Dirs \cup {None}
        OBVIOUS
      <4> QED
        BY <3>1, <4>1, <4>2, WalkGoes, ZenonT(60)
    <3>3. b.dst_dir = c.dst_dir /\ b.ni = c.ni /\ b.dir = c.dir
      BY <3>2, Zenon DEF Goes
    <3> HIDE DEF c
    <3>4. ns.link[b.dst_dir] > 0 => ClearBy(ns, b, Q)
      BY <1>1, <1>4, <1>5, <1>6, <2>2, <3>3, ZenonT(60) DEF ClearBy
    <3>5. Walks(ns, rename_lock', t, b)
      BY <2>1, <3>2, <3>4, Zenon DEF Walks, Clear, Goes
    <3> QED
      BY <1>3, <2>1, <3>2, <3>5, GoesTree, ZenonT(60)
  <2>3. CASE c.at # c.dir
    <3>1. ns.link[c.dst_dir] > 0 =>
             /\ Q \in SUBSET Dirs /\ c.dst_dir \in Q
             /\ c.ni \in Q => c.ni \in {c.dir, Root}
             /\ \A d \in Q \ {c.dir, Root} :
                  /\ ns.link[d] > 0
                  /\ ns.parent[d] \in Q \cup (IF c.at = Root THEN {} ELSE {ns.parent[c.at]})
      BY <1>1, <1>4, <1>5, <1>6, Zenon DEF ClearBy
    <3>2. PICK i \in Dirs : i = c.at
      BY <1>1, Zenon
    <3>3. WalkOn(t, i) /\ th[t].pc \in {"rename", "walk"} /\ \A u \in Threads \ {t} : rename_lock # u
      BY <1>1, <1>3, <1>6, <2>3, <3>2, Zenon
    <3>4. ns.link[th[t].dst_dir] > 0 =>
             /\ Q \in SUBSET Dirs /\ th[t].dst_dir \in Q
             /\ th[t].ni \in Q => th[t].ni \in {th[t].dir, Root}
             /\ \A d \in Q \ {th[t].dir, Root} :
                  /\ ns.link[d] > 0
                  /\ ns.parent[d] \in Q \cup (IF i = Root THEN {} ELSE {ns.parent[i]})
      BY <3>1, <3>2, Zenon
    <3> QED
      BY <2>1, <3>3, <3>4, WalkOnTree, Zenon
  <2> QED
    BY <2>2, <2>3, Zenon
<1> QED
  BY <1>2, <1>6, Zenon DEF Walk, Live

\* A new directory hangs below an old one.
LEMMA CreateStepTree ==
    ASSUME Counting,
           Good, Good', TInv, NEW t \in Threads, ntfs_create(t), ~Marked(ns')
    PROVE  TInv'
<1> DEFINE c == th[t]
<1>1. CASE Fail(t)
  BY <1>1, ReturnSame, Zenon DEF Fail, Errs
<1>2. CASE /\ ns.link[c.dir] > 0 /\ ns.ents[c.dir][c.name] = None
           /\ ns' = Create(ns, c.dir, c.name, c.ni) /\ Return(t, "ok")
  <2>1. /\ Place(ns, owner, t, c) /\ c.op = "create" /\ c.pc = "dir"
        /\ ns \in Namespaces /\ Sound(ns, None) /\ IsTree(ns) /\ ns' \in Namespaces
    BY Zenon DEF Good, ntfs_create, TInv
  <2>2. /\ c.dir \in Dirs /\ c.name \in Names /\ c.ni \in Inodes /\ ~(ns.link[c.ni] > 0)
    BY <2>1, Zenon DEF Place
  <2> HIDE DEF c
  <2>3. /\ DirsSame(ns, ns', c.ni)
        /\ c.ni \in Dirs => /\ ns'.fns[c.ni] = {<<c.dir, c.name>>}
                            /\ ns'.link[c.ni] = 1 /\ ns'.parent[c.ni] = c.dir
    BY <1>2, <2>1, <2>2, CreateEffect, SMTT(60)
  <2>4. \A d \in Dirs \ {c.dir} : ns'.ents[d] = ns.ents[d]
    BY <1>2, <2>1, <2>2, CreateSound
  <2>5. IsTree(ns')
    <3>1. PICK v, w : v = ns /\ w = ns'
      BY Zenon
    <3>2. PICK dir, name, i : dir = c.dir /\ name = c.name /\ i = c.ni
      BY Zenon
    <3>3. /\ v \in Namespaces /\ w \in Namespaces /\ Sound(v, None) /\ IsTree(v)
          /\ dir \in Dirs /\ name \in Names /\ i \in Inodes
          /\ v.link[dir] > 0 /\ ~(v.link[i] > 0) /\ DirsSame(v, w, i)
          /\ \A d \in Dirs \ {dir} : w.ents[d] = v.ents[d]
          /\ i \in Dirs => w.fns[i] = {<<dir, name>>} /\ w.link[i] = 1 /\ w.parent[i] = dir
      BY <1>2, <2>1, <2>2, <2>3, <2>4, <3>1, <3>2, ZenonT(60)
    <3>4. IsTree(w)
      BY ONLY <3>3, CreateTree, Zenon
    <3> QED
      BY <3>1, <3>4, Zenon
  <2>6. PICK x : x = None
    BY Zenon
  <2>7. /\ x \notin Dirs /\ Dirs \subseteq Inodes
        /\ \A d \in Dirs \ {x} : ns.link[d] > 0 => ns'.link[d] > 0
        /\ \A d \in Dirs \ {Root, x} : ns.link[d] > 0 => ns'.parent[d] = ns.parent[d]
        /\ \A d \in Dirs : ns'.link[d] > 0 =>
             ns.link[d] > 0 \/ (c.op = "create" /\ d = c.ni)
    BY <2>1, <2>2, <2>3, <2>6, NamespaceAssumption, ZenonT(60) DEF DirsSame,
       Inodes
  <2>8. "ok" \in Errs
    BY Zenon DEF Errs
  <2> QED
    BY <1>2, <2>5, <2>7, <2>8, ReturnTree, Zenon DEF c
<1>3. CASE ns' = Corrupt(ns)
  BY <1>3, CorruptParts, TypedMarked, Zenon DEF Good
<1> QED
  BY <1>1, <1>2, <1>3, Zenon DEF ntfs_create, Live

\* Only an empty directory is unlinked.
LEMMA UnlinkStepTree ==
    ASSUME Counting,
           Good, Good', TInv, NEW t \in Threads, ntfs_unlink(t), ~Marked(ns')
    PROVE  TInv'
<1> DEFINE c == th[t]
<1>1. CASE Fail(t)
  BY <1>1, ReturnSame DEF Fail, Errs
<1>2. CASE /\ ns.ents[c.dir][c.name] = c.ni /\ owner[c.ni] = None
           /\ c.ni \in Dirs => ntfs_dir_is_empty(ns, c.ni)
           /\ \E o \in UnlinkName(ns, c.dir, c.name, c.ni) : ns' = o.ns /\ Return(t, o.err)
  <2>1. /\ Place(ns, owner, t, c) /\ c.op = "unlink" /\ c.pc = "ni"
        /\ ns \in Namespaces /\ Sound(ns, None) /\ IsTree(ns) /\ ns' \in Namespaces
    BY Zenon DEF Good, ntfs_unlink, TInv
  <2>2. c.dir \in Dirs /\ c.name \in Names /\ c.ni \in Inodes
    BY <2>1, Zenon DEF Place
  <2> HIDE DEF c
  <2>3. PICK o \in UnlinkName(ns, c.dir, c.name, c.ni) : ns' = o.ns /\ Return(t, o.err)
    BY <1>2, Zenon
  <2>4. ~ns'.errors /\ o.err \in {"ok", "fail"}
    BY <1>2, <2>1, <2>2, <2>3, TypedMarked, PlainUnlinkSound, ZenonT(60)
  <2>5. \/ ns' = ns
        \/ /\ DirsSame(ns, ns', c.ni)
           /\ \A d \in Dirs, n \in Names : ns'.ents[d][n] \in {None, ns.ents[d][n]}
           /\ c.ni \in Dirs => ~(ns'.link[c.ni] > 0)
    BY <1>2, <2>1, <2>2, <2>3, <2>4, PlainUnlinkEffect, ZenonT(60)
  <2>6. o.err \in Errs
    BY <2>4, Zenon DEF Errs
  <2>7. CASE ns' = ns
    BY <2>3, <2>6, <2>7, ReturnSame, ZenonT(60)
  <2>8. CASE ns' # ns
    <3>1. IsTree(ns')
      BY <1>2, <2>1, <2>2, <2>5, <2>8, UnlinkTree, ZenonT(60)
    <3>2. PICK x : x = c.ni
      BY Zenon
    <3>3. /\ x \in Dirs => /\ ntfs_dir_is_empty(ns, x) /\ owner[x] = None /\ ~(ns'.link[x] > 0)
          /\ \A d \in Dirs \ {x} : ns.link[d] > 0 => ns'.link[d] > 0
          /\ \A d \in Dirs \ {Root, x} : ns.link[d] > 0 => ns'.parent[d] = ns.parent[d]
          /\ \A d \in Dirs : ns'.link[d] > 0 => ns.link[d] > 0
      BY <1>2, <2>5, <2>8, <3>2, Zenon DEF DirsSame
    <3> QED
      BY <2>3, <2>6, <3>1, <3>3, ReturnTree, SMTT(60)
  <2> QED
    BY <2>7, <2>8, Zenon
<1> QED
  BY <1>1, <1>2, Zenon DEF ntfs_unlink, UnlinkName, Unlocked

\* A directory is never linked a second time.
LEMMA LinkStepTree ==
    ASSUME Counting,
           Good, Good', TInv, NEW t \in Threads, ntfs_vnop_link(t), ~Marked(ns')
    PROVE  TInv'
<1> DEFINE c == th[t]
<1>1. CASE Fail(t)
  BY <1>1, ReturnSame DEF Fail, Errs
<1>2. CASE /\ ns.link[c.dir] > 0 /\ ns.link[c.ni] > 0
           /\ \E o \in LinkName(ns, c.ni, c.dir, c.name) : ns' = o.ns /\ Return(t, o.err)
  <2>1. /\ Place(ns, owner, t, c) /\ c.op = "link" /\ c.pc = "ni"
        /\ ns \in Namespaces /\ Sound(ns, None) /\ IsTree(ns) /\ ns' \in Namespaces
    BY Zenon DEF Good, ntfs_vnop_link, TInv
  <2>2. /\ c.dir \in Dirs /\ c.name \in Names /\ c.ni \in Files
        /\ c.ni \in Inodes \ {Root} /\ c.ni \notin Dirs
    BY <2>1, NamespaceAssumption, Zenon DEF Place
  <2> HIDE DEF c
  <2>3. PICK o \in LinkName(ns, c.ni, c.dir, c.name) : ns' = o.ns /\ Return(t, o.err)
    BY <1>2, Zenon
  <2>4. /\ ~ns'.errors /\ o.err \in {"ok", "fail"}
        /\ \A d \in Dirs \ {c.dir} : ns'.ents[d] = ns.ents[d]
    BY <1>2, <2>1, <2>2, <2>3, TypedMarked, PlainLinkSound, SMTT(60)
  <2>5. ns' = ns \/ DirsSame(ns, ns', c.ni)
    BY <2>1, <2>2, <2>3, <2>4, PlainLinkEffect, ZenonT(60)
  <2>6. o.err \in Errs
    BY <2>4, Zenon DEF Errs
  <2>7. CASE ns' = ns
    BY <2>3, <2>6, <2>7, ReturnSame, Zenon
  <2>8. CASE DirsSame(ns, ns', c.ni)
    <3>1. IsTree(ns')
      <4>1. PICK v, w : v = ns /\ w = ns'
        BY Zenon
      <4>2. PICK dir, name, i : dir = c.dir /\ name = c.name /\ i = c.ni
        BY Zenon
      <4>3. /\ v \in Namespaces /\ w \in Namespaces /\ Sound(v, None) /\ IsTree(v)
            /\ dir \in Dirs /\ name \in Names /\ i \in Inodes /\ i \notin Dirs
            /\ v.link[dir] > 0 /\ DirsSame(v, w, i)
            /\ \A d \in Dirs \ {dir} : w.ents[d] = v.ents[d]
        BY <1>2, <2>1, <2>2, <2>4, <2>8, <4>1, <4>2, ZenonT(60)
      <4>4. \A d \in Dirs \ {dir, dir} : w.ents[d] = v.ents[d]
        BY <4>3, Zenon
      <4>5. IsTree(w)
        BY ONLY <4>3, <4>4, MoveTree, Zenon
      <4> QED
        BY <4>1, <4>5, Zenon
    <3>2. PICK x : x = None
      BY Zenon
    <3>3. /\ x \notin Dirs
          /\ \A d \in Dirs \ {x} : ns.link[d] > 0 => ns'.link[d] > 0
          /\ \A d \in Dirs \ {Root, x} : ns.link[d] > 0 => ns'.parent[d] = ns.parent[d]
          /\ \A d \in Dirs : ns'.link[d] > 0 => ns.link[d] > 0
      BY <2>2, <2>8, <3>2, NamespaceAssumption, Zenon DEF DirsSame, Inodes
    <3> QED
      BY <2>3, <2>6, <3>1, <3>3, ReturnTree, ZenonT(60)
  <2> QED
    BY <2>5, <2>7, <2>8, Zenon
<1> QED
  BY <1>1, <1>2, Zenon DEF ntfs_vnop_link, LinkName, Live

\* The walk is where it was when the target has been unlinked.
LEMMA UnlinkedAt ==
    ASSUME Good, NEW t \in Threads, NEW c, Goes(t, "source", c),
           th' = [th EXCEPT ![t].pc = "source", ![t].have_unlinked = TRUE]
    PROVE  c.at = th[t].at
<1>1. th'[t] = c /\ th'[t].at = th[t].at
  BY DEF Good, Goes, Calls
<1> QED
  BY <1>1, Zenon

\* Unlinking the target of a rename.
LEMMA RenameTargetTree ==
    ASSUME Counting,
           Good, Good', TInv, NEW t \in Threads, RenameTarget(t), ~Marked(ns')
    PROVE  TInv'
<1> DEFINE c == th[t]
           loop == c.ni = c.dir \/ c.dst_ni \in {c.dir, c.dst_dir}
           dst == IF c.dst_ni # None /\ Live(c.dst_ni) THEN c.dst_ni ELSE None
           found == ns.ents[c.dst_dir][c.dst_name]
<1>1. /\ Place(ns, owner, t, c) /\ c.pc = "target" /\ Walks(ns, rename_lock, t, c)
      /\ ns \in Namespaces /\ Sound(ns, None) /\ IsTree(ns) /\ ns' \in Namespaces
  BY Zenon DEF Good, RenameTarget, TInv
<1>2. /\ c.dir \in Dirs /\ c.name \in Names /\ c.ni \in Inodes
      /\ c.dst_dir \in Dirs /\ c.dst_name \in Names
  BY <1>1, Zenon DEF Place
<1>3. \/ Fail(t)
      \/ /\ ~loop /\ ~Refused(c, dst) /\ (c.dst_ni # None => owner[c.dst_ni] = None)
         /\ \/ Goto(t, "source") /\ UNCHANGED <<ns, locks>>
            \/ Return(t, "ok") /\ UNCHANGED ns
            \/ /\ found \notin {None, c.ni}
               /\ \E o \in UnlinkName(ns, c.dst_dir, c.dst_name, dst) :
                     /\ ns' = o.ns
                     /\ IF o.err # "ok" THEN Return(t, "fail")
                        ELSE /\ th' = [th EXCEPT ![t].pc = "source", ![t].have_unlinked = TRUE]
                             /\ UNCHANGED locks
  BY Zenon DEF RenameTarget, UnlinkName, Unlocked
<1>4. ~Refused(c, dst) =>
        /\ ns.link[c.dst_dir] > 0 /\ (found # None => found = dst)
        /\ dst \notin {None, c.ni} /\ dst \in Dirs => ntfs_dir_is_empty(ns, dst)
  BY Zenon DEF Refused, Live
<1>5. ~loop => c.ni # c.dir /\ dst # c.dst_dir
  BY <1>2, NamespaceAssumption, Zenon DEF Inodes
<1>6. dst # None => dst = c.dst_ni
  OBVIOUS
<1> HIDE DEF c, dst, found, loop
<1>7. CASE Fail(t)
  BY <1>7, ReturnSame DEF Fail, Errs
<1>8. CASE Return(t, "ok") /\ UNCHANGED ns
  BY <1>8, ReturnSame, Zenon DEF Errs
<1>9. ASSUME NEW b, Goes(t, "source", b), b.at = c.at, NEW v, ns.link[c.dst_dir] > 0,
             v.link[c.dst_dir] > 0, Clear(ns, c) => Clear(v, c), c.ni # c.dir
      PROVE  Walks(v, rename_lock, t, b)
  <2>1. /\ b.pc = "source" /\ b.dir = c.dir /\ b.ni = c.ni /\ b.dst_dir = c.dst_dir
    BY <1>9, Zenon DEF Goes, c
  <2>2. ASSUME Renaming(b) PROVE rename_lock = t /\ Clear(v, b) /\ b.at = None
    <3>1. Renaming(c)
      BY <1>1, <2>1, <2>2, ZenonT(60) DEF Renaming
    <3>2. rename_lock = t /\ Clear(ns, c) /\ c.at = None
      BY <1>1, <1>9, <3>1, Zenon DEF Walks
    <3>3. Clear(v, b)
      BY <1>9, <2>1, <3>2, ClearSame, ZenonT(60)
    <3> QED
      BY <1>9, <3>2, <3>3, ZenonT(60)
  <2> QED
    BY <1>9, <2>1, <2>2, ZenonT(60) DEF Walks
<1>10. CASE ~loop /\ ~Refused(c, dst) /\ Goto(t, "source") /\ UNCHANGED <<ns, locks>>
  <2>1. PICK b \in Calls : Goes(t, "source", b)
    BY <1>10, GotoGoes, Zenon DEF Places
  <2>2. UNCHANGED ns /\ rename_lock' = rename_lock
    BY <1>10, Zenon DEF locks
  <2>3. b.at = c.at
    BY <1>10, <2>1, GotoAt, Zenon DEF c
  <2>4. Walks(ns, rename_lock, t, b)
    BY <1>4, <1>5, <1>9, <1>10, <2>1, <2>3, ZenonT(60)
  <2>5. Walks(ns, rename_lock', t, b)
    BY <2>2, <2>4, Zenon
  <2> QED
    BY <2>1, <2>2, <2>5, GoesTree, ZenonT(60)
<1>11. ASSUME ~loop, ~Refused(c, dst), found \notin {None, c.ni},
              c.dst_ni # None => owner[c.dst_ni] = None,
              NEW o \in UnlinkName(ns, c.dst_dir, c.dst_name, dst), ns' = o.ns,
              IF o.err # "ok" THEN Return(t, "fail")
              ELSE /\ th' = [th EXCEPT ![t].pc = "source", ![t].have_unlinked = TRUE]
                   /\ UNCHANGED locks
       PROVE  TInv'
  <2>1. /\ ns.ents[c.dst_dir][c.dst_name] = dst /\ dst \in Inodes /\ owner[dst] = None
        /\ dst \in Dirs => ntfs_dir_is_empty(ns, dst)
    <3>1. found = dst /\ found # None /\ dst # c.ni
      BY <1>4, <1>11, ZenonT(60)
    <3>2. found \in Inodes \cup {None}
      BY <1>1, <1>2 DEF Namespaces, found
    <3> QED
      BY <1>4, <1>6, <1>11, <3>1, <3>2, ZenonT(60) DEF found
  <2>2. ~ns'.errors
    BY <1>1, TypedMarked, ZenonT(60)
  <2>3. \/ o.err = "fail" /\ ns' = ns
        \/ /\ o.err = "ok" /\ DirsSame(ns, ns', dst)
           /\ \A d \in Dirs, n \in Names : ns'.ents[d][n] \in {None, ns.ents[d][n]}
           /\ dst \in Dirs => ~(ns'.link[dst] > 0)
    <3>1. ~o.ns.errors
      BY <1>11, <2>2, Zenon
    <3> QED
      BY <1>1, <1>2, <1>11, <2>1, <3>1, PlainUnlinkEffect, SMTT(60)
  <2>4. CASE o.err = "fail" /\ ns' = ns
    BY <1>11, <2>4, ReturnSame, ZenonT(60) DEF Errs
  <2>5. CASE /\ o.err = "ok" /\ DirsSame(ns, ns', dst)
             /\ \A d \in Dirs, n \in Names : ns'.ents[d][n] \in {None, ns.ents[d][n]}
             /\ dst \in Dirs => ~(ns'.link[dst] > 0)
    <3>1. PICK b \in Calls : Goes(t, "source", b)
      BY <1>11, <2>5, UnlinkedGoes, ZenonT(60)
    <3>2. b.at = c.at
      BY <1>11, <2>5, <3>1, UnlinkedAt, ZenonT(60) DEF c
    <3>3. rename_lock' = rename_lock
      BY <1>11, <2>5, Zenon DEF locks
    <3>4. PICK v, w : v = ns /\ w = ns'
      BY Zenon
    <3>5. IsTree(w)
      <4>1. /\ v \in Namespaces /\ w \in Namespaces /\ IsTree(v) /\ dst \in Inodes
            /\ DirsSame(v, w, dst)
            /\ \A d \in Dirs, n \in Names : w.ents[d][n] \in {None, v.ents[d][n]}
            /\ dst \in Dirs => ntfs_dir_is_empty(v, dst) /\ ~(w.link[dst] > 0)
        BY <1>1, <2>1, <2>5, <3>4, ZenonT(60)
      <4> QED
        BY ONLY <4>1, UnlinkTree, Zenon
    <3>6. /\ \A d \in Dirs \ {dst} : ns.link[d] > 0 => ns'.link[d] > 0
          /\ \A d \in Dirs \ {Root, dst} : ns.link[d] > 0 => ns'.parent[d] = ns.parent[d]
          /\ \A d \in Dirs : ns'.link[d] > 0 => ns.link[d] > 0
      BY <2>5, ZenonT(60) DEF DirsSame
    <3>7. ns.link[c.dst_dir] > 0 /\ dst # c.dst_dir /\ w.link[c.dst_dir] > 0 /\ c.ni # c.dir
      BY <1>2, <1>4, <1>5, <1>11, <3>4, <3>6, SMTT(60)
    <3>8. Clear(ns, c) => Clear(w, c)
      <4>1. /\ v \in Namespaces /\ Sound(v, None) /\ IsTree(v) /\ c.dst_dir # dst
            /\ dst \in Dirs => ntfs_dir_is_empty(v, dst)
            /\ \A d \in Dirs \ {Root, dst} :
                 v.link[d] > 0 => w.link[d] > 0 /\ w.parent[d] = v.parent[d]
        BY <1>1, <2>1, <3>4, <3>6, <3>7, SMTT(60)
      <4>2. Clear(v, c) => Clear(w, c)
        BY ONLY <4>1, KeepClear, ZenonT(60)
      <4> QED
        BY <3>4, <4>2, ZenonT(60)
    <3>9. Walks(w, rename_lock, t, b)
      BY <1>9, <3>1, <3>2, <3>7, <3>8, SMTT(60)
    <3>10. Walks(ns', rename_lock', t, b) /\ IsTree(ns')
      BY <3>3, <3>4, <3>5, <3>9, ZenonT(60)
    <3>11. /\ b.op = "create" => \A u \in Threads \ {t} : th[u].dst_dir # b.ni
           /\ \A u \in Threads \ {t} : th[u].op = "create" => th[u].ni # b.dst_dir
      BY <3>1, ZenonT(60) DEF TInv, Goes
    <3> QED
      BY <2>1, <2>5, <3>1, <3>3, <3>6, <3>10, <3>11, OthersWalk, ZenonT(60) DEF
         Goes
  <2> QED
    BY <2>3, <2>4, <2>5, ZenonT(60)
<1> QED
  BY <1>3, <1>7, <1>8, <1>10, <1>11, ZenonT(60)

\* Moving the source: the walk has shown that the target directory is not
\* below it.
LEMMA RenameSourceTree ==
    ASSUME Counting,
           Good, Good', TInv, NEW t \in Threads, RenameSource(t), ~Marked(ns')
    PROVE  TInv'
<1> DEFINE c == th[t]
<1>1. /\ Place(ns, owner, t, c) /\ c.pc = "source" /\ Walks(ns, rename_lock, t, c)
      /\ ns \in Namespaces /\ Sound(ns, None) /\ IsTree(ns) /\ ns' \in Namespaces
  BY Zenon DEF Good, RenameSource, TInv
<1>2. PICK v, w, dir, name, i, dst_dir, dst_name :
        /\ v = ns /\ w = ns' /\ dir = c.dir /\ name = c.name /\ i = c.ni
        /\ dst_dir = c.dst_dir /\ dst_name = c.dst_name
  BY Zenon
<1>3. PICK o \in MoveName(Elevate(v, i, 1), i, dir, name, dst_dir, dst_name) :
        /\ w = Elevate(o.ns, i, -1)
        /\ Return(t, IF o.err # "ok" /\ c.have_unlinked THEN "EIO" ELSE o.err)
  BY <1>2, Zenon DEF RenameSource
<1>4. /\ v \in Namespaces /\ Sound(v, None) /\ IsTree(v) /\ w \in Namespaces /\ ~Marked(w)
      /\ dir \in Dirs /\ name \in Names /\ i \in Inodes
      /\ dst_dir \in Dirs /\ dst_name \in Names /\ v.ents[dir][name] = i
      /\ v.link[dst_dir] > 0 /\ i # dir
  BY <1>1, <1>2, Zenon DEF Place, Walks
<1>5. i # None /\ i # Root /\ v.link[i] > 0 /\ <<dir, name>> \in v.fns[i]
  BY ONLY <1>4, EntryLive, Zenon
<1>6. i \in Dirs => v.fns[i] = {<<dir, name>>} /\ v.parent[i] = dir
  BY ONLY <1>4, <1>5, TreeName
<1>7. v.link[dir] > 0
  <2>1. ~ntfs_dir_is_empty(v, dir)
    BY ONLY <1>4, <1>5, ZenonT(60) DEF ntfs_dir_is_empty
  <2> QED
    BY ONLY <1>4, <2>1, Zenon DEF IsTree, Sound
<1>8. /\ DirsSame(v, w, i) /\ w.link = v.link
      /\ i \in Dirs =>
           \/ w.fns[i] = {<<dir, name>>} /\ w.parent[i] = dir
           \/ w.fns[i] = {<<dst_dir, dst_name>>} /\ w.parent[i] = dst_dir
  BY ONLY <1>3, <1>4, <1>6, Counting, MoveEffect, SMTT(60)
<1>9. \A d \in Dirs \ {dir, dst_dir} : w.ents[d] = v.ents[d]
  BY ONLY <1>3, <1>4, Counting, MoveSound
<1>10. dir # dst_dir => rename_lock = t /\ Clear(v, c) /\ c.at = None
  BY <1>1, <1>2, <1>4, Zenon DEF Walks, Renaming
<1>11. PICK P : /\ P \in SUBSET Dirs /\ dst_dir \in P /\ i \notin P
                /\ \A d \in P \ {dir, Root} : v.link[d] > 0 /\ v.parent[d] \in P
  <2>1. CASE dir = dst_dir
    <3>1. /\ {dir} \in SUBSET Dirs /\ dst_dir \in {dir} /\ i \notin {dir}
          /\ \A d \in {dir} \ {dir, Root} : v.link[d] > 0 /\ v.parent[d] \in {dir}
      BY <1>4, <2>1, Zenon
    <3> QED
      BY <3>1, Zenon
  <2>2. CASE dir # dst_dir
    <3>1. PICK P : ClearBy(v, c, P)
      BY <1>10, <2>2, Zenon DEF Clear
    <3>2. v.parent \in [Dirs -> Dirs] /\ None \notin Dirs
      BY <1>4, NamespaceAssumption, Zenon DEF Namespaces, Inodes
    <3>3. /\ P \in SUBSET Dirs /\ dst_dir \in P /\ i \notin P
          /\ \A d \in P \ {dir, Root} : v.link[d] > 0 /\ v.parent[d] \in P
      <4>1. /\ P \in SUBSET Dirs /\ dst_dir \in P /\ (i \in P => i \in {dir, Root})
            /\ \A d \in P \ {dir, Root} :
                  v.link[d] > 0 /\ v.parent[d] \in P \cup {None}
        BY <1>2, <1>10, <2>2, <3>1, ZenonT(60) DEF ClearBy
      <4> QED
        BY ONLY <1>4, <1>5, <3>2, <4>1, Zenon
    <3> QED
      BY <3>3, Zenon
  <2> QED
    BY <2>1, <2>2, Zenon
<1>12. IsTree(w)
  BY ONLY <1>4, <1>5, <1>6, <1>7, <1>8, <1>9, <1>11, MoveTree, SMTT(60)
<1>13. PICK x : x = None
  BY Zenon
<1>14. /\ x \notin Dirs
       /\ \A d \in Dirs \ {x} : v.link[d] > 0 => w.link[d] > 0
       /\ \A d \in Dirs : w.link[d] > 0 => v.link[d] > 0
  BY <1>8, <1>13, NamespaceAssumption, Zenon DEF Inodes
<1>15. \/ rename_lock = t
       \/ \A d \in Dirs \ {Root, x} : v.link[d] > 0 => w.parent[d] = v.parent[d]
  <2>1. dir = dst_dir => \A d \in Dirs : w.parent[d] = v.parent[d]
    BY <1>6, <1>8, Zenon DEF DirsSame
  <2> QED
    BY <1>10, <2>1, Zenon
<1>16. o.err \in Errs
  BY <1>3, MoveErrs, Zenon DEF Errs
<1> DEFINE e == IF o.err # "ok" /\ c.have_unlinked THEN "EIO" ELSE o.err
<1>17. e \in Errs /\ Return(t, e)
  BY <1>3, <1>16, Zenon DEF Errs
<1> HIDE DEF e
<1> QED
  BY <1>2, <1>12, <1>14, <1>15, <1>17, ReturnTree, SMTT(60)

-----------------------------------------------------------------------------
(***************************************************************************)
(* The tree stays one.                                                     *)
(***************************************************************************)
TIInv == (Good /\ TInv) \/ Marked(ns)

\* At first the directories form a tree.
LEMMA InitTree == Init => TIInv
<1> SUFFICES ASSUME Init, ~Marked(ns) PROVE Good /\ TInv
  BY Zenon DEF TIInv
<1>1. Good /\ IsTree(ns)
  BY InitGood, TreesAssumption, Zenon DEF IInv, Init
<1>2. \A t \in Threads : th[t].op = "none" /\ th[t].pc = "idle"
  BY IdleCall, Zenon DEF Init
<1>3. \A t \in Threads : Walks(ns, rename_lock, t, th[t])
  BY <1>2, Zenon DEF Walks, Renaming
<1> QED
  BY <1>1, <1>2, <1>3, Zenon DEF TInv

\* Every step keeps it.
LEMMA StepTree ==
    ASSUME Counting
    PROVE  TIInv /\ [Next]_vars => TIInv'
<1> SUFFICES ASSUME TIInv, [Next]_vars, ~Marked(ns') PROVE Good' /\ TInv'
  BY Zenon DEF TIInv
<1>1. Good'
  BY StepKeeps, Zenon DEF IInv, TIInv
<1>2. CASE UNCHANGED vars
  <2>1. ~Marked(ns) /\ Good /\ TInv
    BY <1>2, Zenon DEF vars, TIInv
  <2>2. TInv'
    BY <1>2, <2>1 DEF vars, TInv
  <2> QED
    BY <1>1, <2>2, Zenon
<1>3. ASSUME NEW t \in Threads, Step(t) PROVE TInv'
  <2>0. Good /\ TInv
    BY <1>3, MarkedStep, Zenon DEF TIInv
  <2>1. CASE LookupFirst(t)
    BY <1>1, <2>0, <2>1, LookupFirstTree, Zenon
  <2>2. CASE LookupTarget(t)
    BY <1>1, <2>0, <2>2, LookupTargetTree
  <2>3. CASE ntfs_create(t)
    BY <1>1, <2>0, <2>3, CreateStepTree, ZenonT(60)
  <2>4. CASE LockDir(t)
    BY <1>1, <2>0, <2>4, LockDirTree
  <2>5. CASE ntfs_unlink(t)
    BY <1>1, <2>0, <2>5, UnlinkStepTree
  <2>6. CASE ntfs_vnop_link(t)
    BY <1>1, <2>0, <2>6, LinkStepTree, SMTT(60)
  <2>7. CASE TakeRenameLock(t)
    BY <1>1, <2>0, <2>7, TakeRenameLockTree
  <2>8. CASE Walk(t)
    BY <1>1, <2>0, <2>8, WalkTree
  <2>9. CASE LockDirs(t)
    BY <1>1, <2>0, <2>9, LockDirsTree
  <2>10. CASE RenameTarget(t)
    BY <1>1, <2>0, <2>10, RenameTargetTree
  <2>11. CASE RenameSource(t)
    BY <1>1, <2>0, <2>11, RenameSourceTree
  <2> QED
    BY <1>3, <2>1, <2>2, <2>3, <2>4, <2>5, <2>6, <2>7, <2>8, <2>9, <2>10,
       <2>11, ZenonT(60) DEF Step
<1> QED
  BY <1>1, <1>2, <1>3, Zenon DEF Next

-----------------------------------------------------------------------------
(***************************************************************************)
(* Calls that fail.                                                        *)
(***************************************************************************)

\* Only a rename that is about to move its source has unlinked its target.
HInv == \A t \in Threads : th[t].pc # "source" => th[t].have_unlinked = FALSE

\* The only call that sets have_unlinked goes on to move the source.
LEMMA HaveStep ==
    ASSUME Good, HInv, NEW t \in Threads, Step(t)
    PROVE  th'[t].pc # "source" => th'[t].have_unlinked = FALSE
<1>0. th \in [Threads -> Calls] /\ th[t] \in Calls
  BY Zenon DEF Good
<1>1. ASSUME NEW e, Return(t, e) PROVE th'[t].have_unlinked = FALSE
  BY <1>0, <1>1, Zenon DEF Return, Idle
<1>2. CASE LookupFirst(t)
  <2>1. \E dir, name, op, pc, i : Begin(t, op, pc, dir, name, i)
    BY <1>2, Zenon DEF LookupFirst
  <2> QED
    BY <1>0, <2>1, ZenonT(60) DEF Begin, Idle
<1>3. CASE LookupTarget(t)
  <2>1. th[t].pc # "source" /\ th'[t].have_unlinked = th[t].have_unlinked
    BY <1>0, <1>3 DEF LookupTarget, Calls
  <2> QED
    BY <2>1, Zenon DEF HInv
<1>4. ASSUME NEW p, Goto(t, p), th[t].pc # "source" PROVE th'[t].have_unlinked = FALSE
  <2>1. th'[t].have_unlinked = th[t].have_unlinked
    BY <1>0, <1>4, Zenon DEF Goto, Calls
  <2> QED
    BY <1>4, <2>1, Zenon DEF HInv
<1>5. ASSUME NEW p, NEW a, th' = [th EXCEPT ![t].pc = p, ![t].at = a], th[t].pc # "source"
      PROVE  th'[t].have_unlinked = FALSE
  <2>1. th'[t].have_unlinked = th[t].have_unlinked
    BY <1>0, <1>5, Zenon DEF Calls
  <2> QED
    BY <1>5, <2>1, Zenon DEF HInv
<1>6. CASE LockDir(t) \/ LockDirs(t)
  <2>1. th[t].pc # "source" /\ \E p : Goto(t, p)
    BY <1>6, Zenon DEF LockDir, LockDirs
  <2> QED
    BY <1>4, <2>1, Zenon
<1>7. CASE TakeRenameLock(t) \/ Walk(t)
  <2>1. th[t].pc # "source"
    BY <1>7, Zenon DEF TakeRenameLock, Walk
  <2>2. \/ Return(t, "fail")
        \/ \E p, a : th' = [th EXCEPT ![t].pc = p, ![t].at = a]
    BY <1>7, Zenon DEF TakeRenameLock, Walk, WalkOn, Fail
  <2> QED
    BY <1>1, <1>5, <2>1, <2>2, Zenon
<1>8. CASE ntfs_create(t) \/ ntfs_unlink(t) \/ ntfs_vnop_link(t) \/ RenameSource(t)
  <2>1. \E e : Return(t, e)
    BY <1>8, Zenon DEF ntfs_create, ntfs_unlink, ntfs_vnop_link, RenameSource,
       Fail
  <2> QED
    BY <1>1, <2>1, Zenon
<1>9. CASE RenameTarget(t)
  <2>1. \/ \E e : Return(t, e)
        \/ Goto(t, "source")
        \/ th' = [th EXCEPT ![t].pc = "source", ![t].have_unlinked = TRUE]
    BY <1>9, Zenon DEF RenameTarget, Fail
  <2>2. CASE Goto(t, "source")
    BY <1>0, <2>2, Zenon DEF Goto, Calls
  <2>3. CASE th' = [th EXCEPT ![t].pc = "source", ![t].have_unlinked = TRUE]
    BY <1>0, <2>3, Zenon DEF Calls
  <2> QED
    BY <1>1, <2>1, <2>2, <2>3, Zenon
<1> QED
  BY <1>2, <1>3, <1>6, <1>7, <1>8, <1>9, ZenonT(60) DEF Step

\* A step is about the call of one thread.
LEMMA OneThread ==
    ASSUME Good, NEW t \in Threads, Step(t), NEW u \in Threads \ {t}
    PROVE  th'[u] = th[u]
<1>0. th \in [Threads -> Calls]
  BY Zenon DEF Good
<1>1. ASSUME NEW e, Return(t, e) PROVE th'[u] = th[u]
  BY <1>0, <1>1, Zenon DEF Return
<1>2. CASE LookupFirst(t)
  <2>1. \E dir, name, op, pc, i : Begin(t, op, pc, dir, name, i)
    BY <1>2, Zenon DEF LookupFirst
  <2> QED
    BY <1>0, <2>1, Zenon DEF Begin
<1>3. CASE LookupTarget(t)
  BY <1>0, <1>3 DEF LookupTarget
<1>4. CASE LockDir(t) \/ LockDirs(t)
  BY <1>0, <1>4, Zenon DEF LockDir, LockDirs, Goto
<1>5. CASE TakeRenameLock(t) \/ Walk(t)
  BY <1>0, <1>1, <1>5, Zenon DEF TakeRenameLock, Walk, WalkOn, Fail
<1>6. CASE ntfs_create(t) \/ ntfs_unlink(t) \/ ntfs_vnop_link(t) \/ RenameSource(t)
  <2>1. \E e : Return(t, e)
    BY <1>6, Zenon DEF ntfs_create, ntfs_unlink, ntfs_vnop_link, RenameSource,
       Fail
  <2> QED
    BY <1>1, <2>1, Zenon
<1>7. CASE RenameTarget(t)
  <2>1. \/ \E e : Return(t, e)
        \/ Goto(t, "source")
        \/ th' = [th EXCEPT ![t].pc = "source", ![t].have_unlinked = TRUE]
    BY <1>7, Zenon DEF RenameTarget, Fail
  <2> QED
    BY <1>0, <1>1, <2>1, Zenon DEF Goto
<1> QED
  BY <1>2, <1>3, <1>4, <1>5, <1>6, <1>7, ZenonT(60) DEF Step

\* What FailedCallsUndone says of thread t.
Undone(t) ==
    th[t].pc # "idle" /\ th'[t].pc = "idle" /\ th'[t].err # "ok"
    => \/ ns'.errors
       \/ /\ ns' = ns
          /\ th[t].have_unlinked <=> th'[t].err = "EIO"

\* A call that returns without having changed a name or unlinked a target.
LEMMA FailUndone ==
    ASSUME Good, HInv, NEW t \in Threads, th[t].pc # "source", UNCHANGED ns,
           NEW e \in {"ok", "fail"}, Return(t, e)
    PROVE  Undone(t)
<1>1. th'[t].err = e
  BY Zenon DEF Return, Good, Idle
<1>2. th'[t].err # "EIO" /\ th[t].have_unlinked = FALSE
  BY <1>1, Zenon DEF HInv
<1>3. ~(th[t].have_unlinked) /\ ~(th'[t].err = "EIO")
  BY <1>2, Zenon
<1> QED
  BY <1>3, Zenon DEF Undone

\* The last step of a rename fails having changed nothing, or having unlinked
\* the target.
LEMMA RenameSourceUndone ==
    ASSUME Counting,
           Good, TInv, NEW t \in Threads, RenameSource(t), ~Marked(ns')
    PROVE  Undone(t)
<1> DEFINE c == th[t]
<1>1. /\ Place(ns, owner, t, c) /\ c.pc = "source"
      /\ ns \in Namespaces /\ Sound(ns, None) /\ IsTree(ns)
      /\ c.have_unlinked \in BOOLEAN
  BY Zenon DEF Good, RenameSource, TInv, Calls
<1>2. PICK v, w, dir, name, i, dst_dir, dst_name :
        /\ v = ns /\ w = ns' /\ dir = c.dir /\ name = c.name /\ i = c.ni
        /\ dst_dir = c.dst_dir /\ dst_name = c.dst_name
  BY Zenon
<1>3. PICK o \in MoveName(Elevate(v, i, 1), i, dir, name, dst_dir, dst_name) :
        /\ w = Elevate(o.ns, i, -1)
        /\ Return(t, IF o.err # "ok" /\ c.have_unlinked THEN "EIO" ELSE o.err)
  BY <1>2, Zenon DEF RenameSource
<1>4. /\ v \in Namespaces /\ Sound(v, None) /\ IsTree(v) /\ ~Marked(w)
      /\ dir \in Dirs /\ name \in Names /\ i \in Inodes
      /\ dst_dir \in Dirs /\ dst_name \in Names /\ v.ents[dir][name] = i
  BY <1>1, <1>2, Zenon DEF Place
<1>5. i # None /\ i # Root /\ v.link[i] > 0 /\ <<dir, name>> \in v.fns[i]
  BY ONLY <1>4, EntryLive, Zenon
<1>6. i \in Dirs => v.fns[i] = {<<dir, name>>} /\ v.parent[i] = dir
  BY ONLY <1>4, <1>5, TreeName, SMTT(60)
<1>7. o.err # "ok" => o.err = "fail" /\ w = v
  BY ONLY <1>3, <1>4, <1>6, Counting, MoveEffect, SMTT(60)
<1>8. th'[t].err = IF o.err # "ok" /\ c.have_unlinked THEN "EIO" ELSE o.err
  BY <1>3, Zenon DEF Return, Good, Idle
<1> HIDE DEF c
<1>9. CASE o.err = "ok"
  BY <1>8, <1>9, Zenon DEF Undone
<1>10. CASE o.err # "ok" /\ c.have_unlinked
  <2>1. th'[t].err = "EIO" /\ ns' = ns
    BY <1>2, <1>7, <1>8, <1>10
  <2> QED
    BY <1>10, <2>1, ZenonT(60) DEF Undone, c
<1>11. CASE o.err # "ok" /\ ~c.have_unlinked
  <2>1. th'[t].err = "fail" /\ ns' = ns
    BY <1>2, <1>7, <1>8, <1>11, ZenonT(60)
  <2>2. th'[t].err # "EIO"
    BY <2>1
  <2> QED
    BY <1>11, <2>1, <2>2, Zenon DEF Undone, c
<1> QED
  BY <1>9, <1>10, <1>11, Zenon

\* A call that fails has changed nothing, or is a rename that unlinked its
\* target.
LEMMA StepUndone ==
    ASSUME Counting, Good, TInv, HInv, NEW t \in Threads, Step(t), ~Marked(ns')
    PROVE  Undone(t)
<1> DEFINE c == th[t]
<1>0. /\ th \in [Threads -> Calls] /\ c \in Calls /\ Place(ns, owner, t, c)
      /\ ns \in Namespaces /\ Sound(ns, None) /\ IsTree(ns)
  BY Zenon DEF Good, TInv
<1>1. ASSUME Fail(t), c.pc # "source" PROVE Undone(t)
  BY <1>1, FailUndone, Zenon DEF Fail
<1>2. ASSUME Return(t, "ok") PROVE Undone(t)
  <2>1. th'[t].err = "ok"
    BY <1>0, <1>2, Zenon DEF Return, Idle
  <2> QED
    BY <2>1, Zenon DEF Undone
<1>3. ASSUME th'[t].pc # "idle" PROVE Undone(t)
  BY <1>3, Zenon DEF Undone
<1>4. CASE LookupFirst(t)
  <2>1. c.pc = "idle"
    BY <1>4, Zenon DEF LookupFirst
  <2> QED
    BY <2>1, Zenon DEF Undone
<1>5. CASE LookupTarget(t)
  BY <1>0, <1>3, <1>5 DEF LookupTarget, Calls
<1>6. CASE LockDir(t) \/ LockDirs(t)
  BY <1>0, <1>3, <1>6, ZenonT(60) DEF LockDir, LockDirs, Goto, Calls
<1>7. CASE TakeRenameLock(t) \/ Walk(t)
  <2>1. c.pc # "source"
    BY <1>7, Zenon DEF TakeRenameLock, Walk
  <2>2. \/ Fail(t)
        \/ \E p \in {"dst_dir", "walk", "src_dir first"} : \E a :
              th' = [th EXCEPT ![t].pc = p, ![t].at = a]
    BY <1>7, Zenon DEF TakeRenameLock, Walk, WalkOn
  <2> QED
    <3>1. ASSUME NEW p \in {"dst_dir", "walk", "src_dir first"}, NEW a,
                 th' = [th EXCEPT ![t].pc = p, ![t].at = a]
          PROVE  th'[t].pc = p /\ p # "idle"
      BY <1>0, <3>1, ZenonT(60) DEF Calls
    <3> QED
      BY <1>1, <1>3, <2>1, <2>2, <3>1, Zenon
<1>8. CASE ntfs_create(t)
  <2>1. Fail(t) \/ Return(t, "ok") \/ ns' = Corrupt(ns)
    BY <1>8, Zenon DEF ntfs_create
  <2>2. c.pc # "source"
    BY <1>8, Zenon DEF ntfs_create
  <2>3. Marked(Corrupt(ns))
    BY <1>0, CorruptParts, TypedMarked, Zenon
  <2> QED
    BY <1>1, <1>2, <2>1, <2>2, <2>3, ZenonT(60)
<1>9. CASE ntfs_unlink(t)
  <2>1. /\ c.pc = "ni" /\ c.dir \in Dirs /\ c.name \in Names /\ c.ni \in Inodes
    BY <1>0, <1>9, Zenon DEF ntfs_unlink, Place
  <2>2. \/ Fail(t)
        \/ /\ ns.ents[c.dir][c.name] = c.ni
           /\ \E o \in UnlinkName(ns, c.dir, c.name, c.ni) : ns' = o.ns /\ Return(t, o.err)
    BY <1>9, Zenon DEF ntfs_unlink, UnlinkName
  <2> HIDE DEF c
  <2>3. ASSUME ns.ents[c.dir][c.name] = c.ni,
               NEW o \in UnlinkName(ns, c.dir, c.name, c.ni), ns' = o.ns, Return(t, o.err)
        PROVE  Undone(t)
    <3>1. ~o.ns.errors
      BY <1>0, <2>1, <2>3, TypedMarked, PlainUnlinkSound, ZenonT(60)
    <3>2. (o.err = "fail" /\ o.ns = ns) \/ o.err = "ok"
      BY <1>0, <2>1, <2>3, <3>1, PlainUnlinkEffect, ZenonT(30)
    <3>3. CASE o.err = "ok"
      BY <1>2, <2>3, <3>3, Zenon
    <3>4. CASE o.err = "fail" /\ o.ns = ns
      BY <1>1, <2>1, <2>3, <3>4, Zenon DEF Fail
    <3> QED
      BY <3>2, <3>3, <3>4, Zenon
  <2> QED
    BY <1>1, <2>1, <2>2, <2>3, Zenon
<1>10. CASE ntfs_vnop_link(t)
  <2>1. /\ c.pc = "ni" /\ c.dir \in Dirs /\ c.name \in Names /\ c.ni \in Files
        /\ c.ni \in Inodes \ {Root}
    BY <1>0, <1>10, NamespaceAssumption, Zenon DEF ntfs_vnop_link, Place
  <2>2. \/ Fail(t)
        \/ /\ ns.link[c.ni] > 0
           /\ \E o \in LinkName(ns, c.ni, c.dir, c.name) : ns' = o.ns /\ Return(t, o.err)
    BY <1>10, Zenon DEF ntfs_vnop_link, LinkName, Live
  <2> HIDE DEF c
  <2>3. ASSUME ns.link[c.ni] > 0,
               NEW o \in LinkName(ns, c.ni, c.dir, c.name), ns' = o.ns, Return(t, o.err)
        PROVE  Undone(t)
    <3>1. ~o.ns.errors
      BY <1>0, <2>1, <2>3, TypedMarked, PlainLinkSound, ZenonT(60)
    <3>2. (o.err = "fail" /\ o.ns = ns) \/ o.err = "ok"
      BY <1>0, <2>1, <2>3, <3>1, PlainLinkEffect, ZenonT(60)
    <3>3. CASE o.err = "ok"
      BY <1>2, <2>3, <3>3, Zenon
    <3>4. CASE o.err = "fail" /\ o.ns = ns
      BY <1>1, <2>1, <2>3, <3>4, ZenonT(60) DEF Fail
    <3> QED
      BY <3>2, <3>3, <3>4
  <2> QED
    BY <1>1, <2>1, <2>2, <2>3
<1>11. CASE RenameTarget(t)
  <2> DEFINE dst == IF c.dst_ni # None /\ Live(c.dst_ni) THEN c.dst_ni ELSE None
             found == ns.ents[c.dst_dir][c.dst_name]
  <2>1. c.pc = "target" /\ c.dst_dir \in Dirs /\ c.dst_name \in Names
    BY <1>0, <1>11, Zenon DEF RenameTarget, Place
  <2>2. \/ Fail(t) \/ Goto(t, "source") \/ Return(t, "ok")
        \/ /\ ~Refused(c, dst) /\ found # None
           /\ \E o \in UnlinkName(ns, c.dst_dir, c.dst_name, dst) :
                 /\ ns' = o.ns
                 /\ IF o.err # "ok" THEN Return(t, "fail")
                    ELSE th' = [th EXCEPT ![t].pc = "source", ![t].have_unlinked = TRUE]
    BY <1>11, Zenon DEF RenameTarget, UnlinkName
  <2>3. ~Refused(c, dst) => (found # None => found = dst)
    BY Zenon DEF Refused
  <2>4. found \in Inodes \cup {None}
    BY <1>0, <2>1 DEF Namespaces
  <2> HIDE DEF dst, c
  <2>5. ASSUME found = dst, found # None,
               NEW o \in UnlinkName(ns, c.dst_dir, c.dst_name, dst), ns' = o.ns,
               IF o.err # "ok" THEN Return(t, "fail")
               ELSE th' = [th EXCEPT ![t].pc = "source", ![t].have_unlinked = TRUE]
        PROVE  Undone(t)
    <3>0. dst \in Inodes /\ ns.ents[c.dst_dir][c.dst_name] = dst
      BY <2>4, <2>5, Zenon
    <3>1. ~o.ns.errors
      BY <1>0, <2>1, <2>5, <3>0, TypedMarked, PlainUnlinkSound, ZenonT(60)
    <3>2. (o.err = "fail" /\ o.ns = ns) \/ o.err = "ok"
      BY <1>0, <2>1, <2>5, <3>0, <3>1, PlainUnlinkEffect, SMTT(60)
    <3>3. CASE o.err = "ok"
      <4>1. th'[t].pc # "idle"
        BY <1>0, <2>5, <3>3 DEF Calls, c
      <4> QED
        BY <1>3, <4>1, ZenonT(60)
    <3>4. CASE o.err = "fail" /\ o.ns = ns
      BY <1>1, <2>1, <2>5, <3>4, ZenonT(60) DEF Fail
    <3> QED
      BY <3>2, <3>3, <3>4, Zenon
  <2>6. CASE Goto(t, "source")
    BY <1>0, <1>3, <2>6, ZenonT(60) DEF Goto, Calls, c
  <2> QED
    BY <1>1, <1>2, <2>1, <2>2, <2>3, <2>5, <2>6, ZenonT(60)
<1>12. CASE RenameSource(t)
  BY <1>12, RenameSourceUndone, Zenon
<1> QED
  BY <1>4, <1>5, <1>6, <1>7, <1>8, <1>9, <1>10, <1>11, <1>12, ZenonT(60) DEF
     Step

FIInv == (Good /\ TInv /\ HInv) \/ Marked(ns)

\* At first no target is unlinked.
LEMMA InitFails == Init => FIInv
<1> SUFFICES ASSUME Init PROVE HInv
  BY InitTree, Zenon DEF FIInv, TIInv
<1> QED
  BY Zenon DEF Init, HInv, Idle

\* Only a rename on its way to its source has unlinked its target.
LEMMA StepFails ==
    ASSUME Counting
    PROVE  FIInv /\ [Next]_vars => FIInv'
<1> SUFFICES ASSUME FIInv, [Next]_vars, ~Marked(ns') PROVE HInv'
  BY StepTree, Zenon DEF FIInv, TIInv
<1>1. CASE UNCHANGED vars
  BY <1>1, Zenon DEF vars, FIInv, HInv
<1>2. ASSUME NEW t \in Threads, Step(t) PROVE HInv'
  <2>1. Good /\ HInv
    BY <1>2, MarkedStep, Zenon DEF FIInv
  <2>2. th'[t].pc # "source" => th'[t].have_unlinked = FALSE
    BY <1>2, <2>1, HaveStep, Zenon
  <2>3. \A u \in Threads \ {t} : th'[u] = th[u]
    BY <1>2, <2>1, OneThread, Zenon
  <2> QED
    BY <2>1, <2>2, <2>3, Zenon DEF HInv
<1> QED
  BY <1>1, <1>2, Zenon DEF Next

\* What a failed call leaves behind.
LEMMA FailsUndone ==
    ASSUME Counting
    PROVE  FIInv /\ [Next]_vars
             => [\A t \in Threads :
                   th[t].pc # "idle" /\ th'[t].pc = "idle" /\ th'[t].err # "ok"
                   => \/ ns'.errors
                      \/ /\ ns' = ns
                         /\ th[t].have_unlinked <=> th'[t].err = "EIO"]_vars
<1> SUFFICES ASSUME FIInv, NEW t \in Threads, Step(t), NEW u \in Threads
             PROVE  Undone(u)
  BY Zenon DEF Next, Undone
<1>1. CASE Marked(ns')
  BY <1>1, Zenon DEF Marked, Undone
<1>2. CASE ~Marked(ns')
  <2>1. Good /\ TInv /\ HInv
    BY <1>2, MarkedStep, Zenon DEF FIInv
  <2>2. CASE u = t
    BY <1>2, <2>1, <2>2, StepUndone, ZenonT(60)
  <2>3. CASE u # t
    BY <2>1, <2>3, OneThread DEF Undone
  <2> QED
    BY <2>2, <2>3, Zenon
<1> QED
  BY <1>1, <1>2, Zenon

-----------------------------------------------------------------------------
(***************************************************************************)
(* What holds in every behaviour.                                          *)
(***************************************************************************)
INSTANCE FiniteSetTheorems

\* What is used of cardinality.
LEMMA CountingHolds == Counting
<1> DEFINE A == Dirs \X Names
<1>1. IsFiniteSet(A)
  BY NamespaceAssumption, FS_Product, ZenonT(60)
<1> HIDE DEF A
<1>2. \A e : Cardinality({e}) = 1
  BY FS_Singleton, ZenonT(60)
<1>3. ASSUME NEW S \in SUBSET A
      PROVE  /\ IsFiniteSet(S) /\ Cardinality(S) \in Nat
             /\ \A e \in A \ S : Cardinality(S \cup {e}) = Cardinality(S) + 1
  <2>1. IsFiniteSet(S) /\ Cardinality(S) \in Nat
    BY <1>1, FS_Subset, FS_CardinalityType, ZenonT(60)
  <2> QED
    BY <2>1, FS_AddElement
<1>4. ASSUME NEW S \in SUBSET A, NEW e \in S
      PROVE  /\ Cardinality(S \ {e}) = Cardinality(S) - 1
             /\ Cardinality(S) >= 1
             /\ Cardinality(S) = 1 => S = {e}
  <2>1. /\ IsFiniteSet(S \ {e}) /\ Cardinality(S \ {e}) = Cardinality(S) - 1
        /\ Cardinality(S) \in Nat /\ Cardinality(S \ {e}) \in Nat
    BY <1>3, FS_RemoveElement, FS_CardinalityType, ZenonT(60)
  <2>2. Cardinality(S) = 1 => S \ {e} = {}
    BY <2>1, FS_EmptySet
  <2> QED
    BY <2>1, <2>2
<1> QED
  BY <1>2, <1>3, <1>4, ZenonT(60) DEF Counting, A

\* After every step of any number of concurrent creates, links, unlinks and
\* renames, whatever fails in them, the link counts in memory and in the mft
\* records, the filename attributes and the directory entries agree, and
\* ntfs_unlink_internal() does not panic; or the volume has its errors flag set.
THEOREM LinkCountsExactHolds == Spec => []LinkCountsExact
<1>1. IInv => LinkCountsExact
  BY AgreeButNobody, ZenonT(60) DEF IInv, Good, Sound, Marked, LinkCountsExact
<1>2. Init => IInv
  BY CountingHolds, InitGood, ZenonT(60)
<1>3. IInv /\ [Next]_vars => IInv'
  BY CountingHolds, StepKeeps, ZenonT(60)
<1> QED
  BY <1>1, <1>2, <1>3, PTL DEF Spec

\* The parent of a directory that is not deleted has an entry for it, so it is
\* not deleted either.
LEMMA ParentsLive ==
    ASSUME Good, IsTree(ns), NEW d \in Dirs \ {Root}, ns.link[d] > 0
    PROVE  ns.link[ns.parent[d]] > 0
<1>1. ns \in Namespaces /\ AgreeBut(ns, None) /\ ns.link[Root] > 0 /\ d \in Inodes
  BY Zenon DEF Good, Sound, Inodes
<1>2. PICK e : e = ns.parent[d] /\ e \in Dirs
  BY <1>1, Zenon DEF Namespaces
<1>3. PICK n \in Names : ns.fns[d] = {<<e, n>>}
  BY <1>2, Zenon DEF IsTree
<1>4. ns.ents[e][n] = d
  <2>1. \A x \in Dirs, y \in Names : <<x, y>> \in ns.fns[d] => ns.ents[x][y] = d
    BY <1>1, Zenon DEF AgreeBut
  <2>2. <<e, n>> \in ns.fns[d]
    BY <1>3, Zenon
  <2> QED
    BY <1>2, <2>1, <2>2, Zenon
<1>5. d # None
  BY <1>1, NamespaceAssumption, Zenon
<1>6. CASE e = Root
  BY <1>1, <1>2, <1>6, Zenon
<1>7. CASE e # Root
  <2>1. ns.link[e] > 0 \/ ntfs_dir_is_empty(ns, e)
    BY <1>2, <1>7, Zenon DEF IsTree
  <2>2. ~ntfs_dir_is_empty(ns, e)
    BY <1>4, <1>5, Zenon DEF ntfs_dir_is_empty
  <2> QED
    BY <1>2, <2>1, <2>2, Zenon
<1> QED
  BY <1>6, <1>7, Zenon

\* Whatever renames, creates and removals run at once, in any tree, the
\* directories stay one tree: under the rename lock ntfs_vnop_rename() moves no
\* directory below itself, and nobody adds a name to a removed directory.
THEOREM TreeStaysHolds == Spec => []TreeStays
<1>1. TIInv => TreeStays
  BY ParentsLive, ZenonT(60) DEF TIInv, TInv, Marked, TreeStays, Live
<1>2. Init => TIInv
  BY CountingHolds, InitTree, SMTT(60)
<1>3. TIInv /\ [Next]_vars => TIInv'
  BY CountingHolds, StepTree, SMTT(60)
<1> QED
  BY <1>1, <1>2, <1>3, PTL DEF Spec

\* A call that fails leaves every name, link count and parent as it was when it
\* got its last lock, or the volume has its errors flag set; a rename reports
\* EIO exactly when it has removed its target.
THEOREM FailedCallsUndoneHolds == Spec => FailedCallsUndone
<1>1. Init => FIInv
  BY CountingHolds, InitFails
<1>2. FIInv /\ [Next]_vars => FIInv'
  BY CountingHolds, StepFails
<1>3. FIInv /\ [Next]_vars
      => [\A t \in Threads :
            th[t].pc # "idle" /\ th'[t].pc = "idle" /\ th'[t].err # "ok"
            => \/ ns'.errors
               \/ /\ ns' = ns
                  /\ th[t].have_unlinked <=> th'[t].err = "EIO"]_vars
  BY CountingHolds, FailsUndone, Zenon
<1> QED
  BY <1>1, <1>2, <1>3, PTL DEF Spec, FailedCallsUndone

=============================================================================
