---------------------------- MODULE MCNamespace -----------------------------
(* An instance of Namespace for TLC: a chain of directories with a file.   *)
EXTENDS Namespace, TLC

CONSTANTS A, B, f

EmptyTree ==
    [ents |-> [d \in Dirs |-> [n \in Names |-> None]],
     fns |-> [i \in Inodes |-> {}], link |-> [i \in Inodes |-> IF i = Root THEN 1 ELSE 0],
     mlink |-> [i \in Inodes |-> IF i = Root THEN 1 ELSE 0],
     inuse |-> {Root},
     parent |-> [d \in Dirs |-> Root], errors |-> FALSE, panic |-> FALSE]

\* A file in a directory in a directory, under any names.
MCTrees ==
    {Create(Create(Create(EmptyTree, Root, n[1], d[1]), d[1], n[2], d[2]), d[2], n[3], f) :
        n \in Names \X Names \X Names, d \in {<<A, B>>, <<B, A>>}}

Symmetry == Permutations(Threads) \cup Permutations(Names) \cup Permutations(Dirs \ {Root})

UntilErrors == ~ns.errors
=============================================================================
