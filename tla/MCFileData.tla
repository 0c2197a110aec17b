----------------------------- MODULE MCFileData -----------------------------
(* FileData for TLC. *)
EXTENDS FileData, TLC

Symmetry == Permutations(Threads)

Req(op, from, n, ioflags) ==
    [op |-> op, from |-> from, n |-> n, ioflags |-> ioflags]

(* Writes inside a page, over pages, behind a gap and at the end; growing  *)
(* and shrinking; fsync(2).                                                *)
MCRequests ==
    {Req("write", 0, 3, {}), Req("append", 0, 1, {})}
    \cup {Req("write", from, 1, {"IO_UNIT"}) : from \in {0, 1, 3}}
    \cup {Req("resize", 0, n, {}) : n \in {0, 1, 4}}
    \cup {Req("sync", 0, 0, {})}

(* All units of the file that are initialized hold the same; a sparse file *)
(* has one hole.                                                           *)
MCInit ==
    /\ Init
    /\ NInoSparse \/ \A u, v \in 0 .. ni.init - 1 : Stored(u) = Stored(v)
    /\ IF NInoNonResident THEN ni.data \in {1, 3, 4} /\ ni.init \in {1, 3}
       ELSE ni.data < 2
    /\ NInoSparse => ni.data = 4 /\ disk[0] = Hole /\ disk[2] = Data
=============================================================================
