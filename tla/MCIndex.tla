------------------------------ MODULE MCIndex ------------------------------
(* An instance of Index for TLC: one call on every well-formed tree of up  *)
(* to three levels over the keys, with at most Absent keys missing or at   *)
(* most Absent keys present.                                               *)
EXTENDS Index

CONSTANTS Absent, MaxHeight

MCKeySize == [k \in Keys |-> IF k % 4 = 0 THEN 1 ELSE 2]

\* A tree is given by its height and the level of each key, -1 if the key
\* is not in it and 0 in a leaf.  A node of level l is the stretch of keys
\* up to the next key b of a higher level, or up to the end.
Ends(lvl, l) == {k \in Keys : lvl[k] > l} \cup {End}

NodeNames(h, lvl) == UNION {{<<l, b>> : b \in Ends(lvl, l)} : l \in 0..(h - 2)}

\* Blocks are numbered from the top down and from left to right.
BlockOf(h, lvl, first, x) ==
    first + Cardinality({y \in NodeNames(h, lvl) :
                            y[1] > x[1] \/ (y[1] = x[1] /\ y[2] < x[2])})

KeysOf(lvl, l, b) ==
    {k \in Keys : /\ lvl[k] = l /\ k < b
                  /\ \A j \in Keys : k < j /\ j < b => lvl[j] <= l}

NodeOf(h, lvl, first, l, b) ==
    LET ks == SetToSortSeq(KeysOf(lvl, l, b) \cup {b}, <)
    IN  [i \in DOMAIN ks |->
            Entry(IF i = Len(ks) THEN End ELSE ks[i],
                  IF l = 0 THEN NoVcn
                  ELSE BlockOf(h, lvl, first, <<l - 1, ks[i]>>))]

Fits(ks, l, room) ==
    MapThenSumSet(LAMBDA k : MCKeySize[k] + (IF l = 0 THEN 0 ELSE VcnSize), ks)
        + (IF l = 0 THEN 0 ELSE VcnSize) <= room

\* No leaf is empty, and all nodes have room for their entries.
WellFormed(h, lvl) ==
    /\ h > 1 => \A b \in Ends(lvl, 0) :
                   \E k \in Keys : k < b /\ lvl[k] = 0
                                   /\ \A j \in (k + 1)..(b - 1) : lvl[j] <= 0
    /\ Fits(KeysOf(lvl, h - 1, End), h - 1, RootSize)
    /\ \A x \in NodeNames(h, lvl) :
          Fits(KeysOf(lvl, x[1], x[2]), x[1], BlockSize)

Shapes(h) ==
    {lvl \in [Keys -> -1..(h - 1)] :
        /\ LET n == Cardinality({k \in Keys : lvl[k] = -1})
           IN  n <= Absent \/ n >= Cardinality(Keys) - Absent
        /\ WellFormed(h, lvl)}

\* Blocks start at 0 and the last set bit is not known, or block 0 is free
\* and the last set bit is known.
TreeOf(h, lvl, first) ==
    LET names == NodeNames(h, lvl)
        number == [x \in names |-> BlockOf(h, lvl, first, x)]
        used == {number[x] : x \in names}
    IN  [node |-> [n \in {Root} \cup Blocks |->
                      IF n = Root THEN NodeOf(h, lvl, first, h - 1, End)
                      ELSE IF n \in used
                      THEN LET x == CHOOSE y \in names : number[y] = n
                           IN  NodeOf(h, lvl, first, x[1], x[2])
                      ELSE Nothing],
         bits |-> used,
         present |-> h > 1,
         last |-> IF first = 0 \/ used = {} THEN -1 ELSE Max(used)]

MCTrees ==
    UNION {{TreeOf(h, lvl, first) : lvl \in Shapes(h), first \in {0, 1}} :
              h \in 1..MaxHeight}

\* From damage on nothing is promised.
UntilDamaged == ~broken
=============================================================================
