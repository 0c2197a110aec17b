------------------------------- MODULE Index -------------------------------
(* The B+ tree of ntfs_index.c: looking up, walking, adding with splits    *)
(* that travel up the tree, deleting with entries pulled down and blocks   *)
(* freed, and the bitmap of index blocks.  Calls run one at a time, under  *)
(* the lock of the index inode.  A split is made level by level: blocks    *)
(* are first allocated from the leaf up (each allocation may fail and all  *)
(* are then given back), and entries are then moved from the top down.     *)
(*                                                                         *)
(* A node is the sequence of its entries, the end entry included.  An      *)
(* entry of a node that is not a leaf carries the block of its sub-node.   *)
EXTENDS Integers, Sequences, FiniteSets, SequencesExt, FiniteSetsExt

CONSTANTS
    Keys,       \* the keys, numbered in collation order
    KeySize,    \* the size of the entry of a key in a leaf
    VcnSize,    \* what a pointer to a sub-node adds to an entry
    BlockSize,  \* the room for entries in an index block
    RootSize,   \* the room for entries in the index root
    MaxBlocks,  \* the size to which the index allocation can grow
    ByteBits,   \* bits in a byte of the bitmap
    BitmapStep, \* bits by which the bitmap is extended when all are set
    Trees,      \* the trees an index can hold: [node, bits, present, last]
    MaxCalls,   \* the number of calls explored
    Faults,     \* the failures the environment may inject
    NoCall      \* no call is being served

Blocks == 0..(MaxBlocks - 1)
Root == -1
NoVcn == -2
End == 1 + Max(Keys)

AllFaults == {"read", "alloc", "clear", "remap", "relock", "free",
              "scan", "resize", "empty"}

ASSUME IndexAssumption ==
    /\ Keys \subseteq Nat \ {0} /\ IsFiniteSet(Keys) /\ Keys # {}
    /\ KeySize \in [Keys -> Nat \ {0}]
    /\ VcnSize \in Nat /\ MaxBlocks \in Nat \ {0} /\ ByteBits \in Nat \ {0}
    /\ BitmapStep \in Nat \ {0}
    /\ RootSize \in Nat /\ BlockSize \in Nat /\ RootSize <= BlockSize
    /\ \A k \in Keys : 4 * KeySize[k] <= BlockSize
    /\ \A k \in Keys : KeySize[k] + 2 * VcnSize <= RootSize
    /\ Faults \subseteq AllFaults

VARIABLES
    node,          \* the entries of the root and of every block
    bits,          \* the bitmap: the blocks whose bit is set
    last_set_bit,  \* idx_ni->last_set_bit, -1 when not known
    ia_present,    \* NInoIndexAllocPresent: there is an index allocation
    ia_size,       \* its data size, in blocks
    call,          \* the call being served
    pc,            \* where that call is
    path,          \* the index contexts from the root down to ictx
    cur,           \* cur_ictx, as a position in path
    dealloc,       \* the blocks still to be freed (deallocate_ictx)
    err,           \* how the call ends, once that is known
    calls,         \* the number of calls so far
    listed,        \* what readdir lists between calls
    broken,        \* the code left inconsistent metadata for chkdsk, or
                   \* reported a deletion that it has undone
    panicked       \* a panic() was reached

tree == <<node, bits, last_set_bit, ia_present, ia_size>>
ctxs == <<path, cur, dealloc>>
vars == <<tree, call, calls, pc, ctxs, err, listed, broken, panicked>>

Fault(f) == f \in Faults

(***************************************************************************)
(* Nodes and entries.                                                      *)
(***************************************************************************)
Entry(k, v) == [k |-> k, sub |-> v]

\* No entries but the end entry, which is also what a free block is taken
\* to hold: its contents are never read before it is laid out again.
Nothing == <<Entry(End, NoVcn)>>

IsLeaf(n) == Last(node[n]).sub = NoVcn

Size(e) ==
    (IF e.k = End THEN 0 ELSE KeySize[e.k]) +
    (IF e.sub = NoVcn THEN 0 ELSE VcnSize)

UsedBy(es) == MapThenSumSet(LAMBDA i : Size(es[i]), DOMAIN es)

Room(n) == IF n = Root THEN RootSize ELSE BlockSize

BytesFree(n) == Room(n) - UsedBy(node[n])

\* An index context: the node, the entry it stands on, and what a split
\* in progress has decided for this level.
Ctx(n, i) ==
    [n |-> n, i |-> i, ikey |-> End, isize |-> 0,
     right |-> NoVcn, promote |-> 0, promote_inserted |-> FALSE]

EntryAt(p) == node[Last(p).n][Last(p).i]

\* The number of levels a path can have: no block twice, and the root.
Levels == MaxBlocks + 1

\* Mistake: a key after the last entry of the search goes to that entry.
LookupInNodeBefore(n, key) ==
    LET es == node[n]
        probe[min_left \in 0..Len(es), max_right \in 0..Len(es)] ==
            LET c == (min_left + max_right) \div 2
                k == es[c + 1].k
            IN  CASE key = k -> c
                  [] key < k -> IF c = min_left THEN c
                                ELSE probe[min_left, c - 1]
                  [] key > k -> IF c = max_right THEN c
                                ELSE probe[c + 1, max_right]
    IN  IF Len(es) = 1 THEN 1 ELSE probe[0, Len(es) - 2] + 1

(***************************************************************************)
(* ntfs_index_lookup_in_node(): the entry of the key, or else the first    *)
(* entry that collates after it, by binary search.                         *)
(***************************************************************************)
LookupInNode(n, key) ==
    LET es == node[n]
        probe[min_left \in 0..Len(es), max_right \in 0..Len(es)] ==
            LET c == (min_left + max_right) \div 2
                k == es[c + 1].k
            IN  CASE key = k -> c
                  [] key < k -> IF c = min_left THEN c
                                ELSE probe[min_left, c - 1]
                  [] key > k -> IF c = max_right THEN c + 1
                                ELSE probe[c + 1, max_right]
    IN  IF Len(es) = 1 THEN 1 ELSE probe[0, Len(es) - 2] + 1

FirstEntry == [n \in DOMAIN node |-> 1]
EndEntry == [n \in DOMAIN node |-> Len(node[n])]

\* ntfs_index_descend_into_child_node(), repeated: the contexts from node n
\* down to a leaf, standing on the entry choose[n] in each node, or down to
\* an entry with the key.
Down(n, key, choose) ==
    LET at[m \in {Root} \cup Blocks] ==
            LET c == Ctx(m, choose[m])
                e == node[m][c.i]
            IN  IF e.sub = NoVcn \/ e.k = key THEN <<c>>
                ELSE <<c>> \o at[e.sub]
    IN  at[n]

\* From the entry p stands on, if that has a sub-node.
Descend(p, choose) ==
    IF EntryAt(p).sub = NoVcn THEN p ELSE p \o Down(EntryAt(p).sub, 0, choose)

(***************************************************************************)
(* ntfs_index_lookup(): the path to the key, or to where it belongs.       *)
(***************************************************************************)
Lookup(key) ==
    Down(Root, key, [n \in DOMAIN node |-> LookupInNode(n, key)])

\* The contexts left after climbing from the last one to the first above
\* it that does not stand on its end entry; none if there is no such one.
ClimbPast(p) ==
    LET js == {j \in 1..(Len(p) - 1) : p[j].i # EndEntry[p[j].n]}
    IN  IF js = {} THEN <<>> ELSE SubSeq(p, 1, Max(js))

Step(p, d) == [p EXCEPT ![Len(p)].i = @ + d]

(***************************************************************************)
(* ntfs_index_lookup_by_position(): leaf by leaf, counting entries, with   *)
(* one entry of an ancestor after each leaf.                               *)
(***************************************************************************)
LookupByPosition(pos) ==
    LET start == Descend(<<Ctx(Root, 1)>>, FirstEntry)
        \* [p, at]: a leaf and the position of its first entry; the entry
        \* once found, with at = -1.
        go[j \in 0..Cardinality(Keys)] ==
            IF j = 0 THEN [p |-> start, at |-> 0]
            ELSE LET s == go[j - 1]
                     real == Len(node[Last(s.p).n]) - 1
                     up == ClimbPast(s.p)
                 IN  IF s.at < 0 \/ s.p = <<>> THEN s
                     ELSE IF s.at + real > pos
                          THEN [p |-> Step(s.p, pos - s.at), at |-> -1]
                     ELSE IF up = <<>> THEN [p |-> up, at |-> -1]
                     ELSE IF s.at + real = pos THEN [p |-> up, at |-> -1]
                     ELSE [p |-> Descend(Step(up, 1), FirstEntry),
                           at |-> s.at + real + 1]
    IN  go[Cardinality(Keys)].p

(***************************************************************************)
(* ntfs_index_lookup_next().                                               *)
(***************************************************************************)
LookupNext(p) ==
    CASE EntryAt(p).sub # NoVcn -> Descend(Step(p, 1), FirstEntry)
      [] EntryAt(p).sub = NoVcn /\ Last(p).i < EndEntry[Last(p).n] - 1
           -> Step(p, 1)
      [] OTHER -> ClimbPast(p)

\* What readdir lists: the first entry, and then the next until ENOENT.
Listing ==
    LET walk[j \in 0..(Cardinality(Keys) + 1)] ==
            IF j = 0 THEN [p |-> LookupByPosition(0), ks |-> <<>>]
            ELSE LET w == walk[j - 1]
                 IN  IF w.p = <<>> THEN w
                     ELSE [p |-> LookupNext(w.p),
                           ks |-> Append(w.ks, EntryAt(w.p).k)]
    IN  walk[Cardinality(Keys) + 1].ks

(***************************************************************************)
(* Calls.                                                                  *)
(***************************************************************************)
Finish(e) ==
    /\ pc' = "return" /\ err' = e /\ UNCHANGED <<call, calls, listed>>
    /\ path' = <<>> /\ cur' = 0 /\ dealloc' = <<>>

Goto(l) == pc' = l /\ UNCHANGED <<call, calls, err, listed>>

\* ntfs_index_entry_add_or_node_split() is entered for the node that p ends
\* in, to add the key, or only to make room for size (key = End).
StartSplit(p, key, size) ==
    /\ path' = [p EXCEPT ![Len(p)] = [@ EXCEPT !.ikey = key, !.isize = size]]
    /\ cur' = Len(p)
    /\ Goto("prepare")
    /\ UNCHANGED dealloc

\* A deletion starts over with a new lookup (-EAGAIN).
Restart ==
    /\ Goto("delete")
    /\ path' = <<>> /\ cur' = 0
    /\ UNCHANGED dealloc

split_only == call.op = "delete"

\* A caller adds any key and deletes one it has found under the lock of
\* the directory.
Call(op, k) ==
    /\ pc = "idle" /\ calls < MaxCalls
    /\ op = "delete" => k \in Range(listed)
    /\ call' = [op |-> op, key |-> k]
    /\ calls' = calls + 1
    /\ pc' = op
    /\ UNCHANGED <<tree, ctxs, err, listed, broken, panicked>>

\* The lock of the index is released.
Return ==
    /\ pc = "return"
    /\ pc' = "idle" /\ call' = NoCall /\ err' = "none"
    /\ listed' = IF broken THEN <<>> ELSE Listing
    /\ UNCHANGED <<tree, calls, ctxs, broken, panicked>>

\* ntfs_dir_entry_add(): the key is looked up first.
EntryAdd ==
    LET k == call.key
        p == Lookup(k)
    IN  /\ pc = "add"
        /\ \/ EntryAt(p).k = k /\ Finish("EEXIST")
           \/ EntryAt(p).k # k /\ StartSplit(p, k, KeySize[k])
           \/ Fault("read") /\ Finish("error")
        /\ UNCHANGED <<tree, broken, panicked>>

(***************************************************************************)
(* ntfs_index_block_alloc(): the first zero bit, then the allocation is    *)
(* extended to hold the block.                                             *)
(***************************************************************************)
Raised(b) == IF last_set_bit >= 0 /\ b > last_set_bit THEN b ELSE last_set_bit

BlockAlloc(b) ==
    /\ Blocks \ bits # {} /\ b = Min(Blocks \ bits)
    /\ bits' = bits \cup {b}
    /\ last_set_bit' = Raised(b)
    /\ ia_size' = Max({ia_size, b + 1})
    /\ UNCHANGED ia_present

\* ntfs_index_move_root_to_allocation_block(): the entries of the root move
\* to block r and the root keeps its end entry, which points to it.
RootMovedTo(r) ==
    node' = [node EXCEPT ![r] = node[Root], ![Root] = <<Entry(End, r)>>]

PathUnder(r) == <<Ctx(Root, 1)>> \o [path EXCEPT ![1].n = r]

\* Mistake: it is not noticed that the first new bit has been taken.
BitAfterTaken(r) == r

\* The bit for the block that is split, when moving the root has taken the
\* first bit of the extension.
BitAfter(r) == r + 1

\* When there is no room in the mft record to extend the bitmap or the index
\* allocation for block b, a root with entries is first moved to a block r,
\* which allocates that block before the allocation of b goes on.  The bitmap
\* is extended before b has a bit, so that r comes first; the allocation is
\* extended when b has one, so that r comes after it.
RootMovesFirst(b, r) ==
    LET free == Blocks \ bits
    IN  /\ Len(node[Root]) > 1 /\ Cardinality(free) > 1
        /\ \/ /\ r = Min(free) /\ bits = 0..(r - 1) /\ r % BitmapStep = 0
              /\ b = BitAfter(r)
           \/ /\ b = Min(free) /\ b >= ia_size
              /\ r = Min(free \ {b})

BlockAllocMovingRoot(b, r) ==
    /\ RootMovesFirst(b, r)
    /\ bits' = bits \cup {r, b}
    /\ last_set_bit' = Raised(Max({r, b}))
    /\ ia_size' = Max({ia_size, r + 1, b + 1})
    /\ RootMovedTo(r)
    /\ UNCHANGED ia_present

\* It fails before it has a bit, or later, when the bit is cleared again;
\* that may fail too.
BlockAllocFails ==
    \/ /\ Fault("alloc") \/ Blocks \subseteq bits
       /\ UNCHANGED <<bits, last_set_bit, ia_size, broken>>
    \/ /\ Fault("alloc") /\ Blocks \ bits # {}
       /\ LET b == Min(Blocks \ bits)
          IN  /\ last_set_bit' = Raised(b)
              /\ ia_size' \in {ia_size, Max({ia_size, b + 1})}
              /\ \/ UNCHANGED <<bits, broken>>
                 \/ /\ Fault("clear")
                    /\ bits' = bits \cup {b} /\ broken' = TRUE

(***************************************************************************)
(* Preparing: while the entry to insert does not fit into the node of cur, *)
(* the node is split, or, if it is the root, first moved into a block.     *)
(***************************************************************************)
MustMakeRoom == path[cur].isize > BytesFree(path[cur].n)

\* Which entry goes up when the node of c is split, and which entry number
\* the node is split at (the code counts from 0).
PromoteInserted(c, nr, bottom) ==
    c.i - 1 = (nr - 1) \div 2 /\ ~(split_only /\ bottom)

Median(c, nr, bottom) ==
    LET m == (nr - 1) \div 2
    IN  1 + (CASE PromoteInserted(c, nr, bottom) -> m
               [] c.i - 1 < m -> m - 1
               [] c.i - 1 = m /\ split_only /\ bottom -> (nr - 2) \div 2
               [] OTHER -> m)

\* Context j of path p is split with b as its right block, and what goes up
\* is to be inserted by the context above it.
SplitAt(p, j, b) ==
    LET c == p[j]
        es == node[c.n]
        bottom == j = Len(p)
        inserted == PromoteInserted(c, Len(es), bottom)
        median == Median(c, Len(es), bottom)
        size == IF inserted THEN c.isize ELSE Size(es[median])
    IN  [p EXCEPT
            ![j] = [@ EXCEPT !.right = b, !.promote = median,
                             !.promote_inserted = inserted],
            ![j - 1] = [@ EXCEPT
                !.ikey = IF inserted THEN c.ikey ELSE es[median].k,
                !.isize = size + IF bottom /\ IsLeaf(c.n)
                                 THEN VcnSize ELSE 0]]

SplitNode ==
    /\ pc = "prepare" /\ MustMakeRoom /\ path[cur].n # Root
    /\ \E b \in Blocks :
          \/ /\ BlockAlloc(b)
             /\ path' = SplitAt(path, cur, b) /\ cur' = cur - 1
             /\ UNCHANGED node
          \/ \E r \in Blocks :
                /\ BlockAllocMovingRoot(b, r)
                /\ path' = SplitAt(PathUnder(r), cur + 1, b) /\ cur' = cur
    /\ Goto("prepare")
    /\ UNCHANGED <<dealloc, broken, panicked>>

\* The root has been moved when the allocation of b fails after all, and the
\* bit of b is cleared again, if it was set.
SplitNodeFailsRootMoved ==
    /\ Fault("alloc")
    /\ pc = "prepare" /\ MustMakeRoom /\ path[cur].n # Root
    /\ \E b, r \in Blocks :
          /\ RootMovesFirst(b, r)
          /\ bits' = bits \cup {r}
          /\ last_set_bit' \in {Raised(r), Raised(Max({r, b}))}
          /\ ia_size' \in {Max({ia_size, r + 1}), Max({ia_size, r + 1, b + 1})}
          /\ RootMovedTo(r)
          /\ path' = PathUnder(r) /\ cur' = cur + 1
    /\ Goto("undo")
    /\ UNCHANGED <<ia_present, dealloc, broken, panicked>>

\* The root does not have room: its entries move to a block first.
MoveRoot ==
    /\ pc = "prepare" /\ MustMakeRoom /\ path[cur].n = Root
    /\ \E b \in Blocks :
          /\ \/ ia_present /\ BlockAlloc(b)
             \/ /\ ~ia_present /\ b = 0
                /\ bits' = {0} /\ last_set_bit' = 0
                /\ ia_present' = TRUE /\ ia_size' = 1
          /\ RootMovedTo(b)
          /\ path' = PathUnder(b)
    /\ cur' = 2
    /\ Goto("prepare")
    /\ UNCHANGED <<dealloc, broken, panicked>>

\* The root already points to block 0 when the mft record cannot be mapped
\* again to enter the number of the new block.
MoveRootRemapFails ==
    /\ Fault("remap")
    /\ pc = "prepare" /\ MustMakeRoom /\ path[cur].n = Root
    /\ ia_present
    /\ \E b \in Blocks \ {0} :
          /\ BlockAlloc(b)
          /\ node' = [node EXCEPT ![b] = node[Root],
                                  ![Root] = <<Entry(End, 0)>>]
    /\ broken' = TRUE
    /\ Goto("undo")
    /\ UNCHANGED <<ctxs, panicked>>

\* No block: a root that was to be moved gets its entries back, unless the
\* mft record cannot be mapped again or the attributes made for the block
\* cannot be removed.
PrepareFails ==
    /\ pc = "prepare" /\ MustMakeRoom
    /\ \/ /\ IF ia_present THEN BlockAllocFails
             ELSE /\ Fault("alloc")
                  /\ UNCHANGED <<bits, last_set_bit, ia_size, broken>>
          /\ UNCHANGED <<node, ia_present>>
       \/ /\ Fault("alloc") /\ Fault("remap") /\ path[cur].n = Root
          /\ node' = [node EXCEPT ![Root] = <<Entry(End, 0)>>]
          /\ broken' = TRUE
          /\ UNCHANGED <<bits, last_set_bit, ia_present, ia_size>>
    /\ Goto("undo")
    /\ UNCHANGED <<ctxs, panicked>>

\* The context of the parent cannot be locked again.
PrepareRelockFails ==
    /\ Fault("relock")
    /\ pc = "prepare" /\ cur < Len(path)
    /\ Goto("undo")
    /\ UNCHANGED <<tree, ctxs, broken, panicked>>

\* The error path: the blocks allocated for the levels below are given back.
Undo ==
    LET rights == {path[j].right : j \in cur..Len(path)} \ {NoVcn}
    IN  /\ pc = "undo"
        /\ \E lost \in SUBSET rights :
              /\ lost # {} => Fault("clear")
              /\ bits' = bits \ (rights \ lost)
              /\ broken' = (broken \/ lost # {})
        /\ Finish("error")
        /\ UNCHANGED <<node, last_set_bit, ia_present, ia_size, panicked>>

Prepared ==
    /\ pc = "prepare" /\ ~MustMakeRoom
    /\ IF split_only /\ cur = Len(path)
       THEN Restart
       ELSE Goto("commit") /\ UNCHANGED <<ctxs>>
    /\ UNCHANGED <<tree, broken, panicked>>

(***************************************************************************)
(* Committing, from the top down: the entry that came up is inserted with  *)
(* the left and the right block of the child, and the child is split.      *)
(***************************************************************************)
WithInserted(c) ==
    LET child == path[cur + 1]
        leaf == cur = Len(path)
        es == InsertAt(node[c.n], c.i,
                       Entry(c.ikey, IF leaf THEN NoVcn ELSE child.n))
    IN  IF leaf THEN es ELSE [es EXCEPT ![c.i + 1].sub = child.right]

\* Mistake: the first entry keeps the sub-node that was split.
RightHalfOldChild(d, below) ==
    IF d.promote_inserted THEN SubSeq(node[d.n], d.promote, Len(node[d.n]))
    ELSE SubSeq(node[d.n], d.promote + 1, Len(node[d.n]))

\* The two halves of the node of context d; below is the context under it.
RightHalf(d, below) ==
    LET es == node[d.n]
    IN  IF ~d.promote_inserted THEN SubSeq(es, d.promote + 1, Len(es))
        ELSE IF IsLeaf(d.n) THEN SubSeq(es, d.promote, Len(es))
        ELSE [SubSeq(es, d.promote, Len(es)) EXCEPT ![1].sub = below.right]

LeftHalf(d, below) ==
    LET es == node[d.n]
        vcn == CASE IsLeaf(d.n) -> NoVcn
                 [] ~IsLeaf(d.n) /\ d.promote_inserted -> below.n
                 [] OTHER -> es[d.promote].sub
    IN  Append(SubSeq(es, 1, d.promote - 1), Entry(End, vcn))

\* After the split the context stands in the half its entry is in.
AfterSplit(d) ==
    IF ~d.promote_inserted /\ d.i > d.promote
    THEN [d EXCEPT !.n = d.right, !.right = d.n, !.i = @ - d.promote]
    ELSE d

CommitLevel ==
    LET c == path[cur]
        d == path[cur + 1]
        below == IF cur + 1 < Len(path) THEN path[cur + 2] ELSE Ctx(Root, 1)
        top == IF c.promote_inserted THEN node[c.n] ELSE WithInserted(c)
    IN  /\ pc = "commit"
        /\ panicked' = (panicked \/ (~c.promote_inserted /\ c.isize > BytesFree(c.n)))
        /\ IF cur = Len(path)
           THEN /\ node' = [node EXCEPT ![c.n] = top]
                /\ Finish("ok")
           ELSE /\ node' = [node EXCEPT ![c.n] = top,
                                        ![d.n] = LeftHalf(d, below),
                                        ![d.right] = RightHalf(d, below)]
                /\ IF split_only /\ cur + 1 = Len(path)
                   THEN Restart
                   ELSE /\ path' = [path EXCEPT ![cur + 1] = AfterSplit(d)]
                        /\ cur' = cur + 1
                        /\ Goto("commit")
                        /\ UNCHANGED dealloc
        /\ UNCHANGED <<bits, last_set_bit, ia_present, ia_size, broken>>

\* A node cannot be locked again half way: the volume is marked with errors.
CommitFails ==
    /\ Fault("relock")
    /\ pc = "commit" /\ Len(path) > 1
    /\ broken' = TRUE
    /\ Finish("error")
    /\ UNCHANGED <<tree, panicked>>

(***************************************************************************)
(* ntfs_index_entry_delete().  Each of its cases changes entries first and *)
(* frees blocks that fell empty afterwards; when entries it has to move do *)
(* not fit, it splits the node they have to go to and starts over.         *)
(***************************************************************************)
Found == Lookup(call.key)

\* The leaf of the predecessor, and the path to it.
Predecessor == Descend(Found, EndEntry)

\* The lowest context of p above the last that holds a real entry, 0 if
\* there is none.
Holder(p) ==
    Max({0} \cup {j \in 1..(Len(p) - 1) : Len(node[p[j].n]) > 1})

\* The blocks of p below context j, the leaf first.
Below(p, j) == Reverse([i \in 1..(Len(p) - j) |-> p[j + i].n])

AtStart(es, k) == <<Entry(k, NoVcn)>> \o es
AtEnd(es, ks) ==
    Front(es) \o [i \in DOMAIN ks |-> Entry(ks[i], NoVcn)] \o <<Last(es)>>

\* The entry before the end entry is taken out and the end entry gets its
\* sub-node.
WithoutLast(es) ==
    Append(SubSeq(es, 1, Len(es) - 2), Entry(End, es[Len(es) - 1].sub))

\* Mistake: an entry that fits exactly is thought not to fit.
MoveOrSplitTight(p, size, new, blocks, next) ==
    \/ /\ size < BytesFree(Last(p).n)
       /\ node' = new
       /\ dealloc' = blocks
       /\ Goto(next)
       /\ UNCHANGED <<path, cur>>
    \/ /\ size >= BytesFree(Last(p).n)
       /\ StartSplit(p, End, size)
       /\ UNCHANGED node

\* Either size fits into the node p ends in, and entries are moved, or that
\* node is split.
MoveOrSplit(p, size, new, blocks, next) ==
    \/ /\ size <= BytesFree(Last(p).n)
       /\ node' = new
       /\ dealloc' = blocks
       /\ Goto(next)
       /\ UNCHANGED <<path, cur>>
    \/ /\ size > BytesFree(Last(p).n)
       /\ StartSplit(p, End, size)
       /\ UNCHANGED node

\* Mistake: the last entry of a leaf is deleted like any other.
DeleteSimpleAny ==
    LET c == Last(Found)
    IN  /\ IsLeaf(c.n)
        /\ node' = [node EXCEPT ![c.n] = RemoveAt(@, c.i)]
        /\ Goto("free")
        /\ UNCHANGED <<ctxs>>

\* An entry of the root, or of a leaf that has others.
DeleteSimple ==
    LET c == Last(Found)
    IN  /\ IsLeaf(c.n) /\ (Len(node[c.n]) > 2 \/ c.n = Root)
        /\ node' = [node EXCEPT ![c.n] = RemoveAt(@, c.i)]
        /\ Goto("free")
        /\ UNCHANGED <<ctxs>>

\* The only entry of a leaf, which some ancestor follows by an entry that
\* is not its end entry: that entry moves to the start of the next leaf.
MergeRight ==
    LET p == Found
        j == Holder(p)
        c == p[j]
        k == node[c.n][c.i].k
        suc == Descend(Step(SubSeq(p, 1, j), 1), FirstEntry)
        s == Last(suc).n
    IN  /\ IsLeaf(Last(p).n) /\ Last(p).n # Root /\ Len(node[Last(p).n]) = 2
        /\ j > 0 /\ c.i < EndEntry[c.n]
        /\ MoveOrSplit(suc, KeySize[k],
              [node EXCEPT ![s] = AtStart(@, k), ![c.n] = RemoveAt(@, c.i)],
              Below(p, j), "free")

\* The same under an end entry: the entry before it moves to the end of the
\* leaf before.
MergeLeft ==
    LET p == Found
        j == Holder(p)
        c == p[j]
        k == node[c.n][c.i - 1].k
        suc == Descend(Step(SubSeq(p, 1, j), -1), EndEntry)
        s == Last(suc).n
    IN  /\ IsLeaf(Last(p).n) /\ Last(p).n # Root /\ Len(node[Last(p).n]) = 2
        /\ j > 0 /\ c.i = EndEntry[c.n]
        /\ MoveOrSplit(suc, KeySize[k],
              [node EXCEPT ![s] = AtEnd(@, <<k>>), ![c.n] = WithoutLast(@)],
              Below(p, j), "free")

\* An entry of an inner node whose predecessor is not alone in its leaf is
\* replaced by it (ntfs_index_entry_replace()).
Replace ==
    LET c == Last(Found)
        l == Last(Predecessor).n
        k == node[l][Len(node[l]) - 1].k
    IN  /\ ~IsLeaf(c.n) /\ Len(node[l]) > 2
        /\ MoveOrSplit(Found, KeySize[k] - KeySize[call.key],
              [node EXCEPT ![c.n] = [@ EXCEPT ![c.i].k = k],
                           ![l] = RemoveAt(@, Len(@) - 1)],
              <<>>, "free")

\* The predecessor is alone and everything between it and the entry is
\* empty: it moves to the start of the next leaf and the entry goes.
DropSubtree ==
    LET q == Predecessor
        d == Len(Found)
        c == Last(Found)
        k == node[Last(q).n][1].k
        suc == Descend(Step(Found, 1), FirstEntry)
        s == Last(suc).n
    IN  /\ ~IsLeaf(c.n) /\ Len(node[Last(q).n]) = 2 /\ Holder(q) = d
        /\ MoveOrSplit(suc, KeySize[k],
              [node EXCEPT ![s] = AtStart(@, k), ![c.n] = RemoveAt(@, c.i)],
              Below(q, d), "free")

\* The predecessor is alone, but there is an entry left of it on the way:
\* that entry and the predecessor move to the end of the leaf before them.
\* The replacement follows when the blocks have been freed.
Rearrange ==
    LET q == Predecessor
        j == Holder(q)
        c == q[j]
        pull == node[c.n][c.i - 1].k
        k == node[Last(q).n][1].k
        suc == Descend(Step(SubSeq(q, 1, j), -1), EndEntry)
        s == Last(suc).n
    IN  /\ ~IsLeaf(Last(Found).n) /\ Len(node[Last(q).n]) = 2
        /\ j > Len(Found)
        /\ MoveOrSplit(suc, KeySize[pull] + KeySize[k],
              [node EXCEPT ![s] = AtEnd(@, <<pull, k>>),
                           ![c.n] = WithoutLast(@)],
              Below(q, j), "rearranged")

EntryDelete ==
    /\ pc = "delete"
    /\ \/ DeleteSimple \/ MergeRight \/ MergeLeft
       \/ Replace \/ DropSubtree \/ Rearrange
    /\ UNCHANGED <<bits, last_set_bit, ia_present, ia_size, broken, panicked>>

\* A node cannot be read or locked before anything was changed.
EntryDeleteFails ==
    /\ Fault("read")
    /\ pc = "delete"
    /\ Finish("error")
    /\ UNCHANGED <<tree, broken, panicked>>

\* Case 1 cannot lock the node of the entry again and takes the predecessor
\* back out of the next leaf: the call then returns 0 with nothing deleted.
\* If that leaf cannot be locked either, the predecessor is there twice.
DropSubtreeRelockFails ==
    LET q == Predecessor
        k == node[Last(q).n][1].k
        suc == Descend(Step(Found, 1), FirstEntry)
        s == Last(suc).n
    IN  /\ Fault("relock")
        /\ pc = "delete" /\ ~IsLeaf(Last(Found).n)
        /\ Len(node[Last(q).n]) = 2 /\ Holder(q) = Len(Found)
        /\ KeySize[k] <= BytesFree(s)
        /\ broken' = TRUE
        /\ \/ Finish("ok") /\ UNCHANGED node
           \/ Finish("error") /\ node' = [node EXCEPT ![s] = AtStart(@, k)]
        /\ UNCHANGED <<bits, last_set_bit, ia_present, ia_size, panicked>>

\* Case 2 fails after entries were moved; nothing undoes that.
RearrangeRelockFails ==
    /\ Fault("relock")
    /\ pc = "rearranged"
    /\ broken' = TRUE
    /\ Finish("error")
    /\ UNCHANGED <<tree, panicked>>

(***************************************************************************)
(* ntfs_index_block_free(): the bit is cleared, and if it was the last one *)
(* the allocation is cut behind the last bit that is still set.            *)
(***************************************************************************)
\* The last bit set in the bytes up to that of the old last bit.
ScanBack(set) ==
    Max({-1} \cup {b \in set : last_set_bit >= 0 =>
                                 b \div ByteBits <= last_set_bit \div ByteBits})

BlockFree ==
    LET b == Head(dealloc)
        left == bits \ {b}
        last == ScanBack(left)
    IN  /\ pc \in {"free", "rearranged"} /\ dealloc # <<>>
        /\ dealloc' = Tail(dealloc)
        /\ \/ /\ bits' = left
              /\ node' = [node EXCEPT ![b] = Nothing]
              /\ IF b < last_set_bit
                 THEN UNCHANGED <<last_set_bit, ia_size>>
                 ELSE \/ /\ last_set_bit' = last
                         /\ IF last = -1 \/ b < last
                            THEN UNCHANGED ia_size
                            ELSE ia_size' = Min({ia_size, last + 1})
                      \/ /\ Fault("resize") /\ last_set_bit' = last
                         /\ UNCHANGED ia_size
                      \/ /\ Fault("scan") /\ last_set_bit' = -1
                         /\ UNCHANGED ia_size
              /\ UNCHANGED broken
           \/ /\ Fault("free")
              /\ broken' = TRUE
              /\ UNCHANGED <<node, bits, last_set_bit, ia_size>>
        /\ Goto(pc)
        /\ UNCHANGED <<ia_present, path, cur, panicked>>

FreeDone ==
    /\ pc \in {"free", "rearranged"} /\ dealloc = <<>>
    /\ IF pc = "free" THEN Finish("ok") ELSE Restart
    /\ UNCHANGED <<tree, broken, panicked>>

(***************************************************************************)
(* ntfs_index_make_empty(): the last entry of an index whose inner nodes   *)
(* are all empty goes, and with it every block.                            *)
(***************************************************************************)
MakeEmpty ==
    LET c == Last(Found)
    IN  /\ pc = "delete"
        /\ IsLeaf(c.n) /\ c.n # Root /\ Len(node[c.n]) = 2
        /\ Holder(Found) = 0
        /\ \/ /\ node' = [n \in DOMAIN node |-> Nothing]
              /\ bits' = {}
              /\ last_set_bit' = -1
              /\ \/ ia_size' = 0
                 \/ Fault("resize") /\ UNCHANGED ia_size
              /\ Finish("ok")
              /\ UNCHANGED broken
           \/ /\ Fault("empty")
              /\ \E lost \in SUBSET Range(Below(Found, 1)) :
                    /\ lost # {} => Fault("clear")
                    /\ bits' = Range(Below(Found, 1)) \ lost
                    /\ broken' = (lost # {})
              /\ UNCHANGED <<node, last_set_bit, ia_size>>
              /\ Finish("error")
        /\ UNCHANGED <<ia_present, panicked>>

Init ==
    /\ \E t \in Trees :
          /\ node = t.node
          /\ bits = t.bits
          /\ ia_present = t.present
          /\ ia_size = IF t.bits = {} THEN 0 ELSE Max(t.bits) + 1
          /\ last_set_bit = t.last
    /\ calls = 0 /\ call = NoCall /\ pc = "idle" /\ path = <<>> /\ cur = 0
    /\ listed = Listing
    /\ dealloc = <<>> /\ err = "none" /\ broken = FALSE /\ panicked = FALSE

Serve ==
    \/ EntryAdd \/ SplitNode \/ SplitNodeFailsRootMoved
    \/ MoveRoot \/ MoveRootRemapFails
    \/ PrepareFails \/ PrepareRelockFails \/ Undo \/ Prepared
    \/ CommitLevel \/ CommitFails
    \/ EntryDelete \/ EntryDeleteFails
    \/ DropSubtreeRelockFails \/ RearrangeRelockFails
    \/ BlockFree \/ FreeDone \/ MakeEmpty \/ Return

Next ==
    \/ \E op \in {"add", "delete"}, k \in Keys : Call(op, k)
    \/ Serve
    \/ pc = "idle" /\ calls = MaxCalls /\ UNCHANGED vars

Spec == Init /\ [][Next]_vars

\* A call holds its locks and never waits for another, so that it does not
\* stop half way.  In every state outside "idle" a step of the call is
\* possible: this is weak fairness of Serve.
FairSpec == Spec /\ ([]<>(pc = "idle") \/ []<><<TRUE>>_vars)

(***************************************************************************)
(* Properties.                                                             *)
(***************************************************************************)
\* The index implements an ordered set of keys: a successful add or delete
\* changes what readdir lists by exactly its key, a call that fails changes
\* nothing, however many levels were split, merged or started over.
Abstract == INSTANCE OrderedIndex WITH
    entries <- listed,
    damaged <- broken

ImplementsOrderedIndex == Abstract!Spec

Consistent == pc = "idle" /\ ~broken

\* Between calls, looking up a key by name finds it exactly when it is
\* listed, and looking up a position finds the key listed there.
SearchFindsListing ==
    Consistent =>
       /\ \A k \in Keys :
             (EntryAt(Lookup(k)).k = k) <=> (k \in Range(listed))
       /\ \A i \in DOMAIN listed :
             LET p == LookupByPosition(i - 1)
             IN  p # <<>> /\ EntryAt(p).k = listed[i]
       /\ LookupByPosition(Len(listed)) = <<>>

\* The nodes below the root, by level.
Level(d) ==
    LET at[j \in 0..Levels] ==
            IF j = 0 THEN {Root}
            ELSE UNION {{node[n][i].sub : i \in DOMAIN node[n]} : n \in at[j - 1]}
                     \ {NoVcn}
    IN  at[d]

Reachable == UNION {Level(d) : d \in 1..Levels}

Pointers ==
    MapThenSumSet(LAMBDA n : Cardinality({i \in DOMAIN node[n] :
                                             node[n][i].sub # NoVcn}),
                  Reachable \cup {Root})

\* Between calls, the bits set in the bitmap are exactly the blocks of the
\* tree, no block has two parents, and all lie inside the allocation, which
\* freeing cuts at last_set_bit: no block leaks, none is used twice and none
\* is cut off.
BlocksExact ==
    Consistent =>
       /\ bits = Reachable
       /\ Pointers = Cardinality(Reachable)
       /\ \A b \in bits : b < ia_size
       /\ last_set_bit >= 0 => \A b \in bits : b <= last_set_bit

\* Between calls, all leaves are at the same depth, none but the root is
\* empty (the code treats an empty leaf as corruption), and no node holds
\* more than it has room for.  During calls, an entry always fits where it is
\* inserted once nodes have been split: ntfs_index_node_make_space() cannot
\* fail there and panic.
WellShaped ==
    /\ ~panicked
    /\ Consistent =>
          /\ \A n \in Reachable \cup {Root} :
                /\ UsedBy(node[n]) <= Room(n)
                /\ IsLeaf(n) /\ n # Root => Len(node[n]) > 1
                /\ \A i \in DOMAIN node[n] :
                      (node[n][i].sub = NoVcn) <=> IsLeaf(n)
          /\ \E d \in 0..Levels :
                \A n \in Reachable \cup {Root} : IsLeaf(n) <=> n \in Level(d)

\* Every call returns: splitting to make room and starting over comes to an
\* end.
CallsReturn == (pc # "idle") ~> (pc = "idle")
=============================================================================
