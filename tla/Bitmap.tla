------------------------------- MODULE Bitmap -------------------------------
(***************************************************************************)
(* Setting or clearing a run of bits in an on-disk bitmap, page by page:   *)
(* __ntfs_bitmap_set_bits_in_run() (kext/ntfs_bitmap.c).  The partial      *)
(* first byte, the whole bytes of each page and the partial last byte are  *)
(* written separately; when a later page cannot be mapped the function     *)
(* calls itself to put the bits already written back.                      *)
(*                                                                         *)
(* The callers hold the lock of the bitmap inode, so one call is active at *)
(* a time; `outer' keeps the arguments of a call while its rollback runs.  *)
(***************************************************************************)
EXTENDS Integers

CONSTANTS
    ByteBits,    \* bits in a byte (8 in the code)
    PageBytes,   \* PAGE_SIZE
    Pages,       \* pages of the bitmap
    MayFail      \* whether ntfs_page_map() may fail

ASSUME BitmapAssumption ==
    /\ ByteBits \in Nat \ {0, 1} /\ PageBytes \in Nat \ {0}
    /\ Pages \in Nat \ {0} /\ MayFail \in BOOLEAN

PageBits == PageBytes * ByteBits
Bits == 0..(Pages * PageBits - 1)

VARIABLES
    bits,       \* the bits that are set
    pc,
    arg,        \* start_bit, count and value of the active call
    outer,      \* those of the call that is being rolled back
    cnt,        \* bits still to be written
    ofs,        \* the page that is mapped
    pos, len,   \* byte positions in it
    err,        \* what the outermost call returns
    errors,     \* NVolErrors
    before      \* history: `bits' when the outermost call began

vars == <<bits, pc, arg, outer, cnt, ofs, pos, len, err, errors,
          before>>

NoCall == [start |-> 0, count |-> 0, value |-> FALSE]
Span(a) == a.start..(a.start + a.count - 1)
is_rollback == outer # NoCall
end_ofs == ((arg.start + arg.count - 1) \div ByteBits) \div PageBytes

Init ==
    /\ bits \in SUBSET Bits
    /\ pc = "idle"
    /\ arg = NoCall /\ outer = NoCall
    /\ cnt = 0 /\ ofs = 0 /\ pos = 0 /\ len = 0
    /\ err = FALSE /\ errors = FALSE
    /\ before = bits

\* Write n bits from bit b of the mapped page on.
Write(b, n) ==
    LET span == (ofs * PageBits + b)..(ofs * PageBits + b + n - 1)
    IN  bits' = IF arg.value THEN bits \cup span ELSE bits \ span

Lower(a, b) == IF a < b THEN a ELSE b

\* A run is set when it is clear and cleared when it is set: the callers
\* allocate free clusters and records and free allocated ones.
Call(a) ==
    /\ pc = "idle"
    /\ a.count > 0
    /\ IF a.value THEN Span(a) \cap bits = {} ELSE Span(a) \subseteq bits
    /\ arg' = a
    /\ cnt' = a.count
    /\ before' = bits
    /\ err' = FALSE
    /\ pc' = "first"
    /\ UNCHANGED <<bits, outer, ofs, pos, len, errors>>

\* The first page is mapped and the first byte, if partial, is written.
FirstByte ==
    LET bit == arg.start % ByteBits
        p == (arg.start \div ByteBits) % PageBytes
        n == IF bit = 0 THEN 0 ELSE Lower(ByteBits - bit, cnt)
    IN  /\ pc = "first"
        /\ ofs' = (arg.start \div ByteBits) \div PageBytes
        /\ LET span == arg.start..(arg.start + n - 1)
           IN  bits' = IF arg.value THEN bits \cup span ELSE bits \ span
        /\ cnt' = cnt - n
        /\ pos' = IF bit = 0 THEN p ELSE p + 1
        /\ pc' = IF bit # 0 /\ cnt = n THEN "done" ELSE "whole"
        /\ UNCHANGED <<arg, outer, len, err, errors, before>>

\* Mutant of WholeLen: relative to the first whole byte, not to the page.
WholeLenRelative(n) == n

\* Where the first byte that is not done lies in the first page.
WholeLen(n) == IF cnt - n * ByteBits < ByteBits THEN n + pos ELSE n

WholeCount == Lower(PageBytes - pos, cnt \div ByteBits)

\* The whole bytes of the first page.
WholeBytes ==
    LET n == WholeCount
    IN  /\ pc = "whole"
        /\ Write(pos * ByteBits, n * ByteBits)
        /\ cnt' = cnt - n * ByteBits
        /\ len' = WholeLen(n)
        /\ pc' = "pages"
        /\ UNCHANGED <<arg, outer, ofs, pos, err, errors, before>>

\* The whole bytes of each subsequent page.
NextPage ==
    /\ pc = "pages"
    /\ ofs < end_ofs
    /\ cnt > 0
    /\ LET n == Lower(PageBytes, cnt \div ByteBits)
           span == ((ofs + 1) * PageBits)..((ofs + 1) * PageBits + n * ByteBits - 1)
       IN  /\ bits' = IF arg.value THEN bits \cup span ELSE bits \ span
           /\ cnt' = cnt - n * ByteBits
           /\ len' = n
    /\ ofs' = ofs + 1
    /\ UNCHANGED <<pc, arg, outer, pos, err, errors, before>>

\* The partial last byte, at byte position len of the last page.
LastByte ==
    /\ pc = "pages"
    /\ ofs >= end_ofs
    /\ cnt < ByteBits
    /\ Write(len * ByteBits, cnt)
    /\ cnt' = 0
    /\ pc' = "done"
    /\ UNCHANGED <<arg, outer, ofs, pos, len, err, errors, before>>

Idle ==
    /\ pc' = "idle"
    /\ arg' = NoCall /\ outer' = NoCall
    /\ cnt' = 0 /\ ofs' = 0 /\ pos' = 0 /\ len' = 0

\* The first page cannot be mapped: nothing has been written.
FirstMapFails ==
    /\ MayFail
    /\ pc = "first"
    /\ err' = TRUE
    /\ errors' = (errors \/ is_rollback)
    /\ Idle
    /\ UNCHANGED <<bits, before>>

\* Mutant of RolledBack: as many bits as were not written.
RolledBackRest ==
    [start |-> arg.start, count |-> cnt, value |-> ~arg.value]

\* The call that puts back what has been written.
RolledBack ==
    [start |-> arg.start, count |-> arg.count - cnt, value |-> ~arg.value]

\* A later page cannot be mapped.  (Some bits have been written by then:
\* see OnlyTheRun.)
NextMapFails ==
    /\ MayFail
    /\ pc = "pages"
    /\ ofs < end_ofs
    /\ cnt > 0
    /\ err' = TRUE
    /\ \/ /\ is_rollback
          /\ errors' = TRUE
          /\ Idle
          /\ UNCHANGED bits
       \/ /\ ~is_rollback
          /\ outer' = arg
          /\ arg' = RolledBack
          /\ cnt' = RolledBack.count
          /\ pc' = "first"
          /\ UNCHANGED <<bits, errors, ofs, pos, len>>
    /\ UNCHANGED before

Done ==
    /\ pc = "done"
    /\ Idle
    /\ UNCHANGED <<bits, err, errors, before>>

Step ==
    \/ FirstByte \/ WholeBytes \/ NextPage \/ LastByte
    \/ FirstMapFails \/ NextMapFails \/ Done

Next ==
    \/ \E s \in Bits, v \in BOOLEAN : \E n \in 1..(Pages * PageBits - s) :
          Call([start |-> s, count |-> n, value |-> v])
    \/ Step

Spec == Init /\ [][Next]_vars
-----------------------------------------------------------------------------
\* While a call and its rollback run, no bit outside of the run changes, and
\* the function never panics: bits are left for each subsequent page, and less
\* than a byte is left in the last one, at a position inside the page.  Its
\* test count != cnt before the rollback is always true.
OnlyTheRun ==
    /\ LET whole == IF is_rollback THEN outer ELSE arg
       IN  pc # "idle" => \A b \in Bits \ Span(whole) : b \in bits <=> b \in before
    /\ pc = "pages" =>
          /\ ofs < end_ofs => cnt > 0 /\ cnt < arg.count
          /\ ofs >= end_ofs => cnt < ByteBits /\ (cnt > 0 => len < PageBytes)

\* A call that succeeds has written exactly its run; one that fails has
\* changed nothing, or has set the volume errors flag.  When the rollback
\* fails as well, what stays changed is a run of whole pages of the bits: the
\* part of the run in the pages from some page on that had been written.
\* ClusterAlloc uses this as LeftChanged.
AllOrNothing ==
    [][/\ pc = "done" /\ pc' = "idle" /\ ~is_rollback
            => bits = IF arg.value THEN before \cup Span(arg)
                                   ELSE before \ Span(arg)
       /\ pc' = "idle" /\ err' /\ ~errors' => bits' = before
       /\ pc # "idle" /\ pc' = "idle" /\ err' =>
            LET changed == (bits' \ before) \cup (before \ bits')
            IN  \E p, q \in 0..Pages :
                  changed = {b \in Span(IF is_rollback THEN outer ELSE arg) :
                               p <= b \div PageBits /\ b \div PageBits < q}]_vars
=============================================================================
