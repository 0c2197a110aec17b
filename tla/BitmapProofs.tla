---------------------------- MODULE BitmapProofs ----------------------------
(***************************************************************************)
(* Proofs that a call writes the bits of its run and no others, for every  *)
(* size of a byte, of a page and of the bitmap, and for every run.         *)
(***************************************************************************)
EXTENDS Bitmap, TLAPS

-----------------------------------------------------------------------------
(***************************************************************************)
(* Arithmetic.                                                             *)
(***************************************************************************)

\* What division gives.
LEMMA Divide ==
    ASSUME NEW a \in Nat, NEW d \in Nat \ {0}
    PROVE  /\ a \div d \in Nat /\ a % d \in Nat /\ a % d < d
           /\ a = ((a \div d) * d) + (a % d)
  BY SMT

\* Multiplication keeps the order and distributes.
LEMMA Multiply ==
    ASSUME NEW a \in Nat, NEW b \in Nat, NEW c \in Nat
    PROVE  /\ a * c \in Nat
           /\ a <= b => a * c <= b * c
           /\ (a + b) * c = a * c + b * c
  BY SMT

\* The sizes are positive, and a page is so many whole bytes.
LEMMA Sizes ==
    /\ ByteBits \in Nat \ {0} /\ PageBytes \in Nat \ {0} /\ Pages \in Nat \ {0}
    /\ PageBits \in Nat \ {0} /\ PageBits = PageBytes * ByteBits
    /\ Pages * PageBits \in Nat
<1>1. /\ ByteBits \in Nat \ {0} /\ PageBytes \in Nat \ {0} /\ Pages \in Nat \ {0}
  BY BitmapAssumption, Zenon
<1>2. PageBits \in Nat \ {0} /\ PageBits = PageBytes * ByteBits
  BY <1>1 DEF PageBits
<1> QED
  BY <1>1, <1>2, Multiply, Zenon

PageOf(b) == (b \div ByteBits) \div PageBytes

\* The page of a bit, its byte in the page and its place in the byte.
LEMMA BitPlace ==
    ASSUME NEW b \in Nat
    PROVE  /\ PageOf(b) \in Nat
           /\ (b \div ByteBits) % PageBytes \in 0..(PageBytes - 1)
           /\ b % ByteBits \in 0..(ByteBits - 1)
           /\ b = PageOf(b) * PageBits + ((b \div ByteBits) % PageBytes) * ByteBits
                  + (b % ByteBits)
<1> DEFINE y == b \div ByteBits
           k == y \div PageBytes
           p == y % PageBytes
<1>1. y \in Nat /\ b % ByteBits \in 0..(ByteBits - 1) /\ b = (y * ByteBits) + (b % ByteBits)
  BY Sizes, Divide
<1>2. k \in Nat /\ p \in 0..(PageBytes - 1) /\ p \in Nat /\ y = (k * PageBytes) + p
  BY <1>1, Sizes, Divide
<1> HIDE DEF y, k, p
<1>3. /\ (k * PageBytes) \in Nat
      /\ ((k * PageBytes) + p) * ByteBits = (k * PageBytes) * ByteBits + p * ByteBits
  BY <1>2, Sizes, Multiply
<1>4. (k * PageBytes) * ByteBits = k * PageBits
  BY <1>2, Sizes, SMT
<1>5. b = k * PageBits + p * ByteBits + (b % ByteBits)
  BY <1>1, <1>2, <1>3, <1>4, Zenon
<1> QED
  BY <1>1, <1>2, <1>5, Zenon DEF PageOf, k, p, y

\* A bit is in the pages up to page k exactly when it lies before page k + 1.
LEMMA PageBounds ==
    ASSUME NEW b \in Nat, NEW k \in Nat
    PROVE  /\ k < PageOf(b) <=> (k + 1) * PageBits <= b
           /\ (k + 1) * PageBits = k * PageBits + PageBits /\ k * PageBits \in Nat
           /\ k = PageOf(b) => k * PageBits <= b
<1> DEFINE q == PageOf(b)
           p == (b \div ByteBits) % PageBytes
           r == b % ByteBits
<1>1. /\ q \in Nat /\ p \in 0..(PageBytes - 1) /\ r \in 0..(ByteBits - 1)
      /\ b = q * PageBits + p * ByteBits + r
  BY BitPlace, Zenon
<1> HIDE DEF q, p, r
<1>2. /\ (p + 1) * ByteBits <= PageBytes * ByteBits
      /\ (p + 1) * ByteBits = p * ByteBits + ByteBits /\ p * ByteBits \in Nat
  <2>1. p \in Nat /\ p + 1 \in Nat /\ p + 1 <= PageBytes
    BY <1>1, Sizes
  <2>2. (p + 1) * ByteBits <= PageBytes * ByteBits
    BY <2>1, Sizes, Multiply, Zenon
  <2>3. (p + 1) * ByteBits = p * ByteBits + 1 * ByteBits /\ p * ByteBits \in Nat
    BY <2>1, Sizes, Multiply
  <2> QED
    BY <2>2, <2>3, Sizes
<1>3. q * PageBits \in Nat /\ q * PageBits <= b /\ b < q * PageBits + PageBits
  <2>1. q * PageBits \in Nat
    BY <1>1, Sizes, Multiply, Zenon
  <2> QED
    BY <1>1, <1>2, <2>1, Sizes
<1>4. \A i \in Nat : (i + 1) * PageBits = i * PageBits + PageBits /\ i * PageBits \in Nat
  <2>1. \A i \in Nat : (i + 1) * PageBits = i * PageBits + 1 * PageBits /\ i * PageBits \in Nat
    BY Sizes, Multiply
  <2> QED
    BY <2>1, Sizes
<1>5. CASE k < q
  <2>1. (k + 1) * PageBits <= q * PageBits
    BY <1>1, <1>5, Sizes, Multiply
  <2> QED
    BY <1>1, <1>3, <1>4, <1>5, <2>1, Sizes DEF q
<1>6. CASE ~(k < q)
  <2>1. q * PageBits <= k * PageBits
    BY <1>1, <1>6, Sizes, Multiply
  <2> QED
    BY <1>1, <1>3, <1>4, <1>6, <2>1, Sizes DEF q
<1> QED
  BY <1>5, <1>6, Zenon

\* How many whole bytes are written when there is room for so many and c bits
\* are left.
LEMMA WholeBytesFit ==
    ASSUME NEW room \in Nat, NEW c \in Nat, NEW n \in Nat, n = Lower(room, c \div ByteBits)
    PROVE  /\ n \in Nat /\ n <= room /\ n * ByteBits \in Nat /\ n * ByteBits <= c
           /\ c >= room * ByteBits => n = room
           /\ c <= room * ByteBits => c - n * ByteBits < ByteBits
           /\ room * ByteBits \in Nat
<1> DEFINE d == c \div ByteBits
           r == c % ByteBits
<1>1. d \in Nat /\ r \in Nat /\ r < ByteBits /\ c = (d * ByteBits) + r
  BY Sizes, Divide, Zenon
<1>2. n \in Nat /\ n <= room /\ n <= d /\ (n = room \/ n = d)
  BY <1>1 DEF Lower
<1> HIDE DEF d, r
<1>3. d * ByteBits \in Nat /\ room * ByteBits \in Nat /\ n * ByteBits \in Nat
  BY <1>1, <1>2, Sizes, Multiply, Zenon
<1>4. n * ByteBits <= d * ByteBits
  BY <1>1, <1>2, Sizes, Multiply, Zenon
<1>5. ASSUME c >= room * ByteBits PROVE n = room
  <2>1. ASSUME d < room PROVE FALSE
    <3>1. (d + 1) * ByteBits <= room * ByteBits
      BY <1>1, <2>1, Sizes, Multiply
    <3>2. (d + 1) * ByteBits = d * ByteBits + 1 * ByteBits
      BY <1>1, Sizes, Multiply
    <3> QED
      BY <1>1, <1>3, <1>5, <3>1, <3>2, Sizes
  <2> QED
    BY <1>1, <1>2, <2>1
<1>6. ASSUME c <= room * ByteBits PROVE c - n * ByteBits < ByteBits
  <2>1. CASE n = d
    <3>1. c - n * ByteBits = r
      BY <1>1, <1>3, <2>1
    <3> QED
      BY <1>1, <3>1, Zenon
  <2>2. CASE n = room
    <3>1. c <= n * ByteBits
      BY <1>6, <2>2, Zenon
    <3> QED
      BY <1>3, <3>1, Sizes
  <2> QED
    BY <1>2, <2>1, <2>2, Zenon
<1> QED
  BY <1>1, <1>2, <1>3, <1>4, <1>5, <1>6

-----------------------------------------------------------------------------
(***************************************************************************)
(* The inductive invariant.  Reached is the first bit that the active call *)
(* has not written.  A call has written its run up to there; a roll back   *)
(* has put back what was written up to there, and the rest of it is still  *)
(* written.                                                                *)
(***************************************************************************)
Calls == [start : Nat, count : Nat \ {0}, value : BOOLEAN]
Reached == arg.start + arg.count - cnt
Fresh(a) ==
    /\ a.value => Span(a) \cap before = {}
    /\ ~a.value => Span(a) \subseteq before

Active ==
    /\ arg \in Calls /\ arg.start + arg.count <= Pages * PageBits
    /\ cnt \in Nat /\ cnt <= arg.count
    /\ ofs \in Nat /\ pos \in Nat /\ len \in Nat

\* Where Reached lies in the pages.
Place ==
    /\ pc \in {"first", "whole", "pages", "done"}
    /\ pc = "first" => cnt = arg.count
    /\ pc = "whole" =>
          /\ cnt > 0 /\ pos <= PageBytes
          /\ Reached = ofs * PageBits + pos * ByteBits
          /\ arg.start < (ofs + 1) * PageBits
    /\ pc = "pages" =>
          /\ ofs < end_ofs => /\ Reached = (ofs + 1) * PageBits
                              /\ arg.start < Reached
          /\ ofs >= end_ofs => /\ Reached = ofs * PageBits + len * ByteBits
                               /\ len <= PageBytes /\ cnt < ByteBits
    /\ pc = "done" => cnt = 0

\* What is written.
Written ==
    /\ ~is_rollback =>
          /\ Fresh(arg)
          /\ arg.value => bits = before \cup arg.start..(Reached - 1)
          /\ ~arg.value => bits = before \ arg.start..(Reached - 1)
    /\ is_rollback =>
          /\ outer \in Calls /\ Fresh(outer)
          /\ arg.start = outer.start /\ arg.count < outer.count
          /\ outer.value =>
                /\ ~arg.value
                /\ bits = before \cup Reached..(arg.start + arg.count - 1)
          /\ ~outer.value =>
                /\ arg.value
                /\ bits = before \ Reached..(arg.start + arg.count - 1)

\* A roll back runs exactly when the call has failed, and puts back what lies
\* before some page.
Failed ==
    /\ err => is_rollback
    /\ is_rollback => \E q \in 0..Pages : arg.start + arg.count = q * PageBits

IInv ==
    /\ pc = "idle" => outer = NoCall /\ ofs = 0 /\ pos = 0 /\ len = 0
    /\ pc # "idle" => Active /\ Place /\ Written /\ Failed

\* What the invariant says of a call and of a roll back.
LEMMA CallWritten ==
    ASSUME Written, ~is_rollback
    PROVE  /\ Fresh(arg)
           /\ arg.value => bits = before \cup arg.start..(Reached - 1)
           /\ ~arg.value => bits = before \ arg.start..(Reached - 1)
  BY Zenon DEF Written

\* What a roll back has undone so far.
LEMMA RollbackWritten ==
    ASSUME Written, is_rollback
    PROVE  /\ outer \in Calls /\ Fresh(outer)
           /\ arg.start = outer.start /\ arg.count < outer.count
           /\ outer.value => ~arg.value
           /\ ~outer.value => arg.value
           /\ outer.value => bits = before \cup Reached..(arg.start + arg.count - 1)
           /\ ~outer.value => bits = before \ Reached..(arg.start + arg.count - 1)
<1>1. outer \in Calls /\ Fresh(outer) /\ arg.start = outer.start /\ arg.count < outer.count
  BY Zenon DEF Written
<1>2. outer.value => ~arg.value
  BY Zenon DEF Written
<1>3. ~outer.value => arg.value
  BY Zenon DEF Written
<1>4. outer.value => bits = before \cup Reached..(arg.start + arg.count - 1)
  BY Zenon DEF Written
<1>5. ~outer.value => bits = before \ Reached..(arg.start + arg.count - 1)
  BY Zenon DEF Written
<1> QED
  BY <1>1, <1>2, <1>3, <1>4, <1>5, Zenon

\* The next m bits are written.
LEMMA Advance ==
    ASSUME Active, Written, NEW m \in Nat, m <= cnt,
           bits' = IF arg.value THEN bits \cup Reached..(Reached + m - 1)
                                ELSE bits \ Reached..(Reached + m - 1),
           cnt' = cnt - m, arg' = arg, outer' = outer, before' = before
    PROVE  Written' /\ cnt' \in Nat /\ cnt' <= arg.count /\ Reached' = Reached + m
<1>1. /\ arg.start \in Nat /\ arg.count \in Nat \ {0} /\ cnt \in Nat /\ cnt <= arg.count
      /\ Reached \in Nat /\ Reached >= arg.start /\ Reached + m <= arg.start + arg.count
  BY DEF Active, Calls, Reached
<1>2. Reached' = Reached + m /\ cnt' \in Nat /\ cnt' <= arg.count
  BY <1>1 DEF Reached
<1>3. /\ is_rollback' <=> is_rollback
      /\ Fresh(arg)' <=> Fresh(arg)
      /\ Fresh(outer)' <=> Fresh(outer)
  BY Zenon DEF is_rollback, NoCall, Fresh, Span
<1>5. ASSUME ~is_rollback
      PROVE  /\ Fresh(arg)
             /\ arg.value => bits' = before \cup arg.start..(Reached + m - 1)
             /\ ~arg.value => bits' = before \ arg.start..(Reached + m - 1)
  <2>1. /\ Fresh(arg)
        /\ arg.value => bits = before \cup arg.start..(Reached - 1)
        /\ ~arg.value => bits = before \ arg.start..(Reached - 1)
    BY <1>5, Zenon DEF Written
  <2>2. arg.start..(Reached + m - 1) = arg.start..(Reached - 1) \cup Reached..(Reached + m - 1)
    BY <1>1
  <2>3. ASSUME arg.value PROVE bits' = before \cup arg.start..(Reached + m - 1)
    BY <2>1, <2>2, <2>3, Zenon
  <2>4. ASSUME ~arg.value PROVE bits' = before \ arg.start..(Reached + m - 1)
    BY <2>1, <2>2, <2>4, Zenon
  <2> QED
    BY <2>1, <2>3, <2>4, Zenon
<1>6. ASSUME is_rollback
      PROVE  /\ outer \in Calls /\ Fresh(outer)
             /\ arg.start = outer.start /\ arg.count < outer.count
             /\ outer.value => ~arg.value /\ bits' = before \cup (Reached + m)..(arg.start + arg.count - 1)
             /\ ~outer.value => arg.value /\ bits' = before \ (Reached + m)..(arg.start + arg.count - 1)
  <2>1. /\ outer \in Calls /\ Fresh(outer)
        /\ arg.start = outer.start /\ arg.count < outer.count
        /\ outer.value => ~arg.value /\ bits = before \cup Reached..(arg.start + arg.count - 1)
        /\ ~outer.value => arg.value /\ bits = before \ Reached..(arg.start + arg.count - 1)
    BY <1>6, RollbackWritten, Zenon
  <2>2. Reached..(arg.start + arg.count - 1) \subseteq Span(outer) /\ Reached..(Reached + m - 1) \subseteq Span(outer)
    BY <1>1, <2>1 DEF Span, Calls
  <2>3. (Reached + m)..(arg.start + arg.count - 1) = Reached..(arg.start + arg.count - 1) \ Reached..(Reached + m - 1)
    BY <1>1
  <2>4. ASSUME outer.value PROVE bits' = before \cup (Reached + m)..(arg.start + arg.count - 1)
    <3>1. Span(outer) \cap before = {}
      BY <2>1, <2>4, Zenon DEF Fresh
    <3>2. bits' = (before \cup Reached..(arg.start + arg.count - 1)) \ Reached..(Reached + m - 1)
      BY <2>1, <2>4, Zenon
    <3> QED
      BY <2>2, <2>3, <3>1, <3>2, Zenon
  <2>5. ASSUME ~outer.value PROVE bits' = before \ (Reached + m)..(arg.start + arg.count - 1)
    <3>1. Span(outer) \subseteq before
      BY <2>1, <2>5, Zenon DEF Fresh
    <3>2. bits' = (before \ Reached..(arg.start + arg.count - 1)) \cup Reached..(Reached + m - 1)
      BY <2>1, <2>5, Zenon
    <3> QED
      BY <2>2, <2>3, <3>1, <3>2, Zenon
  <2> QED
    BY <2>1, <2>4, <2>5, Zenon
<1>7. Written'
  <2>1. ASSUME ~is_rollback' PROVE Fresh(arg)'
    BY <1>3, <1>5, <2>1, Zenon
  <2>2. ASSUME is_rollback'
        PROVE  /\ outer' \in Calls' /\ Fresh(outer)'
               /\ arg'.start = outer'.start /\ arg'.count < outer'.count
    BY <1>3, <1>6, <2>2, Zenon DEF Calls
  <2>3. ASSUME is_rollback', outer'.value
        PROVE  ~arg'.value /\ bits' = before' \cup Reached'..(arg'.start + arg'.count - 1)
    BY <1>2, <1>3, <1>6, <2>3, Zenon
  <2>4. ASSUME is_rollback', ~outer'.value
        PROVE  arg'.value /\ bits' = before' \ Reached'..(arg'.start + arg'.count - 1)
    BY <1>2, <1>3, <1>6, <2>4, Zenon
  <2>5. arg'.start..(Reached' - 1) = arg.start..(Reached + m - 1)
    BY <1>1, <1>2
  <2>6. ASSUME ~is_rollback', arg'.value
        PROVE  bits' = before' \cup arg'.start..(Reached' - 1)
    BY <1>3, <1>5, <2>5, <2>6, Zenon
  <2>7. ASSUME ~is_rollback', ~arg'.value
        PROVE  bits' = before' \ arg'.start..(Reached' - 1)
    BY <1>3, <1>5, <2>5, <2>7, Zenon
  <2> QED
    BY <2>1, <2>2, <2>3, <2>4, <2>6, <2>7, Zenon DEF Written
<1> QED
  BY <1>2, <1>7, Zenon

\* The last page of the run ends at or after the end of the run, and the pages
\* before it do not.
LEMMA EndPage ==
    ASSUME Active, NEW k \in Nat
    PROVE  /\ end_ofs \in Nat
           /\ k < end_ofs <=> (k + 1) * PageBits < arg.start + arg.count
           /\ (k + 1) * PageBits = k * PageBits + PageBits /\ k * PageBits \in Nat
<1> DEFINE e == arg.start + arg.count - 1
<1>1. e \in Nat /\ arg.start \in Nat /\ arg.count \in Nat
  BY DEF Active, Calls
<1>2. end_ofs = PageOf(e)
  BY Zenon DEF end_ofs, PageOf
<1>3. PageOf(e) \in Nat
  BY <1>1, BitPlace, Zenon
<1>4. /\ k < PageOf(e) <=> (k + 1) * PageBits <= e
      /\ (k + 1) * PageBits = k * PageBits + PageBits /\ k * PageBits \in Nat
  BY <1>1, PageBounds, Zenon
<1>5. (k + 1) * PageBits \in Nat
  BY <1>4, Sizes
<1>6. (k + 1) * PageBits <= e <=> (k + 1) * PageBits < arg.start + arg.count
  BY <1>1, <1>5
<1> QED
  BY <1>2, <1>3, <1>4, <1>6, Zenon

\* Steps that leave the call and what it has failed at alone.
LEMMA SameCall ==
    ASSUME Active, Failed, arg' = arg, outer' = outer, err' = err
    PROVE  /\ Failed' /\ end_ofs' = end_ofs /\ PageBits' = PageBits
           /\ arg' \in Calls /\ arg'.start + arg'.count <= Pages * PageBits
  BY Zenon DEF Active, Failed, is_rollback, NoCall, end_ofs, PageBits, Calls

\* The bits of a first byte are written.
LEMMA FirstByteKeeps ==
    ASSUME Active, Place, Written, Failed, FirstByte
    PROVE  Active' /\ Place' /\ Written' /\ Failed' /\ pc' # "idle"
<1> DEFINE bit == arg.start % ByteBits
           p == (arg.start \div ByteBits) % PageBytes
           n == IF bit = 0 THEN 0 ELSE Lower(ByteBits - bit, cnt)
           k == PageOf(arg.start)
<1>1. /\ arg.start \in Nat /\ arg.count \in Nat \ {0} /\ cnt = arg.count
      /\ Reached = arg.start /\ cnt \in Nat
  BY DEF FirstByte, Active, Calls, Place, Reached
<1>2. /\ k \in Nat /\ p \in 0..(PageBytes - 1) /\ bit \in 0..(ByteBits - 1)
      /\ arg.start = k * PageBits + p * ByteBits + bit
  BY <1>1, BitPlace, Zenon
<1>3. /\ ofs' = k /\ cnt' = cnt - n
      /\ bits' = IF arg.value THEN bits \cup arg.start..(arg.start + n - 1)
                              ELSE bits \ arg.start..(arg.start + n - 1)
      /\ pos' = IF bit = 0 THEN p ELSE p + 1
      /\ pc' = IF bit # 0 /\ cnt = n THEN "done" ELSE "whole"
      /\ arg' = arg /\ outer' = outer /\ len' = len /\ err' = err /\ before' = before
  BY Zenon DEF FirstByte, PageOf
<1>4. /\ n \in Nat /\ n <= cnt
      /\ bit = 0 => n = 0
      /\ bit # 0 => n = cnt \/ (n = ByteBits - bit /\ n < cnt)
  BY <1>1, <1>2, Sizes DEF Lower
<1>5. /\ arg.start < (k + 1) * PageBits
      /\ k * PageBits \in Nat
  <2>1. PageOf(arg.start) = k
    OBVIOUS
  <2> HIDE DEF k
  <2>2. /\ k < k <=> (k + 1) * PageBits <= arg.start
        /\ (k + 1) * PageBits = k * PageBits + PageBits /\ k * PageBits \in Nat
    BY <1>1, <1>2, <2>1, PageBounds, Zenon
  <2> QED
    BY <1>1, <1>2, <2>2, Sizes
<1>6. p * ByteBits \in Nat /\ (p + 1) * ByteBits = p * ByteBits + ByteBits
  <2>1. p \in Nat
    BY <1>2, Sizes
  <2> HIDE DEF p
  <2>2. p * ByteBits \in Nat /\ (p + 1) * ByteBits = p * ByteBits + 1 * ByteBits
    BY <2>1, Sizes, Multiply
  <2> QED
    BY <2>2, Sizes
<1> HIDE DEF bit, p, n, k
<1>7. Written' /\ cnt' \in Nat /\ cnt' <= arg.count /\ Reached' = Reached + n
  BY <1>1, <1>3, <1>4, Advance, Zenon
<1>8. Active' /\ Failed'
  <2>1. pos' \in Nat /\ ofs' \in Nat /\ len' \in Nat
    BY <1>2, <1>3, Sizes DEF Active
  <2>2. Failed' /\ PageBits' = PageBits /\ arg' \in Calls /\ arg'.start + arg'.count <= Pages * PageBits
    BY <1>3, SameCall, Zenon
  <2> QED
    BY <1>3, <1>7, <2>1, <2>2, Zenon DEF Active, Calls
<1>9. CASE pc' = "done"
  <2>1. cnt' = 0
    BY <1>1, <1>3, <1>9
  <2> QED
    BY <1>7, <1>8, <1>9, <2>1, Zenon DEF Place
<1>10. CASE pc' = "whole"
  <2>1. cnt' > 0
    BY <1>1, <1>3, <1>4, <1>10
  <2>2. pos' <= PageBytes
    BY <1>2, <1>3, Sizes
  <2>3. Reached' = k * PageBits + pos' * ByteBits
    <3>1. CASE bit = 0
      <4>1. pos' = p /\ n = 0
        BY <1>3, <1>4, <3>1, Zenon
      <4> QED
        BY <1>1, <1>2, <1>5, <1>6, <1>7, <3>1, <4>1
    <3>2. CASE bit # 0
      <4>1. pos' = p + 1 /\ n = ByteBits - bit
        BY <1>1, <1>3, <1>4, <1>10, <3>2, Zenon
      <4> QED
        BY <1>1, <1>2, <1>5, <1>6, <1>7, <3>2, <4>1, Sizes
    <3> QED
      BY <3>1, <3>2, Zenon
  <2> QED
    BY <1>3, <1>5, <1>7, <1>8, <1>10, <2>1, <2>2, <2>3, Zenon DEF Place,
       PageBits
<1> QED
  BY <1>3, <1>9, <1>10, Zenon

\* Whole bytes are written.
LEMMA WholeBytesKeeps ==
    ASSUME Active, Place, Written, Failed, WholeBytes
    PROVE  Active' /\ Place' /\ Written' /\ Failed' /\ pc' # "idle"
<1> DEFINE n == WholeCount
           room == PageBytes - pos
           x == ofs * PageBits
           y == pos * ByteBits
           z == n * ByteBits
<1>1. /\ arg.start \in Nat /\ arg.count \in Nat \ {0} /\ cnt \in Nat /\ cnt <= arg.count
      /\ ofs \in Nat /\ pos \in Nat /\ len \in Nat
      /\ pos <= PageBytes /\ Reached = x + y /\ arg.start < (ofs + 1) * PageBits
      /\ Reached + cnt = arg.start + arg.count
  BY DEF WholeBytes, Active, Calls, Place, Reached
<1>2. room \in Nat /\ n = Lower(room, cnt \div ByteBits) /\ n \in Nat
  <2>1. cnt \div ByteBits \in Nat
    BY <1>1, Sizes, Divide, Zenon
  <2> QED
    BY <1>1, <2>1, Sizes DEF WholeCount, Lower
<1>3. /\ cnt' = cnt - z /\ len' = (IF cnt - z < ByteBits THEN n + pos ELSE n)
      /\ bits' = IF arg.value THEN bits \cup (x + y)..(x + y + z - 1)
                              ELSE bits \ (x + y)..(x + y + z - 1)
      /\ pc' = "pages"
      /\ arg' = arg /\ outer' = outer /\ ofs' = ofs /\ pos' = pos /\ err' = err
      /\ before' = before
  BY Zenon DEF WholeBytes, WholeLen, Write
<1>4. pos + room = PageBytes
  BY <1>1, Sizes
<1> HIDE DEF n, room
<1> DEFINE w == room * ByteBits
<1> HIDE DEF z, w
<1>5. /\ n \in Nat /\ n <= room /\ z \in Nat /\ z <= cnt
      /\ cnt >= w => n = room
      /\ cnt <= w => cnt - z < ByteBits
      /\ w \in Nat
  <2>1. /\ n \in Nat /\ n <= room /\ n * ByteBits \in Nat /\ n * ByteBits <= cnt
        /\ cnt >= room * ByteBits => n = room
        /\ cnt <= room * ByteBits => cnt - n * ByteBits < ByteBits
        /\ room * ByteBits \in Nat
    BY <1>1, <1>2, WholeBytesFit
  <2> QED
    BY <2>1, Zenon DEF w, z
<1>6. y \in Nat /\ y + w = PageBits /\ (n + pos) * ByteBits = z + y
  <2>1. y \in Nat /\ (pos + room) * ByteBits = y + w
    BY <1>1, <1>2, Sizes, Multiply DEF w
  <2>2. (n + pos) * ByteBits = z + y
    BY <1>1, <1>5, Sizes, Multiply DEF z
  <2> QED
    BY <1>4, <2>1, <2>2, Sizes, Zenon
<1>7. /\ end_ofs \in Nat
      /\ ofs < end_ofs <=> (ofs + 1) * PageBits < arg.start + arg.count
      /\ (ofs + 1) * PageBits = x + PageBits /\ x \in Nat
  BY <1>1, EndPage, Zenon
<1> HIDE DEF x, y
<1>8. Written' /\ cnt' \in Nat /\ cnt' <= arg.count /\ Reached' = Reached + z
  BY <1>1, <1>3, <1>5, Advance, Zenon
<1>9. Active' /\ Failed' /\ end_ofs' = end_ofs /\ PageBits' = PageBits
  <2>1. pos' \in Nat /\ ofs' \in Nat /\ len' \in Nat
    BY <1>1, <1>3, <1>5
  <2>2. /\ Failed' /\ PageBits' = PageBits /\ arg' \in Calls
        /\ arg'.start + arg'.count <= Pages * PageBits /\ end_ofs' = end_ofs
    BY <1>3, SameCall, Zenon
  <2> QED
    BY <1>3, <1>8, <2>1, <2>2, Zenon DEF Active, Calls
<1>10. ASSUME ofs < end_ofs
       PROVE  Reached' = (ofs + 1) * PageBits /\ arg.start < Reached'
  <2>1. cnt >= w
    BY <1>1, <1>5, <1>6, <1>7, <1>10, Sizes
  <2>2. z = w
    BY <1>5, <2>1, Zenon DEF z, w
  <2>3. Reached' = (ofs + 1) * PageBits
    BY <1>1, <1>5, <1>6, <1>7, <1>8, <2>2, Sizes
  <2> QED
    BY <1>1, <2>3, Zenon
<1>11. ASSUME ofs >= end_ofs
       PROVE  /\ Reached' = x + len' * ByteBits
              /\ len' <= PageBytes /\ cnt' < ByteBits
  <2>1. cnt <= w
    BY <1>1, <1>5, <1>6, <1>7, <1>11, Sizes
  <2>2. cnt' < ByteBits /\ len' = n + pos
    BY <1>3, <1>5, <2>1, Zenon
  <2>3. len' <= PageBytes
    BY <1>1, <1>2, <1>4, <1>5, <2>2, Sizes
  <2>4. Reached' = x + len' * ByteBits
    BY <1>1, <1>5, <1>6, <1>7, <1>8, <2>2
  <2> QED
    BY <2>2, <2>3, <2>4, Zenon
<1>12. Place'
  BY <1>3, <1>9, <1>10, <1>11, Zenon DEF Place, x
<1> QED
  BY <1>3, <1>8, <1>9, <1>12, Zenon

\* The next page is mapped.
LEMMA NextPageKeeps ==
    ASSUME Active, Place, Written, Failed, NextPage
    PROVE  Active' /\ Place' /\ Written' /\ Failed' /\ pc' # "idle"
<1> DEFINE n == Lower(PageBytes, cnt \div ByteBits)
           x == (ofs + 1) * PageBits
           z == n * ByteBits
<1>1. /\ arg.start \in Nat /\ arg.count \in Nat \ {0} /\ cnt \in Nat /\ cnt <= arg.count
      /\ ofs \in Nat /\ pos \in Nat /\ len \in Nat
      /\ ofs < end_ofs /\ Reached = x /\ arg.start < Reached
      /\ Reached + cnt = arg.start + arg.count
  BY DEF NextPage, Active, Calls, Place, Reached
<1>2. /\ cnt' = cnt - z /\ len' = n
      /\ bits' = IF arg.value THEN bits \cup x..(x + z - 1) ELSE bits \ x..(x + z - 1)
      /\ pc' = "pages" /\ ofs' = ofs + 1
      /\ arg' = arg /\ outer' = outer /\ pos' = pos /\ err' = err /\ before' = before
  BY Zenon DEF NextPage
<1>3. n = Lower(PageBytes, cnt \div ByteBits) /\ n \in Nat
  <2>1. cnt \div ByteBits \in Nat
    BY <1>1, Sizes, Divide, Zenon
  <2> QED
    BY <1>1, <2>1, Sizes, Zenon DEF Lower
<1> HIDE DEF n, z
<1>4. /\ n \in Nat /\ n <= PageBytes /\ z \in Nat /\ z <= cnt
      /\ cnt >= PageBits => n = PageBytes
      /\ cnt <= PageBits => cnt - z < ByteBits
  <2>1. /\ n \in Nat /\ n <= PageBytes /\ n * ByteBits \in Nat /\ n * ByteBits <= cnt
        /\ cnt >= PageBytes * ByteBits => n = PageBytes
        /\ cnt <= PageBytes * ByteBits => cnt - n * ByteBits < ByteBits
    <3>1. PageBytes \in Nat
      BY Sizes, Zenon
    <3> QED
      BY <1>1, <1>3, <3>1, WholeBytesFit
  <2> QED
    BY <2>1, Sizes, Zenon DEF z
<1>5. /\ end_ofs \in Nat
      /\ ofs + 1 < end_ofs <=> (ofs + 1 + 1) * PageBits < arg.start + arg.count
      /\ (ofs + 1 + 1) * PageBits = x + PageBits /\ x \in Nat
  <2>1. ofs + 1 \in Nat
    BY <1>1
  <2> QED
    BY <2>1, EndPage, Zenon
<1> HIDE DEF x
<1>6. Written' /\ cnt' \in Nat /\ cnt' <= arg.count /\ Reached' = Reached + z
  BY <1>1, <1>2, <1>4, Advance, Zenon
<1>7. Active' /\ Failed' /\ end_ofs' = end_ofs /\ PageBits' = PageBits
  <2>1. pos' \in Nat /\ ofs' \in Nat /\ len' \in Nat
    BY <1>1, <1>2, <1>4
  <2>2. /\ Failed' /\ PageBits' = PageBits /\ arg' \in Calls
        /\ arg'.start + arg'.count <= Pages * PageBits /\ end_ofs' = end_ofs
    BY <1>2, SameCall, Zenon
  <2> QED
    BY <1>2, <1>6, <2>1, <2>2, Zenon DEF Active, Calls
<1>8. ASSUME ofs' < end_ofs
      PROVE  Reached' = (ofs' + 1) * PageBits /\ arg.start < Reached'
  <2>1. cnt >= PageBits
    BY <1>1, <1>2, <1>5, <1>8, Sizes
  <2>2. z = PageBits
    BY <1>4, <2>1, Sizes, Zenon DEF z
  <2> QED
    BY <1>1, <1>2, <1>5, <1>6, <2>2, Sizes
<1>9. ASSUME ofs' >= end_ofs
      PROVE  /\ Reached' = ofs' * PageBits + len' * ByteBits
             /\ len' <= PageBytes /\ cnt' < ByteBits
  <2>1. cnt <= PageBits
    BY <1>1, <1>2, <1>5, <1>9, Sizes
  <2>2. Reached' = ofs' * PageBits + len' * ByteBits
    BY <1>1, <1>2, <1>6, Zenon DEF x, z
  <2> QED
    BY <1>2, <1>4, <2>1, <2>2, Zenon
<1>10. Place'
  BY <1>2, <1>7, <1>8, <1>9, Zenon DEF Place
<1> QED
  BY <1>2, <1>6, <1>7, <1>10, Zenon

\* The bits of the last byte are written.
LEMMA LastByteKeeps ==
    ASSUME Active, Place, Written, Failed, LastByte
    PROVE  Active' /\ Place' /\ Written' /\ Failed' /\ pc' # "idle"
<1> DEFINE x == ofs * PageBits + len * ByteBits
<1>1. /\ arg.start \in Nat /\ arg.count \in Nat \ {0} /\ cnt \in Nat /\ cnt <= arg.count
      /\ Reached = x /\ cnt - cnt = 0
  BY DEF LastByte, Active, Calls, Place
<1>2. /\ cnt' = cnt - cnt
      /\ bits' = IF arg.value THEN bits \cup x..(x + cnt - 1) ELSE bits \ x..(x + cnt - 1)
      /\ pc' = "done" /\ ofs' = ofs /\ pos' = pos /\ len' = len
      /\ arg' = arg /\ outer' = outer /\ err' = err /\ before' = before
  BY <1>1, Zenon DEF LastByte, Write
<1> HIDE DEF x
<1>3. Written' /\ cnt' \in Nat /\ cnt' <= arg.count
  BY <1>1, <1>2, Advance
<1>4. /\ Failed' /\ PageBits' = PageBits /\ arg' \in Calls
      /\ arg'.start + arg'.count <= Pages * PageBits
  BY <1>2, SameCall, Zenon
<1>5. Active'
  BY <1>2, <1>3, <1>4, Zenon DEF Active, Calls
<1> QED
  BY <1>1, <1>2, <1>3, <1>4, <1>5, Zenon DEF Place

\* A new call has written nothing.
LEMMA CallKeeps ==
    ASSUME IInv, NEW s \in Bits, NEW v \in BOOLEAN, NEW n \in 1..(Pages * PageBits - s),
           Call([start |-> s, count |-> n, value |-> v])
    PROVE  Active' /\ Place' /\ Written' /\ Failed' /\ pc' # "idle"
<1> DEFINE a == [start |-> s, count |-> n, value |-> v]
<1>1. /\ s \in Nat /\ n \in Nat \ {0} /\ s + n <= Pages * PageBits
  BY Sizes DEF Bits
<1>2. a \in Calls /\ a.start = s /\ a.count = n
  BY <1>1, Zenon DEF Calls
<1> HIDE DEF a
<1>3. /\ pc = "idle" /\ arg' = a /\ cnt' = a.count /\ before' = bits /\ err' = FALSE
      /\ pc' = "first" /\ bits' = bits /\ outer' = outer /\ ofs' = ofs /\ pos' = pos
      /\ len' = len
      /\ IF a.value THEN Span(a) \cap bits = {} ELSE Span(a) \subseteq bits
  BY Zenon DEF Call, a
<1>4. outer = NoCall /\ ofs \in Nat /\ pos \in Nat /\ len \in Nat
  BY <1>3 DEF IInv
<1>5. ~is_rollback'
  BY <1>3, <1>4, Zenon DEF is_rollback, NoCall
<1>6. Active'
  BY <1>1, <1>2, <1>3, <1>4 DEF Active, Calls, PageBits
<1>7. Reached' = s
  BY <1>1, <1>2, <1>3 DEF Reached
<1>8. Fresh(arg)'
  BY <1>3, Zenon DEF Fresh, Span
<1>9. arg'.start..(Reached' - 1) = {}
  BY <1>1, <1>2, <1>3, <1>7
<1>10. /\ bits' = before' \cup arg'.start..(Reached' - 1)
       /\ bits' = before' \ arg'.start..(Reached' - 1)
  BY <1>3, <1>9, Zenon
<1>11. Written'
  BY <1>5, <1>8, <1>10, Zenon DEF Written
<1>12. Place' /\ pc' # "idle"
  BY <1>3, Zenon DEF Place
<1>13. Failed'
  BY <1>3, <1>5, Zenon DEF Failed
<1> QED
  BY <1>6, <1>11, <1>12, <1>13, Zenon

\* The roll back of a call starts with all that was written still to be put
\* back, and that ends with a page.
LEMMA RollbackKeeps ==
    ASSUME Active, Place, Written, NextMapFails, ~is_rollback
    PROVE  Active' /\ Place' /\ Written' /\ Failed' /\ pc' # "idle"
<1>1. /\ arg \in Calls /\ arg.start \in Nat /\ arg.count \in Nat \ {0}
      /\ arg.start + arg.count <= Pages * PageBits
      /\ cnt \in Nat /\ cnt <= arg.count /\ cnt > 0
      /\ ofs \in Nat /\ pos \in Nat /\ len \in Nat
      /\ ofs < end_ofs /\ Reached = (ofs + 1) * PageBits /\ arg.start < Reached
      /\ Reached + cnt = arg.start + arg.count
  BY DEF NextMapFails, Active, Calls, Place, Reached
<1>2. /\ arg' = RolledBack /\ outer' = arg /\ cnt' = RolledBack.count
      /\ pc' = "first" /\ err' = TRUE /\ bits' = bits /\ before' = before
      /\ ofs' = ofs /\ pos' = pos /\ len' = len
  BY Zenon DEF NextMapFails
<1>3. /\ RolledBack.start = arg.start /\ RolledBack.count = arg.count - cnt
      /\ arg.value => ~RolledBack.value
      /\ ~arg.value => RolledBack.value
  BY Zenon DEF RolledBack
<1>4. arg.count - cnt \in Nat \ {0} /\ arg.count - cnt < arg.count
  BY <1>1
<1>5. RolledBack \in Calls
  <2>1. (~arg.value) \in BOOLEAN
    OBVIOUS
  <2> QED
    BY <1>1, <1>4, <2>1, Zenon DEF RolledBack, Calls
<1>6. is_rollback'
  BY <1>1, <1>2 DEF is_rollback, NoCall
<1>7. Active' /\ Place'
  <2>1. /\ arg' \in Calls /\ arg'.start + arg'.count <= Pages * PageBits
        /\ cnt' \in Nat /\ cnt' <= arg'.count
    BY <1>1, <1>2, <1>3, <1>4, <1>5, Sizes
  <2>2. PageBits' = PageBits
    BY Zenon DEF PageBits
  <2> QED
    BY <1>1, <1>2, <2>1, <2>2, Zenon DEF Active, Place, Calls
<1>8. Reached' = arg.start /\ arg'.start + arg'.count = Reached
  BY <1>1, <1>2, <1>3, <1>4 DEF Reached
<1>9. Failed'
  <2>1. ofs + 1 \in 0..Pages
    <3>1. /\ ofs < end_ofs <=> (ofs + 1) * PageBits < arg.start + arg.count
          /\ (ofs + 1) * PageBits = ofs * PageBits + PageBits /\ ofs * PageBits \in Nat
      BY <1>1, EndPage, Zenon
    <3>2. ASSUME Pages < ofs + 1 PROVE FALSE
      <4>1. Pages * PageBits <= (ofs + 1) * PageBits
        BY <1>1, <3>2, Sizes, Multiply
      <4> QED
        BY <1>1, <3>1, <4>1, Sizes
    <3> QED
      BY <1>1, <3>2, Sizes
  <2>2. arg'.start + arg'.count = (ofs + 1) * PageBits
    BY <1>1, <1>8, Zenon
  <2>3. PageBits' = PageBits
    BY DEF PageBits
  <2> QED
    BY <1>6, <2>1, <2>2, <2>3, Zenon DEF Failed
<1>10. Written'
  <2>1. /\ Fresh(arg)
        /\ arg.value => bits = before \cup arg.start..(Reached - 1)
        /\ ~arg.value => bits = before \ arg.start..(Reached - 1)
    BY CallWritten, Zenon
  <2>2. Fresh(outer)'
    BY <1>2, <2>1, Zenon DEF Fresh, Span
  <2>3. outer' \in Calls' /\ arg'.start = outer'.start /\ arg'.count < outer'.count
    BY <1>1, <1>2, <1>3, <1>4, Zenon DEF Calls
  <2>4. Reached'..(arg'.start + arg'.count - 1) = arg.start..(Reached - 1)
    <3>1. arg'.start \in Nat /\ arg'.count \in Nat /\ Reached \in Int
      BY <1>1, <1>2, <1>3, <1>4 DEF Reached
    <3>2. arg'.start + arg'.count - 1 = Reached - 1
      BY <1>8, <3>1
    <3> QED
      BY <1>8, <3>2, Zenon
  <2>5. ASSUME outer'.value
        PROVE  ~arg'.value /\ bits' = before' \cup Reached'..(arg'.start + arg'.count - 1)
    BY <1>2, <1>3, <2>1, <2>4, <2>5, Zenon
  <2>6. ASSUME ~outer'.value
        PROVE  arg'.value /\ bits' = before' \ Reached'..(arg'.start + arg'.count - 1)
    BY <1>2, <1>3, <2>1, <2>4, <2>6, Zenon
  <2> QED
    BY <1>6, <2>2, <2>3, <2>5, <2>6, Zenon DEF Written
<1> QED
  BY <1>2, <1>7, <1>9, <1>10, Zenon

-----------------------------------------------------------------------------
\* At first no call is under way.
LEMMA InitInv == Init => IInv
  BY Zenon DEF Init, IInv

\* A call has returned.
LEMMA IdleInv ==
    ASSUME Idle
    PROVE  IInv'
  BY Zenon DEF Idle, IInv, NoCall

\* Every step keeps the invariant.
LEMMA NextInv == IInv /\ [Next]_vars => IInv'
<1> SUFFICES ASSUME IInv, [Next]_vars PROVE IInv'
  OBVIOUS
<1>1. CASE UNCHANGED vars
  BY <1>1 DEF vars, IInv, Active, Calls, Place, Written, Failed, Fresh, Span, Reached,
              is_rollback, end_ofs, NoCall, PageBits
<1>2. ASSUME NEW s \in Bits, NEW v \in BOOLEAN, NEW n \in 1..(Pages * PageBits - s),
             Call([start |-> s, count |-> n, value |-> v])
      PROVE  IInv'
  BY <1>2, CallKeeps, Zenon DEF IInv
<1>3. ASSUME Step PROVE IInv'
  <2>1. pc # "idle"
    BY <1>3, Zenon DEF Step, FirstByte, WholeBytes, NextPage, LastByte,
       FirstMapFails, NextMapFails, Done
  <2>2. Active /\ Place /\ Written /\ Failed
    BY <2>1, Zenon DEF IInv
  <2>3. CASE FirstByte
    BY <2>2, <2>3, FirstByteKeeps, Zenon DEF IInv
  <2>4. CASE WholeBytes
    BY <2>2, <2>4, WholeBytesKeeps DEF IInv
  <2>5. CASE NextPage
    BY <2>2, <2>5, NextPageKeeps DEF IInv
  <2>6. CASE LastByte
    BY <2>2, <2>6, LastByteKeeps DEF IInv
  <2>7. CASE FirstMapFails
    BY <2>7, IdleInv, Zenon DEF FirstMapFails
  <2>8. CASE NextMapFails
    <3>1. CASE is_rollback
      BY <2>8, <3>1, IdleInv, Zenon DEF NextMapFails
    <3>2. CASE ~is_rollback
      BY <2>2, <2>8, <3>2, RollbackKeeps, Zenon DEF IInv
    <3> QED
      BY <3>1, <3>2, Zenon
  <2>9. CASE Done
    BY <2>9, IdleInv, Zenon DEF Done
  <2> QED
    BY <1>3, <2>3, <2>4, <2>5, <2>6, <2>7, <2>8, <2>9, Zenon DEF Step
<1> QED
  BY <1>1, <1>2, <1>3, Zenon DEF Next

\* A call changes nothing outside of its run.
LEMMA OutsideUntouched ==
    ASSUME Active, Written, NEW b, b \notin Span(IF is_rollback THEN outer ELSE arg)
    PROVE  b \in bits <=> b \in before
<1>1. /\ arg.start \in Nat /\ arg.count \in Nat \ {0} /\ cnt \in Nat /\ cnt <= arg.count
  BY Zenon DEF Active, Calls
<1>2. CASE ~is_rollback
  <2>1. arg.start..(Reached - 1) \subseteq Span(arg)
    BY <1>1 DEF Span, Reached
  <2>2. b \notin arg.start..(Reached - 1)
    BY <1>2, <2>1, Zenon
  <2> QED
    BY <1>2, <2>2, CallWritten, Zenon
<1>3. CASE is_rollback
  <2>1. outer \in Calls /\ arg.start = outer.start /\ arg.count < outer.count
    BY <1>3, RollbackWritten, Zenon
  <2>2. Reached..(arg.start + arg.count - 1) \subseteq Span(outer)
    BY <1>1, <2>1 DEF Span, Reached, Calls
  <2>3. b \notin Reached..(arg.start + arg.count - 1)
    BY <1>3, <2>2, Zenon
  <2> QED
    BY <1>3, <2>3, RollbackWritten, Zenon
<1> QED
  BY <1>2, <1>3, Zenon

\* The invariant says what was to be shown.
LEMMA InvGivesOnlyTheRun == IInv => OnlyTheRun
<1> SUFFICES ASSUME IInv, pc # "idle" PROVE OnlyTheRun
  BY Zenon DEF OnlyTheRun
<1>1. Active /\ Place /\ Written
  BY Zenon DEF IInv
<1>2. /\ arg.start \in Nat /\ arg.count \in Nat \ {0} /\ cnt \in Nat /\ cnt <= arg.count
      /\ ofs \in Nat /\ len \in Nat /\ Reached + cnt = arg.start + arg.count
      /\ Reached \in Nat
  BY <1>1 DEF Active, Calls, Reached
<1>3. \A b \in Bits \ Span(IF is_rollback THEN outer ELSE arg) : b \in bits <=> b \in before
  BY <1>1, OutsideUntouched, Zenon
<1>4. /\ end_ofs \in Nat
      /\ ofs < end_ofs <=> (ofs + 1) * PageBits < arg.start + arg.count
      /\ (ofs + 1) * PageBits = ofs * PageBits + PageBits /\ ofs * PageBits \in Nat
  BY <1>1, <1>2, EndPage, Zenon
<1>5. ASSUME pc = "pages", ofs < end_ofs PROVE cnt > 0 /\ cnt < arg.count
  <2>1. Reached = (ofs + 1) * PageBits /\ arg.start < Reached
    BY <1>1, <1>5, Zenon DEF Place
  <2> QED
    BY <1>2, <1>4, <1>5, <2>1
<1>6. ASSUME pc = "pages", ofs >= end_ofs
      PROVE  cnt < ByteBits /\ (cnt > 0 => len < PageBytes)
  <2>1. Reached = ofs * PageBits + len * ByteBits /\ len <= PageBytes /\ cnt < ByteBits
    BY <1>1, <1>6, Zenon DEF Place
  <2>2. ASSUME cnt > 0, len = PageBytes PROVE FALSE
    <3>1. Reached = ofs * PageBits + PageBits
      BY <2>1, <2>2, Sizes, Zenon
    <3> QED
      BY <1>2, <1>4, <1>6, <2>2, <3>1, Sizes
  <2> QED
    BY <1>2, <2>1, <2>2, Sizes
<1> QED
  BY <1>3, <1>5, <1>6, Zenon DEF OnlyTheRun

\* For every size of a byte, of a page and of the bitmap, whatever page cannot
\* be mapped: __ntfs_bitmap_set_bits_in_run() changes no bit outside of its
\* run, has bits left for every page it maps, and finds less than a byte left
\* in the last one.
THEOREM OnlyTheRunHolds == Spec => []OnlyTheRun
  BY InitInv, NextInv, InvGivesOnlyTheRun, PTL DEF Spec

-----------------------------------------------------------------------------
\* The page of a bit, counted in bits.
LEMMA PagesOf ==
    ASSUME NEW b \in Nat, NEW k \in Nat
    PROVE  /\ b \div PageBits \in Nat
           /\ k <= b \div PageBits <=> k * PageBits <= b
           /\ b \div PageBits < k <=> b < k * PageBits
<1> DEFINE d == b \div PageBits
           r == b % PageBits
<1>1. d \in Nat /\ r \in Nat /\ r < PageBits /\ b = (d * PageBits) + r
  BY Sizes, Divide, Zenon
<1> HIDE DEF d, r
<1>2. d * PageBits \in Nat /\ k * PageBits \in Nat
  BY <1>1, Sizes, Multiply, Zenon
<1>3. ASSUME k <= d PROVE k * PageBits <= b
  <2>1. k * PageBits <= d * PageBits
    BY <1>1, <1>3, Sizes, Multiply, Zenon
  <2> QED
    BY <1>1, <1>2, <2>1
<1>4. ASSUME d < k PROVE b < k * PageBits
  <2>1. (d + 1) * PageBits <= k * PageBits
    BY <1>1, <1>4, Sizes, Multiply
  <2>2. (d + 1) * PageBits = d * PageBits + 1 * PageBits
    BY <1>1, Sizes, Multiply
  <2> QED
    BY <1>1, <1>2, <2>1, <2>2, Sizes
<1> QED
  BY <1>1, <1>2, <1>3, <1>4 DEF d

Changed == (bits \ before) \cup (before \ bits)

\* What a roll back has not put back yet is the part of the run in whole pages.
LEMMA LeftOver ==
    ASSUME Active, Written, is_rollback, NEW p \in Nat, NEW q \in Nat,
           arg.start + arg.count = q * PageBits,
           p * PageBits = Reached \/ (p = 0 /\ Reached = arg.start)
    PROVE  Changed = {b \in Span(outer) : p <= b \div PageBits /\ b \div PageBits < q}
<1>1. /\ arg.start \in Nat /\ arg.count \in Nat \ {0} /\ cnt \in Nat /\ cnt <= arg.count
      /\ Reached \in Nat /\ arg.start <= Reached /\ Reached <= arg.start + arg.count
  BY DEF Active, Calls, Reached
<1>2. /\ outer \in Calls /\ Fresh(outer) /\ arg.start = outer.start
      /\ arg.count < outer.count
      /\ outer.value => bits = before \cup Reached..(arg.start + arg.count - 1)
      /\ ~outer.value => bits = before \ Reached..(arg.start + arg.count - 1)
  BY RollbackWritten, Zenon
<1>3. outer.start \in Nat /\ outer.count \in Nat
  BY <1>2, Zenon DEF Calls
<1>4. Reached..(arg.start + arg.count - 1) \subseteq Span(outer)
  BY <1>1, <1>2, <1>3 DEF Span
<1>5. Changed = Reached..(arg.start + arg.count - 1)
  <2>1. CASE outer.value
    <3>1. Span(outer) \cap before = {}
      BY <1>2, <2>1, Zenon DEF Fresh
    <3>2. bits = before \cup Reached..(arg.start + arg.count - 1)
      BY <1>2, <2>1, Zenon
    <3> QED
      BY <1>4, <3>1, <3>2, Zenon DEF Changed
  <2>2. CASE ~outer.value
    <3>1. Span(outer) \subseteq before
      BY <1>2, <2>2, Zenon DEF Fresh
    <3>2. bits = before \ Reached..(arg.start + arg.count - 1)
      BY <1>2, <2>2, Zenon
    <3> QED
      BY <1>4, <3>1, <3>2, Zenon DEF Changed
  <2> QED
    BY <2>1, <2>2, Zenon
<1>6. ASSUME NEW b \in Span(outer)
      PROVE  b \in Reached..(arg.start + arg.count - 1)
                <=> p <= b \div PageBits /\ b \div PageBits < q
  <2>1. b \in Nat /\ arg.start <= b
    BY <1>2, <1>3 DEF Span
  <2>2. /\ p <= b \div PageBits <=> p * PageBits <= b
        /\ b \div PageBits < q <=> b < q * PageBits
    BY <2>1, PagesOf, Zenon
  <2>3. 0 * PageBits = 0
    BY Sizes
  <2>4. p * PageBits <= b <=> Reached <= b
    BY <1>1, <2>1, <2>3
  <2>5. b \in Reached..(arg.start + arg.count - 1)
           <=> Reached <= b /\ b < arg.start + arg.count
    BY <1>1, <2>1
  <2> QED
    BY <2>2, <2>4, <2>5, Zenon
<1> QED
  BY <1>4, <1>5, <1>6, Zenon

\* What holds when a call returns.
LEMMA Returns ==
    ASSUME IInv, Step, pc' = "idle"
    PROVE  /\ pc = "done" /\ ~is_rollback =>
                bits = IF arg.value THEN before \cup Span(arg) ELSE before \ Span(arg)
           /\ err' /\ ~errors' => bits' = before
           /\ err' => \E p, q \in 0..Pages :
                         Changed' = {b \in Span(IF is_rollback THEN outer ELSE arg) :
                                       p <= b \div PageBits /\ b \div PageBits < q}
<1>1. pc # "idle" /\ bits' = bits /\ before' = before
  BY Zenon DEF Step, FirstByte, WholeBytes, NextPage, LastByte, FirstMapFails,
     NextMapFails, Done
<1>2. Active /\ Place /\ Written /\ Failed
  BY <1>1, Zenon DEF IInv
<1>3. /\ arg.start \in Nat /\ arg.count \in Nat \ {0} /\ cnt \in Nat /\ cnt <= arg.count
      /\ Reached = arg.start + arg.count - cnt /\ ofs \in Nat
  BY <1>2, Zenon DEF Active, Calls, Reached
<1>4. Changed' = Changed
  BY <1>1, Zenon DEF Changed
<1>5. \/ FirstMapFails /\ pc = "first" /\ err'
      \/ NextMapFails /\ is_rollback /\ pc = "pages" /\ err' /\ errors'
      \/ Done /\ pc = "done" /\ err' = err
  BY <1>1, Zenon DEF Step, FirstByte, WholeBytes, NextPage, LastByte,
     FirstMapFails, NextMapFails, Done
<1>6. ASSUME pc = "done", ~is_rollback
      PROVE  bits = IF arg.value THEN before \cup Span(arg) ELSE before \ Span(arg)
  <2>1. Span(arg) = arg.start..(Reached - 1)
    BY <1>2, <1>3, <1>6 DEF Place, Span
  <2> QED
    BY <1>2, <1>6, <2>1, CallWritten, Zenon
<1>7. ASSUME ~is_rollback, err' PROVE bits = before
  <2>1. cnt = arg.count
    BY <1>2, <1>5, <1>7, Zenon DEF Place, Failed
  <2>2. arg.start..(Reached - 1) = {}
    BY <1>3, <2>1
  <2> QED
    BY <1>2, <1>7, <2>2, CallWritten, Zenon
<1>8. ASSUME is_rollback, pc = "done" PROVE bits = before
  <2>1. Reached..(arg.start + arg.count - 1) = {}
    BY <1>2, <1>3, <1>8 DEF Place
  <2> QED
    BY <1>2, <1>8, <2>1, RollbackWritten, Zenon
<1>9. ASSUME err', ~errors' PROVE bits' = before
  <2>1. CASE is_rollback
    <3>1. pc = "done"
      BY <1>5, <1>9, <2>1, Zenon DEF FirstMapFails
    <3> QED
      BY <1>1, <1>8, <2>1, <3>1, Zenon
  <2>2. CASE ~is_rollback
    BY <1>1, <1>7, <1>9, <2>2, Zenon
  <2> QED
    BY <2>1, <2>2, Zenon
<1>10. ASSUME err'
       PROVE  \E p, q \in 0..Pages :
                 Changed' = {b \in Span(IF is_rollback THEN outer ELSE arg) :
                               p <= b \div PageBits /\ b \div PageBits < q}
  <2>1. CASE ~is_rollback
    <3>1. Changed' = {}
      BY <1>4, <1>7, <1>10, <2>1, Zenon DEF Changed
    <3>2. {b \in Span(arg) : 0 <= b \div PageBits /\ b \div PageBits < 0} = {}
      <4>1. ASSUME NEW b \in Span(arg) PROVE b \div PageBits \in Nat
        BY <1>3, PagesOf DEF Span
      <4> QED
        BY <4>1
    <3>3. 0 \in 0..Pages
      BY Sizes
    <3> QED
      BY <2>1, <3>1, <3>2, <3>3, Zenon
  <2>2. CASE is_rollback
    <3>1. PICK q \in 0..Pages : arg.start + arg.count = q * PageBits
      BY <1>2, <2>2, Zenon DEF Failed
    <3>2. \E p \in 0..Pages : p * PageBits = Reached \/ (p = 0 /\ Reached = arg.start)
      <4>1. CASE pc = "first"
        <5>1. Reached = arg.start
          BY <1>2, <1>3, <4>1 DEF Place
        <5> QED
          BY <5>1, Sizes
      <4>2. CASE pc = "done"
        <5>1. Reached = arg.start + arg.count
          BY <1>2, <1>3, <4>2 DEF Place
        <5> QED
          BY <3>1, <5>1, Zenon
      <4>3. CASE pc = "pages"
        <5>1. ofs < end_ofs
          BY <1>5, <4>3, Zenon DEF NextMapFails
        <5>2. Reached = (ofs + 1) * PageBits
          BY <1>2, <4>3, <5>1, Zenon DEF Place
        <5>3. (ofs + 1) * PageBits < q * PageBits
          BY <1>2, <1>3, <3>1, <5>1, EndPage, Zenon
        <5>4. ASSUME q < ofs + 1 PROVE FALSE
          <6>1. q * PageBits <= (ofs + 1) * PageBits
            BY <1>3, <5>4, Sizes, Multiply
          <6>2. q * PageBits \in Nat /\ (ofs + 1) * PageBits \in Nat
            BY <1>3, Sizes, Multiply
          <6> QED
            BY <5>3, <6>1, <6>2
        <5>5. ofs + 1 \in 0..Pages
          BY <1>3, <5>4, Sizes
        <5> QED
          BY <5>2, <5>5, Zenon
      <4> QED
        BY <1>5, <4>1, <4>2, <4>3, Zenon
    <3>3. PICK p \in 0..Pages : p * PageBits = Reached \/ (p = 0 /\ Reached = arg.start)
      BY <3>2, Zenon
    <3>4. p \in Nat /\ q \in Nat
      BY Sizes
    <3>5. Changed = {b \in Span(outer) : p <= b \div PageBits /\ b \div PageBits < q}
      BY <1>2, <2>2, <3>1, <3>3, <3>4, LeftOver, Zenon
    <3> QED
      BY <1>4, <2>2, <3>5, Zenon
  <2> QED
    BY <2>1, <2>2, Zenon
<1> QED
  BY <1>6, <1>9, <1>10, Zenon

\* For every size of a byte, of a page and of the bitmap: a call of
\* __ntfs_bitmap_set_bits_in_run() that succeeds has written its run, one that
\* fails has changed nothing or set the volume errors flag, and what a failed
\* roll back leaves changed is the part of the run in some whole pages.
THEOREM AllOrNothingHolds == Spec => AllOrNothing
<1>1. IInv /\ [Next]_vars =>
      [/\ pc = "done" /\ pc' = "idle" /\ ~is_rollback
            => bits = IF arg.value THEN before \cup Span(arg)
                                   ELSE before \ Span(arg)
       /\ pc' = "idle" /\ err' /\ ~errors' => bits' = before
       /\ pc # "idle" /\ pc' = "idle" /\ err' =>
            LET changed == (bits' \ before) \cup (before \ bits')
            IN  \E p, q \in 0..Pages :
                  changed = {b \in Span(IF is_rollback THEN outer ELSE arg) :
                               p <= b \div PageBits /\ b \div PageBits < q}]_vars
  <2> SUFFICES ASSUME IInv, Next, pc' = "idle"
               PROVE  /\ pc = "done" /\ ~is_rollback
                            => bits = IF arg.value THEN before \cup Span(arg)
                                                   ELSE before \ Span(arg)
                      /\ err' /\ ~errors' => bits' = before
                      /\ err' =>
                           \E p, q \in 0..Pages :
                             (bits' \ before) \cup (before \ bits')
                               = {b \in Span(IF is_rollback THEN outer ELSE arg) :
                                    p <= b \div PageBits /\ b \div PageBits < q}
    OBVIOUS
  <2>1. Step
    BY Zenon DEF Next, Call
  <2>2. before' = before
    BY <2>1, Zenon DEF Step, FirstByte, WholeBytes, NextPage, LastByte,
       FirstMapFails, NextMapFails, Done
  <2>3. Changed' = (bits' \ before) \cup (before \ bits')
    BY <2>2, Zenon DEF Changed
  <2> QED
    BY <2>1, <2>3, Returns, Zenon
<1> QED
  BY <1>1, InitInv, NextInv, PTL DEF Spec, AllOrNothing
=============================================================================
