----------------------------- MODULE MappingPairs ----------------------------
(***************************************************************************)
(* The mapping pairs arrays of kext/ntfs_runlist.c: how the part of a      *)
(* runlist that starts at first_vcn is packed into the attribute records   *)
(* of one extent after the other (ntfs_mapping_pairs_build()), how much    *)
(* room it needs (ntfs_get_size_for_mapping_pairs()), and how each array   *)
(* is unpacked again (ntfs_mapping_pairs_decompress()).                    *)
(*                                                                         *)
(* An array is a sequence of bytes: for each run a header with the sizes   *)
(* of its two numbers, the length of the run and the change in lcn, both   *)
(* signed and of as many bytes as they need; then a zero byte.  A byte of  *)
(* a number has ByteBits bits, so that small numbers have several bytes.   *)
(***************************************************************************)
EXTENDS Runlist, FiniteSetsExt

CONSTANTS
    ByteBits,   \* the bits of a byte of a number
    Lcns,       \* the lcns, holes included, and
    Lengths,    \* the lengths of the runs of a runlist
    MaxRuns,    \* how many runs a runlist has
    Rooms,      \* the sizes of attribute records' mapping pairs arrays
    MajorVers   \* the versions of NTFS a volume may have

ASSUME MappingPairsAssumption ==
    /\ ByteBits \in Nat \ {0, 1} /\ MaxRuns \in Nat \ {0}
    /\ Lcns \subseteq Int /\ \A l \in Lcns : l >= LCN_HOLE
    /\ Lengths \subseteq Nat \ {0} /\ Rooms \subseteq Nat \ {0}
    /\ MajorVers \subseteq 1..3

VARIABLES
    pc,         \* "start", "build", "read" or "done"
    major_ver,  \* the version of the volume
    rl,         \* the runlist
    origin,     \* the vcn at which the first array starts (history)
    first_vcn, last_vcn, dst_len,   \* the arguments of the build
    i, dst, prev_lcn, the_end,      \* its position and its output
    err, stop_vcn,                  \* its results
    buf, vcn, lcn,                  \* the position of the decompression
    out         \* the runs decompressed from all arrays so far

argVars == <<origin, first_vcn, last_vcn, dst_len>>
buildVars == <<i, dst, prev_lcn, the_end>>
readVars == <<buf, vcn, lcn, out>>
vars == <<pc, major_ver, rl, argVars, buildVars, err, stop_vcn, readVars>>

Byte == 2^ByteBits
Signed(b) == IF b >= Byte \div 2 THEN b - Byte ELSE b

\* The bytes of the numbers the model deals with.
MaxBytes == 8

\* The loop that shifts a number until only its sign is left.
Shifts(n) ==
    CHOOSE k \in 1..MaxBytes :
        /\ n \div Byte^k \in {0, -1}
        /\ \A j \in 1..(k - 1) : n \div Byte^j \notin {0, -1}

TopByte(n) == Signed((n \div Byte^(Shifts(n) - 1)) % Byte)

ntfs_get_nr_significant_bytes(n) ==
    Shifts(n) + (IF (n < 0 /\ TopByte(n) >= 0) \/ (n > 0 /\ TopByte(n) < 0)
                 THEN 1 ELSE 0)

ntfs_write_significant_bytes(n) ==
    [k \in 1..Shifts(n) |-> (n \div Byte^(k - 1)) % Byte]
      \o (IF n < 0 /\ TopByte(n) >= 0 THEN <<Byte - 1>>
          ELSE IF n > 0 /\ TopByte(n) < 0 THEN <<0>>
          ELSE <<>>)

\* A hole has no lcn on a volume of version 3.0 or newer.
HasLcn(r) == r.lcn >= 0 \/ major_ver < 3
-----------------------------------------------------------------------------
(***************************************************************************)
(* What the build writes for run r.  The part of it before first_vcn is    *)
(* left out, and so is the part after last_vcn.                            *)
(***************************************************************************)

EndsInside(r) == last_vcn >= 0 /\ EndOf(r) > last_vcn

CappedLength(r) ==
    IF EndsInside(r) /\ EndOf(r) > last_vcn + 1 THEN last_vcn + 1 - r.vcn
    ELSE r.length

SkippedOf(r) == IF first_vcn > r.vcn THEN first_vcn - r.vcn ELSE 0

PairLength(r) == CappedLength(r) - SkippedOf(r)

PairLcn(r) == IF r.lcn >= 0 THEN r.lcn + SkippedOf(r) ELSE r.lcn

PairBytes(r) ==
    LET len == ntfs_write_significant_bytes(PairLength(r))
        chg == IF HasLcn(r)
               THEN ntfs_write_significant_bytes(PairLcn(r) - prev_lcn) ELSE <<>>
    IN  <<Len(chg) * 16 + Len(len)>> \o len \o chg

(***************************************************************************)
(* ntfs_get_size_for_mapping_pairs(): the same walk, counting only.        *)
(***************************************************************************)

Lowest(a, b) == IF a < b THEN a ELSE b

ntfs_get_size_for_mapping_pairs ==
    LET upto == IF last_vcn < 0 THEN Len(rl) - 1
                ELSE Lowest(Find(rl, last_vcn), Len(rl) - 1)
        Count(acc, r) ==
            [size |-> acc.size + 1 + ntfs_get_nr_significant_bytes(PairLength(r))
                        + (IF HasLcn(r)
                           THEN ntfs_get_nr_significant_bytes(PairLcn(r) - acc.prev)
                           ELSE 0),
             prev |-> IF HasLcn(r) THEN PairLcn(r) ELSE acc.prev]
    IN  FoldLeft(Count, [size |-> 1, prev |-> 0],
                 SubSeq(rl, Find(rl, first_vcn), upto)).size
-----------------------------------------------------------------------------
RunSeqs == UNION {[1..n -> [lcn : Lcns, length : Lengths]] : n \in 1..MaxRuns}

VcnBefore(s, n) == FoldLeft(LAMBDA v, r : v + r.length, 0, SubSeq(s, 1, n - 1))

\* The runlist with these runs.
RunlistOf(s) ==
    [n \in 1..(Len(s) + 1) |->
        IF n <= Len(s) THEN Run(VcnBefore(s, n), s[n].lcn, s[n].length)
        ELSE Run(VcnBefore(s, n), LCN_ENOENT, 0)]

EndVcn == Last(rl).vcn

Init ==
    /\ rl \in {RunlistOf(s) : s \in RunSeqs}
    /\ first_vcn \in 0..(EndVcn - 1)
    /\ last_vcn \in {-1} \cup first_vcn..(EndVcn - 1)
    /\ major_ver \in MajorVers
    /\ origin = first_vcn
    /\ pc = "start"
    /\ dst_len = 0 /\ i = 0 /\ dst = <<>> /\ prev_lcn = 0 /\ the_end = FALSE
    /\ err = "none" /\ stop_vcn = first_vcn
    /\ buf = 0 /\ vcn = 0 /\ lcn = 0 /\ out = <<>>

(***************************************************************************)
(* ntfs_mapping_pairs_build(), a run at a time, into an attribute record   *)
(* that has room for dst_len bytes.                                        *)
(***************************************************************************)

StartBuild(room) ==
    /\ pc = "start"
    /\ dst_len' = room
    /\ i' = Find(rl, first_vcn)
    /\ dst' = <<>> /\ prev_lcn' = 0 /\ the_end' = FALSE
    /\ pc' = "build"
    /\ UNCHANGED <<major_ver, rl, origin, first_vcn, last_vcn, err, stop_vcn, readVars>>

AtEnd == rl[i].length = 0 \/ the_end

\* Mutant: no byte is kept for the terminator.
FitsExactly(bytes) == Len(dst) + Len(bytes) <= dst_len

\* dst_next does not go past dst_max: a byte is left for the terminator.
Fits(bytes) == Len(dst) + Len(bytes) < dst_len

\* Mutant: prev_lcn is also set to the lcn of a hole.
PrevLcnAlways(r) == PairLcn(r)

PrevLcn(r) == IF HasLcn(r) THEN PairLcn(r) ELSE prev_lcn

BuildRun ==
    /\ pc = "build"
    /\ ~AtEnd
    /\ Fits(PairBytes(rl[i]))
    /\ dst' = dst \o PairBytes(rl[i])
    /\ prev_lcn' = PrevLcn(rl[i])
    /\ the_end' = EndsInside(rl[i])
    /\ i' = i + 1
    /\ UNCHANGED <<pc, major_ver, rl, argVars, err, stop_vcn, readVars>>

\* Success, or ENOSPC with all the pairs that fit.
BuildDone ==
    /\ pc = "build"
    /\ AtEnd \/ ~Fits(PairBytes(rl[i]))
    /\ err' = IF AtEnd THEN "none" ELSE "ENOSPC"
    /\ stop_vcn' = rl[i].vcn
    /\ dst' = Append(dst, 0)
    /\ buf' = 1 /\ vcn' = first_vcn /\ lcn' = 0
    /\ pc' = "read"
    /\ UNCHANGED <<major_ver, rl, argVars, i, prev_lcn, the_end, out>>
-----------------------------------------------------------------------------
(***************************************************************************)
(* ntfs_mapping_pairs_decompress(), a pair at a time, of the array just    *)
(* built.  The caller of the build has set highest_vcn to last_vcn, or     *)
(* from stop_vcn where that is not given or was not reached.               *)
(***************************************************************************)

\* The signed number in bytes from..to of the array, least significant first.
Number(from, to) ==
    FoldRight(LAMBDA b, n : n * Byte + b, SubSeq(dst, from, to - 1), Signed(dst[to]))

Header == dst[buf]
LenBytes == Header % 16
LcnBytes == Header \div 16

NewLcn == lcn + Number(buf + LenBytes + 1, buf + LenBytes + LcnBytes)

ReadPair ==
    /\ pc = "read"
    /\ Header # 0
    /\ LET length == Number(buf + 1, buf + LenBytes)
           bad == length < 0 \/ (LcnBytes # 0 /\ NewLcn < LCN_HOLE)
       IN  IF bad
           THEN /\ err' = "EIO"
                /\ pc' = "done"
                /\ UNCHANGED readVars
           ELSE /\ out' = Append(out, Run(vcn, IF LcnBytes = 0 THEN LCN_HOLE
                                               ELSE NewLcn, length))
                /\ lcn' = IF LcnBytes = 0 THEN lcn ELSE NewLcn
                /\ vcn' = vcn + length
                /\ buf' = buf + LenBytes + LcnBytes + 1
                /\ UNCHANGED <<pc, err>>
    /\ UNCHANGED <<major_ver, rl, argVars, buildVars, stop_vcn>>

highest_vcn == IF last_vcn >= 0 /\ err = "none" THEN last_vcn ELSE stop_vcn - 1

\* The vcn reached must agree with highest_vcn.  After ENOSPC the build goes on
\* at stop_vcn in the next extent, or in a larger record if nothing fitted.
ReadDone ==
    /\ pc = "read"
    /\ Header = 0
    /\ IF vcn - 1 # highest_vcn /\ stop_vcn > first_vcn
       THEN err' = "EIO" /\ pc' = "done" /\ UNCHANGED first_vcn
       ELSE /\ pc' = IF err = "ENOSPC" THEN "start" ELSE "done"
            /\ first_vcn' = IF pc' = "start" /\ stop_vcn > first_vcn
                            THEN stop_vcn ELSE first_vcn
            /\ UNCHANGED err
    /\ UNCHANGED <<major_ver, rl, origin, last_vcn, dst_len, buildVars, stop_vcn, readVars>>

Next ==
    \/ \E room \in Rooms : StartBuild(room)
    \/ BuildRun \/ BuildDone \/ ReadPair \/ ReadDone

Spec == Init /\ [][Next]_vars
-----------------------------------------------------------------------------
(***************************************************************************)
(* Properties.                                                             *)
(***************************************************************************)

\* Where a runlist without a terminator puts vcn v.
Place(runs, v) ==
    LET r == CHOOSE x \in Range(runs) : x.vcn <= v /\ v < EndOf(x)
    IN  IF r.lcn >= 0 THEN r.lcn + v - r.vcn ELSE r.lcn

\* However the mapping pairs are spread over extents, reading the extents back
\* gives every cluster from where the build began the place the runlist gave
\* it, without a gap and without an overlap, and no array that was built is
\* found to be corrupt.
ReadBackExact ==
    pc \in {"start", "done"} =>
        LET end == IF out = <<>> THEN origin ELSE EndOf(Last(out))
        IN  /\ err # "EIO"
            /\ out # <<>> => out[1].vcn = origin
            /\ \A n \in 1..(Len(out) - 1) : EndOf(out[n]) = out[n + 1].vcn
            /\ \A v \in origin..(end - 1) :
                  Place(out, v) = ntfs_rl_vcn_to_lcn(rl, v)
            /\ pc = "done" =>
                  end = IF last_vcn < 0 THEN EndVcn ELSE last_vcn + 1

\* The size computed beforehand is exactly what the build needs: a smaller
\* record is too small and a larger one is filled up to that size.
SizeExact ==
    (pc = "read" /\ buf = 1) =>
        IF dst_len >= ntfs_get_size_for_mapping_pairs
        THEN err = "none" /\ Len(dst) = ntfs_get_size_for_mapping_pairs
        ELSE err = "ENOSPC" /\ Len(dst) <= dst_len
=============================================================================
