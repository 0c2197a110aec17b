------------------------------- MODULE Runlist -------------------------------
(***************************************************************************)
(* The runlists of kext/ntfs_runlist.c: arrays of elements [vcn, lcn,      *)
(* length] that map the virtual clusters of an attribute to clusters of    *)
(* the volume, the last one a terminator of length zero.  Every function   *)
(* of the file that changes a runlist is an operator from the old array to *)
(* the new one.                                                            *)
(*                                                                         *)
(* Arrays are sequences, so indices count from 1; alloc_count, which only  *)
(* says how much memory an array has, is left out.  An operator indexes a  *)
(* sequence where the code indexes the array, so an access outside the     *)
(* elements of a runlist is an error of evaluation.                        *)
(***************************************************************************)
EXTENDS Integers, Sequences, SequencesExt

LCN_HOLE == -1
LCN_RL_NOT_MAPPED == -2
LCN_ENOENT == -3

Run(v, l, n) == [vcn |-> v, lcn |-> l, length |-> n]
EndOf(r) == r.vcn + r.length
Longer(r, n) == [r EXCEPT !.length = @ + n]

\* Both results of a call: the error code and the runlist it leaves.
Returns(e, rl) == [err |-> e, rl |-> rl]
-----------------------------------------------------------------------------
(***************************************************************************)
(* Looking a vcn up.                                                       *)
(***************************************************************************)

\* The loops that step to the run with v, or to the terminator.
Find(rl, v) ==
    CHOOSE i \in 1..Len(rl) :
        /\ rl[i].length = 0 \/ v < rl[i + 1].vcn
        /\ \A j \in 1..(i - 1) : rl[j].length # 0 /\ v >= rl[j + 1].vcn

ntfs_rl_vcn_to_lcn(rl, v) ==
    IF rl = <<>> THEN LCN_RL_NOT_MAPPED
    ELSE IF v < rl[1].vcn THEN LCN_ENOENT
    ELSE LET r == rl[Find(rl, v)]
         IN  IF r.length # 0 THEN IF r.lcn >= 0 THEN r.lcn + v - r.vcn ELSE r.lcn
             ELSE IF r.lcn < 0 THEN r.lcn ELSE LCN_ENOENT

\* The index of the run with v, 0 for NULL.
ntfs_rl_find_vcn_nolock(rl, v) ==
    IF rl = <<>> \/ v < rl[1].vcn THEN 0
    ELSE LET i == Find(rl, v)
         IN  IF \/ rl[i].length # 0 /\ rl[i].lcn >= LCN_HOLE
                \/ rl[i].length = 0 /\ rl[i].lcn = LCN_ENOENT
             THEN i ELSE 0
-----------------------------------------------------------------------------
(***************************************************************************)
(* Merging runlist s into runlist d: the four ways in which the relevant   *)
(* runs src of s meet the run of d at index loc.                           *)
(***************************************************************************)

\* Mutant: runs that meet are merged wherever they are on the volume.
CanMergeAnywhere(dst, src) ==
    \/ dst.lcn = LCN_RL_NOT_MAPPED /\ src.lcn = LCN_RL_NOT_MAPPED
    \/ /\ EndOf(dst) = src.vcn
       /\ \/ dst.lcn >= 0 /\ src.lcn >= 0
          \/ dst.lcn = LCN_HOLE /\ src.lcn = LCN_HOLE

ntfs_rl_can_merge(dst, src) ==
    \/ dst.lcn = LCN_RL_NOT_MAPPED /\ src.lcn = LCN_RL_NOT_MAPPED
    \/ /\ EndOf(dst) = src.vcn
       /\ \/ dst.lcn >= 0 /\ src.lcn >= 0 /\ dst.lcn + dst.length = src.lcn
          \/ dst.lcn = LCN_HOLE /\ src.lcn = LCN_HOLE

\* The last run of head meets a tail whose end marker may have to move.
JoinAtEndMarker(head, tail) ==
    IF tail # <<>> /\ tail[1].lcn = LCN_ENOENT
    THEN head \o <<[tail[1] EXCEPT !.vcn = EndOf(Last(head))]>> \o Tail(tail)
    ELSE head \o tail

\* src grown by the run of d after loc, if they can be merged.
MergeRight(d, src, right, loc) ==
    IF right THEN ReplaceAt(src, Len(src), Longer(Last(src), d[loc + 1].length))
    ELSE src

\* The runs of d before loc, the last one grown by the first run of src.
MergeLeft(d, src, left, loc) ==
    IF left THEN SubSeq(d, 1, loc - 2) \o <<Longer(d[loc - 1], src[1].length)>>
    ELSE SubSeq(d, 1, loc - 1)

CanMergeRight(d, src, loc) ==
    loc < Len(d) /\ ntfs_rl_can_merge(Last(src), d[loc + 1])

ntfs_rl_replace(d, src, loc) ==
    LET left == loc > 1 /\ ntfs_rl_can_merge(d[loc - 1], src[1])
        right == CanMergeRight(d, src, loc)
        grown == MergeRight(d, src, right, loc)
    IN  JoinAtEndMarker(MergeLeft(d, grown, left, loc)
                            \o (IF left THEN Tail(grown) ELSE grown),
                        SubSeq(d, loc + (IF right THEN 2 ELSE 1), Len(d)))

ntfs_rl_insert(d, src, loc) ==
    LET left == loc > 1 /\ ntfs_rl_can_merge(d[loc - 1], src[1])
        merged_length == d[loc - 1].length + (IF left THEN src[1].length ELSE 0)
        disc == IF loc = 1 THEN src[1].vcn > 0
                ELSE src[1].vcn > d[loc - 1].vcn + merged_length
        before == MergeLeft(d, src, left, loc)
        gap_vcn == IF loc = 1 THEN 0 ELSE EndOf(Last(before))
        rest == IF left THEN Tail(src) ELSE src
        gap == IF disc THEN <<Run(gap_vcn, LCN_RL_NOT_MAPPED,
                                  rest[1].vcn - gap_vcn)>>
               ELSE <<>>
        head == before \o gap \o rest
        next == [d[loc] EXCEPT !.vcn = EndOf(Last(head))]
    IN  head
          \o <<IF d[loc].lcn \in {LCN_HOLE, LCN_RL_NOT_MAPPED}
               THEN [next EXCEPT !.length = d[loc + 1].vcn - next.vcn]
               ELSE next>>
          \o SubSeq(d, loc + 1, Len(d))

\* Mutant: the hole before the appended runs keeps its length.
AppendNoAdjust(d, src, loc) ==
    SubSeq(d, 1, loc) \o src \o SubSeq(d, loc + 1, Len(d))

\* When loc is the terminator of d, the code also looks at the element after
\* the new end of the array; what it may change there is not in the runlist.
ntfs_rl_append(d, src, loc) ==
    LET right == CanMergeRight(d, src, loc)
        grown == MergeRight(d, src, right, loc)
    IN  JoinAtEndMarker(
            SubSeq(d, 1, loc - 1)
              \o <<[d[loc] EXCEPT !.length = grown[1].vcn - d[loc].vcn]>>
              \o grown,
            SubSeq(d, loc + (IF right THEN 2 ELSE 1), Len(d)))

ntfs_rl_split(d, src, loc) ==
    LET resume == EndOf(Last(src))
    IN  SubSeq(d, 1, loc - 1)
          \o <<[d[loc] EXCEPT !.length = src[1].vcn - d[loc].vcn]>>
          \o src
          \o <<Run(resume, d[loc].lcn, d[loc + 1].vcn - resume)>>
          \o SubSeq(d, loc + 1, Len(d))

(***************************************************************************)
(* The end of ntfs_rl_merge(): the source ended with an end of attribute   *)
(* marker at marker_vcn, and the merged runlist ends no later.             *)
(***************************************************************************)
PutEndMarker(rl, marker_vcn) ==
    LET end == Last(rl)
        kept == IF end.lcn = LCN_ENOENT THEN Front(rl) ELSE rl
        run == Last(kept)
        unmapped ==
            IF run.lcn = LCN_RL_NOT_MAPPED
            THEN Front(kept) \o
                   <<[run EXCEPT !.length = marker_vcn - run.vcn]>>
            ELSE LET from == IF end.lcn = LCN_ENOENT THEN end.vcn ELSE EndOf(run)
                 IN  Append(kept, Run(from, LCN_RL_NOT_MAPPED, marker_vcn - from))
    IN  IF end.vcn > marker_vcn THEN rl
        ELSE IF end.vcn = marker_vcn
             THEN ReplaceAt(rl, Len(rl), [end EXCEPT !.lcn = LCN_ENOENT])
        ELSE Append(unmapped, Run(marker_vcn, LCN_ENOENT, 0))

\* Mutant: an unmapped region counts as an overlap as well.
OverlapAnything(at, first) == at.vcn = first.vcn

\* The sanity check for illegal overlaps.
Overlap(at, first) == at.vcn = first.vcn /\ at.lcn >= 0 /\ first.lcn >= 0

ntfs_rl_merge(d, s) ==
    LET s_start == CHOOSE i \in 1..Len(s) :
                       /\ s[i].length = 0 \/ s[i].lcn >= LCN_HOLE
                       /\ \A j \in 1..(i - 1) : s[j].length # 0 /\ s[j].lcn < LCN_HOLE
        s_final == SelectLastInSeq(s, LAMBDA r : r.lcn >= LCN_HOLE)
        end == Last(s)
        d_ins == Find(d, s[s_start].vcn)
        at == d[d_ins]
        start == at.lcn < LCN_RL_NOT_MAPPED \/ at.vcn = s[s_start].vcn
        reaches == at.lcn >= LCN_RL_NOT_MAPPED /\ EndOf(at) <= end.vcn
        \* Replacing a terminator needs the terminator of the source too.
        extra == IF reaches /\ at.length = 0 THEN 1 ELSE 0
        src == SubSeq(s, s_start, s_final + extra)
        finish == /\ reaches
                  /\ end.lcn = LCN_ENOENT => EndOf(at) <= s[Len(s) - 1].vcn
        merged == IF start
                  THEN IF finish THEN ntfs_rl_replace(d, src, d_ins)
                       ELSE ntfs_rl_insert(d, src, d_ins)
                  ELSE IF finish THEN ntfs_rl_append(d, src, d_ins)
                       ELSE ntfs_rl_split(d, src, d_ins)
    IN  IF s = <<>> THEN Returns("none", d)
        ELSE IF d = <<>>
             THEN Returns("none",
                      IF s[1].vcn = 0 THEN s
                      ELSE <<Run(0, LCN_RL_NOT_MAPPED, s[1].vcn)>> \o s)
        ELSE IF s[s_start].length = 0 THEN Returns("panic", d)
        ELSE IF Overlap(at, s[s_start]) THEN Returns("ERANGE", d)
        ELSE Returns("none", IF end.lcn = LCN_ENOENT
                             THEN PutEndMarker(merged, end.vcn) ELSE merged)
-----------------------------------------------------------------------------
(***************************************************************************)
(* Cutting a runlist short, or extending it with a hole.                   *)
(***************************************************************************)

ntfs_rl_truncate_nolock(rl, new_length) ==
    LET element == CHOOSE i \in 1..Len(rl) :
                       /\ i = Len(rl) \/ new_length < rl[i + 1].vcn
                       /\ \A j \in 1..(i - 1) : new_length >= rl[j + 1].vcn
        r == rl[element]
        end == Run(new_length, LCN_ENOENT, 0)
        Upto(i) == SubSeq(rl, 1, i)
        shrunk == IF new_length > r.vcn
                  THEN Upto(element - 1)
                         \o <<[r EXCEPT !.length = new_length - r.vcn], end>>
                  ELSE Append(Upto(element - 1), end)
        prev == rl[element - 1]
        expanded ==
            IF new_length = r.vcn THEN Append(Front(rl), end)
            ELSE IF element > 1 /\ prev.lcn = LCN_HOLE
                 THEN Upto(element - 2)
                        \o <<Run(prev.vcn, LCN_HOLE, new_length - prev.vcn), end>>
            ELSE Front(rl) \o <<Run(r.vcn, LCN_HOLE, new_length - r.vcn), end>>
    IN  IF new_length = 0 THEN Returns("none", <<>>)
        ELSE IF rl = <<>>
             THEN Returns("none", <<Run(0, LCN_HOLE, new_length), end>>)
        ELSE IF new_length < rl[1].vcn THEN Returns("panic", rl)
        ELSE IF element < Len(rl) THEN Returns("none", shrunk)
        ELSE IF r.length # 0 THEN Returns("panic", rl)
        ELSE Returns("none", expanded)
-----------------------------------------------------------------------------
(***************************************************************************)
(* Punching a hole of len clusters at start_vcn into a runlist.            *)
(***************************************************************************)

\* The run moved up to begin at v.
From(r, v) == [vcn |-> v, length |-> EndOf(r) - v,
               lcn |-> IF r.lcn >= 0 THEN r.lcn + v - r.vcn ELSE r.lcn]

\* extend_hole: the hole at index i grows to end_vcn, which is at index e, and
\* swallows a hole it ends in.
ExtendHole(rl, i, e, end_vcn) ==
    LET last == IF rl[e].lcn = LCN_HOLE THEN e + 1 ELSE e
        length == (IF last # e THEN rl[last].vcn ELSE end_vcn) - rl[i].vcn
        next == rl[last]
    IN  SubSeq(rl, 1, i - 1)
          \o <<Run(rl[i].vcn, LCN_HOLE, length)>>
          \o <<IF end_vcn > next.vcn THEN From(next, end_vcn) ELSE next>>
          \o SubSeq(rl, last + 1, Len(rl))

PunchPastEnd(rl, e, end_vcn) == rl[e].length = 0 /\ end_vcn > rl[e].vcn

ntfs_rl_punch_nolock(rl, start_vcn, len) ==
    LET end_vcn == start_vcn + len
        i == Find(rl, start_vcn)
        e == Find(rl, end_vcn)
        r == rl[i]
        next == rl[i + 1]
        Upto(k) == SubSeq(rl, 1, k)
        After(k) == SubSeq(rl, k + 1, Len(rl))
        cut == [r EXCEPT !.length = start_vcn - r.vcn]
        hole == Run(start_vcn, LCN_HOLE, len)
        punched ==
            IF r.lcn = LCN_HOLE
            THEN IF end_vcn <= next.vcn THEN rl ELSE ExtendHole(rl, i, e, end_vcn)
            ELSE IF start_vcn = r.vcn
            THEN IF i > 1 /\ rl[i - 1].lcn = LCN_HOLE
                 THEN ExtendHole(rl, i - 1, e, end_vcn)
                 ELSE IF end_vcn >= next.vcn THEN ExtendHole(rl, i, e, end_vcn)
                 ELSE Upto(i - 1) \o <<hole, From(r, end_vcn)>> \o After(i)
            ELSE IF rl[e].lcn = LCN_HOLE
            THEN Upto(i - 1)
                   \o <<cut, Run(start_vcn, LCN_HOLE, rl[e + 1].vcn - start_vcn)>>
                   \o After(e)
            ELSE IF end_vcn >= next.vcn
            THEN IF next.length # 0 /\ end_vcn >= rl[i + 2].vcn
                 THEN ExtendHole([rl EXCEPT ![i] = cut, ![i + 1].vcn = start_vcn],
                                 i + 1, e, end_vcn)
                 ELSE Upto(i - 1) \o <<cut, hole, From(next, end_vcn)>> \o After(i + 1)
            ELSE Upto(i - 1) \o <<cut, hole, From(r, end_vcn)>> \o After(i)
    IN  IF rl = <<>>
        THEN Returns(IF start_vcn = 0 /\ len = 0 THEN "none" ELSE "ENOENT", rl)
        ELSE IF \/ \E k \in i..(e - 1) : rl[k].lcn < LCN_HOLE
                \/ rl[e].length # 0 /\ rl[e].lcn < LCN_HOLE
             THEN Returns("EINVAL", rl)
        ELSE IF PunchPastEnd(rl, e, end_vcn) THEN Returns("ENOENT", rl)
        ELSE IF len = 0 THEN Returns("none", rl)
        ELSE IF r.length = 0 THEN Returns("ENOENT", rl)
        ELSE Returns("none", punched)
=============================================================================
