----------------------------- MODULE AttrRunlist -----------------------------
(***************************************************************************)
(* The runlist of one non-resident attribute over its life.  The mapping   *)
(* of the attribute is stored in one or more extents (attribute records);  *)
(* the runlist in memory starts empty and is filled extent by extent, in   *)
(* the order in which I/O happens to need them.  In between the attribute  *)
(* is extended, truncated and punched.  All of it happens with the         *)
(* runlist lock held for writing, so that each call is one step.           *)
(*                                                                         *)
(* disk[v + 1] is where cluster v of the attribute is: a cluster of the    *)
(* volume or a hole.  It is what the mapping pairs on disk say before an   *)
(* extent is mapped, and what the caller of a change wants afterwards.     *)
(***************************************************************************)
EXTENDS Runlist, FiniteSets, FiniteSetsExt

CONSTANTS
    MaxVcn,     \* the largest size of the attribute in clusters
    Strands,    \* how many places on the volume a cluster may come from
    Workloads   \* what happens to an attribute: which changes, and whether
                \* the first extent mapped is the base extent

AllChanges == {"extend", "undo", "shrink", "punch"}

ASSUME AttrRunlistAssumption ==
    /\ MaxVcn \in Nat \ {0} /\ Strands \in Nat \ {0}
    /\ Workloads \subseteq [changes : SUBSET AllChanges, baseFirst : BOOLEAN]

VARIABLES
    disk,   \* where the clusters of the attribute are
    lows,   \* the lowest_vcn of its extents
    rl,     \* the runlist in memory
    mapped, \* the vcns whose extent has been mapped (history)
    err,    \* what the last call returned
    load    \* the workload of this attribute

vars == <<disk, lows, rl, mapped, err, load>>

Size == Len(disk)
Vcns == 0..(Size - 1)

\* Clusters v and v + 1 of one strand are next to each other on the volume.
LcnOf(v, k) == v + k * (MaxVcn + 1)
LcnsOf(v) == {LcnOf(v, k) : k \in 0..(Strands - 1)}

Placed(v, c) == c = LCN_HOLE \/ c \in LcnsOf(v)

Init ==
    /\ \E n \in 1..MaxVcn :
          disk \in {s \in [1..n -> {LCN_HOLE} \cup
                                   UNION {LcnsOf(v) : v \in 0..(n - 1)}] :
                        \A i \in 1..n : Placed(i - 1, s[i])}
    /\ lows \in {{0} \cup s : s \in SUBSET (1..(Size - 1))}
    /\ rl = <<>>
    /\ mapped = {}
    /\ err = "none"
    /\ load \in Workloads
-----------------------------------------------------------------------------
(***************************************************************************)
(* Mapping an extent.                                                      *)
(***************************************************************************)

LowOf(v) == Max({l \in lows : l <= v})
EndOfExtent(low) == Min({l \in lows : l > low} \cup {Size})
Extent(low) == low..(EndOfExtent(low) - 1)

Continues(d, v) ==
    \/ d[v] = LCN_HOLE /\ d[v + 1] = LCN_HOLE
    \/ d[v] >= 0 /\ d[v + 1] = d[v] + 1

\* The runs of the clusters from..(to - 1) of d; a run also ends at a break.
RunsOf(d, from, to, breaks) ==
    LET starts == {v \in from..(to - 1) :
                       v = from \/ v \in breaks \/ ~Continues(d, v)}
        s == SetToSortSeq(starts, <)
    IN  [i \in 1..Len(s) |->
            Run(s[i], d[s[i] + 1],
                (IF i < Len(s) THEN s[i + 1] ELSE to) - s[i])]

\* The runlist that the mapping pairs of an extent decompress to.
Decompressed(low, breaks) ==
    LET end == EndOfExtent(low)
        runs == RunsOf(disk, low, end, breaks)
    IN  IF low = 0
        THEN runs \o (IF end < Size
                      THEN <<Run(end, LCN_RL_NOT_MAPPED, Size - end)>> ELSE <<>>)
               \o <<Run(Size, LCN_ENOENT, 0)>>
        ELSE <<Run(0, LCN_RL_NOT_MAPPED, low)>> \o runs
               \o <<Run(end, LCN_RL_NOT_MAPPED, 0)>>

ntfs_mapping_pairs_decompress(low, breaks) ==
    LET new == Decompressed(low, breaks)
    IN  IF rl = <<>> THEN Returns("none", new) ELSE ntfs_rl_merge(rl, new)

\* The pairs on disk need not be as long as they could be.
Breaks(low) == SUBSET ((low + 1)..(EndOfExtent(low) - 1))

ntfs_map_runlist_nolock(v) ==
    /\ ntfs_rl_vcn_to_lcn(rl, v) = LCN_RL_NOT_MAPPED
    /\ load.baseFirst /\ rl = <<>> => LowOf(v) = 0
    /\ \E breaks \in Breaks(LowOf(v)) :
          LET r == ntfs_mapping_pairs_decompress(LowOf(v), breaks)
          IN  rl' = r.rl /\ err' = r.err
    /\ mapped' = mapped \cup Extent(LowOf(v))
    /\ UNCHANGED <<disk, lows, load>>
-----------------------------------------------------------------------------
(***************************************************************************)
(* Extending the allocation: by a hole of hole clusters, then by the real  *)
(* clusters new.  The last extent is mapped first if the end of the        *)
(* runlist looks unmapped.                                                 *)
(***************************************************************************)

LastExtent == LowOf(Size - 1)

LooksUnmapped ==
    \/ rl = <<>>
    \/ Last(rl).lcn = LCN_RL_NOT_MAPPED
    \/ Last(rl).lcn = LCN_ENOENT /\ Len(rl) > 1
         /\ rl[Len(rl) - 1].lcn = LCN_RL_NOT_MAPPED

WithLastExtent(breaks) ==
    IF Size > 0 /\ LooksUnmapped
    THEN ntfs_mapping_pairs_decompress(LastExtent, breaks)
    ELSE Returns("none", rl)

WithHole(r, hole) ==
    LET end == Run(Size + hole, LCN_ENOENT, 0)
        n == Len(r)
    IN  IF hole = 0 THEN r
        ELSE IF n > 1 /\ r[n - 1].lcn = LCN_HOLE
             THEN SubSeq(r, 1, n - 2)
                    \o <<Longer(r[n - 1], Size + hole - EndOf(r[n - 1])), end>>
        ELSE (IF n = 0 THEN <<>> ELSE Front(r))
               \o <<Run(Size, LCN_HOLE, hole), end>>

\* The runlist ntfs_cluster_alloc() returns for the clusters from.. of d.
Allocated(d, from, to, end) ==
    RunsOf(d, from, to, {}) \o <<Run(to, end, 0)>>

Extended(hole, new) ==
    disk \o [i \in 1..hole |-> LCN_HOLE] \o new

\* The new clusters of an attribute that grows from from to to.
Fresh(from, to) ==
    {s \in [1..(to - from) -> UNION {LcnsOf(v) : v \in from..(to - 1)}] :
        \A i \in 1..(to - from) : s[i] \in LcnsOf(from + i - 1)}

\* The runlist after the allocation, before the mapping pairs are rebuilt.
AfterExtend(breaks, hole, new) ==
    LET m == WithLastExtent(breaks)
        holed == WithHole(m.rl, hole)
        from == Size + hole
        d == Extended(hole, new)
    IN  IF m.err # "none" THEN Returns("EIO", m.rl)
        ELSE IF new = <<>> THEN Returns("none", holed)
        ELSE ntfs_rl_merge(holed, Allocated(d, from, Len(d), LCN_ENOENT))

\* New extents begin where a run of the rebuilt mapping pairs does.
NewLows(r) == {{}} \cup {{x.vcn} : x \in {y \in Range(r) :
                              y.length # 0 /\ y.vcn > Max(lows) /\ y.vcn < Last(r).vcn}}

ntfs_attr_extend_allocation ==
    /\ "extend" \in load.changes
    /\ load.baseFirst /\ rl = <<>> /\ Size > 0 => LastExtent = 0
    /\ \E hole \in 0..(MaxVcn - Size), size \in (Size + 1)..MaxVcn :
       \E new \in Fresh(Size + hole, size),
          breaks \in IF Size = 0 THEN {{}} ELSE Breaks(LastExtent) :
          /\ Size + hole <= size
          /\ LET r == AfterExtend(breaks, hole, new)
             IN  /\ rl' = r.rl
                 /\ err' = r.err
                 /\ IF r.err = "none"
                    THEN /\ disk' = Extended(hole, new)
                         /\ \E l \in NewLows(r.rl) : lows' = lows \cup l
                         /\ mapped' = mapped \cup
                               (IF Size = 0 THEN {} ELSE Extent(LastExtent))
                               \cup Size..(size - 1)
                    ELSE UNCHANGED <<disk, lows, mapped>>
    /\ UNCHANGED load

\* The same, but the mapping pairs cannot be rebuilt: everything is undone and
\* the runlist truncated again.
ExtendUndone ==
    /\ "undo" \in load.changes
    /\ Size > 0
    /\ load.baseFirst /\ rl = <<>> => LastExtent = 0
    /\ \E hole \in 0..(MaxVcn - Size), size \in (Size + 1)..MaxVcn :
       \E new \in Fresh(Size + hole, size), breaks \in Breaks(LastExtent) :
          /\ Size + hole <= size
          /\ LET r == AfterExtend(breaks, hole, new)
                 t == ntfs_rl_truncate_nolock(r.rl, Size)
             IN  /\ r.err = "none"
                 /\ rl' = t.rl
                 /\ err' = t.err
          /\ mapped' = mapped \cup Extent(LastExtent)
          /\ UNCHANGED <<disk, lows, load>>
-----------------------------------------------------------------------------
(***************************************************************************)
(* Shrinking the allocation, after the clusters from n on have been freed  *)
(* and their extents mapped.                                               *)
(***************************************************************************)

ShrinkAllocation(n) ==
    /\ "shrink" \in load.changes
    /\ n < Size
    /\ n..(Size - 1) \subseteq mapped
    /\ LET r == ntfs_rl_truncate_nolock(rl, n)
       IN  rl' = r.rl /\ err' = r.err
    /\ disk' = SubSeq(disk, 1, n)
    /\ lows' = {l \in lows : l < n} \cup {0}
    /\ mapped' = mapped \cap 0..(n - 1)
    /\ UNCHANGED load
-----------------------------------------------------------------------------
(***************************************************************************)
(* Punching a hole.  ntfs_rl_punch_nolock() is compiled but its only       *)
(* caller is not: Punch stands for the calls that its comment allows.      *)
(***************************************************************************)

Replaced(from, new) ==
    [i \in 1..Size |-> IF i \in (from + 1)..(from + Len(new))
                       THEN new[i - from] ELSE disk[i]]

Punch(v, len) ==
    /\ "punch" \in load.changes
    /\ LET r == ntfs_rl_punch_nolock(rl, v, len)
       IN  /\ rl' = r.rl
           /\ err' = r.err
           /\ disk' = IF r.err = "none"
                      THEN Replaced(v, [i \in 1..len |-> LCN_HOLE]) ELSE disk
    /\ UNCHANGED <<lows, mapped, load>>
-----------------------------------------------------------------------------
Next ==
    \/ \E v \in Vcns : ntfs_map_runlist_nolock(v)
    \/ ntfs_attr_extend_allocation
    \/ ExtendUndone
    \/ \E n \in 0..(MaxVcn - 1) : ShrinkAllocation(n)
    \/ \E v \in 0..MaxVcn, len \in 0..MaxVcn : Punch(v, len)

Spec == Init /\ [][Next]_vars
-----------------------------------------------------------------------------
(***************************************************************************)
(* Properties.                                                             *)
(***************************************************************************)

\* The runlist in memory is an array the lookups can walk: it starts at vcn 0,
\* each run has a length and ends where the next one starts, and only the last
\* element has length zero and is a terminator.  Every loop of ntfs_runlist.c
\* over a runlist relies on it.
WellFormed ==
    rl # <<>> =>
        /\ rl[1].vcn = 0
        /\ \A i \in 1..(Len(rl) - 1) :
              rl[i].length > 0 /\ EndOf(rl[i]) = rl[i + 1].vcn
        /\ Last(rl).length = 0
        /\ Last(rl).lcn \in {LCN_RL_NOT_MAPPED, LCN_ENOENT}

\* Whatever the order in which extents were mapped, and whatever was changed
\* in between, ntfs_rl_vcn_to_lcn() finds every cluster of a mapped extent
\* where it is, and never gives a wrong answer for the others.  Once the base
\* extent is mapped, a vcn at or after the end of the attribute is reported as
\* LCN_ENOENT; before, it is at most "not mapped".
FindsEveryCluster ==
    /\ \A v \in Vcns :
          ntfs_rl_vcn_to_lcn(rl, v) =
              IF v \in mapped THEN disk[v + 1] ELSE LCN_RL_NOT_MAPPED
    /\ rl # <<>> =>
          \A v \in Size..(MaxVcn + 1) :
              \/ ntfs_rl_vcn_to_lcn(rl, v) = LCN_ENOENT
              \/ 0 \notin mapped /\ ntfs_rl_vcn_to_lcn(rl, v) = LCN_RL_NOT_MAPPED

\* Mapping an extent that is needed, extending and truncating always succeed
\* if the base extent is the first to be mapped before an extension: no overlap
\* is reported where there is none and no assertion fails.  Only punching may
\* be refused, with the errors documented for it.
CallsSucceed == err \in {"none", "EINVAL", "ENOENT"}
=============================================================================
