--------------------------- MODULE MCClusterAlloc ---------------------------
(***************************************************************************)
(* Instances of ClusterAlloc for model checking.                           *)
(***************************************************************************)
EXTENDS ClusterAlloc

Calls(zones, vcns, counts, lcns) ==
    [zone : zones, start_vcn : vcns, count : counts, start_lcn : lcns]

\* Bitmaps in which the first clusters of the volume and the mft are in use.
AnyUsed == {u \in SUBSET Clusters : 0 \in u /\ MftLcn \in u}

AllZones == {"DATA", "MFT"}
Hints == -1..NrClusters
AnyRequests == Calls(AllZones, {0, 2}, {1, 3}, Hints)
FragmentRequests == Calls({"DATA"}, {0, 2}, {2}, {-1})

\* Nothing is claimed of a volume once its errors flag is set, so the run
\* with failing bitmap updates does not go on from there.
UntilErrors == ~errors
=============================================================================
