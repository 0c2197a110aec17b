---------------------------- MODULE ClusterAlloc ----------------------------
(***************************************************************************)
(* The cluster allocator of the kernel extension (kext/ntfs_lcnalloc.c):   *)
(* ntfs_cluster_alloc(), ntfs_cluster_free() and                           *)
(* ntfs_cluster_free_from_rl() over the volume bitmap, with the zones that *)
(* ntfs_setup_allocators() lays out at mount time.                         *)
(*                                                                         *)
(* All of them run under vol->lcnbmp_lock held exclusively, so at most one *)
(* call is active and a step is a piece of that call: mapping one page of  *)
(* the bitmap, allocating one cluster, finishing a pass over a zone,       *)
(* switching zones, shrinking the mft zone, freeing one run.  bmp_pos      *)
(* stands for the code's lcn + bmp_pos, the bit the scan has reached.      *)
(*                                                                         *)
(* `files' holds the runlists the callers own.  A fragment allocated at    *)
(* start_vcn > 0 is merged behind a hole, as when an attribute that ends   *)
(* in one is extended; freeing from a vcn on is followed by truncating the *)
(* runlist there, as the comments of both free functions demand.           *)
(***************************************************************************)
EXTENDS Integers, Sequences, FiniteSets

CONSTANTS
    NrClusters,      \* vol->nr_clusters
    MftLcn,          \* vol->mft_lcn
    StandardMftLcn,  \* where mkntfs would have put the mft
    Multiplier,      \* vol->mft_zone_multiplier
    ByteBits,        \* bits in a byte of the bitmap (8 in the code)
    PageBytes,       \* PAGE_SIZE
    DataBytes,       \* data_size of the bitmap
    RlBlock,         \* runlist elements in a NTFS_ALLOC_BLOCK
    Requests,        \* the calls of ntfs_cluster_alloc() that are made
    MaxFiles,        \* bound on the runlists callers own at a time
    UsedAtMount,     \* possible contents of the bitmap at mount time
    Faults           \* the failures the environment may inject

Clusters == 0..(NrClusters - 1)
Hole == -1
AllFaults == {"page", "nomem", "bits", "map"}

ASSUME ClusterAllocAssumption ==
    /\ NrClusters \in Nat \ {0}
    /\ MftLcn \in Clusters
    /\ StandardMftLcn \in Nat
    /\ Multiplier \in 1..4
    /\ ByteBits \in Nat \ {0}
    /\ PageBytes \in Nat \ {0}
    /\ DataBytes \in Nat
    /\ NrClusters <= DataBytes * ByteBits
    /\ RlBlock \in Nat \ {0, 1}
    /\ MaxFiles \in Nat
    /\ Requests \subseteq [zone : {"DATA", "MFT"}, start_vcn : Nat,
                           count : Nat \ {0}, start_lcn : -1..NrClusters]
    /\ UsedAtMount \subseteq SUBSET Clusters
    /\ Faults \subseteq AllFaults

VARIABLES
    used,              \* the clusters whose bit is set
    nr_free_clusters,
    errors,            \* NVolErrors: chkdsk is needed
    mft_zone_start, mft_zone_end, mft_zone_pos,
    data1_zone_pos, data2_zone_pos,
    pc,
    req,               \* parameters of the active ntfs_cluster_alloc()
    zone_start, zone_end, bmp_pos, bmp_initial_pos,
    page_end,          \* first bit after the mapped part of the bitmap
    pass, done_zones, search_zone,
    clusters,          \* clusters still to be allocated
    rl, rlcount,       \* the runlist being built and its capacity
    err,               \* what the last call returned
    fr,                \* the active free operation, or its roll back ("undo")
    files,             \* the runlists callers own
    before,            \* history: `used' when the call began
    system             \* history: `used' when the volume was mounted

bitmapVars == <<used, nr_free_clusters, errors>>
zoneVars == <<mft_zone_start, mft_zone_end, mft_zone_pos,
              data1_zone_pos, data2_zone_pos>>
rangeVars == <<zone_start, zone_end, bmp_initial_pos>>
searchVars == <<pass, done_zones, search_zone>>
buildVars == <<clusters, rl, rlcount>>
callVars == <<req, fr, before>>
vars == <<bitmapVars, zoneVars, rangeVars, bmp_pos, page_end, searchVars,
          buildVars, callVars, pc, err, files, system>>

Run(v, l, n) == [vcn |-> v, lcn |-> l, length |-> n]
Last(r) == r[Len(r)]
EndLcn(r) == Last(r).lcn + Last(r).length
EndVcn(r) == Last(r).vcn + Last(r).length
RunClusters(x) == IF x.lcn = Hole THEN {} ELSE x.lcn..(x.lcn + x.length - 1)
RlClusters(r) == UNION {RunClusters(r[i]) : i \in DOMAIN r}
Owned == UNION {RlClusters(f) : f \in files}

NoReq == [zone |-> "DATA", start_vcn |-> 0, count |-> 0, start_lcn |-> -1]
NoFree == [by |-> "none", rl |-> <<>>, vcn |-> 0, count |-> 0, i |-> 0,
           total |-> 0, real |-> 0]

Lower(a, b) == IF a < b THEN a ELSE b
Clamp(n) == IF n < 0 THEN 0 ELSE IF n > NrClusters THEN NrClusters ELSE n
-----------------------------------------------------------------------------
(***************************************************************************)
(* ntfs_setup_allocators().                                                *)
(***************************************************************************)

ZoneShare ==
    CASE Multiplier = 4 -> NrClusters \div 2
      [] Multiplier = 3 -> (NrClusters + NrClusters \div 2) \div 4
      [] Multiplier = 2 -> NrClusters \div 4
      [] OTHER -> NrClusters \div 8

\* Halved until the zone ends inside the volume.
SetupZoneEnd ==
    LET halvings == {k \in 0..NrClusters :
                        MftLcn + ZoneShare \div 2^k < NrClusters}
        k == CHOOSE k \in halvings : \A j \in halvings : k <= j
    IN  MftLcn + ZoneShare \div 2^k

\* The loop that halves the zone ends, for mft_lcn is inside the volume.
ASSUME ZoneSetupAssumption ==
    SetupZoneEnd \in Clusters /\ MftLcn <= SetupZoneEnd

SetupZoneStart == IF MftLcn <= StandardMftLcn THEN 0 ELSE MftLcn

Init ==
    /\ used \in UsedAtMount
    /\ nr_free_clusters = NrClusters - Cardinality(used)
    /\ errors = FALSE
    /\ mft_zone_start = SetupZoneStart
    /\ mft_zone_end = SetupZoneEnd
    /\ mft_zone_pos = MftLcn
    /\ data1_zone_pos = SetupZoneEnd
    /\ data2_zone_pos = 0
    /\ pc = "idle"
    /\ req = NoReq
    /\ zone_start = 0 /\ zone_end = 0 /\ bmp_pos = 0 /\ bmp_initial_pos = 0
    /\ page_end = 0
    /\ pass = 1 /\ done_zones = {} /\ search_zone = 2
    /\ clusters = 0 /\ rl = <<>> /\ rlcount = 0
    /\ err = "none"
    /\ fr = NoFree
    /\ files = {}
    /\ before = used
    /\ system = used
-----------------------------------------------------------------------------
(***************************************************************************)
(* ntfs_cluster_alloc(): where the search starts.                          *)
(***************************************************************************)

InMftZone(c) == mft_zone_start <= c /\ c < mft_zone_end
MftZoneFirst == IF mft_zone_end = 0 THEN 0 ELSE MftLcn

StartPos(r) ==
    IF r.start_lcn < 0
      THEN IF r.zone = "DATA" THEN data1_zone_pos ELSE mft_zone_pos
    ELSE IF r.zone = "DATA" /\ InMftZone(r.start_lcn) THEN mft_zone_end
    ELSE IF r.zone = "MFT" /\ ~InMftZone(r.start_lcn) THEN MftZoneFirst
    ELSE r.start_lcn

StartPass(r) ==
    IF \/ r.start_lcn < 0 /\ StartPos(r) = 0
       \/ r.start_lcn >= 0 /\ (InMftZone(r.start_lcn) <=> r.zone = "DATA")
      THEN 2
      ELSE 1

StartAlloc(r) ==
    /\ pc = "idle"
    /\ Cardinality(files) < MaxFiles
    /\ req' = r
    /\ zone_start' = StartPos(r)
    /\ bmp_pos' = StartPos(r)
    /\ bmp_initial_pos' = StartPos(r)
    /\ pass' = StartPass(r)
    /\ \/ /\ r.zone = "MFT"
          /\ zone_end' = mft_zone_end
          /\ search_zone' = 1
          /\ done_zones' = {}
       \/ /\ r.zone = "DATA"
          /\ StartPos(r) >= mft_zone_end
          /\ zone_end' = NrClusters
          /\ search_zone' = 2
          /\ done_zones' = {1}
       \/ /\ r.zone = "DATA"
          /\ StartPos(r) < mft_zone_end
          /\ zone_end' = mft_zone_start
          /\ search_zone' = 4
          /\ done_zones' = {1}
    /\ clusters' = r.count
    /\ before' = used
    /\ err' = "none"
    /\ pc' = "map"
    /\ UNCHANGED <<bitmapVars, zoneVars, page_end, rl, rlcount, fr, files>>
-----------------------------------------------------------------------------
(***************************************************************************)
(* Mapping the page of the bitmap that holds bmp_pos.  ntfs_page_map()     *)
(* refuses an offset that is not inside the attribute.                     *)
(***************************************************************************)

last_read_pos == bmp_pos \div ByteBits
PageOffset == (last_read_pos \div PageBytes) * PageBytes

MapKeep == UNCHANGED <<bitmapVars, zoneVars, rangeVars, bmp_pos, searchVars,
                       buildVars, callVars, files>>

MapPage ==
    /\ pc = "map"
    /\ last_read_pos <= DataBytes => PageOffset < DataBytes
    /\ page_end' = IF last_read_pos > DataBytes THEN page_end
                   ELSE Lower(PageOffset + PageBytes, DataBytes) * ByteBits
    /\ pc' = IF last_read_pos > DataBytes THEN "passdone" ELSE "scan"
    /\ UNCHANGED err
    /\ MapKeep

MapFails ==
    /\ pc = "map"
    /\ last_read_pos <= DataBytes
    /\ \/ PageOffset >= DataBytes /\ err' = "EINVAL"
       \/ PageOffset < DataBytes /\ "page" \in Faults /\ err' = "EIO"
    /\ pc' = "out"
    /\ UNCHANGED page_end
    /\ MapKeep
-----------------------------------------------------------------------------
(***************************************************************************)
(* Scanning the mapped bits.  The position of the zone being searched      *)
(* moves to tc, the cluster after the last one allocated.                  *)
(***************************************************************************)

NewMftPos(tc) ==
    IF tc >= mft_zone_end THEN MftZoneFirst
    ELSE IF (bmp_initial_pos >= mft_zone_pos \/ tc > mft_zone_pos)
            /\ tc >= MftLcn
      THEN tc
    ELSE mft_zone_pos

\* Mutant of NewData1Pos: tc may lie in the zone left before.
NewData1PosAnywhere(tc) ==
    IF tc >= NrClusters THEN mft_zone_end
    ELSE IF bmp_initial_pos >= data1_zone_pos \/ tc > data1_zone_pos
      THEN tc
    ELSE data1_zone_pos

NewData1Pos(tc) ==
    IF tc >= NrClusters THEN mft_zone_end
    ELSE IF (bmp_initial_pos >= data1_zone_pos \/ tc > data1_zone_pos)
            /\ tc >= mft_zone_end
      THEN tc
    ELSE data1_zone_pos

NewData2Pos(tc) ==
    IF tc >= mft_zone_start THEN 0
    ELSE IF bmp_initial_pos >= data2_zone_pos \/ tc > data2_zone_pos
      THEN tc
    ELSE data2_zone_pos

UpdateZonePos(tc) ==
    /\ mft_zone_pos' = IF search_zone = 1 THEN NewMftPos(tc) ELSE mft_zone_pos
    /\ data1_zone_pos' =
          IF search_zone = 2 THEN NewData1Pos(tc) ELSE data1_zone_pos
    /\ data2_zone_pos' =
          IF search_zone = 4 THEN NewData2Pos(tc) ELSE data2_zone_pos

\* Mutant of AddCluster: the length of the previous run is ignored.
AddClusterShort(c) ==
    IF rl # <<>> /\ EndLcn(rl) = c
      THEN [rl EXCEPT ![Len(rl)].length = @ + 1]
      ELSE Append(rl, Run(req.start_vcn + Len(rl), c, 1))

\* Coalesce with the previous run, or append a new one.
AddCluster(c) ==
    IF rl # <<>> /\ EndLcn(rl) = c
      THEN [rl EXCEPT ![Len(rl)].length = @ + 1]
      ELSE Append(rl, Run(IF rl = <<>> THEN req.start_vcn ELSE EndVcn(rl),
                          c, 1))

\* The first clear bit of the mapped part of the zone.
Available == {c \in bmp_pos..(Lower(page_end, zone_end) - 1) : c \notin used}
NextFree(c) == c \in Available /\ \A d \in Available : c <= d

TakeCluster(c) ==
    /\ pc = "scan"
    /\ NextFree(c)
    /\ used' = used \cup {c}
    /\ nr_free_clusters' = Clamp(nr_free_clusters - 1)
    /\ rlcount' = IF Len(rl) + 2 > rlcount THEN rlcount + RlBlock ELSE rlcount
    /\ rl' = AddCluster(c)
    /\ clusters' = clusters - 1
    /\ bmp_pos' = c + 1
    /\ \/ /\ clusters = 1
          /\ UpdateZonePos(c + 1)
          /\ pc' = "out"
       \/ /\ clusters > 1
          /\ UNCHANGED <<mft_zone_pos, data1_zone_pos, data2_zone_pos, pc>>
    /\ UNCHANGED <<errors, mft_zone_start, mft_zone_end, rangeVars, page_end,
                   searchVars, callVars, err, files>>

NoMemory ==
    /\ pc = "scan"
    /\ "nomem" \in Faults
    /\ Available # {}
    /\ Len(rl) + 2 > rlcount
    /\ err' = "ENOMEM"
    /\ pc' = "out"
    /\ UNCHANGED <<bitmapVars, zoneVars, rangeVars, bmp_pos, page_end,
                   searchVars, buildVars, callVars, files>>

PageDone ==
    /\ pc = "scan"
    /\ Available = {}
    /\ bmp_pos' = page_end
    /\ pc' = IF page_end < zone_end THEN "map" ELSE "passdone"
    /\ UNCHANGED <<bitmapVars, zoneVars, rangeVars, page_end, searchVars,
                   buildVars, callVars, err, files>>
-----------------------------------------------------------------------------
(***************************************************************************)
(* A pass over a zone is finished.  Pass 1 covered the zone from the start *)
(* position on, pass 2 covers what lies before it.                         *)
(***************************************************************************)

\* Mutant of ZoneFirst: the second pass begins where the first one did.
ZoneFirstAtPos ==
    CASE search_zone = 1 -> mft_zone_pos
      [] search_zone = 2 -> data1_zone_pos
      [] search_zone = 4 -> 0

ZoneFirst ==
    CASE search_zone = 1 -> mft_zone_start
      [] search_zone = 2 -> mft_zone_end
      [] search_zone = 4 -> 0

SecondPass ==
    /\ pc = "passdone"
    /\ pass = 1
    /\ pass' = 2
    /\ zone_start' = ZoneFirst
    /\ zone_end' = IF zone_start < ZoneFirst THEN ZoneFirst ELSE zone_start
    /\ bmp_pos' = ZoneFirst
    /\ pc' = "map"
    /\ UNCHANGED <<bitmapVars, zoneVars, bmp_initial_pos, page_end,
                   done_zones, search_zone, buildVars, callVars, err, files>>

ZoneDone ==
    /\ pc = "passdone"
    /\ pass = 2
    /\ done_zones' = done_zones \cup {search_zone}
    /\ pc' = IF done_zones \cup {search_zone} = {1, 2, 4}
               THEN "alldone"
               ELSE "switch"
    /\ UNCHANGED <<bitmapVars, zoneVars, rangeVars, bmp_pos, page_end, pass,
                   search_zone, buildVars, callVars, err, files>>

\* An empty zone is not searched.
SwitchTo(zone, first, end) ==
    /\ search_zone' = zone
    /\ zone_start' = first
    /\ zone_end' = end
    /\ bmp_pos' = first
    /\ pc' = IF first = end THEN "passdone" ELSE "map"
    /\ UNCHANGED <<bitmapVars, mft_zone_start, mft_zone_end, page_end,
                   done_zones, buildVars, callVars, err, files>>

SwitchToData1 ==
    LET wrap == data1_zone_pos >= NrClusters
        first == IF wrap THEN mft_zone_end ELSE data1_zone_pos
    IN  /\ pc = "switch"
        /\ search_zone \in {1, 4}
        /\ mft_zone_pos' = IF search_zone = 1 /\ rl # <<>>
                             THEN NewMftPos(EndLcn(rl)) ELSE mft_zone_pos
        /\ data2_zone_pos' = IF search_zone = 4 /\ rl # <<>>
                               THEN NewData2Pos(EndLcn(rl)) ELSE data2_zone_pos
        /\ data1_zone_pos' = first
        /\ bmp_initial_pos' = data1_zone_pos
        /\ pass' = IF first = mft_zone_end THEN 2 ELSE 1
        /\ SwitchTo(2, first, NrClusters)

SwitchToData2 ==
    LET wrap == data2_zone_pos >= mft_zone_start
        first == IF wrap THEN 0 ELSE data2_zone_pos
    IN  /\ pc = "switch"
        /\ search_zone = 2
        /\ data1_zone_pos' = IF rl # <<>> THEN NewData1Pos(EndLcn(rl))
                                          ELSE data1_zone_pos
        /\ data2_zone_pos' = first
        /\ bmp_initial_pos' = first
        /\ pass' = IF first = 0 THEN 2 ELSE 1
        /\ SwitchTo(4, first, mft_zone_start)
        /\ UNCHANGED mft_zone_pos
-----------------------------------------------------------------------------
(***************************************************************************)
(* All zones are finished: give up, or take half of the mft zone.          *)
(***************************************************************************)

NoSpace ==
    /\ pc = "alldone"
    /\ req.zone = "MFT" \/ mft_zone_end <= mft_zone_start
    /\ err' = "ENOSPC"
    /\ pc' = "out"
    /\ UNCHANGED <<bitmapVars, zoneVars, rangeVars, bmp_pos, page_end,
                   searchVars, buildVars, callVars, files>>

\* Mutant of HalvedSize: rounded up.
HalvedSizeUp == (mft_zone_end - mft_zone_start + 1) \div 2

HalvedSize == (mft_zone_end - mft_zone_start) \div 2

ShrinkMftZone ==
    LET half == HalvedSize
        end == IF half > 0 THEN mft_zone_start + half ELSE 0
    IN  /\ pc = "alldone"
        /\ req.zone = "DATA"
        /\ mft_zone_end > mft_zone_start
        /\ zone_end' = mft_zone_end
        /\ mft_zone_end' = end
        /\ mft_zone_start' = IF half > 0 THEN mft_zone_start ELSE 0
        /\ data2_zone_pos' = IF half > 0 THEN data2_zone_pos ELSE 0
        /\ mft_zone_pos' = IF mft_zone_pos < end THEN mft_zone_pos
                           ELSE IF end = 0 THEN 0 ELSE MftLcn
        /\ data1_zone_pos' = end
        /\ zone_start' = end
        /\ bmp_pos' = end
        /\ bmp_initial_pos' = end
        /\ search_zone' = 2
        /\ pass' = 2
        /\ done_zones' = done_zones \ {2}
        /\ pc' = "map"
        /\ UNCHANGED <<bitmapVars, page_end, buildVars, callVars, err, files>>
-----------------------------------------------------------------------------
(***************************************************************************)
(* Leaving ntfs_cluster_alloc(), and the free functions.                   *)
(***************************************************************************)

\* What the caller keeps of a fragment allocated at start_vcn.
Merged(r) == IF r[1].vcn = 0 THEN r ELSE <<Run(0, Hole, r[1].vcn)>> \o r

Return(e, f) ==
    /\ pc' = "idle"
    /\ err' = e
    /\ files' = f
    /\ req' = NoReq
    /\ fr' = NoFree
    /\ zone_start' = 0 /\ zone_end' = 0 /\ bmp_pos' = 0 /\ bmp_initial_pos' = 0
    /\ page_end' = 0
    /\ pass' = 1 /\ done_zones' = {} /\ search_zone' = 2
    /\ clusters' = 0 /\ rl' = <<>> /\ rlcount' = 0

AllocSucceeds ==
    /\ pc = "out"
    /\ err = "none"
    /\ Return("none", files \cup {Merged(rl)})
    /\ UNCHANGED <<bitmapVars, zoneVars, before>>

\* The rollback frees "all" clusters: start_vcn 0, count -1.
AllocFails ==
    /\ pc = "out"
    /\ err # "none"
    /\ \/ /\ rl = <<>>
          /\ Return(err, files)
       \/ /\ rl # <<>>
          /\ fr' = [NoFree EXCEPT !.by = "alloc", !.rl = rl, !.count = -1]
          /\ pc' = "free"
          /\ UNCHANGED <<rangeVars, bmp_pos, page_end, searchVars, buildVars,
                         req, err, files>>
    /\ UNCHANGED <<bitmapVars, zoneVars, before>>

StartFree(by, f, v, n) ==
    /\ pc = "idle"
    /\ fr' = [NoFree EXCEPT !.by = by, !.rl = f, !.vcn = v, !.count = n]
    /\ before' = used
    /\ err' = "none"
    /\ pc' = "free"
    /\ UNCHANGED <<bitmapVars, zoneVars, rangeVars, bmp_pos, page_end,
                   searchVars, buildVars, req, files>>

\* Mutant of Covering: the first vcn of a run is not found.
CoveringLate(r, v) ==
    {i \in DOMAIN r : r[i].vcn < v /\ v < r[i].vcn + r[i].length}

\* ntfs_rl_find_vcn_nolock(): no element holds a vcn before the first run.
Covering(r, v) ==
    {i \in DOMAIN r : r[i].vcn <= v /\ v < r[i].vcn + r[i].length}

\* The runs up to the one that holds vcn v - 1, which is cut after it.
Truncated(f, v) ==
    LET k == CHOOSE i \in Covering(f, v - 1) : TRUE
    IN  [SubSeq(f, 1, k) EXCEPT ![k].length = v - f[k].vcn]

\* The caller drops the freed runs from its runlist.
FilesAfterFree ==
    (files \ {fr.rl}) \cup
        (IF fr.vcn = 0 THEN {} ELSE {Truncated(fr.rl, fr.vcn)})

FreeReturns(e) ==
    IF fr.by = "alloc" THEN Return(err, files)
    ELSE IF e = "none" /\ fr.by # "undo" THEN Return(e, FilesAfterFree)
    ELSE Return("EIO", files)

\* Mutant of CurrentRun: always from the beginning of the run.
CurrentRunWhole ==
    LET x == fr.rl[fr.i]
        n == IF fr.count >= 0 THEN Lower(fr.count, x.length) ELSE x.length
    IN  [n |-> n, bits |-> IF x.lcn = Hole THEN {} ELSE x.lcn..(x.lcn + n - 1)]

\* The run of fr.rl that is freed next, and its part that is to be freed.
CurrentRun ==
    LET x == fr.rl[fr.i]
        skip == IF fr.i \in Covering(fr.rl, fr.vcn) THEN fr.vcn - x.vcn ELSE 0
        len == x.length - skip
        n == IF fr.count >= 0 THEN Lower(fr.count, len) ELSE len
    IN  [n |-> n, bits |-> IF x.lcn = Hole THEN {}
                           ELSE (x.lcn + skip)..(x.lcn + skip + n - 1)]

LookupVcn ==
    /\ pc = "free"
    /\ fr.i = 0
    /\ \/ /\ Covering(fr.rl, fr.vcn) = {}
          /\ FreeReturns("none")
       \/ /\ \E i \in Covering(fr.rl, fr.vcn) : fr' = [fr EXCEPT !.i = i]
          /\ UNCHANGED <<rangeVars, bmp_pos, page_end, searchVars, buildVars,
                         req, pc, err, files>>
    /\ UNCHANGED <<bitmapVars, zoneVars, before>>

\* ntfs_bitmap_set_bits_in_run() that fails on a later page restores the
\* earlier ones; when that fails as well, those between p and q stay changed.
Page(c) == c \div (PageBytes * ByteBits)
LeftChanged(bits) ==
    {{c \in bits : p <= Page(c) /\ Page(c) < q} :
        p \in {Page(c) : c \in bits}, q \in {Page(c) : c \in bits}}

\* Mutant of NrFreeAfterRun: sparse clusters are counted.
NrFreeAfterHole ==
    Clamp(IF fr.by = "undo" THEN nr_free_clusters - CurrentRun.n
                     ELSE nr_free_clusters + CurrentRun.n)

NrFreeAfterRun ==
    Clamp(IF fr.by = "undo" THEN nr_free_clusters - Cardinality(CurrentRun.bits)
                     ELSE nr_free_clusters + Cardinality(CurrentRun.bits))

FreeRun ==
    LET bits == CurrentRun.bits
    IN  /\ pc = "free"
        /\ fr.i \in DOMAIN fr.rl
        /\ fr.count # 0
        /\ used' = IF fr.by = "undo" THEN used \cup bits ELSE used \ bits
        /\ nr_free_clusters' = NrFreeAfterRun
        /\ fr' = [fr EXCEPT !.i = @ + 1,
                            !.total = @ + CurrentRun.n,
                            !.real = @ + Cardinality(bits),
                            !.count = IF @ < 0 THEN @ ELSE @ - CurrentRun.n]
        /\ UNCHANGED <<errors, zoneVars, rangeVars, bmp_pos, page_end,
                       searchVars, buildVars, req, before, pc, err, files>>

\* Mutant of UndoCall: sparse clusters are not counted.
UndoCallReal == [fr EXCEPT !.by = "undo", !.count = fr.real, !.i = 0,
                           !.total = 0, !.real = 0]

\* The call that allocates what has been freed again.
UndoCall == [fr EXCEPT !.by = "undo", !.count = fr.total, !.i = 0,
                       !.total = 0, !.real = 0]

\* A failure on the first run is returned.  On a later one the clusters are
\* given up for lost (ntfs_cluster_free_from_rl), or what has been freed is
\* allocated again (ntfs_cluster_free).
FreeRunFails ==
    /\ pc = "free"
    /\ "bits" \in Faults
    /\ fr.i \in DOMAIN fr.rl
    /\ fr.count # 0
    /\ CurrentRun.bits # {}
    /\ \E changed \in LeftChanged(CurrentRun.bits) :
          /\ used' = IF fr.by = "undo" THEN used \cup changed
                   ELSE used \ changed
          /\ errors' = \/ errors
                       \/ changed # {}
                       \/ fr.by \in {"alloc", "undo"}
                       \/ fr.by = "free_from_rl" /\ fr.total > 0
    /\ \/ /\ fr.by \in {"alloc", "free_from_rl"}
          /\ fr.total > 0
          /\ fr' = [fr EXCEPT !.i = @ + 1, !.total = @ + CurrentRun.n,
                              !.real = @ + Cardinality(CurrentRun.bits),
                              !.count = IF @ < 0 THEN @ ELSE @ - CurrentRun.n]
          /\ UNCHANGED <<rangeVars, bmp_pos, page_end, searchVars, buildVars,
                         req, pc, err, files>>
       \/ /\ \/ fr.by \in {"alloc", "free_from_rl"} /\ fr.total = 0
             \/ fr.by = "free" /\ fr.real = 0
             \/ fr.by = "undo"
          /\ FreeReturns("EIO")
       \/ /\ fr.by = "free"
          /\ fr.real > 0
          /\ fr' = UndoCall
          /\ UNCHANGED <<rangeVars, bmp_pos, page_end, searchVars, buildVars,
                         req, pc, err, files>>
    /\ UNCHANGED <<nr_free_clusters, zoneVars, before>>

\* Mapping the next fragment of the runlist fails (ntfs_cluster_free only;
\* the fragments its rollback goes through are mapped already).
MapFragmentFails ==
    /\ pc = "free"
    /\ "map" \in Faults
    /\ fr.by = "free"
    /\ fr.i \in {0} \cup DOMAIN fr.rl
    /\ fr.count # 0
    /\ \/ /\ fr.real = 0
          /\ FreeReturns("EIO")
       \/ /\ fr.real > 0
          /\ fr' = UndoCall
          /\ UNCHANGED <<rangeVars, bmp_pos, page_end, searchVars, buildVars,
                         req, pc, err, files>>
    /\ UNCHANGED <<bitmapVars, zoneVars, before>>

FreeDone ==
    /\ pc = "free"
    /\ fr.i > 0
    /\ fr.i \notin DOMAIN fr.rl \/ fr.count = 0
    /\ FreeReturns("none")
    /\ UNCHANGED <<bitmapVars, zoneVars, before>>
-----------------------------------------------------------------------------
AllocStep ==
    \/ MapPage \/ MapFails
    \/ \E c \in Clusters : TakeCluster(c)
    \/ NoMemory \/ PageDone \/ SecondPass \/ ZoneDone
    \/ SwitchToData1 \/ SwitchToData2 \/ NoSpace \/ ShrinkMftZone
    \/ AllocSucceeds \/ AllocFails

FreeStep == LookupVcn \/ FreeRun \/ FreeRunFails \/ MapFragmentFails \/ FreeDone

Start ==
    \/ \E r \in Requests : StartAlloc(r)
    \/ \E f \in files : \E v \in 0..(EndVcn(f) - 1) :
          \E by \in {"free_from_rl", "free"} : \E n \in {-1, EndVcn(f) - v} :
              StartFree(by, f, v, n)

Next == (Start \/ AllocStep \/ FreeStep) /\ UNCHANGED system

Spec == Init /\ [][Next]_vars

\* A call that has begun keeps running: it holds the lock and never waits.
FairSpec == Spec /\ WF_vars((AllocStep \/ FreeStep) /\ UNCHANGED system)
-----------------------------------------------------------------------------
(***************************************************************************)
(* Properties.                                                             *)
(***************************************************************************)

\* The mft zone lies between the two data zones, and the position of each
\* data zone lies inside it: ntfs_cluster_alloc() relies on this when it
\* splits a zone into the part after and the part before its position.
ZonesOrdered ==
    /\ mft_zone_start <= mft_zone_end
    /\ mft_zone_end <= data1_zone_pos /\ data1_zone_pos < NrClusters
    /\ data2_zone_pos <= mft_zone_start

\* No cluster belongs to two runlists, to a runlist and to what was in use at
\* mount time, or to a runlist while its bit is clear, unless a failed
\* rollback has set the volume errors flag.
NoDoubleAllocation ==
    errors \/
    /\ \A f, g \in files : f = g \/ RlClusters(f) \cap RlClusters(g) = {}
    /\ Owned \cap system = {}
    /\ RlClusters(rl) \cap (Owned \cup system) = {}
    /\ pc # "free" => (Owned \cup system \cup RlClusters(rl)) \subseteq used

\* nr_free_clusters, which statfs reports, is the number of clear bits.
FreeCountExact ==
    errors \/ nr_free_clusters = NrClusters - Cardinality(used)

\* Between calls every set bit was set at mount time or belongs to a runlist
\* some caller owns: a failed ntfs_cluster_alloc() has deallocated "all
\* allocated clusters" and a successful free all of the freed ones.
NoClusterLeak ==
    (pc = "idle" /\ ~errors) => used = system \cup Owned

\* A call adds no cluster that nobody owns and takes none: what is allocated
\* goes to a runlist, what is freed leaves one, and a call that fails gives
\* everything back.  Failed allocations at start_vcn > 0 are left to
\* NoClusterLeak.
CallsLeakNothing ==
    [][(pc # "idle" /\ pc' = "idle" /\ ~errors'
            /\ (err' # "none" => req.start_vcn = 0))
        => used' \ Owned' = before \ Owned]_vars

\* A successful ntfs_cluster_alloc() returns a runlist that maps exactly the
\* requested vcns, and whose adjacent runs could not be coalesced.
RunlistExact ==
    (pc = "out" /\ err = "none") =>
        /\ rl # <<>> /\ rl[1].vcn = req.start_vcn
        /\ EndVcn(rl) = req.start_vcn + req.count
        /\ \A i \in 1..(Len(rl) - 1) :
              /\ rl[i + 1].vcn = rl[i].vcn + rl[i].length
              /\ rl[i + 1].lcn # rl[i].lcn + rl[i].length
        /\ Cardinality(RlClusters(rl)) = req.count

\* ntfs_cluster_alloc() reports ENOSPC to a DATA_ZONE caller only when every
\* bit of the volume is set: shrinking the mft zone misses no cluster.
DataEnospcMeansFull ==
    (pc = "out" /\ err = "ENOSPC" /\ req.zone = "DATA") => used = Clusters

\* A DATA_ZONE allocation never takes a cluster of the (shrunk) mft zone.
DataAvoidsMftZone ==
    [][(pc = "scan" /\ req.zone = "DATA") =>
            \A c \in used' \ used : ~InMftZone(c)]_vars

\* ntfs_cluster_free() that fails has put every bit back, unless the volume
\* errors flag says that the rollback failed.
FailedFreeRestores ==
    [][(pc = "free" /\ fr.by \in {"free", "undo"} /\ pc' = "idle" /\ err' # "none"
            /\ ~errors') => used' = before]_vars

\* Every call of the allocator ends: the search never cycles through zones.
CallsEnd == (pc # "idle") ~> (pc = "idle")
=============================================================================
