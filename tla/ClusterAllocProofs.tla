------------------------- MODULE ClusterAllocProofs -------------------------
(***************************************************************************)
(* Proofs about the cluster allocator, for every size of the volume and of *)
(* the bitmap pages, every position of the mft and every set of requests.  *)
(*                                                                         *)
(* The zone positions stay ordered because each update of a position is    *)
(* guarded by the bounds of its own zone.  A data allocation stays out of  *)
(* the mft zone because of the range it searches: in the first data zone   *)
(* everything from the scan position on lies after the mft zone, in the    *)
(* second one everything up to zone_end lies before it.  When it gives up  *)
(* for want of space, it has searched both data zones from end to end and  *)
(* the mft zone between them has been halved down to nothing.              *)
(*                                                                         *)
(* That no cluster has two owners and that the free count is exact follow  *)
(* from the invariant of ClusterAllocOwners.                               *)
(***************************************************************************)
EXTENDS ClusterAllocOwners

TakenRuns == [vcn : Nat, lcn : Nat, length : Nat]

RangeTypes ==
    /\ mft_zone_start \in Nat /\ mft_zone_end \in Nat
    /\ data1_zone_pos \in Nat /\ data2_zone_pos \in Nat
    /\ zone_start \in Nat /\ zone_end \in Nat
    /\ bmp_pos \in Nat /\ page_end \in Nat /\ bmp_initial_pos \in Nat
    /\ search_zone \in {1, 2, 4}
    /\ mft_zone_pos \in Nat
    /\ req \in Requests \cup {NoReq}
    /\ rl \in Seq(TakenRuns)

\* Where a data allocation searches.
DataRange ==
    (Searching /\ req.zone = "DATA") =>
        /\ search_zone \in {2, 4}
        /\ search_zone = 2 =>
              /\ mft_zone_end <= zone_start
              /\ mft_zone_end <= bmp_pos
              /\ pc = "scan" => mft_zone_end <= page_end
        /\ search_zone = 4 =>
              /\ zone_start <= mft_zone_start
              /\ zone_end <= mft_zone_start

ZInv == RangeTypes /\ ZonesOrdered /\ DataRange
-----------------------------------------------------------------------------
\* What integer division gives.
LEMMA DivBounds ==
    ASSUME NEW a \in Nat, NEW b \in Nat \ {0}
    PROVE  /\ a \div b \in Nat
           /\ (a \div b) * b <= a
           /\ a < (a \div b) * b + b
BY Z3

\* Multiplication keeps the order.
LEMMA MulMono ==
    ASSUME NEW a \in Nat, NEW b \in Nat, NEW c \in Nat, a <= b
    PROVE  a * c <= b * c
BY Z3

\* The page that holds a bit ends after it: mapping a page makes progress.
LEMMA PageHoldsBit ==
    ASSUME NEW a \in Nat, NEW b \in Nat \ {0}, NEW p \in Nat \ {0}
    PROVE  a <= (((a \div b) \div p) * p + p) * b
<1> DEFINE l == a \div b
           q == l \div p
           m == q * p + p
<1>1. l \in Nat /\ a < l * b + b
  BY DivBounds, Zenon
<1>2. q \in Nat /\ l < m
  BY <1>1, DivBounds, Zenon
<1>3. m \in Nat
  BY <1>2
<1>4. (l + 1) * b <= m * b
  <2> HIDE DEF l, q, m
  <2> QED BY <1>1, <1>2, <1>3, MulMono
<1>5. l * b + b = (l + 1) * b
  BY <1>1
<1> QED
  BY <1>1, <1>4, <1>5

\* The bounds of the constants, without the sets they are stated with.
LEMMA Bounds ==
    /\ NrClusters \in Nat /\ MftLcn \in Nat /\ MftLcn < NrClusters
    /\ ByteBits \in Nat \ {0} /\ PageBytes \in Nat \ {0} /\ DataBytes \in Nat
    /\ NrClusters <= DataBytes * ByteBits
    /\ SetupZoneEnd \in Nat /\ SetupZoneEnd < NrClusters
    /\ MftLcn <= SetupZoneEnd
BY ClusterAllocAssumption, ZoneSetupAssumption DEF Clusters

\* What a request is.
LEMMA RequestType ==
    ASSUME NEW r \in Requests \cup {NoReq}
    PROVE  /\ r.zone \in {"DATA", "MFT"}
           /\ r.start_vcn \in Nat
           /\ r.start_lcn \in Int /\ r.start_lcn <= NrClusters
BY ClusterAllocAssumption DEF NoReq

\* Where a runlist ends.
LEMMA EndLcnType ==
    ASSUME rl \in Seq(TakenRuns), rl # <<>>
    PROVE  EndLcn(rl) \in Nat /\ EndVcn(rl) \in Nat
<1>1. rl[Len(rl)] \in TakenRuns
  OBVIOUS
<1>2. /\ rl[Len(rl)].vcn \in Nat
      /\ rl[Len(rl)].lcn \in Nat
      /\ rl[Len(rl)].length \in Nat
  BY <1>1, Zenon DEF TakenRuns
<1> QED
  BY <1>2 DEF EndLcn, EndVcn, Last

\* A runlist with one more cluster.
LEMMA AddClusterType ==
    ASSUME NEW c \in Nat, rl \in Seq(TakenRuns), req \in Requests \cup {NoReq}
    PROVE  AddCluster(c) \in Seq(TakenRuns)
<1>1. CASE rl # <<>> /\ EndLcn(rl) = c
  <2>1. Len(rl) \in DOMAIN rl /\ rl[Len(rl)] \in TakenRuns
    BY <1>1
  <2>2. ASSUME NEW x \in TakenRuns
        PROVE  [x EXCEPT !.length = @ + 1] \in TakenRuns
    <3>1. x = [vcn |-> x.vcn, lcn |-> x.lcn, length |-> x.length]
      BY Zenon DEF TakenRuns
    <3>2. [x EXCEPT !.length = @ + 1]
            = [vcn |-> x.vcn, lcn |-> x.lcn, length |-> x.length + 1]
      BY <3>1
    <3>3. x.vcn \in Nat /\ x.lcn \in Nat /\ x.length + 1 \in Nat
      BY DEF TakenRuns
    <3> QED
      BY <3>2, <3>3, Zenon DEF TakenRuns
  <2>3. [rl EXCEPT ![Len(rl)] = [rl[Len(rl)] EXCEPT !.length = @ + 1]]
            \in Seq(TakenRuns)
    BY <2>1, <2>2
  <2> QED
    BY <1>1, <2>3, Zenon DEF AddCluster
<1>2. CASE ~(rl # <<>> /\ EndLcn(rl) = c)
  <2> DEFINE v == IF rl = <<>> THEN req.start_vcn ELSE EndVcn(rl)
  <2>1. v \in Nat
    BY RequestType, EndLcnType, Zenon
  <2>2. Run(v, c, 1) \in TakenRuns
    BY <2>1, Zenon DEF Run, TakenRuns
  <2>3. Append(rl, Run(v, c, 1)) \in Seq(TakenRuns)
    BY <2>2
  <2> QED
    BY <1>2, <2>3, Zenon DEF AddCluster
<1> QED
  BY <1>1, <1>2, Zenon
-----------------------------------------------------------------------------
\* The invariant holds when the volume is mounted.
LEMMA InitZones == Init => ZInv
<1> SUFFICES ASSUME Init PROVE ZInv
  OBVIOUS
<1>1. RangeTypes
  BY Bounds DEF Init, RangeTypes, SetupZoneStart
<1>2. ZonesOrdered
  BY Bounds DEF Init, ZonesOrdered, SetupZoneStart
<1>3. DataRange
  BY Zenon DEF Init, DataRange, Searching
<1> QED
  BY <1>1, <1>2, <1>3, Zenon DEF ZInv

\* Leaving a call, or a step of a free, does not touch the zones.
LEMMA ReturnKeeps ==
    ASSUME ZInv, NEW e, NEW f, Return(e, f), UNCHANGED zoneVars
    PROVE  ZInv'
<1>1. RangeTypes'
  BY DEF ZInv, RangeTypes, Return, zoneVars
<1>2. ZonesOrdered'
  BY Zenon DEF ZInv, ZonesOrdered, zoneVars
<1>3. DataRange'
  BY Zenon DEF Return, DataRange, Searching
<1> QED
  BY <1>1, <1>2, <1>3, Zenon DEF ZInv

\* A step that leaves the search.
LEMMA OutsideKeeps ==
    ASSUME ZInv, UNCHANGED <<zoneVars, rangeVars, bmp_pos, page_end,
                             search_zone, req, rl>>,
           pc' \in {"idle", "out", "free"}
    PROVE  ZInv'
<1>1. RangeTypes'
  BY Zenon DEF ZInv, RangeTypes, zoneVars, rangeVars
<1>2. ZonesOrdered'
  BY Zenon DEF ZInv, ZonesOrdered, zoneVars
<1>3. DataRange'
  BY Zenon DEF DataRange, Searching
<1> QED
  BY <1>1, <1>2, <1>3, Zenon DEF ZInv

\* A free returns.
LEMMA FreeReturnsKeeps ==
    ASSUME ZInv, NEW e, FreeReturns(e), UNCHANGED zoneVars
    PROVE  ZInv'
<1>1. \E x, f : Return(x, f)
  BY Zenon DEF FreeReturns
<1> QED
  BY <1>1, ReturnKeeps, Zenon

\* The steps of a free leave the zones alone.
LEMMA FreeStepZones == ASSUME ZInv, FreeStep PROVE ZInv'
<1>1. CASE LookupVcn
  <2>1. CASE FreeReturns("none")
    BY <1>1, <2>1, FreeReturnsKeeps, Zenon DEF LookupVcn
  <2>2. CASE UNCHANGED <<rangeVars, bmp_pos, page_end, searchVars, buildVars,
                         req, pc, err, files>>
    BY <1>1, <2>2, OutsideKeeps, Zenon DEF LookupVcn, searchVars, buildVars
  <2> QED
    BY <1>1, <2>1, <2>2, Zenon DEF LookupVcn
<1>2. CASE FreeRun
  BY <1>2, OutsideKeeps, Zenon DEF FreeRun, searchVars, buildVars
<1>3. CASE FreeRunFails
  <2>1. CASE FreeReturns("EIO")
    BY <1>3, <2>1, FreeReturnsKeeps, Zenon DEF FreeRunFails
  <2>2. CASE UNCHANGED <<rangeVars, bmp_pos, page_end, searchVars, buildVars,
                         req, pc, err, files>>
    BY <1>3, <2>2, OutsideKeeps, Zenon DEF FreeRunFails, searchVars, buildVars
  <2> QED
    BY <1>3, <2>1, <2>2, Zenon DEF FreeRunFails
<1>4. CASE MapFragmentFails
  <2>1. CASE FreeReturns("EIO")
    BY <1>4, <2>1, FreeReturnsKeeps, Zenon DEF MapFragmentFails
  <2>2. CASE UNCHANGED <<rangeVars, bmp_pos, page_end, searchVars, buildVars,
                         req, pc, err, files>>
    BY <1>4, <2>2, OutsideKeeps, Zenon DEF MapFragmentFails, searchVars,
       buildVars
  <2> QED
    BY <1>4, <2>1, <2>2, Zenon DEF MapFragmentFails
<1>5. CASE FreeDone
  BY <1>5, FreeReturnsKeeps, Zenon DEF FreeDone
<1> QED
  BY <1>1, <1>2, <1>3, <1>4, <1>5, ZenonT(60) DEF FreeStep

\* Starting a call: a hint inside the mft zone is moved behind it.
LEMMA StartZones == ASSUME ZInv, Start PROVE ZInv'
<1>1. CASE \E r \in Requests : StartAlloc(r)
  <2>1. PICK r \in Requests : StartAlloc(r)
    BY <1>1, Zenon
  <2>2. /\ r.zone \in {"DATA", "MFT"} /\ r.start_lcn \in Int
        /\ req' = r /\ pc' = "map" /\ UNCHANGED <<zoneVars, page_end, rl>>
        /\ zone_start' = StartPos(r) /\ bmp_pos' = StartPos(r)
        /\ bmp_initial_pos' = StartPos(r)
    BY <2>1, RequestType, Zenon DEF StartAlloc
  <2>3. /\ \/ search_zone' = 1 /\ r.zone = "MFT" /\ zone_end' = mft_zone_end
           \/ search_zone' = 2 /\ StartPos(r) >= mft_zone_end
                               /\ zone_end' = NrClusters
           \/ search_zone' = 4 /\ StartPos(r) < mft_zone_end
                               /\ zone_end' = mft_zone_start
    BY <2>1, Zenon DEF StartAlloc
  <2>4. StartPos(r) \in Nat
    BY <2>2, Bounds DEF StartPos, ZInv, RangeTypes, MftZoneFirst
  <2>5. RangeTypes'
    BY <2>2, <2>3, <2>4, Bounds, Zenon DEF ZInv, RangeTypes, zoneVars
  <2>6. ZonesOrdered'
    BY <2>2, Zenon DEF ZInv, ZonesOrdered, zoneVars
  <2>7. r.zone = "DATA" /\ StartPos(r) < mft_zone_end
            => StartPos(r) <= mft_zone_start
    BY <2>2 DEF StartPos, InMftZone, ZInv, RangeTypes, ZonesOrdered
  <2>8. DataRange'
    BY <2>2, <2>3, <2>4, <2>7 DEF DataRange, zoneVars, ZInv, RangeTypes
  <2> QED
    BY <2>5, <2>6, <2>8, Zenon DEF ZInv
<1>2. CASE \E f \in files : \E v \in 0..(EndVcn(f) - 1) :
             \E by \in {"free_from_rl", "free"} :
                \E n \in {-1, EndVcn(f) - v} : StartFree(by, f, v, n)
  BY <1>2, OutsideKeeps, Zenon DEF StartFree, searchVars, buildVars
<1> QED
  BY <1>1, <1>2, Zenon DEF Start
-----------------------------------------------------------------------------
\* Mapping a page: the mapped part does not end before the scan position.
LEMMA MapPageZones == ASSUME ZInv, MapPage PROVE ZInv'
<1> DEFINE pe == Lower(PageOffset + PageBytes, DataBytes) * ByteBits
<1>1. /\ pc = "map" /\ pc' \in {"scan", "passdone"}
      /\ page_end' = pe \/ (page_end' = page_end /\ pc' = "passdone")
      /\ UNCHANGED <<zoneVars, rangeVars, bmp_pos, search_zone, req, rl>>
  BY Zenon DEF MapPage, MapKeep, searchVars, buildVars, callVars
<1>2. /\ PageOffset + PageBytes \in Nat
      /\ bmp_pos <= (PageOffset + PageBytes) * ByteBits
  <2>1. bmp_pos \in Nat
    BY Zenon DEF ZInv, RangeTypes
  <2>2. last_read_pos \in Nat /\ last_read_pos \div PageBytes \in Nat
    BY <2>1, Bounds, DivBounds, Zenon DEF last_read_pos
  <2>3. PageOffset + PageBytes \in Nat
    BY <2>2, Bounds DEF PageOffset
  <2> QED
    BY <2>1, <2>3, Bounds, PageHoldsBit, Zenon DEF PageOffset, last_read_pos
<1>3. pe \in Nat /\ (bmp_pos <= pe \/ NrClusters <= pe)
  BY <1>2, Bounds DEF Lower
<1> HIDE DEF pe
<1>4. RangeTypes'
  BY <1>1, <1>3, Zenon DEF ZInv, RangeTypes, zoneVars, rangeVars
<1>5. ZonesOrdered'
  BY <1>1, Zenon DEF ZInv, ZonesOrdered, zoneVars
<1>6. mft_zone_end \in Nat /\ mft_zone_end < NrClusters
  BY Bounds DEF ZInv, RangeTypes, ZonesOrdered
<1>7. DataRange'
  BY <1>1, <1>3, <1>6, Bounds
     DEF ZInv, RangeTypes, DataRange, Searching, zoneVars, rangeVars
<1> QED
  BY <1>4, <1>5, <1>7, Zenon DEF ZInv

\* The new positions of the zones lie inside them.
LEMMA NewPositions ==
    ASSUME ZInv, NEW tc \in Nat
    PROVE  /\ NewMftPos(tc) \in Nat
           /\ NewData1Pos(tc) \in Nat
           /\ mft_zone_end <= NewData1Pos(tc) /\ NewData1Pos(tc) < NrClusters
           /\ NewData2Pos(tc) \in Nat /\ NewData2Pos(tc) <= mft_zone_start
<1>1. NewMftPos(tc) \in Nat
  BY Bounds, Zenon DEF NewMftPos, MftZoneFirst, ZInv, RangeTypes
<1>2. /\ NewData1Pos(tc) \in Nat
      /\ mft_zone_end <= NewData1Pos(tc) /\ NewData1Pos(tc) < NrClusters
  BY Bounds DEF NewData1Pos, ZInv, RangeTypes, ZonesOrdered
<1>3. NewData2Pos(tc) \in Nat /\ NewData2Pos(tc) <= mft_zone_start
  BY Bounds DEF NewData2Pos, ZInv, RangeTypes, ZonesOrdered
<1> QED
  BY <1>1, <1>2, <1>3, Zenon

\* A cluster is taken and the position of its zone moves.
LEMMA TakeClusterZones ==
    ASSUME ZInv, NEW c \in Clusters, TakeCluster(c)
    PROVE  ZInv'
<1>1. /\ c \in Nat /\ bmp_pos <= c /\ pc = "scan"
      /\ rl' = AddCluster(c) /\ bmp_pos' = c + 1
      /\ UNCHANGED <<mft_zone_start, mft_zone_end, rangeVars, page_end,
                     search_zone, req>>
  BY Bounds DEF TakeCluster, NextFree, Available, Clusters, searchVars,
                callVars, ZInv, RangeTypes
<1>2. rl' \in Seq(TakenRuns)
  BY <1>1, AddClusterType, Zenon DEF ZInv, RangeTypes
<1>3. /\ mft_zone_pos' \in Nat
      /\ data1_zone_pos' \in Nat
      /\ mft_zone_end <= data1_zone_pos' /\ data1_zone_pos' < NrClusters
      /\ data2_zone_pos' \in Nat /\ data2_zone_pos' <= mft_zone_start
  <2>1. CASE UpdateZonePos(c + 1)
    <3>1. c + 1 \in Nat
      BY <1>1
    <3> QED
      BY <2>1, <3>1, NewPositions, Zenon DEF UpdateZonePos, ZInv, RangeTypes,
         ZonesOrdered
  <2>2. CASE UNCHANGED <<mft_zone_pos, data1_zone_pos, data2_zone_pos, pc>>
    BY <2>2, Zenon DEF ZInv, RangeTypes, ZonesOrdered
  <2> QED
    BY <2>1, <2>2, Zenon DEF TakeCluster
<1>4. RangeTypes'
  BY <1>1, <1>2, <1>3 DEF ZInv, RangeTypes, rangeVars
<1>5. ZonesOrdered'
  BY <1>1, <1>3, Zenon DEF ZInv, ZonesOrdered
<1>6. DataRange'
  BY <1>1 DEF ZInv, RangeTypes, DataRange, Searching, rangeVars
<1> QED
  BY <1>4, <1>5, <1>6, ZenonT(60) DEF ZInv

\* The search goes on in a data zone.
LEMMA SwitchZones == ASSUME ZInv, SwitchToData1 \/ SwitchToData2 PROVE ZInv'
<1>0. /\ mft_zone_start \in Nat /\ mft_zone_end \in Nat
      /\ data1_zone_pos \in Nat /\ data2_zone_pos \in Nat
      /\ mft_zone_pos \in Nat
      /\ mft_zone_start <= mft_zone_end /\ mft_zone_end <= data1_zone_pos
      /\ data1_zone_pos < NrClusters /\ data2_zone_pos <= mft_zone_start
      /\ page_end \in Nat /\ rl \in Seq(TakenRuns)
      /\ req \in Requests \cup {NoReq} /\ NrClusters \in Nat
  BY Bounds, Zenon DEF ZInv, RangeTypes, ZonesOrdered
<1>1. rl # <<>> => EndLcn(rl) \in Nat
  BY <1>0, EndLcnType, Zenon
<1>2. rl # <<>> =>
        /\ NewMftPos(EndLcn(rl)) \in Nat
        /\ NewData1Pos(EndLcn(rl)) \in Nat
        /\ mft_zone_end <= NewData1Pos(EndLcn(rl))
        /\ NewData1Pos(EndLcn(rl)) < NrClusters
        /\ NewData2Pos(EndLcn(rl)) \in Nat
        /\ NewData2Pos(EndLcn(rl)) <= mft_zone_start
  BY <1>1, NewPositions, Zenon
<1>3. CASE SwitchToData1
  <2>1. /\ search_zone' = 2 /\ zone_end' = NrClusters
        /\ zone_start' = data1_zone_pos /\ bmp_pos' = data1_zone_pos
        /\ data1_zone_pos' = data1_zone_pos
        /\ bmp_initial_pos' = data1_zone_pos
        /\ UNCHANGED <<mft_zone_start, mft_zone_end, page_end, rl, req>>
        /\ pc' # "scan"
    BY <1>0, <1>3 DEF SwitchToData1, SwitchTo, buildVars, callVars
  <2>2. /\ mft_zone_pos' \in Nat
        /\ data2_zone_pos' \in Nat /\ data2_zone_pos' <= mft_zone_start
    BY <1>0, <1>2, <1>3, Zenon DEF SwitchToData1
  <2>3. RangeTypes' /\ ZonesOrdered'
    BY <1>0, <2>1, <2>2, Zenon DEF RangeTypes, ZonesOrdered
  <2>4. DataRange'
    BY <1>0, <2>1 DEF DataRange
  <2> QED
    BY <2>3, <2>4, Zenon DEF ZInv
<1>4. CASE SwitchToData2
  <2> DEFINE first == IF data2_zone_pos >= mft_zone_start THEN 0
                                                          ELSE data2_zone_pos
  <2>1. /\ search_zone' = 4 /\ zone_end' = mft_zone_start
        /\ zone_start' = first /\ bmp_pos' = first
        /\ data2_zone_pos' = first /\ bmp_initial_pos' = first
        /\ UNCHANGED <<mft_zone_start, mft_zone_end, mft_zone_pos, page_end,
                       rl, req>>
    BY <1>4, Zenon DEF SwitchToData2, SwitchTo, buildVars, callVars
  <2>2. /\ data1_zone_pos' \in Nat
        /\ mft_zone_end <= data1_zone_pos' /\ data1_zone_pos' < NrClusters
    BY <1>0, <1>2, <1>4, Zenon DEF SwitchToData2
  <2>3. first \in Nat /\ first <= mft_zone_start
    BY <1>0
  <2>4. RangeTypes' /\ ZonesOrdered'
    BY <1>0, <2>1, <2>2, <2>3, Zenon DEF RangeTypes, ZonesOrdered
  <2>5. DataRange'
    BY <1>0, <2>1, <2>3 DEF DataRange
  <2> QED
    BY <2>4, <2>5 DEF ZInv
<1> QED
  BY <1>3, <1>4, Zenon

\* Halving the mft zone: what it gives up joins the first data zone.
LEMMA ShrinkZones == ASSUME ZInv, ShrinkMftZone PROVE ZInv'
<1> DEFINE half == HalvedSize
           end == IF half > 0 THEN mft_zone_start + half ELSE 0
           start == IF half > 0 THEN mft_zone_start ELSE 0
<1>0. /\ mft_zone_start \in Nat /\ mft_zone_end \in Nat
      /\ data2_zone_pos \in Nat /\ mft_zone_pos \in Nat
      /\ mft_zone_start < mft_zone_end /\ mft_zone_end < NrClusters
      /\ data2_zone_pos <= mft_zone_start
      /\ page_end \in Nat /\ rl \in Seq(TakenRuns)
      /\ req \in Requests \cup {NoReq} /\ NrClusters \in Nat /\ MftLcn \in Nat
  BY Bounds DEF ZInv, RangeTypes, ZonesOrdered, ShrinkMftZone
<1>1. half \in Nat /\ half <= mft_zone_end - mft_zone_start
  BY <1>0 DEF HalvedSize
<1>2. /\ mft_zone_start' = start /\ mft_zone_end' = end
      /\ data1_zone_pos' = end /\ zone_start' = end /\ bmp_pos' = end
      /\ bmp_initial_pos' = end /\ zone_end' = mft_zone_end
      /\ search_zone' = 2 /\ pc' = "map"
      /\ data2_zone_pos' = IF half > 0 THEN data2_zone_pos ELSE 0
      /\ mft_zone_pos' = IF mft_zone_pos < end THEN mft_zone_pos
                         ELSE IF end = 0 THEN 0 ELSE MftLcn
      /\ UNCHANGED <<page_end, rl, req>>
  BY Zenon DEF ShrinkMftZone, buildVars, callVars
<1> HIDE DEF half
<1>3. /\ end \in Nat /\ start \in Nat /\ start <= end /\ end < NrClusters
      /\ half > 0 => start = mft_zone_start
  BY <1>0, <1>1
<1>4. data2_zone_pos' \in Nat /\ data2_zone_pos' <= start
      /\ mft_zone_pos' \in Nat
  BY <1>0, <1>2, <1>3, Zenon
<1> HIDE DEF end, start
<1>5. RangeTypes' /\ ZonesOrdered'
  BY <1>0, <1>2, <1>3, <1>4 DEF RangeTypes, ZonesOrdered
<1>6. DataRange'
  BY <1>2, <1>3 DEF DataRange
<1> QED
  BY <1>5, <1>6, Zenon DEF ZInv

\* Every other step of an allocation.
LEMMA AllocStepZones == ASSUME ZInv, AllocStep PROVE ZInv'
<1>1. CASE MapPage
  BY <1>1, MapPageZones, Zenon
<1>2. CASE ZoneDone
  <2>1. /\ UNCHANGED <<zoneVars, rangeVars, bmp_pos, page_end, search_zone,
                       req, rl>>
        /\ pc = "passdone"
        /\ pc' \in {"passdone", "alldone", "switch"}
    BY <1>2, Zenon DEF ZoneDone, searchVars, buildVars, callVars
  <2>2. RangeTypes' /\ ZonesOrdered'
    BY <2>1, Zenon DEF ZInv, RangeTypes, ZonesOrdered, zoneVars, rangeVars
  <2>3. DataRange'
    BY <2>1, Zenon DEF ZInv, DataRange, Searching, zoneVars, rangeVars
  <2> QED
    BY <2>2, <2>3 DEF ZInv
<1>3. CASE MapFails \/ NoMemory \/ NoSpace
  BY <1>3, OutsideKeeps, Zenon DEF MapFails, NoMemory, NoSpace, MapKeep,
     searchVars, buildVars, callVars
<1>4. CASE \E c \in Clusters : TakeCluster(c)
  BY <1>4, TakeClusterZones, Zenon
<1>5. CASE PageDone
  <2>1. /\ UNCHANGED <<zoneVars, rangeVars, page_end, search_zone, req, rl>>
        /\ bmp_pos' = page_end /\ pc = "scan" /\ pc' \in {"map", "passdone"}
    BY <1>5, Zenon DEF PageDone, searchVars, buildVars, callVars
  <2>2. RangeTypes' /\ ZonesOrdered'
    BY <2>1, Zenon DEF ZInv, RangeTypes, ZonesOrdered, zoneVars, rangeVars
  <2>3. DataRange'
    BY <2>1, Zenon DEF ZInv, RangeTypes, DataRange, Searching, zoneVars,
       rangeVars
  <2> QED
    BY <2>2, <2>3 DEF ZInv
<1>6. CASE SecondPass
  <2>1. /\ UNCHANGED <<zoneVars, page_end, search_zone, req, rl,
                       bmp_initial_pos>>
        /\ zone_start' = ZoneFirst /\ bmp_pos' = ZoneFirst
        /\ zone_end' = IF zone_start < ZoneFirst THEN ZoneFirst ELSE zone_start
        /\ pc = "passdone" /\ pc' = "map"
    BY <1>6, Zenon DEF SecondPass, buildVars, callVars
  <2>2. /\ ZoneFirst \in Nat
        /\ search_zone = 2 => ZoneFirst = mft_zone_end
        /\ search_zone = 4 => ZoneFirst = 0
    BY DEF ZInv, RangeTypes, ZoneFirst
  <2>3. RangeTypes' /\ ZonesOrdered'
    BY <2>1, <2>2, Zenon DEF ZInv, RangeTypes, ZonesOrdered, zoneVars
  <2>4. DataRange'
    BY <2>1, <2>2 DEF ZInv, RangeTypes, DataRange, Searching, zoneVars
  <2> QED
    BY <2>3, <2>4 DEF ZInv
<1>7. CASE SwitchToData1 \/ SwitchToData2
  BY <1>7, SwitchZones, Zenon
<1>8. CASE ShrinkMftZone
  BY <1>8, ShrinkZones
<1>9. CASE AllocSucceeds
  BY <1>9, ReturnKeeps, Zenon DEF AllocSucceeds
<1>10. CASE AllocFails
  <2>1. CASE Return(err, files)
    BY <1>10, <2>1, ReturnKeeps, Zenon DEF AllocFails
  <2>2. CASE /\ pc' = "free"
             /\ UNCHANGED <<rangeVars, bmp_pos, page_end, searchVars,
                            buildVars, req, err, files>>
    BY <1>10, <2>2, OutsideKeeps, Zenon DEF AllocFails, searchVars, buildVars
  <2> QED
    BY <1>10, <2>1, <2>2, Zenon DEF AllocFails
<1> QED
  BY <1>1, <1>2, <1>3, <1>4, <1>5, <1>6, <1>7, <1>8, <1>9, <1>10, ZenonT(60)
     DEF AllocStep
-----------------------------------------------------------------------------
\* Every step keeps the zones in order.
LEMMA StepZones == ZInv /\ [Next]_vars => ZInv'
<1> SUFFICES ASSUME ZInv, [Next]_vars PROVE ZInv'
  OBVIOUS
<1>1. CASE Next
  BY <1>1, StartZones, AllocStepZones, FreeStepZones, Zenon DEF Next
<1>2. CASE UNCHANGED vars
  <2>1. UNCHANGED <<zoneVars, rangeVars, bmp_pos, page_end, search_zone, req,
                    rl, pc>>
    BY <1>2, Zenon DEF vars, searchVars, buildVars, callVars
  <2>2. RangeTypes' /\ ZonesOrdered'
    BY <2>1, Zenon DEF ZInv, RangeTypes, ZonesOrdered, zoneVars, rangeVars
  <2>3. DataRange'
    BY <2>1, Zenon DEF ZInv, DataRange, Searching, zoneVars, rangeVars
  <2> QED
    BY <2>2, <2>3, Zenon DEF ZInv
<1> QED
  BY <1>1, <1>2, Zenon

\* The zone positions that ntfs_cluster_alloc() leaves behind always lie in
\* their zones, whatever mix of allocations and frees came before.
THEOREM ZonesOrderedHolds == Spec => []ZonesOrdered
<1>1. ZInv => ZonesOrdered
  BY Zenon DEF ZInv
<1> QED
  BY <1>1, InitZones, StepZones, PTL DEF Spec

\* A data allocation never takes a cluster of the mft zone: the zone is first
\* shrunk, and only what it has given up is searched.
THEOREM DataAvoidsMftZoneHolds == Spec => DataAvoidsMftZone
<1>1. ZInv /\ [Next]_vars =>
        [(pc = "scan" /\ req.zone = "DATA") =>
            \A c \in used' \ used : ~InMftZone(c)]_vars
  <2> SUFFICES ASSUME ZInv, Next, pc = "scan", req.zone = "DATA",
                      NEW c \in used' \ used
               PROVE  ~InMftZone(c)
    BY Zenon DEF vars, bitmapVars
  <2>1. PICK d \in Clusters : TakeCluster(d)
    <3>1. ~ Start
      BY Zenon DEF Start, StartAlloc, StartFree
    <3>2. ~ FreeStep
      BY Zenon DEF FreeStep, LookupVcn, FreeRun, FreeRunFails,
         MapFragmentFails, FreeDone
    <3>3. ~ (NoMemory \/ PageDone)
      BY Zenon DEF NoMemory, PageDone, bitmapVars
    <3>4. ~ (MapPage \/ MapFails)
      BY Zenon DEF MapPage, MapFails
    <3>5. ~ (SecondPass \/ ZoneDone \/ SwitchToData1 \/ SwitchToData2)
      BY Zenon DEF SecondPass, ZoneDone, SwitchToData1, SwitchToData2
    <3>6. ~ (NoSpace \/ ShrinkMftZone \/ AllocSucceeds \/ AllocFails)
      BY Zenon DEF NoSpace, ShrinkMftZone, AllocSucceeds, AllocFails
    <3> QED
      BY <3>1, <3>2, <3>3, <3>4, <3>5, <3>6, ZenonT(60) DEF Next, AllocStep
  <2>2. c = d /\ bmp_pos <= c /\ c < zone_end /\ c \in Nat
    <3>1. c = d
      BY <2>1, Zenon DEF TakeCluster
    <3>2. d \in bmp_pos..(Lower(page_end, zone_end) - 1)
      BY <2>1, Zenon DEF TakeCluster, NextFree, Available
    <3> QED
      BY <3>1, <3>2, Bounds DEF Lower, ZInv, RangeTypes
  <2> QED
    BY <2>2 DEF ZInv, RangeTypes, DataRange, Searching, InMftZone
<1> QED
  BY <1>1, InitZones, StepZones, PTL DEF Spec, DataAvoidsMftZone
-----------------------------------------------------------------------------
(***************************************************************************)
(* What a data allocation has searched.  A zone that is done has no clear  *)
(* bit; a pass has left none between its start and the scan position; and  *)
(* the second pass over a zone begins only when the first one has left     *)
(* none behind the position it began at.                                   *)
(***************************************************************************)

ZoneLast == IF search_zone = 2 THEN NrClusters ELSE mft_zone_start

Full(a, b) == \A c \in Clusters : a <= c /\ c < b => c \in used

SearchedPass ==
    /\ pass \in {1, 2}
    /\ pass = 1 => zone_end = ZoneLast
    /\ pass = 2 => zone_start = ZoneFirst /\ Full(zone_end, ZoneLast)

Searched ==
    /\ Searching => err = "none"
    /\ (Searching /\ req.zone = "DATA") =>
          /\ 2 \in done_zones => Full(mft_zone_end, NrClusters)
          /\ 4 \in done_zones => Full(0, mft_zone_start)
          /\ pc = "alldone" => 2 \in done_zones /\ 4 \in done_zones
          /\ pc \in {"map", "scan"} => Full(zone_start, Lower(bmp_pos, zone_end))
          /\ pc = "passdone" => Full(zone_start, zone_end)
          /\ pc \in {"map", "scan", "passdone"} => SearchedPass
    /\ (pc = "out" /\ err = "ENOSPC" /\ req.zone = "DATA") => Clusters \subseteq used

\* Nothing is searched outside the search.
LEMMA NotSearching ==
    ASSUME ~Searching', ~(pc' = "out" /\ err' = "ENOSPC")
    PROVE  Searched'
BY Zenon DEF Searched

\* A new search: nothing lies between its start and the scan position.
LEMMA StartSearched ==
    ASSUME ZInv, NEW r \in Requests, StartAlloc(r)
    PROVE  Searched'
<1>1. /\ r.zone \in {"DATA", "MFT"} /\ r.start_lcn \in Int
      /\ req' = r /\ pc' = "map" /\ err' = "none"
      /\ zone_start' = StartPos(r) /\ bmp_pos' = StartPos(r)
      /\ pass' = StartPass(r)
      /\ UNCHANGED <<mft_zone_start, mft_zone_end>>
  BY RequestType, Zenon DEF StartAlloc, zoneVars
<1>2. CASE r.zone = "MFT"
  BY <1>1, <1>2, Zenon DEF Searched
<1>3. CASE r.zone = "DATA"
  <2>1. /\ done_zones' = {1}
        /\ \/ /\ StartPos(r) >= mft_zone_end
              /\ zone_end' = NrClusters /\ search_zone' = 2
           \/ /\ StartPos(r) < mft_zone_end
              /\ zone_end' = mft_zone_start /\ search_zone' = 4
    BY <1>3, Zenon DEF StartAlloc
  <2>2. zone_end' = ZoneLast'
    BY <1>1, <2>1 DEF ZoneLast
  <2>3. StartPos(r) \in Nat /\ StartPass(r) \in {1, 2}
    BY <1>1, Bounds DEF StartPos, StartPass, ZInv, RangeTypes, MftZoneFirst
  <2>4. StartPass(r) = 2 =>
            StartPos(r) = mft_zone_end /\ search_zone' = 2
    BY <1>1, <1>3, <2>1
       DEF StartPos, StartPass, InMftZone, ZInv, RangeTypes, ZonesOrdered
  <2>5. StartPass(r) = 2 => zone_start' = ZoneFirst'
    BY <1>1, <2>4 DEF ZoneFirst
  <2>6. zone_end' \in Nat
    BY <2>1, Bounds, Zenon DEF ZInv, RangeTypes
  <2>7. Full(zone_start, Lower(bmp_pos, zone_end))'
    BY <1>1, <2>3, <2>6 DEF Full, Lower, Clusters
  <2>8. Full(zone_end, ZoneLast)'
    BY <2>2, <2>6 DEF Full, Clusters
  <2> QED
    BY <1>1, <2>1, <2>2, <2>3, <2>5, <2>7, <2>8, SMTT(60) DEF Searched,
       SearchedPass
<1> QED
  BY <1>1, <1>2, <1>3, Zenon

\* A page is mapped, or there is none left.
LEMMA MapSearched == ASSUME ZInv, Searched, MapPage PROVE Searched'
<1>1. /\ pc = "map" /\ pc' \in {"scan", "passdone"} /\ err' = err
      /\ pc' = "passdone" => last_read_pos > DataBytes
      /\ UNCHANGED <<used, mft_zone_start, mft_zone_end, zone_start, zone_end,
                     bmp_pos, pass, done_zones, search_zone, req>>
  BY Zenon DEF MapPage, MapKeep, bitmapVars, zoneVars, rangeVars, searchVars,
     callVars
<1>2. bmp_pos \in Nat /\ zone_start \in Nat /\ zone_end \in Nat
  BY Zenon DEF ZInv, RangeTypes
<1>3. last_read_pos > DataBytes => NrClusters <= bmp_pos
  <2> DEFINE l == bmp_pos \div ByteBits
  <2>1. l \in Nat /\ l * ByteBits <= bmp_pos
    BY <1>2, Bounds, DivBounds, Zenon
  <2> HIDE DEF l
  <2>2. DataBytes < l => DataBytes * ByteBits <= l * ByteBits
    BY <2>1, Bounds, MulMono
  <2>3. DataBytes * ByteBits \in Nat /\ l * ByteBits \in Nat
    BY <2>1, Bounds
  <2>4. DataBytes < l => NrClusters <= bmp_pos
    BY <1>2, <2>1, <2>2, <2>3, Bounds
  <2> QED
    BY <2>1, <2>4, Bounds, Zenon DEF l, last_read_pos
<1>4. CASE req.zone = "DATA"
  <2>1. /\ 2 \in done_zones => Full(mft_zone_end, NrClusters)
        /\ 4 \in done_zones => Full(0, mft_zone_start)
        /\ Full(zone_start, Lower(bmp_pos, zone_end)) /\ SearchedPass
        /\ err = "none"
    BY <1>1, <1>4, Zenon DEF Searched, Searching
  <2>2. pc' = "passdone" => Full(zone_start, zone_end)
    BY <1>1, <1>2, <1>3, <2>1, Bounds DEF Full, Lower, Clusters
  <2>3. /\ (2 \in done_zones => Full(mft_zone_end, NrClusters))'
        /\ (4 \in done_zones => Full(0, mft_zone_start))'
        /\ Full(zone_start, Lower(bmp_pos, zone_end))'
        /\ pc' = "passdone" => Full(zone_start, zone_end)'
    BY <1>1, <2>1, <2>2, Zenon DEF Full
  <2>4. SearchedPass'
    BY <1>1, <2>1, Zenon DEF SearchedPass, ZoneLast, ZoneFirst, Full
  <2> QED
    BY <1>1, <2>1, <2>3, <2>4, Zenon DEF Searched
<1>5. CASE req.zone # "DATA"
  BY <1>1, <1>5, Zenon DEF Searched, Searching
<1> QED
  BY <1>4, <1>5, Zenon

\* The first clear bit is taken: none is left before the next position.
LEMMA TakeSearched ==
    ASSUME ZInv, Searched, NEW c \in Clusters, TakeCluster(c)
    PROVE  Searched'
<1>1. /\ pc = "scan" /\ pc' \in {"scan", "out"} /\ err' = err
      /\ bmp_pos' = c + 1 /\ used' = used \cup {c} /\ NextFree(c)
      /\ UNCHANGED <<mft_zone_start, mft_zone_end, zone_start, zone_end,
                     pass, done_zones, search_zone, req>>
  BY Zenon DEF TakeCluster, rangeVars, searchVars, callVars
<1>2. /\ bmp_pos \in Nat /\ zone_start \in Nat /\ zone_end \in Nat
      /\ page_end \in Nat /\ c \in Nat
  BY Bounds DEF ZInv, RangeTypes, Clusters
<1>3. err = "none"
  BY <1>1, Zenon DEF Searched, Searching
<1>4. CASE req.zone = "DATA"
  <2>1. /\ 2 \in done_zones => Full(mft_zone_end, NrClusters)
        /\ 4 \in done_zones => Full(0, mft_zone_start)
        /\ Full(zone_start, Lower(bmp_pos, zone_end)) /\ SearchedPass
    BY <1>1, <1>4, Zenon DEF Searched, Searching
  <2>2. /\ bmp_pos <= c /\ c < zone_end /\ c < page_end
        /\ \A d \in Clusters : bmp_pos <= d /\ d < c => d \in used
    BY <1>1, <1>2 DEF NextFree, Available, Lower, Clusters
  <2>3. Full(zone_start, Lower(bmp_pos, zone_end))'
    BY <1>1, <1>2, <2>1, <2>2 DEF Full, Lower, Clusters
  <2>4. /\ (2 \in done_zones => Full(mft_zone_end, NrClusters))'
        /\ (4 \in done_zones => Full(0, mft_zone_start))'
    BY <1>1, <2>1, Zenon DEF Full
  <2>5. SearchedPass'
    BY <1>1, <2>1, Zenon DEF SearchedPass, ZoneLast, ZoneFirst, Full
  <2> QED
    BY <1>1, <1>3, <2>3, <2>4, <2>5, Zenon DEF Searched
<1>5. CASE req.zone # "DATA"
  BY <1>1, <1>3, <1>5, Zenon DEF Searched
<1> QED
  BY <1>4, <1>5, Zenon

\* The mapped part of the zone has no clear bit left.
LEMMA PageSearched == ASSUME ZInv, Searched, PageDone PROVE Searched'
<1>1. /\ pc = "scan" /\ err' = err /\ Available = {} /\ bmp_pos' = page_end
      /\ pc' = IF page_end < zone_end THEN "map" ELSE "passdone"
      /\ UNCHANGED <<used, mft_zone_start, mft_zone_end, zone_start, zone_end,
                     pass, done_zones, search_zone, req>>
  BY Zenon DEF PageDone, bitmapVars, zoneVars, rangeVars, searchVars, callVars
<1>2. /\ bmp_pos \in Nat /\ zone_start \in Nat /\ zone_end \in Nat
      /\ page_end \in Nat
  BY Zenon DEF ZInv, RangeTypes
<1>3. err = "none"
  BY <1>1, Zenon DEF Searched, Searching
<1>4. CASE req.zone = "DATA"
  <2>1. /\ 2 \in done_zones => Full(mft_zone_end, NrClusters)
        /\ 4 \in done_zones => Full(0, mft_zone_start)
        /\ Full(zone_start, Lower(bmp_pos, zone_end)) /\ SearchedPass
    BY <1>1, <1>4, Zenon DEF Searched, Searching
  <2>2. Full(zone_start, Lower(page_end, zone_end))
    BY <1>1, <1>2, <2>1 DEF Full, Available, Lower, Clusters
  <2>3. ~(page_end < zone_end) => Full(zone_start, zone_end)
    BY <1>2, <2>2, Zenon DEF Lower
  <2>4. /\ (2 \in done_zones => Full(mft_zone_end, NrClusters))'
        /\ (4 \in done_zones => Full(0, mft_zone_start))'
        /\ Full(zone_start, Lower(bmp_pos, zone_end))'
        /\ ~(page_end < zone_end) => Full(zone_start, zone_end)'
    BY <1>1, <2>1, <2>2, <2>3, Zenon DEF Full
  <2>5. SearchedPass'
    BY <1>1, <2>1, Zenon DEF SearchedPass, ZoneLast, ZoneFirst, Full
  <2> QED
    BY <1>1, <1>3, <2>4, <2>5, Zenon DEF Searched
<1>5. CASE req.zone # "DATA"
  BY <1>1, <1>3, <1>5, Zenon DEF Searched
<1> QED
  BY <1>4, <1>5

\* The second pass covers what lies before the start of the first one.
LEMMA SecondPassSearched == ASSUME ZInv, Searched, SecondPass PROVE Searched'
<1>1. /\ pc = "passdone" /\ pc' = "map" /\ err' = err /\ pass = 1 /\ pass' = 2
      /\ zone_start' = ZoneFirst /\ bmp_pos' = ZoneFirst
      /\ zone_end' = IF zone_start < ZoneFirst THEN ZoneFirst ELSE zone_start
      /\ UNCHANGED <<used, mft_zone_start, mft_zone_end, done_zones,
                     search_zone, req>>
  BY Zenon DEF SecondPass, bitmapVars, zoneVars, callVars
<1>2. zone_start \in Nat /\ zone_end \in Nat /\ ZoneFirst \in Nat
  BY Zenon DEF ZInv, RangeTypes, ZoneFirst
<1>3. err = "none"
  BY <1>1, Zenon DEF Searched, Searching
<1>4. CASE req.zone = "DATA"
  <2>1. /\ 2 \in done_zones => Full(mft_zone_end, NrClusters)
        /\ 4 \in done_zones => Full(0, mft_zone_start)
        /\ Full(zone_start, ZoneLast)
    BY <1>1, <1>4, Zenon DEF Searched, SearchedPass, Searching
  <2>2. ZoneFirst' = ZoneFirst /\ ZoneLast' = ZoneLast
    BY <1>1, Zenon DEF ZoneFirst, ZoneLast
  <2>3. ZoneLast \in Nat
    BY Bounds, Zenon DEF ZoneLast, ZInv, RangeTypes
  <2>4. Full(zone_end, ZoneLast)'
    BY <1>1, <1>2, <2>1, <2>2, <2>3, SMTT(60) DEF Full, Clusters
  <2>5. Full(zone_start, Lower(bmp_pos, zone_end))'
    BY <1>1, <1>2 DEF Full, Lower, Clusters
  <2>6. /\ (2 \in done_zones => Full(mft_zone_end, NrClusters))'
        /\ (4 \in done_zones => Full(0, mft_zone_start))'
    BY <1>1, <2>1, Zenon DEF Full
  <2> QED
    BY <1>1, <1>3, <2>2, <2>4, <2>5, <2>6, SMTT(60) DEF Searched, SearchedPass
<1>5. CASE req.zone # "DATA"
  BY <1>1, <1>3, <1>5, ZenonT(60) DEF Searched
<1> QED
  BY <1>4, <1>5

\* Both passes over a zone leave no clear bit in it.
LEMMA ZoneSearched == ASSUME ZInv, Searched, ZoneDone PROVE Searched'
<1>1. /\ pc = "passdone" /\ err' = err /\ pass = 2
      /\ done_zones' = done_zones \cup {search_zone}
      /\ pc' = IF done_zones' = {1, 2, 4} THEN "alldone" ELSE "switch"
      /\ UNCHANGED <<used, mft_zone_start, mft_zone_end, req>>
  BY Zenon DEF ZoneDone, bitmapVars, zoneVars, callVars
<1>2. /\ zone_start \in Nat /\ zone_end \in Nat /\ NrClusters \in Nat
      /\ mft_zone_start \in Nat /\ mft_zone_end \in Nat
  BY Bounds, Zenon DEF ZInv, RangeTypes
<1>3. err = "none"
  BY <1>1, Zenon DEF Searched, Searching
<1>4. CASE req.zone = "DATA"
  <2>1. /\ 2 \in done_zones => Full(mft_zone_end, NrClusters)
        /\ 4 \in done_zones => Full(0, mft_zone_start)
        /\ Full(zone_start, zone_end) /\ Full(zone_end, ZoneLast)
        /\ zone_start = ZoneFirst /\ search_zone \in {2, 4}
    BY <1>1, <1>4, Zenon DEF Searched, SearchedPass, Searching, ZInv, DataRange
  <2>2. /\ search_zone = 2 => Full(mft_zone_end, NrClusters)
        /\ search_zone = 4 => Full(0, mft_zone_start)
    BY <1>2, <2>1 DEF ZoneFirst, ZoneLast, Full, Clusters
  <2>3. /\ (2 \in done_zones => Full(mft_zone_end, NrClusters))'
        /\ (4 \in done_zones => Full(0, mft_zone_start))'
    BY <1>1, <2>1, <2>2, ZenonT(60) DEF Full
  <2> QED
    BY <1>1, <1>3, <2>3, ZenonT(60) DEF Searched
<1>5. CASE req.zone # "DATA"
  BY <1>1, <1>3, <1>5, ZenonT(60) DEF Searched
<1> QED
  BY <1>4, <1>5

\* The next zone is searched from its position on, or as a whole.
LEMMA SwitchSearched ==
    ASSUME ZInv, Searched, SwitchToData1 \/ SwitchToData2
    PROVE  Searched'
<1>1. /\ pc = "switch" /\ err' = err
      /\ UNCHANGED <<used, mft_zone_start, mft_zone_end, done_zones, req>>
  BY Zenon DEF SwitchToData1, SwitchToData2, SwitchTo, bitmapVars, callVars
<1>2. /\ NrClusters \in Nat /\ mft_zone_start \in Nat /\ mft_zone_end \in Nat
      /\ data1_zone_pos \in Nat /\ data2_zone_pos \in Nat
  BY Bounds, Zenon DEF ZInv, RangeTypes
<1>3. err = "none"
  BY <1>1, Zenon DEF Searched, Searching
<1>4. /\ zone_start' = bmp_pos' /\ zone_start' \in Nat /\ zone_end' \in Nat
      /\ zone_end' = ZoneLast' /\ pass' \in {1, 2}
      /\ pass' = 2 => zone_start' = ZoneFirst'
      /\ pc' = IF zone_start' = zone_end' THEN "passdone" ELSE "map"
  <2>1. CASE SwitchToData1
    <3>1. /\ zone_start' = bmp_pos' /\ zone_start' \in Nat
          /\ zone_end' = NrClusters /\ search_zone' = 2
          /\ pass' = IF zone_start' = mft_zone_end THEN 2 ELSE 1
          /\ pc' = IF zone_start' = zone_end' THEN "passdone" ELSE "map"
      BY <2>1, <1>2, Zenon DEF SwitchToData1, SwitchTo
    <3> QED
      BY <3>1, <1>1, <1>2 DEF ZoneFirst, ZoneLast
  <2>2. CASE SwitchToData2
    <3>1. /\ zone_start' = bmp_pos' /\ zone_start' \in Nat
          /\ zone_end' = mft_zone_start /\ search_zone' = 4
          /\ pass' = IF zone_start' = 0 THEN 2 ELSE 1
          /\ pc' = IF zone_start' = zone_end' THEN "passdone" ELSE "map"
      BY <2>2, <1>2, Zenon DEF SwitchToData2, SwitchTo
    <3> QED
      BY <3>1, <1>1, <1>2 DEF ZoneFirst, ZoneLast
  <2> QED
    BY <2>1, <2>2, Zenon
<1>5. CASE req.zone = "DATA"
  <2>1. /\ 2 \in done_zones => Full(mft_zone_end, NrClusters)
        /\ 4 \in done_zones => Full(0, mft_zone_start)
    BY <1>1, <1>5, ZenonT(60) DEF Searched, Searching
  <2>2. /\ (2 \in done_zones => Full(mft_zone_end, NrClusters))'
        /\ (4 \in done_zones => Full(0, mft_zone_start))'
    BY <1>1, <2>1, ZenonT(60) DEF Full
  <2>3. Full(zone_start, Lower(bmp_pos, zone_end))' /\ Full(zone_end, ZoneLast)'
    BY <1>4 DEF Full, Lower, Clusters
  <2>4. zone_start' = zone_end' => Full(zone_start, zone_end)'
    BY <1>4 DEF Full, Clusters
  <2> QED
    BY <1>1, <1>3, <1>4, <2>2, <2>3, <2>4, ZenonT(60) DEF Searched,
       SearchedPass
<1>6. CASE req.zone # "DATA"
  BY <1>1, <1>3, <1>4, <1>6, ZenonT(60) DEF Searched
<1> QED
  BY <1>5, <1>6, ZenonT(60)

\* What the mft zone gives up is the part of the first data zone that is
\* still to be searched.
LEMMA ShrinkSearched == ASSUME ZInv, Searched, ShrinkMftZone PROVE Searched'
<1> DEFINE half == HalvedSize
           end == IF half > 0 THEN mft_zone_start + half ELSE 0
<1>1. /\ pc = "alldone" /\ pc' = "map" /\ err' = err /\ req.zone = "DATA"
      /\ zone_end' = mft_zone_end /\ mft_zone_end' = end
      /\ mft_zone_start' = IF half > 0 THEN mft_zone_start ELSE 0
      /\ zone_start' = end /\ bmp_pos' = end /\ search_zone' = 2 /\ pass' = 2
      /\ done_zones' = done_zones \ {2} /\ UNCHANGED <<used, req>>
  BY Zenon DEF ShrinkMftZone, bitmapVars, callVars
<1>2. /\ mft_zone_start \in Nat /\ mft_zone_end \in Nat
      /\ mft_zone_start < mft_zone_end
  BY Zenon DEF ZInv, RangeTypes, ShrinkMftZone
<1>3. half \in Nat
  BY <1>2 DEF HalvedSize
<1> HIDE DEF half
<1>4. end \in Nat
  BY <1>2, <1>3, SMTT(60)
<1>5. err = "none" /\ Full(mft_zone_end, NrClusters) /\ Full(0, mft_zone_start)
  BY <1>1, ZenonT(60) DEF Searched, Searching
<1>6. Full(0, mft_zone_start)'
  BY <1>1, <1>5 DEF Full, Clusters
<1> HIDE DEF end
<1>7. zone_start' = ZoneFirst' /\ ZoneLast' = NrClusters
  BY <1>1 DEF ZoneFirst, ZoneLast
<1>8. Full(zone_end, ZoneLast)'
  BY <1>1, <1>5, <1>7, ZenonT(60) DEF Full
<1>9. Full(zone_start, Lower(bmp_pos, zone_end))'
  BY <1>1, <1>2, <1>4, SMTT(60) DEF Full, Lower, Clusters
<1> QED
  BY <1>1, <1>5, <1>6, <1>7, <1>8, <1>9, SMTT(60) DEF Searched, SearchedPass

\* All zones are done and the mft zone is empty.
LEMMA NoSpaceSearched == ASSUME ZInv, Searched, NoSpace PROVE Searched'
<1>1. /\ pc = "alldone" /\ pc' = "out" /\ UNCHANGED <<used, req>>
      /\ req.zone = "MFT" \/ mft_zone_end <= mft_zone_start
  BY Zenon DEF NoSpace, bitmapVars, callVars
<1>2. mft_zone_start \in Nat /\ mft_zone_end \in Nat /\ NrClusters \in Nat
  BY Bounds, Zenon DEF ZInv, RangeTypes
<1>3. CASE req.zone = "DATA"
  <2>1. Full(mft_zone_end, NrClusters) /\ Full(0, mft_zone_start)
    BY <1>1, <1>3, ZenonT(60) DEF Searched, Searching
  <2>2. Clusters \subseteq used
    BY <1>1, <1>2, <1>3, <2>1, SMTT(60) DEF Full, Clusters
  <2> QED
    BY <1>1, <2>2, ZenonT(60) DEF Searched, Searching
<1>4. CASE req.zone # "DATA"
  BY <1>1, <1>4, ZenonT(60) DEF Searched, Searching
<1> QED
  BY <1>3, <1>4

\* Every step keeps account of what was searched.
LEMMA StepSearched == ZInv /\ Searched /\ [Next]_vars => Searched'
<1> SUFFICES ASSUME ZInv, Searched, [Next]_vars PROVE Searched'
  OBVIOUS
<1>1. CASE Start
  <2>1. CASE \E r \in Requests : StartAlloc(r)
    BY <2>1, StartSearched, Zenon
  <2>2. CASE ~ \E r \in Requests : StartAlloc(r)
    <3>1. pc' = "free"
      BY <1>1, <2>2, ZenonT(60) DEF Start, StartFree
    <3> QED
      BY <3>1, NotSearching, ZenonT(60) DEF Searching
  <2> QED
    BY <2>1, <2>2, Zenon
<1>2. CASE FreeStep
  <2>1. \A e : FreeReturns(e) => pc' = "idle"
    BY Zenon DEF FreeReturns, Return
  <2>2. pc' \in {"free", "idle"}
    BY <1>2, <2>1, ZenonT(60) DEF FreeStep, LookupVcn, FreeRun, FreeRunFails,
       MapFragmentFails, FreeDone
  <2> QED
    BY <2>2, NotSearching, ZenonT(60) DEF Searching
<1>3. CASE AllocSucceeds \/ AllocFails
  <2>1. pc' \in {"free", "idle"}
    BY <1>3, Zenon DEF AllocSucceeds, AllocFails, Return
  <2> QED
    BY <2>1, NotSearching DEF Searching
<1>4. CASE MapFails \/ NoMemory
  <2>1. pc' = "out" /\ err' # "ENOSPC"
    BY <1>4, Zenon DEF MapFails, NoMemory
  <2> QED
    BY <2>1, NotSearching, ZenonT(60) DEF Searching
<1>5. CASE UNCHANGED vars
  <2>1. UNCHANGED <<used, pc, err, req, mft_zone_start, mft_zone_end,
                    zone_start, zone_end, bmp_pos, pass, done_zones,
                    search_zone>>
    BY <1>5, Zenon DEF vars, bitmapVars, zoneVars, rangeVars, searchVars,
       callVars
  <2>2. SearchedPass' <=> SearchedPass
    BY <2>1, Zenon DEF SearchedPass, ZoneFirst, ZoneLast, Full
  <2> QED
    BY <2>1, <2>2, Zenon DEF Searched, Searching, Full
<1> QED
  BY <1>1, <1>2, <1>3, <1>4, <1>5, MapSearched, TakeSearched, PageSearched,
     SecondPassSearched, ZoneSearched, SwitchSearched, ShrinkSearched,
     NoSpaceSearched, SMTT(60) DEF Next, AllocStep

\* ENOSPC for a data caller: no bit of the volume is clear.
LEMMA SearchedInvariant == Spec => []Searched
<1>1. Init => Searched
  BY DEF Init, Searched, Searching
<1> QED
  BY <1>1, InitZones, StepZones, StepSearched, PTL DEF Spec

-----------------------------------------------------------------------------
(***************************************************************************)
(* What holds in every behaviour.                                          *)
(***************************************************************************)
INSTANCE FiniteSetTheorems

\* What is used of cardinality.
LEMMA CountingHolds == Counting
<1>1. NrClusters \in Nat \ {0}
  BY ClusterAllocAssumption, ZenonT(60)
<1>2. IsFiniteSet(Clusters) /\ Cardinality(Clusters) = NrClusters
  <2> DEFINE n == NrClusters - 1
  <2>1. n \in Int
    BY <1>1, SMTT(60)
  <2> HIDE DEF n
  <2>2. IsFiniteSet(0..n) /\ Cardinality(0..n) = IF 0 > n THEN 0 ELSE n - 0 + 1
    BY <2>1, FS_Interval, SMTT(60)
  <2>3. n \in Nat /\ n + 1 = NrClusters
    BY <1>1 DEF n
  <2>4. Clusters = 0..n
    BY Zenon DEF Clusters, n
  <2> QED
    BY <2>2, <2>3, <2>4, SMTT(60)
<1>3. ASSUME NEW S \in SUBSET Clusters
      PROVE  /\ IsFiniteSet(S) /\ Cardinality(S) \in Nat
             /\ Cardinality(S) <= NrClusters
  BY <1>1, <1>2, FS_Subset, FS_CardinalityType, ZenonT(60)
<1>4. Cardinality({}) = 0 /\ \A c : Cardinality({c}) = 1
  BY FS_EmptySet, FS_Singleton, ZenonT(60)
<1>5. ASSUME NEW S \in SUBSET Clusters, Cardinality(S) = 0
      PROVE  S = {}
  BY <1>3, <1>5, FS_EmptySet, ZenonT(60)
<1>6. ASSUME NEW U \in SUBSET Clusters, NEW B \in SUBSET Clusters, U \cap B = {}
      PROVE  Cardinality(U \cup B) = Cardinality(U) + Cardinality(B)
  <2>1. Cardinality(U \cup B)
          = Cardinality(U) + Cardinality(B) - Cardinality(U \cap B)
    BY <1>3, FS_Union, ZenonT(60)
  <2>2. Cardinality(U) \in Nat /\ Cardinality(B) \in Nat
    BY <1>3, ZenonT(60)
  <2>3. Cardinality(U \cap B) = 0
    BY <1>4, <1>6, ZenonT(60)
  <2> QED
    BY <2>1, <2>2, <2>3, SMTT(60)
<1>7. ASSUME NEW U \in SUBSET Clusters, NEW B \in SUBSET U
      PROVE  Cardinality(U \ B) = Cardinality(U) - Cardinality(B)
  <2>1. U \cap B = B /\ IsFiniteSet(U)
    BY <1>3, ZenonT(60)
  <2> QED
    BY <2>1, FS_Difference
<1> QED
  BY <1>3, <1>4, <1>5, <1>6, <1>7, ZenonT(60) DEF Counting

\* At every moment of a call the runlist built so far is sound, maps the vcns
\* from start_vcn on without a hole, and holds as many new clusters as have
\* been taken off the request.
LEMMA BuildsInvariant == Spec => []Builds
<1>1. Init => Builds
  BY CountingHolds, InitBuilds, ZenonT(60)
<1>2. Builds /\ [Next]_vars => Builds'
  BY CountingHolds, BuildsStep, ZenonT(60)
<1> QED
  BY <1>1, <1>2, PTL DEF Spec

\* Every successful ntfs_cluster_alloc() returns a runlist that maps exactly
\* the requested vcns to as many distinct clusters, coalesced as far as
\* possible, also on a volume whose errors flag is set.
THEOREM RunlistExactHolds == Spec => []RunlistExact
<1>1. Builds => RunlistExact
  <2> SUFFICES ASSUME Builds, pc = "out", err = "none"
               PROVE  RunlistExact
    BY Zenon DEF RunlistExact
  <2>1. clusters = 0 /\ req \in Requests /\ req.count \in Nat /\ req.count > 0
    BY RequestCount, ZenonT(60) DEF Builds, BuildSound
  <2>2. rl # <<>>
    BY <2>1 DEF Builds, BuildSound
  <2>3. /\ Sound(rl) /\ rl[1].vcn = req.start_vcn
        /\ EndVcn(rl) = req.start_vcn + (req.count - clusters)
        /\ \A i \in 1..(Len(rl) - 1) : rl[i + 1].lcn # rl[i].lcn + rl[i].length
        /\ Cardinality(RlClusters(rl)) = req.count - clusters
    BY <2>2, ZenonT(60) DEF Builds, BuildSound
  <2>4. \A i \in 1..(Len(rl) - 1) : rl[i + 1].vcn = rl[i].vcn + rl[i].length
    BY <2>3, ZenonT(60) DEF Sound, RunsAdjacent
  <2>5. req.count - clusters = req.count
    BY <2>1
  <2> QED
    BY <2>2, <2>3, <2>4, <2>5, ZenonT(60) DEF RunlistExact
<1> QED
  BY <1>1, BuildsInvariant, PTL

\* Whatever the volume, the hint, the state of the mft zone and the earlier
\* calls, ntfs_cluster_alloc() reports ENOSPC to a DATA_ZONE caller only when
\* every bit of $Bitmap is set, also on a volume whose errors flag is set.
THEOREM DataEnospcMeansFullHolds == Spec => []DataEnospcMeansFull
<1>1. Searched /\ Shapes => DataEnospcMeansFull
  BY Zenon DEF Searched, Shapes, DataEnospcMeansFull
<1>2. Builds /\ Shapes /\ [Next]_vars => Shapes'
  BY CountingHolds, StepShapes, ZenonT(60)
<1> QED
  BY <1>1, <1>2, InitShapes, BuildsInvariant, SearchedInvariant, PTL DEF Spec

\* The owners are in balance all the time.
LEMMA OwnersInvariant == Spec => []OInv
<1>1. Init => OInv
  BY CountingHolds, InitBuilds, InitOwners, ZenonT(60) DEF OInv
<1>2. OInv /\ [Next]_vars => OInv'
  BY CountingHolds, BuildsStep, ErrorsStay, OwnersStep, SMTT(60) DEF OInv
<1> QED
  BY <1>1, <1>2, PTL DEF Spec

\* Whatever the volume, its mft zone, its bitmap and the calls that are made,
\* ntfs_cluster_alloc() never hands out a cluster that a runlist owns or that
\* was in use at mount time, and no free takes one away that is still owned,
\* until a failed rollback has set the volume errors flag.
THEOREM NoDoubleAllocationHolds == Spec => []NoDoubleAllocation
<1>1. OInv => NoDoubleAllocation
  <2> SUFFICES ASSUME Builds, Owners
               PROVE  NoDoubleAllocation
    BY Zenon DEF OInv, NoDoubleAllocation
  <2>1. Owned = OwnedBy(files)
    BY Zenon DEF Owned, OwnedBy
  <2>2. /\ FilesIn(files, IF pc = "idle" THEN used ELSE before)
        /\ pc = "idle" => rl = <<>>
        /\ RlClusters(rl) \cap before = {}
    BY CountingHolds, EmptyRunlist, ZenonT(60) DEF Owners, FilesSound, Builds,
       BuildSound
  <2>3. /\ \A f, g \in files : f = g \/ RlClusters(f) \cap RlClusters(g) = {}
        /\ Owned \cap system = {}
    BY <2>1, <2>2, ZenonT(60) DEF FilesIn
  <2>4. RlClusters(rl) \cap (Owned \cup system) = {}
    <3>1. CASE pc = "idle"
      BY <2>2, <3>1, CountingHolds, EmptyRunlist, ZenonT(60)
    <3>2. CASE pc # "idle"
      <4>1. Owned \cup system \subseteq before
        BY <2>1, <2>2, <3>2, ZenonT(60) DEF FilesIn
      <4> QED
        BY <2>2, <4>1, ZenonT(60)
    <3> QED
      BY <3>1, <3>2, ZenonT(60)
  <2>5. pc # "free" => (Owned \cup system \cup RlClusters(rl)) \subseteq used
    <3>1. CASE pc = "idle"
      BY <2>1, <2>2, <3>1, CountingHolds, EmptyRunlist, SMTT(60) DEF FilesIn
    <3>2. CASE pc \notin {"idle", "free"}
      <4>1. Owned \cup system \subseteq before
        BY <2>1, <2>2, <3>2, ZenonT(60) DEF FilesIn
      <4>2. used = before \cup RlClusters(rl)
        BY <3>2, SMTT(60) DEF Builds, BuildSound
      <4> QED
        BY <4>1, <4>2, ZenonT(60)
    <3> QED
      BY <3>1, <3>2, ZenonT(60)
  <2> QED
    BY <2>3, <2>4, <2>5, ZenonT(60) DEF NoDoubleAllocation
<1> QED
  BY <1>1, OwnersInvariant, PTL

\* The count of free clusters that the allocator keeps beside the bitmap is
\* the number of its clear bits, whatever is allocated, freed, rolled back or
\* allocated again by a failed free, until the errors flag is set.
THEOREM FreeCountExactHolds == Spec => []FreeCountExact
<1>1. OInv => FreeCountExact
  BY Zenon DEF OInv, Owners, Counted, FreeCountExact
<1> QED
  BY <1>1, OwnersInvariant, PTL

\* A call that returns with the errors flag clear has left every cluster as
\* the caller's runlists say: whatever runlist is allocated, or freed from
\* whatever vcn on, and wherever the call fails, the clusters that are in use
\* and that no runlist owns are the ones from before the call.  (A failed
\* allocation of a fragment, start_vcn > 0, is excepted: see the finding.)
THEOREM CallsLeakNothingHolds == Spec => CallsLeakNothing
<1>1. OInv /\ [Next]_vars
        => [(pc # "idle" /\ pc' = "idle" /\ ~errors'
                /\ (err' # "none" => req.start_vcn = 0))
              => used' \ Owned' = before \ Owned]_vars
  BY CountingHolds, ErrorsStay, ReturnExact, SMTT(60) DEF OInv
<1> QED
  BY <1>1, OwnersInvariant, PTL DEF Spec, CallsLeakNothing

\* ntfs_cluster_free() that fails on any run of any runlist, after any part of
\* it has been freed, and whose rollback succeeds, has restored the bitmap.
THEOREM FailedFreeRestoresHolds == Spec => FailedFreeRestores
<1>1. OInv /\ [Next]_vars
        => [(pc = "free" /\ fr.by \in {"free", "undo"} /\ pc' = "idle"
                /\ err' # "none" /\ ~errors') => used' = before]_vars
  BY CountingHolds, ErrorsStay, ReturnExact, ZenonT(60) DEF OInv
<1> QED
  BY <1>1, OwnersInvariant, PTL DEF Spec, FailedFreeRestores

=============================================================================
