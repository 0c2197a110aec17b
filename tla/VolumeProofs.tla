---------------------------- MODULE VolumeProofs ----------------------------
(***************************************************************************)
(* What holds of mounting, remounting, syncing and unmounting volumes for  *)
(* every number of volumes, every disk and every failure.                  *)
(*                                                                         *)
(* The inductive invariant is about one volume at a time (Good): which of  *)
(* its system inodes and tables are there at each place of a call, what    *)
(* may be pending, and how the dirty bit in memory is related to the one   *)
(* on the disk.  A step takes one volume to a new state and leaves the     *)
(* others alone (To), so each action is taken apart once and what a new    *)
(* state satisfies is shown without the action.  The counts of the shared  *)
(* tables, which are added up over the volumes, are in VolumeTables.       *)
(***************************************************************************)
EXTENDS Volume, TLAPS

(***************************************************************************)
(* What some of the theorems ask of the environment.  Each is a case where *)
(* the code gives up what the theorem says.                                *)
(***************************************************************************)

\* $MFT fails, if at all, before its first extent is loaded: after it,
\* ntfs_unmount() gives back a compression buffer that was never taken.
MftFailsEarly == \A w \in Workloads : TRUE \notin w.mftFails

\* $Volume fails, if at all, before its flags are cached: after it, a dirty
\* volume has no errors noted.
FlagsNeedName == \A w \in Workloads : TRUE \notin w.volumeFails

\* The machine does not crash while the dirty bit and the changes it must
\* precede or follow are both on their way to the disk.
CrashesOrdered == \A w \in Workloads : w.crash # "any"

-----------------------------------------------------------------------------
LogEmpties == BOOLEAN \cup {LogScan(log).empty : log \in Seq(Blocks)}

Vols ==
    [live : BOOLEAN, mp : BOOLEAN, ro : BOOLEAN, errors : BOOLEAN,
     dirty : BOOLEAN, rofl : BOOLEAN, logEmpty : LogEmpties, comp : BOOLEAN,
     upcase : {"none", "own", "default"}, mft : BOOLEAN, root : BOOLEAN,
     volni : BOOLEAN, postponed : BOOLEAN, release : BOOLEAN]

Early == {"boot", "mft", "tables"}
MountPlaces == Early \cup Loading \cup {"count"}
Remounting == {"r_sync", "r_clear", "r_flush"}
Unmounting ==
    {"u_sync", "u_start", "u_clear", "u_volume", "u_rest", "u_mft", "u_final"}
Places == {"idle"} \cup MountPlaces \cup Remounting \cup Unmounting

Types ==
    /\ load \in Workloads
    /\ disk \in [Volumes -> Contents]
    /\ vol \in [Volumes -> Vols]
    /\ pend \in [Volumes -> SUBSET Cached]
    /\ op \in [Volumes -> Nat]
    /\ pc \in [Volumes -> Places]
    /\ ret \in [Volumes -> {"ok", "err"}]
    /\ strays \in [Volumes -> Nat]

(***************************************************************************)
(* The state of one volume v: its ntfs_volume r, the place l and the       *)
(* result e of the call under way, what is pending (P), the number n of    *)
(* operations, the disk d, the number s of inodes that are still being     *)
(* freed, and the sets M and O of mounted and of read-only mounts.         *)
(***************************************************************************)

\* The life of an ntfs_volume, and of the inodes that outlive an unmount.
Life(v, r, l, s, M) ==
    /\ ~r.live => /\ l = "idle" /\ v \notin M /\ s = 0
                  /\ r.upcase = "none" /\ ~r.comp /\ ~r.mft /\ ~r.root
                  /\ ~r.ro /\ ~r.release /\ ~r.postponed
    /\ r.release \/ r.postponed => l = "idle" /\ v \notin M /\ ~r.root
    /\ r.release => s = 0
    /\ s # 0 => r.postponed \/ l = "u_final"

\* Which system inodes are loaded at each place, and when the volume has the
\* default upcase table.
Loaded(v, r, l, e, M) ==
    /\ r.volni => r.root
    /\ r.root => r.mft
    /\ l \in MountPlaces => v \notin M
    /\ l \in Remounting \cup {"u_sync"} => v \in M
    /\ l \in {"boot", "mft"} => ~r.mft
    /\ l \in Loading \cup {"tables", "count"} => r.mft
    /\ l \in {"mirror", "upcase", "volume"} => r.root
    /\ l \in {"log", "hibernation", "dirty", "empty", "extend", "stamp", "count"}
        => r.volni
    /\ l = "drop" /\ e = "ok" => r.volni
    /\ v \in M /\ l \notin {"u_rest", "u_mft", "u_final"} => r.volni
    /\ l = "u_rest" => ~r.volni
    /\ l \in {"u_mft", "u_final"} => ~r.root
    /\ l \in Early \cup {"root", "mirror", "upcase"} => r.upcase = "none"
    /\ l = "u_start" /\ ~r.mft => r.upcase = "none"

\* What may be pending.
Pending(v, r, l, P, M, O) ==
    /\ r.ro => v \in O /\ P = {}
    /\ l \in Remounting => ~r.ro /\ v \in O
    /\ l = "u_sync" => ~r.ro
    /\ l \in Early \cup {"root", "mirror", "upcase", "volume", "log", "hibernation",
                        "dirty", "r_clear"} => P = {}
    /\ ~r.root => P = {}
    /\ ~r.volni => "flags" \notin P
    /\ v \notin M => P \cap Parts = {}

\* The dirty bit in vol_flags and on the disk, unless a write was lost.
DirtyBit(v, r, l, e, P, d, M) ==
    ~d.lost =>
    /\ ~r.ro /\ l \in {"empty", "extend", "stamp", "count"} => r.dirty
    /\ ~r.ro /\ l = "drop" /\ e = "ok" => r.dirty
    /\ ~r.ro /\ v \in M /\ l \notin {"u_volume", "u_rest", "u_mft", "u_final", "r_flush"}
        => r.dirty
    /\ r.volni /\ ~r.ro /\ "flags" \notin P => d.dirty = r.dirty

\* A volume that needs a check is dirty or will be, and what is not pending
\* is on the disk, unless a write was lost.
Check(r, P, n, d) ==
    ~d.lost =>
    /\ d.needsCheck => IF r.volni /\ ~r.ro THEN r.errors /\ r.dirty ELSE d.dirty
    /\ d.needsCheck \/ \A p \in Parts \ P : d.parts[p] = n

\* A read-write mount of a hibernated volume fails, having changed nothing.
Untouched(v, r, l, e, P, d, M) ==
    d.hib /\ ~r.ro =>
        /\ P = {} /\ v \notin M
        /\ l \notin {"dirty", "empty", "extend", "stamp", "count"}
        /\ l = "drop" => e = "err"
        /\ r.volni /\ r.dirty => r.errors

Good(v, r, l, e, P, n, d, s, M, O) ==
    /\ Life(v, r, l, s, M)
    /\ Loaded(v, r, l, e, M)
    /\ Pending(v, r, l, P, M, O)
    /\ DirtyBit(v, r, l, e, P, d, M)
    /\ FlagsNeedName /\ CrashesOrdered => Check(r, P, n, d)
    /\ FlagsNeedName => Untouched(v, r, l, e, P, d, M)

Local(v) ==
    Good(v, vol[v], pc[v], ret[v], pend[v], op[v], disk[v], strays[v], mounted, rdonly)

IInv == Types /\ \A v \in Volumes : Local(v)

-----------------------------------------------------------------------------
(***************************************************************************)
(* A step of one volume.                                                   *)
(***************************************************************************)

\* The step takes v to the given state and leaves the others alone.
To(v, r, l, e, P, n, d, s, M, O) ==
    /\ vol' = [vol EXCEPT ![v] = r]
    /\ pc' = [pc EXCEPT ![v] = l]
    /\ ret' = [ret EXCEPT ![v] = e]
    /\ pend' = [pend EXCEPT ![v] = P]
    /\ op' = [op EXCEPT ![v] = n]
    /\ disk' = [disk EXCEPT ![v] = d]
    /\ strays' = [strays EXCEPT ![v] = s]
    /\ mounted' = M /\ M \ {v} = mounted \ {v}
    /\ rdonly' = O /\ O \ {v} = rdonly \ {v}
    /\ load' = load

\* The state is of the right kind.
Typed(r, l, e, P, n, d, s) ==
    /\ r \in Vols /\ l \in Places /\ e \in {"ok", "err"} /\ P \in SUBSET Cached
    /\ n \in Nat /\ d \in Contents /\ s \in Nat

\* Writing back what is there changes nothing.
LEMMA Same ==
    ASSUME NEW S, NEW f \in [Volumes -> S], NEW v \in Volumes
    PROVE  f = [f EXCEPT ![v] = f[v]] /\ f[v] \in S
OBVIOUS

\* The same for all that describes a volume.
LEMMA AllSame ==
    ASSUME Types, NEW v \in Volumes
    PROVE  /\ vol = [vol EXCEPT ![v] = vol[v]] /\ pc = [pc EXCEPT ![v] = pc[v]]
           /\ ret = [ret EXCEPT ![v] = ret[v]] /\ pend = [pend EXCEPT ![v] = pend[v]]
           /\ op = [op EXCEPT ![v] = op[v]] /\ disk = [disk EXCEPT ![v] = disk[v]]
           /\ strays = [strays EXCEPT ![v] = strays[v]]
           /\ Typed(vol[v], pc[v], ret[v], pend[v], op[v], disk[v], strays[v])
BY Same, Zenon DEF Types, Typed

\* The others look at their own part of the sets of mounts only.
LEMMA GoodOther ==
    ASSUME NEW u, NEW v, u # v, NEW r, NEW l, NEW e, NEW P, NEW n, NEW d, NEW s,
           NEW M, NEW O, NEW N, NEW Q, M \ {v} = N \ {v}, O \ {v} = Q \ {v},
           Good(u, r, l, e, P, n, d, s, M, O)
    PROVE  Good(u, r, l, e, P, n, d, s, N, Q)
<1>1. (u \in M <=> u \in N) /\ (u \in O <=> u \in Q)
  BY Zenon
<1> QED
  BY <1>1, Zenon DEF Good, Life, Loaded, Pending, DirtyBit, Untouched

\* A step to a good state of v keeps the invariant.
LEMMA StepInv ==
    ASSUME IInv, NEW v \in Volumes,
           NEW r, NEW l, NEW e, NEW P, NEW n, NEW d, NEW s, NEW M, NEW O,
           To(v, r, l, e, P, n, d, s, M, O), Typed(r, l, e, P, n, d, s),
           Good(v, r, l, e, P, n, d, s, M, O)
    PROVE  IInv'
<1>1. Types
  BY Zenon DEF IInv
<1>2. /\ vol'[v] = r /\ pc'[v] = l /\ ret'[v] = e /\ pend'[v] = P
      /\ op'[v] = n /\ disk'[v] = d /\ strays'[v] = s
      /\ mounted' = M /\ rdonly' = O
  BY <1>1, Zenon DEF Types, To
<1>3. Types'
  BY <1>1, Zenon DEF Types, To, Typed
<1>4. Local(v)'
  BY <1>2, Zenon DEF Local
<1>5. ASSUME NEW u \in Volumes, u # v PROVE Local(u)'
  <2>1. /\ vol'[u] = vol[u] /\ pc'[u] = pc[u] /\ ret'[u] = ret[u]
        /\ pend'[u] = pend[u] /\ op'[u] = op[u] /\ disk'[u] = disk[u]
        /\ strays'[u] = strays[u]
    BY <1>1, <1>5, Zenon DEF Types, To
  <2>2. M \ {v} = mounted \ {v} /\ O \ {v} = rdonly \ {v}
    BY Zenon DEF To
  <2>3. Local(u)
    BY <1>5, Zenon DEF IInv
  <2>4. Good(u, vol[u], pc[u], ret[u], pend[u], op[u], disk[u], strays[u], M, O)
    BY <1>5, <2>2, <2>3, GoodOther, Zenon DEF Local
  <2> QED
    BY <1>2, <2>1, <2>4, Zenon DEF Local
<1> QED
  BY <1>3, <1>4, <1>5, Zenon DEF IInv

-----------------------------------------------------------------------------
(***************************************************************************)
(* Changing an ntfs_volume.                                                *)
(***************************************************************************)

\* q is r but for the fields in F.
Keeps(r, q, F) ==
    /\ "live" \in F \/ q.live = r.live
    /\ "ro" \in F \/ q.ro = r.ro
    /\ "errors" \in F \/ q.errors = r.errors
    /\ "dirty" \in F \/ q.dirty = r.dirty
    /\ "comp" \in F \/ q.comp = r.comp
    /\ "upcase" \in F \/ q.upcase = r.upcase
    /\ "mft" \in F \/ q.mft = r.mft
    /\ "root" \in F \/ q.root = r.root
    /\ "volni" \in F \/ q.volni = r.volni
    /\ "postponed" \in F \/ q.postponed = r.postponed
    /\ "release" \in F \/ q.release = r.release

\* $MFT is loaded, or gone.
LEMMA PutMft ==
    ASSUME NEW r \in Vols, NEW b \in BOOLEAN, NEW q,
           q = [r EXCEPT !.mft = b]
    PROVE  q \in Vols /\ Keeps(r, q, {"mft"}) /\ q.mft = b
BY DEF Vols, Keeps

\* The root directory is loaded, or gone.
LEMMA PutRoot ==
    ASSUME NEW r \in Vols, NEW b \in BOOLEAN, NEW q,
           q = [r EXCEPT !.root = b]
    PROVE  q \in Vols /\ Keeps(r, q, {"root"}) /\ q.root = b
BY DEF Vols, Keeps

\* The volume does not use the compression buffer.
LEMMA PutComp ==
    ASSUME NEW r \in Vols, NEW b \in BOOLEAN, NEW q,
           q = [r EXCEPT !.comp = b]
    PROVE  q \in Vols /\ Keeps(r, q, {"comp"}) /\ q.comp = b
BY DEF Vols, Keeps

\* Errors are met.
LEMMA PutErrors ==
    ASSUME NEW r \in Vols, NEW b \in BOOLEAN, NEW q,
           q = [r EXCEPT !.errors = b]
    PROVE  q \in Vols /\ Keeps(r, q, {"errors"}) /\ q.errors = b
BY DEF Vols, Keeps

\* The volume has an upcase table.
LEMMA PutTable ==
    ASSUME NEW r \in Vols, NEW x \in {"default", "own"}, NEW q,
           q = [r EXCEPT !.upcase = x]
    PROVE  q \in Vols /\ Keeps(r, q, {"upcase"}) /\ q.upcase = x
BY DEF Vols, Keeps

\* $Volume is loaded.
LEMMA PutFlags ==
    ASSUME NEW r \in Vols, NEW c \in BOOLEAN, NEW f \in BOOLEAN, NEW q,
           q = [r EXCEPT !.volni = TRUE, !.dirty = c, !.rofl = f]
    PROVE  q \in Vols /\ Keeps(r, q, {"volni", "dirty"}) /\ q.volni /\ q.dirty = c
BY ZenonT(60) DEF Vols, Keeps

\* $Volume is gone.
LEMMA PutVolni ==
    ASSUME NEW r \in Vols, NEW b \in BOOLEAN, NEW q,
           q = [r EXCEPT !.volni = b]
    PROVE  q \in Vols /\ Keeps(r, q, {"volni"}) /\ q.volni = b
BY DEF Vols, Keeps

\* The journal was looked at, or emptied.
LEMMA PutLogEmpty ==
    ASSUME NEW r \in Vols, NEW b \in LogEmpties, NEW q,
           q = [r EXCEPT !.logEmpty = b]
    PROVE  q \in Vols /\ Keeps(r, q, {"logEmpty"})
BY DEF Vols, Keeps

\* The dirty bit changes.
LEMMA PutDirty ==
    ASSUME NEW r \in Vols, NEW b \in BOOLEAN, NEW q,
           q = [r EXCEPT !.dirty = b]
    PROVE  q \in Vols /\ Keeps(r, q, {"dirty"}) /\ q.dirty = b
BY DEF Vols, Keeps

\* The volume becomes read-only.
LEMMA PutReadOnly ==
    ASSUME NEW r \in Vols, NEW b \in BOOLEAN, NEW q,
           q = [r EXCEPT !.ro = b]
    PROVE  q \in Vols /\ Keeps(r, q, {"ro"}) /\ q.ro = b
BY DEF Vols, Keeps

\* The last inode is gone.
LEMMA PutRelease ==
    ASSUME NEW r \in Vols, NEW q,
           q = [r EXCEPT !.postponed = FALSE, !.release = TRUE]
    PROVE  q \in Vols /\ Keeps(r, q, {"postponed", "release"}) /\ q.postponed = FALSE /\ q.release = TRUE
BY Zenon DEF Vols, Keeps

\* The volume is off its mount.
LEMMA PutPostponed ==
    ASSUME NEW r \in Vols, NEW b \in BOOLEAN, NEW c \in BOOLEAN, NEW q,
           q = [r EXCEPT !.mp = FALSE, !.postponed = b, !.release = c]
    PROVE  q \in Vols /\ Keeps(r, q, {"mp", "postponed", "release"}) /\ q.postponed = b /\ q.release = c
BY ZenonT(60) DEF Vols, Keeps

\* A volume that is not allocated, and one that has just been.
LEMMA PutNew ==
    ASSUME NEW b \in BOOLEAN, NEW q,
           q = [NoVol EXCEPT !.live = TRUE, !.mp = TRUE, !.comp = TRUE, !.ro = b]
    PROVE  /\ NoVol \in Vols /\ q \in Vols
           /\ Keeps(NoVol, q, {"live", "comp", "ro"}) /\ q.live /\ q.ro = b
BY Zenon DEF Vols, Keeps, NoVol, LogEmpties

-----------------------------------------------------------------------------
(***************************************************************************)
(* The states a mount goes through.                                        *)
(***************************************************************************)

\* A call that never was under way returns.
LEMMA GoodResult ==
    ASSUME NEW v, NEW r, NEW e, NEW P, NEW n, NEW d, NEW s, NEW M, NEW O,
           NEW x,
           Good(v, r, "idle", e, P, n, d, s, M, O)
    PROVE  Good(v, r, "idle", x, P, n, d, s, M, O)
BY DEF Good, Life, Loaded, Pending, DirtyBit, Check, Untouched, Keeps,
   MountPlaces, Loading, Early, Remounting, Parts

\* ntfs_mount() allocates the volume.
LEMMA GoodStart ==
    ASSUME NEW v, NEW r, NEW e, NEW P, NEW n, NEW d, NEW s, NEW M, NEW O,
           NEW q, NEW N,
           Good(v, r, "idle", e, P, n, d, s, M, O),
           ~r.live,
           Keeps(NoVol, q, {"live", "comp", "ro"}),
           q.live,
           q.ro => v \in N
    PROVE  Good(v, q, "boot", "ok", P, n, d, s, M, N)
BY Zenon DEF Good, Life, Loaded, Pending, DirtyBit, Check, Untouched, Keeps,
   NoVol, MountPlaces, Loading, Early, Remounting, Parts

\* It gives up, and ntfs_unmount() cleans up.
LEMMA GoodGiveUp ==
    ASSUME NEW v, NEW r, NEW l, NEW e, NEW P, NEW n, NEW d, NEW s, NEW M,
           NEW O, NEW q, NEW x,
           Good(v, r, l, e, P, n, d, s, M, O),
           l \in MountPlaces,
           Keeps(r, q, {"comp"})
    PROVE  Good(v, q, "u_start", x, P, n, d, s, M, O)
BY DEF Good, Life, Loaded, Pending, DirtyBit, Check, Untouched, Keeps,
   MountPlaces, Loading, Early, Remounting, Parts

\* ntfs_system_inodes_get() fails.
LEMMA GoodFails ==
    ASSUME NEW v, NEW r, NEW l, NEW e, NEW P, NEW n, NEW d, NEW s, NEW M,
           NEW O, NEW q,
           Good(v, r, l, e, P, n, d, s, M, O),
           l \in Loading,
           Keeps(r, q, {})
    PROVE  Good(v, q, "drop", "err", P, n, d, s, M, O)
BY DEF Good, Life, Loaded, Pending, DirtyBit, Check, Untouched, Keeps,
   MountPlaces, Loading, Early, Remounting, Parts

\* The boot sector is read.
LEMMA GoodBoot ==
    ASSUME NEW v, NEW r, NEW e, NEW P, NEW n, NEW d, NEW s, NEW M, NEW O,
           Good(v, r, "boot", e, P, n, d, s, M, O)
    PROVE  Good(v, r, "mft", e, P, n, d, s, M, O)
BY DEF Good, Life, Loaded, Pending, DirtyBit, Check, Untouched, Keeps,
   MountPlaces, Loading, Early, Remounting, Parts

\* $MFT is loaded.
LEMMA GoodMft ==
    ASSUME NEW v, NEW r, NEW e, NEW P, NEW n, NEW d, NEW s, NEW M, NEW O,
           NEW q,
           Good(v, r, "mft", e, P, n, d, s, M, O),
           q.mft,
           Keeps(r, q, {"mft"})
    PROVE  Good(v, q, "tables", e, P, n, d, s, M, O)
BY DEF Good, Life, Loaded, Pending, DirtyBit, Check, Untouched, Keeps,
   MountPlaces, Loading, Early, Remounting, Parts

\* It is not, or not to the end.
LEMMA GoodMftFails ==
    ASSUME NEW v, NEW r, NEW e, NEW P, NEW n, NEW d, NEW s, NEW M, NEW O,
           NEW q, NEW x,
           Good(v, r, "mft", e, P, n, d, s, M, O),
           Keeps(r, q, {"mft"})
    PROVE  Good(v, q, "u_start", x, P, n, d, s, M, O)
BY DEF Good, Life, Loaded, Pending, DirtyBit, Check, Untouched, Keeps,
   MountPlaces, Loading, Early, Remounting, Parts

\* The shared tables are there.
LEMMA GoodTables ==
    ASSUME NEW v, NEW r, NEW e, NEW P, NEW n, NEW d, NEW s, NEW M, NEW O,
           NEW q,
           Good(v, r, "tables", e, P, n, d, s, M, O),
           Keeps(r, q, {"comp"})
    PROVE  Good(v, q, "root", e, P, n, d, s, M, O)
BY DEF Good, Life, Loaded, Pending, DirtyBit, Check, Untouched, Keeps,
   MountPlaces, Loading, Early, Remounting, Parts

\* The root directory is loaded.
LEMMA GoodRoot ==
    ASSUME NEW v, NEW r, NEW e, NEW P, NEW n, NEW d, NEW s, NEW M, NEW O,
           NEW q,
           Good(v, r, "root", e, P, n, d, s, M, O),
           q.root,
           Keeps(r, q, {"root"})
    PROVE  Good(v, q, "mirror", e, P, n, d, s, M, O)
BY DEF Good, Life, Loaded, Pending, DirtyBit, Check, Untouched, Keeps,
   MountPlaces, Loading, Early, Remounting, Parts

\* $MFTMirr is looked at.
LEMMA GoodMirror ==
    ASSUME NEW v, NEW r, NEW e, NEW P, NEW n, NEW d, NEW s, NEW M, NEW O,
           NEW q,
           Good(v, r, "mirror", e, P, n, d, s, M, O),
           r.errors => q.errors,
           Keeps(r, q, {"errors"})
    PROVE  Good(v, q, "upcase", e, P, n, d, s, M, O)
BY DEF Good, Life, Loaded, Pending, DirtyBit, Check, Untouched, Keeps,
   MountPlaces, Loading, Early, Remounting, Parts

\* The volume has an upcase table.
LEMMA GoodUpcase ==
    ASSUME NEW v, NEW r, NEW e, NEW P, NEW n, NEW d, NEW s, NEW M, NEW O,
           NEW q,
           Good(v, r, "upcase", e, P, n, d, s, M, O),
           Keeps(r, q, {"upcase"})
    PROVE  Good(v, q, "volume", e, P, n, d, s, M, O)
BY DEF Good, Life, Loaded, Pending, DirtyBit, Check, Untouched, Keeps,
   MountPlaces, Loading, Early, Remounting, Parts

\* The volume flags are cached, and a dirty volume has errors.
LEMMA GoodVolume ==
    ASSUME NEW v, NEW r, NEW e, NEW P, NEW n, NEW d, NEW s, NEW M, NEW O,
           NEW q, NEW m, NEW x,
           Good(v, r, "volume", e, P, n, d, s, M, O),
           m = "log" \/ (m = "drop" /\ x = "err"),
           q.volni,
           q.dirty = d.dirty,
           r.errors \/ d.dirty => q.errors,
           Keeps(r, q, {"volni", "dirty", "errors"})
    PROVE  Good(v, q, m, x, P, n, d, s, M, O)
BY DEF Good, Life, Loaded, Pending, DirtyBit, Check, Untouched, Keeps,
   MountPlaces, Loading, Early, Remounting, Parts

\* They are cached, and then loading $Volume fails.
LEMMA GoodVolumeFails ==
    ASSUME NEW v, NEW r, NEW e, NEW P, NEW n, NEW d, NEW s, NEW M, NEW O,
           NEW q,
           Good(v, r, "volume", e, P, n, d, s, M, O),
           ~FlagsNeedName,
           q.volni,
           q.dirty = d.dirty,
           Keeps(r, q, {"volni", "dirty"})
    PROVE  Good(v, q, "drop", "err", P, n, d, s, M, O)
BY DEF Good, Life, Loaded, Pending, DirtyBit, Check, Untouched, Keeps,
   MountPlaces, Loading, Early, Remounting, Parts

\* The journal is looked at.
LEMMA GoodLog ==
    ASSUME NEW v, NEW r, NEW e, NEW P, NEW n, NEW d, NEW s, NEW M, NEW O,
           NEW q,
           Good(v, r, "log", e, P, n, d, s, M, O),
           r.errors => q.errors,
           Keeps(r, q, {"errors"})
    PROVE  Good(v, q, "hibernation", e, P, n, d, s, M, O)
BY DEF Good, Life, Loaded, Pending, DirtyBit, Check, Untouched, Keeps,
   MountPlaces, Loading, Early, Remounting, Parts

\* Only a read-only mount goes on if Windows is hibernated.
LEMMA GoodHibernation ==
    ASSUME NEW v, NEW r, NEW e, NEW P, NEW n, NEW d, NEW s, NEW M, NEW O,
           NEW q,
           Good(v, r, "hibernation", e, P, n, d, s, M, O),
           r.ro \/ ~d.hib,
           r.errors => q.errors,
           Keeps(r, q, {"errors"})
    PROVE  Good(v, q, "dirty", e, P, n, d, s, M, O)
BY DEF Good, Life, Loaded, Pending, DirtyBit, Check, Untouched, Keeps,
   MountPlaces, Loading, Early, Remounting, Parts

\* A read-write mount marks the volume dirty.
LEMMA GoodMark ==
    ASSUME NEW v, NEW r, NEW e, NEW P, NEW n, NEW d, NEW s, NEW M, NEW O,
           NEW q, NEW Q,
           Good(v, r, "dirty", e, P, n, d, s, M, O),
           ~r.ro => q.dirty,
           r.dirty => Q = P,
           ~r.dirty /\ ~r.ro => Q = P \cup {"flags"},
           r.ro => Q = P /\ q.dirty = r.dirty,
           Keeps(r, q, {"dirty"})
    PROVE  Good(v, q, "empty", e, Q, n, d, s, M, O)
BY Zenon DEF Good, Life, Loaded, Pending, DirtyBit, Check, Untouched, Keeps,
   MountPlaces, Loading, Early, Remounting, Parts

\* The journal is emptied.
LEMMA GoodEmpty ==
    ASSUME NEW v, NEW r, NEW e, NEW P, NEW n, NEW d, NEW s, NEW M, NEW O,
           NEW q, NEW Q,
           Good(v, r, "empty", e, P, n, d, s, M, O),
           Q = P \/ (~r.ro /\ Q = P \cup {"log"}),
           Keeps(r, q, {})
    PROVE  Good(v, q, "extend", e, Q, n, d, s, M, O)
BY DEF Good, Life, Loaded, Pending, DirtyBit, Check, Untouched, Keeps,
   MountPlaces, Loading, Early, Remounting, Parts

\* The other system files are loaded.
LEMMA GoodExtend ==
    ASSUME NEW v, NEW r, NEW e, NEW P, NEW n, NEW d, NEW s, NEW M, NEW O,
           NEW q, NEW m,
           Good(v, r, "extend", e, P, n, d, s, M, O),
           m \in {"stamp", "drop"},
           r.errors => q.errors,
           Keeps(r, q, {"errors"})
    PROVE  Good(v, q, m, e, P, n, d, s, M, O)
BY DEF Good, Life, Loaded, Pending, DirtyBit, Check, Untouched, Keeps,
   MountPlaces, Loading, Early, Remounting, Parts

\* $UsnJrnl is stamped.
LEMMA GoodStamp ==
    ASSUME NEW v, NEW r, NEW e, NEW P, NEW n, NEW d, NEW s, NEW M, NEW O,
           NEW x, NEW Q,
           Good(v, r, "stamp", e, P, n, d, s, M, O),
           Q = P \/ (~r.ro /\ Q = P \cup {"stamp"}),
           x \in {e, "err"}
    PROVE  Good(v, r, "drop", x, Q, n, d, s, M, O)
BY DEF Good, Life, Loaded, Pending, DirtyBit, Check, Untouched, Keeps,
   MountPlaces, Loading, Early, Remounting, Parts

\* The temporary reference on the upcase table is dropped.
LEMMA GoodDrop ==
    ASSUME NEW v, NEW r, NEW P, NEW n, NEW d, NEW s, NEW M, NEW O,
           Good(v, r, "drop", "ok", P, n, d, s, M, O)
    PROVE  Good(v, r, "count", "ok", P, n, d, s, M, O)
BY DEF Good, Life, Loaded, Pending, DirtyBit, Check, Untouched, Keeps,
   MountPlaces, Loading, Early, Remounting, Parts

\* The volume is mounted.
LEMMA GoodMounted ==
    ASSUME NEW v, NEW r, NEW e, NEW P, NEW n, NEW d, NEW s, NEW M, NEW O,
           Good(v, r, "count", e, P, n, d, s, M, O)
    PROVE  Good(v, r, "idle", "ok", P, n, d, s, M \cup {v}, O)
BY DEF Good, Life, Loaded, Pending, DirtyBit, Check, Untouched, Keeps,
   MountPlaces, Loading, Early, Remounting, Parts

-----------------------------------------------------------------------------
(***************************************************************************)
(* Changing what is on a disk.                                             *)
(***************************************************************************)

\* c is d but for the fields in F.
DiskKeeps(d, c, F) ==
    /\ "dirty" \in F \/ c.dirty = d.dirty
    /\ "parts" \in F \/ c.parts = d.parts
    /\ "needsCheck" \in F \/ c.needsCheck = d.needsCheck
    /\ "lost" \in F \/ c.lost = d.lost
    /\ c.hib = d.hib

-----------------------------------------------------------------------------
(***************************************************************************)
(* The steps of a mount.                                                   *)
(***************************************************************************)

\* A step that changes the ntfs_volume and moves the call.
Moves(v, r, l, e) ==
    To(v, r, l, e, pend[v], op[v], disk[v], strays[v], mounted, rdonly)

\* Where v is.
Is(v, l) ==
    Good(v, vol[v], l, ret[v], pend[v], op[v], disk[v], strays[v], mounted, rdonly)

\* What the invariant says of one volume.
LEMMA Here ==
    ASSUME IInv, NEW v \in Volumes
    PROVE  /\ Types /\ Is(v, pc[v])
           /\ Typed(vol[v], pc[v], ret[v], pend[v], op[v], disk[v], strays[v])
BY AllSame, Zenon DEF IInv, Local, Is

\* Every place has a name.
LEMMA PlaceNames ==
    /\ {"idle", "boot", "mft", "tables", "count", "r_sync", "r_clear", "r_flush",
        "u_sync", "u_start", "u_clear", "u_volume", "u_rest", "u_mft", "u_final"}
            \subseteq Places
    /\ Loading \subseteq MountPlaces /\ MountPlaces \subseteq Places
    /\ {"root", "mirror", "upcase", "volume", "log", "hibernation", "dirty",
        "empty", "extend", "stamp", "drop"} = Loading
    /\ {"boot", "mft", "tables", "count"} \subseteq MountPlaces
BY DEF Places, MountPlaces, Early, Remounting, Unmounting, Loading

\* A step that changes the ntfs_volume and the place only.
LEMMA MovesTo ==
    ASSUME Types, NEW v \in Volumes, NEW r, NEW l, NEW e,
           Set(v, r) \/ (UNCHANGED vol /\ r = vol[v]),
           pc' = [pc EXCEPT ![v] = l], ret' = [ret EXCEPT ![v] = e],
           UNCHANGED <<disk, cached, vfs>>
    PROVE  Moves(v, r, l, e)
<1>1. vol' = [vol EXCEPT ![v] = r]
  BY AllSame, Zenon DEF Set
<1>2. /\ disk' = disk /\ pend' = pend /\ op' = op /\ strays' = strays
      /\ mounted' = mounted /\ rdonly' = rdonly /\ load' = load
  BY Zenon DEF cached, vfs
<1> QED
  BY <1>1, <1>2, AllSame, Zenon DEF Moves, To

\* Such a step keeps the invariant if it leads to a good state.
LEMMA MovesInv ==
    ASSUME IInv, NEW v \in Volumes, NEW r \in Vols, NEW l \in Places,
           NEW e \in {"ok", "err"},
           Set(v, r) \/ (UNCHANGED vol /\ r = vol[v]),
           pc' = [pc EXCEPT ![v] = l], ret' = [ret EXCEPT ![v] = e],
           UNCHANGED <<disk, cached, vfs>>,
           Good(v, r, l, e, pend[v], op[v], disk[v], strays[v], mounted, rdonly)
    PROVE  IInv'
<1>1. To(v, r, l, e, pend[v], op[v], disk[v], strays[v], mounted, rdonly)
  BY Here, MovesTo, Zenon DEF Moves
<1>2. Typed(r, l, e, pend[v], op[v], disk[v], strays[v])
  BY Here, Zenon DEF Typed
<1> QED
  BY <1>1, <1>2, StepInv, Zenon

\* The same for a call that goes on.
LEMMA GotoInv ==
    ASSUME IInv, NEW v \in Volumes, NEW r \in Vols, NEW l \in Places,
           Set(v, r) \/ (UNCHANGED vol /\ r = vol[v]), Goto(v, l),
           UNCHANGED <<disk, cached, vfs>>,
           Good(v, r, l, ret[v], pend[v], op[v], disk[v], strays[v], mounted, rdonly)
    PROVE  IInv'
<1>1. /\ pc' = [pc EXCEPT ![v] = l] /\ ret' = [ret EXCEPT ![v] = ret[v]]
      /\ ret[v] \in {"ok", "err"}
  BY Here, AllSame, Zenon DEF Goto, Typed
<1> QED
  BY <1>1, MovesInv, Zenon

\* ntfs_system_inodes_get() fails.
LEMMA FailsInv ==
    ASSUME IInv, NEW v \in Volumes, NEW r \in Vols, pc[v] \in Loading,
           Keeps(vol[v], r, {}), SystemFails(v),
           Set(v, r) \/ (UNCHANGED vol /\ r = vol[v]),
           UNCHANGED <<disk, cached, vfs>>
    PROVE  IInv'
<1>1. Good(v, r, "drop", "err", pend[v], op[v], disk[v], strays[v], mounted, rdonly)
  BY Here, GoodFails, Zenon DEF Is
<1>2. "drop" \in Places
  BY PlaceNames, Zenon
<1>3. pc' = [pc EXCEPT ![v] = "drop"] /\ ret' = [ret EXCEPT ![v] = "err"]
  BY Zenon DEF SystemFails
<1> QED
  BY <1>1, <1>2, <1>3, MovesInv, Zenon

\* ntfs_mount() gives up.
LEMMA GiveUpInv ==
    ASSUME IInv, NEW v \in Volumes, NEW r \in Vols, NEW e \in {"ok", "err"},
           pc[v] \in MountPlaces, Keeps(vol[v], r, {"comp"}), FailMount(v, e),
           Set(v, r) \/ (UNCHANGED vol /\ r = vol[v]),
           UNCHANGED <<disk, cached, vfs>>
    PROVE  IInv'
<1>1. Good(v, r, "u_start", e, pend[v], op[v], disk[v], strays[v], mounted, rdonly)
  BY Here, GoodGiveUp, Zenon DEF Is
<1>2. "u_start" \in Places
  BY PlaceNames, Zenon
<1>3. pc' = [pc EXCEPT ![v] = "u_start"] /\ ret' = [ret EXCEPT ![v] = e]
  BY Zenon DEF FailMount
<1> QED
  BY <1>1, <1>2, <1>3, MovesInv, Zenon

\* A volume keeps its own fields.
LEMMA KeepsSelf == \A r, F : Keeps(r, r, F)
BY Zenon DEF Keeps

\* What a problem leads to.
LEMMA ProblemCases ==
    ASSUME IInv, NEW v \in Volumes, NEW r \in Vols, NEW l, pc[v] \in Loading,
           Keeps(vol[v], r, {}), Problem(v, r, l), UNCHANGED <<disk, cached, vfs>>
    PROVE  \/ IInv'
           \/ \E q \in Vols : /\ Set(v, q) /\ Goto(v, l) /\ vol[v].ro /\ q.errors
                              /\ Keeps(vol[v], q, {"errors"})
<1>1. r.ro <=> vol[v].ro
  BY Zenon DEF Keeps
<1>2. CASE Set(v, r) /\ SystemFails(v)
  BY <1>2, FailsInv, Zenon
<1>3. CASE r.ro /\ Set(v, [r EXCEPT !.errors = TRUE]) /\ Goto(v, l)
  <2>1. PICK q : q = [r EXCEPT !.errors = TRUE]
    BY Zenon
  <2>2. q \in Vols /\ Keeps(r, q, {"errors"}) /\ q.errors
    BY <2>1, PutErrors, Zenon
  <2>3. Keeps(vol[v], q, {"errors"})
    BY <2>2, Zenon DEF Keeps
  <2> QED
    BY <1>1, <1>3, <2>1, <2>2, <2>3, Zenon
<1> QED
  BY <1>2, <1>3, Zenon DEF Problem

\* ntfs_mft_inode_get().
LEMMA MftInv ==
    ASSUME IInv, NEW v \in Volumes, ntfs_mft_inode_get(v) PROVE IInv'
<1>1. /\ pc[v] = "mft" /\ Is(v, "mft") /\ vol[v] \in Vols
      /\ UNCHANGED <<disk, cached, vfs>>
  BY Here, Zenon DEF ntfs_mft_inode_get, At, Typed
<1>2. CASE Set(v, [vol[v] EXCEPT !.mft = TRUE]) /\ Goto(v, "tables")
  <2>1. PICK q : q = [vol[v] EXCEPT !.mft = TRUE]
    BY Zenon
  <2>2. q \in Vols /\ Keeps(vol[v], q, {"mft"}) /\ q.mft
    BY <1>1, <2>1, PutMft, Zenon
  <2>3. Good(v, q, "tables", ret[v], pend[v], op[v], disk[v], strays[v], mounted, rdonly)
    BY <1>1, <1>2, <2>2, GoodMft, Zenon DEF Is
  <2> QED
    BY <1>1, <1>2, <2>1, <2>2, <2>3, PlaceNames, GotoInv, Zenon
<1>3. ASSUME NEW late \in load.mftFails, Set(v, [vol[v] EXCEPT !.mft = late]),
             FailMount(v, "err")
      PROVE  IInv'
  <2>1. PICK q : q = [vol[v] EXCEPT !.mft = late]
    BY Zenon
  <2>2. late \in BOOLEAN
    BY Here, WorkloadAssumption, Zenon DEF Types
  <2>3. q \in Vols /\ Keeps(vol[v], q, {"mft"})
    BY <1>1, <2>1, <2>2, PutMft, Zenon
  <2>4. Good(v, q, "u_start", "err", pend[v], op[v], disk[v], strays[v], mounted, rdonly)
    BY <1>1, <2>3, GoodMftFails, Zenon DEF Is
  <2>5. pc' = [pc EXCEPT ![v] = "u_start"] /\ ret' = [ret EXCEPT ![v] = "err"]
    BY <1>3, Zenon DEF FailMount
  <2>6. "u_start" \in Places /\ "err" \in {"ok", "err"}
    BY PlaceNames, Zenon
  <2> QED
    BY <1>1, <1>3, <2>1, <2>3, <2>4, <2>5, <2>6, MovesInv, Zenon
<1> QED
  BY <1>2, <1>3, Zenon DEF ntfs_mft_inode_get

\* Under ntfs_lock, ntfs_mount() takes the shared tables.
LEMMA TablesInv ==
    ASSUME IInv, NEW v \in Volumes, TakeTables(v) PROVE IInv'
<1>1. /\ pc[v] = "tables" /\ Is(v, "tables") /\ vol[v] \in Vols
      /\ UNCHANGED <<disk, cached, vfs>>
  BY Here, Zenon DEF TakeTables, At, Typed
<1>2. PICK q : q = [vol[v] EXCEPT !.comp = FALSE]
  BY Zenon
<1>3. q \in Vols /\ Keeps(vol[v], q, {"comp"}) /\ Keeps(vol[v], vol[v], {"comp"})
  BY <1>1, <1>2, PutComp, KeepsSelf, Zenon
<1>4. \E r \in Vols : /\ Set(v, r) \/ (UNCHANGED vol /\ r = vol[v])
                      /\ Keeps(vol[v], r, {"comp"})
                      /\ FailMount(v, "ok") \/ FailMount(v, "err") \/ Goto(v, "root")
  BY <1>1, <1>2, <1>3, Zenon DEF TakeTables
<1>5. PICK r \in Vols :
        /\ Set(v, r) \/ (UNCHANGED vol /\ r = vol[v])
        /\ Keeps(vol[v], r, {"comp"})
        /\ FailMount(v, "ok") \/ FailMount(v, "err") \/ Goto(v, "root")
  BY <1>4, Zenon
<1>6. CASE FailMount(v, "ok") \/ FailMount(v, "err")
  BY <1>1, <1>5, <1>6, PlaceNames, GiveUpInv, Zenon
<1>7. CASE Goto(v, "root")
  <2>1. Good(v, r, "root", ret[v], pend[v], op[v], disk[v], strays[v], mounted, rdonly)
    BY <1>1, <1>5, GoodTables, Zenon DEF Is
  <2> QED
    BY <1>1, <1>5, <1>7, <2>1, PlaceNames, GotoInv, Zenon
<1> QED
  BY <1>5, <1>6, <1>7, Zenon

\* The root directory is loaded.
LEMMA RootInv ==
    ASSUME IInv, NEW v \in Volumes, LoadRoot(v) PROVE IInv'
<1>1. /\ pc[v] = "root" /\ Is(v, "root") /\ vol[v] \in Vols
      /\ UNCHANGED <<disk, cached, vfs>>
  BY Here, Zenon DEF LoadRoot, At, Typed
<1>2. CASE Set(v, [vol[v] EXCEPT !.root = TRUE]) /\ Goto(v, "mirror")
  <2>1. PICK q : q = [vol[v] EXCEPT !.root = TRUE]
    BY Zenon
  <2>2. q \in Vols /\ Keeps(vol[v], q, {"root"}) /\ q.root
    BY <1>1, <2>1, PutRoot, Zenon
  <2>3. Good(v, q, "mirror", ret[v], pend[v], op[v], disk[v], strays[v], mounted, rdonly)
    BY <1>1, <1>2, <2>2, GoodRoot, Zenon DEF Is
  <2> QED
    BY <1>1, <1>2, <2>1, <2>2, <2>3, PlaceNames, GotoInv, Zenon
<1>3. CASE SystemFails(v) /\ UNCHANGED vol
  BY <1>1, <1>3, PlaceNames, KeepsSelf, FailsInv, Zenon
<1> QED
  BY <1>2, <1>3, Zenon DEF LoadRoot

\* $MFTMirr is loaded and compared.
LEMMA MirrorInv ==
    ASSUME IInv, NEW v \in Volumes, LoadMirror(v) PROVE IInv'
<1>1. /\ pc[v] = "mirror" /\ Is(v, "mirror") /\ vol[v] \in Vols
      /\ UNCHANGED <<disk, cached, vfs>>
  BY Here, Zenon DEF LoadMirror, At, Typed
<1>2. CASE Goto(v, "upcase") /\ UNCHANGED vol
  <2>1. Good(v, vol[v], "upcase", ret[v], pend[v], op[v], disk[v], strays[v], mounted, rdonly)
    BY <1>1, <1>2, KeepsSelf, GoodMirror, Zenon DEF Is
  <2> QED
    BY <1>1, <1>2, <2>1, PlaceNames, GotoInv, Zenon
<1>3. CASE Problem(v, vol[v], "upcase")
  <2>1. \/ IInv'
        \/ \E q \in Vols : /\ Set(v, q) /\ Goto(v, "upcase") /\ vol[v].ro /\ q.errors
                           /\ Keeps(vol[v], q, {"errors"})
    BY <1>1, <1>3, PlaceNames, KeepsSelf, ProblemCases, Zenon
  <2>2. ASSUME NEW q \in Vols, Set(v, q), Goto(v, "upcase"), vol[v].ro, q.errors,
               Keeps(vol[v], q, {"errors"})
        PROVE  IInv'
    <3>1. Good(v, q, "upcase", ret[v], pend[v], op[v], disk[v], strays[v], mounted, rdonly)
      BY <1>1, <2>2, GoodMirror, Zenon DEF Is
    <3> QED
      BY <1>1, <2>2, <3>1, PlaceNames, GotoInv, Zenon
  <2> QED
    BY <2>1, <2>2, Zenon
<1>4. CASE SystemFails(v) /\ UNCHANGED vol
  BY <1>1, <1>4, PlaceNames, KeepsSelf, FailsInv, Zenon
<1> QED
  BY <1>2, <1>3, <1>4, Zenon DEF LoadMirror

\* $UpCase is loaded.
LEMMA UpcaseInv ==
    ASSUME IInv, NEW v \in Volumes, ntfs_upcase_load(v) PROVE IInv'
<1>1. /\ pc[v] = "upcase" /\ Is(v, "upcase") /\ vol[v] \in Vols
      /\ UNCHANGED <<disk, cached, vfs>>
  BY Here, Zenon DEF ntfs_upcase_load, At, Typed
<1>2. ASSUME NEW x \in {"default", "own"}, Set(v, [vol[v] EXCEPT !.upcase = x]),
             Goto(v, "volume")
      PROVE  IInv'
  <2>1. PICK q : q = [vol[v] EXCEPT !.upcase = x]
    BY Zenon
  <2>2. q \in Vols /\ Keeps(vol[v], q, {"upcase"})
    BY <1>1, <2>1, PutTable, Zenon
  <2>3. Good(v, q, "volume", ret[v], pend[v], op[v], disk[v], strays[v], mounted, rdonly)
    BY <1>1, <2>2, GoodUpcase, Zenon DEF Is
  <2> QED
    BY <1>1, <1>2, <2>1, <2>2, <2>3, PlaceNames, GotoInv, Zenon
<1>3. CASE SystemFails(v) /\ UNCHANGED vol
  BY <1>1, <1>3, PlaceNames, KeepsSelf, FailsInv, Zenon
<1> QED
  BY <1>2, <1>3, Zenon DEF ntfs_upcase_load

\* $Volume is loaded and its flags are cached.
LEMMA VolumeInv ==
    ASSUME IInv, NEW v \in Volumes, LoadVolume(v) PROVE IInv'
<1>1. /\ pc[v] = "volume" /\ Is(v, "volume") /\ vol[v] \in Vols
      /\ UNCHANGED <<disk, cached, vfs>>
  BY Here, Zenon DEF LoadVolume, At, Typed
<1> DEFINE x == [vol[v] EXCEPT !.volni = TRUE, !.dirty = disk[v].dirty,
                               !.rofl = disk[v].rofl]
<1>a. \/ /\ Set(v, [x EXCEPT !.errors = @ \/ x.dirty])
         /\ SystemFails(v) \/ Goto(v, "log")
      \/ \E flags \in load.volumeFails :
            Set(v, IF flags THEN x ELSE vol[v]) /\ SystemFails(v)
  BY Zenon DEF LoadVolume
<1>2. PICK r : r = x
  BY Zenon
<1>0. PICK q : q = [r EXCEPT !.errors = r.errors \/ r.dirty]
  BY Zenon
<1>b. \/ /\ Set(v, q)
         /\ SystemFails(v) \/ Goto(v, "log")
      \/ \E flags \in load.volumeFails :
            Set(v, IF flags THEN r ELSE vol[v]) /\ SystemFails(v)
  <2> HIDE DEF x
  <2> QED
    BY <1>a, <1>0, <1>2, Zenon
<1>3. disk[v].dirty \in BOOLEAN /\ disk[v].rofl \in BOOLEAN /\ vol[v].errors \in BOOLEAN
  <2>1. disk[v] \in Contents
    BY Here, Zenon DEF Typed
  <2> QED
    BY <1>1, <2>1, Zenon DEF Contents, Vols
<1>4. /\ r \in Vols /\ Keeps(vol[v], r, {"volni", "dirty"})
      /\ r.volni /\ r.dirty = disk[v].dirty
  <2>1. PICK c \in BOOLEAN, f \in BOOLEAN : c = disk[v].dirty /\ f = disk[v].rofl
    BY <1>3, Zenon
  <2>2. PICK y \in Vols : y = vol[v]
    BY <1>1, Zenon
  <2>3. r = [y EXCEPT !.volni = TRUE, !.dirty = c, !.rofl = f]
    BY <1>2, <2>1, <2>2, Zenon
  <2>4. r \in Vols /\ Keeps(y, r, {"volni", "dirty"}) /\ r.volni /\ r.dirty = c
    BY <2>3, PutFlags, Zenon
  <2> QED
    BY <2>1, <2>2, <2>4, Zenon
<1>5. CASE Set(v, q) /\ (SystemFails(v) \/ Goto(v, "log"))
  <2>2. (r.errors \/ r.dirty) \in BOOLEAN
    BY Zenon
  <2>3. q \in Vols /\ Keeps(r, q, {"errors"}) /\ q.errors = (r.errors \/ r.dirty)
    BY <1>0, <1>4, <2>2, PutErrors, Zenon
  <2>4. /\ Keeps(vol[v], q, {"volni", "dirty", "errors"})
        /\ q.volni /\ q.dirty = disk[v].dirty
        /\ vol[v].errors \/ disk[v].dirty => q.errors
    BY <1>3, <1>4, <2>3, ZenonT(60) DEF Keeps
  <2>5. /\ Good(v, q, "log", ret[v], pend[v], op[v], disk[v], strays[v], mounted, rdonly)
        /\ Good(v, q, "drop", "err", pend[v], op[v], disk[v], strays[v], mounted, rdonly)
    BY <1>1, <2>4, GoodVolume, Zenon DEF Is
  <2>7. CASE SystemFails(v)
    <3>1. pc' = [pc EXCEPT ![v] = "drop"] /\ ret' = [ret EXCEPT ![v] = "err"]
      BY <2>7, Zenon DEF SystemFails
    <3> QED
      BY <1>1, <2>3, <1>5, <2>5, <3>1, PlaceNames, MovesInv, Zenon
  <2>8. CASE Goto(v, "log")
    BY <1>1, <2>3, <1>5, <2>5, <2>8, PlaceNames, GotoInv, Zenon
  <2> QED
    BY <1>5, <2>7, <2>8, Zenon
<1>6. CASE Set(v, vol[v]) /\ SystemFails(v)
  BY <1>1, <1>6, PlaceNames, KeepsSelf, FailsInv, Zenon
<1>7. CASE TRUE \in load.volumeFails /\ Set(v, r) /\ SystemFails(v)
  <2>1. ~FlagsNeedName
    BY <1>7, Here, Zenon DEF Types, FlagsNeedName
  <2>3. Good(v, r, "drop", "err", pend[v], op[v], disk[v], strays[v], mounted, rdonly)
    BY <1>1, <1>4, <2>1, GoodVolumeFails, Zenon DEF Is
  <2>4. pc' = [pc EXCEPT ![v] = "drop"] /\ ret' = [ret EXCEPT ![v] = "err"]
    BY <1>7, Zenon DEF SystemFails
  <2> QED
    BY <1>1, <1>4, <1>7, <2>3, <2>4, PlaceNames, MovesInv, Zenon
<1>8. ASSUME NEW flags \in load.volumeFails, Set(v, IF flags THEN r ELSE vol[v]),
             SystemFails(v)
      PROVE  IInv'
  <2>1. flags \in BOOLEAN
    BY Here, WorkloadAssumption, Zenon DEF Types
  <2>2. CASE flags = TRUE
    BY <1>7, <1>8, <2>2, Zenon
  <2>3. CASE flags = FALSE
    BY <1>6, <1>8, <2>3, Zenon
  <2> QED
    BY <2>1, <2>2, <2>3, Zenon
<1> QED
  BY <1>b, <1>5, <1>8, Zenon

\* The journal is looked at.
LEMMA LogInv ==
    ASSUME IInv, NEW v \in Volumes, CheckLog(v) PROVE IInv'
<1>1. /\ pc[v] = "log" /\ Is(v, "log") /\ vol[v] \in Vols
      /\ UNCHANGED <<disk, cached, vfs>>
  BY Here, Zenon DEF CheckLog, At, Typed
<1>2. PICK r : r = [vol[v] EXCEPT !.logEmpty = LogScan(disk[v].log).empty]
  BY Zenon
<1>3. r \in Vols /\ Keeps(vol[v], r, {})
  <2>1. disk[v].log \in Seq(Blocks)
    BY Here, Zenon DEF Typed, Contents
  <2>2. LogScan(disk[v].log).empty \in LogEmpties
    BY <2>1, Zenon DEF LogEmpties
  <2>3. r \in Vols /\ Keeps(vol[v], r, {"logEmpty"})
    BY <1>1, <1>2, <2>2, PutLogEmpty, Zenon
  <2> QED
    BY <2>3, Zenon DEF Keeps
<1>4. CASE Set(v, r) /\ Goto(v, "hibernation")
  <2>1. Keeps(vol[v], r, {"errors"}) /\ r.errors = vol[v].errors
    BY <1>3, Zenon DEF Keeps
  <2>2. Good(v, r, "hibernation", ret[v], pend[v], op[v], disk[v], strays[v], mounted, rdonly)
    BY <1>1, <2>1, GoodLog, Zenon DEF Is
  <2> QED
    BY <1>1, <1>3, <1>4, <2>2, PlaceNames, GotoInv, Zenon
<1>5. CASE \E x \in {r, vol[v]} : Problem(v, x, "hibernation")
  <2>1. \/ IInv'
        \/ \E q \in Vols : /\ Set(v, q) /\ Goto(v, "hibernation") /\ vol[v].ro /\ q.errors
                           /\ Keeps(vol[v], q, {"errors"})
    BY <1>1, <1>5, <1>3, PlaceNames, KeepsSelf, ProblemCases, Zenon
  <2>2. ASSUME NEW q \in Vols, Set(v, q), Goto(v, "hibernation"), vol[v].ro, q.errors,
               Keeps(vol[v], q, {"errors"})
        PROVE  IInv'
    <3>1. Good(v, q, "hibernation", ret[v], pend[v], op[v], disk[v], strays[v], mounted, rdonly)
      BY <1>1, <2>2, GoodLog, Zenon DEF Is
    <3> QED
      BY <1>1, <2>2, <3>1, PlaceNames, GotoInv, Zenon
  <2> QED
    BY <2>1, <2>2, Zenon
<1> QED
  BY <1>2, <1>4, <1>5, Zenon DEF CheckLog

\* hiberfil.sys is looked for.
LEMMA HibernationInv ==
    ASSUME IInv, NEW v \in Volumes, CheckHibernation(v) PROVE IInv'
<1>1. /\ pc[v] = "hibernation" /\ Is(v, "hibernation") /\ vol[v] \in Vols
      /\ UNCHANGED <<disk, cached, vfs>>
  BY Here, Zenon DEF CheckHibernation, At, Typed
<1>2. CASE ~Hibernated(v) /\ Goto(v, "dirty") /\ UNCHANGED vol
  <2>1. Good(v, vol[v], "dirty", ret[v], pend[v], op[v], disk[v], strays[v], mounted, rdonly)
    BY <1>1, <1>2, KeepsSelf, GoodHibernation, Zenon DEF Is, Hibernated
  <2> QED
    BY <1>1, <1>2, <2>1, PlaceNames, GotoInv, Zenon
<1>3. CASE Problem(v, vol[v], "dirty")
  <2>1. \/ IInv'
        \/ \E q \in Vols : /\ Set(v, q) /\ Goto(v, "dirty") /\ vol[v].ro /\ q.errors
                           /\ Keeps(vol[v], q, {"errors"})
    BY <1>1, <1>3, PlaceNames, KeepsSelf, ProblemCases, Zenon
  <2>2. ASSUME NEW q \in Vols, Set(v, q), Goto(v, "dirty"), vol[v].ro, q.errors,
               Keeps(vol[v], q, {"errors"})
        PROVE  IInv'
    <3>1. Good(v, q, "dirty", ret[v], pend[v], op[v], disk[v], strays[v], mounted, rdonly)
      BY <1>1, <2>2, GoodHibernation, Zenon DEF Is
    <3> QED
      BY <1>1, <2>2, <3>1, PlaceNames, GotoInv, Zenon
  <2> QED
    BY <2>1, <2>2, Zenon
<1> QED
  BY <1>2, <1>3, Zenon DEF CheckHibernation

\* $Secure, $Extend and the files in it are loaded.
LEMMA ExtendedInv ==
    ASSUME IInv, NEW v \in Volumes, LoadExtended(v) PROVE IInv'
<1>1. /\ pc[v] = "extend" /\ Is(v, "extend") /\ vol[v] \in Vols
      /\ UNCHANGED <<disk, cached, vfs>>
  BY Here, Zenon DEF LoadExtended, At, Typed
<1>2. CASE Goto(v, "drop") /\ UNCHANGED vol
  <2>1. Good(v, vol[v], "drop", ret[v], pend[v], op[v], disk[v], strays[v], mounted, rdonly)
    BY <1>1, <1>2, KeepsSelf, GoodExtend, Zenon DEF Is
  <2> QED
    BY <1>1, <1>2, <2>1, PlaceNames, GotoInv, Zenon
<1>3. CASE Goto(v, "stamp") /\ UNCHANGED vol
  <2>1. Good(v, vol[v], "stamp", ret[v], pend[v], op[v], disk[v], strays[v], mounted, rdonly)
    BY <1>1, <1>3, KeepsSelf, GoodExtend, Zenon DEF Is
  <2> QED
    BY <1>1, <1>3, <2>1, PlaceNames, GotoInv, Zenon
<1>4. CASE Problem(v, vol[v], "stamp")
  <2>1. \/ IInv'
        \/ \E q \in Vols : /\ Set(v, q) /\ Goto(v, "stamp") /\ vol[v].ro /\ q.errors
                           /\ Keeps(vol[v], q, {"errors"})
    BY <1>1, <1>4, PlaceNames, KeepsSelf, ProblemCases, Zenon
  <2>2. ASSUME NEW q \in Vols, Set(v, q), Goto(v, "stamp"), vol[v].ro, q.errors,
               Keeps(vol[v], q, {"errors"})
        PROVE  IInv'
    <3>1. Good(v, q, "stamp", ret[v], pend[v], op[v], disk[v], strays[v], mounted, rdonly)
      BY <1>1, <2>2, GoodExtend, Zenon DEF Is
    <3> QED
      BY <1>1, <2>2, <3>1, PlaceNames, GotoInv, Zenon
  <2> QED
    BY <2>1, <2>2, Zenon
<1>5. CASE SystemFails(v) /\ UNCHANGED vol
  BY <1>1, <1>5, PlaceNames, KeepsSelf, FailsInv, Zenon
<1> QED
  BY <1>2, <1>3, <1>4, <1>5, Zenon DEF LoadExtended

\* The temporary reference on the default upcase table is dropped.
LEMMA DropInv ==
    ASSUME IInv, NEW v \in Volumes, DropTables(v) PROVE IInv'
<1>1. /\ pc[v] = "drop" /\ Is(v, "drop") /\ vol[v] \in Vols
      /\ UNCHANGED <<disk, cached, vfs>> /\ UNCHANGED vol
  BY Here, Zenon DEF DropTables, At, Typed
<1>2. CASE FailMount(v, "err")
  BY <1>1, <1>2, PlaceNames, KeepsSelf, GiveUpInv, Zenon
<1>3. CASE ret[v] # "err" /\ Goto(v, "count")
  <2>1. ret[v] = "ok"
    BY <1>3, Here, Zenon DEF Typed
  <2>2. Good(v, vol[v], "count", ret[v], pend[v], op[v], disk[v], strays[v], mounted, rdonly)
    BY <1>1, <2>1, GoodDrop, Zenon DEF Is
  <2> QED
    BY <1>1, <1>3, <2>2, PlaceNames, GotoInv, Zenon
<1> QED
  BY <1>2, <1>3, Zenon DEF DropTables

\* The boot sector is read.
LEMMA BootInv ==
    ASSUME IInv, NEW v \in Volumes, ntfs_boot_sector_read(v) PROVE IInv'
<1>1. /\ pc[v] = "boot" /\ Is(v, "boot") /\ vol[v] \in Vols
      /\ UNCHANGED <<disk, vol, cached, vfs>>
  BY Here, Zenon DEF ntfs_boot_sector_read, At, Typed
<1>2. CASE Goto(v, "mft")
  <2>1. Good(v, vol[v], "mft", ret[v], pend[v], op[v], disk[v], strays[v], mounted, rdonly)
    BY <1>1, GoodBoot, Zenon DEF Is
  <2> QED
    BY <1>1, <1>2, <2>1, PlaceNames, GotoInv, Zenon
<1>3. CASE FailMount(v, "err")
  BY <1>1, <1>3, PlaceNames, KeepsSelf, GiveUpInv, Zenon
<1> QED
  BY <1>2, <1>3, Zenon DEF ntfs_boot_sector_read

\* ntfs_volume_flags_set() and ntfs_volume_flags_clear().
Flagged(v, q, b, Q) ==
    /\ Set(v, q) /\ UNCHANGED op /\ pend' = [pend EXCEPT ![v] = Q]
    /\ Keeps(vol[v], q, {"dirty"}) /\ q.dirty = b
    /\ vol[v].dirty = b => Q = pend[v]
    /\ vol[v].dirty # b => Q = pend[v] \cup {"flags"}

\* ntfs_volume_flags_set() and ntfs_volume_flags_clear().
LEMMA FlagsWritten ==
    ASSUME Types, NEW v \in Volumes, NEW b \in BOOLEAN, ntfs_volume_flags_write(v, b)
    PROVE  \E q \in Vols, Q \in SUBSET Cached : Flagged(v, q, b, Q)
<1>1. vol[v] \in Vols /\ pend[v] \in SUBSET Cached
  BY AllSame, Zenon DEF Typed
<1>2. PICK q : q = [vol[v] EXCEPT !.dirty = b]
  BY Zenon
<1>3. q \in Vols /\ Keeps(vol[v], q, {"dirty"}) /\ q.dirty = b /\ Set(v, q)
  BY <1>1, <1>2, PutDirty, ZenonT(60) DEF ntfs_volume_flags_write
<1>4. CASE vol[v].dirty = b
  <2>1. pend' = [pend EXCEPT ![v] = pend[v]] /\ UNCHANGED op
    BY <1>4, AllSame, Zenon DEF ntfs_volume_flags_write, cached
  <2> QED
    BY <1>1, <1>3, <1>4, <2>1, Zenon DEF Flagged
<1>5. CASE vol[v].dirty # b
  <2>1. PICK Q : Q = pend[v] \cup {"flags"} /\ pend' = [pend EXCEPT ![v] = Q]
    BY <1>5, Zenon DEF ntfs_volume_flags_write, Change
  <2>2. UNCHANGED op
    BY <1>5, Zenon DEF ntfs_volume_flags_write, Change
  <2>3. Q \in SUBSET Cached
    BY <1>1, <2>1, Zenon DEF Cached
  <2> QED
    BY <1>3, <1>5, <2>1, <2>2, <2>3, Zenon DEF Flagged
<1> QED
  BY <1>4, <1>5, Zenon

\* A read-write mount marks the volume dirty.
LEMMA MarkInv ==
    ASSUME IInv, NEW v \in Volumes, MarkDirty(v) PROVE IInv'
<1>1. /\ pc[v] = "dirty" /\ Is(v, "dirty") /\ vol[v] \in Vols
      /\ UNCHANGED <<disk, vfs>>
  BY Here, Zenon DEF MarkDirty, At, Typed
<1>2. CASE vol[v].ro /\ Goto(v, "empty") /\ UNCHANGED <<vol, cached>>
  <2>1. Good(v, vol[v], "empty", ret[v], pend[v], op[v], disk[v], strays[v], mounted, rdonly)
    BY <1>1, <1>2, KeepsSelf, GoodMark, Zenon DEF Is
  <2> QED
    BY <1>1, <1>2, <2>1, PlaceNames, GotoInv, Zenon
<1>3. CASE ~vol[v].ro /\ ntfs_volume_flags_write(v, TRUE) /\ Goto(v, "empty")
  <2>1. PICK q \in Vols, Q \in SUBSET Cached : Flagged(v, q, TRUE, Q)
    BY <1>3, Here, FlagsWritten, Zenon
  <2>2. vol[v].dirty \in BOOLEAN
    BY <1>1, Zenon DEF Vols
  <2>3. Good(v, q, "empty", ret[v], Q, op[v], disk[v], strays[v], mounted, rdonly)
    BY <1>1, <1>3, <2>1, <2>2, GoodMark, Zenon DEF Is, Flagged
  <2>4. To(v, q, "empty", ret[v], Q, op[v], disk[v], strays[v], mounted, rdonly)
    BY <1>1, <1>3, <2>1, Here, AllSame, Zenon DEF To, Goto, Set, vfs, Flagged
  <2>5. Typed(q, "empty", ret[v], Q, op[v], disk[v], strays[v])
    BY Here, PlaceNames, Zenon DEF Typed
  <2> QED
    BY <2>3, <2>4, <2>5, StepInv, Zenon
<1>4. CASE SystemFails(v) /\ UNCHANGED <<vol, cached>>
  BY <1>1, <1>4, PlaceNames, KeepsSelf, FailsInv, Zenon
<1> QED
  BY <1>2, <1>3, <1>4, Zenon DEF MarkDirty

\* The journal is emptied.
LEMMA EmptyInv ==
    ASSUME IInv, NEW v \in Volumes, ntfs_logfile_empty(v) PROVE IInv'
<1>1. /\ pc[v] = "empty" /\ Is(v, "empty") /\ vol[v] \in Vols
      /\ UNCHANGED <<disk, vfs>>
  BY Here, Zenon DEF ntfs_logfile_empty, At, Typed
<1>2. CASE Goto(v, "extend") /\ UNCHANGED <<vol, cached>>
  <2>1. Good(v, vol[v], "extend", ret[v], pend[v], op[v], disk[v], strays[v], mounted, rdonly)
    BY <1>1, <1>2, KeepsSelf, GoodEmpty, Zenon DEF Is
  <2> QED
    BY <1>1, <1>2, <2>1, PlaceNames, GotoInv, Zenon
<1>3. CASE /\ ~vol[v].ro /\ Set(v, [vol[v] EXCEPT !.logEmpty = TRUE])
           /\ Change(v, {"log"}) /\ Goto(v, "extend")
  <2>1. PICK q : q = [vol[v] EXCEPT !.logEmpty = TRUE]
    BY Zenon
  <2>2. q \in Vols /\ Keeps(vol[v], q, {})
    <3>1. TRUE \in LogEmpties
      BY Zenon DEF LogEmpties
    <3>2. q \in Vols /\ Keeps(vol[v], q, {"logEmpty"})
      BY <1>1, <2>1, <3>1, PutLogEmpty, Zenon
    <3> QED
      BY <3>2, Zenon DEF Keeps
  <2>3. PICK Q : Q = pend[v] \cup {"log"} /\ pend' = [pend EXCEPT ![v] = Q]
    BY <1>3, Zenon DEF Change
  <2>4. Q \in SUBSET Cached
    BY <2>3, Here, Zenon DEF Typed, Cached
  <2>5. Good(v, q, "extend", ret[v], Q, op[v], disk[v], strays[v], mounted, rdonly)
    BY <1>1, <1>3, <2>2, <2>3, GoodEmpty, Zenon DEF Is
  <2>6. Set(v, q) /\ UNCHANGED op
    BY <1>3, <2>1, Zenon DEF Change
  <2>7. To(v, q, "extend", ret[v], Q, op[v], disk[v], strays[v], mounted, rdonly)
    BY <1>1, <1>3, <2>3, <2>6, Here, AllSame, Zenon DEF To, Goto, Set, vfs
  <2>8. Typed(q, "extend", ret[v], Q, op[v], disk[v], strays[v])
    BY <2>2, <2>4, Here, PlaceNames, Zenon DEF Typed
  <2> QED
    BY <2>5, <2>7, <2>8, StepInv, Zenon
<1>4. CASE SystemFails(v) /\ UNCHANGED <<vol, cached>>
  BY <1>1, <1>4, PlaceNames, KeepsSelf, FailsInv, Zenon
<1> QED
  BY <1>2, <1>3, <1>4, Zenon DEF ntfs_logfile_empty

\* $UsnJrnl is stamped.
LEMMA StampInv ==
    ASSUME IInv, NEW v \in Volumes, Stamp(v) PROVE IInv'
<1>1. /\ pc[v] = "stamp" /\ Is(v, "stamp") /\ UNCHANGED <<disk, vol, vfs>>
  BY Here, Zenon DEF Stamp, At, Typed
<1>2. ASSUME NEW P \in {{}, {"stamp"}}, NEW x \in {ret[v], "err"},
             P = {} \/ ~vol[v].ro, pend' = [pend EXCEPT ![v] = @ \cup P], UNCHANGED op,
             pc' = [pc EXCEPT ![v] = "drop"], ret' = [ret EXCEPT ![v] = x]
      PROVE  IInv'
  <2>1. PICK Q : Q = pend[v] \cup P /\ pend' = [pend EXCEPT ![v] = Q]
    BY <1>2, Zenon
  <2>2. Q \in SUBSET Cached
    BY <1>2, <2>1, Here, Zenon DEF Typed, Cached
  <2>3. Q = pend[v] \/ (~vol[v].ro /\ Q = pend[v] \cup {"stamp"})
    BY <1>2, <2>1, Zenon
  <2>4. Good(v, vol[v], "drop", x, Q, op[v], disk[v], strays[v], mounted, rdonly)
    BY <1>1, <1>2, <2>3, GoodStamp, Zenon DEF Is
  <2>5. To(v, vol[v], "drop", x, Q, op[v], disk[v], strays[v], mounted, rdonly)
    BY <1>1, <1>2, <2>1, Here, AllSame, Zenon DEF To, vfs
  <2>6. Typed(vol[v], "drop", x, Q, op[v], disk[v], strays[v])
    BY <1>2, <2>2, Here, PlaceNames, Zenon DEF Typed
  <2> QED
    BY <2>4, <2>5, <2>6, StepInv, Zenon
<1>3. CASE UNCHANGED cached /\ Goto(v, "drop")
  <2>1. Good(v, vol[v], "drop", ret[v], pend[v], op[v], disk[v], strays[v], mounted, rdonly)
    BY <1>1, GoodStamp, Zenon DEF Is
  <2>2. vol[v] \in Vols
    BY Here, Zenon DEF Typed
  <2> QED
    BY <1>1, <1>3, <2>1, <2>2, PlaceNames, GotoInv, Zenon
<1>4. CASE ~vol[v].ro /\ Change(v, {"stamp"}) /\ Goto(v, "drop")
  <2>1. ret' = [ret EXCEPT ![v] = ret[v]]
    BY <1>4, Here, AllSame, Zenon DEF Goto
  <2> QED
    BY <1>2, <1>4, <2>1, Zenon DEF Change, Goto
<1>5. ASSUME NEW P \in {{}, {"stamp"}}, ~vol[v].ro, Change(v, P), SystemFails(v)
      PROVE  IInv'
  BY <1>2, <1>5, Zenon DEF Change, SystemFails
<1> QED
  BY <1>3, <1>4, <1>5, Zenon DEF Stamp

\* The free clusters are counted, and the volume is mounted.
LEMMA CountInv ==
    ASSUME IInv, NEW v \in Volumes, CountFree(v) PROVE IInv'
<1>1. /\ pc[v] = "count" /\ Is(v, "count") /\ UNCHANGED <<disk, vol, cached>>
      /\ UNCHANGED <<load, rdonly, strays>>
  BY Here, Zenon DEF CountFree, At
<1>2. CASE mounted' = mounted \cup {v} /\ Idle(v, "ok")
  <2>1. PICK M : M = mounted \cup {v}
    BY Zenon
  <2>2. Good(v, vol[v], "idle", "ok", pend[v], op[v], disk[v], strays[v], M, rdonly)
    BY <1>1, <2>1, GoodMounted, Zenon DEF Is
  <2>3. mounted' = M /\ M \ {v} = mounted \ {v}
    BY <1>2, <2>1, Zenon
  <2>4. To(v, vol[v], "idle", "ok", pend[v], op[v], disk[v], strays[v], M, rdonly)
    BY <1>1, <1>2, <2>3, Here, AllSame, Zenon DEF To, Idle, cached
  <2>5. Typed(vol[v], "idle", "ok", pend[v], op[v], disk[v], strays[v])
    BY Here, PlaceNames, Zenon DEF Typed
  <2> QED
    BY <2>2, <2>4, <2>5, StepInv, Zenon
<1>3. CASE FailMount(v, "err") /\ UNCHANGED mounted
  <2>1. UNCHANGED <<disk, cached, vfs>> /\ vol[v] \in Vols /\ UNCHANGED vol
    BY <1>1, <1>3, Here, Zenon DEF Typed, vfs
  <2> QED
    BY <1>1, <1>3, <2>1, PlaceNames, KeepsSelf, GiveUpInv, Zenon
<1> QED
  BY <1>2, <1>3, Zenon DEF CountFree

\* ntfs_mount() starts.
LEMMA StartInv ==
    ASSUME IInv, NEW v \in Volumes, MountStart(v) PROVE IInv'
<1>1. /\ pc[v] = "idle" /\ Is(v, "idle") /\ ~vol[v].live
      /\ UNCHANGED <<load, disk, cached, mounted, strays>>
  BY Here, Zenon DEF MountStart, At
<1>2. ASSUME NEW mode \in load.modes,
             rdonly' = (IF mode = "ro" THEN rdonly \cup {v} ELSE rdonly \ {v}),
             Set(v, [NoVol EXCEPT !.live = TRUE, !.mp = TRUE, !.comp = TRUE,
                                  !.ro = mode = "ro"]),
             pc' = [pc EXCEPT ![v] = "boot"], ret' = [ret EXCEPT ![v] = "ok"]
      PROVE  IInv'
  <2>1. PICK b \in BOOLEAN : b = (mode = "ro")
    BY Zenon
  <2>2. PICK q : q = [NoVol EXCEPT !.live = TRUE, !.mp = TRUE, !.comp = TRUE, !.ro = b]
    BY Zenon
  <2>3. q \in Vols /\ Keeps(NoVol, q, {"live", "comp", "ro"}) /\ q.live /\ q.ro = b
    BY <2>2, PutNew, Zenon
  <2>4. PICK N : N = rdonly'
    BY Zenon
  <2>5. (b => v \in N) /\ N \ {v} = rdonly \ {v}
    BY <1>2, <2>1, <2>4, Zenon
  <2>6. Good(v, q, "boot", "ok", pend[v], op[v], disk[v], strays[v], mounted, N)
    BY <1>1, <2>3, <2>5, GoodStart, Zenon DEF Is
  <2>7. Set(v, q)
    BY <1>2, <2>1, <2>2, Zenon
  <2>8. To(v, q, "boot", "ok", pend[v], op[v], disk[v], strays[v], mounted, N)
    BY <1>1, <1>2, <2>4, <2>5, <2>7, Here, AllSame, Zenon DEF To, Set, cached
  <2>9. Typed(q, "boot", "ok", pend[v], op[v], disk[v], strays[v])
    BY <2>3, Here, PlaceNames, Zenon DEF Typed
  <2> QED
    BY <2>6, <2>8, <2>9, StepInv, Zenon
<1>3. CASE /\ ret' = [ret EXCEPT ![v] = "err"]
           /\ UNCHANGED <<rdonly, vol, pc>>
  <2>1. Good(v, vol[v], "idle", "err", pend[v], op[v], disk[v], strays[v], mounted, rdonly)
    BY <1>1, GoodResult, Zenon DEF Is
  <2>2. To(v, vol[v], "idle", "err", pend[v], op[v], disk[v], strays[v], mounted, rdonly)
    BY <1>1, <1>3, Here, AllSame, Zenon DEF To, cached
  <2>3. Typed(vol[v], "idle", "err", pend[v], op[v], disk[v], strays[v])
    BY Here, PlaceNames, Zenon DEF Typed
  <2> QED
    BY <2>1, <2>2, <2>3, StepInv, Zenon
<1> QED
  BY <1>2, <1>3, Zenon DEF MountStart

\* Every step of a mount.
LEMMA MountInv ==
    ASSUME IInv, NEW v \in Volumes, MountStep(v) PROVE IInv'
BY BootInv, MftInv, TablesInv, RootInv, MirrorInv, UpcaseInv, VolumeInv,
   LogInv, HibernationInv, MarkInv, EmptyInv, ExtendedInv, StampInv, DropInv,
   CountInv, ZenonT(60) DEF MountStep

-----------------------------------------------------------------------------
(***************************************************************************)
(* The states a mounted volume goes through.                               *)
(***************************************************************************)

\* c is the disk d after the parts Q of r were written.
Written(r, n, d, c, Q) ==
    /\ DiskKeeps(d, c, {"dirty", "parts"})
    /\ "flags" \in Q => c.dirty = r.dirty
    /\ "flags" \notin Q => c.dirty = d.dirty
    /\ \A p \in Parts : /\ p \in Q => c.parts[p] = n
                        /\ p \notin Q => c.parts[p] = d.parts[p]

\* Some of what is pending is written.
LEMMA GoodWrite ==
    ASSUME NEW v, NEW r, NEW l, NEW e, NEW P, NEW n, NEW d, NEW s, NEW M,
           NEW O, NEW Z, NEW c,
           Good(v, r, l, e, P, n, d, s, M, O),
           Z \subseteq P,
           Written(r, n, d, c, P \ Z),
           ~r.ro
    PROVE  Good(v, r, l, e, Z, n, c, s, M, O)
BY SMTT(60) DEF Good, Life, Loaded, Pending, DirtyBit, Check, Untouched, Keeps,
   DiskKeeps, Written, MountPlaces, Loading, Early, Remounting, Parts

\* A metadata operation.
LEMMA GoodChange ==
    ASSUME NEW v, NEW r, NEW l, NEW e, NEW P, NEW n, NEW d, NEW s, NEW M,
           NEW O, NEW Z, NEW m,
           Good(v, r, l, e, P, n, d, s, M, O),
           l \in {"idle", "u_sync", "u_start"},
           v \in M,
           v \notin O,
           Z = P \cup Parts
    PROVE  Good(v, r, l, e, Z, m, d, s, M, O)
BY DEF Good, Life, Loaded, Pending, DirtyBit, Check, Untouched, Keeps,
   DiskKeeps, MountPlaces, Loading, Early, Remounting, Parts

\* Errors are met.
LEMMA GoodErrors ==
    ASSUME NEW v, NEW r, NEW l, NEW e, NEW P, NEW n, NEW d, NEW s, NEW M,
           NEW O, NEW q, NEW c,
           Good(v, r, l, e, P, n, d, s, M, O),
           l \in {"idle", "u_sync", "u_start"},
           v \in M,
           v \notin O,
           q.errors,
           Keeps(r, q, {"errors"}),
           c.needsCheck,
           DiskKeeps(d, c, {"needsCheck"})
    PROVE  Good(v, q, l, e, P, n, c, s, M, O)
BY SMTT(60) DEF Good, Life, Loaded, Pending, DirtyBit, Check, Untouched, Keeps,
   DiskKeeps, MountPlaces, Loading, Early, Remounting, Parts

\* A write that nobody answers for is lost.
LEMMA GoodLost ==
    ASSUME NEW v, NEW r, NEW l, NEW e, NEW P, NEW n, NEW d, NEW s, NEW M,
           NEW O, NEW Z, NEW c,
           Good(v, r, l, e, P, n, d, s, M, O),
           ~r.ro,
           P # {},
           Z \subseteq P,
           c.lost,
           DiskKeeps(d, c, {"dirty", "parts", "needsCheck", "lost"})
    PROVE  Good(v, r, l, e, Z, n, c, s, M, O)
BY SMTT(60) DEF Good, Life, Loaded, Pending, DirtyBit, Check, Untouched,
   DiskKeeps

\* The sync of a file fails, and the error is noted.
LEMMA GoodNoted ==
    ASSUME NEW v, NEW r, NEW l, NEW e, NEW P, NEW n, NEW d, NEW s, NEW M,
           NEW O, NEW Z, NEW c, NEW q,
           Good(v, r, l, e, P, n, d, s, M, O),
           l \in {"idle", "u_sync", "u_start"},
           v \in M,
           ~r.ro,
           Z = P \ {"file"},
           q.errors,
           Keeps(r, q, {"errors"}),
           c.needsCheck,
           DiskKeeps(d, c, {"parts", "needsCheck"})
    PROVE  Good(v, q, l, e, Z, n, c, s, M, O)
BY SMTT(60) DEF Good, Life, Loaded, Pending, DirtyBit, Check, Untouched, Keeps,
   DiskKeeps, MountPlaces, Loading, Early, Remounting, Parts

\* A remount to read-only starts.
LEMMA GoodRemount ==
    ASSUME NEW v, NEW r, NEW e, NEW P, NEW n, NEW d, NEW s, NEW M, NEW O,
           NEW N,
           Good(v, r, "idle", e, P, n, d, s, M, O),
           v \in M,
           ~r.ro,
           v \in N
    PROVE  Good(v, r, "r_sync", e, P, n, d, s, M, N)
BY SMTT(60) DEF Good, Life, Loaded, Pending, DirtyBit, Check, Untouched, Keeps,
   DiskKeeps, MountPlaces, Loading, Early, Remounting, Parts

\* Its first sync fails.
LEMMA GoodRemountFails ==
    ASSUME NEW v, NEW r, NEW e, NEW P, NEW n, NEW d, NEW s, NEW M, NEW O,
           NEW x, NEW N,
           Good(v, r, "r_sync", e, P, n, d, s, M, O)
    PROVE  Good(v, r, "idle", x, P, n, d, s, M, N)
BY SMTT(60) DEF Good, Life, Loaded, Pending, DirtyBit, Check, Untouched, Keeps,
   DiskKeeps, MountPlaces, Loading, Early, Remounting, Parts

\* Its first sync is done.
LEMMA GoodSynced ==
    ASSUME NEW v, NEW r, NEW e, NEW n, NEW d, NEW s, NEW M, NEW O,
           Good(v, r, "r_sync", e, {}, n, d, s, M, O)
    PROVE  Good(v, r, "r_clear", e, {}, n, d, s, M, O)
BY SMTT(60) DEF Good, Life, Loaded, Pending, DirtyBit, Check, Untouched, Keeps,
   DiskKeeps, MountPlaces, Loading, Early, Remounting, Parts

\* It succeeds.
LEMMA GoodReadOnly ==
    ASSUME NEW v, NEW r, NEW l, NEW e, NEW n, NEW d, NEW s, NEW M, NEW O,
           NEW q, NEW x,
           Good(v, r, l, e, {}, n, d, s, M, O),
           l \in {"r_clear", "r_flush"},
           q.ro,
           Keeps(r, q, {"ro"})
    PROVE  Good(v, q, "idle", x, {}, n, d, s, M, O)
BY DEF Good, Life, Loaded, Pending, DirtyBit, Check, Untouched, Keeps,
   DiskKeeps, MountPlaces, Loading, Early, Remounting, Parts

\* The dirty bit is cleared.
LEMMA GoodCleared ==
    ASSUME NEW v, NEW r, NEW e, NEW P, NEW n, NEW d, NEW s, NEW M, NEW O,
           NEW q, NEW Z,
           Good(v, r, "r_clear", e, P, n, d, s, M, O),
           ~r.ro,
           r.volni,
           ~r.errors,
           r.dirty \in BOOLEAN,
           q.dirty = FALSE,
           Keeps(r, q, {"dirty"}),
           r.dirty => Z = P \cup {"flags"},
           ~r.dirty => Z = P
    PROVE  Good(v, q, "r_flush", e, Z, n, d, s, M, O)
BY ZenonT(60) DEF Good, Life, Loaded, Pending, DirtyBit, Check, Untouched,
   Keeps, DiskKeeps, MountPlaces, Loading, Early, Remounting, Parts

\* That fails.
LEMMA GoodMarked ==
    ASSUME NEW v, NEW r, NEW e, NEW P, NEW n, NEW d, NEW s, NEW M, NEW O,
           Good(v, r, "r_clear", e, P, n, d, s, M, O)
    PROVE  Good(v, r, "r_flush", e, P, n, d, s, M, O)
BY DEF Good, Life, Loaded, Pending, DirtyBit, Check, Untouched, Keeps,
   DiskKeeps, MountPlaces, Loading, Early, Remounting, Parts

\* Its second sync fails, and the volume is marked dirty again.
LEMMA GoodFlushFails ==
    ASSUME NEW v, NEW r, NEW e, NEW P, NEW n, NEW d, NEW s, NEW M, NEW O,
           NEW q, NEW x, NEW Z, NEW N,
           Good(v, r, "r_flush", e, P, n, d, s, M, O),
           q.dirty,
           Keeps(r, q, {"dirty"}),
           r.dirty => Z = P,
           ~r.dirty => Z = P \cup {"flags"}
    PROVE  Good(v, q, "idle", x, Z, n, d, s, M, N)
BY ZenonT(60) DEF Good, Life, Loaded, Pending, DirtyBit, Check, Untouched,
   Keeps, DiskKeeps, MountPlaces, Loading, Early, Remounting, Parts

\* The mark fails as well, and the volume stays mounted read-write.
LEMMA GoodUnanswered ==
    ASSUME NEW v, NEW r, NEW e, NEW P, NEW n, NEW d, NEW s, NEW M, NEW O,
           NEW x, NEW c, NEW N,
           Good(v, r, "r_flush", e, P, n, d, s, M, O),
           c.lost,
           DiskKeeps(d, c, {"needsCheck", "lost"})
    PROVE  Good(v, r, "idle", x, P, n, c, s, M, N)
BY SMTT(60) DEF Good, Life, Loaded, Pending, DirtyBit, Check, Untouched, Keeps,
   DiskKeeps, MountPlaces, Loading, Early, Remounting, Parts

\* An unmount starts.
LEMMA GoodUnmount ==
    ASSUME NEW v, NEW r, NEW e, NEW P, NEW n, NEW d, NEW s, NEW M, NEW O,
           NEW m, NEW x,
           Good(v, r, "idle", e, P, n, d, s, M, O),
           v \in M,
           m \in {"u_start", "u_sync"},
           m = "u_sync" => v \notin O
    PROVE  Good(v, r, m, x, P, n, d, s, M, O)
BY SMTT(60) DEF Good, Life, Loaded, Pending, DirtyBit, Check, Untouched, Keeps,
   DiskKeeps, MountPlaces, Loading, Early, Remounting, Parts

\* It fails.
LEMMA GoodBack ==
    ASSUME NEW v, NEW r, NEW l, NEW e, NEW P, NEW n, NEW d, NEW s, NEW M,
           NEW O, NEW x,
           Good(v, r, l, e, P, n, d, s, M, O),
           l \in {"u_start", "u_sync"}
    PROVE  Good(v, r, "idle", x, P, n, d, s, M, O)
BY SMTT(60) DEF Good, Life, Loaded, Pending, DirtyBit, Check, Untouched, Keeps,
   DiskKeeps, MountPlaces, Loading, Early, Remounting, Parts

\* Its sync is done.
LEMMA GoodUnmountSynced ==
    ASSUME NEW v, NEW r, NEW e, NEW P, NEW n, NEW d, NEW s, NEW M, NEW O,
           Good(v, r, "u_sync", e, P, n, d, s, M, O)
    PROVE  Good(v, r, "u_start", e, P, n, d, s, M, O)
BY SMTT(60) DEF Good, Life, Loaded, Pending, DirtyBit, Check, Untouched, Keeps,
   DiskKeeps, MountPlaces, Loading, Early, Remounting, Parts

\* There is nothing to unmount.
LEMMA GoodNoMft ==
    ASSUME NEW v, NEW r, NEW e, NEW P, NEW n, NEW d, NEW s, NEW M, NEW O,
           NEW N,
           Good(v, r, "u_start", e, P, n, d, s, M, O),
           ~r.mft,
           N = M \ {v}
    PROVE  Good(v, NoVol, "idle", e, P, n, d, s, N, O)
BY SMTT(60) DEF Good, Life, Loaded, Pending, DirtyBit, Check, Untouched, Keeps,
   DiskKeeps, NoVol, MountPlaces, Loading, Early, Remounting, Parts

\* The vnodes are gone but for the system's.
LEMMA GoodFlushed ==
    ASSUME NEW v, NEW r, NEW e, NEW P, NEW n, NEW d, NEW s, NEW M, NEW O,
           Good(v, r, "u_start", e, P, n, d, s, M, O),
           r.root
    PROVE  Good(v, r, "u_clear", e, P, n, d, s, M, O)
BY SMTT(60) DEF Good, Life, Loaded, Pending, DirtyBit, Check, Untouched, Keeps,
   DiskKeeps, MountPlaces, Loading, Early, Remounting, Parts

\* The volume stays dirty.
LEMMA GoodUnmarked ==
    ASSUME NEW v, NEW r, NEW e, NEW P, NEW n, NEW d, NEW s, NEW M, NEW O,
           Good(v, r, "u_clear", e, P, n, d, s, M, O)
    PROVE  Good(v, r, "u_volume", e, P, n, d, s, M, O)
BY DEF Good, Life, Loaded, Pending, DirtyBit, Check, Untouched, Keeps,
   DiskKeeps, MountPlaces, Loading, Early, Remounting, Parts

\* The volume is marked clean.
LEMMA GoodClean ==
    ASSUME NEW v, NEW r, NEW e, NEW P, NEW n, NEW d, NEW s, NEW M, NEW O,
           NEW q, NEW Z,
           Good(v, r, "u_clear", e, P, n, d, s, M, O),
           ~r.ro,
           r.volni,
           ~r.errors,
           r.dirty \in BOOLEAN,
           q.dirty = FALSE,
           Keeps(r, q, {"dirty"}),
           r.dirty => Z = P \cup {"flags"},
           ~r.dirty => Z = P
    PROVE  Good(v, q, "u_volume", e, Z, n, d, s, M, O)
BY ZenonT(60) DEF Good, Life, Loaded, Pending, DirtyBit, Check, Untouched,
   Keeps, DiskKeeps, MountPlaces, Loading, Early, Remounting, Parts

\* $Volume is gone.
LEMMA GoodDetach ==
    ASSUME NEW v, NEW r, NEW e, NEW P, NEW n, NEW d, NEW s, NEW M, NEW O,
           NEW q,
           Good(v, r, "u_volume", e, P, n, d, s, M, O),
           "flags" \notin P,
           ~q.volni,
           Keeps(r, q, {"volni"})
    PROVE  Good(v, q, "u_rest", e, P, n, d, s, M, O)
BY SMTT(60) DEF Good, Life, Loaded, Pending, DirtyBit, Check, Untouched, Keeps,
   DiskKeeps, MountPlaces, Loading, Early, Remounting, Parts

\* The root directory is gone.
LEMMA GoodRest ==
    ASSUME NEW v, NEW r, NEW e, NEW n, NEW d, NEW s, NEW M, NEW O, NEW q,
           Good(v, r, "u_rest", e, {}, n, d, s, M, O),
           ~q.root,
           Keeps(r, q, {"root"})
    PROVE  Good(v, q, "u_mft", e, {}, n, d, s, M, O)
BY SMTT(60) DEF Good, Life, Loaded, Pending, DirtyBit, Check, Untouched, Keeps,
   DiskKeeps, MountPlaces, Loading, Early, Remounting, Parts

\* $MFT is gone.
LEMMA GoodMftGone ==
    ASSUME NEW v, NEW r, NEW l, NEW e, NEW P, NEW n, NEW d, NEW s, NEW M,
           NEW O, NEW q, NEW k,
           Good(v, r, l, e, P, n, d, s, M, O),
           l = "u_mft" \/ (l = "u_start" /\ r.mft /\ ~r.root),
           ~q.mft,
           Keeps(r, q, {"mft"})
    PROVE  Good(v, q, "u_final", e, P, n, d, k, M, O)
BY DEF Good, Life, Loaded, Pending, DirtyBit, Check, Untouched, Keeps,
   DiskKeeps, MountPlaces, Loading, Early, Remounting, Parts

\* The unmount is over.
LEMMA GoodFinal ==
    ASSUME NEW v, NEW r, NEW e, NEW P, NEW n, NEW d, NEW s, NEW M, NEW O,
           NEW q, NEW N,
           Good(v, r, "u_final", e, P, n, d, s, M, O),
           q.postponed = (s # 0),
           q.release = (s = 0),
           Keeps(r, q, {"postponed", "release"}),
           N = M \ {v}
    PROVE  Good(v, q, "idle", e, P, n, d, s, N, O)
BY ZenonT(60) DEF Good, Life, Loaded, Pending, DirtyBit, Check, Untouched,
   Keeps, DiskKeeps, MountPlaces, Loading, Early, Remounting, Parts

\* An inode is freed.
LEMMA GoodFreed ==
    ASSUME NEW v, NEW r, NEW l, NEW e, NEW P, NEW n, NEW d, NEW s, NEW M,
           NEW O, NEW q, NEW k,
           Good(v, r, l, e, P, n, d, s, M, O),
           s # 0,
           \/ k = 0 /\ r.postponed /\ ~q.postponed /\ q.release
           \/ k # 0 /\ q.postponed = r.postponed /\ q.release = r.release
           \/ k = 0 /\ ~r.postponed /\ ~q.postponed /\ q.release = r.release,
           Keeps(r, q, {"postponed", "release"})
    PROVE  Good(v, q, l, e, P, n, d, k, M, O)
BY SMTT(60) DEF Good, Life, Loaded, Pending, DirtyBit, Check, Untouched, Keeps,
   DiskKeeps, MountPlaces, Loading, Early, Remounting, Parts

\* The volume is released.
LEMMA GoodReleased ==
    ASSUME NEW v, NEW r, NEW l, NEW e, NEW P, NEW n, NEW d, NEW s, NEW M,
           NEW O,
           Good(v, r, l, e, P, n, d, s, M, O),
           r.release
    PROVE  Good(v, NoVol, l, e, P, n, d, s, M, O)
BY SMTT(60) DEF Good, Life, Loaded, Pending, DirtyBit, Check, Untouched, Keeps,
   DiskKeeps, NoVol, MountPlaces, Loading, Early, Remounting, Parts

\* chkdsk looks at the volume.
LEMMA GoodChkdsk ==
    ASSUME NEW v, NEW r, NEW l, NEW e, NEW P, NEW n, NEW d, NEW s, NEW M,
           NEW O, NEW c,
           Good(v, r, l, e, P, n, d, s, M, O),
           ~r.live,
           ~c.dirty,
           ~c.needsCheck,
           ~c.lost,
           \A p \in Parts : c.parts[p] = n,
           DiskKeeps(d, c, {"dirty", "parts", "needsCheck", "lost"})
    PROVE  Good(v, r, l, e, P, n, c, s, M, O)
BY SMTT(60) DEF Good, Life, Loaded, Pending, DirtyBit, Check, Untouched, Keeps,
   DiskKeeps, MountPlaces, Loading, Early, Remounting, Parts

\* The machine crashes.
LEMMA GoodCrash ==
    ASSUME NEW v, NEW r, NEW l, NEW e, NEW P, NEW n, NEW d, NEW s, NEW M,
           NEW O, NEW c,
           Good(v, r, l, e, P, n, d, s, M, O),
           CrashesOrdered => "flags" \notin P /\ l \notin {"u_volume", "u_rest", "r_flush"},
           c.needsCheck = (d.needsCheck \/ d.dirty),
           DiskKeeps(d, c, {"needsCheck"})
    PROVE  Good(v, NoVol, "idle", "ok", {}, n, c, 0, {}, {})
BY ZenonT(60) DEF Good, Life, Loaded, Pending, DirtyBit, Check, Untouched,
   Keeps, DiskKeeps, NoVol, MountPlaces, Loading, Early, Remounting, Parts

\* At first no volume is mounted.
LEMMA GoodInit ==
    ASSUME NEW v, NEW d, d.needsCheck => d.dirty,
           d.needsCheck \/ \A p \in Parts : d.parts[p] = 0
    PROVE  Good(v, NoVol, "idle", "ok", {}, 0, d, 0, {}, {})
BY DEF Good, Life, Loaded, Pending, DirtyBit, Check, Untouched, NoVol, MountPlaces,
   Loading, Early, Remounting, Parts

-----------------------------------------------------------------------------
(***************************************************************************)
(* The steps of a mounted volume.                                          *)
(***************************************************************************)

\* An emptied journal is a journal.
LEMMA EmptyLog ==
    ASSUME NEW g \in Seq(Blocks)
    PROVE  [i \in DOMAIN g |-> EmptyBlock] \in Seq(Blocks)
<1>1. EmptyBlock \in Blocks
  BY DEF EmptyBlock, Blocks
<1>2. Len(g) \in Nat /\ DOMAIN g = 1 .. Len(g)
  OBVIOUS
<1>3. [i \in 1 .. Len(g) |-> EmptyBlock] \in Seq(Blocks)
  BY <1>1, <1>2
<1> QED
  BY <1>2, <1>3, Zenon

\* A disk with some of its fields replaced.
Replaced(d, y, x, g, z) == [d EXCEPT !.parts = y, !.dirty = x, !.log = g, !.stamp = z]
Bits(x, z) == x \in BOOLEAN /\ z \in BOOLEAN

\* A disk after a write.
LEMMA PutWritten ==
    ASSUME NEW d \in Contents, NEW y \in [Parts -> Nat], NEW x,
           NEW g \in Seq(Blocks), NEW z, Bits(x, z)
    PROVE  /\ Replaced(d, y, x, g, z) \in Contents
           /\ Replaced(d, y, x, g, z).parts = y
           /\ Replaced(d, y, x, g, z).dirty = x
           /\ DiskKeeps(d, Replaced(d, y, x, g, z), {"dirty", "parts"})
BY ZenonT(60) DEF Contents, DiskKeeps, Replaced, Bits

\* What OnDisk(v, Q) is.
LEMMA OnDiskIs ==
    ASSUME Types, NEW v \in Volumes, NEW Q
    PROVE  \E c \in Contents :
              c = OnDisk(v, Q) /\ Written(vol[v], op[v], disk[v], c, Q)
<1>1. PICK d \in Contents : d = disk[v]
  BY AllSame, Zenon DEF Typed
<1>2. op[v] \in Nat /\ vol[v].dirty \in BOOLEAN
  BY AllSame, Zenon DEF Typed, Vols
<1>3. /\ d.parts \in [Parts -> Nat] /\ d.dirty \in BOOLEAN /\ d.log \in Seq(Blocks)
      /\ d.stamp \in BOOLEAN
  BY Zenon DEF Contents
<1>4. PICK y \in [Parts -> Nat] :
          y = [p \in Parts |-> IF p \in Q THEN op[v] ELSE d.parts[p]]
  BY <1>2, <1>3, Zenon
<1>5. PICK x \in BOOLEAN : x = IF "flags" \in Q THEN vol[v].dirty ELSE d.dirty
  BY <1>2, <1>3, Zenon
<1>6. PICK g \in Seq(Blocks) :
          g = IF "log" \in Q THEN [i \in DOMAIN d.log |-> EmptyBlock] ELSE d.log
  BY <1>3, EmptyLog, Zenon
<1>7. PICK z \in BOOLEAN : z = (d.stamp \/ "stamp" \in Q)
  BY <1>3, Zenon
<1>a. Bits(x, z)
  BY Zenon DEF Bits
<1>8. PICK c : c = Replaced(d, y, x, g, z)
  BY Zenon
<1>9. /\ c \in Contents /\ c.parts = y /\ c.dirty = x
      /\ DiskKeeps(d, c, {"dirty", "parts"})
  <2>1. /\ Replaced(d, y, x, g, z) \in Contents
        /\ Replaced(d, y, x, g, z).parts = y
        /\ Replaced(d, y, x, g, z).dirty = x
        /\ DiskKeeps(d, Replaced(d, y, x, g, z), {"dirty", "parts"})
    BY <1>a, PutWritten, Zenon
  <2> QED
    BY <1>8, <2>1, Zenon
<1>10. OnDisk(v, Q) = Replaced(d, y, x, g, z)
  <2>1. OnDisk(v, Q) = [d EXCEPT !.parts = y, !.dirty = x, !.log = g, !.stamp = z]
    BY <1>1, <1>4, <1>5, <1>6, <1>7, ZenonT(60) DEF OnDisk
  <2> QED
    BY <2>1, Zenon DEF Replaced
<1>11. Written(vol[v], op[v], d, c, Q)
  BY <1>4, <1>5, <1>9, Zenon DEF Written
<1> QED
  BY <1>1, <1>8, <1>9, <1>10, <1>11, Zenon

\* Parts of what is pending are written, in place.
Writes(v, l, X) ==
    \E c \in Contents, Z \in SUBSET Cached :
        /\ disk' = [disk EXCEPT ![v] = c] /\ pend' = [pend EXCEPT ![v] = Z]
        /\ Z = pend[v] \ X
        /\ Good(v, vol[v], l, ret[v], Z, op[v], c, strays[v], mounted, rdonly)

\* Writing leads from a good state to a good one.
LEMMA WriteGood ==
    ASSUME Types, NEW v \in Volumes, NEW l, Is(v, l), ~vol[v].ro,
           NEW X, NEW Y, Y = X \cap pend[v],
           disk' = [disk EXCEPT ![v] = OnDisk(v, Y)],
           pend' = [pend EXCEPT ![v] = @ \ X]
    PROVE  Writes(v, l, X)
<1>1. PICK c \in Contents : c = OnDisk(v, Y) /\ Written(vol[v], op[v], disk[v], c, Y)
  BY OnDiskIs, Zenon
<1>2. PICK Z : Z = pend[v] \ X
  BY Zenon
<1>3. Z \in SUBSET Cached /\ Z \subseteq pend[v] /\ Y = pend[v] \ Z
  BY <1>2, AllSame, Zenon DEF Typed
<1>4. Written(vol[v], op[v], disk[v], c, pend[v] \ Z)
  BY <1>1, <1>3, Zenon
<1>5. Good(v, vol[v], l, ret[v], Z, op[v], c, strays[v], mounted, rdonly)
  BY <1>3, <1>4, GoodWrite, Zenon DEF Is
<1>6. disk' = [disk EXCEPT ![v] = c] /\ pend' = [pend EXCEPT ![v] = Z]
  BY <1>1, <1>2, Zenon
<1> QED
  BY <1>2, <1>3, <1>5, <1>6, Zenon DEF Writes

\* ntfs_sync() and the caches.
LEMMA Wrote ==
    ASSUME Types, NEW v \in Volumes, NEW l, Is(v, l), ~vol[v].ro,
           NEW X, X \subseteq pend[v], Write(v, X)
    PROVE  Writes(v, l, X)
<1>1. X = X \cap pend[v]
  BY Zenon
<1> QED
  BY <1>1, WriteGood, Zenon DEF Write

\* Inodes are reclaimed.
LEMMA Reclaimed ==
    ASSUME Types, NEW v \in Volumes, NEW l, Is(v, l), NEW X, Reclaim(v, X)
    PROVE  Writes(v, l, X)
<1>1. CASE ~vol[v].ro
  <2>1. PICK Y : Y = X \cap pend[v]
    BY Zenon
  <2> QED
    BY <1>1, <2>1, WriteGood, Zenon DEF Reclaim
<1>2. CASE vol[v].ro
  <2>1. pend[v] = {}
    BY <1>2, Zenon DEF Is, Good, Pending
  <2>2. PICK Z : Z = pend[v] \ X
    BY Zenon
  <2>3. Z = pend[v] /\ Z \in SUBSET Cached
    BY <2>1, <2>2, Zenon
  <2>4. disk' = [disk EXCEPT ![v] = disk[v]] /\ disk[v] \in Contents
    BY <1>2, AllSame, Zenon DEF Reclaim, Typed
  <2>5. pend' = [pend EXCEPT ![v] = Z]
    BY <2>2, Zenon DEF Reclaim
  <2> QED
    BY <2>2, <2>3, <2>4, <2>5, ZenonT(60) DEF Writes, Is
<1> QED
  BY <1>1, <1>2, Zenon

\* A failed write is noted, or lost.
LEMMA PutLost ==
    ASSUME NEW d \in Contents, NEW a \in BOOLEAN, NEW b \in BOOLEAN, NEW c,
           c = [d EXCEPT !.needsCheck = a, !.lost = b]
    PROVE  /\ c \in Contents /\ DiskKeeps(d, c, {"needsCheck", "lost"})
           /\ c.needsCheck = a /\ c.lost = b
BY ZenonT(60) DEF Contents, DiskKeeps

\* What is left of a volume whose inodes X could not be synced.
Fails(v, X, c, Z, noted) ==
    /\ disk' = [disk EXCEPT ![v] = c] /\ pend' = [pend EXCEPT ![v] = Z]
    /\ ~vol[v].ro /\ pend[v] # {} /\ X \cap pend[v] # {} /\ Z = pend[v] \ X
    /\ DiskKeeps(disk[v], c, {"dirty", "parts", "needsCheck", "lost"})
    /\ ~noted => c.lost
    /\ noted => c.needsCheck /\ c.lost = disk[v].lost
    /\ "flags" \notin X => c.dirty = disk[v].dirty

\* That is what a failed reclaim leaves.
LEMMA ReclaimFailed ==
    ASSUME Types, NEW v \in Volumes, NEW X, NEW noted \in BOOLEAN,
           ReclaimFails(v, X, noted)
    PROVE  \E c \in Contents, Z \in SUBSET Cached : Fails(v, X, c, Z, noted)
<1>1. /\ ~vol[v].ro /\ X \cap pend[v] # {} /\ pend' = [pend EXCEPT ![v] = @ \ X]
  BY Zenon DEF ReclaimFails
<1>2. PICK Q \in SUBSET (X \cap pend[v]) :
        disk' = [disk EXCEPT ![v] = [OnDisk(v, Q) EXCEPT !.needsCheck = @ \/ noted,
                                                        !.lost = @ \/ ~noted]]
  BY Zenon DEF ReclaimFails
<1>3. PICK w \in Contents : w = OnDisk(v, Q) /\ Written(vol[v], op[v], disk[v], w, Q)
  BY OnDiskIs, Zenon
<1>4. PICK a \in BOOLEAN, b \in BOOLEAN :
        a = (w.needsCheck \/ noted) /\ b = (w.lost \/ ~noted)
  BY Zenon
<1>5. PICK c : c = [w EXCEPT !.needsCheck = a, !.lost = b]
  BY Zenon
<1>6. /\ c \in Contents /\ DiskKeeps(w, c, {"needsCheck", "lost"})
      /\ c.needsCheck = a /\ c.lost = b
  BY <1>5, PutLost, ZenonT(60)
<1>7. disk' = [disk EXCEPT ![v] = c]
  BY <1>2, <1>3, <1>4, <1>5, Zenon
<1>8. PICK Z : Z = pend[v] \ X
  BY Zenon
<1>9. Z \in SUBSET Cached /\ pend[v] # {} /\ pend' = [pend EXCEPT ![v] = Z]
  BY <1>1, <1>8, AllSame, ZenonT(60) DEF Typed
<1>10. /\ DiskKeeps(disk[v], c, {"dirty", "parts", "needsCheck", "lost"})
       /\ w.lost = disk[v].lost /\ ("flags" \notin X => c.dirty = disk[v].dirty)
  BY <1>3, <1>6, Zenon DEF Written, DiskKeeps
<1>11. (~noted => c.lost) /\ (noted => c.needsCheck /\ c.lost = disk[v].lost)
  <2>1. w.lost \in BOOLEAN
    BY <1>3, Zenon DEF Contents
  <2> QED
    BY <1>4, <1>6, <1>10, <2>1, ZenonT(60)
<1> QED
  BY <1>1, <1>6, <1>7, <1>8, <1>9, <1>10, <1>11, Zenon DEF Fails

\* Inodes are reclaimed when it is too late to note errors.
LEMMA ReclaimedLate ==
    ASSUME Types, NEW v \in Volumes, NEW l, Is(v, l), NEW X,
           Reclaim(v, X) \/ ReclaimFails(v, X, FALSE)
    PROVE  Writes(v, l, X)
<1>1. CASE Reclaim(v, X)
  BY <1>1, Reclaimed, ZenonT(60)
<1>2. CASE ReclaimFails(v, X, FALSE)
  <2>1. PICK c \in Contents, Z \in SUBSET Cached : Fails(v, X, c, Z, FALSE)
    BY <1>2, ReclaimFailed, Zenon
  <2>2. Good(v, vol[v], l, ret[v], Z, op[v], c, strays[v], mounted, rdonly)
    BY <2>1, GoodLost, Zenon DEF Is, Fails
  <2> QED
    BY <2>1, <2>2, Zenon DEF Writes, Fails
<1> QED
  BY <1>1, <1>2, Zenon

\* Reclaiming the files leads from a good state to a good one.
FilesGone(v, l, q) ==
    \E c \in Contents, Z \in SUBSET Cached :
        /\ disk' = [disk EXCEPT ![v] = c] /\ pend' = [pend EXCEPT ![v] = Z]
        /\ Set(v, q) /\ Keeps(vol[v], q, {"errors"})
        /\ Good(v, q, l, ret[v], Z, op[v], c, strays[v], mounted, rdonly)

LEMMA FilesReclaimed ==
    ASSUME Types, NEW v \in Volumes, NEW l \in {"idle", "u_sync", "u_start"}, Is(v, l),
           ReclaimFiles(v)
    PROVE  \E q \in Vols : FilesGone(v, l, q)
<1>1. PICK x \in Vols : x = vol[v]
  BY AllSame, Zenon DEF Typed
<1>2. CASE Reclaim(v, {"file"}) /\ UNCHANGED vol
  <2>1. Writes(v, l, {"file"})
    BY <1>2, Reclaimed, Zenon
  <2>2. Set(v, x)
    BY <1>1, <1>2, AllSame, Zenon DEF Set
  <2>3. FilesGone(v, l, x)
    BY <1>1, <2>1, <2>2, KeepsSelf, ZenonT(60) DEF Writes, FilesGone
  <2> QED
    BY <2>3, Zenon
<1>3. ASSUME NEW noted \in BOOLEAN, ReclaimFails(v, {"file"}, noted),
             Set(v, [vol[v] EXCEPT !.errors = @ \/ noted])
      PROVE  \E q \in Vols : FilesGone(v, l, q)
  <2>1. PICK c \in Contents, Z \in SUBSET Cached : Fails(v, {"file"}, c, Z, noted)
    BY <1>3, ReclaimFailed, Zenon
  <2>2. PICK b \in BOOLEAN : b = (x.errors \/ noted)
    BY Zenon
  <2>3. PICK q : q = [x EXCEPT !.errors = b]
    BY Zenon
  <2>4. q \in Vols /\ Keeps(x, q, {"errors"}) /\ q.errors = b /\ Set(v, q)
    BY <1>1, <1>3, <2>2, <2>3, PutErrors, ZenonT(60)
  <2>5. CASE noted
    <3>1. v \in mounted
      BY <2>1, Zenon DEF Is, Good, Pending, Fails, Parts
    <3>2. DiskKeeps(disk[v], c, {"parts", "needsCheck"})
      BY <2>1, <2>5, Zenon DEF Fails, DiskKeeps
    <3>3. q.errors
      BY <2>2, <2>4, <2>5, Zenon
    <3>4. Good(v, q, l, ret[v], Z, op[v], c, strays[v], mounted, rdonly)
      BY <1>1, <2>1, <2>4, <2>5, <3>1, <3>2, <3>3, GoodNoted, ZenonT(60) DEF
         Is, Fails
    <3> QED
      BY <1>1, <2>1, <2>4, <3>4, ZenonT(60) DEF FilesGone, Fails
  <2>6. CASE ~noted
    <3>1. x = q
      <4>1. x.errors \in BOOLEAN
        BY Zenon DEF Vols
      <4>2. b = x.errors
        BY <2>2, <2>6, <4>1, Zenon
      <4> QED
        BY <2>3, <4>2, Zenon DEF Vols
    <3>2. Good(v, q, l, ret[v], Z, op[v], c, strays[v], mounted, rdonly)
      BY <1>1, <2>1, <2>6, <3>1, GoodLost, ZenonT(60) DEF Is, Fails
    <3> QED
      BY <1>1, <2>1, <2>4, <3>2, Zenon DEF FilesGone, Fails
  <2> QED
    BY <2>5, <2>6, Zenon
<1> QED
  BY <1>2, <1>3, Zenon DEF ReclaimFiles

\* A metadata operation.
LEMMA ChangeInv ==
    ASSUME IInv, NEW v \in Volumes, ChangeMetadata(v) PROVE IInv'
<1>1. /\ pc[v] \in {"idle", "u_sync", "u_start"} /\ Is(v, pc[v])
      /\ v \in mounted /\ v \notin rdonly
      /\ UNCHANGED <<disk, vol, vfs>> /\ UNCHANGED pc /\ UNCHANGED ret
  BY Here, Zenon DEF ChangeMetadata, InUse
<1>2. PICK Z : Z = pend[v] \cup Parts /\ pend' = [pend EXCEPT ![v] = Z]
  BY Zenon DEF ChangeMetadata
<1>3. PICK m : m = op[v] + 1 /\ op' = [op EXCEPT ![v] = m]
  BY Zenon DEF ChangeMetadata
<1>4. op[v] \in Nat /\ pend[v] \in SUBSET Cached
  BY Here, Zenon DEF Typed
<1>5. m \in Nat
  BY <1>3, <1>4
<1>6. Z \in SUBSET Cached
  BY <1>2, <1>4, Zenon DEF Cached
<1>7. Good(v, vol[v], pc[v], ret[v], Z, m, disk[v], strays[v], mounted, rdonly)
  BY <1>1, <1>2, GoodChange, Zenon DEF Is
<1>8. To(v, vol[v], pc[v], ret[v], Z, m, disk[v], strays[v], mounted, rdonly)
  BY <1>1, <1>2, <1>3, Here, AllSame, ZenonT(60) DEF To, vfs
<1>9. Typed(vol[v], pc[v], ret[v], Z, m, disk[v], strays[v])
  BY <1>5, <1>6, Here, Zenon DEF Typed
<1> QED
  BY <1>7, <1>8, <1>9, StepInv, ZenonT(60)

\* The need for a check is noted.
LEMMA PutCheck ==
    ASSUME NEW d \in Contents, NEW b \in BOOLEAN, NEW c, c = [d EXCEPT !.needsCheck = b]
    PROVE  c \in Contents /\ DiskKeeps(d, c, {"needsCheck"}) /\ c.needsCheck = b
BY Zenon DEF Contents, DiskKeeps

\* NVolSetErrors().
LEMMA ErrorsInv ==
    ASSUME IInv, NEW v \in Volumes, NoteErrors(v) PROVE IInv'
<1>1. /\ pc[v] \in {"idle", "u_sync", "u_start"} /\ Is(v, pc[v])
      /\ v \in mounted /\ v \notin rdonly /\ vol[v] \in Vols
      /\ UNCHANGED <<cached, vfs>> /\ UNCHANGED pc /\ UNCHANGED ret
  BY Here, Zenon DEF NoteErrors, InUse, Typed
<1>2. PICK q : q = [vol[v] EXCEPT !.errors = TRUE] /\ Set(v, q)
  BY Zenon DEF NoteErrors
<1>3. q \in Vols /\ Keeps(vol[v], q, {"errors"}) /\ q.errors
  BY <1>1, <1>2, PutErrors, Zenon
<1>4. PICK d \in Contents : d = disk[v]
  BY Here, Zenon DEF Typed
<1>5. PICK c : c = [d EXCEPT !.needsCheck = TRUE]
  BY Zenon
<1>6. c \in Contents /\ DiskKeeps(d, c, {"needsCheck"}) /\ c.needsCheck = TRUE
  BY <1>5, PutCheck, Zenon
<1>7. disk' = [disk EXCEPT ![v] = c]
  BY <1>4, <1>5, Zenon DEF NoteErrors
<1>8. Good(v, q, pc[v], ret[v], pend[v], op[v], c, strays[v], mounted, rdonly)
  BY <1>1, <1>3, <1>4, <1>6, GoodErrors, ZenonT(60) DEF Is
<1>9. To(v, q, pc[v], ret[v], pend[v], op[v], c, strays[v], mounted, rdonly)
  BY <1>1, <1>2, <1>7, Here, AllSame, ZenonT(60) DEF To, Set, cached, vfs
<1>10. Typed(q, pc[v], ret[v], pend[v], op[v], c, strays[v])
  BY <1>3, <1>6, Here, ZenonT(60) DEF Typed
<1> QED
  BY <1>8, <1>9, <1>10, StepInv, ZenonT(60)

\* The parts X are written, and nothing else happens.
LEMMA WritesInv ==
    ASSUME IInv, NEW v \in Volumes, NEW X, Writes(v, pc[v], X), UNCHANGED op,
           UNCHANGED <<vol, vfs>>, UNCHANGED <<pc, ret>>
    PROVE  IInv'
<1>1. PICK c \in Contents, Z \in SUBSET Cached :
        /\ disk' = [disk EXCEPT ![v] = c] /\ pend' = [pend EXCEPT ![v] = Z]
        /\ Good(v, vol[v], pc[v], ret[v], Z, op[v], c, strays[v], mounted, rdonly)
  BY Zenon DEF Writes
<1>2. To(v, vol[v], pc[v], ret[v], Z, op[v], c, strays[v], mounted, rdonly)
  BY <1>1, Here, AllSame, Zenon DEF To, vfs
<1>3. Typed(vol[v], pc[v], ret[v], Z, op[v], c, strays[v])
  BY Here, Zenon DEF Typed
<1> QED
  BY <1>1, <1>2, <1>3, StepInv, ZenonT(60)

\* The caches write a part.
LEMMA FlushInv ==
    ASSUME IInv, NEW v \in Volumes, Flush(v) PROVE IInv'
<1>1. PICK X : X \subseteq pend[v] /\ Write(v, X)
  BY Zenon DEF Flush
<1>2. Writes(v, pc[v], X)
  BY <1>1, Here, Wrote, Zenon DEF Flush
<1> QED
  BY <1>2, WritesInv, Zenon DEF Flush

\* Files are reclaimed while the volume is in use.
LEMMA RecycleInv ==
    ASSUME IInv, NEW v \in Volumes, Recycle(v) PROVE IInv'
<1>1. /\ Types /\ pc[v] \in {"idle", "u_sync", "u_start"} /\ Is(v, pc[v])
      /\ UNCHANGED op /\ UNCHANGED vfs /\ UNCHANGED pc /\ UNCHANGED ret
  BY Here, Zenon DEF Recycle, InUse
<1>2. PICK q \in Vols : FilesGone(v, pc[v], q)
  BY <1>1, FilesReclaimed, Zenon DEF Recycle
<1>3. PICK c \in Contents, Z \in SUBSET Cached :
        /\ disk' = [disk EXCEPT ![v] = c] /\ pend' = [pend EXCEPT ![v] = Z]
        /\ Set(v, q)
        /\ Good(v, q, pc[v], ret[v], Z, op[v], c, strays[v], mounted, rdonly)
  BY <1>2, Zenon DEF FilesGone
<1>4. To(v, q, pc[v], ret[v], Z, op[v], c, strays[v], mounted, rdonly)
  BY <1>1, <1>3, AllSame, Zenon DEF To, Set, vfs
<1>5. Typed(q, pc[v], ret[v], Z, op[v], c, strays[v])
  BY Here, Zenon DEF Typed
<1> QED
  BY <1>3, <1>4, <1>5, StepInv, ZenonT(60)

\* A sync writes parts of what is pending, all of them if it succeeds.
LEMMA Synced ==
    ASSUME Types, NEW v \in Volumes, NEW l, Is(v, l), ~vol[v].ro
    PROVE  /\ SyncOK(v) => Writes(v, l, pend[v]) /\ UNCHANGED op
           /\ SyncFails(v) => (\E X : Writes(v, l, X)) /\ UNCHANGED op
<1>1. SyncOK(v) => Writes(v, l, pend[v])
  BY Wrote, Zenon DEF SyncOK
<1>2. ASSUME SyncFails(v) PROVE \E X : Writes(v, l, X)
  <2>1. PICK X \in SUBSET pend[v] : Write(v, X)
    BY <1>2, Zenon DEF SyncFails
  <2>2. X \subseteq pend[v]
    BY Zenon
  <2> QED
    BY <2>1, <2>2, Wrote, Zenon
<1> QED
  BY <1>1, <1>2, Zenon DEF SyncOK, SyncFails

\* ntfs_sync().
LEMMA SyncInv ==
    ASSUME IInv, NEW v \in Volumes, ntfs_sync(v) PROVE IInv'
<1>1. UNCHANGED op /\ \E X : Writes(v, pc[v], X)
  BY Here, Synced, Zenon DEF ntfs_sync
<1> QED
  BY <1>1, WritesInv, Zenon DEF ntfs_sync

\* chkdsk repairs the volume.
LEMMA PutRepaired ==
    ASSUME NEW d \in Contents, NEW y \in [Parts -> Nat], NEW c,
           c = [d EXCEPT !.dirty = FALSE, !.needsCheck = FALSE, !.lost = FALSE, !.parts = y]
    PROVE  /\ c \in Contents /\ DiskKeeps(d, c, {"dirty", "parts", "needsCheck", "lost"})
           /\ ~c.dirty /\ ~c.needsCheck /\ ~c.lost /\ c.parts = y
BY ZenonT(60) DEF Contents, DiskKeeps

\* chkdsk repairs the volume.
LEMMA ChkdskInv ==
    ASSUME IInv, NEW v \in Volumes, Chkdsk(v) PROVE IInv'
<1>1. /\ Is(v, pc[v]) /\ ~vol[v].live /\ op[v] \in Nat
      /\ UNCHANGED <<vol, cached, vfs>> /\ UNCHANGED pc /\ UNCHANGED ret
  BY Here, ZenonT(60) DEF Chkdsk, Typed
<1>2. PICK d \in Contents : d = disk[v]
  BY Here, Zenon DEF Typed
<1>3. PICK y \in [Parts -> Nat] : y = [p \in Parts |-> op[v]]
  BY <1>1, Zenon
<1>4. PICK c : c = [d EXCEPT !.dirty = FALSE, !.needsCheck = FALSE, !.lost = FALSE, !.parts = y]
  BY Zenon
<1>5. /\ c \in Contents /\ DiskKeeps(d, c, {"dirty", "parts", "needsCheck", "lost"})
      /\ ~c.dirty /\ ~c.needsCheck /\ ~c.lost /\ c.parts = y
  BY <1>4, PutRepaired, ZenonT(60)
<1>6. \A p \in Parts : c.parts[p] = op[v]
  BY <1>3, <1>5, Zenon
<1>7. disk' = [disk EXCEPT ![v] = c]
  <2>1. disk \in [Volumes -> Contents]
    BY Here, Zenon DEF Types
  <2> QED
    BY <1>2, <1>3, <1>4, <2>1, Zenon DEF Chkdsk
<1>8. Good(v, vol[v], pc[v], ret[v], pend[v], op[v], c, strays[v], mounted, rdonly)
  BY <1>1, <1>2, <1>5, <1>6, GoodChkdsk, Zenon DEF Is
<1>9. To(v, vol[v], pc[v], ret[v], pend[v], op[v], c, strays[v], mounted, rdonly)
  BY <1>1, <1>7, Here, AllSame, ZenonT(60) DEF To, cached, vfs
<1>10. Typed(vol[v], pc[v], ret[v], pend[v], op[v], c, strays[v])
  BY <1>5, Here, Zenon DEF Typed
<1> QED
  BY <1>8, <1>9, <1>10, StepInv, ZenonT(60)

-----------------------------------------------------------------------------
(***************************************************************************)
(* The steps of a remount.                                                 *)
(***************************************************************************)

\* An update mount begins.
LEMMA RemountInv ==
    ASSUME IInv, NEW v \in Volumes, Remount(v) PROVE IInv'
<1>1. /\ Is(v, "idle") /\ v \in mounted
      /\ UNCHANGED <<load, disk, vol, cached, mounted, strays>>
  BY Here, Zenon DEF Remount, At
<1>2. ASSUME NEW e \in {"ok", "err"}, Idle(v, e), UNCHANGED rdonly PROVE IInv'
  <2>1. Good(v, vol[v], "idle", e, pend[v], op[v], disk[v], strays[v], mounted, rdonly)
    BY <1>1, GoodResult, Zenon DEF Is
  <2>2. To(v, vol[v], "idle", e, pend[v], op[v], disk[v], strays[v], mounted, rdonly)
    BY <1>1, <1>2, Here, AllSame, ZenonT(60) DEF To, Idle, cached
  <2>3. Typed(vol[v], "idle", e, pend[v], op[v], disk[v], strays[v])
    BY Here, PlaceNames, Zenon DEF Typed
  <2> QED
    BY <2>1, <2>2, <2>3, StepInv, ZenonT(60)
<1>3. CASE ~vol[v].ro /\ rdonly' = rdonly \cup {v} /\ Goto(v, "r_sync")
  <2>1. PICK N : N = rdonly \cup {v} /\ rdonly' = N
    BY <1>3, Zenon
  <2>2. v \in N /\ N \ {v} = rdonly \ {v}
    BY <2>1, Zenon
  <2>3. Good(v, vol[v], "r_sync", ret[v], pend[v], op[v], disk[v], strays[v], mounted, N)
    BY <1>1, <1>3, <2>2, GoodRemount, ZenonT(60) DEF Is
  <2>4. To(v, vol[v], "r_sync", ret[v], pend[v], op[v], disk[v], strays[v], mounted, N)
    BY <1>1, <1>3, <2>1, <2>2, Here, AllSame, ZenonT(60) DEF To, Goto, cached
  <2>5. Typed(vol[v], "r_sync", ret[v], pend[v], op[v], disk[v], strays[v])
    BY Here, PlaceNames, ZenonT(60) DEF Typed
  <2> QED
    BY <2>3, <2>4, <2>5, StepInv, ZenonT(60)
<1>4. \/ Idle(v, "err") /\ UNCHANGED rdonly
      \/ ~vol[v].ro /\ rdonly' = rdonly \cup {v} /\ Goto(v, "r_sync")
      \/ Idle(v, "ok") /\ UNCHANGED rdonly
  BY ZenonT(60) DEF Remount
<1> QED
  BY <1>2, <1>3, <1>4, ZenonT(60)

\* The volume is read-write and its mount is not.
LEMMA AtRemount ==
    ASSUME NEW v, NEW l \in Remounting, Is(v, l)
    PROVE  ~vol[v].ro /\ v \in rdonly /\ v \in mounted /\ vol[v].volni
BY Zenon DEF Is, Good, Pending, Loaded, Remounting

\* It syncs the volume.
LEMMA RemountSyncInv ==
    ASSUME IInv, NEW v \in Volumes, RemountSync(v) PROVE IInv'
<1>1. Types /\ Is(v, "r_sync") /\ UNCHANGED <<load, vol, mounted, strays>>
  BY Here, Zenon DEF RemountSync, At
<1>2. ~vol[v].ro
  BY <1>1, AtRemount, Zenon DEF Remounting
<1>3. CASE SyncOK(v) /\ Goto(v, "r_clear") /\ UNCHANGED rdonly
  <2>1. Writes(v, "r_sync", pend[v]) /\ UNCHANGED op
    BY <1>1, <1>2, <1>3, Synced, ZenonT(60)
  <2>2. PICK c \in Contents, Z \in SUBSET Cached :
          /\ disk' = [disk EXCEPT ![v] = c] /\ pend' = [pend EXCEPT ![v] = Z]
          /\ Z = pend[v] \ pend[v]
          /\ Good(v, vol[v], "r_sync", ret[v], Z, op[v], c, strays[v], mounted, rdonly)
    BY <2>1, Zenon DEF Writes
  <2>3. Z = {}
    BY <2>2, Zenon
  <2>4. Good(v, vol[v], "r_clear", ret[v], {}, op[v], c, strays[v], mounted, rdonly)
    BY <2>2, <2>3, GoodSynced, ZenonT(60)
  <2>5. To(v, vol[v], "r_clear", ret[v], {}, op[v], c, strays[v], mounted, rdonly)
    BY <1>1, <1>3, <2>1, <2>2, <2>3, AllSame, ZenonT(60) DEF To, Goto
  <2>6. Typed(vol[v], "r_clear", ret[v], {}, op[v], c, strays[v])
    BY <2>3, Here, PlaceNames, ZenonT(60) DEF Typed
  <2> QED
    BY <2>4, <2>5, <2>6, StepInv, ZenonT(60)
<1>4. CASE SyncFails(v) /\ RemountFails(v)
  <2>1. UNCHANGED op /\ \E X : Writes(v, "r_sync", X)
    BY <1>1, <1>2, <1>4, Synced, ZenonT(60)
  <2>2. PICK c \in Contents, Z \in SUBSET Cached :
          /\ disk' = [disk EXCEPT ![v] = c] /\ pend' = [pend EXCEPT ![v] = Z]
          /\ Good(v, vol[v], "r_sync", ret[v], Z, op[v], c, strays[v], mounted, rdonly)
    BY <2>1, Zenon DEF Writes
  <2>3. PICK N : rdonly' = N /\ N \ {v} = rdonly \ {v}
    BY <1>4, Zenon DEF RemountFails
  <2>4. Good(v, vol[v], "idle", "err", Z, op[v], c, strays[v], mounted, N)
    BY <2>2, GoodRemountFails, Zenon
  <2>5. To(v, vol[v], "idle", "err", Z, op[v], c, strays[v], mounted, N)
    BY <1>1, <1>4, <2>1, <2>2, <2>3, AllSame, ZenonT(60) DEF To, RemountFails,
       Idle
  <2>6. Typed(vol[v], "idle", "err", Z, op[v], c, strays[v])
    BY Here, PlaceNames, Zenon DEF Typed
  <2> QED
    BY <2>4, <2>5, <2>6, StepInv, ZenonT(60)
<1> QED
  BY <1>3, <1>4, Zenon DEF RemountSync

\* The remount succeeds.
LEMMA ReadOnlyInv ==
    ASSUME IInv, NEW v \in Volumes, NEW l \in {"r_clear", "r_flush"}, NEW c \in Contents,
           RemountReadOnly(v), disk' = [disk EXCEPT ![v] = c],
           pend' = [pend EXCEPT ![v] = {}], UNCHANGED op,
           UNCHANGED <<load, mounted, strays>>,
           Good(v, vol[v], l, ret[v], {}, op[v], c, strays[v], mounted, rdonly)
    PROVE  IInv'
<1>1. PICK q : q = [vol[v] EXCEPT !.ro = TRUE] /\ Set(v, q)
  BY Zenon DEF RemountReadOnly
<1>2. vol[v] \in Vols
  BY Here, Zenon DEF Typed
<1>3. q \in Vols /\ Keeps(vol[v], q, {"ro"}) /\ q.ro
  BY <1>1, <1>2, PutReadOnly, ZenonT(60)
<1>4. Good(v, q, "idle", "ok", {}, op[v], c, strays[v], mounted, rdonly)
  BY <1>3, GoodReadOnly, Zenon
<1>5. To(v, q, "idle", "ok", {}, op[v], c, strays[v], mounted, rdonly)
  BY <1>1, Here, AllSame, ZenonT(60) DEF To, Set, RemountReadOnly, Idle
<1>6. Typed(q, "idle", "ok", {}, op[v], c, strays[v])
  BY <1>3, Here, PlaceNames, Zenon DEF Typed
<1> QED
  BY <1>4, <1>5, <1>6, StepInv, ZenonT(60)

\* It marks the volume clean.
LEMMA RemountClearInv ==
    ASSUME IInv, NEW v \in Volumes, RemountClear(v) PROVE IInv'
<1>1. /\ Types /\ Is(v, "r_clear") /\ vol[v] \in Vols
      /\ UNCHANGED disk /\ UNCHANGED <<load, mounted, strays>>
  BY Here, Zenon DEF RemountClear, At, Typed
<1>2. ~vol[v].ro /\ vol[v].volni
  BY <1>1, AtRemount, Zenon DEF Remounting
<1>3. CASE RemountReadOnly(v) /\ UNCHANGED cached
  <2>1. pend[v] = {}
    BY <1>1, ZenonT(60) DEF Is, Good, Pending
  <2>2. /\ disk' = [disk EXCEPT ![v] = disk[v]] /\ pend' = [pend EXCEPT ![v] = {}]
        /\ UNCHANGED op /\ disk[v] \in Contents
    BY <1>1, <1>3, <2>1, AllSame, ZenonT(60) DEF cached, Typed
  <2>3. Good(v, vol[v], "r_clear", ret[v], {}, op[v], disk[v], strays[v], mounted, rdonly)
    BY <1>1, <2>1, ZenonT(60) DEF Is
  <2> QED
    BY <1>1, <1>3, <2>2, <2>3, ReadOnlyInv, ZenonT(60)
<1>4. CASE /\ ~vol[v].errors /\ Goto(v, "r_flush") /\ UNCHANGED rdonly
           /\ ntfs_volume_flags_write(v, FALSE)
  <2>1. PICK q \in Vols, Q \in SUBSET Cached : Flagged(v, q, FALSE, Q)
    BY <1>1, <1>4, FlagsWritten, Zenon
  <2>2. vol[v].dirty \in BOOLEAN
    BY <1>1, Zenon DEF Vols
  <2>3. Good(v, q, "r_flush", ret[v], Q, op[v], disk[v], strays[v], mounted, rdonly)
    BY <1>1, <1>2, <1>4, <2>1, <2>2, GoodCleared, ZenonT(60) DEF Is, Flagged
  <2>4. To(v, q, "r_flush", ret[v], Q, op[v], disk[v], strays[v], mounted, rdonly)
    BY <1>1, <1>4, <2>1, AllSame, ZenonT(60) DEF To, Goto, Set, Flagged
  <2>5. Typed(q, "r_flush", ret[v], Q, op[v], disk[v], strays[v])
    BY Here, PlaceNames, Zenon DEF Typed
  <2> QED
    BY <2>3, <2>4, <2>5, StepInv, ZenonT(60)
<1>5. CASE /\ Goto(v, "r_flush") /\ UNCHANGED rdonly
           /\ UNCHANGED <<vol, cached>>
  <2>1. Good(v, vol[v], "r_flush", ret[v], pend[v], op[v], disk[v], strays[v], mounted, rdonly)
    BY <1>1, GoodMarked, ZenonT(60) DEF Is
  <2>2. UNCHANGED <<disk, cached, vfs>>
    BY <1>1, <1>5, Zenon DEF vfs
  <2> QED
    BY <1>1, <1>5, <2>1, <2>2, PlaceNames, GotoInv, ZenonT(60)
<1> QED
  BY <1>3, <1>4, <1>5, ZenonT(60) DEF RemountClear

\* It writes the mark.
LEMMA RemountFlushInv ==
    ASSUME IInv, NEW v \in Volumes, RemountFlush(v) PROVE IInv'
<1>1. Types /\ Is(v, "r_flush") /\ vol[v] \in Vols /\ UNCHANGED <<load, mounted, strays>>
  BY Here, Zenon DEF RemountFlush, At, Typed
<1>2. ~vol[v].ro /\ vol[v].volni
  BY <1>1, AtRemount, Zenon DEF Remounting
<1>3. CASE SyncOK(v) /\ RemountReadOnly(v)
  <2>1. Writes(v, "r_flush", pend[v]) /\ UNCHANGED op
    BY <1>1, <1>2, <1>3, Synced, ZenonT(60)
  <2>2. PICK c \in Contents, Z \in SUBSET Cached :
          /\ disk' = [disk EXCEPT ![v] = c] /\ pend' = [pend EXCEPT ![v] = Z]
          /\ Z = pend[v] \ pend[v]
          /\ Good(v, vol[v], "r_flush", ret[v], Z, op[v], c, strays[v], mounted, rdonly)
    BY <2>1, Zenon DEF Writes
  <2>3. Z = {}
    BY <2>2, Zenon
  <2> QED
    BY <1>1, <1>3, <2>1, <2>2, <2>3, ReadOnlyInv, ZenonT(60)
<1>4. ASSUME RemountFails(v), Set(v, [vol[v] EXCEPT !.dirty = TRUE]), UNCHANGED op,
             NEW X \in SUBSET pend[v], disk' = [disk EXCEPT ![v] = OnDisk(v, X)],
             pend' = [pend EXCEPT ![v] =
                        (@ \ X) \cup (IF vol[v].dirty THEN {} ELSE {"flags"})]
      PROVE  IInv'
  <2>1. PICK c \in Contents : c = OnDisk(v, X) /\ Written(vol[v], op[v], disk[v], c, X)
    BY <1>1, OnDiskIs, Zenon
  <2>2. PICK Y : Y = pend[v] \ X
    BY Zenon
  <2>3. Y \subseteq pend[v] /\ X = pend[v] \ Y /\ Y \in SUBSET Cached
    BY <1>1, <2>2, AllSame, ZenonT(60) DEF Typed
  <2>4. Written(vol[v], op[v], disk[v], c, pend[v] \ Y)
    BY <2>1, <2>3, Zenon
  <2>5. Good(v, vol[v], "r_flush", ret[v], Y, op[v], c, strays[v], mounted, rdonly)
    BY <1>1, <1>2, <2>3, <2>4, GoodWrite, ZenonT(60) DEF Is
  <2>6. PICK Z : Z = Y \cup (IF vol[v].dirty THEN {} ELSE {"flags"})
    BY Zenon
  <2>7. /\ Z \in SUBSET Cached
        /\ vol[v].dirty => Z = Y
        /\ ~vol[v].dirty => Z = Y \cup {"flags"}
    BY <2>3, <2>6, Zenon DEF Cached
  <2>8. pend' = [pend EXCEPT ![v] = Z] /\ disk' = [disk EXCEPT ![v] = c]
    BY <1>4, <2>1, <2>2, <2>6, ZenonT(60)
  <2>9. PICK N : rdonly' = N /\ N \ {v} = rdonly \ {v}
    BY <1>4, Zenon DEF RemountFails
  <2>10. PICK q : q = [vol[v] EXCEPT !.dirty = TRUE] /\ Set(v, q)
    BY <1>4, Zenon
  <2>11. q \in Vols /\ Keeps(vol[v], q, {"dirty"}) /\ q.dirty
    BY <1>1, <2>10, PutDirty, ZenonT(60)
  <2>12. Good(v, q, "idle", "err", Z, op[v], c, strays[v], mounted, N)
    BY <2>5, <2>7, <2>11, GoodFlushFails, ZenonT(60)
  <2>13. To(v, q, "idle", "err", Z, op[v], c, strays[v], mounted, N)
    BY <1>1, <1>4, <2>8, <2>9, <2>10, AllSame, ZenonT(60) DEF To, Set,
       RemountFails, Idle
  <2>14. Typed(q, "idle", "err", Z, op[v], c, strays[v])
    BY <2>7, <2>11, Here, PlaceNames, ZenonT(60) DEF Typed
  <2> QED
    BY <2>12, <2>13, <2>14, StepInv, ZenonT(60)
<1>5. ASSUME RemountFails(v), UNCHANGED vol, UNCHANGED op, NEW X \in SUBSET pend[v],
             disk' = [disk EXCEPT ![v] = [OnDisk(v, X) EXCEPT !.lost = TRUE]],
             pend' = [pend EXCEPT ![v] = @ \ X]
      PROVE  IInv'
  <2>1. PICK w \in Contents : w = OnDisk(v, X) /\ Written(vol[v], op[v], disk[v], w, X)
    BY <1>1, OnDiskIs, Zenon
  <2>2. PICK Z : Z = pend[v] \ X
    BY Zenon
  <2>3. Z \subseteq pend[v] /\ X = pend[v] \ Z /\ Z \in SUBSET Cached
    BY <1>1, <2>2, AllSame, Zenon DEF Typed
  <2>4. Written(vol[v], op[v], disk[v], w, pend[v] \ Z)
    BY <2>1, <2>3, Zenon
  <2>5. Good(v, vol[v], "r_flush", ret[v], Z, op[v], w, strays[v], mounted, rdonly)
    BY <1>1, <1>2, <2>3, <2>4, GoodWrite, Zenon DEF Is
  <2>6. PICK c : c = [w EXCEPT !.needsCheck = w.needsCheck, !.lost = TRUE]
    BY Zenon
  <2>7. c \in Contents /\ DiskKeeps(w, c, {"needsCheck", "lost"}) /\ c.lost
    <3>1. w.needsCheck \in BOOLEAN /\ TRUE \in BOOLEAN
      BY Zenon DEF Contents
    <3> QED
      BY <2>6, <3>1, PutLost, ZenonT(60)
  <2>8. c = [w EXCEPT !.lost = TRUE]
    BY <2>6, Zenon DEF Contents
  <2>9. disk' = [disk EXCEPT ![v] = c] /\ pend' = [pend EXCEPT ![v] = Z]
    BY <1>5, <2>1, <2>2, <2>8, ZenonT(60)
  <2>10. PICK N : rdonly' = N /\ N \ {v} = rdonly \ {v}
    BY <1>5, Zenon DEF RemountFails
  <2>11. Good(v, vol[v], "idle", "err", Z, op[v], c, strays[v], mounted, N)
    BY <2>5, <2>7, GoodUnanswered, ZenonT(60)
  <2>12. To(v, vol[v], "idle", "err", Z, op[v], c, strays[v], mounted, N)
    BY <1>1, <1>5, <2>9, <2>10, AllSame, ZenonT(60) DEF To, RemountFails, Idle
  <2>13. Typed(vol[v], "idle", "err", Z, op[v], c, strays[v])
    BY <2>3, <2>7, Here, PlaceNames, ZenonT(60) DEF Typed
  <2> QED
    BY <2>11, <2>12, <2>13, StepInv, ZenonT(60)
<1> QED
  BY <1>3, <1>4, <1>5, ZenonT(60) DEF RemountFlush

-----------------------------------------------------------------------------
(***************************************************************************)
(* The steps of an unmount.                                                *)
(***************************************************************************)

\* An unmount begins.
LEMMA UnmountInv ==
    ASSUME IInv, NEW v \in Volumes, Unmount(v) PROVE IInv'
<1>1. Is(v, "idle") /\ v \in mounted /\ vol[v] \in Vols /\ UNCHANGED vol
  BY Here, Zenon DEF Unmount, At, Typed
<1>2. UNCHANGED <<disk, cached, vfs>>
  BY Zenon DEF Unmount
<1>3. PICK m \in {"u_start", "u_sync"} :
        /\ pc' = [pc EXCEPT ![v] = m] /\ ret' = [ret EXCEPT ![v] = "ok"]
        /\ m = "u_sync" => v \notin rdonly
  BY Zenon DEF Unmount
<1>4. Good(v, vol[v], m, "ok", pend[v], op[v], disk[v], strays[v], mounted, rdonly)
  BY <1>1, <1>3, GoodUnmount, ZenonT(60) DEF Is
<1>5. m \in Places /\ "ok" \in {"ok", "err"}
  BY PlaceNames, Zenon
<1> QED
  BY <1>1, <1>2, <1>3, <1>4, <1>5, MovesInv, ZenonT(60)

\* It syncs the volume.
LEMMA UnmountSyncInv ==
    ASSUME IInv, NEW v \in Volumes, UnmountSync(v) PROVE IInv'
<1>1. Types /\ Is(v, "u_sync") /\ UNCHANGED <<vol, vfs>>
  BY Here, ZenonT(60) DEF UnmountSync, At
<1>a. ~vol[v].ro
  BY <1>1, ZenonT(60) DEF Is, Good, Pending
<1>2. ASSUME NEW X, NEW l \in {"u_start", "idle"}, NEW e \in {"ok", "err"},
             Writes(v, "u_sync", X), UNCHANGED op,
             l = "u_start" => e = ret[v],
             pc' = [pc EXCEPT ![v] = l], ret' = [ret EXCEPT ![v] = e]
      PROVE  IInv'
  <2>1. PICK c \in Contents, Z \in SUBSET Cached :
          /\ disk' = [disk EXCEPT ![v] = c] /\ pend' = [pend EXCEPT ![v] = Z]
          /\ Good(v, vol[v], "u_sync", ret[v], Z, op[v], c, strays[v], mounted, rdonly)
    BY <1>2, Zenon DEF Writes
  <2>2. Good(v, vol[v], l, e, Z, op[v], c, strays[v], mounted, rdonly)
    BY <1>2, <2>1, GoodUnmountSynced, GoodBack, ZenonT(60)
  <2>3. To(v, vol[v], l, e, Z, op[v], c, strays[v], mounted, rdonly)
    BY <1>1, <1>2, <2>1, AllSame, ZenonT(60) DEF To, vfs
  <2>4. Typed(vol[v], l, e, Z, op[v], c, strays[v])
    BY <1>2, Here, PlaceNames, ZenonT(60) DEF Typed
  <2> QED
    BY <2>2, <2>3, <2>4, StepInv, ZenonT(60)
<1>3. CASE SyncOK(v) /\ Goto(v, "u_start")
  <2>1. UNCHANGED op /\ \E X : Writes(v, "u_sync", X)
    BY <1>1, <1>a, <1>3, Synced, ZenonT(60)
  <2>2. /\ ret' = [ret EXCEPT ![v] = ret[v]] /\ ret[v] \in {"ok", "err"}
        /\ pc' = [pc EXCEPT ![v] = "u_start"]
    BY <1>1, <1>3, AllSame, ZenonT(60) DEF Goto, Typed
  <2> QED
    BY <1>2, <2>1, <2>2, ZenonT(60)
<1>4. CASE SyncFails(v) /\ Idle(v, "err")
  <2>1. UNCHANGED op /\ \E X : Writes(v, "u_sync", X)
    BY <1>1, <1>a, <1>4, Synced, ZenonT(60)
  <2>2. ret' = [ret EXCEPT ![v] = "err"] /\ pc' = [pc EXCEPT ![v] = "idle"]
    BY <1>4, Zenon DEF Idle
  <2> QED
    BY <1>2, <2>1, <2>2, ZenonT(60)
<1> QED
  BY <1>3, <1>4, Zenon DEF UnmountSync

\* A volume that is not allocated.
LEMMA NoVolTyped == NoVol \in Vols
BY PutNew, Zenon

\* A mount that failed before $MFT was there is cleaned up.
LEMMA UnmountNoMftInv ==
    ASSUME IInv, NEW v \in Volumes, UnmountNoMft(v) PROVE IInv'
<1>1. /\ Types /\ Is(v, "u_start") /\ ~vol[v].mft /\ Set(v, NoVol)
      /\ UNCHANGED <<disk, cached, strays>>
  BY Here, Zenon DEF UnmountNoMft, At
<1>2. PICK N : N = mounted \ {v} /\ mounted' = N
  BY Zenon DEF UnmountNoMft, Unmounted
<1>3. N \ {v} = mounted \ {v}
  BY <1>2, Zenon
<1>4. Good(v, NoVol, "idle", ret[v], pend[v], op[v], disk[v], strays[v], N, rdonly)
  BY <1>1, <1>2, GoodNoMft, ZenonT(60) DEF Is
<1>5. To(v, NoVol, "idle", ret[v], pend[v], op[v], disk[v], strays[v], N, rdonly)
  BY <1>1, <1>2, <1>3, AllSame, ZenonT(60) DEF To, Set, cached, UnmountNoMft,
     Unmounted
<1>6. Typed(NoVol, "idle", ret[v], pend[v], op[v], disk[v], strays[v])
  BY Here, PlaceNames, NoVolTyped, ZenonT(60) DEF Typed
<1> QED
  BY <1>4, <1>5, <1>6, StepInv, ZenonT(60)

\* Files are in use.
LEMMA UnmountBusyInv ==
    ASSUME IInv, NEW v \in Volumes, UnmountBusy(v) PROVE IInv'
<1>1. /\ Is(v, "u_start") /\ vol[v] \in Vols /\ UNCHANGED vol
      /\ UNCHANGED <<disk, cached, vfs>>
  BY Here, Zenon DEF UnmountBusy, At, Typed
<1>2. Good(v, vol[v], "idle", "err", pend[v], op[v], disk[v], strays[v], mounted, rdonly)
  BY <1>1, GoodBack, Zenon DEF Is
<1>3. pc' = [pc EXCEPT ![v] = "idle"] /\ ret' = [ret EXCEPT ![v] = "err"]
  BY Zenon DEF UnmountBusy, Idle
<1>4. "idle" \in Places /\ "err" \in {"ok", "err"}
  BY PlaceNames, Zenon
<1> QED
  BY <1>1, <1>2, <1>3, <1>4, MovesInv, ZenonT(60)

\* The files are closed.
LEMMA UnmountFlushInv ==
    ASSUME IInv, NEW v \in Volumes, UnmountFlush(v) PROVE IInv'
<1>1. Types /\ Is(v, "u_start") /\ vol[v].root /\ UNCHANGED op /\ UNCHANGED vfs
  BY Here, Zenon DEF UnmountFlush, At
<1>2. PICK q \in Vols : FilesGone(v, "u_start", q)
  BY <1>1, FilesReclaimed, Zenon DEF UnmountFlush
<1>3. PICK c \in Contents, Z \in SUBSET Cached :
        /\ disk' = [disk EXCEPT ![v] = c] /\ pend' = [pend EXCEPT ![v] = Z]
        /\ Set(v, q) /\ Keeps(vol[v], q, {"errors"})
        /\ Good(v, q, "u_start", ret[v], Z, op[v], c, strays[v], mounted, rdonly)
  BY <1>2, Zenon DEF FilesGone
<1>4. q.root
  BY <1>1, <1>3, ZenonT(60) DEF Keeps
<1>5. Good(v, q, "u_clear", ret[v], Z, op[v], c, strays[v], mounted, rdonly)
  BY <1>3, <1>4, GoodFlushed, ZenonT(60)
<1>6. To(v, q, "u_clear", ret[v], Z, op[v], c, strays[v], mounted, rdonly)
  BY <1>1, <1>3, AllSame, ZenonT(60) DEF To, Goto, Set, vfs, UnmountFlush
<1>7. Typed(q, "u_clear", ret[v], Z, op[v], c, strays[v])
  BY Here, PlaceNames, Zenon DEF Typed
<1> QED
  BY <1>5, <1>6, <1>7, StepInv, ZenonT(60)

\* The volume is marked clean, unless it has errors.
LEMMA UnmountClearInv ==
    ASSUME IInv, NEW v \in Volumes, UnmountClear(v) PROVE IInv'
<1>1. /\ Types /\ Is(v, "u_clear") /\ vol[v] \in Vols /\ Goto(v, "u_volume")
      /\ UNCHANGED <<disk, vfs>>
  BY Here, Zenon DEF UnmountClear, At, Typed
<1>2. CASE MayMarkClean(v) /\ ntfs_volume_flags_write(v, FALSE)
  <2>1. PICK q \in Vols, Q \in SUBSET Cached : Flagged(v, q, FALSE, Q)
    BY <1>1, <1>2, FlagsWritten, ZenonT(60)
  <2>2. vol[v].dirty \in BOOLEAN
    BY <1>1, Zenon DEF Vols
  <2>3. Good(v, q, "u_volume", ret[v], Q, op[v], disk[v], strays[v], mounted, rdonly)
    BY <1>1, <1>2, <2>1, <2>2, GoodClean, ZenonT(60) DEF Is, Flagged,
       MayMarkClean
  <2>4. To(v, q, "u_volume", ret[v], Q, op[v], disk[v], strays[v], mounted, rdonly)
    BY <1>1, <2>1, AllSame, ZenonT(60) DEF To, Goto, Set, vfs, Flagged
  <2>5. Typed(q, "u_volume", ret[v], Q, op[v], disk[v], strays[v])
    BY Here, PlaceNames, Zenon DEF Typed
  <2> QED
    BY <2>3, <2>4, <2>5, StepInv, ZenonT(60)
<1>3. CASE UNCHANGED <<vol, cached>>
  <2>1. Good(v, vol[v], "u_volume", ret[v], pend[v], op[v], disk[v], strays[v], mounted, rdonly)
    BY <1>1, GoodUnmarked, Zenon DEF Is
  <2> QED
    BY <1>1, <1>3, <2>1, PlaceNames, GotoInv, ZenonT(60)
<1> QED
  BY <1>2, <1>3, Zenon DEF UnmountClear

\* $Volume goes.
LEMMA UnmountVolumeInv ==
    ASSUME IInv, NEW v \in Volumes, UnmountVolume(v) PROVE IInv'
<1>1. Types /\ Is(v, "u_volume") /\ vol[v] \in Vols /\ UNCHANGED op /\ UNCHANGED vfs
  BY Here, Zenon DEF UnmountVolume, At, Typed
<1>2. Writes(v, "u_volume", {"stamp", "flags"})
  BY <1>1, ReclaimedLate, Zenon DEF UnmountVolume
<1>3. PICK c \in Contents, Z \in SUBSET Cached :
        /\ disk' = [disk EXCEPT ![v] = c] /\ pend' = [pend EXCEPT ![v] = Z]
        /\ Z = pend[v] \ {"stamp", "flags"}
        /\ Good(v, vol[v], "u_volume", ret[v], Z, op[v], c, strays[v], mounted, rdonly)
  BY <1>2, Zenon DEF Writes
<1>4. "flags" \notin Z
  BY <1>3, Zenon
<1>5. PICK q : q = [vol[v] EXCEPT !.volni = FALSE] /\ Set(v, q)
  BY Zenon DEF UnmountVolume
<1>6. q \in Vols /\ Keeps(vol[v], q, {"volni"}) /\ q.volni = FALSE
  BY <1>1, <1>5, PutVolni, ZenonT(60)
<1>7. Good(v, q, "u_rest", ret[v], Z, op[v], c, strays[v], mounted, rdonly)
  BY <1>3, <1>4, <1>6, GoodDetach, ZenonT(60)
<1>8. To(v, q, "u_rest", ret[v], Z, op[v], c, strays[v], mounted, rdonly)
  BY <1>1, <1>3, <1>5, AllSame, ZenonT(60) DEF To, Goto, Set, vfs,
     UnmountVolume
<1>9. Typed(q, "u_rest", ret[v], Z, op[v], c, strays[v])
  BY <1>6, Here, PlaceNames, Zenon DEF Typed
<1> QED
  BY <1>7, <1>8, <1>9, StepInv, ZenonT(60)

\* The other system inodes go.
LEMMA UnmountRestInv ==
    ASSUME IInv, NEW v \in Volumes, UnmountRest(v) PROVE IInv'
<1>1. Types /\ Is(v, "u_rest") /\ vol[v] \in Vols /\ UNCHANGED op /\ UNCHANGED vfs
  BY Here, Zenon DEF UnmountRest, At, Typed
<1>2. Writes(v, "u_rest", Cached)
  BY <1>1, ReclaimedLate, Zenon DEF UnmountRest
<1>3. PICK c \in Contents, Z \in SUBSET Cached :
        /\ disk' = [disk EXCEPT ![v] = c] /\ pend' = [pend EXCEPT ![v] = Z]
        /\ Z = pend[v] \ Cached
        /\ Good(v, vol[v], "u_rest", ret[v], Z, op[v], c, strays[v], mounted, rdonly)
  BY <1>2, Zenon DEF Writes
<1>4. Z = {}
  BY <1>3, Zenon
<1>5. PICK q : q = [vol[v] EXCEPT !.root = FALSE] /\ Set(v, q)
  BY Zenon DEF UnmountRest
<1>6. q \in Vols /\ Keeps(vol[v], q, {"root"}) /\ q.root = FALSE
  BY <1>1, <1>5, PutRoot, ZenonT(60)
<1>7. Good(v, q, "u_mft", ret[v], {}, op[v], c, strays[v], mounted, rdonly)
  BY <1>3, <1>4, <1>6, GoodRest, ZenonT(60)
<1>8. To(v, q, "u_mft", ret[v], {}, op[v], c, strays[v], mounted, rdonly)
  BY <1>1, <1>3, <1>4, <1>5, AllSame, ZenonT(60) DEF To, Goto, Set, vfs,
     UnmountRest
<1>9. Typed(q, "u_mft", ret[v], {}, op[v], c, strays[v])
  BY <1>6, Here, PlaceNames, Zenon DEF Typed
<1> QED
  BY <1>7, <1>8, <1>9, StepInv, ZenonT(60)

\* $MFT goes.
LEMMA UnmountMftInv ==
    ASSUME IInv, NEW v \in Volumes, UnmountMft(v) PROVE IInv'
<1>1. /\ Types /\ Is(v, pc[v]) /\ vol[v] \in Vols
      /\ pc[v] = "u_mft" \/ (pc[v] = "u_start" /\ vol[v].mft /\ ~vol[v].root)
      /\ UNCHANGED <<load, disk, cached, mounted, rdonly>> /\ Goto(v, "u_final")
  BY Here, Zenon DEF UnmountMft, At, Typed
<1>2. PICK n \in load.strays : strays' = [strays EXCEPT ![v] = n]
  BY Zenon DEF UnmountMft
<1>3. n \in Nat
  BY <1>1, WorkloadAssumption, Zenon DEF Types
<1>4. PICK q : q = [vol[v] EXCEPT !.mft = FALSE] /\ Set(v, q)
  BY Zenon DEF UnmountMft
<1>5. q \in Vols /\ Keeps(vol[v], q, {"mft"}) /\ q.mft = FALSE
  BY <1>1, <1>4, PutMft, Zenon
<1>6. Good(v, q, "u_final", ret[v], pend[v], op[v], disk[v], n, mounted, rdonly)
  <2>1. PICK l : l = pc[v]
    BY Zenon
  <2>2. /\ Good(v, vol[v], l, ret[v], pend[v], op[v], disk[v], strays[v], mounted, rdonly)
        /\ l = "u_mft" \/ (l = "u_start" /\ vol[v].mft /\ ~vol[v].root)
    BY <1>1, <2>1, ZenonT(60) DEF Is
  <2> QED
    BY <1>5, <2>2, GoodMftGone, Zenon
<1>7. To(v, q, "u_final", ret[v], pend[v], op[v], disk[v], n, mounted, rdonly)
  BY <1>1, <1>2, <1>4, AllSame, ZenonT(60) DEF To, Goto, Set, cached
<1>8. Typed(q, "u_final", ret[v], pend[v], op[v], disk[v], n)
  BY <1>3, <1>5, Here, PlaceNames, ZenonT(60) DEF Typed
<1> QED
  BY <1>6, <1>7, <1>8, StepInv, ZenonT(60)

\* The volume is off its mount.
LEMMA UnmountFinalInv ==
    ASSUME IInv, NEW v \in Volumes, UnmountFinal(v) PROVE IInv'
<1>1. Types /\ Is(v, "u_final") /\ vol[v] \in Vols /\ UNCHANGED <<disk, cached, strays>>
  BY Here, Zenon DEF UnmountFinal, At, Typed
<1>2. PICK b \in BOOLEAN, c \in BOOLEAN : b = (strays[v] # 0) /\ c = ~(strays[v] # 0)
  BY Zenon
<1>3. PICK y \in Vols : y = vol[v]
  BY <1>1, Zenon
<1>4. PICK q : q = [y EXCEPT !.mp = FALSE, !.postponed = b, !.release = c]
  BY Zenon
<1>5. /\ q \in Vols /\ Keeps(y, q, {"mp", "postponed", "release"})
      /\ q.postponed = b /\ q.release = c
  BY <1>4, PutPostponed, ZenonT(60)
<1>6. Set(v, q)
  BY <1>2, <1>3, <1>4, ZenonT(60) DEF UnmountFinal, InodesLeft
<1>7. Keeps(vol[v], q, {"postponed", "release"})
  BY <1>3, <1>5, Zenon DEF Keeps
<1>8. q.postponed = (strays[v] # 0) /\ q.release = (strays[v] = 0)
  BY <1>2, <1>5, Zenon
<1>9. PICK N : N = mounted \ {v} /\ mounted' = N
  BY Zenon DEF UnmountFinal, Unmounted
<1>10. N \ {v} = mounted \ {v}
  BY <1>9, Zenon
<1>11. Good(v, q, "idle", ret[v], pend[v], op[v], disk[v], strays[v], N, rdonly)
  BY <1>1, <1>7, <1>8, <1>9, GoodFinal, ZenonT(60) DEF Is
<1>12. To(v, q, "idle", ret[v], pend[v], op[v], disk[v], strays[v], N, rdonly)
  BY <1>1, <1>6, <1>9, <1>10, AllSame, ZenonT(60) DEF To, Set, cached,
     UnmountFinal, Unmounted
<1>13. Typed(q, "idle", ret[v], pend[v], op[v], disk[v], strays[v])
  BY <1>5, Here, PlaceNames, ZenonT(60) DEF Typed
<1> QED
  BY <1>11, <1>12, <1>13, StepInv, ZenonT(60)

\* Every step of an unmount.
LEMMA UnmountsInv ==
    ASSUME IInv, NEW v \in Volumes, UnmountStep(v) PROVE IInv'
BY UnmountSyncInv, UnmountNoMftInv, UnmountBusyInv, UnmountFlushInv,
   UnmountClearInv, UnmountVolumeInv, UnmountRestInv, UnmountMftInv,
   UnmountFinalInv, ZenonT(60) DEF UnmountStep

\* ntfs_inode_free().
LEMMA FreeInv ==
    ASSUME IInv, NEW v \in Volumes, FreeInode(v) PROVE IInv'
<1>1. /\ Types /\ Is(v, pc[v]) /\ vol[v] \in Vols /\ strays[v] \in Nat
      /\ strays[v] > 0 /\ UNCHANGED <<load, disk, cached, mounted, rdonly, pc, ret>>
  BY Here, Zenon DEF FreeInode, Typed
<1>2. PICK k : k = strays[v] - 1 /\ strays' = [strays EXCEPT ![v] = k]
  BY Zenon DEF FreeInode
<1>3. k \in Nat /\ strays[v] # 0 /\ (k = 0 <=> strays[v] = 1)
  BY <1>1, <1>2, SMTT(60)
<1>4. \E q \in Vols : /\ Set(v, q) \/ (UNCHANGED vol /\ q = vol[v])
                      /\ Keeps(vol[v], q, {"postponed", "release"})
                      /\ \/ k = 0 /\ vol[v].postponed /\ ~q.postponed /\ q.release
                         \/ /\ k # 0 /\ q.postponed = vol[v].postponed
                            /\ q.release = vol[v].release
                         \/ /\ k = 0 /\ ~vol[v].postponed /\ ~q.postponed
                            /\ q.release = vol[v].release
  <2>1. CASE strays[v] = 1 /\ vol[v].postponed
    <3>1. PICK q : q = [vol[v] EXCEPT !.postponed = FALSE, !.release = TRUE] /\ Set(v, q)
      BY <2>1, ZenonT(60) DEF FreeInode
    <3>2. /\ q \in Vols /\ Keeps(vol[v], q, {"postponed", "release"})
          /\ q.postponed = FALSE /\ q.release = TRUE
      BY <1>1, <3>1, PutRelease, ZenonT(60)
    <3> QED
      BY <1>3, <2>1, <3>1, <3>2, ZenonT(60)
  <2>2. CASE ~(strays[v] = 1 /\ vol[v].postponed)
    <3>1. UNCHANGED vol
      BY <2>2, ZenonT(60) DEF FreeInode
    <3> QED
      BY <1>1, <1>3, <2>2, <3>1, KeepsSelf, ZenonT(60)
  <2> QED
    BY <2>1, <2>2, ZenonT(60)
<1>5. PICK q \in Vols : /\ Set(v, q) \/ (UNCHANGED vol /\ q = vol[v])
                        /\ Good(v, q, pc[v], ret[v], pend[v], op[v], disk[v], k, mounted, rdonly)
  BY <1>1, <1>3, <1>4, GoodFreed, ZenonT(60) DEF Is
<1>6. To(v, q, pc[v], ret[v], pend[v], op[v], disk[v], k, mounted, rdonly)
  BY <1>1, <1>2, <1>5, AllSame, ZenonT(60) DEF To, Set, cached
<1>7. Typed(q, pc[v], ret[v], pend[v], op[v], disk[v], k)
  BY <1>3, Here, Zenon DEF Typed
<1> QED
  BY <1>5, <1>6, <1>7, StepInv, ZenonT(60)

\* ntfs_do_postponed_release().
LEMMA ReleaseInv ==
    ASSUME IInv, NEW v \in Volumes, ntfs_do_postponed_release(v) PROVE IInv'
<1>1. /\ Types /\ Is(v, pc[v]) /\ vol[v].release /\ Set(v, NoVol)
      /\ UNCHANGED <<disk, cached, vfs>> /\ UNCHANGED pc /\ UNCHANGED ret
  BY Here, Zenon DEF ntfs_do_postponed_release
<1>2. Good(v, NoVol, pc[v], ret[v], pend[v], op[v], disk[v], strays[v], mounted, rdonly)
  BY <1>1, GoodReleased, Zenon DEF Is
<1>3. To(v, NoVol, pc[v], ret[v], pend[v], op[v], disk[v], strays[v], mounted, rdonly)
  BY <1>1, AllSame, Zenon DEF To, Set, cached, vfs
<1>4. Typed(NoVol, pc[v], ret[v], pend[v], op[v], disk[v], strays[v])
  BY Here, NoVolTyped, Zenon DEF Typed
<1> QED
  BY <1>2, <1>3, <1>4, StepInv, ZenonT(60)

\* A disk whose volume was dirty when the machine crashed.
Noted(d) == [d EXCEPT !.needsCheck = @ \/ d.dirty]

\* A crash leaves a dirty volume to be checked.
LEMMA PutNoted ==
    ASSUME NEW d \in Contents
    PROVE  /\ Noted(d) \in Contents /\ DiskKeeps(d, Noted(d), {"needsCheck"})
           /\ Noted(d).needsCheck = (d.needsCheck \/ d.dirty)
<1>1. PICK b \in BOOLEAN : b = (d.needsCheck \/ d.dirty)
  BY Zenon
<1>2. PICK c : c = [d EXCEPT !.needsCheck = b]
  BY Zenon
<1>3. c \in Contents /\ DiskKeeps(d, c, {"needsCheck"}) /\ c.needsCheck = b
  BY <1>2, PutCheck, Zenon
<1>4. c = Noted(d)
  BY <1>1, <1>2, ZenonT(60) DEF Noted
<1> QED
  BY <1>1, <1>3, <1>4, ZenonT(60)

\* The machine crashes.
LEMMA CrashInv ==
    ASSUME IInv, Crash PROVE IInv'
<1>2. ASSUME NEW v \in Volumes
      PROVE  /\ disk'[v] \in Contents
             /\ DiskKeeps(disk[v], disk'[v], {"needsCheck"})
             /\ disk'[v].needsCheck = (disk[v].needsCheck \/ disk[v].dirty)
  <2>1. disk'[v] = Noted(disk[v])
    BY Zenon DEF Crash, Noted
  <2>2. disk[v] \in Contents
    BY Here, Zenon DEF Typed
  <2> QED
    BY <2>1, <2>2, PutNoted, ZenonT(60)
<1>3. /\ vol' = [v \in Volumes |-> NoVol] /\ pend' = [v \in Volumes |-> {}]
      /\ pc' = [v \in Volumes |-> "idle"] /\ ret' = [v \in Volumes |-> "ok"]
      /\ strays' = [v \in Volumes |-> 0] /\ mounted' = {} /\ rdonly' = {}
      /\ load' = load /\ op' = op
  BY Zenon DEF Crash
<1>4. disk' \in [Volumes -> Contents]
  BY <1>2, Zenon DEF Crash
<1>5. Types /\ load \in Workloads /\ op \in [Volumes -> Nat]
  BY Zenon DEF IInv, Types
<1>6. 0 \in Nat
  OBVIOUS
<1>7. Types'
  BY <1>3, <1>4, <1>5, <1>6, NoVolTyped, PlaceNames, ZenonT(60) DEF Types
<1>8. ASSUME NEW v \in Volumes PROVE Local(v)'
  <2>1. Is(v, pc[v])
    BY Here, Zenon
  <2>2. CrashesOrdered => "flags" \notin pend[v] /\ pc[v] \notin {"u_volume", "u_rest", "r_flush"}
    BY <1>5, Zenon DEF Crash, CrashesOrdered, Ordered
  <2>3. Good(v, NoVol, "idle", "ok", {}, op[v], disk'[v], 0, {}, {})
    BY <1>2, <2>1, <2>2, GoodCrash, ZenonT(60) DEF Is
  <2> QED
    BY <1>3, <2>3, Zenon DEF Local
<1> QED
  BY <1>7, <1>8, ZenonT(60) DEF IInv

\* At first.
LEMMA InitInv == Init => IInv
<1> SUFFICES ASSUME Init PROVE IInv
  BY Zenon
<1>1. /\ load \in Workloads /\ vol = [v \in Volumes |-> NoVol]
      /\ pend = [v \in Volumes |-> {}] /\ op = [v \in Volumes |-> 0]
      /\ pc = [v \in Volumes |-> "idle"] /\ ret = [v \in Volumes |-> "ok"]
      /\ strays = [v \in Volumes |-> 0] /\ mounted = {} /\ rdonly = {}
  BY Zenon DEF Init
<1>2. \A v \in Volumes : disk[v] \in load.disks[v]
  BY Zenon DEF Init
<1>3. ASSUME NEW v \in Volumes
      PROVE  /\ disk[v] \in Contents
             /\ disk[v].needsCheck => disk[v].dirty
             /\ disk[v].needsCheck \/ \A p \in Parts : disk[v].parts[p] = 0
  BY <1>1, <1>2, WorkloadAssumption, ZenonT(60)
<1>4. disk \in [Volumes -> Contents]
  BY <1>3, Zenon DEF Init
<1>5. 0 \in Nat
  OBVIOUS
<1>6. Types
  BY <1>1, <1>4, <1>5, NoVolTyped, PlaceNames, ZenonT(60) DEF Types
<1>7. ASSUME NEW v \in Volumes PROVE Local(v)
  <2>1. Good(v, NoVol, "idle", "ok", {}, 0, disk[v], 0, {}, {})
    BY <1>3, GoodInit, Zenon
  <2> QED
    BY <1>1, <2>1, Zenon DEF Local
<1> QED
  BY <1>6, <1>7, ZenonT(60) DEF IInv

\* Every step keeps the invariant.
LEMMA NextInv ==
    ASSUME IInv, [Next]_vars PROVE IInv'
<1>1. ASSUME NEW v \in Volumes,
             \/ MountStart(v) \/ MountStep(v) \/ Unmount(v) \/ UnmountStep(v)
             \/ Remount(v) \/ RemountStep(v)
      PROVE  IInv'
  BY <1>1, StartInv, MountInv, UnmountInv, UnmountsInv, RemountInv,
     RemountSyncInv, RemountClearInv, RemountFlushInv, ZenonT(60) DEF
     RemountStep
<1>2. ASSUME NEW v \in Volumes,
             \/ ChangeMetadata(v) \/ NoteErrors(v) \/ Flush(v) \/ Recycle(v)
             \/ ntfs_sync(v) \/ FreeInode(v) \/ ntfs_do_postponed_release(v) \/ Chkdsk(v)
      PROVE  IInv'
  BY <1>2, ChangeInv, ErrorsInv, FlushInv, RecycleInv, SyncInv, FreeInv, ReleaseInv,
     ChkdskInv, ZenonT(60)
<1>3. CASE UNCHANGED vars
  BY <1>3, ZenonT(60) DEF vars, IInv, Types, Local
<1> QED
  BY <1>1, <1>2, <1>3, CrashInv, ZenonT(60) DEF Next

\* The invariant holds throughout, whatever fails and whatever happens at once.
THEOREM Inductive == Spec => []IInv
<1>1. IInv /\ [Next]_vars => IInv'
  BY NextInv, Zenon
<1> QED
  BY InitInv, <1>1, PTL DEF Spec

-----------------------------------------------------------------------------
(***************************************************************************)
(* What follows.                                                           *)
(***************************************************************************)

\* ni->vol is valid as long as the inode is: ntfs_unmount() releases a volume,
\* or leaves that to the last ntfs_inode_free(), under the same lock.
THEOREM NoInodeWithoutVolumeHolds == Spec => []NoInodeWithoutVolume
<1>1. IInv => NoInodeWithoutVolume
  <2> SUFFICES ASSUME IInv, NEW v \in Volumes, strays[v] > 0
               PROVE  vol[v].live /\ ~vol[v].release
    BY Zenon DEF NoInodeWithoutVolume
  <2>1. strays[v] # 0
    BY Here DEF Typed
  <2> QED
    BY <2>1, Here, ZenonT(60) DEF Is, Good, Life
<1> QED
  BY Inductive, <1>1, PTL

\* A volume that is off its mount, and that needs a check, is marked dirty, and
\* one that needs none is as the last operation left it, unless a write was
\* lost.
LEMMA OffChecked ==
    ASSUME FlagsNeedName, CrashesOrdered, IInv, NEW v \in Volumes, ~vol[v].live,
           ~disk[v].lost
    PROVE  /\ disk[v].needsCheck => disk[v].dirty
           /\ disk[v].needsCheck \/ \A p \in Parts : disk[v].parts[p] = op[v]
<1>1. ~vol[v].volni /\ pend[v] = {} /\ Check(vol[v], pend[v], op[v], disk[v])
  BY Here, ZenonT(60) DEF Is, Good, Life, Loaded, Pending
<1> QED
  BY <1>1, ZenonT(60) DEF Check

\* Only chkdsk clears the dirty bit of a volume that was dirty when it was
\* mounted or on which errors were met: ntfs_unmount() and ntfs_remount() leave
\* it set, whatever fails and whenever the machine crashes, if the crash finds
\* no change of the bit on its way to the disk and $Volume fails before its
\* flags are cached or not at all.  The property says which failed writes it
\* excepts; those noted by NVolSetErrors() in time are not among them.
THEOREM NeedsCheckStaysDirtyHolds ==
    FlagsNeedName /\ CrashesOrdered => (Spec => []NeedsCheckStaysDirty)
<1> SUFFICES ASSUME FlagsNeedName, CrashesOrdered PROVE Spec => []NeedsCheckStaysDirty
  BY Zenon
<1>1. IInv => NeedsCheckStaysDirty
  BY OffChecked, ZenonT(60) DEF NeedsCheckStaysDirty
<1> QED
  BY Inductive, <1>1, PTL

\* Under the same conditions a volume that is off its mount and marked clean
\* has both parts of every metadata operation on the disk: ntfs_mount() marks
\* it dirty before the first one, and the mark goes after the last is written
\* or, if one was not and the error was noted, stays.
THEOREM CleanIsConsistentHolds ==
    FlagsNeedName /\ CrashesOrdered => (Spec => []CleanIsConsistent)
<1> SUFFICES ASSUME FlagsNeedName, CrashesOrdered PROVE Spec => []CleanIsConsistent
  BY Zenon
<1>1. IInv => CleanIsConsistent
  <2> SUFFICES ASSUME IInv, NEW v \in Volumes, ~vol[v].live, ~disk[v].dirty,
                      ~disk[v].lost
               PROVE  disk[v].parts["file"] = disk[v].parts["bitmap"]
    BY Zenon DEF CleanIsConsistent
  <2>1. \A p \in Parts : disk[v].parts[p] = op[v]
    BY OffChecked, ZenonT(60)
  <2> QED
    BY <2>1, Zenon DEF Parts
<1> QED
  BY Inductive, <1>1, PTL

(***************************************************************************)
(* Nothing is written to a volume that is mounted read-only, or that holds *)
(* a hibernated Windows.                                                   *)
(***************************************************************************)

\* Writing nothing changes nothing.
LEMMA OnDiskNone ==
    ASSUME Types, NEW v \in Volumes PROVE OnDisk(v, {}) = disk[v]
<1>1. PICK d \in Contents : d = disk[v]
  BY AllSame, Zenon DEF Typed
<1>2. d.parts \in [Parts -> Nat] /\ d.stamp \in BOOLEAN
  BY Zenon DEF Contents
<1>3. [p \in Parts |-> IF p \in {} THEN op[v] ELSE d.parts[p]] = d.parts
  BY <1>2, Zenon
<1>4. (d.stamp \/ "stamp" \in {}) = d.stamp
  BY <1>2, ZenonT(60)
<1>5. OnDisk(v, {}) = [d EXCEPT !.parts = d.parts, !.dirty = d.dirty, !.log = d.log,
                                !.stamp = d.stamp]
  BY <1>1, <1>3, <1>4, ZenonT(60) DEF OnDisk
<1>6. [d EXCEPT !.parts = d.parts, !.dirty = d.dirty, !.log = d.log, !.stamp = d.stamp] = d
  BY Zenon DEF Contents
<1> QED
  BY <1>1, <1>5, <1>6, ZenonT(60)

\* Nothing is pending on such a volume, and it is not in use.
LEMMA Quiet ==
    ASSUME FlagsNeedName, IInv, NEW v \in Volumes, vol[v].ro \/ disk[v].hib
    PROVE  /\ pend[v] = {}
           /\ vol[v].ro => v \in rdonly
           /\ ~vol[v].ro => v \notin mounted
           /\ pc[v] \notin Remounting \cup {"u_sync"}
<1>1. Good(v, vol[v], pc[v], ret[v], pend[v], op[v], disk[v], strays[v], mounted, rdonly)
  BY Here, Zenon DEF Is
<1>2. CASE vol[v].ro
  BY <1>1, <1>2, ZenonT(60) DEF Good, Pending
<1>3. CASE ~vol[v].ro
  BY <1>1, <1>3, ZenonT(60) DEF Good, Untouched, Loaded
<1> QED
  BY <1>2, <1>3, Zenon

\* What a step of u may make of its disk.
MayBecome(u, c) ==
    \/ c = disk[u] \/ ~vol[u].live \/ u \in mounted \ rdonly
    \/ ~vol[u].ro /\ (pend[u] # {} \/ u \in mounted)
    \/ \E X \in SUBSET pend[u] : c = OnDisk(u, X)

Touches(u) == \E c : disk' = [disk EXCEPT ![u] = c] /\ MayBecome(u, c)

\* Steps that leave the disk alone, and steps that write what is pending.
LEMMA NotTouched ==
    ASSUME IInv, NEW u \in Volumes, UNCHANGED disk PROVE Touches(u)
BY Here, AllSame, ZenonT(60) DEF Touches, MayBecome

\* A write of some of what is pending.
LEMMA WriteTouches ==
    ASSUME NEW u \in Volumes, NEW X \in SUBSET pend[u], disk' = [disk EXCEPT ![u] = OnDisk(u, X)]
    PROVE  Touches(u)
BY Zenon DEF Touches, MayBecome

\* A sync, whether it succeeds or not.
LEMMA SyncTouches ==
    ASSUME NEW u \in Volumes, SyncOK(u) \/ SyncFails(u) PROVE Touches(u)
<1>1. PICK X \in SUBSET pend[u] : Write(u, X)
  BY Zenon DEF SyncOK, SyncFails
<1> QED
  BY <1>1, WriteTouches, ZenonT(60) DEF Write

\* Reclaiming inodes.
LEMMA ReclaimTouches ==
    ASSUME IInv, NEW u \in Volumes, NEW P, Reclaim(u, P) PROVE Touches(u)
<1>1. CASE vol[u].ro
  BY <1>1, NotTouched, ZenonT(60) DEF Reclaim
<1>2. CASE ~vol[u].ro
  <2>1. PICK X : X = P \cap pend[u]
    BY Zenon
  <2>2. X \in SUBSET pend[u] /\ disk' = [disk EXCEPT ![u] = OnDisk(u, X)]
    BY <1>2, <2>1, ZenonT(60) DEF Reclaim
  <2> QED
    BY <2>2, WriteTouches, ZenonT(60)
<1> QED
  BY <1>1, <1>2, ZenonT(60)

\* A reclaim that fails.
LEMMA ReclaimFailsTouches ==
    ASSUME NEW u \in Volumes, NEW P, NEW noted, ReclaimFails(u, P, noted) PROVE Touches(u)
<1>1. PICK c : disk' = [disk EXCEPT ![u] = c]
  BY Zenon DEF ReclaimFails
<1>2. ~vol[u].ro /\ pend[u] # {}
  BY Zenon DEF ReclaimFails
<1> QED
  BY <1>1, <1>2, ZenonT(60) DEF Touches, MayBecome

\* Mounting.
LEMMA MountTouches ==
    ASSUME IInv, NEW u \in Volumes, MountStart(u) \/ MountStep(u) PROVE Touches(u)
<1>1. UNCHANGED disk
  BY Zenon DEF MountStart, MountStep, ntfs_boot_sector_read, ntfs_mft_inode_get,
     TakeTables, LoadRoot, LoadMirror, ntfs_upcase_load, LoadVolume, CheckLog,
     CheckHibernation, MarkDirty, ntfs_logfile_empty, LoadExtended, Stamp,
     DropTables, CountFree
<1> QED
  BY <1>1, NotTouched, ZenonT(60)

\* Unmounting.
LEMMA UnmountTouches ==
    ASSUME IInv, NEW u \in Volumes, Unmount(u) \/ UnmountStep(u) PROVE Touches(u)
<1>1. CASE UnmountSync(u)
  BY <1>1, SyncTouches, Zenon DEF UnmountSync
<1>2. CASE UnmountFlush(u) \/ UnmountVolume(u) \/ UnmountRest(u)
  BY <1>2, ReclaimTouches, ReclaimFailsTouches, ZenonT(60) DEF UnmountFlush,
     ReclaimFiles, UnmountVolume, UnmountRest
<1>3. CASE \/ Unmount(u) \/ UnmountNoMft(u) \/ UnmountBusy(u) \/ UnmountClear(u)
           \/ UnmountMft(u) \/ UnmountFinal(u)
  <2>1. UNCHANGED disk
    BY <1>3, Zenon DEF Unmount, UnmountNoMft, UnmountBusy, UnmountClear, UnmountMft,
       UnmountFinal
  <2> QED
    BY <2>1, NotTouched, Zenon
<1> QED
  BY <1>1, <1>2, <1>3, ZenonT(60) DEF UnmountStep

\* Update mounts.
LEMMA RemountTouches ==
    ASSUME IInv, NEW u \in Volumes, Remount(u) \/ RemountStep(u) PROVE Touches(u)
<1>1. CASE RemountSync(u)
  BY <1>1, SyncTouches, Zenon DEF RemountSync
<1>2. CASE RemountFlush(u)
  <2>1. CASE SyncOK(u)
    BY <2>1, SyncTouches, Zenon
  <2>2. CASE \E X \in SUBSET pend[u] : disk' = [disk EXCEPT ![u] = OnDisk(u, X)]
    BY <2>2, WriteTouches, Zenon
  <2>3. CASE \E X \in SUBSET pend[u] :
                disk' = [disk EXCEPT ![u] = [OnDisk(u, X) EXCEPT !.lost = TRUE]]
    <3>1. PICK c : disk' = [disk EXCEPT ![u] = c]
      BY <2>3, Zenon
    <3>2. Is(u, "r_flush")
      BY <1>2, Here, ZenonT(60) DEF RemountFlush, At
    <3>3. u \in mounted /\ ~vol[u].ro
      BY <3>2, ZenonT(60) DEF Is, Good, Loaded, Pending, Remounting
    <3> QED
      BY <3>1, <3>3, ZenonT(60) DEF Touches, MayBecome
  <2> QED
    BY <1>2, <2>1, <2>2, <2>3, ZenonT(60) DEF RemountFlush
<1>3. CASE Remount(u) \/ RemountClear(u)
  <2>1. UNCHANGED disk
    BY <1>3, Zenon DEF Remount, RemountClear
  <2> QED
    BY <2>1, NotTouched, Zenon
<1> QED
  BY <1>1, <1>2, <1>3, ZenonT(60) DEF RemountStep

\* What happens on a mounted volume, the release of a volume, and chkdsk.
LEMMA UseTouches ==
    ASSUME IInv, NEW u \in Volumes,
           \/ ChangeMetadata(u) \/ NoteErrors(u) \/ Flush(u) \/ Recycle(u)
           \/ ntfs_sync(u) \/ FreeInode(u) \/ ntfs_do_postponed_release(u) \/ Chkdsk(u)
    PROVE  Touches(u)
<1>1. CASE ChangeMetadata(u) \/ FreeInode(u) \/ ntfs_do_postponed_release(u)
  <2>1. UNCHANGED disk
    BY <1>1, Zenon DEF ChangeMetadata, FreeInode, ntfs_do_postponed_release
  <2> QED
    BY <2>1, NotTouched, Zenon
<1>2. CASE NoteErrors(u)
  <2>1. PICK c : disk' = [disk EXCEPT ![u] = c]
    BY <1>2, Zenon DEF NoteErrors
  <2> QED
    BY <1>2, <2>1, ZenonT(60) DEF Touches, MayBecome, NoteErrors, InUse
<1>3. CASE Flush(u)
  <2>1. PICK p \in pend[u] : Write(u, {p})
    BY <1>3, Zenon DEF Flush
  <2>2. {p} \in SUBSET pend[u]
    BY Zenon
  <2> QED
    BY <2>1, <2>2, WriteTouches, ZenonT(60) DEF Write
<1>4. CASE ntfs_sync(u)
  BY <1>4, SyncTouches, ZenonT(60) DEF ntfs_sync
<1>5. CASE Chkdsk(u)
  <2>1. PICK c : disk' = [disk EXCEPT ![u] = c]
    <3>1. disk \in [Volumes -> Contents]
      BY Here, Zenon DEF Types
    <3> QED
      BY <1>5, <3>1, ZenonT(60) DEF Chkdsk
  <2> QED
    BY <1>5, <2>1, ZenonT(60) DEF Touches, MayBecome, Chkdsk
<1>6. CASE Recycle(u)
  BY <1>6, ReclaimTouches, ReclaimFailsTouches, ZenonT(60) DEF Recycle, ReclaimFiles
<1> QED
  BY <1>1, <1>2, <1>3, <1>4, <1>5, <1>6, ZenonT(60)

\* A step of u leaves such a volume v alone.
LEMMA NotWritten ==
    ASSUME FlagsNeedName, IInv, NEW u \in Volumes, Touches(u),
           NEW v \in Volumes, vol[v].live, vol[v].ro \/ disk[v].hib
    PROVE  disk'[v] = disk[v]
<1>1. PICK c : disk' = [disk EXCEPT ![u] = c] /\ MayBecome(u, c)
  BY Zenon DEF Touches
<1>2. Types /\ disk \in [Volumes -> Contents]
  BY Here, Zenon DEF Types
<1>3. CASE u # v
  BY <1>1, <1>2, <1>3, ZenonT(60)
<1>4. CASE u = v
  <2>1. disk'[v] = c
    BY <1>1, <1>2, <1>4, ZenonT(60)
  <2>2. /\ pend[v] = {} /\ v \notin mounted \ rdonly
        /\ ~vol[v].ro => v \notin mounted
    BY Quiet, Zenon
  <2>3. CASE \E X \in SUBSET pend[v] : c = OnDisk(v, X)
    <3>1. c = OnDisk(v, {})
      BY <2>2, <2>3, ZenonT(60)
    <3> QED
      BY <1>2, <2>1, <3>1, OnDiskNone, ZenonT(60)
  <2> QED
    BY <1>1, <1>4, <2>1, <2>2, <2>3, ZenonT(60) DEF MayBecome
<1> QED
  BY <1>3, <1>4, ZenonT(60)

\* Nothing is pending on a volume that is mounted read-only, and no step
\* changes the disk of such a volume or of one with a hibernated Windows, also
\* when a read-write mount is tried and cleaned up, if $Volume fails before its
\* flags are cached or not at all.
THEOREM MustNotWriteHolds ==
    FlagsNeedName => (Spec => MustNotWrite)
<1> SUFFICES ASSUME FlagsNeedName PROVE Spec => MustNotWrite
  BY Zenon
<1>1. ASSUME IInv, [Next]_vars
      PROVE  [\A v \in Volumes : vol[v].live =>
                /\ vol[v].ro => pend[v] = {}
                /\ (vol[v].ro \/ disk[v].hib) /\ vol'[v].live => disk'[v] = disk[v]]_vars
  <2>1. ASSUME NEW v \in Volumes, vol[v].ro PROVE pend[v] = {}
    BY <1>1, <2>1, Quiet, ZenonT(60)
  <2>2. ASSUME NEW v \in Volumes, vol[v].live, vol[v].ro \/ disk[v].hib, vol'[v].live
        PROVE  disk'[v] = disk[v]
    <3>1. CASE \E u \in Volumes : Touches(u)
      BY <1>1, <2>2, <3>1, NotWritten, ZenonT(60)
    <3>2. CASE Crash
      BY <2>2, <3>2, ZenonT(60) DEF Crash, NoVol
    <3>3. CASE UNCHANGED vars
      BY <3>3, Zenon DEF vars
    <3>4. CASE Next
      BY <1>1, <3>1, <3>2, <3>4, MountTouches, UnmountTouches, RemountTouches,
         UseTouches, ZenonT(60) DEF Next
    <3> QED
      BY <1>1, <3>3, <3>4, ZenonT(60)
  <2> QED
    BY <2>1, <2>2, ZenonT(60)
<1>2. IInv /\ [Next]_vars =>
        [\A v \in Volumes : vol[v].live =>
            /\ vol[v].ro => pend[v] = {}
            /\ (vol[v].ro \/ disk[v].hib) /\ vol'[v].live => disk'[v] = disk[v]]_vars
  BY <1>1, ZenonT(60)
<1> QED
  BY Inductive, <1>2, PTL DEF Spec, MustNotWrite
=============================================================================
