------------------------------- MODULE Volume -------------------------------
(***************************************************************************)
(* Mounting, remounting, syncing and unmounting volumes                    *)
(* (kext/ntfs_vfsops.c), with the journal check (kext/ntfs_logfile.c), the *)
(* dirty bit in $Volume, the tables that all mounted volumes share and the *)
(* postponed release of a volume whose inodes outlive the unmount.         *)
(*                                                                         *)
(* What the driver has cached and not yet written is the set pend[v] of    *)
(* parts; the page and buffer caches write a part whenever they like.      *)
(* A metadata operation changes two parts, a file's records ("file") and   *)
(* the system files that describe the volume ("bitmap"): parts[p] is the   *)
(* number of the operation that part p of the disk reflects.               *)
(***************************************************************************)
EXTENDS Integers, FiniteSets, Sequences

CONSTANTS
    Volumes,    \* mount points, each with its own disk
    MaxKext,    \* bound: update mounts happen while the kext's count is below it
    Workloads   \* what the environment does, chosen once: a set of records
\* Workload fields: vols, the volumes that are mounted; disks[v], what may be
\* on disk v at first; modes, "ro" and "rw" mounts; faults, the failures that
\* may happen; mftFails, whether $MFT can fail before and after its first
\* extent is loaded; volumeFails, whether loading $Volume can fail before and
\* after its flags are cached; maxOps, the number of metadata operations;
\* requests, the update mounts; forces, MNT_FORCE or not; strays, how many
\* inodes may outlive an unmount; crash, when the machine may crash.

Parts == {"file", "bitmap"}
Cached == Parts \cup {"flags", "log", "stamp"}

\* What can be on a disk.  Two fields are not on it: needsCheck says that
\* chkdsk must look at the volume, because it was dirty or errors were met on
\* it; lost, that a write of metadata failed and the driver went on as if it
\* had not (ReclaimFails and RemountFlush).
Blocks ==
    [kind : {"empty", "rcrd", "other", "rstr", "chkd"}, valid : BOOLEAN,
     lsn : Nat, inUse : BOOLEAN, clean : BOOLEAN]
Contents ==
    [boot : BOOLEAN, small : BOOLEAN, v3 : BOOLEAN, dirty : BOOLEAN,
     rofl : BOOLEAN, hib : BOOLEAN, log : Seq(Blocks),
     upcase : {"default", "own"}, stamp : BOOLEAN, parts : [Parts -> Nat],
     needsCheck : BOOLEAN, lost : BOOLEAN]

\* At first a volume that needs a check is dirty, and the others are as the
\* last operation, number 0, left them.
ASSUME WorkloadAssumption ==
    /\ IsFiniteSet(Volumes) /\ MaxKext \in Nat
    /\ \A w \in Workloads :
        /\ w.vols \subseteq Volumes /\ DOMAIN w.disks = Volumes
        /\ w.modes \subseteq {"ro", "rw"} /\ w.mftFails \subseteq BOOLEAN
        /\ w.volumeFails \subseteq BOOLEAN
        /\ w.maxOps \in Nat /\ w.strays \subseteq Nat
        /\ w.requests \subseteq {"ro", "write", "case", "none"}
        /\ w.forces \subseteq BOOLEAN /\ w.crash \in {"never", "ordered", "any"}
        /\ \A v \in Volumes : \A d \in w.disks[v] :
            /\ d \in Contents
            /\ d.needsCheck => d.dirty
            /\ d.needsCheck \/ \A p \in Parts : d.parts[p] = 0

VARIABLES
    load,         \* the workload of this behaviour
    disk,         \* what is on the disks
    vol,          \* the ntfs_volume structures
    pend,         \* the parts changed in memory and not yet written
    op,           \* the number of metadata operations done on the volume
    mounted,      \* the volumes the VFS has mounted
    rdonly,       \* the volumes whose mount has MNT_RDONLY
    pc,           \* where the mount, remount or unmount of a volume is
    force,        \* MNT_FORCE of the unmount under way
    ret,          \* the result of the call under way
    strays,       \* inodes of an unmounted volume that are still being freed
    upcase,       \* ntfs_default_upcase is allocated
    upcaseUsers,  \* ntfs_default_upcase_users
    comp,         \* ntfs_compression_buffer is allocated
    compUsers,    \* ntfs_compression_users
    kext          \* the retain count of the kernel extension

vars == <<load, disk, vol, pend, op, mounted, rdonly, pc, force, ret, strays,
          upcase, upcaseUsers, comp, compUsers, kext>>
cached == <<pend, op>>
tables == <<upcase, upcaseUsers, comp, compUsers>>
vfs == <<load, mounted, rdonly, strays>>

(***************************************************************************)
(* An ntfs_volume.  live: it is allocated; mp: NTFS_MP(mp) points to it;   *)
(* ro, errors, logEmpty, comp, postponed: the NVol flags; dirty, rofl: the *)
(* bits VOLUME_IS_DIRTY and VOLUME_MUST_MOUNT_RO_MASK of vol_flags;        *)
(* mft, root, volni: the system inodes that decide how unmounting goes;    *)
(* release: some thread is about to call ntfs_do_postponed_release().      *)
(***************************************************************************)
NoVol ==
    [live |-> FALSE, mp |-> FALSE, ro |-> FALSE, errors |-> FALSE,
     dirty |-> FALSE, rofl |-> FALSE, logEmpty |-> FALSE, comp |-> FALSE,
     upcase |-> "none", mft |-> FALSE, root |-> FALSE, volni |-> FALSE,
     postponed |-> FALSE, release |-> FALSE]

Fault(f) == f \in load.faults

-----------------------------------------------------------------------------
(***************************************************************************)
(* The journal.  A log is the sequence of blocks the search looks at, the  *)
(* first one at offset 0; a block has a kind, and a restart page ("rstr",  *)
(* or "chkd" when chkdsk wrote it) has valid (its header, restart area and *)
(* client array are consistent), lsn, inUse and clean.                     *)
(***************************************************************************)

ScanBlock(acc, b, i) ==
    CASE acc.stop -> acc
      [] ~acc.stop /\ b.kind = "empty" -> [acc EXCEPT !.stop = ~acc.empty]
      [] ~acc.stop /\ b.kind = "rcrd" ->
            [acc EXCEPT !.stop = TRUE, !.empty = FALSE]
      [] ~acc.stop /\ b.kind = "other" -> [acc EXCEPT !.empty = FALSE]
      [] ~acc.stop /\ b.kind \in {"rstr", "chkd"} ->
            IF b.valid
            THEN [stop |-> i # 1, empty |-> FALSE, found |-> Append(acc.found, b)]
            ELSE [acc EXCEPT !.empty = FALSE]

LogScan(log) ==
    LET scan[i \in 0 .. Len(log)] ==
            IF i = 0 THEN [stop |-> FALSE, empty |-> TRUE, found |-> <<>>]
            ELSE ScanBlock(scan[i - 1], log[i], i)
    IN scan[Len(log)]

\* Mutant of NewestRestart: the first restart page, however old.
FirstRestart(found) == found[1]

\* If both restart pages were found, use the more recent one.
NewestRestart(found) ==
    IF Len(found) = 2 /\ found[2].lsn > found[1].lsn THEN found[2] ELSE found[1]

ntfs_logfile_is_clean(log) ==
    LET s == LogScan(log) IN
    \/ s.empty
    \/ /\ s.found # <<>>
       /\ LET rp == NewestRestart(s.found) IN ~rp.inUse \/ rp.clean

EmptyBlock == [kind |-> "empty", valid |-> FALSE, lsn |-> 0, inUse |-> FALSE,
               clean |-> FALSE]

-----------------------------------------------------------------------------
(***************************************************************************)
(* Writing.  OnDisk(v, P) is the disk after the cached parts P are         *)
(* written.                                                                *)
(***************************************************************************)

OnDisk(v, P) ==
    [disk[v] EXCEPT
        !.parts = [p \in Parts |-> IF p \in P THEN op[v] ELSE @[p]],
        !.dirty = IF "flags" \in P THEN vol[v].dirty ELSE @,
        !.log   = IF "log" \in P THEN [i \in DOMAIN @ |-> EmptyBlock] ELSE @,
        !.stamp = @ \/ "stamp" \in P]

Write(v, P) ==
    /\ disk' = [disk EXCEPT ![v] = OnDisk(v, P)]
    /\ pend' = [pend EXCEPT ![v] = @ \ P]

\* An inode that becomes inactive is synced, except on a read-only volume, and
\* then reclaimed with what is pending in it.
Reclaim(v, P) ==
    /\ disk' = IF vol[v].ro THEN disk ELSE [disk EXCEPT ![v] = OnDisk(v, P \cap pend[v])]
    /\ pend' = [pend EXCEPT ![v] = @ \ P]

\* The sync fails, having written some of it; the VFS ignores the error and
\* reclaims the inode.  NVolSetErrors() has noted the error or, when memory or
\* file data were the problem, has not.
ReclaimFails(v, P, noted) ==
    /\ Fault("reclaim") /\ ~vol[v].ro /\ P \cap pend[v] # {}
    /\ \E Q \in SUBSET (P \cap pend[v]) :
        disk' = [disk EXCEPT ![v] = [OnDisk(v, Q) EXCEPT !.needsCheck = @ \/ noted,
                                                        !.lost = @ \/ ~noted]]
    /\ pend' = [pend EXCEPT ![v] = @ \ P]

Change(v, P) == pend' = [pend EXCEPT ![v] = @ \cup P] /\ UNCHANGED op

Set(v, r) == vol' = [vol EXCEPT ![v] = r]
At(v, l) == pc[v] = l
Goto(v, l) == pc' = [pc EXCEPT ![v] = l] /\ UNCHANGED <<ret, force>>
Idle(v, e) ==
    /\ pc' = [pc EXCEPT ![v] = "idle"]
    /\ ret' = [ret EXCEPT ![v] = e]
    /\ UNCHANGED force

\* ntfs_mount() gives up: ntfs_unmount(mp, MNT_FORCE) cleans up.
FailMount(v, e) ==
    /\ pc' = [pc EXCEPT ![v] = "u_start"]
    /\ ret' = [ret EXCEPT ![v] = e]
    /\ force' = [force EXCEPT ![v] = TRUE]

\* ntfs_system_inodes_get() fails; the reference on the upcase table goes next.
SystemFails(v) ==
    /\ pc' = [pc EXCEPT ![v] = "drop"]
    /\ ret' = [ret EXCEPT ![v] = "err"]
    /\ UNCHANGED force

(***************************************************************************)
(* How ntfs_system_inodes_get() deals with most problems: on_errors always *)
(* has ON_ERRORS_FAIL_DIRTY, so a read-write mount fails (NVolErrors() is  *)
(* left alone) and a read-only one goes on with NVolErrors() set.  r is    *)
(* the volume as far as the step got.                                      *)
(***************************************************************************)
Problem(v, r, l) ==
    IF r.ro THEN Set(v, [r EXCEPT !.errors = TRUE]) /\ Goto(v, l)
            ELSE Set(v, r) /\ SystemFails(v)

-----------------------------------------------------------------------------
(***************************************************************************)
(* ntfs_mount().                                                           *)
(***************************************************************************)

RetainKext == kext' = kext + 1

\* Up to the allocation of the volume; NTFS_MP(mp) is NULL until then, and
\* ntfs_unmount() then only drops the reference on the kext again.
MountStart(v) ==
    /\ v \in load.vols \ mounted /\ At(v, "idle") /\ ~vol[v].live
    /\ \/ \E mode \in load.modes :
            /\ RetainKext
            /\ rdonly' = IF mode = "ro" THEN rdonly \cup {v} ELSE rdonly \ {v}
            /\ Set(v, [NoVol EXCEPT !.live = TRUE, !.mp = TRUE, !.comp = TRUE,
                                    !.ro = mode = "ro"])
            /\ pc' = [pc EXCEPT ![v] = "boot"]
            /\ ret' = [ret EXCEPT ![v] = "ok"]
       \/ /\ Fault("options")
          /\ ret' = [ret EXCEPT ![v] = "err"]
          /\ UNCHANGED <<kext, rdonly, vol, pc>>
    /\ UNCHANGED <<load, disk, cached, mounted, force, strays, tables>>

\* Read the boot sector.  on_errors never has ON_ERRORS_RECOVER, so the backup
\* copies are not tried when the primary one is bad or cannot be read.
ntfs_boot_sector_read(v) ==
    /\ At(v, "boot")
    /\ \/ disk[v].boot /\ Goto(v, "mft")
       \/ (~disk[v].boot \/ Fault("boot")) /\ FailMount(v, "err")
    /\ UNCHANGED <<disk, vol, cached, vfs, tables, kext>>

\* vol->mft_ni is set once the first extent of $MFT/$DATA is loaded; a later
\* extent may still be bad.
ntfs_mft_inode_get(v) ==
    /\ At(v, "mft")
    /\ \/ Set(v, [vol[v] EXCEPT !.mft = TRUE]) /\ Goto(v, "tables")
       \/ \E late \in load.mftFails :
            Set(v, [vol[v] EXCEPT !.mft = late]) /\ FailMount(v, "err")
    /\ UNCHANGED <<disk, cached, vfs, tables, kext>>

(***************************************************************************)
(* Under ntfs_lock: become a user of the compression buffer if clusters    *)
(* are small enough, generate the default upcase table if it is not there  *)
(* and take a temporary reference on it.  When the compression buffer      *)
(* cannot be allocated, err is still 0.                                    *)
(***************************************************************************)
TakeTables(v) ==
    /\ At(v, "tables")
    /\ \/ /\ disk[v].small /\ ~comp /\ Fault("compbuf")
          /\ Set(v, [vol[v] EXCEPT !.comp = FALSE])
          /\ FailMount(v, "ok")
          /\ UNCHANGED tables
       \/ /\ IF disk[v].small
             THEN comp' = TRUE /\ compUsers' = compUsers + 1 /\ UNCHANGED vol
             ELSE /\ Set(v, [vol[v] EXCEPT !.comp = FALSE])
                  /\ UNCHANGED <<comp, compUsers>>
          /\ \/ /\ upcase' = TRUE /\ upcaseUsers' = upcaseUsers + 1
                /\ Goto(v, "root")
             \/ /\ ~upcase /\ Fault("upcasebuf")
                /\ FailMount(v, "err")
                /\ UNCHANGED <<upcase, upcaseUsers>>
    /\ UNCHANGED <<disk, cached, vfs, kext>>

\* ntfs_system_inodes_get(): the root directory, then $MFTMirr and the mft
\* bitmap.
LoadRoot(v) ==
    /\ At(v, "root")
    /\ \/ Set(v, [vol[v] EXCEPT !.root = TRUE]) /\ Goto(v, "mirror")
       \/ Fault("root") /\ SystemFails(v) /\ UNCHANGED vol
    /\ UNCHANGED <<disk, cached, vfs, tables, kext>>

LoadMirror(v) ==
    /\ At(v, "mirror")
    /\ \/ Goto(v, "upcase") /\ UNCHANGED vol
       \/ Fault("mirror") /\ Problem(v, vol[v], "upcase")
       \/ Fault("mftbmp") /\ SystemFails(v) /\ UNCHANGED vol
    /\ UNCHANGED <<disk, cached, vfs, tables, kext>>

\* Mutant of GetUpcase: the temporary reference is taken for the volume's own.
GetNothing == UNCHANGED upcaseUsers

GetUpcase == upcaseUsers' = upcaseUsers + 1

\* Use the default table if $UpCase equals it or cannot be read.
ntfs_upcase_load(v) ==
    /\ At(v, "upcase")
    /\ \E read \in {TRUE, ~Fault("upcase")} :
        IF upcase /\ (~read \/ disk[v].upcase = "default")
        THEN /\ GetUpcase
             /\ Set(v, [vol[v] EXCEPT !.upcase = "default"])
             /\ Goto(v, "volume")
        ELSE /\ UNCHANGED upcaseUsers
             /\ IF read
                THEN Set(v, [vol[v] EXCEPT !.upcase = "own"]) /\ Goto(v, "volume")
                ELSE SystemFails(v) /\ UNCHANGED vol
    /\ UNCHANGED <<disk, cached, vfs, upcase, comp, compUsers, kext>>

\* $AttrDef, $Bitmap and $Volume, whose flags are cached before its name is
\* read.  A dirty volume has errors, but mounts; one with unsupported flags
\* mounts read-only.
LoadVolume(v) ==
    /\ At(v, "volume")
    /\ LET r == [vol[v] EXCEPT !.volni = TRUE, !.dirty = disk[v].dirty,
                               !.rofl = disk[v].rofl]
       IN \/ /\ Set(v, [r EXCEPT !.errors = @ \/ r.dirty])
             /\ IF r.rofl /\ ~r.ro THEN SystemFails(v) ELSE Goto(v, "log")
          \/ \E flags \in load.volumeFails :
                Set(v, IF flags THEN r ELSE vol[v]) /\ SystemFails(v)
    /\ UNCHANGED <<disk, cached, vfs, tables, kext>>

CheckLog(v) ==
    /\ At(v, "log")
    /\ \/ LET r == [vol[v] EXCEPT !.logEmpty = LogScan(disk[v].log).empty]
          IN IF ntfs_logfile_is_clean(disk[v].log)
             THEN Set(v, r) /\ Goto(v, "hibernation")
             ELSE Problem(v, r, "hibernation")
       \/ Fault("log") /\ Problem(v, vol[v], "hibernation")
    /\ UNCHANGED <<disk, cached, vfs, tables, kext>>

\* Mutant of Hibernated: hiberfil.sys is not looked at.
NeverHibernated(v) == FALSE

Hibernated(v) == disk[v].hib

CheckHibernation(v) ==
    /\ At(v, "hibernation")
    /\ \/ /\ ~Hibernated(v)
          /\ Goto(v, "dirty") /\ UNCHANGED vol
       \/ /\ Hibernated(v) \/ Fault("hibernation")
          /\ Problem(v, vol[v], "dirty")
    /\ UNCHANGED <<disk, cached, vfs, tables, kext>>

\* ntfs_volume_flags_set() and ntfs_volume_flags_clear() change vol_flags and
\* the cached mft record of $Volume, which is written some time later; there
\* is nothing to do, and nothing to fail, if the flags are as they should be.
ntfs_volume_flags_write(v, d) ==
    /\ Set(v, [vol[v] EXCEPT !.dirty = d])
    /\ IF vol[v].dirty = d THEN UNCHANGED cached ELSE Change(v, {"flags"})

\* Mutant of MarkDirty: a read-write mount leaves the volume marked clean.
MarkNothing(v) ==
    /\ At(v, "dirty") /\ Goto(v, "empty")
    /\ UNCHANGED <<disk, vol, cached, vfs, tables, kext>>

MarkDirty(v) ==
    /\ At(v, "dirty")
    /\ IF vol[v].ro
       THEN Goto(v, "empty") /\ UNCHANGED <<vol, cached>>
       ELSE \/ ntfs_volume_flags_write(v, TRUE) /\ Goto(v, "empty")
            \/ /\ Fault("flags") /\ ~vol[v].dirty
               /\ SystemFails(v) /\ UNCHANGED <<vol, cached>>
    /\ UNCHANGED <<disk, vfs, tables, kext>>

\* Fill the journal with 0xff unless it is empty.
ntfs_logfile_empty(v) ==
    /\ At(v, "empty")
    /\ IF vol[v].ro \/ vol[v].logEmpty
       THEN Goto(v, "extend") /\ UNCHANGED <<vol, cached>>
       ELSE \/ /\ Set(v, [vol[v] EXCEPT !.logEmpty = TRUE])
               /\ Change(v, {"log"}) /\ Goto(v, "extend")
            \/ Fault("empty") /\ SystemFails(v) /\ UNCHANGED <<vol, cached>>
    /\ UNCHANGED <<disk, vfs, tables, kext>>

\* Volumes before version 3.0 are done; the others have $Secure and $Extend,
\* without which nothing mounts, and $ObjId, $Quota and $UsnJrnl.
LoadExtended(v) ==
    /\ At(v, "extend")
    /\ \/ /\ ~disk[v].v3
          /\ Goto(v, "drop") /\ UNCHANGED vol
       \/ /\ disk[v].v3
          /\ \/ Goto(v, "stamp") /\ UNCHANGED vol
             \/ Fault("secure") /\ SystemFails(v) /\ UNCHANGED vol
             \/ Fault("extended") /\ Problem(v, vol[v], "stamp")
    /\ UNCHANGED <<disk, cached, vfs, tables, kext>>

\* Mark the quotas out of date and stamp $UsnJrnl, on a read-write mount.
Stamp(v) ==
    /\ At(v, "stamp")
    /\ IF vol[v].ro
       THEN Goto(v, "drop") /\ UNCHANGED cached
       ELSE \/ Change(v, {"stamp"}) /\ Goto(v, "drop")
            \/ /\ Fault("stamp") /\ SystemFails(v)
               /\ \E P \in {{}, {"stamp"}} : Change(v, P)
    /\ UNCHANGED <<disk, vol, vfs, tables, kext>>

\* A reference on the default upcase table goes, and the table with the last.
PutUpcase ==
    /\ upcaseUsers' = upcaseUsers - 1
    /\ upcase' = (upcase /\ upcaseUsers' # 0)

DropTables(v) ==
    /\ At(v, "drop")
    /\ PutUpcase
    /\ IF ret[v] = "err" THEN FailMount(v, "err") ELSE Goto(v, "count")
    /\ UNCHANGED <<disk, vol, cached, vfs, comp, compUsers, kext>>

\* Count the free clusters and mft records; then the volume is mounted.
CountFree(v) ==
    /\ At(v, "count")
    /\ \/ mounted' = mounted \cup {v} /\ Idle(v, "ok")
       \/ Fault("count") /\ FailMount(v, "err") /\ UNCHANGED mounted
    /\ UNCHANGED <<load, disk, vol, cached, rdonly, strays, tables, kext>>

-----------------------------------------------------------------------------
(***************************************************************************)
(* What happens on a mounted volume.                                       *)
(***************************************************************************)

\* Files may be used until vflush() has closed them, and changed as long as
\* the mount is read-write; a remount to read-only starts with no change
\* under way.
InUse(v) ==
    /\ v \in mounted \ rdonly
    /\ pc[v] \in {"idle", "u_sync", "u_start"}

\* An operation changes a file's records and the volume's system files.
ChangeMetadata(v) ==
    /\ InUse(v) /\ op[v] < load.maxOps
    /\ op' = [op EXCEPT ![v] = @ + 1]
    /\ pend' = [pend EXCEPT ![v] = @ \cup Parts]
    /\ UNCHANGED <<disk, vol, vfs, pc, force, ret, tables, kext>>

\* An operation meets a corruption, or fails half way: NVolSetErrors().
NoteErrors(v) ==
    /\ InUse(v) /\ Fault("errors") /\ ~vol[v].errors
    /\ Set(v, [vol[v] EXCEPT !.errors = TRUE])
    /\ disk' = [disk EXCEPT ![v].needsCheck = TRUE]
    /\ UNCHANGED <<cached, vfs, pc, force, ret, tables, kext>>

\* The page and buffer caches write a part; nothing is written read-only.
Flush(v) ==
    /\ vol[v].mft /\ ~vol[v].ro
    /\ \E p \in pend[v] : Write(v, {p})
    /\ UNCHANGED <<vol, op, vfs, pc, force, ret, tables, kext>>

\* Vnodes of files become inactive and are reclaimed.
ReclaimFiles(v) ==
    \/ Reclaim(v, {"file"}) /\ UNCHANGED vol
    \/ \E noted \in BOOLEAN :
        /\ ReclaimFails(v, {"file"}, noted)
        /\ Set(v, [vol[v] EXCEPT !.errors = @ \/ noted])

\* ... while the volume is in use, when the VFS is short of vnodes.
Recycle(v) ==
    /\ InUse(v) /\ "file" \in pend[v] /\ ReclaimFiles(v)
    /\ UNCHANGED <<op, vfs, pc, force, ret, tables, kext>>

\* ntfs_sync() of a read-write volume writes everything, or fails having
\* written some of it.
SyncOK(v) == Write(v, pend[v]) /\ UNCHANGED op
SyncFails(v) == Fault("sync") /\ (\E P \in SUBSET pend[v] : Write(v, P)) /\ UNCHANGED op

ntfs_sync(v) ==
    /\ v \in mounted /\ At(v, "idle") /\ ~vol[v].ro /\ pend[v] # {}
    /\ SyncOK(v) \/ SyncFails(v)
    /\ UNCHANGED <<vol, vfs, pc, force, ret, tables, kext>>

-----------------------------------------------------------------------------
(***************************************************************************)
(* ntfs_remount(), reached from ntfs_mount(), which has retained the kext. *)
(* Only a successful remount keeps that reference.  (A request with        *)
(* MNT_RELOAD never gets here: ntfs_mount() cuts the volume off its mount. *)
(* It is not modelled.)                                                    *)
(***************************************************************************)
Remount(v) ==
    /\ v \in mounted /\ At(v, "idle")
    /\ \E r \in load.requests :
        CASE r = "case" \/ (r = "write" /\ v \in rdonly) ->
                Idle(v, "err") /\ UNCHANGED <<rdonly, kext>>
          [] r = "ro" /\ ~vol[v].ro ->
                /\ rdonly' = rdonly \cup {v}
                /\ RetainKext
                /\ Goto(v, "r_sync")
          [] OTHER -> Idle(v, "ok") /\ RetainKext /\ UNCHANGED rdonly
    /\ kext < MaxKext
    /\ UNCHANGED <<load, disk, vol, cached, mounted, strays, tables>>

\* The VFS restores the flags of the mount, and the kext is released.
RemountFails(v) ==
    /\ Idle(v, "err")
    /\ rdonly' = rdonly \ {v}
    /\ kext' = kext - 1

RemountReadOnly(v) ==
    /\ Set(v, [vol[v] EXCEPT !.ro = TRUE])
    /\ Idle(v, "ok")
    /\ UNCHANGED <<rdonly, kext>>

RemountSync(v) ==
    /\ At(v, "r_sync")
    /\ \/ SyncOK(v) /\ Goto(v, "r_clear") /\ UNCHANGED <<rdonly, kext>>
       \/ SyncFails(v) /\ RemountFails(v)
    /\ UNCHANGED <<load, vol, mounted, strays, tables>>

\* Mark the volume clean, unless it has errors.
RemountClear(v) ==
    /\ At(v, "r_clear")
    /\ IF vol[v].errors
       THEN RemountReadOnly(v) /\ UNCHANGED cached
       ELSE /\ Goto(v, "r_flush") /\ UNCHANGED <<rdonly, kext>>
            /\ \/ ntfs_volume_flags_write(v, FALSE)
               \/ Fault("flags") /\ UNCHANGED <<vol, cached>>
    /\ UNCHANGED <<load, disk, mounted, strays, tables>>

\* If the second sync fails, the dirty bit is set again; that may fail as well,
\* which is ignored.
RemountFlush(v) ==
    /\ At(v, "r_flush")
    /\ \/ SyncOK(v) /\ RemountReadOnly(v)
       \/ /\ Fault("sync") /\ RemountFails(v)
          /\ \E P \in SUBSET pend[v] :
                \/ /\ Set(v, [vol[v] EXCEPT !.dirty = TRUE])
                   /\ disk' = [disk EXCEPT ![v] = OnDisk(v, P)]
                   /\ pend' = [pend EXCEPT ![v] =
                           (@ \ P) \cup (IF vol[v].dirty THEN {} ELSE {"flags"})]
                \/ /\ Fault("flags") /\ ~vol[v].dirty /\ UNCHANGED vol
                   /\ disk' = [disk EXCEPT ![v] = [OnDisk(v, P) EXCEPT !.lost = TRUE]]
                   /\ pend' = [pend EXCEPT ![v] = @ \ P]
          /\ UNCHANGED op
    /\ UNCHANGED <<load, mounted, strays, tables>>

-----------------------------------------------------------------------------
(***************************************************************************)
(* Unmounting: dounmount() in the VFS, then ntfs_unmount().                *)
(***************************************************************************)

Unmount(v) ==
    /\ v \in mounted /\ At(v, "idle")
    /\ \E f \in load.forces :
        /\ force' = [force EXCEPT ![v] = f]
        /\ pc' = [pc EXCEPT ![v] = IF f \/ v \in rdonly THEN "u_start" ELSE "u_sync"]
        /\ ret' = [ret EXCEPT ![v] = "ok"]
    /\ UNCHANGED <<disk, vol, cached, vfs, tables, kext>>

\* An unmount that is not forced syncs the volume first.
UnmountSync(v) ==
    /\ At(v, "u_sync")
    /\ \/ SyncOK(v) /\ Goto(v, "u_start")
       \/ SyncFails(v) /\ Idle(v, "err")
    /\ UNCHANGED <<vol, vfs, tables, kext>>

\* The call is over and the volume, if there was one, is off the mount.
Unmounted(v) ==
    /\ pc' = [pc EXCEPT ![v] = "idle"]
    /\ mounted' = mounted \ {v}
    /\ UNCHANGED <<load, rdonly, ret, force>>

\* A mount that failed before $MFT was there leaves no inodes and no tables.
UnmountNoMft(v) ==
    /\ At(v, "u_start") /\ ~vol[v].mft
    /\ Set(v, NoVol)
    /\ kext' = kext - 1
    /\ Unmounted(v)
    /\ UNCHANGED <<disk, cached, strays, tables>>

UnmountBusy(v) ==
    /\ At(v, "u_start") /\ vol[v].root /\ ~force[v]
    /\ Idle(v, "err")
    /\ UNCHANGED <<disk, vol, cached, vfs, tables, kext>>

\* vflush() reclaims every vnode but the system's.
UnmountFlush(v) ==
    /\ At(v, "u_start") /\ vol[v].mft /\ vol[v].root
    /\ ReclaimFiles(v) /\ Goto(v, "u_clear")
    /\ UNCHANGED <<op, vfs, tables, kext>>

\* Mutant of MayMarkClean: errors are forgotten.
MarkCleanAlways(v) == ~vol[v].ro /\ vol[v].volni

\* If there were no errors, mark the volume clean.
MayMarkClean(v) == ~vol[v].ro /\ vol[v].volni /\ ~vol[v].errors

UnmountClear(v) ==
    /\ At(v, "u_clear")
    /\ Goto(v, "u_volume")
    /\ \/ /\ MayMarkClean(v)
          /\ \/ ntfs_volume_flags_write(v, FALSE)
             \/ Fault("flags") /\ UNCHANGED <<vol, cached>>
       \/ ~MayMarkClean(v) /\ UNCHANGED <<vol, cached>>
    /\ UNCHANGED <<disk, vfs, tables, kext>>

\* Detach the 3.0+ system inodes and $Volume.  An error met from here on is too
\* late to keep the volume dirty.
UnmountVolume(v) ==
    /\ At(v, "u_volume")
    /\ \/ Reclaim(v, {"stamp", "flags"})
       \/ ReclaimFails(v, {"stamp", "flags"}, FALSE)
    /\ Goto(v, "u_rest")
    /\ Set(v, [vol[v] EXCEPT !.volni = FALSE])
    /\ UNCHANGED <<op, vfs, tables, kext>>

\* Then the others, the root directory last but for $MFTMirr and $MFT.
UnmountRest(v) ==
    /\ At(v, "u_rest")
    /\ Reclaim(v, Cached) \/ ReclaimFails(v, Cached, FALSE)
    /\ Goto(v, "u_mft")
    /\ Set(v, [vol[v] EXCEPT !.root = FALSE])
    /\ UNCHANGED <<op, vfs, tables, kext>>

\* no_root: $MFT goes, and vflush() once more.  Some inodes may have lost
\* their vnodes and still be on their way through ntfs_inode_free().
UnmountMft(v) ==
    /\ At(v, "u_mft") \/ (At(v, "u_start") /\ vol[v].mft /\ ~vol[v].root)
    /\ Set(v, [vol[v] EXCEPT !.mft = FALSE]) /\ Goto(v, "u_final")
    /\ \E n \in load.strays : strays' = [strays EXCEPT ![v] = n]
    /\ UNCHANGED <<load, disk, cached, mounted, rdonly, tables, kext>>

\* Mutant of InodesLeft: the list of inodes is not looked at.
NoInodesLeft(v) == FALSE

InodesLeft(v) == strays[v] # 0

\* Under inodes_lock: release the volume, or leave that to the last inode.
UnmountFinal(v) ==
    /\ At(v, "u_final")
    /\ Set(v, [vol[v] EXCEPT !.mp = FALSE, !.postponed = InodesLeft(v),
                             !.release = ~InodesLeft(v)])
    /\ Unmounted(v)
    /\ UNCHANGED <<disk, cached, strays, tables, kext>>

\* Mutant of FreeInode: the last inode does not release the volume.
FreeOnly(v) ==
    /\ strays[v] > 0
    /\ strays' = [strays EXCEPT ![v] = @ - 1]
    /\ UNCHANGED <<load, disk, vol, cached, mounted, rdonly, pc, force, ret, tables, kext>>

\* The end of ntfs_inode_free(), under inodes_lock.
FreeInode(v) ==
    /\ strays[v] > 0
    /\ strays' = [strays EXCEPT ![v] = @ - 1]
    /\ IF strays[v] = 1 /\ vol[v].postponed
       THEN Set(v, [vol[v] EXCEPT !.postponed = FALSE, !.release = TRUE])
       ELSE UNCHANGED vol
    /\ UNCHANGED <<load, disk, cached, mounted, rdonly, pc, force, ret, tables, kext>>

ntfs_do_postponed_release(v) ==
    /\ vol[v].release
    /\ IF vol[v].upcase = "default" THEN PutUpcase ELSE UNCHANGED <<upcase, upcaseUsers>>
    /\ IF vol[v].comp
       THEN /\ compUsers' = compUsers - 1
            /\ comp' = (comp /\ compUsers' # 0)
       ELSE UNCHANGED <<comp, compUsers>>
    /\ Set(v, NoVol)
    /\ kext' = kext - 1
    /\ UNCHANGED <<disk, cached, vfs, pc, force, ret>>

-----------------------------------------------------------------------------
(***************************************************************************)
(* The environment.  When crash is "ordered", the machine does not crash   *)
(* while a change of the dirty bit and the changes it must precede or      *)
(* follow are both on their way to the disk: nothing in the code orders    *)
(* those writes.                                                           *)
(***************************************************************************)
Ordered(v) == "flags" \notin pend[v] /\ pc[v] \notin {"u_volume", "u_rest", "r_flush"}

Crash ==
    /\ load.crash = "any" \/ (load.crash = "ordered" /\ \A v \in Volumes : Ordered(v))
    /\ \E v \in Volumes : vol[v].live
    /\ disk' = [v \in Volumes |->
                    [disk[v] EXCEPT !.needsCheck = @ \/ disk[v].dirty]]
    /\ vol' = [v \in Volumes |-> NoVol]
    /\ pend' = [v \in Volumes |-> {}]
    /\ mounted' = {} /\ rdonly' = {}
    /\ pc' = [v \in Volumes |-> "idle"]
    /\ force' = [v \in Volumes |-> FALSE]
    /\ ret' = [v \in Volumes |-> "ok"]
    /\ strays' = [v \in Volumes |-> 0]
    /\ upcase' = FALSE /\ upcaseUsers' = 0 /\ comp' = FALSE /\ compUsers' = 0
    /\ kext' = 0
    /\ UNCHANGED <<load, op>>

\* chkdsk, in Windows, when it sees the dirty bit.
Chkdsk(v) ==
    /\ v \in load.vols /\ ~vol[v].live /\ disk[v].dirty
    /\ disk' = [disk EXCEPT ![v].dirty = FALSE, ![v].needsCheck = FALSE,
                            ![v].lost = FALSE,
                            ![v].parts = [p \in Parts |-> op[v]]]
    /\ UNCHANGED <<vol, cached, vfs, pc, force, ret, tables, kext>>

-----------------------------------------------------------------------------
Init ==
    /\ load \in Workloads
    /\ disk \in {d \in [Volumes -> UNION {load.disks[v] : v \in Volumes}] :
                    \A v \in Volumes : d[v] \in load.disks[v]}
    /\ vol = [v \in Volumes |-> NoVol]
    /\ pend = [v \in Volumes |-> {}]
    /\ op = [v \in Volumes |-> 0]
    /\ mounted = {} /\ rdonly = {}
    /\ pc = [v \in Volumes |-> "idle"]
    /\ force = [v \in Volumes |-> FALSE]
    /\ ret = [v \in Volumes |-> "ok"]
    /\ strays = [v \in Volumes |-> 0]
    /\ upcase = FALSE /\ upcaseUsers = 0 /\ comp = FALSE /\ compUsers = 0
    /\ kext = 0

MountStep(v) ==
    \/ ntfs_boot_sector_read(v) \/ ntfs_mft_inode_get(v) \/ TakeTables(v)
    \/ LoadRoot(v) \/ LoadMirror(v) \/ ntfs_upcase_load(v) \/ LoadVolume(v)
    \/ CheckLog(v) \/ CheckHibernation(v) \/ MarkDirty(v)
    \/ ntfs_logfile_empty(v) \/ LoadExtended(v) \/ Stamp(v) \/ DropTables(v)
    \/ CountFree(v)

UnmountStep(v) ==
    \/ UnmountSync(v) \/ UnmountNoMft(v) \/ UnmountBusy(v) \/ UnmountFlush(v)
    \/ UnmountClear(v) \/ UnmountVolume(v) \/ UnmountRest(v) \/ UnmountMft(v)
    \/ UnmountFinal(v)

RemountStep(v) == RemountSync(v) \/ RemountClear(v) \/ RemountFlush(v)

Next ==
    \/ \E v \in Volumes :
        \/ MountStart(v) \/ MountStep(v)
        \/ Unmount(v) \/ UnmountStep(v)
        \/ Remount(v) \/ RemountStep(v)
        \/ ChangeMetadata(v) \/ NoteErrors(v) \/ Flush(v) \/ Recycle(v) \/ ntfs_sync(v)
        \/ FreeInode(v) \/ ntfs_do_postponed_release(v)
        \/ Chkdsk(v)
    \/ Crash

\* A call that has begun, and an inode that is being freed, get on.
Fairness ==
    \A v \in Volumes :
        /\ WF_vars(MountStep(v)) /\ WF_vars(UnmountStep(v)) /\ WF_vars(RemountStep(v))
        /\ WF_vars(FreeInode(v)) /\ WF_vars(ntfs_do_postponed_release(v))

Spec == Init /\ [][Next]_vars /\ Fairness

-----------------------------------------------------------------------------
Loading == {"root", "mirror", "upcase", "volume", "log", "hibernation",
            "dirty", "empty", "extend", "stamp", "drop"}

\* The volumes that hold a reference on the default upcase table, counting
\* the temporary one of ntfs_mount(), and those that use the compression
\* buffer.
UpcaseRefs ==
    Cardinality({v \in Volumes : vol[v].upcase = "default"})
        + Cardinality({v \in Volumes : pc[v] \in Loading})
Compresses(v) ==
    /\ vol[v].comp /\ pc[v] \notin {"boot", "mft", "tables"}
    /\ ~(pc[v] = "u_start" /\ ~vol[v].mft)

\* The tables that all volumes share are there exactly as long as some volume
\* uses them, whatever mounts fail and unmounts overlap: the counts in
\* ntfs_mount(), ntfs_upcase_load() and ntfs_do_postponed_release() are exact.
SharedTables ==
    /\ upcaseUsers = UpcaseRefs /\ (upcase <=> upcaseUsers > 0)
    /\ compUsers = Cardinality({v \in Volumes : Compresses(v)})
    /\ comp <=> compUsers > 0

\* An inode never outlives its volume: ni->vol stays valid until
\* ntfs_inode_free() has taken the last inode off the volume's list.
NoInodeWithoutVolume ==
    \A v \in Volumes : strays[v] > 0 => vol[v].live /\ ~vol[v].release

\* A volume that was dirty when it was mounted, or on which errors were met,
\* is dirty when it is off again: only chkdsk marks it clean.  Not so once a
\* write failed that the driver does not answer for: ntfs_remount() could not
\* set the dirty bit again, or an inode was reclaimed whose sync failed with no
\* error noted, or noted only after the dirty bit was cleared.
NeedsCheckStaysDirty ==
    \A v \in Volumes :
        ~vol[v].live /\ disk[v].needsCheck /\ ~disk[v].lost => disk[v].dirty

\* A volume that is not mounted and not marked dirty is consistent: both parts
\* of every metadata operation are on the disk or neither is, with the same
\* exception.  In particular a failed sync of a file that was noted in time
\* keeps ntfs_unmount() from marking the volume clean.
CleanIsConsistent ==
    \A v \in Volumes :
        ~vol[v].live /\ ~disk[v].dirty /\ ~disk[v].lost
            => disk[v].parts["file"] = disk[v].parts["bitmap"]

\* Nothing is written to a volume mounted read-only, and everything changed
\* before a remount to read-only is on the disk; nor to one that holds a
\* hibernated Windows, also when a read-write mount is tried and cleaned up.
MustNotWrite ==
    [][\A v \in Volumes : vol[v].live =>
          /\ vol[v].ro => pend[v] = {}
          /\ (vol[v].ro \/ disk[v].hib) /\ vol'[v].live => disk'[v] = disk[v]]_vars

\* What the journal says, read from all of its blocks at once.
MostRecentSaysClean(log) ==
    LET valid == {i \in DOMAIN log : log[i].kind \in {"rstr", "chkd"} /\ log[i].valid}
    IN \/ \A i \in DOMAIN log : log[i].kind = "empty"
       \/ \E i \in valid : /\ \A j \in valid : log[j].lsn <= log[i].lsn
                           /\ ~log[i].inUse \/ log[i].clean

\* Only a volume whose journal is empty, or whose most recent valid restart
\* page says it was closed or is clean, gets past the journal check on a
\* read-write mount (ntfs_logfile_check(), ntfs_logfile_is_clean()).
JournalRespected ==
    [][\A v \in Volumes :
        ~vol[v].ro /\ pc[v] = "log" /\ pc'[v] = "hibernation"
            => MostRecentSaysClean(disk[v].log)]_vars

\* The structure of an unmounted volume, or of a failed mount, is freed in the
\* end, also when inodes outlived the unmount.
VolumeFreed ==
    \A v \in Volumes : (vol[v].live /\ v \notin mounted /\ pc[v] \in {"idle", "u_start"})
                          ~> ~vol[v].live
=============================================================================
