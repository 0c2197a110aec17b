------------------------------ MODULE MCVolume ------------------------------
(***************************************************************************)
(* Two volumes and five workloads for Volume: every disk with every fault  *)
(* of a mount, one volume in use, a crash, two volumes that share tables,  *)
(* and a dirty volume whose name cannot be read.                           *)
(***************************************************************************)
EXTENDS Volume

CONSTANTS v1, v2

MCVolumes == {v1, v2}

Block(kind) == [kind |-> kind, valid |-> FALSE, lsn |-> 0, inUse |-> FALSE, clean |-> FALSE]
Page(kind, lsn, inUse, clean) ==
    [kind |-> kind, valid |-> TRUE, lsn |-> lsn, inUse |-> inUse, clean |-> clean]
Closed(lsn) == Page("rstr", lsn, FALSE, FALSE)
Open(lsn) == Page("rstr", lsn, TRUE, FALSE)

CleanLog == <<Closed(1), Closed(1)>>
Logs ==
    {CleanLog, <<Open(1), Closed(2)>>, <<Closed(2), Open(1)>>, <<Closed(1), Open(2)>>,
     <<Open(2), Closed(1)>>, <<Block("empty"), Block("empty")>>,
     <<Block("rstr"), Page("rstr", 1, TRUE, TRUE)>>, <<Block("rstr"), Block("other")>>,
     <<Page("chkd", 1, TRUE, TRUE), Block("empty")>>, <<Block("empty"), Open(1)>>,
     <<Block("rcrd"), Block("rcrd")>>, <<Block("other"), Closed(1)>>}

CleanDisk ==
    [boot |-> TRUE, small |-> TRUE, v3 |-> TRUE, dirty |-> FALSE, rofl |-> FALSE,
     hib |-> FALSE, log |-> CleanLog, upcase |-> "default", stamp |-> FALSE,
     parts |-> [p \in Parts |-> 0], needsCheck |-> FALSE, lost |-> FALSE]
DirtyDisk == [CleanDisk EXCEPT !.dirty = TRUE, !.needsCheck = TRUE]
Disks ==
    {[CleanDisk EXCEPT !.log = l] : l \in Logs}
        \cup {[d EXCEPT !.hib = h, !.rofl = r] :
                d \in {CleanDisk, DirtyDisk}, h \in BOOLEAN, r \in BOOLEAN}
        \cup {[CleanDisk EXCEPT !.boot = FALSE, !.hib = h] : h \in BOOLEAN}
        \cup {[CleanDisk EXCEPT !.v3 = FALSE],
              [CleanDisk EXCEPT !.small = FALSE, !.upcase = "own"]}

Base ==
    [vols |-> {v1}, disks |-> [v \in MCVolumes |-> {CleanDisk}], modes |-> {"rw"},
     faults |-> {}, mftFails |-> {}, volumeFails |-> {}, maxOps |-> 0, requests |-> {},
     forces |-> {FALSE}, strays |-> {0}, crash |-> "never"]

MountFaults == {"options", "boot", "compbuf", "upcasebuf", "root", "mirror", "mftbmp",
    "upcase", "log", "hibernation", "flags", "empty", "secure", "extended", "stamp", "count"}
Mounting ==
    [Base EXCEPT !.disks = [v \in MCVolumes |-> IF v = v1 THEN Disks ELSE {CleanDisk}],
                 !.modes = {"ro", "rw"}, !.faults = MountFaults,
                 !.mftFails = {FALSE}, !.volumeFails = {FALSE}]
Using ==
    [Base EXCEPT !.disks = [v \in MCVolumes |-> IF v = v1 THEN {CleanDisk, DirtyDisk} ELSE {CleanDisk}],
                 !.faults = {"sync", "errors", "flags", "count", "reclaim"}, !.maxOps = 2,
                 !.requests = {"ro", "write", "case", "none"}, !.forces = BOOLEAN]
Crashing == [Base EXCEPT !.maxOps = 2, !.forces = BOOLEAN, !.crash = "ordered",
                         !.requests = {"ro"}, !.faults = {"sync"}]
Sharing ==
    [Base EXCEPT !.vols = MCVolumes, !.modes = {"ro"},
                 !.disks = [v \in MCVolumes |->
                    {CleanDisk, [CleanDisk EXCEPT !.small = FALSE, !.upcase = "own"]}],
                 !.faults = {"upcasebuf", "compbuf", "root", "upcase", "count"},
                 !.mftFails = {FALSE}, !.strays = 0..2, !.requests = {"none", "write"}]
DirtyName == [Base EXCEPT !.disks = [v \in MCVolumes |-> {DirtyDisk}], !.volumeFails = {TRUE}]

MCWorkloads == {Mounting, Using, Crashing, Sharing}
DirtyWorkloads == {DirtyName}
=============================================================================
