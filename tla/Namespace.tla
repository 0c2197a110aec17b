------------------------------ MODULE Namespace -----------------------------
(***************************************************************************)
(* The directory tree and the link counts under concurrent create, link,   *)
(* unlink, rmdir and rename (kext/ntfs_vnops.c).                           *)
(*                                                                         *)
(* The VFS looks names up and calls the driver later, so that what a call  *)
(* is given may be stale by the time it has its locks.  A step is what a   *)
(* call does from the moment it gets one inode lock to the moment it asks  *)
(* for the next.  Names are case sensitive and have one entry each: DOS    *)
(* names and renames that only change the case of a name are left out.     *)
(***************************************************************************)
EXTENDS Integers, FiniteSets

CONSTANTS
    Dirs, Files,   \* the inodes, disjoint
    Root,          \* vol->root_ni
    Names,
    Threads,
    MaxLinks,      \* NTFS_MAX_HARD_LINKS
    Trees,         \* the namespaces to start from
    Faults,        \* the functions that may fail, of AllFaults
    None           \* no inode, no thread

AllFaults == {"unlink", "link", "create"}
Inodes == Dirs \cup Files

ASSUME NamespaceAssumption ==
    /\ Root \in Dirs /\ Dirs \cap Files = {}
    /\ None \notin Inodes \cup Threads
    /\ MaxLinks \in Nat \ {0} /\ Faults \subseteq AllFaults
    /\ IsFiniteSet(Dirs) /\ IsFiniteSet(Names)

VARIABLES
    ns,           \* what is stored: the entries, the names, the link counts
    owner,        \* who holds ni->lock exclusively
    rename_lock,  \* who holds vol->rename_lock
    th            \* the call each thread is in, and its locals

vars == <<ns, owner, rename_lock, th>>
locks == <<owner, rename_lock>>

(***************************************************************************)
(* ns.ents[d][n] is the inode the index of d has under n; ns.fns[i] are    *)
(* the filename attributes of i and ns.mlink[i] is the link count of its   *)
(* mft record; ns.inuse are the records with the flag MFT_RECORD_IN_USE;   *)
(* ns.link[i] is ni->link_count; ns.parent[d] is the parent of the vnode.  *)
(***************************************************************************)
Namespaces ==
    [ents : [Dirs -> [Names -> Inodes \cup {None}]],
     fns : [Inodes -> SUBSET (Dirs \X Names)],
     link : [Inodes -> Int], mlink : [Inodes -> Int], inuse : SUBSET Inodes,
     parent : [Dirs -> Dirs], errors : BOOLEAN, panic : BOOLEAN]

\* The entries are names of live inodes, and the names of live inodes are
\* entries and as many as their link counts say.  The root has no name here.
NamesAgree(v) ==
    /\ \A d \in Dirs, n \in Names :
        LET i == v.ents[d][n] IN
        i # None => i # Root /\ v.link[i] > 0 /\ <<d, n>> \in v.fns[i]
    /\ \A i \in Inodes \ {Root} :
        /\ i \in v.inuse <=> v.link[i] > 0
        /\ v.link[i] > 0 => /\ \A e \in v.fns[i] : v.ents[e[1]][e[2]] = i
                            /\ v.link[i] = Cardinality(v.fns[i])
                            /\ v.mlink[i] = v.link[i]

ntfs_dir_is_empty(v, d) == \A n \in Names : v.ents[d][n] = None

\* Each directory that is not deleted has one name, in the parent of its vnode,
\* and each one that is deleted is empty.  In no set of directories do all
\* have their parents in the set, so the way up from each ends at the root.
IsTree(v) ==
    /\ \A d \in Dirs \ {Root} :
        IF v.link[d] > 0 THEN \E n \in Names : v.fns[d] = {<<v.parent[d], n>>}
                         ELSE ntfs_dir_is_empty(v, d)
    /\ \A S \in SUBSET (Dirs \ {Root}) :
        S # {} /\ (\A d \in S : v.link[d] > 0) => \E d \in S : v.parent[d] \notin S

ASSUME TreesAssumption ==
    \A v \in Trees : /\ v \in Namespaces /\ ~v.errors /\ ~v.panic
                     /\ v.link[Root] > 0 /\ NamesAgree(v) /\ IsTree(v)

Idle == [pc |-> "idle", op |-> "none", err |-> "ok", dir |-> None, name |-> None,
         ni |-> None, dst_dir |-> None, dst_name |-> None, dst_ni |-> None,
         at |-> None, have_unlinked |-> FALSE]

Init ==
    /\ ns \in Trees
    /\ owner = [i \in Inodes |-> None]
    /\ rename_lock = None
    /\ th = [t \in Threads |-> Idle]

-----------------------------------------------------------------------------
(***************************************************************************)
(* Changing one name.  Each function gives the set of its outcomes: the    *)
(* namespace it leaves and "ok" or "fail".                                 *)
(***************************************************************************)
Outcome(v, e) == [ns |-> v, err |-> e]

Corrupt(v) == [v EXCEPT !.errors = TRUE]

\* The name goes from the index, and then from the mft record unless it is
\* the last one.  During a rename ni->link_count is one too high.
ntfs_unlink_internal(v, dir, name, i, is_rename) ==
    LET extra == IF is_rename THEN 1 ELSE 0
        gone == [v EXCEPT !.ents[dir][name] = None]
        done == [gone EXCEPT
                    !.fns[i] = IF v.link[i] > 1 THEN @ \ {<<dir, name>>} ELSE @,
                    !.mlink[i] = IF v.link[i] > 1 THEN v.link[i] - 1 - extra ELSE @,
                    !.inuse = IF v.link[i] > 1 THEN @ ELSE @ \ {i},
                    !.link[i] = @ - 1]
    IN  IF v.link[i] # v.mlink[i] + extra
        THEN {Outcome([v EXCEPT !.panic = TRUE], "fail")}
        ELSE IF <<dir, name>> \notin v.fns[i]
        THEN {Outcome(Corrupt(v), "fail")}
        ELSE {Outcome(done, "ok")}
             \cup IF "unlink" \in Faults
                  THEN {Outcome(v, "fail"), Outcome(Corrupt(gone), "fail")}
                  ELSE {}

\* The name is added to the index, and then to the mft record; if that
\* fails the index entry is removed again.
ntfs_link_internal(v, i, dir, name, is_rename) ==
    LET extra == IF is_rename THEN 1 ELSE 0
        added == [v EXCEPT !.ents[dir][name] = i]
        done == [added EXCEPT
                    !.fns[i] = @ \cup {<<dir, name>>},
                    !.link[i] = @ + 1,
                    !.mlink[i] = v.link[i] + 1 - extra,
                    !.parent = IF is_rename /\ i \in Dirs
                               THEN [@ EXCEPT ![i] = dir] ELSE @]
        known == <<dir, name>> \in v.fns[i]
    IN  IF v.ents[dir][name] # None THEN {Outcome(v, "fail")}
        ELSE (IF known THEN {} ELSE {Outcome(done, "ok")})
             \cup (IF known \/ "link" \in Faults THEN {Outcome(v, "fail")} ELSE {})
             \cup (IF "link" \in Faults THEN {Outcome(Corrupt(added), "fail")} ELSE {})

-----------------------------------------------------------------------------
(***************************************************************************)
(* Locks, and the ways a call goes on or ends.                             *)
(***************************************************************************)
Unlocked(i) == owner[i] = None

\* Thread t waits for, or gets, the exclusive lock of i.
Lock(t, i) == Unlocked(i) /\ owner' = [owner EXCEPT ![i] = t]

Goto(t, pc) == th' = [th EXCEPT ![t].pc = pc]

\* Return drops every lock that t holds.
Return(t, e) ==
    /\ owner' = [i \in Inodes |-> IF owner[i] = t THEN None ELSE owner[i]]
    /\ rename_lock' = IF rename_lock = t THEN None ELSE rename_lock
    /\ th' = [th EXCEPT ![t] = [Idle EXCEPT !.err = e]]

Fail(t) == Return(t, "fail") /\ UNCHANGED ns

Live(i) == ns.link[i] > 0

-----------------------------------------------------------------------------
(***************************************************************************)
(* What the VFS does first: look up the names, with no lock kept.          *)
(* ntfs_vnop_lookup() takes the locks of the directory and of the inode it *)
(* finds shared, so it waits for those who hold them.                      *)
(***************************************************************************)
Finds(dir, name, i) ==
    /\ Live(dir) /\ Unlocked(dir) /\ ns.ents[dir][name] = i
    /\ i # None => Unlocked(i)

Begin(t, op, pc, dir, name, i) ==
    th' = [th EXCEPT ![t] = [Idle EXCEPT !.op = op, !.pc = pc, !.dir = dir,
                                         !.name = name, !.ni = i]]

\* An inode no call has a reference to and no name leads to: its record may
\* be allocated again.
Reusable(i) ==
    /\ ~Live(i)
    /\ \A u \in Threads : i \notin {th[u].dir, th[u].ni, th[u].dst_dir,
                                     th[u].dst_ni, th[u].at}

LookupFirst(t) ==
    /\ th[t].pc = "idle"
    /\ \E dir \in Dirs, name \in Names :
        \/ \E i \in Inodes : /\ Finds(dir, name, i)
                             /\ \/ Begin(t, "unlink", "dir", dir, name, i)
                                \/ Begin(t, "rename", "to", dir, name, i)
        \/ /\ Finds(dir, name, None)
           /\ \/ \E i \in Files : Live(i) /\ Unlocked(i)
                                  /\ Begin(t, "link", "dir", dir, name, i)
              \/ \E i \in Inodes : Reusable(i)
                                   /\ Begin(t, "create", "dir", dir, name, i)
    /\ UNCHANGED <<ns, locks>>

\* The kernel refuses a target of another type than the source.
LookupTarget(t) ==
    /\ th[t].pc = "to"
    /\ \E dir \in Dirs, name \in Names, i \in Inodes \cup {None} :
        /\ Finds(dir, name, i)
        /\ i # None => (i \in Dirs <=> th[t].ni \in Dirs)
        /\ th' = [th EXCEPT ![t].dst_dir = dir, ![t].dst_name = name,
                            ![t].dst_ni = i,
                            ![t].pc = IF dir = th[t].dir THEN "dir" ELSE "rename"]
    /\ UNCHANGED <<ns, locks>>

-----------------------------------------------------------------------------
(***************************************************************************)
(* Create, unlink and link.                                                *)
(***************************************************************************)
Create(v, dir, name, i) ==
    [v EXCEPT !.ents[dir][name] = i, !.fns[i] = {<<dir, name>>},
              !.link[i] = 1, !.mlink[i] = 1, !.inuse = @ \cup {i},
              !.parent = IF i \in Dirs THEN [@ EXCEPT ![i] = dir] ELSE @]

\* The new inode is seen by nobody until the directory is unlocked.  When
\* the entry cannot be added its record is marked unused again, which may
\* fail as well.
ntfs_create(t) ==
    LET c == th[t] IN
    /\ c.op = "create" /\ c.pc = "dir" /\ Unlocked(c.dir)
    /\ IF ~Live(c.dir) THEN Fail(t)
       ELSE \/ /\ ns.ents[c.dir][c.name] = None
               /\ ns' = Create(ns, c.dir, c.name, c.ni) /\ Return(t, "ok")
            \/ (ns.ents[c.dir][c.name] # None \/ "create" \in Faults) /\ Fail(t)
            \/ "create" \in Faults /\ ns' = Corrupt(ns) /\ Return(t, "fail")

\* ntfs_unlink() and ntfs_vnop_link() lock the directory and then the
\* inode; so does a rename in one directory, which goes on to the target.
LockDir(t) ==
    /\ th[t].pc = "dir" /\ th[t].op # "create"
    /\ Lock(t, th[t].dir)
    /\ Goto(t, IF th[t].op = "rename" THEN "target" ELSE "ni")
    /\ UNCHANGED <<ns, rename_lock>>

ntfs_unlink(t) ==
    LET c == th[t] IN
    /\ c.op = "unlink" /\ c.pc = "ni" /\ Unlocked(c.ni)
    /\ IF \/ ~Live(c.dir) \/ ~Live(c.ni)
          \/ c.ni \in Dirs /\ ~ntfs_dir_is_empty(ns, c.ni)
          \/ ns.ents[c.dir][c.name] # c.ni
       THEN Fail(t)
       ELSE \E o \in ntfs_unlink_internal(ns, c.dir, c.name, c.ni, FALSE) :
               ns' = o.ns /\ Return(t, o.err)

ntfs_vnop_link(t) ==
    LET c == th[t] IN
    /\ c.op = "link" /\ c.pc = "ni" /\ Unlocked(c.ni)
    /\ IF ~Live(c.dir) \/ ~Live(c.ni) \/ ns.link[c.ni] >= MaxLinks THEN Fail(t)
       ELSE \E o \in ntfs_link_internal(ns, c.ni, c.dir, c.name, FALSE) :
               ns' = o.ns /\ Return(t, o.err)

-----------------------------------------------------------------------------
(***************************************************************************)
(* Rename into another directory: under the rename lock, walk from the     *)
(* target directory up to the root to see whether the source directory is  *)
(* above it, and that the source is not.                                   *)
(***************************************************************************)

\* Leave inode i: at the root the walk is over, else ask for its parent.
WalkOn(t, i) ==
    th' = IF i = Root THEN [th EXCEPT ![t].pc = "dst_dir", ![t].at = None]
          ELSE [th EXCEPT ![t].pc = "walk", ![t].at = ns.parent[i]]

\* Mutant of TakeRenameLock: nothing excludes other renames.
TakeNoLock(t) ==
    LET c == th[t] IN
    /\ c.pc = "rename"
    /\ IF c.dst_dir = c.ni THEN Fail(t)
       ELSE WalkOn(t, c.dst_dir) /\ UNCHANGED <<ns, locks>>

\* The walk starts at the target directory, which is not locked yet.
TakeRenameLock(t) ==
    LET c == th[t] IN
    /\ c.pc = "rename" /\ rename_lock = None
    /\ IF c.dst_dir = c.ni THEN Fail(t)
       ELSE /\ rename_lock' = t
            /\ WalkOn(t, c.dst_dir)
            /\ UNCHANGED <<ns, owner>>

\* One inode of the way, locked shared while it is looked at.  Its vnode knows
\* its parent; when it does not, the code takes the one of its filename, which
\* is the same as long as the names agree.
Walk(t) ==
    LET c == th[t] IN
    /\ c.pc = "walk" /\ Unlocked(c.at)
    /\ IF ~Live(c.at) \/ (c.at = c.ni /\ c.at \notin {c.dir, Root}) THEN Fail(t)
       ELSE /\ IF c.at = c.dir
               THEN th' = [th EXCEPT ![t].pc = "src_dir first", ![t].at = None]
               ELSE WalkOn(t, c.at)
            /\ UNCHANGED <<ns, locks>>

\* Mutant of LockDirs: always the source directory first.
LockDirsSourceFirst(t) ==
    /\ th[t].pc \in {"dst_dir", "src_dir first", "dst_dir last"}
    /\ \/ /\ th[t].pc # "dst_dir last"
          /\ Lock(t, th[t].dir) /\ Goto(t, "dst_dir last")
       \/ /\ th[t].pc = "dst_dir last"
          /\ Lock(t, th[t].dst_dir) /\ Goto(t, "target")
    /\ UNCHANGED <<ns, rename_lock>>

\* The parent is locked before the child, else the target directory first.
LockDirs(t) ==
    /\ \/ /\ th[t].pc = "dst_dir"
          /\ Lock(t, th[t].dst_dir) /\ Goto(t, "src_dir")
       \/ /\ th[t].pc = "src_dir"
          /\ Lock(t, th[t].dir) /\ Goto(t, "target")
       \/ /\ th[t].pc = "src_dir first"
          /\ Lock(t, th[t].dir) /\ Goto(t, "dst_dir last")
       \/ /\ th[t].pc = "dst_dir last"
          /\ Lock(t, th[t].dst_dir) /\ Goto(t, "target")
    /\ UNCHANGED <<ns, rename_lock>>

-----------------------------------------------------------------------------
(***************************************************************************)
(* Rename, with the directories locked.                                    *)
(***************************************************************************)

\* Mutant of Refused: the source name is not looked up again.
RefusedTrusting(c, dst) ==
    \/ ~Live(c.dir) \/ ~Live(c.dst_dir) \/ ~Live(c.ni)
    \/ /\ dst \notin {None, c.ni}
       /\ IF c.ni \in Dirs
          THEN dst \notin Dirs \/ ~ntfs_dir_is_empty(ns, dst)
          ELSE dst \in Dirs
    \/ ns.ents[c.dst_dir][c.dst_name] \notin {None, dst}

\* What is refused once the target, if there is one, is locked.
Refused(c, dst) ==
    \/ ~Live(c.dir) \/ ~Live(c.dst_dir) \/ ~Live(c.ni)
    \/ /\ dst \notin {None, c.ni}
       /\ IF c.ni \in Dirs
          THEN dst \notin Dirs \/ ~ntfs_dir_is_empty(ns, dst)
          ELSE dst \in Dirs
    \/ ns.ents[c.dir][c.name] # c.ni
    \/ ns.ents[c.dst_dir][c.dst_name] \notin {None, dst}

\* The target is unlinked, if it is still what the name refers to, and
\* unlocked again.
RenameTarget(t) ==
    LET c == th[t]
        loop == c.ni = c.dir \/ c.dst_ni \in {c.dir, c.dst_dir}
        dst == IF c.dst_ni # None /\ Live(c.dst_ni) THEN c.dst_ni ELSE None
        found == ns.ents[c.dst_dir][c.dst_name]
    IN
    /\ c.pc = "target"
    /\ ~loop /\ c.dst_ni # None => Unlocked(c.dst_ni)
    /\ IF loop \/ Refused(c, dst) THEN Fail(t)
       ELSE \/ found = None /\ Goto(t, "source") /\ UNCHANGED <<ns, locks>>
            \/ found = c.ni /\ Return(t, "ok") /\ UNCHANGED ns
            \/ /\ found \notin {None, c.ni}
               /\ \E o \in ntfs_unlink_internal(ns, c.dst_dir, c.dst_name, dst, FALSE) :
                     /\ ns' = o.ns
                     /\ IF o.err # "ok" THEN Return(t, "fail")
                        ELSE /\ th' = [th EXCEPT ![t].pc = "source",
                                                 ![t].have_unlinked = TRUE]
                             /\ UNCHANGED locks

Elevate(v, i, by) == [v EXCEPT !.link[i] = @ + by]

\* Mutant of MoveName: the old name is not linked again.
MoveAndLose(v, i, dir, name, dst_dir, dst_name) ==
    UNION {IF u.err # "ok" THEN {u}
           ELSE ntfs_link_internal(u.ns, i, dst_dir, dst_name, TRUE) :
           u \in ntfs_unlink_internal(v, dir, name, i, TRUE)}

\* Move the name: unlink the old one, link the new one, and if that fails
\* link the old one again.
MoveName(v, i, dir, name, dst_dir, dst_name) ==
    UNION {IF u.err # "ok" THEN {u}
           ELSE UNION {IF l.err = "ok" THEN {l}
                       ELSE {IF r.err = "ok" THEN Outcome(r.ns, "fail")
                             ELSE Outcome(Corrupt(r.ns), "EIO") :
                             r \in ntfs_link_internal(l.ns, i, dir, name, TRUE)} :
                       l \in ntfs_link_internal(u.ns, i, dst_dir, dst_name, TRUE)} :
           u \in ntfs_unlink_internal(v, dir, name, i, TRUE)}

RenameSource(t) ==
    LET c == th[t] IN
    /\ c.pc = "source" /\ Unlocked(c.ni)
    /\ \E o \in MoveName(Elevate(ns, c.ni, 1), c.ni, c.dir, c.name, c.dst_dir, c.dst_name) :
        /\ ns' = Elevate(o.ns, c.ni, -1)
        /\ Return(t, IF o.err # "ok" /\ c.have_unlinked THEN "EIO" ELSE o.err)

-----------------------------------------------------------------------------
Step(t) ==
    \/ LookupFirst(t) \/ LookupTarget(t)
    \/ ntfs_create(t) \/ LockDir(t) \/ ntfs_unlink(t) \/ ntfs_vnop_link(t)
    \/ TakeRenameLock(t) \/ Walk(t) \/ LockDirs(t)
    \/ RenameTarget(t) \/ RenameSource(t)

Next == \E t \in Threads : Step(t)

Spec == Init /\ [][Next]_vars

-----------------------------------------------------------------------------
(***************************************************************************)
(* Properties.  Once the errors flag of the volume is set the code claims  *)
(* nothing and leaves the volume to chkdsk.                                *)
(***************************************************************************)

\* Whatever renames run at once, and however stale the arguments of calls are,
\* the directories stay one tree: each one that is not deleted has exactly one
\* name, in the directory its vnode has as its parent, and the way up ends at
\* the root (rename_lock and ntfs_inode_is_parent(), and the names that
\* ntfs_vnop_rename() looks up again); and one that is deleted has no entries,
\* because nobody creates, links or renames into a directory that was looked up
\* before it was removed.
TreeStays ==
    ~ns.errors =>
        /\ IsTree(ns)
        /\ \A d \in Dirs \ {Root} : Live(d) => Live(ns.parent[d])

\* ni->link_count, the link count of the mft record, the filename attributes
\* and the directory entries agree after every call, with renames holding
\* the count one too high in between; ntfs_unlink_internal() never panics on
\* a link count, and a record is marked unused when its last entry is gone.
LinkCountsExact == ~ns.errors => ~ns.panic /\ NamesAgree(ns)

\* A call that fails leaves the names as they were when it got its last lock,
\* or sets the errors flag; only a rename that has already removed its target
\* may end otherwise, and it says so with EIO.
FailedCallsUndone ==
    [][\A t \in Threads :
          th[t].pc # "idle" /\ th'[t].pc = "idle" /\ th'[t].err # "ok"
          => \/ ns'.errors
             \/ /\ ns' = ns
                /\ th[t].have_unlinked <=> th'[t].err = "EIO"]_vars

\* The inode whose lock thread t waits for, and those it holds.
Wants(t) ==
    LET c == th[t] IN
    CASE c.pc \in {"dir", "src_dir", "src_dir first"} -> {c.dir}
      [] c.pc \in {"dst_dir", "dst_dir last"} -> {c.dst_dir}
      [] c.pc \in {"ni", "source"} -> {c.ni}
      [] c.pc = "walk" -> {c.at}
      [] c.pc = "target" -> {c.dst_ni} \ {None, c.dir, c.dst_dir}
      [] OTHER -> {}

Holds(t) == {i \in Inodes : owner[i] = t}

\* The k-th directory above d, by the parents of the vnodes; the root is its
\* own parent.
Ancestor(d, k) ==
    LET up[j \in 0..k] == IF j = 0 THEN d ELSE ns.parent[up[j - 1]] IN up[k]

Up(d) == {Ancestor(d, k) : k \in 0..Cardinality(Dirs)}

\* What t waits for is no longer where it was looked up.
Moved(t) ==
    LET c == th[t] IN
    \/ c.pc \in {"ni", "source"} /\ ns.ents[c.dir][c.name] # c.ni
    \/ c.pc = "target" /\ ns.ents[c.dst_dir][c.dst_name] # c.dst_ni

OutOfOrder(t) == \E i \in Wants(t) \cap Dirs, h \in Holds(t) \cap Dirs : i \in Up(h)

\* Inodes are locked from the parent to the child: nobody waits for an inode
\* while holding a directory below it.  Excepted are an inode that was moved
\* between its lookup and the locks, and a target that is above the source
\* directory, where the code does not keep the order.
LockedInOrder ==
    ~ns.errors =>
        \A t \in Threads : OutOfOrder(t) =>
            Moved(t) \/ (th[t].pc = "target" /\ th[t].dst_ni \in Up(th[t].dir))

\* "All inodes must be locked in parent -> child order" (ntfs_vnop_rename()):
\* nobody waits for an inode that is where it was looked up while holding a
\* directory below it.
ParentFirst == ~ns.errors => \A t \in Threads : OutOfOrder(t) => Moved(t)

=============================================================================
