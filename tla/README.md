# A TLA+ model of the NTFS kernel extension

This directory holds TLA+ specifications of the NTFS driver in `src/kext`, TLC
configurations that check them on small instances, and TLAPS proofs of most of
their safety properties. `PROJECT.json` says which lines of the source each
definition models. Line numbers below are of files in `src/kext` unless a path
says otherwise.

## 1. The system

| part | source | state | operations | hard because |
|---|---|---|---|---|
| inode cache | `ntfs_hash.c`, `ntfs_inode.c` | hash of inodes, inode flags, vnode references | get, load, create, unlink, inactive, reclaim | threads sleep on each other; the hash lock is dropped around everything slow |
| mft records | `ntfs_mft.c` | mft bitmap, in-use flags, extents | allocate, free, extend `$MFT`, sync | a record is reused while its old inode may be around |
| cluster allocator | `ntfs_lcnalloc.c` | volume bitmap, zones, free count | allocate, free | zone search with restarts; roll backs that can fail |
| bitmaps | `ntfs_bitmap.c` | bits in pages | set or clear a run | partial bytes and pages; a recursive roll back |
| runlists | `ntfs_runlist.c` | sorted runs with gaps | merge, truncate, punch, look up | extents arrive in any order |
| mapping pairs | `ntfs_runlist.c` | packed bytes | size, build, decompress | signs, bytes and records that fill up |
| attributes | `ntfs_attr.c`, `ntfs_attr_list.c` | sizes, values, extents, list | look up, resize, extend, make non-resident | multi-step changes with long undo paths |
| index | `ntfs_index.c`, `ntfs_collate.c` | B+ tree blocks | look up, insert, split, delete | contexts unlocked and locked again |
| names | `ntfs_dir.c`, `ntfs_vnops.c`, `ntfs_unistr.c` | directory entries, link counts | lookup, create, link, unlink, rename | several inodes locked at once |
| data | `ntfs_vnops.c`, `ntfs_page.c`, `ntfs_compress.c`, `ntfs_mst.c` | pages, initialized size | read, write, page in, page out | paging against truncation; torn writes |
| volumes | `ntfs_vfsops.c`, `ntfs_logfile.c`, `ntfs_quota.c`, `ntfs_usnjrnl.c` | mount state, dirty bit, journal, shared tables | mount, remount, sync, unmount | some twenty places where a mount can fail; crashes |
| security | `ntfs_secure.c` | security ids | look up, add | rests on the index |
| user space | `src/newfs`, `src/util`, `src/mount` | none that lives on | format, probe, call mount(2) | sequential programs |

How they interact: vnode operations get inodes from the cache, which loads
them from mft records. Reading and writing goes through the runlist of an
attribute, which is unpacked from mapping pairs; extending an attribute calls
the cluster allocator, merges the result into the runlist and packs it again.
The allocator sets runs of bits. Names are changed by adding and deleting
entries of a directory's index and filename attributes of an mft record, under
the locks of the inodes; an index keeps its blocks in a bitmap of its own. A
volume owns the system inodes and the
tables, and is released by whichever comes last, the unmount or its last inode.

What has to be right: one inode per record and no use of a freed one; sleepers
are woken; no record and no cluster has two owners or none; a runlist finds
every cluster; what is packed is unpacked the same; an index is an ordered set;
directories form a tree, and link counts count names; failed calls undo
themselves; a volume that needs checking stays dirty, and one that must not be
written is not written.

`PROJECT.json` lists 25 components, those not modelled with the reason, and the
hazards of the code at their lines, with the properties that cover them.

## 2. Modules

| module | models | grain of a step |
|---|---|---|
| `InodeCache` | `ntfs_inode_hash_get/lookup`, `ntfs_inode_get`, create, unlink, `ntfs_vnop_inactive`, `ntfs_inode_reclaim`, and the allocation and freeing of a record as seen from there | what a thread does between two points where another thread may run (a lock taken or dropped, a sleep, I/O) |
| `ClusterAlloc` | `ntfs_lcnalloc.c` | a page mapped, a cluster taken, a pass, a zone switch, a run freed; one call at a time, under `lcnbmp_lock` |
| `Bitmap` | `__ntfs_bitmap_set_bits_in_run` | one partial byte, the bytes of a page, the next page |
| `Runlist` | the merge, truncate, punch and lookup functions as operators | |
| `AttrRunlist` | one attribute's runlist while it is mapped, extended, shrunk and punched | one call, under the runlist lock |
| `MappingPairs` | size, build and decompress | one run |
| `Volume` | mount, remount, sync, unmount, postponed release, journal check | the stretch between two decisions of `ntfs_mount()` or `ntfs_unmount()` |
| `OrderedIndex` | what an index promises: a sorted sequence of keys that a call changes by one key or not at all | one call |
| `Index` | `ntfs_index.c`: looking up, walking, adding with splits, deleting with merges, allocating and freeing blocks; implements `OrderedIndex` | one level of a split, one case of a deletion, one block freed; one call at a time, under the lock of the index inode |
| `Namespace` | create, link, unlink, rmdir and rename in `ntfs_vnops.c`, `ntfs_inode_is_parent()` | what a call does from getting one inode lock to asking for the next |
| `File` | what the data of a file promises: a sequence of units that writes, truncations and stores change; a failed write leaves the length as it was, a failed truncation may have been done | one unit written, one call begun or ended |
| `FileData` | `ntfs_write()`, the truncation of `ntfs_vnop_setattr()`, `ntfs_inode_sync()`, page in and page out, and the functions of `ntfs_attr.c` that change the three sizes; implements `File` | what a thread does between two points where another thread or the pager can act on the file |

`MC*` modules give the constants values. `InodeCacheProofs`, `BitmapProofs`,
`ClusterAllocOwners`, `ClusterAllocProofs`, `NamespaceProofs`, `FileDataProofs`,
`VolumeProofs` and `VolumeTables` hold proofs. Definitions keep the names of
the functions, or say in a comment which stretch of a function they are. Names
ending in a plausible mistake (for example `AppendNoAdjust`) stand next to the
definition they spoil and are used to see that a property can fail.

Correspondence in short:

- `InodeCache`: `hashed`, `key`, `flags` are the hash chains and `NI_Alloc`,
  `NI_Reclaim`, `NI_Deleted`; `vnode`, `refs` and `inact` are the kernel's vnode
  (external); `bit` and `inuse` are the mft bitmap and `MFT_RECORD_IN_USE`,
  `counted` is whether a record has links and `errors` is `NVolErrors`;
  `pc`, `tk`, `ni`, `nni` are a thread's place and locals. Inode objects come
  from a finite set, so that a freed one is reused: that is what makes use after
  free visible.
- `ClusterAlloc`: `used` is the bitmap; the zone variables have their names in
  `ntfs_volume`; `files` holds the runlists of the callers. `bmp_pos` is the
  code's `lcn + bmp_pos`.
- `AttrRunlist`: `disk` is what the mapping pairs on disk say, `lows` where the
  extents begin, `mapped` which have been mapped. `ntfs_rl_punch_nolock()` is
  compiled, but its only caller is not (`#if 0`, `ntfs_attr.c:5855`): `Punch`
  makes the calls its comment allows. `ntfs_attr_instantiate_holes()` is
  compiled out and not modelled. `WithHole` stands for the end of
  `ntfs_attr_extend_allocation()` that makes a sparse attribute longer by a hole
  (`ntfs_attr.c` 6304-6405): it is compiled, but as nothing enables sparse files
  (`ntfs_attr_sparse_set()`) it is never reached from a mount.
- `Volume`: `vol` is the volume structure, `disk` what is on the disk, `pend`
  what is cached and not written, `strays` the inodes that outlive an unmount.
  Two fields of `disk` are not on it: `needsCheck`, that chkdsk has to look at the
  volume, and `lost`, that a write failed and the driver went on as if it had not.
  The backup boot sectors are never tried, since nothing sets ON_ERRORS_RECOVER.
  Parsing the boot sector and the system files is a choice between success and
  failure, restricted by the state of the disk.
- `Index`: `node` holds the entries of the root and of each block, `bits`,
  `last_set_bit` and `ia_size` the bitmap and the size of the index allocation;
  `path` are the index contexts from the root down, `cur` is `cur_ictx`. Keys
  are numbers, since collation is taken as given, but entries have sizes, since
  sizes decide about splits. `listed` is what readdir would list, computed with
  the modelled walk when a call returns; the refinement mapping takes it for the
  abstract sequence.
- `Namespace`: `ns` is what is stored: directory entries, filename attributes,
  the link counts in memory and in the record, the in-use flags, the vnodes'
  parents. The VFS looks names up first and calls the driver later, without
  locks in between, so that the arguments of a call may be stale. Adding and
  deleting an entry is one step here, as the directory is locked; `Index` is
  its detail.
- `FileData`: `ni` holds the three sizes and the flags of the inode, `rec` and
  `drec` the attribute record in memory and on the disk, `disk` what the clusters
  hold, `ubc` the size the page cache knows and `torn` that a resize which failed
  half way left it behind; `cache`, `dirty` and `behind` are
  the pages in memory, those to be written and those the cluster layer of the
  kernel will write (external). Data are counted in units that hold zeros, what
  callers write, or what was on the disk before. The refinement mapping takes for
  the file what a reader would get: the cached page, or what page in would bring.

## 3. Runs

| run | result | what it checks |
|---|---|---|
| `inode` | holds | `HashUnique`, `NoUseAfterFree`, `DeletedIsUnlinked`, `ReusedRecordNotCached`, `PanicNeedsWriteError`, `LostRecordIsNoted`: three threads, three inode objects, one record, all operations and all failures |
| `inode_lost_wakeup` | violated | `NoLostWakeup` |
| `alloc` | holds | `RunlistExact`, `DataEnospcMeansFull`, `NoDoubleAllocation`, `FreeCountExact`, `DataAvoidsMftZone`, `CallsLeakNothing`, `FailedFreeRestores`, `CallsEnd`: all bitmaps of 6 clusters, all hints, one file at a time; pages, memory, bitmap updates and mappings fail |
| `alloc_fragment_leak` | violated | `NoClusterLeak` |
| `bitmap` | holds | `OnlyTheRun`, `AllOrNothing`: all runs in 3 pages of 2 bytes of 2 bits |
| `runlist` | holds | `WellFormed`, `FindsEveryCluster`, `CallsSucceed`: attributes of up to 4 clusters in all divisions into extents |
| `mapping_pairs` | holds | `ReadBackExact`, `SizeExact`: up to 3 runs, numbers of one to three bytes, records with room for 4, 6 and 16 bytes |
| `volume` | holds | `SharedTables`, `NoInodeWithoutVolume`, `NeedsCheckStaysDirty`, `CleanIsConsistent`, `MustNotWrite`, `JournalRespected`, `VolumeFreed`: every disk with every failure of a mount, a volume in use, a crash, two volumes |
| `volume_dirty_name` | violated | `NeedsCheckStaysDirty` |
| `index` | holds | `SearchFindsListing`, `BlocksExact`, `WellShaped`, `ImplementsOrderedIndex`, `CallsReturn`: one add or delete on every well-formed tree of up to 3 levels in which at most two of nine keys are missing or present, every failure |
| `namespace` | holds | `TreeStays`, `LinkCountsExact`, `LockedInOrder`, `FailedCallsUndone`: two threads, two directories below the root and a file, two names, every failure |
| `file_data` | holds | `SizesAgree`, `SyncDurable`, `ImplementsFile`: two threads, two calls, a file of up to 4 units in pages of 2, resident or not, with page in, page out, eviction and stores through a mapping in between; allocations, conversions, reads, zeroing, freeing clusters and writes to the disk fail |

**Why the bounds are enough to be interesting.** Three threads allow a loader, a
sleeper and a reclaimer of one record; one record is enough because
records meet only in the hash lock and in the pool of inode objects, which three
threads exhaust. Six clusters on pages of one byte give three zones and several
pages, with searches of both passes and a mft zone that is shrunk. Bytes of 2
bits keep the difference between partial and whole bytes, and numbers of several
bytes, at small sizes. Four clusters allow an extent on each side of a gap. Two
volumes are what sharing needs. Trees of three levels have inner nodes that are
neither root nor leaf, so that splits and merges pass through one; trees that are
nearly full split up to the root and trees that are nearly empty fall back to it.
One call is enough there because the starting trees are all well-formed trees
within the bounds, and `WellShaped` says that a call ends in one. Two directories
below the root are what it takes to move each into the other. Two pages of two
units have a boundary inside and between pages, and a value that just fits and
one that does not fit into the record; two calls are what it takes for one to
change the sizes under another.

In `alloc`, `bitmap` and `namespace` exploration stops once the volume errors
flag is set (`UntilErrors`), and in `index` once the code has left inconsistent
metadata (`UntilDamaged`): from then on the code claims nothing and leaves the
volume to chkdsk. Deadlock is not checked in `inode` and `namespace`, because
the modelled code can deadlock there (section 4), nor in `runlist` and
`mapping_pairs`, where an attribute may have nothing left to do, nor in
`file_data`, where the number of calls is bounded.

**Fairness.** `ClusterAlloc` and `Index`: weak fairness of the steps of a call,
which holds its lock and never waits. `Volume`: weak fairness of mounts, unmounts
and remounts that have begun, and of freeing inodes. Nothing forces a caller to
start an operation.

## 4. What the runs found, and what they leave out

Three runs show a disagreement between the code and what its comments say.
`PROJECT.json` quotes the comments.

1. `inode_lost_wakeup`: `NI_Alloc` is cleared and the wakeup sent without the
   hash lock (`ntfs_inode.h:562`), so a thread between its test and its sleep
   misses it.
2. `alloc_fragment_leak`: the roll back of `ntfs_cluster_alloc()` at
   `start_vcn > 0` frees nothing (`ntfs_lcnalloc.c:845`).
3. `volume_dirty_name`: a failed read-write mount of a dirty volume marks it
   clean (`ntfs_vfsops.c:1906`).
**Some passing runs pass because a case is left out.** In each of the following
but the last three the case was tried with TLC and the named property fails; the
passing result must be read with that exception.

| run | left out | fails there |
|---|---|---|
| `inode` | the check for deadlock: a creator holds the buffer of the record and sleeps on its inode, whose loader waits for the buffer (`ntfs_mft.c:2981`); lost wakeups end in one as well | absence of deadlock |
| `inode` | what follows a delayed write of the new record that fails (`ntfs_mft.c:3117`), excepted in `ReusedRecordNotCached` and `PanicNeedsWriteError` | `FreeRecordNotCached`, `NoPanic` |
| `inode` | what follows the creation of a name that exists already (`ntfs_vnops.c:1457`), and a deletion that cannot get the vnode of the mft bitmap (`ntfs_vnops.c:7648`), both excepted in `LostRecordIsNoted`: the record stays allocated and nothing is noted. Elsewhere a failed undo sets the errors flag, and the property says so | `NoRecordLeak` |
| `alloc` | failed allocations at `start_vcn > 0`, excluded in `CallsLeakNothing` | `NoClusterLeak` |
| `runlist` | extending when the last extent was mapped before the base extent (`ntfs_attr.c:6282`) | `CallsSucceed`, `WellFormed` |
| `volume` | `$MFT` failing after its first extent (`ntfs_vfsops.c:3587`) | `SharedTables` |
| `volume` | a name of `$Volume` that cannot be read | `NeedsCheckStaysDirty` |
| `volume` | a crash while a change of the dirty bit is not yet written; nothing in the code orders those writes | `CleanIsConsistent` |
| `volume` | what follows a write that failed unanswered (`lost`): the VFS ignores that an inode it reclaims could not be synced (`ntfs_vnops.c:7312`) and the error was not noted, or noted after the dirty bit was cleared; or `ntfs_remount()` could not set the dirty bit again (`ntfs_vfsops.c:4095`) | `NeedsCheckStaysDirty`, `CleanIsConsistent`, which except it |
| `namespace` | a target above the source directory, and an inode that was moved between its lookup and the locks, both excepted in `LockedInOrder`; the check for deadlock. `ntfs_vnop_rename()` locks the two directories from parent to child, but then the target (`ntfs_vnops.c:5894`): renaming `A/B/C` onto `A` holds the root and `B` and waits for `A`; an rmdir of `A/B` at the same time holds `A` and waits for `B` | `ParentFirst`, absence of deadlock |
| `file_data` | the fault "copy": copying from the caller's buffer fails after earlier pages were copied beyond the old end (comment at `ntfs_vnops.c` 3706-3709) | `ImplementsFile` |
| `file_data` | the fault "record": the record cannot be mapped to set the initialized size at the end of a write (`ntfs_vnops.c:3643`) | `ImplementsFile` |
| `file_data` | the fault "shrink": the record cannot be mapped after `ubc_setsize()` has cut the pages | `ImplementsFile`, `SyncDurable` |
| `file_data` | what follows two resizes in a row that failed when they had already changed the sizes (`torn`); the run makes two calls only. `SizesAgree` excepts the page cache from the first such failure on: it is given the old size back (`ntfs_attr.c:8780`) while inode and record keep the new one, against the comment at `ntfs_attr.c` 7706-7708 that the size in the UBC is never the larger one; the next resize copes with it (7757) | `ImplementsFile` |
| `file_data` | stores through a mapping beyond the initialized size, which page out does not write (FIXME at `ntfs_vnops.c` 8361-8378) | not modelled |
| `namespace` | a deletion of a directory entry that returns 0 with nothing deleted (`ntfs_index.c` 5588-5621, see below) | not modelled |
| `volume` | a writer in flight during a remount to read-only | not modelled |

`SyncDurable` is about the units that nobody changes, initializes or moves while
the sync runs. Also outside of `FileData`: writes with IO_SYNC, compressed and
encrypted attributes, and deleted inodes; that the cluster layer throws pages
away when the device is gone (ENXIO in `cluster_push_ext()`); and the count of
bytes an append reports that fails at its very end, which compares the offset it
was called with, not the one it wrote at (`ntfs_vnops.c:3634`; the choice between
the two ways out that follows from it is modelled). Writing the extents of a
record is one step.

`LockedInOrder` excepts exactly the cases in which the code does not lock from
parent to child, so it says that there are no others. In `alloc` one file is
allocated at a time; that two runlists never share a cluster
(`NoDoubleAllocation`) is shown for several files by its theorem only. Journals
have two blocks in `volume`, one for each restart page.

`DataEnospcMeansFull` is about callers of the data zone only: a caller of the
mft zone can get ENOSPC on a volume with free clusters (`ntfs_lcnalloc.c:241`).

Seen while reading, not checked by any run: a hint equal to `nr_clusters` gives
EINVAL (`ntfs_lcnalloc.c:292`); a zero-length unmapped run can precede the end
marker (`ntfs_runlist.c:725`); `ntfs_rl_get_nr_real_clusters()` can miscount
(`ntfs_runlist.c:2486`); a compression buffer that cannot be allocated ends the
mount with `err` still 0 (`ntfs_vfsops.c:4454`); a successful remount keeps a
kext reference; MNT_RELOAD detaches the volume.

In `Runlist`, memory never runs out, and when `ntfs_rl_append()` looks at the
element after the new end of the array (`ntfs_runlist.c:499`), what it may change
there is not part of the runlist.

In `ntfs_index.c`: when case 1 of a deletion cannot lock the parent again, the
result of locking the successor replaces the error, and the call returns 0 with
nothing deleted (5588-5621); a failure to lock two nodes in case 2 (5760), and
one to map the record again after the root was moved (3017-3093), leave entries
half moved without setting the errors flag; so do a root that is not restored
when its move fails, and bits that cannot be cleared when a tree collapses into
its root. `Index` takes these steps and counts
them as damage, after which the properties claim nothing. When the mft record has
no room to extend the bitmap or the index allocation, the root is moved to a
block of its own in the middle of the allocation of another one; `Index` has this
case, with the block numbers as the code hands them out. A failed resize of the
index root (2503-2645) does not restore the root's entries; it is not modelled.

## 5. Proofs

All proofs are checked by TLAPS with Z3, Zenon and LS4, for every value of the
constants that satisfies the named assumptions.

- `InodeCacheProofs`: `TypeOKHolds`, `HashUniqueHolds`, `NoUseAfterFreeHolds`,
  `HashedIsLiveHolds`, `DeletedIsUnlinkedHolds`, for any number of threads, inode
  objects and records, any operations and any failures (`InodeCacheAssumption`:
  the "none" values are not members of the sets, and the operations and failures
  are known ones). The properties are not inductive: that an inode is not freed
  under a thread depends on who owns it. `IInv` adds, for each thread, what its
  place says of its inode (`ThreadInv`: it holds a reference, or owns an inode
  without a vnode, or has removed it from the hash); for each pair, that an inode
  being loaded or torn down has one owner and that new inodes are distinct
  (`PairInv`, `NewInv`); and, for each inode, that what is in the hash is live,
  that references are held by threads working on it and that only an inode
  without links is deleted (`InodeInv`). Other threads see a step only through
  `Works`: it changes an inode that nobody else has (`Alone`), or one that others
  have in a way they do not rely on (`Shares`).
- `ClusterAllocProofs`: `ZonesOrderedHolds`, `DataAvoidsMftZoneHolds`,
  `RunlistExactHolds`, `DataEnospcMeansFullHolds`, `NoDoubleAllocationHolds`,
  `FreeCountExactHolds`, `CallsLeakNothingHolds`, `FailedFreeRestoresHolds`, for
  every size of volume, page and byte and every request
  (`ClusterAllocAssumption`; `ZoneSetupAssumption`, that the loop which halves
  the mft zone at mount time ends inside the volume). Four invariants carry
  them. `ZInv` adds to the order of the zones where a data allocation searches:
  in the first data zone from the end of the mft zone on, in the second up to
  its start. `Searched` keeps account of what is known to be full: all of each
  finished zone, and of the current one what the scan has passed, so that both
  data zones and an empty mft zone make up a full volume. `Builds` ties the
  runlist under construction to what is left to allocate. `OInv` is about
  ownership: the bitmap is the one the call began with, with what was allocated
  and without what was freed and not put back; a roll back walks over the same
  clusters again. It rests on `Shapes` (the runlists of callers and frees map
  each vcn once, and no cluster twice). `ClusterAllocOwners` holds the lemmas on
  runlists, `Builds`, `Shapes` and `OInv`. What is used of cardinality is
  collected in `Counting`, proved once from the theorems on finite sets.
- `BitmapProofs`: `OnlyTheRunHolds` and `AllOrNothingHolds`, for bytes, pages
  and bitmaps of any size and every run (`BitmapAssumption`: a byte has more
  than one bit, a page and the bitmap are not empty). The code counts what is
  left to write and keeps its position in bytes of the mapped page; nothing in
  its state says which bits are written. `IInv` ties the two together:
  `Reached`, the end of the run less what is left, is where the position in the
  page says it is (`Place`), a call has written its run up to `Reached`, and a
  roll back has put back what lies before `Reached` and nothing else
  (`Written`). That a roll back ends at the end of a page (`Failed`) is what
  makes the leftover of a failed one a run of whole pages, which `ClusterAlloc`
  takes for granted. The steps rest on lemmas on division: where a bit lies, and
  how many whole bytes fit.
- `NamespaceProofs`: `LinkCountsExactHolds`, `TreeStaysHolds`,
  `FailedCallsUndoneHolds`, for any number of threads, inodes and names, any
  failures and any starting trees (`NamespaceAssumption`: the root is a
  directory, files are not directories, directories and names are finitely many;
  `TreesAssumption`: a starting namespace has no errors, its names agree and its
  directories form a tree). `LinkCountsExact` is not inductive: a step that
  removes or adds a name relies on what the call has checked in an earlier step.
  `IInv` says that the errors flag is set and stays set (`Marked`), or that the
  names agree and, for each thread, its place tells what it has locked and what
  it has checked under these locks (`Place`): a rename that has come to its
  source still finds it under its old name, because it holds the directory and
  nobody changes the entries of a directory without its lock. Inodes about to be
  created are unnamed and distinct. That a rename raises the link count by one
  while it moves the name is treated inside one step, as the inode is locked.
  The module first says what each function that changes a name does to a
  namespace in which the names of all inodes but one agree, and then has a lemma
  for each action.

  That the directories form a tree is stated without a walk: no set of
  directories below the root, but the empty one, has the parents of all of its
  members (`IsTree`). To make a loop a
  rename would have to move a directory below itself. `TInv` says what forbids
  it: a rename into another directory that is past the start of its walk holds
  the rename lock, and the directories it has walked over, which lead from the
  target directory up to where it is, do not contain the source (`Walks`,
  `Clear`). Other calls only create directories and remove empty ones, which
  keeps that true. `HInv`, for `FailedCallsUndone`, says which renames have
  unlinked their target.
- `FileDataProofs`: `SizesAgreeHolds`, for any number of threads, any size of
  record and file, any requests and any of the modelled failures, those that
  `file_data` leaves out included (`FileDataAssumption`: a page is a whole number
  of clusters or a cluster a whole number of pages, a resident value is at most a
  page). A thread
  changes the sizes in several steps. `IInv` says for each place of a call which
  lock it holds and what it tested that still holds; `Agree` says which size the
  holder of the lock has moved before the others, so that every way out, the
  failures included, brings them together. One does not: after a resize that
  failed when it had changed the sizes only inode and record agree (`torn`),
  until a size is set again.
- `VolumeProofs`: `NoInodeWithoutVolumeHolds`, `NeedsCheckStaysDirtyHolds`,
  `CleanIsConsistentHolds`, `MustNotWriteHolds`, and `VolumeTables`:
  `SharedTablesHolds`, for any number of volumes, any disks, any journals and any choice of failures
  (`WorkloadAssumption`: volumes are finitely many, failures are Booleans, and
  at first a volume that needs a check is dirty and one that needs none is
  consistent). The invariant is about one volume at a time (`Good`): which of
  its system inodes and tables are there at each place of a call (`Life`,
  `Loaded`), what may be pending (`Pending`), how the dirty bit in memory and on
  the disk are related (`DirtyBit`), that a volume which needs a check is dirty
  or will be before it is off (`Check`), and that a mount of a hibernated one
  changes nothing (`Untouched`). A step takes one volume to a new state and
  leaves the others alone (`To`). `SharedTables` needs sums over the volumes in
  addition: `SInv` adds it to the invariant, and each step is shown to change
  the number of users of a table by as much as its count.

  Four of the theorems have a hypothesis about the environment, each a case in
  which the code gives up the property (section 4): `MftFailsEarly` (for
  `SharedTables`), `FlagsNeedName` (`$Volume` does not fail after its flags are
  cached; the run `volume_dirty_name` shows what happens otherwise)
  and `CrashesOrdered`. `NoInodeWithoutVolumeHolds` has none.

Only model-checked: liveness (`CallsEnd`, `VolumeFreed`, `CallsReturn`), the
refinements (`ImplementsOrderedIndex`, `ImplementsFile`) and `SyncDurable`; what
the recursive computations on runlists, mapping pairs, trees and the journal
return for every input (`AttrRunlist`, `MappingPairs`, `Index`,
`JournalRespected`), and `LockedInOrder`, whose ancestors are computed by
recursion: these need an induction over data, which is out of the prover's
reach, as is liveness; and the properties of the inode cache that ask which
failures have come before, which only `MCInodeCache` records
(`ReusedRecordNotCached`, `PanicNeedsWriteError`, `LostRecordIsNoted`).

## 6. Not modelled, and the plan

The definitions stand for a little less than a third of the lines of `src/kext`:
most of `ntfs_lcnalloc.c` and `ntfs_bitmap.c`, over half of `ntfs_runlist.c`,
`ntfs_index.c` and `ntfs_page.c`, a third of `ntfs_vfsops.c`, over a quarter of
`ntfs_vnops.c`, about a fifth of `ntfs_attr.c`, `ntfs_inode.c` and `ntfs_dir.c`,
and little of `ntfs_mft.c`. The kernel sources under
`src/xnu-main`, by far the largest part of `src`, are the environment of the
driver and not the system under study.

Not modelled at all: the user-space programs, messages, layouts and conversions
(no state, or nothing runs beside them). Not modelled yet, in the order in which
they come:

1. `MftRecords`: searching and extending the mft bitmap and `$MFT`, extent
   records, with the bitmap lock dropped between steps; composed with
   `ClusterAlloc`.
2. `AttrLookup`: attribute lookup and attribute lists over several records.
3. In `Index`: moving the index root attribute to another mft record
   (`ntfs_index.c` 2503-2900), several calls in a row, directory hints of
   readdir.
4. In `Namespace`: a parent found by the filename because the vnode has none, pairs of DOS and WIN32 names, renames that only change the
   case of a name, object ids, read-only and system files, and the kernel's own
   lock around renames of directories, whose absence makes the model's callers
   freer than the real ones.
5. In `FileData`: compressed, encrypted and sparse attributes, IO_SYNC.
6. Multi sector transfer protection with torn writes, decompression, Unicode
   names, security ids.
7. Proofs: that `FileData` implements `File`.

## 7. Running it

    tlc -config InodeCache.cfg MCInodeCache
    tlapm InodeCacheProofs.tla
