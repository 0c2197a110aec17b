---------------------------- MODULE MCInodeCache ----------------------------
(* Instances of InodeCache for TLC: model values for threads and inodes,   *)
(* which are interchangeable, and a record of the three failures after     *)
(* which the code gives up a property.                                     *)
EXTENDS InodeCache, TLC

VARIABLE spoilt   \* which of "bdwrite", "eexist" and "getmftbmp" have happened

Symmetry == Permutations(Threads) \cup Permutations(Inodes)

\* A step on which a new record cannot be written or mapped, a name that is to
\* be created exists, or a deleted record keeps its bit for want of the vnode
\* of the mft bitmap.
Spoils ==
    {s \in {"bdwrite", "eexist", "getmftbmp"} :
        \E t \in Threads :
            /\ s = "bdwrite" => /\ pc[t] = "addvnode" /\ pc'[t] = "clear"
                                /\ op'[t] = "createfail"
            /\ s = "eexist" => /\ pc[t] = "direntry" /\ pc'[t] = "clear"
                               /\ op'[t] = "rmerr"
            /\ s = "getmftbmp" => /\ pc[t] = "freerec" /\ pc'[t] = "put"
                                  /\ key[ni[t]] \in bit' /\ ~errors'}

Note == spoilt' = spoilt \cup Spoils

\* Next, action by action, with the record kept.
MCNext == \E t \in Threads :
    \/ \E k \in Keys :
          \/ StartVget(t, k) /\ Note
          \/ StartLookup(t, k) /\ Note
          \/ StartCreate(t, k) /\ Note
    \/ \E i \in Inodes : StartReaper(t, i) /\ Note
    \/ (FindMiss(t) /\ Note) \/ (FindBusy(t) /\ Note) \/ (Sleep(t) /\ Note)
    \/ (FindHit(t) /\ Note) \/ (GetRef(t) /\ Note) \/ (GetRefFails(t) /\ Note)
    \/ (Malloc(t) /\ Note) \/ (MallocFails(t) /\ Note) \/ (Insert(t) /\ Note)
    \/ (CheckCached(t) /\ Note) \/ (CheckFresh(t) /\ Note)
    \/ (Read(t) /\ Note) \/ (ReadFails(t) /\ Note) \/ (ClearAlloc(t) /\ Note)
    \/ (Wake(t) /\ Note) \/ (GetBuf(t) /\ Note) \/ (GetBufInUse(t) /\ Note)
    \/ (GetBufFails(t) /\ Note) \/ (CheckCreate(t) /\ Note)
    \/ (AddVnode(t) /\ Note) \/ (AddVnodeFails(t) /\ Note)
    \/ (DirEntry(t) /\ Note) \/ (DirEntryFails(t) /\ Note)
    \/ (Recycle(t) /\ Note) \/ (Undo(t) /\ Note) \/ (UndoBit(t) /\ Note)
    \/ (Put(t) /\ Note) \/ (InactiveKeep(t) /\ Note)
    \/ (InactiveDelete(t) /\ Note)
    \/ (InactiveWake(t) /\ Note) \/ (FreeRecord(t) /\ Note)
    \/ (Reclaim(t) /\ Note) \/ (ReclaimWake(t) /\ Note)
    \/ (Destroy(t) /\ Note) \/ (Unlink(t) /\ Note) \/ (Close(t) /\ Note)

MCInit == Init /\ spoilt = {}
MCSpec == MCInit /\ [][MCNext]_<<vars, spoilt>>

\* FreeRecordNotCached, as long as no delayed write of a new record has failed
\* (ntfs_mft_record_alloc() then clears the bit of a record it has cached).
ReusedRecordNotCached == "bdwrite" \in spoilt \/ FreeRecordNotCached

\* NoPanic, as long as no delayed write of a new record has failed.
PanicNeedsWriteError == "bdwrite" \in spoilt \/ NoPanic

\* A record that is lost for good (NoRecordLeak) is noted: NVolErrors keeps the
\* volume dirty for chkdsk, whichever of the error paths of
\* ntfs_mft_record_alloc(), ntfs_create(), ntfs_unlink_internal() and
\* ntfs_vnop_inactive() lost it.  Two of them note nothing: a name to be
\* created exists, and the deletion has no vnode of the mft bitmap.
LostRecordIsNoted ==
    spoilt \cap {"eexist", "getmftbmp"} # {} \/ errors \/ NoRecordLeak
=============================================================================
