---------------------------- MODULE OrderedIndex ----------------------------
(* What an index promises to its callers (ntfs_dir_entry_add(),            *)
(* ntfs_dir_entry_delete() and readdir): a sequence of keys in collation   *)
(* order, to which one call at a time adds a key or from which it deletes  *)
(* one.  A call either takes effect or fails and changes nothing, unless   *)
(* the index is reported damaged, after which nothing is promised.         *)
EXTENDS Integers, Sequences, SequencesExt

CONSTANTS
    Keys,     \* the keys, numbered in collation order
    NoCall    \* no call is being served

VARIABLES
    entries,  \* the keys in the index, in the order in which they are listed
    call,     \* the call being served
    err,      \* how the call ends, once that is decided
    damaged   \* metadata was left inconsistent

vars == <<entries, call, err, damaged>>

Ascending(s) == \A i, j \in DOMAIN s : i < j => s[i] < s[j]

Init ==
    /\ entries \in Seq(Keys) /\ Ascending(entries)
    /\ call = NoCall
    /\ err = "none"
    /\ damaged = FALSE

Call(op, k) ==
    /\ call = NoCall
    /\ op = "delete" => k \in Range(entries)
    /\ call' = [op |-> op, key |-> k]
    /\ UNCHANGED <<entries, err, damaged>>

\* The outcome is decided, and then returned.
Decide(e) ==
    /\ call # NoCall /\ err = "none"
    /\ e = "EEXIST" => call.op = "add"
    /\ err' = e
    /\ UNCHANGED <<entries, call, damaged>>

Return(e) == err = e /\ call' = NoCall /\ err' = "none"

Add ==
    /\ Return("ok")
    /\ call.op = "add" /\ call.key \notin Range(entries)
    /\ \E i \in 1..(Len(entries) + 1) :
          /\ entries' = InsertAt(entries, i, call.key)
          /\ Ascending(entries')
    /\ UNCHANGED damaged

Exists ==
    /\ Return("EEXIST")
    /\ call.key \in Range(entries)
    /\ UNCHANGED <<entries, damaged>>

Delete ==
    /\ Return("ok")
    /\ call.op = "delete"
    /\ entries' = SelectSeq(entries, LAMBDA k : k # call.key)
    /\ UNCHANGED damaged

Fail ==
    /\ Return("error")
    /\ UNCHANGED <<entries, damaged>>

Damage ==
    /\ damaged' = TRUE
    /\ entries' \in Seq(Keys)
    /\ \/ UNCHANGED <<call, err>>
       \/ call # NoCall /\ err' \in {"ok", "error"} /\ UNCHANGED call
       \/ call' = NoCall /\ err' = "none"

Next ==
    \/ \E op \in {"add", "delete"}, k \in Keys : Call(op, k)
    \/ \E e \in {"ok", "EEXIST", "error"} : Decide(e)
    \/ Add \/ Exists \/ Delete \/ Fail \/ Damage

Spec == Init /\ [][Next]_vars
=============================================================================
