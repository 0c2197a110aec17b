---------------------------- MODULE MCAttrRunlist ----------------------------
(***************************************************************************)
(* Instances of AttrRunlist for model checking.                            *)
(***************************************************************************)
EXTENDS AttrRunlist

\* Extents are mapped in any order while holes are punched; or the base extent
\* is mapped first, and the attribute grows and shrinks.
SoundLoads ==
    {[changes |-> {"punch"}, baseFirst |-> FALSE],
     [changes |-> {"extend", "undo", "shrink"}, baseFirst |-> TRUE]}
=============================================================================
