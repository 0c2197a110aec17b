--------------------------- MODULE MCMappingPairs ----------------------------
(***************************************************************************)
(* Instances of MappingPairs for model checking.                           *)
(***************************************************************************)
EXTENDS MappingPairs

\* With two bits to a byte: lcns, and differences, of one to three bytes, with
\* and without the sign bit of their top byte.
Places == {LCN_HOLE, 0, 7, 9}
=============================================================================
