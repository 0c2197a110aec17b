------------------------------ MODULE MCBitmap ------------------------------
(***************************************************************************)
(* Instances of Bitmap for model checking.                                 *)
(***************************************************************************)
EXTENDS Bitmap

\* The errors flag only grows, so a run that stops there loses nothing.
UntilErrors == ~errors
=============================================================================
