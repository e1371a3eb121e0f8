------------------------------- MODULE Values -------------------------------
(***************************************************************************)
(* What the modules of data structures share of value.h: the value that    *)
(* marks a free slot, wherever there are slots for values.                 *)
(***************************************************************************)

CONSTANT Nil   \* NIL_VAL
=============================================================================
