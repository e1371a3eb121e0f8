------------------------------ MODULE MCBinary ------------------------------
(***************************************************************************)
(* Scripts of four functions for Binary: every nesting of them, with a     *)
(* string or a number before, and a string after, the functions that are   *)
(* written inside.                                                         *)
(***************************************************************************)
EXTENDS Binary

LOCAL INSTANCE SequencesExt

CONSTANTS s, t   \* the strings

Nestings == {parent \in [2..4 -> 1..3] : \A f \in 2..4 : parent[f] < f}

Inside(parent, f) == SetToSortSeq({g \in 2..4 : parent[g] = f}, <)

Scripts ==
  {[f \in 1..4 |-> before[f] \o Inside(parent, f) \o
                     (IF f \in DOMAIN after THEN after[f] ELSE <<>>)] :
     parent \in Nestings,
     before \in [1..4 -> {<<>>, <<s>>, <<Number>>}],
     after \in [1..2 -> {<<>>, <<s>>, <<t>>}]}
=============================================================================
