------------------------------ MODULE MCScopes ------------------------------
(***************************************************************************)
(* Scopes for TLC                                                          *)
(***************************************************************************)
EXTENDS Scopes, TLC

CONSTANTS a, b

Names == Permutations(Name)

(* What is left in the array of locals behind localCount is read by        *)
(* switchStatement only.                                                   *)
InUse == <<[f \in 1..Len(compilers) |-> [compilers[f] EXCEPT
              !.locals = SubSeq(@, 1, compilers[f].localCount)]], syntax, slots, lost>>
=============================================================================
