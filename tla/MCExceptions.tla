---------------------------- MODULE MCExceptions ----------------------------
(* Exceptions with small numbers of everything *)
EXTENDS Exceptions, TLC

Kind(catch, named, final) == [catch |-> catch, named |-> named, final |-> final]

(* a catch with a name, one without and a finally block after it, and a    *)
(* finally block alone                                                     *)
SomeKinds == {Kind(TRUE, TRUE, FALSE), Kind(TRUE, FALSE, TRUE), Kind(FALSE, FALSE, TRUE)}

Symmetry == Permutations(Class)
=============================================================================
