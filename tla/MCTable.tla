------------------------------ MODULE MCTable ------------------------------
(***************************************************************************)
(* Table and its iterator with capacities 4 and 8 in place of 8 and 16.    *)
(* Three of the four keys collide in the last of 4 slots and wrap around   *)
(* the end of the array, two collide in 8 slots; the last slot of either   *)
(* array can hold a key, and so can the one before it.                     *)
(***************************************************************************)
EXTENDS TableIterator, TLC

CONSTANTS a, b, c, d

Hashes == a :> 3 @@ b :> 7 @@ c :> 2 @@ d :> 11
=============================================================================
