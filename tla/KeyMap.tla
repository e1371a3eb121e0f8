------------------------------- MODULE KeyMap -------------------------------
(***************************************************************************)
(* What a Table of table.h promises its users: a map from interned strings *)
(* to values.  Slots, probing, tombstones and resizing do not show.        *)
(***************************************************************************)
CONSTANTS
  Key,         \* the strings used as keys
  Value,       \* the values stored under them
  Absent       \* what a lookup answers for a key that has no value

VARIABLES
  map,         \* the value of every key
  result       \* what the last call returned

Init == map = [k \in Key |-> Absent] /\ result = Absent

(* tableSet: TRUE when the key is new *)
Set(k, v) ==
  /\ map' = [map EXCEPT ![k] = v]
  /\ result' = (map[k] = Absent)

(* tableGet: the value, when the key has one *)
Get(k) == result' = map[k] /\ UNCHANGED map

(* tableDelete: TRUE when the key had a value *)
Delete(k) ==
  /\ map' = [map EXCEPT ![k] = Absent]
  /\ result' = (map[k] # Absent)

(* tableRemoveWhite: all keys the collector has not marked leave at once *)
RemoveWhite(white) ==
  /\ map' = [k \in Key |-> IF k \in white THEN Absent ELSE map[k]]
  /\ UNCHANGED result

Next ==
  \/ \E k \in Key : Get(k) \/ Delete(k) \/ \E v \in Value : Set(k, v)
  \/ \E white \in SUBSET Key : RemoveWhite(white)

Spec == Init /\ [][Next]_<<map, result>>
=============================================================================
