--------------------------- MODULE TableIterator ---------------------------
(***************************************************************************)
(* The iterator of table.c, driven as fieldNames of reflect.c drives it:   *)
(*   for (it = newTableIterator(); !it.done; advanceTableIterator(&it))    *)
(*     getKeyTableIterator(&it)                                            *)
(* The table does not change meanwhile; a collection only marks it.        *)
(***************************************************************************)
EXTENDS Table

VARIABLES
  it,          \* where the loop is, the TableIterator, and the local of a search
  visited      \* the keys read so far

iteratorVars == <<it, visited>>

NoIterator == [at |-> "none", index |-> 0, done |-> FALSE, slot |-> 0, from |-> "none"]

(* advanceTableIterator is called at a place of the loop and comes back there *)
SearchFrom(place) == [it EXCEPT !.at = "search", !.slot = it.index + 1, !.from = place]

(* mutant: the first slot is not tested *)
NewIteratorAtZero ==
  /\ At("idle") /\ it.at = "none"
  /\ it' = [NoIterator EXCEPT !.at = "loop"]
  /\ UNCHANGED <<TableVars, visited>>

(* newTableIterator starts on slot 0, *)
NewIterator ==
  /\ At("idle") /\ it.at = "none"
  /\ it' = [NoIterator EXCEPT !.at = "test"]
  /\ UNCHANGED <<TableVars, visited>>

(* and goes on while there is no key in its slot.  A table that was never  *)
(* set has no array (entries is NULL): what is read there is undefined.    *)
TestSlot ==
  /\ it.at = "test"
  /\ \/ it.index \notin DOMAIN entries /\ it' = [it EXCEPT !.at = "astray"]
     \/ it.index \in Keyed(entries) /\ it' = [it EXCEPT !.at = "loop"]
     \/ /\ it.index \in DOMAIN entries \ Keyed(entries)
        /\ it' = SearchFrom("test")
  /\ UNCHANGED <<TableVars, visited>>

(* the body of the loop, with getKeyTableIterator, and its increment *)
ReadKey ==
  /\ it.at = "loop" /\ ~it.done
  /\ visited' = visited \cup {entries[it.index].key}
  /\ it' = SearchFrom("loop")
  /\ UNCHANGED TableVars

(* mutant: the last slot is left out *)
SearchesShort == ~it.done /\ it.slot + 1 < capacity

Searches == ~it.done /\ it.slot < capacity

(* advanceTableIterator, a round of its search at a time.  The slot wraps  *)
(* around, so that only a search from the last slot can end without a key. *)
Search ==
  /\ it.at = "search"
  /\ \/ /\ Searches /\ it.slot \in Keyed(entries)
        /\ it' = [it EXCEPT !.at = it.from, !.index = it.slot]
     \/ /\ Searches /\ it.slot \notin Keyed(entries)
        /\ it' = [it EXCEPT !.slot = (it.slot + 1) % capacity]
     \/ ~Searches /\ it' = [it EXCEPT !.at = it.from, !.done = TRUE]
  /\ UNCHANGED <<TableVars, visited>>

Return ==
  /\ it.at = "loop" /\ it.done
  /\ it' = NoIterator /\ visited' = {}
  /\ UNCHANGED TableVars

Iterate == NewIterator \/ TestSlot \/ ReadKey \/ Search \/ Return

IteratorInit == TableInit /\ it = NoIterator /\ visited = {}

TableStep == it.at = "none" /\ TableNext /\ UNCHANGED iteratorVars

IteratorVars == <<TableVars, iteratorVars>>

(* fieldNames is a loop nothing interrupts *)
IteratorSpec ==
  /\ IteratorInit /\ [][TableStep \/ Iterate]_IteratorVars
  /\ WF_IteratorVars(TestSlot \/ ReadKey \/ Search \/ Return)

-----------------------------------------------------------------------------
(* Properties *)

(* "Tried to iterate over an empty slot", the assertion of                 *)
(* getKeyTableIterator, never fires, and the iterator looks beyond the     *)
(* array only when there is none: in fieldNames of an instance that never  *)
(* had a field.                                                            *)
ReadsKeys ==
  /\ it.at = "loop" /\ ~it.done => it.index \in Keyed(entries)
  /\ it.at = "astray" => capacity = 0

(* An iteration that says it is done has read every key of the table.      *)
DoneReadAll ==
  it.at = "loop" /\ it.done => visited = {entries[i].key : i \in Keyed(entries)}

(* fieldNames of an instance that has fields returns.  test.lox calls it   *)
(* and prints what it returned.                                            *)
IterationEnds == it.at # "none" /\ Keyed(entries) # {} ~> it.at = "none"
=============================================================================
