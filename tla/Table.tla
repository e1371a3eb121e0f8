------------------------------- MODULE Table -------------------------------
(***************************************************************************)
(* The hash table of table.c: open addressing with linear probing and      *)
(* tombstones.  A call is one step except where it can be interrupted or   *)
(* loops over the slots: tableSet that has to grow asks for memory, which  *)
(* may run a collection that takes white keys out of this very table       *)
(* (vm.strings is one), and then copies slot after slot.                   *)
(***************************************************************************)
EXTENDS Integers, FiniteSets, Values

CONSTANTS
  Key,         \* the strings used as keys, compared by address
  Value,       \* the values stored under them
  False,       \* BOOL_VAL(false); it and Nil tell apart slots without a key
  Hash,        \* Hash[k]: key->hash
  MinCapacity, \* the first capacity, 8 in GROW_CAPACITY
  MaxCapacity, \* bound on the capacity
  Null         \* no key, no array; and no value, for the answer of tableGet

TableAssumption ==
  /\ Hash \in [Key -> Nat]
  /\ MinCapacity \in Nat /\ MinCapacity >= 2 /\ MaxCapacity \in Nat
  /\ {Nil, False} \subseteq Value /\ Nil # False
  /\ Null \notin Key \cup Value \cup BOOLEAN

VARIABLES
  entries,     \* table->entries, a function on 0..capacity-1
  capacity,
  count,       \* table->count: keys and tombstones
  dest,        \* adjustCapacity: the new array,
  index,       \* and the slot it copies next
  call,        \* the tableSet in progress: how far it is, its key and value
  result       \* what the last call returned

tableVars == <<entries, capacity, count>>
copyVars == <<dest, index>>
TableVars == <<tableVars, copyVars, call, result>>

-----------------------------------------------------------------------------
EmptySlot == [key |-> Null, value |-> Nil]
Tombstone == [key |-> Null, value |-> False]

Slot(n) == 0..(n - 1)
Array(n) == [Slot(n) -> [key : Key \cup {Null}, value : Value]]

(* the slot looked at after i collisions; & (capacity - 1) is a remainder  *)
(* because capacities are powers of two                                    *)
Probe(k, i, n) == ((Hash[k] % n) + i) % n

(* mutant: a tombstone ends the probe *)
StopsAtTombstone(E, k, n) ==
  {i \in Slot(n) : E[Probe(k, i, n)].key \in {k, Null}}

(* where findEntry may return: the key, or a slot that was never used *)
Stops(E, k, n) ==
  {i \in Slot(n) : E[Probe(k, i, n)].key = k \/ E[Probe(k, i, n)] = EmptySlot}

Least(S) == CHOOSE i \in S : \A j \in S : i <= j

(* findEntry: the first tombstone on the way when the key is not found *)
FindEntry(E, k, n) ==
  LET stop == Least(Stops(E, k, n))
      passed == {i \in 0..(stop - 1) : E[Probe(k, i, n)].key = Null} IN
  IF E[Probe(k, stop, n)].key # k /\ passed # {}
  THEN Probe(k, Least(passed), n)
  ELSE Probe(k, stop, n)

Found(k) == count # 0 /\ entries[FindEntry(entries, k, capacity)].key = k

GrowCapacity(n) == IF n < MinCapacity THEN MinCapacity ELSE 2 * n

(* mutant: a load factor of 1 *)
OverloadedFull(c, n) == c + 1 > n

(* count + 1 > capacity * TABLE_MAX_LOAD *)
Overloaded(c, n) == 4 * (c + 1) > 3 * n

-----------------------------------------------------------------------------
Idle == [at |-> "idle", key |-> Null, value |-> Nil]
At(pc) == call.at = pc

(* mutant: count goes up for a tombstone that is used again *)
PutCounting(k, v) ==
  LET slot == FindEntry(entries, k, capacity) IN
  /\ result' = (entries[slot].key = Null)
  /\ count' = IF entries[slot].key = Null THEN count + 1 ELSE count
  /\ entries' = [entries EXCEPT ![slot] = [key |-> k, value |-> v]]

(* the end of tableSet *)
Put(k, v) ==
  LET slot == FindEntry(entries, k, capacity) IN
  /\ result' = (entries[slot].key = Null)
  /\ count' = IF entries[slot] = EmptySlot THEN count + 1 ELSE count
  /\ entries' = [entries EXCEPT ![slot] = [key |-> k, value |-> v]]

(* tableSet *)
Set(k, v) ==
  /\ At("idle") /\ ~Overloaded(count, capacity)
  /\ Put(k, v)
  /\ UNCHANGED <<capacity, copyVars, call>>

SetGrowing(k, v) ==
  /\ At("idle") /\ Overloaded(count, capacity)
  /\ GrowCapacity(capacity) <= MaxCapacity
  /\ call' = [at |-> "allocate", key |-> k, value |-> v]
  /\ UNCHANGED <<tableVars, copyVars, result>>

(* adjustCapacity: the new array is there, all slots empty; *)
StartCopy ==
  /\ At("allocate")
  /\ dest' = [i \in Slot(GrowCapacity(capacity)) |-> EmptySlot]
  /\ index' = 0
  /\ count' = 0
  /\ call' = [call EXCEPT !.at = "copy"]
  /\ UNCHANGED <<entries, capacity, result>>

(* a key is put where findEntry says, a slot without a key is dropped; *)
CopySlot ==
  /\ At("copy") /\ index < capacity
  /\ index' = index + 1
  /\ IF entries[index].key = Null THEN UNCHANGED <<dest, count>>
     ELSE /\ dest' = [dest EXCEPT ![FindEntry(dest, entries[index].key,
                                              GrowCapacity(capacity))] = entries[index]]
          /\ count' = count + 1
  /\ UNCHANGED <<entries, capacity, call, result>>

(* mutant: table->capacity keeps its value *)
AdoptOldCapacity ==
  /\ At("copy") /\ index = capacity
  /\ entries' = dest
  /\ dest' = Null /\ index' = 0
  /\ call' = [call EXCEPT !.at = "put"]
  /\ UNCHANGED <<capacity, count, result>>

(* and the new array takes the place of the old one. *)
Adopt ==
  /\ At("copy") /\ index = capacity
  /\ entries' = dest
  /\ capacity' = GrowCapacity(capacity)
  /\ dest' = Null /\ index' = 0
  /\ call' = [call EXCEPT !.at = "put"]
  /\ UNCHANGED <<count, result>>

PutAfterGrowing ==
  /\ At("put")
  /\ Put(call.key, call.value)
  /\ call' = Idle
  /\ UNCHANGED <<capacity, copyVars>>

(* tableGet *)
Get(k) ==
  /\ At("idle")
  /\ result' = IF Found(k) THEN entries[FindEntry(entries, k, capacity)].value ELSE Null
  /\ UNCHANGED <<tableVars, copyVars, call>>

(* mutant: the slot is emptied *)
BuriedEmpty(E, S, n) ==
  LET slots == {FindEntry(E, k, n) : k \in S} IN
  [i \in DOMAIN E |-> IF i \in slots THEN EmptySlot ELSE E[i]]

(* the slots of the keys of S become tombstones *)
Buried(E, S, n) ==
  LET slots == {FindEntry(E, k, n) : k \in S} IN
  [i \in DOMAIN E |-> IF i \in slots THEN Tombstone ELSE E[i]]

(* tableDelete *)
Delete(k) ==
  /\ At("idle")
  /\ result' = Found(k)
  /\ entries' = IF Found(k) THEN Buried(entries, {k}, capacity) ELSE entries
  /\ UNCHANGED <<capacity, count, copyVars, call>>

(* tableRemoveWhite, in a collection between two calls or in the one that  *)
(* the ALLOCATE of adjustCapacity starts; the key to be set is on the stack *)
RemoveWhite(white) ==
  /\ At("idle") \/ (At("allocate") /\ call.key \notin white)
  /\ entries' = Buried(entries, {k \in white : Found(k)}, capacity)
  /\ UNCHANGED <<capacity, count, copyVars, call, result>>

-----------------------------------------------------------------------------
TableInit ==
  /\ entries = [i \in Slot(0) |-> EmptySlot] /\ capacity = 0 /\ count = 0
  /\ dest = Null /\ index = 0
  /\ call = Idle /\ result = Null

Grow == StartCopy \/ CopySlot \/ Adopt \/ PutAfterGrowing

TableNext ==
  \/ \E k \in Key, v \in Value : Set(k, v) \/ SetGrowing(k, v)
  \/ Grow
  \/ \E k \in Key : Get(k) \/ Delete(k)
  \/ \E white \in SUBSET Key : RemoveWhite(white)

TableSpec == TableInit /\ [][TableNext]_TableVars

-----------------------------------------------------------------------------
(* Properties *)

TableTypeOK ==
  /\ capacity \in Nat /\ entries \in Array(capacity)
  /\ count \in Nat /\ index \in 0..capacity
  /\ dest \in {Null} \cup Array(GrowCapacity(capacity))
  /\ call \in [at : {"idle", "allocate", "copy", "put"},
               key : Key \cup {Null}, value : Value]

Used(E) == {i \in DOMAIN E : E[i] # EmptySlot}
Keyed(E) == {i \in DOMAIN E : E[i].key # Null}

(* Every array that is probed has a slot that was never used, so that the  *)
(* unbounded loop of findEntry ends for every key, present or not.         *)
ProbesEnd ==
  /\ capacity > 0 => Used(entries) # DOMAIN entries
  /\ At("copy") => Used(dest) # DOMAIN dest

(* count is the number of slots in use, tombstones included, and stays     *)
(* within the load factor; while copying it counts what has been copied.   *)
CountIsLoad ==
  /\ ~At("copy") => count = Cardinality(Used(entries)) /\ 4 * count <= 3 * capacity
  /\ At("copy") => count = Cardinality(Used(dest))

(* A key is in one slot, and its probe meets no empty slot before that one. *)
Findable(E, n) ==
  \A i \in Keyed(E) :
    /\ \A j \in Keyed(E) : E[i].key = E[j].key => i = j
    /\ FindEntry(E, E[i].key, n) = i
KeysFindable ==
  /\ Findable(entries, capacity)
  /\ At("copy") => /\ Findable(dest, GrowCapacity(capacity))
                   /\ {dest[i] : i \in Keyed(dest)} =
                        {entries[i] : i \in {j \in Keyed(entries) : j < index}}

(* The table is a map: tableGet, tableSet and tableDelete do and answer    *)
(* what KeyMap says, whatever was deleted, copied or collected before.     *)
Contents ==
  [k \in Key |->
     IF \E i \in DOMAIN entries : entries[i].key = k
     THEN entries[CHOOSE i \in DOMAIN entries : entries[i].key = k].value
     ELSE Null]
Promised == INSTANCE KeyMap WITH map <- Contents, Absent <- Null
ImplementsKeyMap == Promised!Spec
=============================================================================
