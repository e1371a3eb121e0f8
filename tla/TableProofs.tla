----------------------------- MODULE TableProofs -----------------------------
(***************************************************************************)
(* The hash table of table.c is a map, for any keys, hashes, values and    *)
(* capacities: the search for a key ends, finds the key when it is there   *)
(* and only then, and neither growth nor the collector loses one.  The     *)
(* invariant is about distances on a probe instead of the least of them:   *)
(* every key lies at the end of a probe without an empty slot, and an      *)
(* array under copy holds what has been copied.                            *)
(***************************************************************************)
EXTENDS TableIterator, FiniteSetTheorems, WellFoundedInduction, TLAPS

(* Every key is in one slot, at the end of a probe that meets no empty slot *)
(* before it.                                                              *)
Unique(E) == \A i, j \in Keyed(E) : E[i].key = E[j].key => i = j

Clear(E, k, n, m) == \A e \in 0..(m - 1) : E[Probe(k, e, n)] # EmptySlot

Placed(E, n) ==
  \A i \in Keyed(E) : \E m \in Slot(n) :
    Probe(E[i].key, m, n) = i /\ Clear(E, E[i].key, n, m)

Room(E) == \E i \in DOMAIN E : E[i] = EmptySlot

Copied == {i \in Keyed(entries) : i < index}

Copying ==
  /\ dest \in Array(GrowCapacity(capacity))
  /\ Unique(dest) /\ Placed(dest, GrowCapacity(capacity))
  /\ Used(dest) = Keyed(dest)
  /\ count = Cardinality(Used(dest)) /\ count = Cardinality(Copied)
  /\ {dest[i] : i \in Keyed(dest)} = {entries[i] : i \in Copied}

TInv ==
  /\ TableTypeOK
  /\ capacity = 0 \/ capacity >= MinCapacity
  /\ ~At("idle") => call.key \in Key
  /\ Unique(entries) /\ Placed(entries, capacity)
  /\ 4 * Cardinality(Used(entries)) <= 3 * capacity
  /\ ~At("copy") => count = Cardinality(Used(entries))
  /\ At("put") => ~Overloaded(count, capacity)
  /\ At("copy") => Copying

-----------------------------------------------------------------------------
(* Least numbers, and remainders *)

LEMMA NaturalsHaveLeast ==
  ASSUME NEW S, S \subseteq Nat, S # {}
  PROVE  \E i \in S : \A j \in S : i <= j
<1>1. IsWellFoundedOn(OpToRel(<, Nat), Nat)
  BY NatLessThanWellFounded
<1>2. PICK x \in S : \A y \in S : <<y, x>> \notin OpToRel(<, Nat)
  BY <1>1, WFMin
<1>3. \A y \in S : ~(y < x)
  BY <1>2 DEF OpToRel
<1> QED
  BY <1>3

LEMMA LeastOf ==
  ASSUME NEW S, S \subseteq Nat, S # {}
  PROVE  Least(S) \in S /\ \A j \in S : Least(S) <= j
BY NaturalsHaveLeast DEF Least

(* x modulo m, for the x that occur *)
Wrap(x, m) == IF x < m THEN x ELSE x - m

LEMMA WrapMod ==
  ASSUME NEW m \in Nat \ {0}, NEW x \in Nat, x < 2 * m
  PROVE  x % m = Wrap(x, m) /\ Wrap(x, m) \in 0..(m - 1)
<1>1. CASE x < m
  BY <1>1 DEF Wrap
<1>2. CASE x >= m
  BY <1>2 DEF Wrap
<1> QED
  BY <1>1, <1>2

-----------------------------------------------------------------------------
(* A probe visits every slot once. *)

LEMMA ProbeWraps ==
  ASSUME TableAssumption, NEW n \in Nat \ {0}, NEW k \in Key
  PROVE  /\ Hash[k] % n \in Slot(n)
         /\ \A i \in Slot(n) : /\ Probe(k, i, n) = Wrap((Hash[k] % n) + i, n)
                               /\ Probe(k, i, n) \in Slot(n)
<1>1. Hash[k] \in Nat
  BY DEF TableAssumption
<1>2. Hash[k] % n \in Slot(n)
  BY <1>1 DEF Slot
<1>3. ASSUME NEW i \in Slot(n)
      PROVE  Probe(k, i, n) = Wrap((Hash[k] % n) + i, n) /\ Probe(k, i, n) \in Slot(n)
  <2>1. (Hash[k] % n) + i \in Nat /\ (Hash[k] % n) + i < 2 * n
    BY <1>2, <1>3 DEF Slot
  <2> QED
    BY <2>1, WrapMod DEF Probe, Slot
<1> QED
  BY <1>2, <1>3

LEMMA ProbeInjective ==
  ASSUME TableAssumption, NEW n \in Nat \ {0}, NEW k \in Key,
         NEW i \in Slot(n), NEW j \in Slot(n), Probe(k, i, n) = Probe(k, j, n)
  PROVE  i = j
<1>1. /\ Hash[k] % n \in Slot(n)
      /\ Wrap((Hash[k] % n) + i, n) = Wrap((Hash[k] % n) + j, n)
  BY ProbeWraps
<1> DEFINE h == Hash[k] % n
<1>2. h \in Slot(n) /\ Wrap(h + i, n) = Wrap(h + j, n)
  BY <1>1
<1> HIDE DEF h
<1> QED
  BY <1>2 DEF Wrap, Slot

LEMMA ProbeOnto ==
  ASSUME TableAssumption, NEW n \in Nat \ {0}, NEW k \in Key, NEW s \in Slot(n)
  PROVE  \E i \in Slot(n) : Probe(k, i, n) = s
<1> DEFINE h == Hash[k] % n
<1>1. h \in Slot(n) /\ \A i \in Slot(n) : Probe(k, i, n) = Wrap(h + i, n)
  BY ProbeWraps
<1> HIDE DEF h
<1>2. CASE s >= h
  <2>1. s - h \in Slot(n) /\ Wrap(h + (s - h), n) = s
    BY <1>1, <1>2 DEF Wrap, Slot
  <2> QED
    BY <1>1, <2>1
<1>3. CASE s < h
  <2>1. s - h + n \in Slot(n) /\ Wrap(h + (s - h + n), n) = s
    BY <1>1, <1>3 DEF Wrap, Slot
  <2> QED
    BY <1>1, <2>1
<1> QED
  BY <1>1, <1>2, <1>3 DEF Slot

-----------------------------------------------------------------------------
(* What findEntry returns *)

(* An array with room stops every probe. *)
LEMMA ProbeStops ==
  ASSUME TableAssumption, NEW n \in Nat \ {0}, NEW E \in Array(n), Room(E), NEW k \in Key
  PROVE  LET stop == Least(Stops(E, k, n)) IN
         /\ stop \in Slot(n)
         /\ E[Probe(k, stop, n)].key = k \/ E[Probe(k, stop, n)] = EmptySlot
         /\ \A e \in 0..(stop - 1) : /\ E[Probe(k, e, n)].key # k
                                     /\ E[Probe(k, e, n)] # EmptySlot
<1>1. PICK s \in Slot(n) : E[s] = EmptySlot
  BY DEF Room, Array
<1>2. PICK i \in Slot(n) : Probe(k, i, n) = s
  BY ProbeOnto
<1>3. i \in Stops(E, k, n) /\ Stops(E, k, n) \subseteq Slot(n) /\ Slot(n) \subseteq Nat
  BY <1>1, <1>2 DEF Stops, Slot
<1> DEFINE stop == Least(Stops(E, k, n))
<1>4. stop \in Stops(E, k, n) /\ \A j \in Stops(E, k, n) : stop <= j
  BY <1>3, LeastOf
<1> HIDE DEF stop
<1>5. stop \in Slot(n)
  BY <1>3, <1>4
<1>6. \A e \in 0..(stop - 1) : e \in Slot(n) /\ e \notin Stops(E, k, n)
  BY <1>4, <1>5 DEF Slot
<1>7. /\ stop \in Slot(n)
      /\ E[Probe(k, stop, n)].key = k \/ E[Probe(k, stop, n)] = EmptySlot
      /\ \A e \in 0..(stop - 1) : /\ E[Probe(k, e, n)].key # k
                                  /\ E[Probe(k, e, n)] # EmptySlot
  BY <1>4, <1>5, <1>6 DEF Stops
<1> QED
  BY <1>7 DEF stop

(* A key that is there is found. *)
LEMMA FindsPresent ==
  ASSUME TableAssumption, NEW n \in Nat \ {0}, NEW E \in Array(n), Room(E),
         Unique(E), Placed(E, n), NEW i \in Keyed(E), E[i].key \in Key
  PROVE  FindEntry(E, E[i].key, n) = i
<1> DEFINE k == E[i].key
           stop == Least(Stops(E, k, n))
<1>0. k \in Key /\ Null \notin Key /\ EmptySlot.key = Null
  BY DEF TableAssumption, EmptySlot
<1>1. PICK m \in Slot(n) : Probe(k, m, n) = i /\ Clear(E, k, n, m)
  BY DEF Placed
<1>2. /\ stop \in Slot(n)
      /\ E[Probe(k, stop, n)].key = k \/ E[Probe(k, stop, n)] = EmptySlot
      /\ \A e \in 0..(stop - 1) : /\ E[Probe(k, e, n)].key # k
                                  /\ E[Probe(k, e, n)] # EmptySlot
  BY <1>0, ProbeStops
<1>3. m \notin 0..(stop - 1)
  BY <1>1, <1>2
<1>4. ASSUME stop \in 0..(m - 1) PROVE FALSE
  <2>1. E[Probe(k, stop, n)].key = k
    BY <1>1, <1>2, <1>4 DEF Clear
  <2>2. Probe(k, stop, n) \in Keyed(E)
    <3>1. Probe(k, stop, n) \in DOMAIN E
      BY <1>0, <1>2, ProbeWraps DEF Array
    <3> QED
      BY <2>1, <3>1, <1>0 DEF Keyed
  <2>3. Probe(k, stop, n) = Probe(k, m, n)
    BY <1>1, <2>1, <2>2 DEF Unique
  <2> QED
    BY <1>0, <1>2, <1>4, <2>3, ProbeInjective DEF Slot
<1>5. stop = m
  BY <1>2, <1>3, <1>4 DEF Slot
<1> QED
  BY <1>1, <1>5 DEF FindEntry

(* For a key that is not there the answer is a slot where it can be put. *)
LEMMA FindsFree ==
  ASSUME TableAssumption, NEW n \in Nat \ {0}, NEW E \in Array(n), Room(E),
         NEW k \in Key, \A i \in Keyed(E) : E[i].key # k
  PROVE  \E m \in Slot(n) : /\ FindEntry(E, k, n) = Probe(k, m, n)
                            /\ E[Probe(k, m, n)].key = Null /\ Clear(E, k, n, m)
<1> DEFINE stop == Least(Stops(E, k, n))
           passed == {i \in 0..(stop - 1) : E[Probe(k, i, n)].key = Null}
<1>0. Null \notin Key /\ EmptySlot.key = Null
  BY DEF TableAssumption, EmptySlot
<1>1. /\ stop \in Slot(n)
      /\ E[Probe(k, stop, n)].key = k \/ E[Probe(k, stop, n)] = EmptySlot
      /\ \A e \in 0..(stop - 1) : /\ E[Probe(k, e, n)].key # k
                                  /\ E[Probe(k, e, n)] # EmptySlot
  BY ProbeStops
<1>2. Probe(k, stop, n) \in DOMAIN E
  BY <1>1, ProbeWraps DEF Array
<1>3. E[Probe(k, stop, n)].key # k
  BY <1>0, <1>2 DEF Keyed
<1>4. E[Probe(k, stop, n)].key = Null
  BY <1>0, <1>1, <1>3
<1>5. CASE passed = {}
  <2>1. FindEntry(E, k, n) = Probe(k, stop, n)
    BY <1>5 DEF FindEntry
  <2> QED
    BY <1>1, <1>4, <2>1 DEF Clear
<1>6. CASE passed # {}
  <2>1. FindEntry(E, k, n) = Probe(k, Least(passed), n)
    BY <1>3, <1>6 DEF FindEntry
  <2>2. passed \subseteq Nat
    BY DEF Slot
  <2>3. Least(passed) \in passed
    BY <1>6, <2>2, LeastOf
  <2> DEFINE m == Least(passed)
  <2>4. m \in 0..(stop - 1) /\ E[Probe(k, m, n)].key = Null
    BY <2>3
  <2> HIDE DEF m
  <2>5. m \in Slot(n) /\ Clear(E, k, n, m)
    BY <1>1, <2>4 DEF Clear, Slot
  <2> QED
    BY <2>1, <2>4, <2>5 DEF m
<1> QED
  BY <1>5, <1>6

LEMMA FoundSlot ==
  ASSUME TableAssumption, NEW n \in Nat \ {0}, NEW E \in Array(n), Room(E),
         Unique(E), Placed(E, n), NEW k \in Key
  PROVE  /\ FindEntry(E, k, n) \in Slot(n)
         /\ E[FindEntry(E, k, n)].key \in {k, Null}
         /\ \A i \in Keyed(E) : E[i].key = k => i = FindEntry(E, k, n)
<1>1. CASE \E i \in Keyed(E) : E[i].key = k
  <2>1. PICK i \in Keyed(E) : E[i].key = k
    BY <1>1
  <2>2. FindEntry(E, k, n) = i /\ i \in Slot(n)
    BY <2>1, FindsPresent DEF Keyed, Array
  <2> QED
    BY <2>1, <2>2 DEF Unique
<1>2. CASE \A i \in Keyed(E) : E[i].key # k
  <2>1. PICK m \in Slot(n) : /\ FindEntry(E, k, n) = Probe(k, m, n)
                             /\ E[Probe(k, m, n)].key = Null
    BY <1>2, FindsFree
  <2> QED
    BY <1>2, <2>1, ProbeWraps
<1> QED
  BY <1>1, <1>2

-----------------------------------------------------------------------------
(* What a key put into an array, or taken out of it, changes *)

Filled(E, k, v, n) == [E EXCEPT ![FindEntry(E, k, n)] = [key |-> k, value |-> v]]

LEMMA FilledParts ==
  ASSUME TableAssumption, NEW n \in Nat \ {0}, NEW E \in Array(n), Room(E),
         Unique(E), Placed(E, n), NEW k \in Key, NEW v \in Value
  PROVE  LET s == FindEntry(E, k, n) F == Filled(E, k, v, n) IN
         /\ s \in Slot(n)
         /\ F \in Array(n) /\ F[s] = [key |-> k, value |-> v]
         /\ \A i \in Slot(n) : i # s => F[i] = E[i] /\ (i \in Keyed(E) => E[i].key # k)
         /\ Keyed(F) = Keyed(E) \cup {s} /\ Used(F) = Used(E) \cup {s}
<1> DEFINE s == FindEntry(E, k, n)
           F == Filled(E, k, v, n)
<1>1. s \in Slot(n) /\ \A i \in Keyed(E) : E[i].key = k => i = s
  BY FoundSlot
<1>2. F = [E EXCEPT ![s] = [key |-> k, value |-> v]]
  BY DEF Filled
<1> HIDE DEF s, F
<1>3. F \in Array(n) /\ F[s] = [key |-> k, value |-> v] /\ \A i \in Slot(n) : i # s => F[i] = E[i]
  BY <1>1, <1>2 DEF Array
<1>4. DOMAIN F = Slot(n) /\ DOMAIN E = Slot(n)
  BY <1>3 DEF Array
<1>5. F[s].key # Null /\ F[s] # EmptySlot
  BY <1>3 DEF TableAssumption, EmptySlot
<1>6. Keyed(F) = Keyed(E) \cup {s} /\ Used(F) = Used(E) \cup {s}
  BY <1>1, <1>3, <1>4, <1>5 DEF Keyed, Used
<1>7. /\ s \in Slot(n)
      /\ F \in Array(n) /\ F[s] = [key |-> k, value |-> v]
      /\ \A i \in Slot(n) : i # s => F[i] = E[i] /\ (i \in Keyed(E) => E[i].key # k)
      /\ Keyed(F) = Keyed(E) \cup {s} /\ Used(F) = Used(E) \cup {s}
  BY <1>1, <1>3, <1>6
<1> QED
  BY <1>7 DEF s, F

LEMMA FilledPlaced ==
  ASSUME TableAssumption, NEW n \in Nat \ {0}, NEW E \in Array(n), Room(E),
         Unique(E), Placed(E, n), NEW k \in Key, NEW v \in Value
  PROVE  Unique(Filled(E, k, v, n)) /\ Placed(Filled(E, k, v, n), n)
<1> DEFINE s == FindEntry(E, k, n)
           F == Filled(E, k, v, n)
<1>1. /\ s \in Slot(n)
      /\ F \in Array(n) /\ F[s] = [key |-> k, value |-> v]
      /\ \A i \in Slot(n) : i # s => F[i] = E[i] /\ (i \in Keyed(E) => E[i].key # k)
      /\ Keyed(F) = Keyed(E) \cup {s}
  BY FilledParts
<1>2. \E m \in Slot(n) : s = Probe(k, m, n) /\ Clear(E, k, n, m)
  <2>1. CASE \E i \in Keyed(E) : E[i].key = k
    <3>1. PICK i \in Keyed(E) : E[i].key = k
      BY <2>1
    <3>2. s = i
      BY <3>1, FindsPresent
    <3> QED
      BY <3>1, <3>2 DEF Placed
  <2>2. CASE \A i \in Keyed(E) : E[i].key # k
    BY <2>2, FindsFree
  <2> QED
    BY <2>1, <2>2
<1> HIDE DEF s, F
<1>3. Keyed(E) \subseteq Slot(n) /\ \A i \in Keyed(E) : E[i].key \in Key
  BY DEF Keyed, Array
<1>4. Unique(F)
  <2> SUFFICES ASSUME NEW i \in Keyed(F), NEW j \in Keyed(F), F[i].key = F[j].key
               PROVE  i = j
    BY DEF Unique
  <2>1. F[s].key = k
    BY <1>1
  <2>2. CASE i = s \/ j = s
    BY <1>1, <1>3, <2>1, <2>2
  <2>3. CASE i # s /\ j # s
    BY <1>1, <1>3, <2>3 DEF Unique
  <2> QED
    BY <2>2, <2>3
<1>5. ASSUME NEW q \in Key, NEW m \in Slot(n), Clear(E, q, n, m)
      PROVE  Clear(F, q, n, m)
  <2> SUFFICES ASSUME NEW e \in 0..(m - 1)
               PROVE  F[Probe(q, e, n)] # EmptySlot
    BY DEF Clear
  <2>1. e \in Slot(n)
    BY DEF Slot
  <2>2. Probe(q, e, n) \in Slot(n) /\ E[Probe(q, e, n)] # EmptySlot
    BY <1>5, <2>1, ProbeWraps DEF Clear
  <2>3. F[s] # EmptySlot
    BY <1>1 DEF EmptySlot, TableAssumption
  <2> QED
    BY <1>1, <2>2, <2>3
<1>6. Placed(F, n)
  <2> SUFFICES ASSUME NEW i \in Keyed(F)
               PROVE  \E m \in Slot(n) : Probe(F[i].key, m, n) = i /\ Clear(F, F[i].key, n, m)
    BY DEF Placed
  <2>1. CASE i = s
    BY <1>1, <1>2, <1>5, <2>1
  <2>2. CASE i # s
    <3>1. i \in Keyed(E) /\ F[i] = E[i] /\ E[i].key \in Key
      BY <1>1, <1>3, <2>2
    <3> QED
      BY <3>1, <1>5 DEF Placed
  <2> QED
    BY <2>1, <2>2
<1> QED
  BY <1>4, <1>6 DEF F

(* Tombstones keep the probes of the other keys as they were. *)
LEMMA BuriedParts ==
  ASSUME TableAssumption, NEW n \in Nat \ {0}, NEW E \in Array(n), Room(E),
         Unique(E), Placed(E, n), NEW S \in SUBSET Key,
         \A k \in S : \E i \in Keyed(E) : E[i].key = k
  PROVE  LET B == Buried(E, S, n) IN
         /\ B \in Array(n) /\ Used(B) = Used(E)
         /\ Keyed(B) = {i \in Keyed(E) : E[i].key \notin S}
         /\ \A i \in Keyed(B) : B[i] = E[i]
         /\ Unique(B) /\ Placed(B, n)
<1> DEFINE B == Buried(E, S, n)
           slots == {FindEntry(E, k, n) : k \in S}
<1>1. slots = {i \in Keyed(E) : E[i].key \in S}
  <2>1. ASSUME NEW k \in S
        PROVE  FindEntry(E, k, n) \in Keyed(E) /\ E[FindEntry(E, k, n)].key = k
    <3>1. PICK i \in Keyed(E) : E[i].key = k
      OBVIOUS
    <3> QED
      BY <3>1, FindsPresent
  <2>2. ASSUME NEW i \in Keyed(E), E[i].key \in S
        PROVE  i \in slots
    BY <2>2, FindsPresent
  <2> QED
    BY <2>1, <2>2
<1>2. B = [i \in Slot(n) |-> IF i \in slots THEN Tombstone ELSE E[i]]
  BY DEF Buried, Array
<1> HIDE DEF slots, B
<1>3. /\ Tombstone # EmptySlot /\ Tombstone.key = Null /\ EmptySlot.key = Null
      /\ Tombstone \in [key : Key \cup {Null}, value : Value]
  BY DEF Tombstone, EmptySlot, TableAssumption
<1>4. DOMAIN E = Slot(n) /\ \A i \in Slot(n) : E[i] \in [key : Key \cup {Null}, value : Value]
  BY DEF Array
<1>5. B \in Array(n) /\ DOMAIN B = Slot(n)
  BY <1>2, <1>3, <1>4 DEF Array
<1>6. Used(B) = Used(E)
  BY <1>1, <1>2, <1>3, <1>4, <1>5 DEF Used, Keyed
<1>7. Keyed(B) = {i \in Keyed(E) : E[i].key \notin S}
  BY <1>1, <1>2, <1>3, <1>4, <1>5 DEF Keyed
<1>8. \A i \in Keyed(B) : B[i] = E[i] /\ i \in Slot(n)
  BY <1>1, <1>2, <1>4, <1>7 DEF Keyed
<1>9. Unique(B)
  BY <1>7, <1>8 DEF Unique
<1>10. Placed(B, n)
  <2> SUFFICES ASSUME NEW i \in Keyed(B)
               PROVE  \E m \in Slot(n) : Probe(B[i].key, m, n) = i /\ Clear(B, B[i].key, n, m)
    BY DEF Placed
  <2>1. i \in Keyed(E) /\ B[i] = E[i] /\ E[i].key \in Key
    BY <1>4, <1>7, <1>8 DEF Keyed
  <2>2. PICK m \in Slot(n) : Probe(E[i].key, m, n) = i /\ Clear(E, E[i].key, n, m)
    BY <2>1 DEF Placed
  <2>3. ASSUME NEW e \in 0..(m - 1)
        PROVE  B[Probe(E[i].key, e, n)] # EmptySlot
    <3>1. e \in Slot(n)
      BY DEF Slot
    <3>2. Probe(E[i].key, e, n) \in Slot(n) /\ E[Probe(E[i].key, e, n)] # EmptySlot
      BY <2>1, <2>2, <3>1, ProbeWraps DEF Clear
    <3> QED
      BY <1>2, <1>3, <3>2
  <2> QED
    BY <2>1, <2>2, <2>3 DEF Clear
<1>11. /\ B \in Array(n) /\ Used(B) = Used(E)
       /\ Keyed(B) = {i \in Keyed(E) : E[i].key \notin S}
       /\ \A i \in Keyed(B) : B[i] = E[i]
       /\ Unique(B) /\ Placed(B, n)
  BY <1>5, <1>6, <1>7, <1>8, <1>9, <1>10
<1> QED
  BY <1>11 DEF B

-----------------------------------------------------------------------------
(* There is room in every array that is probed. *)

LEMMA UsedFinite ==
  ASSUME NEW n \in Nat, NEW E \in Array(n)
  PROVE  /\ IsFiniteSet(Used(E)) /\ Cardinality(Used(E)) \in Nat
         /\ Used(E) \subseteq Slot(n) /\ Keyed(E) \subseteq Used(E)
         /\ Cardinality(Used(E)) < n => Room(E)
<1>1. IsFiniteSet(Slot(n)) /\ Cardinality(Slot(n)) = n
  BY FS_Interval DEF Slot
<1>2. Used(E) \subseteq Slot(n) /\ Keyed(E) \subseteq Used(E)
  BY DEF Used, Keyed, Array, EmptySlot
<1>3. IsFiniteSet(Used(E))
  BY <1>1, <1>2, FS_Subset
<1>4. Cardinality(Used(E)) \in Nat
  BY <1>3, FS_CardinalityType
<1>5. ASSUME ~Room(E)
      PROVE  Used(E) = Slot(n)
  BY <1>5 DEF Room, Used, Array
<1> QED
  BY <1>1, <1>2, <1>3, <1>4, <1>5

LEMMA Growth ==
  ASSUME TableAssumption, TInv
  PROVE  /\ GrowCapacity(capacity) \in Nat \ {0} /\ capacity < GrowCapacity(capacity)
         /\ GrowCapacity(capacity) >= MinCapacity
         /\ \A n \in Nat : 4 * n <= 3 * capacity => ~Overloaded(n, GrowCapacity(capacity))
BY DEF TableAssumption, TInv, TableTypeOK, GrowCapacity, Overloaded

LEMMA EntriesFacts ==
  ASSUME TableAssumption, TInv
  PROVE  /\ capacity \in Nat /\ entries \in Array(capacity)
         /\ capacity > 0 => Room(entries)
         /\ capacity = 0 => Keyed(entries) = {} /\ Used(entries) = {}
         /\ IsFiniteSet(Used(entries)) /\ Cardinality(Used(entries)) \in Nat
         /\ Keyed(entries) \subseteq Used(entries) /\ Keyed(entries) \subseteq Slot(capacity)
         /\ \A i \in Keyed(entries) : entries[i].key \in Key /\ entries[i].value \in Value
<1>1. capacity \in Nat /\ entries \in Array(capacity)
  BY DEF TInv, TableTypeOK
<1>2. capacity > 0 => Room(entries)
  BY <1>1, UsedFinite DEF TInv
<1>3. \A i \in Keyed(entries) : entries[i].key \in Key /\ entries[i].value \in Value
  BY <1>1 DEF Keyed, Array
<1>4. capacity = 0 => Keyed(entries) = {} /\ Used(entries) = {}
  BY <1>1, UsedFinite DEF Slot
<1>5. /\ IsFiniteSet(Used(entries)) /\ Cardinality(Used(entries)) \in Nat
      /\ Keyed(entries) \subseteq Used(entries) /\ Keyed(entries) \subseteq Slot(capacity)
  BY <1>1, UsedFinite
<1> QED
  BY <1>1, <1>2, <1>3, <1>4, <1>5

LEMMA CopyFacts ==
  ASSUME TableAssumption, TInv, At("copy")
  PROVE  /\ Room(dest) /\ count \in Nat /\ 4 * count <= 3 * capacity
         /\ Copied \subseteq Keyed(entries) /\ IsFiniteSet(Copied)
         /\ \A i \in Keyed(dest) : dest[i].key \in Key /\ dest[i].value \in Value
<1>1. /\ capacity \in Nat /\ 4 * Cardinality(Used(entries)) <= 3 * capacity
      /\ capacity < GrowCapacity(capacity) /\ GrowCapacity(capacity) \in Nat
      /\ dest \in Array(GrowCapacity(capacity))
      /\ count = Cardinality(Used(dest)) /\ count = Cardinality(Copied)
  BY EntriesFacts, Growth DEF TInv, Copying
<1>2. Copied \subseteq Keyed(entries) /\ Copied \in SUBSET Used(entries)
  BY EntriesFacts DEF Copied
<1>3. IsFiniteSet(Copied) /\ Cardinality(Copied) <= Cardinality(Used(entries))
      /\ Cardinality(Copied) \in Nat
  BY <1>2, EntriesFacts, FS_Subset, FS_CardinalityType
<1>4. Cardinality(Used(entries)) \in Nat
  BY EntriesFacts
<1>5. count \in Nat /\ 4 * count <= 3 * capacity
  BY <1>1, <1>3, <1>4
<1>6. Room(dest)
  <2>1. count < GrowCapacity(capacity)
    BY <1>1, <1>5
  <2> QED
    BY <1>1, <2>1, UsedFinite
<1>7. \A i \in Keyed(dest) : dest[i].key \in Key /\ dest[i].value \in Value
  BY <1>1 DEF Keyed, Array
<1> QED
  BY <1>2, <1>3, <1>5, <1>6, <1>7

(* tableGet and tableDelete find a key when it is there, and only then. *)
LEMMA FoundIsThere ==
  ASSUME TableAssumption, TInv, ~At("copy"), NEW k \in Key
  PROVE  /\ Found(k) <=> \E i \in Keyed(entries) : entries[i].key = k
         /\ \A i \in Keyed(entries) : entries[i].key = k => FindEntry(entries, k, capacity) = i
<1>1. /\ capacity \in Nat /\ entries \in Array(capacity)
      /\ Unique(entries) /\ Placed(entries, capacity)
      /\ count = Cardinality(Used(entries))
      /\ 4 * count <= 3 * capacity /\ count \in Nat
  BY EntriesFacts DEF TInv
<1>2. CASE count = 0
  <2>1. Keyed(entries) = {}
    BY <1>1, <1>2, EntriesFacts, FS_EmptySet
  <2> QED
    BY <1>2, <2>1 DEF Found
<1>3. CASE count # 0
  <2>1. capacity \in Nat \ {0} /\ Room(entries)
    BY <1>1, <1>3, EntriesFacts
  <2>2. /\ FindEntry(entries, k, capacity) \in Slot(capacity)
        /\ \A i \in Keyed(entries) : entries[i].key = k => i = FindEntry(entries, k, capacity)
    BY <1>1, <2>1, FoundSlot
  <2>3. DOMAIN entries = Slot(capacity) /\ k # Null
    BY <1>1 DEF Array, TableAssumption
  <2>4. FindEntry(entries, k, capacity) \in Keyed(entries) <=>
          entries[FindEntry(entries, k, capacity)].key # Null
    BY <2>2, <2>3 DEF Keyed
  <2> QED
    BY <1>3, <2>2, <2>3, <2>4 DEF Found
<1> QED
  BY <1>2, <1>3

-----------------------------------------------------------------------------
(* The invariant, action by action *)

LEMMA InitTInv == TableAssumption /\ TableInit => TInv
<1> SUFFICES ASSUME TableAssumption, TableInit PROVE TInv
  OBVIOUS
<1>1. entries \in Array(0) /\ Keyed(entries) = {} /\ Used(entries) = {}
  BY DEF TableInit, Array, Slot, Keyed, Used
<1>2. Cardinality(Used(entries)) = 0
  BY <1>1, FS_EmptySet
<1>3. TableTypeOK
  BY <1>1 DEF TableInit, TableTypeOK, Idle, TableAssumption
<1> QED
  BY <1>1, <1>2, <1>3 DEF TableInit, TInv, Idle, At, Unique, Placed

(* the end of tableSet *)
LEMMA PutFacts ==
  ASSUME TableAssumption, TInv, ~At("copy"), ~Overloaded(count, capacity),
         NEW k \in Key, NEW v \in Value, Put(k, v)
  PROVE  /\ capacity \in Nat \ {0} /\ Room(entries)
         /\ entries' = Filled(entries, k, v, capacity)
         /\ entries' \in Array(capacity)
         /\ Unique(entries') /\ Placed(entries', capacity)
         /\ count' \in Nat /\ count' = Cardinality(Used(entries')) /\ 4 * count' <= 3 * capacity
<1>1. /\ capacity \in Nat /\ entries \in Array(capacity)
      /\ Unique(entries) /\ Placed(entries, capacity)
      /\ count = Cardinality(Used(entries)) /\ count \in Nat
      /\ 4 * (count + 1) <= 3 * capacity
  BY EntriesFacts DEF TInv, Overloaded
<1>2. capacity \in Nat \ {0} /\ Room(entries)
  BY <1>1, EntriesFacts
<1> DEFINE s == FindEntry(entries, k, capacity)
<1>3. entries' = Filled(entries, k, v, capacity)
  BY DEF Put, Filled
<1>4. s \in Slot(capacity) /\ entries' \in Array(capacity) /\ Used(entries') = Used(entries) \cup {s}
  <2>1. /\ capacity \in Nat \ {0} /\ entries \in Array(capacity) /\ Room(entries)
        /\ Unique(entries) /\ Placed(entries, capacity)
    BY <1>1, <1>2
  <2>2. LET F == Filled(entries, k, v, capacity) IN
        /\ s \in Slot(capacity)
        /\ F \in Array(capacity) /\ F[s] = [key |-> k, value |-> v]
        /\ \A i \in Slot(capacity) :
             i # s => F[i] = entries[i] /\ (i \in Keyed(entries) => entries[i].key # k)
        /\ Keyed(F) = Keyed(entries) \cup {s} /\ Used(F) = Used(entries) \cup {s}
    BY <2>1, FilledParts
  <2> QED
    BY <1>3, <2>2
<1>5. Unique(entries') /\ Placed(entries', capacity)
  BY <1>1, <1>2, <1>3, FilledPlaced
<1>6. count' = IF entries[s] = EmptySlot THEN count + 1 ELSE count
  BY DEF Put
<1>7. s \in Used(entries) <=> entries[s] # EmptySlot
  BY <1>1, <1>4 DEF Used, Array
<1>8. Cardinality(Used(entries) \cup {s}) =
        IF s \in Used(entries) THEN Cardinality(Used(entries)) ELSE Cardinality(Used(entries)) + 1
  BY EntriesFacts, FS_AddElement
<1>9. count' = Cardinality(Used(entries'))
  BY <1>1, <1>4, <1>6, <1>7, <1>8
<1>10. count' \in Nat /\ 4 * count' <= 3 * capacity
  BY <1>1, <1>6
<1> QED
  BY <1>1, <1>2, <1>3, <1>4, <1>5, <1>9, <1>10

LEMMA SetKeepsTInv ==
  ASSUME TableAssumption, TInv, NEW k \in Key, NEW v \in Value, Set(k, v)
  PROVE  TInv'
<1>1. /\ ~At("copy") /\ ~Overloaded(count, capacity) /\ Put(k, v)
      /\ UNCHANGED <<capacity, copyVars, call>> /\ At("idle")
  BY DEF Set, At
<1>2. /\ entries' \in Array(capacity) /\ Unique(entries') /\ Placed(entries', capacity)
      /\ count' \in Nat /\ count' = Cardinality(Used(entries')) /\ 4 * count' <= 3 * capacity
  BY <1>1, PutFacts
<1>3. TableTypeOK'
  BY <1>1, <1>2 DEF TInv, TableTypeOK, copyVars
<1> QED
  BY <1>1, <1>2, <1>3 DEF TInv, At, copyVars

LEMMA SetGrowingKeepsTInv ==
  ASSUME TableAssumption, TInv, NEW k \in Key, NEW v \in Value, SetGrowing(k, v)
  PROVE  TInv'
<1>1. /\ At("idle") /\ call' = [at |-> "allocate", key |-> k, value |-> v]
      /\ UNCHANGED <<entries, capacity, count, dest, index>>
  BY DEF SetGrowing, tableVars, copyVars
<1>2. TableTypeOK'
  BY <1>1 DEF TInv, TableTypeOK
<1> QED
  BY <1>1, <1>2 DEF TInv, At

LEMMA StartCopyKeepsTInv ==
  ASSUME TableAssumption, TInv, StartCopy
  PROVE  TInv'
<1> DEFINE N == GrowCapacity(capacity)
<1>1. /\ At("allocate") /\ dest' = [i \in Slot(N) |-> EmptySlot]
      /\ index' = 0 /\ count' = 0 /\ call' = [call EXCEPT !.at = "copy"]
      /\ UNCHANGED <<entries, capacity>>
  BY DEF StartCopy
<1>2. N \in Nat \ {0} /\ N' = N
  BY <1>1, Growth DEF GrowCapacity
<1> HIDE DEF N
<1>3. EmptySlot \in [key : Key \cup {Null}, value : Value] /\ EmptySlot.key = Null
  BY DEF EmptySlot, TableAssumption
<1>4. dest' \in Array(N) /\ Keyed(dest') = {} /\ Used(dest') = {}
  BY <1>1, <1>3 DEF Array, Keyed, Used
<1>5. Copied' = {}
  <2>1. Keyed(entries)' \subseteq Slot(capacity)
    BY <1>1, EntriesFacts DEF Keyed
  <2> QED
    BY <1>1, <2>1, EntriesFacts DEF Copied, Slot
<1>6. Copying'
  BY <1>1, <1>2, <1>4, <1>5, FS_EmptySet DEF Copying, Unique, Placed, N
<1>7. /\ call \in [at : {"idle", "allocate", "copy", "put"}, key : Key \cup {Null}, value : Value]
      /\ call.key \in Key /\ capacity \in Nat
  BY <1>1 DEF TInv, TableTypeOK, At
<1>8. /\ call'.at = "copy" /\ call'.key \in Key
      /\ call' \in [at : {"idle", "allocate", "copy", "put"}, key : Key \cup {Null}, value : Value]
  BY <1>1, <1>7
<1>9. TableTypeOK'
  <2>1. count' \in Nat /\ index' \in 0..capacity
    BY <1>1, <1>7
  <2>2. dest' \in Array(N')
    BY <1>2, <1>4
  <2> QED
    BY <1>1, <1>7, <1>8, <2>1, <2>2 DEF TInv, TableTypeOK, N
<1> QED
  BY <1>1, <1>6, <1>8, <1>9 DEF TInv, At

LEMMA CopySlotKeepsTInv ==
  ASSUME TableAssumption, TInv, CopySlot
  PROVE  TInv'
<1> DEFINE N == GrowCapacity(capacity)
<1>1. /\ At("copy") /\ index < capacity /\ index' = index + 1
      /\ UNCHANGED <<entries, capacity, call>>
  BY DEF CopySlot
<1>2. /\ capacity \in Nat /\ index \in 0..capacity /\ index \in Slot(capacity)
      /\ entries \in Array(capacity) /\ DOMAIN entries = Slot(capacity)
  BY <1>1 DEF TInv, TableTypeOK, Array, Slot
<1>3. /\ N \in Nat \ {0} /\ dest \in Array(N) /\ Room(dest)
      /\ Unique(dest) /\ Placed(dest, N) /\ Used(dest) = Keyed(dest)
      /\ count = Cardinality(Used(dest)) /\ count = Cardinality(Copied) /\ count \in Nat
      /\ {dest[i] : i \in Keyed(dest)} = {entries[i] : i \in Copied}
      /\ IsFiniteSet(Copied) /\ IsFiniteSet(Used(dest))
  BY <1>1, Growth, CopyFacts, UsedFinite DEF TInv, Copying
<1>4. N' = N
  BY <1>1 DEF GrowCapacity
<1> HIDE DEF N
<1>5. Copied' = IF entries[index].key = Null THEN Copied ELSE Copied \cup {index}
  <2>1. Copied' = {i \in Keyed(entries) : i < index + 1}
    BY <1>1 DEF Copied, Keyed
  <2>2. \A i \in Keyed(entries) : i \in Nat
    BY <1>2 DEF Keyed, Slot
  <2>3. index \in Keyed(entries) <=> entries[index].key # Null
    BY <1>2 DEF Keyed
  <2>4. \A i \in Keyed(entries) : i < index + 1 <=> i < index \/ i = index
    BY <1>2, <2>2
  <2> QED
    BY <2>1, <2>3, <2>4 DEF Copied
<1>6. index \notin Copied
  BY <1>2 DEF Copied
<1>7. CASE entries[index].key = Null
  <2>1. UNCHANGED <<dest, count>> /\ Copied' = Copied
    BY <1>5, <1>7 DEF CopySlot
  <2>2. Copying'
    BY <1>1, <1>3, <1>4, <2>1 DEF Copying, N
  <2>3. TableTypeOK'
    BY <1>1, <1>2, <2>1 DEF TInv, TableTypeOK, GrowCapacity
  <2> QED
    BY <1>1, <2>2, <2>3 DEF TInv, At
<1>8. CASE entries[index].key # Null
  <2> DEFINE k == entries[index].key
             v == entries[index].value
             s == FindEntry(dest, k, N)
  <2>1. k \in Key /\ v \in Value /\ entries[index] = [key |-> k, value |-> v]
    <3>1. entries[index] \in [key : Key \cup {Null}, value : Value]
      BY <1>2 DEF Array
    <3> QED
      BY <1>8, <3>1
  <2>2. dest' = Filled(dest, k, v, N) /\ count' = count + 1
    BY <1>8, <2>1 DEF CopySlot, Filled, N
  <2>3. index \in Keyed(entries)
    BY <1>2, <1>8 DEF Keyed
  <2>4. \A i \in Keyed(dest) : dest[i].key # k
    <3> SUFFICES ASSUME NEW i \in Keyed(dest), dest[i].key = k
                 PROVE  FALSE
      OBVIOUS
    <3>1. PICK j \in Copied : dest[i] = entries[j]
      BY <1>3
    <3>2. j \in Keyed(entries) /\ entries[j].key = entries[index].key
      BY <3>1 DEF Copied
    <3>3. j = index
      BY <2>3, <3>2 DEF TInv, Unique
    <3> QED
      BY <1>6, <3>1, <3>3
  <2>5. \E m \in Slot(N) : s = Probe(k, m, N) /\ dest[s].key = Null
    BY <1>3, <2>1, <2>4, FindsFree
  <2>6. s \notin Keyed(dest)
    BY <2>5 DEF Keyed
  <2>7. /\ s \in Slot(N) /\ dest' \in Array(N) /\ dest'[s] = entries[index]
        /\ \A i \in Slot(N) : i # s => dest'[i] = dest[i]
        /\ Keyed(dest') = Keyed(dest) \cup {s} /\ Used(dest') = Used(dest) \cup {s}
    <3>1. LET F == Filled(dest, k, v, N) IN
          /\ s \in Slot(N) /\ F \in Array(N) /\ F[s] = [key |-> k, value |-> v]
          /\ \A i \in Slot(N) : i # s => F[i] = dest[i]
          /\ Keyed(F) = Keyed(dest) \cup {s} /\ Used(F) = Used(dest) \cup {s}
      BY <1>3, <2>1, FilledParts
    <3> QED
      BY <2>1, <2>2, <3>1
  <2>8. Unique(dest') /\ Placed(dest', N)
    BY <1>3, <2>1, <2>2, FilledPlaced
  <2>9. Copied' = Copied \cup {index} /\ Used(dest') = Keyed(dest')
    BY <1>3, <1>5, <1>8, <2>7
  <2>10. count' = Cardinality(Used(dest')) /\ count' = Cardinality(Copied') /\ count' \in Nat
    <3>1. Cardinality(Used(dest) \cup {s}) = Cardinality(Used(dest)) + 1
      BY <1>3, <2>6, FS_AddElement
    <3>2. Cardinality(Copied \cup {index}) = Cardinality(Copied) + 1
      BY <1>3, <1>6, FS_AddElement
    <3> QED
      BY <1>3, <2>2, <2>7, <2>9, <3>1, <3>2
  <2>11. {dest'[i] : i \in Keyed(dest')} = {entries'[i] : i \in Copied'}
    <3>1. Keyed(dest) \subseteq Slot(N)
      BY <1>3 DEF Keyed, Array
    <3> HIDE DEF s
    <3>2. {dest'[i] : i \in Keyed(dest')} = {dest[i] : i \in Keyed(dest)} \cup {entries[index]}
      BY <2>6, <2>7, <3>1
    <3>3. {entries'[i] : i \in Copied'} = {entries[i] : i \in Copied} \cup {entries[index]}
      BY <1>1, <2>9
    <3> QED
      BY <1>3, <3>2, <3>3
  <2>12. Copying'
    BY <1>4, <2>7, <2>8, <2>9, <2>10, <2>11 DEF Copying, N
  <2>13. TableTypeOK'
    <3>1. dest' \in Array(N') /\ index' \in 0..capacity
      BY <1>1, <1>2, <1>4, <2>7
    <3> QED
      BY <1>1, <1>2, <2>10, <3>1 DEF TInv, TableTypeOK, N
  <2> QED
    BY <1>1, <2>12, <2>13 DEF TInv, At
<1> QED
  BY <1>7, <1>8

LEMMA AdoptKeepsTInv ==
  ASSUME TableAssumption, TInv, Adopt
  PROVE  TInv'
<1> DEFINE N == GrowCapacity(capacity)
<1>1. /\ At("copy") /\ index = capacity /\ entries' = dest /\ capacity' = N
      /\ dest' = Null /\ index' = 0 /\ count' = count
      /\ call' = [call EXCEPT !.at = "put"]
  BY DEF Adopt
<1>2. /\ N \in Nat \ {0} /\ N >= MinCapacity /\ dest \in Array(N)
      /\ Unique(dest) /\ Placed(dest, N)
      /\ count = Cardinality(Used(dest)) /\ count \in Nat
      /\ ~Overloaded(count, N)
  BY <1>1, Growth, CopyFacts DEF TInv, Copying
<1> HIDE DEF N
<1>3. /\ call \in [at : {"idle", "allocate", "copy", "put"}, key : Key \cup {Null}, value : Value]
      /\ call.key \in Key
  BY <1>1 DEF TInv, TableTypeOK, At
<1>4. /\ call'.at = "put" /\ call'.key \in Key
      /\ call' \in [at : {"idle", "allocate", "copy", "put"}, key : Key \cup {Null}, value : Value]
  BY <1>1, <1>3
<1>5. TableTypeOK'
  BY <1>1, <1>2, <1>4 DEF TableTypeOK
<1>6. 4 * count <= 3 * N
  BY <1>2 DEF Overloaded
<1> QED
  BY <1>1, <1>2, <1>4, <1>5, <1>6 DEF TInv, At

LEMMA PutAfterGrowingKeepsTInv ==
  ASSUME TableAssumption, TInv, PutAfterGrowing
  PROVE  TInv'
<1>1. /\ At("put") /\ Put(call.key, call.value) /\ call' = Idle
      /\ UNCHANGED <<capacity, copyVars>>
      /\ call.key \in Key /\ call.value \in Value
      /\ ~At("copy") /\ ~Overloaded(count, capacity)
  BY DEF PutAfterGrowing, At, TInv, TableTypeOK
<1>2. /\ entries' \in Array(capacity) /\ Unique(entries') /\ Placed(entries', capacity)
      /\ count' \in Nat /\ count' = Cardinality(Used(entries')) /\ 4 * count' <= 3 * capacity
  BY <1>1, PutFacts
<1>3. call' \in [at : {"idle", "allocate", "copy", "put"}, key : Key \cup {Null}, value : Value]
      /\ call'.at = "idle"
  BY <1>1 DEF Idle, TableAssumption
<1>4. TableTypeOK'
  BY <1>1, <1>2, <1>3 DEF TInv, TableTypeOK, copyVars
<1> QED
  BY <1>1, <1>2, <1>3, <1>4 DEF TInv, At, copyVars

(* keys leave the table *)
LEMMA BuryKeepsTInv ==
  ASSUME TableAssumption, TInv, ~At("copy"),
         NEW S \in SUBSET Key, \A k \in S : \E i \in Keyed(entries) : entries[i].key = k,
         entries' = Buried(entries, S, capacity), UNCHANGED <<capacity, count, copyVars, call>>
  PROVE  /\ TInv'
         /\ Keyed(entries') = {i \in Keyed(entries) : entries[i].key \notin S}
         /\ \A i \in Keyed(entries') : entries'[i] = entries[i]
<1>1. /\ entries' \in Array(capacity) /\ Used(entries') = Used(entries)
      /\ Keyed(entries') = {i \in Keyed(entries) : entries[i].key \notin S}
      /\ \A i \in Keyed(entries') : entries'[i] = entries[i]
      /\ Unique(entries') /\ Placed(entries', capacity)
  <2>1. CASE capacity = 0
    <3>1. S = {} /\ entries \in Array(0)
      BY <2>1, EntriesFacts
    <3>2. entries' = entries
      BY <3>1, <2>1 DEF Buried, Array
    <3> QED
      BY <2>1, <3>1, <3>2, EntriesFacts DEF TInv
  <2>2. CASE capacity # 0
    <3>1. capacity \in Nat \ {0} /\ entries \in Array(capacity) /\ Room(entries)
          /\ Unique(entries) /\ Placed(entries, capacity)
      BY <2>2, EntriesFacts DEF TInv
    <3>2. LET B == Buried(entries, S, capacity) IN
          /\ B \in Array(capacity) /\ Used(B) = Used(entries)
          /\ Keyed(B) = {i \in Keyed(entries) : entries[i].key \notin S}
          /\ \A i \in Keyed(B) : B[i] = entries[i]
          /\ Unique(B) /\ Placed(B, capacity)
      BY <3>1, BuriedParts
    <3> QED
      BY <3>2
  <2> QED
    BY <2>1, <2>2
<1>2. TableTypeOK'
  BY <1>1 DEF TInv, TableTypeOK, copyVars
<1> QED
  BY <1>1, <1>2 DEF TInv, At, copyVars, Overloaded

LEMMA DeleteBuries ==
  ASSUME TableAssumption, TInv, NEW k \in Key, Delete(k)
  PROVE  /\ TInv'
         /\ Keyed(entries') = {i \in Keyed(entries) : entries[i].key # k}
         /\ \A i \in Keyed(entries') : entries'[i] = entries[i]
<1>1. /\ ~At("copy") /\ UNCHANGED <<capacity, count, copyVars, call>>
      /\ entries' = IF Found(k) THEN Buried(entries, {k}, capacity) ELSE entries
  BY DEF Delete, At
<1>2. CASE Found(k)
  <2>1. \A q \in {k} : \E i \in Keyed(entries) : entries[i].key = q
    BY <1>1, <1>2, FoundIsThere
  <2>2. {k} \in SUBSET Key /\ entries' = Buried(entries, {k}, capacity)
    BY <1>1, <1>2
  <2>3. /\ TInv'
        /\ Keyed(entries') = {i \in Keyed(entries) : entries[i].key \notin {k}}
        /\ \A i \in Keyed(entries') : entries'[i] = entries[i]
    BY <1>1, <2>1, <2>2, BuryKeepsTInv
  <2> QED
    BY <2>3
<1>3. CASE ~Found(k)
  <2>1. UNCHANGED <<entries, capacity, count, dest, index, call>>
    BY <1>1, <1>3 DEF copyVars
  <2>2. \A i \in Keyed(entries) : entries[i].key # k
    BY <1>1, <1>3, FoundIsThere
  <2>3. TInv'
    BY <2>1 DEF TInv, TableTypeOK, At, Copying, Copied, GrowCapacity
  <2> QED
    BY <2>1, <2>2, <2>3
<1> QED
  BY <1>2, <1>3

LEMMA RemoveWhiteBuries ==
  ASSUME TableAssumption, TInv, NEW white \in SUBSET Key, RemoveWhite(white)
  PROVE  /\ TInv'
         /\ Keyed(entries') = {i \in Keyed(entries) : entries[i].key \notin white}
         /\ \A i \in Keyed(entries') : entries'[i] = entries[i]
<1> DEFINE S == {k \in white : Found(k)}
<1>1. /\ ~At("copy") /\ UNCHANGED <<capacity, count, copyVars, call>>
      /\ entries' = Buried(entries, S, capacity)
  BY DEF RemoveWhite, At
<1>2. \A k \in S : \E i \in Keyed(entries) : entries[i].key = k
  BY <1>1, FoundIsThere
<1>3. \A i \in Keyed(entries) : entries[i].key \in white => entries[i].key \in S
  BY <1>1, FoundIsThere
<1>4. S \in SUBSET Key /\ S \subseteq white
  OBVIOUS
<1> HIDE DEF S
<1>5. /\ TInv'
      /\ Keyed(entries') = {i \in Keyed(entries) : entries[i].key \notin S}
      /\ \A i \in Keyed(entries') : entries'[i] = entries[i]
  BY <1>1, <1>2, <1>4, BuryKeepsTInv
<1> QED
  BY <1>3, <1>4, <1>5

LEMMA NextKeepsTInv ==
  ASSUME TableAssumption, TInv, [TableNext]_TableVars
  PROVE  TInv'
<1>1. ASSUME NEW k \in Key, NEW v \in Value, Set(k, v) \/ SetGrowing(k, v)
      PROVE  TInv'
  BY <1>1, SetKeepsTInv, SetGrowingKeepsTInv
<1>2. CASE Grow
  BY <1>2, StartCopyKeepsTInv, CopySlotKeepsTInv, AdoptKeepsTInv, PutAfterGrowingKeepsTInv DEF Grow
<1>3. ASSUME UNCHANGED <<tableVars, copyVars, call>>
      PROVE  TInv'
  BY <1>3 DEF TInv, TableTypeOK, At, Copying, Copied, GrowCapacity, tableVars, copyVars,
              Overloaded
<1>4. ASSUME NEW k \in Key, Get(k)
      PROVE  TInv'
  BY <1>3, <1>4 DEF Get
<1>5. ASSUME NEW k \in Key, Delete(k)
      PROVE  TInv'
  BY <1>5, DeleteBuries
<1>6. ASSUME NEW white \in SUBSET Key, RemoveWhite(white)
      PROVE  TInv'
  BY <1>6, RemoveWhiteBuries
<1>7. CASE UNCHANGED TableVars
  BY <1>3, <1>7 DEF TableVars
<1> QED
  BY <1>1, <1>2, <1>4, <1>5, <1>6, <1>7 DEF TableNext

-----------------------------------------------------------------------------
(* The table of every reachable state: counted, with room, and every key   *)
(* where its probe leads.                                                  *)
THEOREM TableInvariant ==
  ASSUME TableAssumption
  PROVE  TableSpec => []TInv
<1>1. TableInit => TInv
  BY InitTInv
<1>2. TInv /\ [TableNext]_TableVars => TInv'
  BY NextKeepsTInv
<1> QED
  BY <1>1, <1>2, PTL DEF TableSpec

(* The table is an array and a count of it, also in the middle of growth.  *)
THEOREM TableTyped ==
  ASSUME TableAssumption
  PROVE  TableSpec => []TableTypeOK
<1>1. TInv => TableTypeOK
  BY DEF TInv
<1> QED
  BY <1>1, TableInvariant, PTL

(* The unbounded loop of findEntry ends for every key, present or not, in   *)
(* the table and in the array tableSet copies to.                           *)
THEOREM EveryProbeEnds ==
  ASSUME TableAssumption
  PROVE  TableSpec => []ProbesEnd
<1>1. ASSUME TInv PROVE ProbesEnd
  <2>1. capacity > 0 => Used(entries) # DOMAIN entries
    BY <1>1, EntriesFacts DEF Room, Used
  <2>2. At("copy") => Used(dest) # DOMAIN dest
    BY <1>1, CopyFacts DEF Room, Used
  <2> QED
    BY <2>1, <2>2 DEF ProbesEnd
<1> QED
  BY <1>1, TableInvariant, PTL

(* count is what the load factor is measured by: keys and tombstones.      *)
THEOREM CountsLoad ==
  ASSUME TableAssumption
  PROVE  TableSpec => []CountIsLoad
<1>1. TInv => CountIsLoad
  BY DEF TInv, CountIsLoad, Copying
<1> QED
  BY <1>1, TableInvariant, PTL

(* No key is lost behind an empty slot or there twice, whatever was         *)
(* deleted, collected or copied before.                                     *)
THEOREM EveryKeyFindable ==
  ASSUME TableAssumption
  PROVE  TableSpec => []KeysFindable
<1>1. ASSUME TInv PROVE KeysFindable
  <2>1. Findable(entries, capacity)
    <3>1. CASE capacity = 0
      BY <1>1, <3>1, EntriesFacts DEF Findable
    <3>2. CASE capacity # 0
      <4>1. /\ capacity \in Nat \ {0} /\ entries \in Array(capacity) /\ Room(entries)
            /\ Unique(entries) /\ Placed(entries, capacity)
            /\ \A i \in Keyed(entries) : entries[i].key \in Key
        BY <1>1, <3>2, EntriesFacts DEF TInv
      <4> QED
        BY <4>1, FindsPresent DEF Findable, Unique
    <3> QED
      BY <3>1, <3>2
  <2>2. ASSUME At("copy")
        PROVE  /\ Findable(dest, GrowCapacity(capacity))
               /\ {dest[i] : i \in Keyed(dest)} =
                    {entries[i] : i \in {j \in Keyed(entries) : j < index}}
    <3>1. /\ GrowCapacity(capacity) \in Nat \ {0} /\ dest \in Array(GrowCapacity(capacity))
          /\ Room(dest) /\ Unique(dest) /\ Placed(dest, GrowCapacity(capacity))
          /\ \A i \in Keyed(dest) : dest[i].key \in Key
          /\ {dest[i] : i \in Keyed(dest)} = {entries[i] : i \in Copied}
      BY <1>1, <2>2, Growth, CopyFacts DEF TInv, Copying
    <3>2. Findable(dest, GrowCapacity(capacity))
      BY <3>1, FindsPresent DEF Findable, Unique
    <3> QED
      BY <3>1, <3>2 DEF Copied
  <2> QED
    BY <2>1, <2>2 DEF KeysFindable
<1> QED
  BY <1>1, TableInvariant, PTL

-----------------------------------------------------------------------------
(* The map a table stands for *)

ContentsOf(E) ==
  [k \in Key |->
     IF \E i \in DOMAIN E : E[i].key = k
     THEN E[CHOOSE i \in DOMAIN E : E[i].key = k].value
     ELSE Null]

LEMMA ContentsFollow ==
  ASSUME TableAssumption, NEW E, Unique(E), NEW k \in Key
  PROVE  /\ \A i \in Keyed(E) : E[i].key = k => ContentsOf(E)[k] = E[i].value
         /\ (\A i \in Keyed(E) : E[i].key # k) => ContentsOf(E)[k] = Null
<1>1. k # Null
  BY DEF TableAssumption
<1>2. \A i \in DOMAIN E : E[i].key = k => i \in Keyed(E)
  BY <1>1 DEF Keyed
<1>3. ASSUME NEW i \in Keyed(E), E[i].key = k
      PROVE  ContentsOf(E)[k] = E[i].value
  <2>1. i \in DOMAIN E
    BY DEF Keyed
  <2> DEFINE c == CHOOSE j \in DOMAIN E : E[j].key = k
  <2>2. c \in DOMAIN E /\ E[c].key = k
    BY <1>3, <2>1
  <2>3. c = i
    BY <1>2, <1>3, <2>2 DEF Unique
  <2> QED
    BY <1>3, <2>1, <2>3 DEF ContentsOf
<1>4. ASSUME \A i \in Keyed(E) : E[i].key # k
      PROVE  ContentsOf(E)[k] = Null
  BY <1>2, <1>4 DEF ContentsOf
<1> QED
  BY <1>3, <1>4

LEMMA ContentsIs == Contents = ContentsOf(entries) /\ Contents' = ContentsOf(entries')
BY DEF Contents, ContentsOf

(* Two tables with the same keys in them, in whatever slots, are one map.  *)
LEMMA SameContents ==
  ASSUME TableAssumption, NEW E, NEW F, Unique(E), Unique(F), NEW k \in Key,
         \A i \in Keyed(E) : E[i].key = k => \E j \in Keyed(F) : F[j] = E[i],
         \A j \in Keyed(F) : F[j].key = k => \E i \in Keyed(E) : E[i] = F[j]
  PROVE  ContentsOf(F)[k] = ContentsOf(E)[k]
<1>1. CASE \E i \in Keyed(E) : E[i].key = k
  <2>1. PICK i \in Keyed(E) : E[i].key = k
    BY <1>1
  <2>2. PICK j \in Keyed(F) : F[j] = E[i]
    BY <2>1
  <2> QED
    BY <2>1, <2>2, ContentsFollow
<1>2. CASE \A i \in Keyed(E) : E[i].key # k
  <2>1. \A j \in Keyed(F) : F[j].key # k
    BY <1>2
  <2> QED
    BY <1>2, <2>1, ContentsFollow
<1> QED
  BY <1>1, <1>2

LEMMA ContentsNull ==
  ASSUME TableAssumption, TInv, NEW k \in Key
  PROVE  Contents[k] # Null <=> \E i \in Keyed(entries) : entries[i].key = k
<1>1. CASE \E i \in Keyed(entries) : entries[i].key = k
  <2>1. PICK i \in Keyed(entries) : entries[i].key = k
    BY <1>1
  <2>2. Contents[k] = entries[i].value
    BY <2>1, ContentsFollow, ContentsIs DEF TInv
  <2>3. entries[i].value \in Value /\ Null \notin Value
    BY EntriesFacts DEF TableAssumption
  <2> QED
    BY <1>1, <2>2, <2>3
<1>2. CASE \A i \in Keyed(entries) : entries[i].key # k
  BY <1>2, ContentsFollow, ContentsIs DEF TInv
<1> QED
  BY <1>1, <1>2

LEMMA PutIsSet ==
  ASSUME TableAssumption, TInv, ~At("copy"), ~Overloaded(count, capacity),
         NEW k \in Key, NEW v \in Value, Put(k, v)
  PROVE  Promised!Set(k, v)
<1> DEFINE s == FindEntry(entries, k, capacity)
<1>1. /\ capacity \in Nat \ {0} /\ entries \in Array(capacity) /\ Room(entries)
      /\ Unique(entries) /\ Placed(entries, capacity)
      /\ entries' = Filled(entries, k, v, capacity) /\ Unique(entries')
  BY PutFacts, EntriesFacts DEF TInv
<1>2. /\ s \in Slot(capacity) /\ entries[s].key \in {k, Null}
      /\ \A i \in Keyed(entries) : entries[i].key = k => i = s
  BY <1>1, FoundSlot
<1>3. LET F == Filled(entries, k, v, capacity) IN
      /\ F[s] = [key |-> k, value |-> v]
      /\ \A i \in Slot(capacity) : i # s => F[i] = entries[i]
      /\ Keyed(F) = Keyed(entries) \cup {s}
  BY <1>1, FilledParts
<1>4. /\ entries'[s] = [key |-> k, value |-> v]
      /\ \A i \in Slot(capacity) : i # s => entries'[i] = entries[i]
      /\ Keyed(entries') = Keyed(entries) \cup {s}
  BY <1>1, <1>3
<1>5. result' = (entries[s].key = Null)
  BY DEF Put
<1> HIDE DEF s
<1>6. Keyed(entries) \subseteq Slot(capacity) /\ k # Null
  BY EntriesFacts DEF TableAssumption
<1>7. ContentsOf(entries')[k] = v
  <2>1. s \in Keyed(entries') /\ entries'[s].key = k /\ entries'[s].value = v
    BY <1>4
  <2> QED
    BY <1>1, <2>1, ContentsFollow
<1>8. ASSUME NEW q \in Key, q # k
      PROVE  ContentsOf(entries')[q] = ContentsOf(entries)[q]
  <2>1. ASSUME NEW i \in Keyed(entries), entries[i].key = q
        PROVE  i \in Keyed(entries') /\ entries'[i] = entries[i]
    <3>1. i # s
      BY <1>2, <1>8, <2>1 DEF TableAssumption
    <3> QED
      BY <1>4, <1>6, <3>1
  <2>2. ASSUME NEW j \in Keyed(entries'), entries'[j].key = q
        PROVE  j \in Keyed(entries) /\ entries'[j] = entries[j]
    BY <1>4, <1>6, <1>8, <2>2
  <2>3. /\ \A i \in Keyed(entries) : entries[i].key = q =>
             \E j \in Keyed(entries') : entries'[j] = entries[i]
        /\ \A j \in Keyed(entries') : entries'[j].key = q =>
             \E i \in Keyed(entries) : entries[i] = entries'[j]
    BY <2>1, <2>2
  <2> QED
    BY <1>1, <2>3, SameContents
<1>9. Contents' = [Contents EXCEPT ![k] = v]
  <2>1. ContentsOf(entries') = [q \in Key |-> ContentsOf(entries')[q]]
    BY DEF ContentsOf
  <2>2. [Contents EXCEPT ![k] = v] =
          [q \in Key |-> IF q = k THEN v ELSE ContentsOf(entries)[q]]
    BY DEF Contents, ContentsOf
  <2>3. ContentsOf(entries') = [q \in Key |-> IF q = k THEN v ELSE ContentsOf(entries)[q]]
    BY <1>7, <1>8, <2>1
  <2> QED
    BY <2>2, <2>3, ContentsIs
<1>10. result' = (Contents[k] = Null)
  <2>1. entries[s].key = Null <=> ~\E i \in Keyed(entries) : entries[i].key = k
    BY <1>1, <1>2, <1>6 DEF Keyed, Array
  <2> QED
    BY <1>5, <2>1, ContentsNull
<1> QED
  BY <1>9, <1>10 DEF Promised!Set

(* A table whose other keys have left stands for the map without them.     *)
LEMMA FewerKeys ==
  ASSUME TableAssumption, TInv, TInv', NEW S \in SUBSET Key,
         Keyed(entries') = {i \in Keyed(entries) : entries[i].key \notin S},
         \A i \in Keyed(entries') : entries'[i] = entries[i]
  PROVE  Contents' = [k \in Key |-> IF k \in S THEN Null ELSE Contents[k]]
<1>1. Unique(entries) /\ Unique(entries')
  BY DEF TInv
<1>2. ASSUME NEW k \in Key
      PROVE  ContentsOf(entries')[k] = IF k \in S THEN Null ELSE ContentsOf(entries)[k]
  <2>1. CASE k \in S
    <3>1. \A i \in Keyed(entries') : entries'[i].key # k
      BY <2>1
    <3> QED
      BY <1>1, <2>1, <3>1, ContentsFollow
  <2>2. CASE k \notin S
    <3>1. /\ \A i \in Keyed(entries) : entries[i].key = k =>
               \E j \in Keyed(entries') : entries'[j] = entries[i]
          /\ \A j \in Keyed(entries') : entries'[j].key = k =>
               \E i \in Keyed(entries) : entries[i] = entries'[j]
      BY <2>2
    <3> QED
      BY <1>1, <2>2, <3>1, SameContents
  <2> QED
    BY <2>1, <2>2
<1> QED
  BY <1>2, ContentsIs DEF ContentsOf

LEMMA AdoptKeepsContents ==
  ASSUME TableAssumption, TInv, Adopt
  PROVE  Contents' = Contents
<1>1. /\ At("copy") /\ index = capacity /\ entries' = dest
      /\ {dest[i] : i \in Keyed(dest)} = {entries[i] : i \in Copied}
      /\ Unique(dest) /\ Unique(entries)
  BY DEF Adopt, TInv, Copying
<1>2. Copied = Keyed(entries)
  <2>1. \A i \in Keyed(entries) : i < index
    BY <1>1, EntriesFacts DEF Slot
  <2> QED
    BY <2>1 DEF Copied
<1>3. /\ \A i \in Keyed(entries) : \E j \in Keyed(entries') : entries'[j] = entries[i]
      /\ \A j \in Keyed(entries') : \E i \in Keyed(entries) : entries[i] = entries'[j]
  BY <1>1, <1>2
<1>4. \A k \in Key : ContentsOf(entries')[k] = ContentsOf(entries)[k]
  BY <1>1, <1>3, SameContents
<1> QED
  BY <1>4, ContentsIs DEF ContentsOf

LEMMA NextImplements ==
  ASSUME TableAssumption, TInv, TInv', [TableNext]_TableVars
  PROVE  [Promised!Next]_<<Contents, result>>
<1>1. ASSUME NEW k \in Key, NEW v \in Value, Set(k, v)
      PROVE  Promised!Next
  <2>1. ~At("copy") /\ ~Overloaded(count, capacity) /\ Put(k, v)
    BY <1>1 DEF Set, At
  <2> QED
    BY <2>1, PutIsSet DEF Promised!Next
<1>2. ASSUME UNCHANGED <<entries, result>>
      PROVE  UNCHANGED <<Contents, result>>
  BY <1>2 DEF Contents
<1>3. ASSUME NEW k \in Key, NEW v \in Value, SetGrowing(k, v)
      PROVE  UNCHANGED <<Contents, result>>
  BY <1>2, <1>3 DEF SetGrowing, tableVars
<1>4. CASE StartCopy \/ CopySlot
  BY <1>2, <1>4 DEF StartCopy, CopySlot
<1>5. CASE Adopt
  BY <1>5, AdoptKeepsContents DEF Adopt
<1>6. CASE PutAfterGrowing
  <2>1. /\ ~At("copy") /\ ~Overloaded(count, capacity) /\ Put(call.key, call.value)
        /\ call.key \in Key /\ call.value \in Value
    BY <1>6 DEF PutAfterGrowing, At, TInv, TableTypeOK
  <2> QED
    BY <2>1, PutIsSet DEF Promised!Next
<1>7. ASSUME NEW k \in Key, Get(k)
      PROVE  Promised!Next
  <2>1. /\ ~At("copy") /\ UNCHANGED entries
        /\ result' = IF Found(k) THEN entries[FindEntry(entries, k, capacity)].value ELSE Null
    BY <1>7 DEF Get, At, tableVars
  <2>2. result' = Contents[k]
    <3>1. CASE Found(k)
      <4>1. PICK i \in Keyed(entries) : entries[i].key = k
        BY <2>1, <3>1, FoundIsThere
      <4>2. FindEntry(entries, k, capacity) = i
        BY <2>1, <4>1, FoundIsThere
      <4>3. Contents[k] = entries[i].value
        BY <4>1, ContentsFollow, ContentsIs DEF TInv
      <4> QED
        BY <2>1, <3>1, <4>2, <4>3
    <3>2. CASE ~Found(k)
      BY <2>1, <3>2, FoundIsThere, ContentsNull
    <3> QED
      BY <3>1, <3>2
  <2>3. Contents' = Contents
    BY <2>1 DEF Contents
  <2> QED
    BY <2>2, <2>3 DEF Promised!Next, Promised!Get
<1>8. ASSUME NEW k \in Key, Delete(k)
      PROVE  Promised!Next
  <2>1. ~At("copy") /\ result' = Found(k)
    BY <1>8 DEF Delete, At
  <2>2. result' = (Contents[k] # Null)
    BY <2>1, FoundIsThere, ContentsNull DEF Found
  <2>3. {k} \in SUBSET Key
        /\ Keyed(entries') = {i \in Keyed(entries) : entries[i].key \notin {k}}
        /\ \A i \in Keyed(entries') : entries'[i] = entries[i]
    BY <1>8, DeleteBuries
  <2>4. Contents' = [q \in Key |-> IF q \in {k} THEN Null ELSE Contents[q]]
    BY <2>3, FewerKeys
  <2>5. Contents' = [Contents EXCEPT ![k] = Null]
    BY <2>4 DEF Contents
  <2> QED
    BY <2>2, <2>5 DEF Promised!Next, Promised!Delete
<1>9. ASSUME NEW white \in SUBSET Key, RemoveWhite(white)
      PROVE  Promised!Next
  <2>1. Contents' = [k \in Key |-> IF k \in white THEN Null ELSE Contents[k]]
    BY <1>9, RemoveWhiteBuries, FewerKeys
  <2> QED
    BY <1>9, <2>1 DEF RemoveWhite, Promised!Next, Promised!RemoveWhite
<1>10. CASE UNCHANGED TableVars
  BY <1>2, <1>10 DEF TableVars, tableVars
<1> QED
  BY <1>1, <1>3, <1>4, <1>5, <1>6, <1>7, <1>8, <1>9, <1>10 DEF TableNext, Grow

(* The table is a map: what tableGet, tableSet and tableDelete do and answer *)
(* is what KeyMap says, however slots are shared, buried and moved.        *)
THEOREM TableIsMap ==
  ASSUME TableAssumption
  PROVE  TableSpec => ImplementsKeyMap
<1>1. TableInit => Promised!Init
  <2>1. ASSUME TableInit PROVE Promised!Init
    <3>1. DOMAIN entries = {} /\ result = Null
      BY <2>1 DEF TableInit, Slot
    <3> QED
      BY <3>1 DEF Promised!Init, Contents
  <2> QED
    BY <2>1
<1>2. TInv /\ TInv' /\ [TableNext]_TableVars => [Promised!Next]_<<Contents, result>>
  BY NextImplements
<1> QED
  BY <1>1, <1>2, TableInvariant, PTL DEF TableSpec, ImplementsKeyMap, Promised!Spec

-----------------------------------------------------------------------------
(* The iterator *)

KeysIn(S) == {entries[i].key : i \in S}
Before(i) == {j \in Keyed(entries) : j < i}

(* The keys of the slots behind the iterator, or behind the slot a search   *)
(* looks at, have been read, also after the search has wrapped around; done *)
(* means that no slot is left.  A search from newTableIterator leaves the   *)
(* iterator on slot 0 until it finds a key.                                 *)
Places == {"none", "test", "loop", "search", "astray"}
ItInv ==
  /\ it \in [at : Places, index : Nat, done : BOOLEAN, slot : Nat,
             from : {"none", "test", "loop"}]
  /\ it.at # "none" => At("idle") /\ visited \subseteq KeysIn(Keyed(entries))
  /\ it.at = "none" => visited = {}
  /\ it.at \in {"test", "loop"} => KeysIn(Before(it.index)) \subseteq visited
  /\ it.at = "search" => KeysIn(Before(it.slot)) \subseteq visited /\ it.from # "none"
  /\ it.at \in {"test", "loop", "search"} /\ it.done => visited = KeysIn(Keyed(entries))
  /\ it.at = "test" => it.index = 0 \/ it.index \in Keyed(entries)
  /\ it.at = "search" /\ it.from = "test" => it.index = 0
  /\ it.at = "loop" /\ ~it.done => it.index \in Keyed(entries)
  /\ it.at = "astray" => capacity = 0

LEMMA IteratorInitItInv == IteratorInit => ItInv
BY DEF IteratorInit, NoIterator, ItInv, Places

LEMMA TableStepKeepsItInv ==
  ASSUME ItInv, TableStep
  PROVE  ItInv'
BY DEF ItInv, TableStep, iteratorVars

LEMMA IterateKeepsItInv ==
  ASSUME TableAssumption, TInv, ItInv, Iterate
  PROVE  ItInv'
<1>1. UNCHANGED TableVars /\ UNCHANGED <<entries, capacity, call>> /\ At("idle")
      /\ (At("idle"))'
  BY DEF Iterate, NewIterator, TestSlot, ReadKey, Search, Return, TableVars, tableVars, ItInv, At
<1>2. /\ (Keyed(entries))' = Keyed(entries) /\ KeysIn(Keyed(entries))' = KeysIn(Keyed(entries))
      /\ Keyed(entries) \subseteq Slot(capacity) /\ Keyed(entries) \subseteq Nat
      /\ DOMAIN entries = Slot(capacity) /\ capacity \in Nat
  BY <1>1, EntriesFacts DEF KeysIn, Keyed, Slot, Array
<1>4. /\ it \in [at : Places, index : Nat, done : BOOLEAN, slot : Nat,
                 from : {"none", "test", "loop"}]
      /\ it.index + 1 \in Nat
  BY DEF ItInv
<1>5. CASE NewIterator
  <2>1. /\ it' = [NoIterator EXCEPT !.at = "test"] /\ visited' = {}
    BY <1>5 DEF NewIterator, ItInv
  <2>2. KeysIn(Before(0))' = {}
    BY <1>1, <1>2 DEF KeysIn, Before, Slot
  <2> QED
    BY <1>1, <1>2, <2>1, <2>2 DEF NoIterator, ItInv, Places
<1>6. CASE TestSlot
  <2>0. /\ it.at = "test" /\ UNCHANGED visited
        /\ KeysIn(Before(it.index)) \subseteq visited
    BY <1>6 DEF TestSlot, ItInv
  <2>1. CASE it.index \notin DOMAIN entries /\ it' = [it EXCEPT !.at = "astray"]
    <3>1. capacity = 0
      BY <1>2, <2>0, <2>1 DEF ItInv, Slot
    <3> QED
      BY <1>1, <1>2, <1>4, <2>0, <2>1, <3>1 DEF ItInv, Places
  <2>2. CASE it.index \in Keyed(entries) /\ it' = [it EXCEPT !.at = "loop"]
    <3>1. KeysIn(Before(it.index))' \subseteq visited'
      BY <1>1, <1>2, <1>4, <2>0, <2>2 DEF KeysIn, Before
    <3> QED
      BY <1>1, <1>2, <1>4, <2>0, <2>2, <3>1 DEF ItInv, Places
  <2>3. CASE it.index \in DOMAIN entries \ Keyed(entries) /\ it' = SearchFrom("test")
    <3>1. Before(it.index + 1) \subseteq Before(it.index)
      BY <1>2, <1>4, <2>3 DEF Before
    <3>2. KeysIn(Before(it.index + 1)) \subseteq visited
      BY <2>0, <3>1 DEF KeysIn
    <3>3. /\ it'.at = "search" /\ it'.slot = it.index + 1 /\ it'.from = "test"
          /\ it'.index = it.index /\ it'.done = it.done
          /\ it' \in [at : Places, index : Nat, done : BOOLEAN, slot : Nat,
                      from : {"none", "test", "loop"}]
      BY <1>4, <2>3 DEF SearchFrom, Places
    <3>4. KeysIn(Before(it.slot))' \subseteq visited'
      BY <1>1, <1>2, <2>0, <3>2, <3>3 DEF KeysIn, Before
    <3>5. it.index = 0
      BY <2>0, <2>3 DEF ItInv
    <3> QED
      BY <1>1, <1>2, <2>0, <3>3, <3>4, <3>5 DEF ItInv
  <2> QED
    BY <1>6, <2>1, <2>2, <2>3 DEF TestSlot
<1>7. CASE ReadKey
  <2>1. /\ it.at = "loop" /\ ~it.done /\ it.index \in Keyed(entries)
        /\ visited' = visited \cup {entries[it.index].key}
        /\ KeysIn(Before(it.index)) \subseteq visited
        /\ visited \subseteq KeysIn(Keyed(entries))
    BY <1>7 DEF ReadKey, ItInv
  <2>2. Before(it.index + 1) \subseteq Before(it.index) \cup {it.index}
    BY <1>2, <1>4 DEF Before
  <2>3. KeysIn(Before(it.index + 1)) \subseteq visited'
    BY <2>1, <2>2 DEF KeysIn
  <2>4. visited' \subseteq KeysIn(Keyed(entries))
    BY <2>1 DEF KeysIn
  <2>5. /\ it'.at = "search" /\ it'.slot = it.index + 1 /\ it'.from = "loop" /\ ~it'.done
        /\ it' \in [at : Places, index : Nat, done : BOOLEAN, slot : Nat,
                    from : {"none", "test", "loop"}]
    BY <1>4, <1>7, <2>1 DEF ReadKey, SearchFrom, Places
  <2>6. KeysIn(Before(it.slot))' \subseteq visited'
    BY <1>1, <1>2, <2>3, <2>5 DEF KeysIn, Before
  <2> QED
    BY <1>1, <1>2, <2>4, <2>5, <2>6 DEF ItInv
<1>8. CASE Search
  <2>0. /\ it.at = "search" /\ UNCHANGED visited /\ it.from \in {"test", "loop"}
        /\ KeysIn(Before(it.slot)) \subseteq visited
        /\ visited \subseteq KeysIn(Keyed(entries))
    BY <1>4, <1>8 DEF Search, ItInv
  <2>1. CASE Searches /\ it.slot \in Keyed(entries)
             /\ it' = [it EXCEPT !.at = it.from, !.index = it.slot]
    <3>1. /\ it'.at = it.from /\ it'.index = it.slot /\ ~it'.done
          /\ it' \in [at : Places, index : Nat, done : BOOLEAN, slot : Nat,
                      from : {"none", "test", "loop"}]
      BY <1>4, <2>0, <2>1 DEF Searches, Places
    <3>2. KeysIn(Before(it.index))' \subseteq visited'
      BY <1>1, <1>2, <2>0, <3>1 DEF KeysIn, Before
    <3> QED
      BY <1>1, <1>2, <2>0, <2>1, <3>1, <3>2 DEF ItInv
  <2>2. CASE Searches /\ it.slot \notin Keyed(entries)
             /\ it' = [it EXCEPT !.slot = (it.slot + 1) % capacity]
    <3>1. it.slot < capacity /\ ~it.done /\ it.slot \in Nat
      BY <1>4, <2>2 DEF Searches
    <3>2. (it.slot + 1) % capacity = IF it.slot + 1 = capacity THEN 0 ELSE it.slot + 1
      BY <1>2, <3>1
    <3>3. /\ it'.at = "search" /\ it'.slot = (it.slot + 1) % capacity /\ it'.from = it.from
          /\ it'.index = it.index /\ ~it'.done
          /\ it' \in [at : Places, index : Nat, done : BOOLEAN, slot : Nat,
                      from : {"none", "test", "loop"}]
      BY <1>4, <2>0, <2>2, <3>1, <3>2 DEF Places
    <3>4. Before((it.slot + 1) % capacity) \subseteq Before(it.slot)
      BY <1>2, <2>2, <3>1, <3>2 DEF Before, Slot
    <3>5. KeysIn(Before(it.slot))' \subseteq visited'
      BY <1>1, <1>2, <2>0, <3>3, <3>4 DEF KeysIn, Before
    <3> QED
      BY <1>1, <1>2, <2>0, <3>3, <3>5 DEF ItInv
  <2>3. CASE ~Searches /\ it' = [it EXCEPT !.at = it.from, !.done = TRUE]
    <3>1. /\ it'.at = it.from /\ it'.index = it.index /\ it'.done
          /\ it' \in [at : Places, index : Nat, done : BOOLEAN, slot : Nat,
                      from : {"none", "test", "loop"}]
      BY <1>4, <2>0, <2>3 DEF Places
    <3>2. visited = KeysIn(Keyed(entries))
      <4>1. CASE it.done
        BY <2>0, <4>1 DEF ItInv
      <4>2. CASE ~it.done
        <5>1. Before(it.slot) = Keyed(entries)
          BY <1>2, <1>4, <2>3, <4>2 DEF Searches, Before, Slot
        <5> QED
          BY <2>0, <5>1
      <4> QED
        BY <4>1, <4>2
    <3>3. KeysIn(Before(it.index))' \subseteq visited'
      BY <1>1, <1>2, <2>0, <3>1, <3>2 DEF KeysIn, Before
    <3>4. it.from = "test" => it.index = 0
      BY <2>0 DEF ItInv
    <3> QED
      BY <1>1, <1>2, <2>0, <3>1, <3>2, <3>3, <3>4 DEF ItInv
  <2> QED
    BY <1>8, <2>1, <2>2, <2>3 DEF Search
<1>9. CASE Return
  BY <1>9 DEF Return, NoIterator, ItInv, Places
<1> QED
  BY <1>5, <1>6, <1>7, <1>8, <1>9 DEF Iterate

THEOREM IteratorInvariant ==
  ASSUME TableAssumption
  PROVE  IteratorSpec => [](TInv /\ ItInv)
<1>1. IteratorInit => TInv /\ ItInv
  BY InitTInv, IteratorInitItInv DEF IteratorInit
<1>2. TInv /\ ItInv /\ [TableStep \/ Iterate]_IteratorVars => (TInv /\ ItInv)'
  <2> SUFFICES ASSUME TInv, ItInv, [TableStep \/ Iterate]_IteratorVars
               PROVE  TInv' /\ ItInv'
    OBVIOUS
  <2>1. CASE TableStep
    BY <2>1, NextKeepsTInv, TableStepKeepsItInv DEF TableStep
  <2>2. CASE Iterate
    <3>1. UNCHANGED TableVars
      BY <2>2 DEF Iterate, NewIterator, TestSlot, ReadKey, Search, Return
    <3> QED
      BY <2>2, <3>1, NextKeepsTInv, IterateKeepsItInv
  <2>3. CASE UNCHANGED IteratorVars
    <3>1. UNCHANGED TableVars /\ UNCHANGED <<entries, capacity, call, it, visited>>
      BY <2>3 DEF IteratorVars, iteratorVars, TableVars, tableVars
    <3>2. ItInv'
      BY <3>1 DEF ItInv, At, KeysIn, Before, Keyed
    <3> QED
      BY <3>1, <3>2, NextKeepsTInv
  <2> QED
    BY <2>1, <2>2, <2>3
<1> QED
  BY <1>1, <1>2, PTL DEF IteratorSpec

(* getKeyTableIterator is called on a slot with a key only, and the         *)
(* iterator looks beyond the array only when there is none.                *)
THEOREM IteratorReadsKeys ==
  ASSUME TableAssumption
  PROVE  IteratorSpec => []ReadsKeys
<1>1. TInv /\ ItInv => ReadsKeys
  BY DEF ItInv, ReadsKeys
<1> QED
  BY <1>1, IteratorInvariant, PTL

(* An iteration over a table that says it is done has read all of it, also *)
(* when the search for the next key wrapped around the end of the array.   *)
THEOREM IterationIsComplete ==
  ASSUME TableAssumption
  PROVE  IteratorSpec => []DoneReadAll
<1>1. TInv /\ ItInv => DoneReadAll
  BY DEF ItInv, DoneReadAll, KeysIn
<1> QED
  BY <1>1, IteratorInvariant, PTL
=============================================================================
