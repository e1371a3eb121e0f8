----------------------------- MODULE BufferProofs -----------------------------
(***************************************************************************)
(* Two buffers that grow.                                                  *)
(*                                                                         *)
(* The queue of binary.c loses, repeats and reorders nothing, for any      *)
(* values and any capacities.  The invariant says which slots of the       *)
(* buffer are in use: round the ring from head on, and behind the ring up  *)
(* to tail, without a gap, and no slot that has been polled.               *)
(*                                                                         *)
(* getLine finds the line of every byte of a chunk.  The invariant says    *)
(* which bytes a run of lines is for, and that the first run leaves none   *)
(* in front of it.                                                         *)
(***************************************************************************)
EXTENDS ValueQueue, Chunk, SequenceTheorems, WellFoundedInduction, TLAPS

-----------------------------------------------------------------------------
(* The queue: the slots in use *)

(* x modulo m, for the x that occur *)
Wrap(x, m) == IF x < m THEN x ELSE x - m

(* the slot of the i-th value in the queue *)
Place(i) == IF i <= ringCount THEN Wrap(head + i - 1, ringCapacity)
            ELSE ringCapacity + i - ringCount - 1

Counts ==
  /\ bufferCapacity \in Nat /\ ringCapacity \in Nat
  /\ bufferCount \in Nat /\ ringCount \in Nat
  /\ head \in Nat /\ tail \in Nat
  /\ ringCount <= bufferCount /\ ringCount <= ringCapacity /\ ringCapacity <= bufferCapacity
  /\ bufferCount - ringCount <= bufferCapacity - ringCapacity
  /\ ringCapacity < bufferCapacity => 0 < ringCount /\ ringCount < bufferCount

Ends ==
  /\ bufferCapacity = 0 => head = 0 /\ tail = 0
  /\ bufferCapacity > 0 => head < ringCapacity
  /\ bufferCapacity > 0 /\ ringCapacity = bufferCapacity
       => tail = Wrap(head + ringCount, ringCapacity)
  /\ ringCapacity < bufferCapacity
       => tail = Wrap(ringCapacity + bufferCount - ringCount, bufferCapacity)

InUse(i) ==
  \/ i < ringCapacity /\ head <= i /\ i < head + ringCount
  \/ i < ringCapacity /\ i + ringCapacity < head + ringCount
  \/ ringCapacity <= i /\ i < ringCapacity + bufferCount - ringCount

QInv ==
  /\ Counts /\ Ends
  /\ DOMAIN values = BufferSlot(bufferCapacity)
  /\ values = [i \in BufferSlot(bufferCapacity) |-> values[i]]
  /\ \A i \in BufferSlot(bufferCapacity) :
       IF InUse(i) THEN values[i] \in Item ELSE values[i] = Nil

-----------------------------------------------------------------------------
(* Arithmetic of the ring *)

LEMMA WrapMod ==
  ASSUME NEW m \in Nat \ {0}, NEW x \in Nat, x < 2 * m
  PROVE  x % m = Wrap(x, m) /\ Wrap(x, m) \in 0..(m - 1)
<1>1. CASE x < m
  BY <1>1 DEF Wrap
<1>2. CASE x >= m
  BY <1>2 DEF Wrap
<1> QED
  BY <1>1, <1>2

LEMMA InitQInv == QueueInit => QInv
BY DEF QueueInit, QInv, Counts, Ends, InUse, BufferSlot, Wrap

(* the i-th value is in a slot in use, of its own, *)
LEMMA PlaceInUse ==
  ASSUME Counts, Ends, NEW i \in 1..bufferCount
  PROVE  Place(i) \in BufferSlot(bufferCapacity) /\ InUse(Place(i))
BY DEF Counts, Ends, Place, InUse, BufferSlot, Wrap

LEMMA PlaceInjective ==
  ASSUME Counts, Ends, NEW i \in 1..bufferCount, NEW j \in 1..bufferCount, Place(i) = Place(j)
  PROVE  i = j
BY DEF Counts, Ends, Place, Wrap

(* and every slot in use is the place of a value. *)
LEMMA UsedIsPlace ==
  ASSUME Counts, Ends, NEW j \in BufferSlot(bufferCapacity), InUse(j)
  PROVE  \E i \in 1..bufferCount : Place(i) = j
<1>1. CASE j < ringCapacity /\ head <= j
  <2>1. j - head + 1 \in 1..bufferCount /\ Place(j - head + 1) = j
    BY <1>1 DEF Counts, Ends, Place, InUse, BufferSlot, Wrap
  <2> QED
    BY <2>1
<1>2. CASE j < ringCapacity /\ j < head
  <2>1. /\ j + ringCapacity - head + 1 \in 1..bufferCount
        /\ Place(j + ringCapacity - head + 1) = j
    BY <1>2 DEF Counts, Ends, Place, InUse, BufferSlot, Wrap
  <2> QED
    BY <2>1
<1>3. CASE j >= ringCapacity
  <2>1. /\ j - ringCapacity + ringCount + 1 \in 1..bufferCount
        /\ Place(j - ringCapacity + ringCount + 1) = j
    BY <1>3 DEF Counts, Ends, Place, InUse, BufferSlot, Wrap
  <2> QED
    BY <2>1
<1> QED
  BY <1>1, <1>2, <1>3 DEF Counts, Ends, BufferSlot

LEMMA FunctionIsSeq ==
  ASSUME NEW S, NEW n \in Nat, NEW s \in [1..n -> S]
  PROVE  s \in Seq(S) /\ Len(s) = n
OBVIOUS

LEMMA ContentsFacts ==
  ASSUME QInv
  PROVE  /\ Queued \in Seq(Item) /\ Len(Queued) = bufferCount
         /\ \A i \in 1..bufferCount : Queued[i] = values[Place(i)]
<1>1. Counts /\ Ends
  BY DEF QInv
<1>2. \A i \in 1..bufferCount : values[Place(i)] \in Item
  BY <1>1, PlaceInUse DEF QInv
<1>3. \A i \in 1..ringCount : (head + i - 1) % ringCapacity = Place(i) /\ i \in 1..bufferCount
  <2> SUFFICES ASSUME NEW i \in 1..ringCount
               PROVE  (head + i - 1) % ringCapacity = Place(i) /\ i \in 1..bufferCount
    OBVIOUS
  <2>1. /\ ringCapacity \in Nat \ {0} /\ head + i - 1 \in Nat
        /\ head + i - 1 < 2 * ringCapacity /\ i \in 1..bufferCount
    BY <1>1 DEF Counts, Ends
  <2> QED
    BY <2>1, WrapMod DEF Place
<1>4. Ring \in Seq(Item) /\ Len(Ring) = ringCount
      /\ \A i \in 1..ringCount : Ring[i] = values[Place(i)]
  <2>1. ringCount \in Nat
    BY <1>1 DEF Counts
  <2> QED
    <3>1. Ring \in [1..ringCount -> Item]
      BY <1>2, <1>3 DEF Ring
    <3> QED
      BY <1>3, <2>1, <3>1, FunctionIsSeq DEF Ring
<1>5. Behind \in Seq(Item) /\ Len(Behind) = bufferCount - ringCount
      /\ \A i \in 1..(bufferCount - ringCount) : Behind[i] = values[Place(i + ringCount)]
  <2>1. bufferCount - ringCount \in Nat
    BY <1>1 DEF Counts
  <2>2. \A i \in 1..(bufferCount - ringCount) :
          i + ringCount \in 1..bufferCount /\ Place(i + ringCount) = ringCapacity + i - 1
    BY <1>1 DEF Counts, Place
  <2> QED
    <3>1. Behind \in [1..(bufferCount - ringCount) -> Item]
      BY <1>2, <2>2 DEF Behind
    <3> QED
      BY <2>1, <2>2, <3>1, FunctionIsSeq DEF Behind
<1>6. /\ Queued \in Seq(Item) /\ Len(Queued) = bufferCount
      /\ \A i \in 1..bufferCount : Queued[i] = IF i <= ringCount THEN Ring[i]
                                                 ELSE Behind[i - ringCount]
  <2>1. Len(Ring) + Len(Behind) = bufferCount
    BY <1>1, <1>4, <1>5 DEF Counts
  <2> QED
    BY <1>4, <1>5, <2>1, ConcatProperties DEF Queued
<1>7. \A i \in 1..bufferCount : i <= ringCount => i \in 1..ringCount
  BY <1>1 DEF Counts
<1>8. \A i \in 1..bufferCount : ~(i <= ringCount) =>
        i - ringCount \in 1..(bufferCount - ringCount) /\ (i - ringCount) + ringCount = i
  BY <1>1 DEF Counts
<1> QED
  BY <1>4, <1>5, <1>6, <1>7, <1>8

-----------------------------------------------------------------------------
(* enqueueValue *)

LEMMA TargetFits ==
  ASSUME QueueAssumption, Counts, Ends
  PROVE  /\ Target \in Nat /\ NewCapacity \in Nat /\ Target < NewCapacity
         /\ bufferCapacity <= NewCapacity /\ Target <= bufferCapacity
         /\ ExpandBuffer => bufferCapacity < NewCapacity
BY DEF QueueAssumption, Counts, Ends, Target, NewCapacity, GrowBuffer, ExpandBuffer, Wrap

(* The slot taken is the one after the last value, in whichever of the     *)
(* ways the buffer grows, and no value changes its place.                  *)
LEMMA EnqueuePlaces ==
  ASSUME QueueAssumption, Counts, Ends, NEW v, Enqueue(v)
  PROVE  /\ Counts' /\ Ends'
         /\ \A i \in BufferSlot(bufferCapacity') :
              InUse(i)' <=> i = Target \/ (i < bufferCapacity /\ InUse(i))
         /\ \A i \in 1..bufferCount : Place(i)' = Place(i) /\ Place(i) # Target
         /\ Place(bufferCount)' = Target
<1>1. /\ Target \in Nat /\ NewCapacity \in Nat /\ Target < NewCapacity
      /\ bufferCapacity <= NewCapacity /\ Target <= bufferCapacity
      /\ ExpandBuffer => bufferCapacity < NewCapacity
  BY TargetFits
<1>2. tail' = Wrap(Target + 1, NewCapacity)
  BY <1>1, WrapMod DEF Enqueue
<1>3. /\ bufferCapacity' = NewCapacity
      /\ ringCapacity' = IF ExpandRing THEN NewCapacity ELSE ringCapacity
      /\ bufferCount' = bufferCount + 1
      /\ ringCount' = IF Target < ringCapacity' THEN ringCount + 1 ELSE ringCount
      /\ head' = head
  BY DEF Enqueue
<1>4. CASE ExpandRing
  <2>1. /\ head = 0 /\ Target = bufferCapacity /\ ringCapacity = bufferCapacity
        /\ ringCount = bufferCapacity /\ bufferCount = ringCount /\ ringCapacity' = NewCapacity
        /\ bufferCapacity < NewCapacity
    BY <1>1, <1>3, <1>4 DEF ExpandRing, Target, ExpandBuffer, Counts, Ends, Wrap
  <2>2. Counts' /\ Ends'
    BY <1>1, <1>2, <1>3, <2>1 DEF Counts, Ends, Wrap
  <2>3. ASSUME NEW i \in BufferSlot(bufferCapacity')
        PROVE  InUse(i)' <=> i = Target \/ (i < bufferCapacity /\ InUse(i))
    BY <1>1, <1>3, <2>1, <2>3 DEF Counts, Ends, InUse, Wrap, BufferSlot
  <2>4. ASSUME NEW i \in 1..bufferCount PROVE Place(i)' = Place(i) /\ Place(i) # Target
    BY <1>1, <1>3, <2>1, <2>4 DEF Counts, Ends, Place, Wrap
  <2>5. Place(bufferCount)' = Target
    BY <1>1, <1>3, <2>1 DEF Counts, Ends, Place, Wrap
  <2> QED
    BY <2>2, <2>3, <2>4, <2>5
<1>5. CASE ExpandBuffer /\ ~ExpandRing
  <2>1. /\ Target = bufferCapacity /\ ringCapacity' = ringCapacity /\ ringCount' = ringCount
        /\ bufferCapacity < NewCapacity /\ ringCount > 0 
        /\ bufferCapacity = ringCapacity + bufferCount - ringCount
    BY <1>1, <1>3, <1>5 DEF ExpandRing, Target, ExpandBuffer, Counts, Ends, Wrap
  <2>2. Counts' /\ Ends'
    BY <1>1, <1>2, <1>3, <2>1 DEF Counts, Ends, Wrap
  <2>3. ASSUME NEW i \in BufferSlot(bufferCapacity')
        PROVE  InUse(i)' <=> i = Target \/ (i < bufferCapacity /\ InUse(i))
    BY <1>1, <1>3, <2>1, <2>3 DEF Counts, Ends, InUse, Wrap, BufferSlot
  <2>4. ASSUME NEW i \in 1..bufferCount PROVE Place(i)' = Place(i) /\ Place(i) # Target
    BY <1>1, <1>3, <2>1, <2>4 DEF Counts, Ends, Place, Wrap
  <2>5. Place(bufferCount)' = Target
    BY <1>1, <1>3, <2>1 DEF Counts, Ends, Place, Wrap
  <2> QED
    BY <2>2, <2>3, <2>4, <2>5
<1>6. CASE ~ExpandBuffer /\ ringCapacity = bufferCapacity
  <2>1. /\ Target = tail /\ ringCapacity' = ringCapacity /\ ringCount' = ringCount + 1
        /\ NewCapacity = bufferCapacity /\ ringCount = bufferCount /\ ringCount < ringCapacity
    BY <1>1, <1>3, <1>6 DEF ExpandRing, Target, NewCapacity, ExpandBuffer, Counts, Ends, Wrap
  <2>2. Counts' /\ Ends'
    BY <1>1, <1>2, <1>3, <1>6, <2>1 DEF Counts, Ends, Wrap
  <2>3. ASSUME NEW i \in BufferSlot(bufferCapacity')
        PROVE  InUse(i)' <=> i = Target \/ (i < bufferCapacity /\ InUse(i))
    BY <1>1, <1>3, <1>6, <2>1, <2>3 DEF Counts, Ends, InUse, Wrap, BufferSlot
  <2>4. ASSUME NEW i \in 1..bufferCount PROVE Place(i)' = Place(i) /\ Place(i) # Target
    BY <1>1, <1>3, <1>6, <2>1, <2>4 DEF Counts, Ends, Place, Wrap
  <2>5. Place(bufferCount)' = Target
    BY <1>1, <1>3, <1>6, <2>1 DEF Counts, Ends, Place, Wrap
  <2> QED
    BY <2>2, <2>3, <2>4, <2>5
<1>7. CASE ~ExpandBuffer /\ ringCapacity # bufferCapacity
  <2>1. /\ Target = tail /\ ringCapacity' = ringCapacity /\ ringCount' = ringCount
        /\ NewCapacity = bufferCapacity
        /\ tail = ringCapacity + bufferCount - ringCount /\ tail < bufferCapacity
    BY <1>1, <1>3, <1>7 DEF ExpandRing, Target, NewCapacity, ExpandBuffer, Counts, Ends, Wrap
  <2>2. Counts' /\ Ends'
    BY <1>1, <1>2, <1>3, <1>7, <2>1 DEF Counts, Ends, Wrap
  <2>3. ASSUME NEW i \in BufferSlot(bufferCapacity')
        PROVE  InUse(i)' <=> i = Target \/ (i < bufferCapacity /\ InUse(i))
    BY <1>1, <1>3, <1>7, <2>1, <2>3 DEF Counts, Ends, InUse, Wrap, BufferSlot
  <2>4. ASSUME NEW i \in 1..bufferCount PROVE Place(i)' = Place(i) /\ Place(i) # Target
    BY <1>1, <1>3, <1>7, <2>1, <2>4 DEF Counts, Ends, Place, Wrap
  <2>5. Place(bufferCount)' = Target
    BY <1>1, <1>3, <1>7, <2>1 DEF Counts, Ends, Place, Wrap
  <2> QED
    BY <2>2, <2>3, <2>4, <2>5
<1> QED
  BY <1>4, <1>5, <1>6, <1>7

LEMMA EnqueueQInv ==
  ASSUME QueueAssumption, QInv, NEW v \in Item, Enqueue(v)
  PROVE  QInv' /\ Queued' = Append(Queued, v)
<1>1. Counts /\ Ends
  BY DEF QInv
<1>2. Counts' /\ Ends'
  BY <1>1, EnqueuePlaces
<1>3. /\ Target \in BufferSlot(NewCapacity) /\ bufferCapacity' = NewCapacity
      /\ values' = [Grown EXCEPT ![Target] = v] /\ bufferCount' = bufferCount + 1
  BY <1>1, TargetFits DEF Enqueue, BufferSlot
<1>4. /\ values' = [i \in BufferSlot(bufferCapacity') |-> values'[i]]
      /\ DOMAIN values' = BufferSlot(bufferCapacity')
      /\ \A i \in BufferSlot(bufferCapacity') :
           values'[i] = IF i = Target THEN v ELSE IF i < bufferCapacity THEN values[i] ELSE Nil
  BY <1>3 DEF Grown
<1>5. QInv'
  <2>1. ASSUME NEW i \in BufferSlot(bufferCapacity')
        PROVE  IF InUse(i)' THEN values'[i] \in Item ELSE values'[i] = Nil
    <3>1. InUse(i)' <=> i = Target \/ (i < bufferCapacity /\ InUse(i))
      BY <1>1, <2>1, EnqueuePlaces
    <3>2. i < bufferCapacity => i \in BufferSlot(bufferCapacity)
      BY <1>1, <1>2, <2>1 DEF BufferSlot, Counts
    <3> QED
      BY <1>4, <2>1, <3>1, <3>2 DEF QInv
  <2> QED
    BY <1>2, <1>4, <2>1 DEF QInv
<1>6. /\ Queued \in Seq(Item) /\ Len(Queued) = bufferCount
      /\ \A i \in 1..bufferCount : Queued[i] = values[Place(i)]
  BY ContentsFacts
<1>7. /\ Queued' \in Seq(Item) /\ Len(Queued') = bufferCount + 1
      /\ \A i \in 1..(bufferCount + 1) : Queued'[i] = values'[Place(i)']
  <2>1. (QInv => /\ Queued \in Seq(Item) /\ Len(Queued) = bufferCount
                 /\ \A i \in 1..bufferCount : Queued[i] = values[Place(i)])'
    BY ContentsFacts, PTL
  <2> QED
    BY <1>3, <1>5, <2>1
<1>8. /\ Append(Queued, v) \in Seq(Item) /\ Len(Append(Queued, v)) = bufferCount + 1
      /\ \A i \in 1..bufferCount : Append(Queued, v)[i] = Queued[i]
      /\ Append(Queued, v)[bufferCount + 1] = v
  BY <1>6, AppendProperties
<1>9. ASSUME NEW i \in 1..bufferCount PROVE Queued'[i] = Queued[i]
  <2>1. Place(i)' = Place(i) /\ Place(i) # Target
    BY <1>1, EnqueuePlaces
  <2>2. Place(i) \in BufferSlot(bufferCapacity)
    BY <1>1, PlaceInUse
  <2>3. Place(i) \in BufferSlot(bufferCapacity') /\ Place(i) < bufferCapacity
    BY <1>1, <1>3, <2>2, TargetFits DEF BufferSlot, Counts
  <2> QED
    BY <1>1, <1>4, <1>6, <1>7, <2>1, <2>3 DEF Counts
<1>10. Queued'[bufferCount + 1] = v
  <2>1. Place(bufferCount)' = Target /\ bufferCount' \in 1..(bufferCount + 1)
    BY <1>1, <1>3, EnqueuePlaces DEF Counts
  <2> QED
    BY <1>3, <1>4, <1>7, <2>1
<1>11. \A i \in 1..(bufferCount + 1) : i \in 1..bufferCount \/ i = bufferCount + 1
  BY <1>1 DEF Counts
<1>12. Queued' = Append(Queued, v)
  BY <1>7, <1>8, <1>9, <1>10, <1>11, SeqEqual
<1> QED
  BY <1>5, <1>12

-----------------------------------------------------------------------------
(* pollValue *)

(* The value taken is the first, and those behind it move up, also when    *)
(* the ring has been emptied and what is behind it becomes the ring.       *)
LEMMA PollPlaces ==
  ASSUME Counts, Ends, Poll
  PROVE  /\ Counts' /\ Ends'
         /\ head \in BufferSlot(bufferCapacity) /\ Place(1) = head
         /\ \A i \in BufferSlot(bufferCapacity) : InUse(i)' <=> InUse(i) /\ i # head
         /\ \A i \in 1..(bufferCount - 1) : Place(i)' = Place(i + 1)
<1>1. /\ bufferCount > 0 /\ ringCapacity \in Nat \ {0} /\ bufferCapacity > 0 /\ ringCount > 0
      /\ head < ringCapacity
  BY DEF Poll, Counts, Ends
<1>2. head \in BufferSlot(bufferCapacity) /\ Place(1) = head
  BY <1>1 DEF Counts, Ends, BufferSlot, Place, Wrap
<1>3. bufferCount' = bufferCount - 1 /\ bufferCapacity' = bufferCapacity /\ tail' = tail
  BY DEF Poll
<1>4. CASE ringCount = 1 /\ bufferCount > 1
  <2>1. head' = ringCapacity /\ ringCount' = bufferCount - 1 /\ ringCapacity' = bufferCapacity
    BY <1>4 DEF Poll
  <2>2. ringCapacity < bufferCapacity
    BY <1>4 DEF Counts
  <2>3. Counts' /\ Ends'
    BY <1>1, <1>3, <1>4, <2>1, <2>2 DEF Counts, Ends, Wrap
  <2>4. ASSUME NEW i \in BufferSlot(bufferCapacity) PROVE InUse(i)' <=> InUse(i) /\ i # head
    BY <1>1, <1>3, <1>4, <2>1, <2>2, <2>4 DEF Counts, Ends, InUse, BufferSlot
  <2>5. ASSUME NEW i \in 1..(bufferCount - 1) PROVE Place(i)' = Place(i + 1)
    BY <1>1, <1>3, <1>4, <2>1, <2>2, <2>5 DEF Counts, Ends, Place, Wrap
  <2> QED
    BY <1>2, <2>3, <2>4, <2>5
<1>5. CASE ~(ringCount = 1 /\ bufferCount > 1)
  <2>1. /\ head' = (head + 1) % ringCapacity
        /\ ringCount' = ringCount - 1 /\ ringCapacity' = ringCapacity
    BY <1>5 DEF Poll
  <2>2. head' = Wrap(head + 1, ringCapacity)
    BY <1>1, <2>1, WrapMod DEF Counts
  <2>3. Counts' /\ Ends'
    BY <1>1, <1>3, <1>5, <2>1, <2>2 DEF Counts, Ends, Wrap
  <2>4. ASSUME NEW i \in BufferSlot(bufferCapacity) PROVE InUse(i)' <=> InUse(i) /\ i # head
    BY <1>1, <1>3, <1>5, <2>1, <2>2, <2>4 DEF Counts, Ends, InUse, BufferSlot, Wrap
  <2>5. ASSUME NEW i \in 1..(bufferCount - 1) PROVE Place(i)' = Place(i + 1)
    <3>1. i \in Nat \ {0} /\ ringCount \in Nat /\ head \in Nat /\ ringCapacity \in Nat
      BY <2>5 DEF Counts
    <3>2. CASE i < ringCount
      <4>1. Place(i + 1) = Wrap(head + i, ringCapacity)
        BY <3>1, <3>2 DEF Place
      <4>2. Place(i)' = Wrap(head' + i - 1, ringCapacity)
        BY <2>1, <3>1, <3>2 DEF Place
      <4> QED
        BY <1>1, <2>2, <3>1, <3>2, <4>1, <4>2 DEF Counts, Wrap
    <3>3. CASE i >= ringCount
      BY <2>1, <3>1, <3>3 DEF Place
    <3> QED
      BY <3>1, <3>2, <3>3
  <2> QED
    BY <1>2, <2>3, <2>4, <2>5
<1> QED
  BY <1>4, <1>5

LEMMA PollQInv ==
  ASSUME QInv, Poll
  PROVE  QInv' /\ Queued # <<>> /\ polled' = Head(Queued) /\ Queued' = Tail(Queued)
<1>1. Counts /\ Ends
  BY DEF QInv
<1>2. Counts' /\ Ends' /\ head \in BufferSlot(bufferCapacity) /\ Place(1) = head
  BY <1>1, PollPlaces
<1>3. /\ values' = [values EXCEPT ![head] = Nil] /\ polled' = values[head]
      /\ bufferCount > 0 /\ bufferCount' = bufferCount - 1 /\ bufferCapacity' = bufferCapacity
  BY DEF Poll, FreedAt
<1>4. /\ values' = [i \in BufferSlot(bufferCapacity') |-> values'[i]]
      /\ DOMAIN values' = BufferSlot(bufferCapacity')
      /\ \A i \in BufferSlot(bufferCapacity') : values'[i] = IF i = head THEN Nil ELSE values[i]
  BY <1>2, <1>3 DEF QInv
<1>5. QInv'
  <2>1. ASSUME NEW i \in BufferSlot(bufferCapacity')
        PROVE  IF InUse(i)' THEN values'[i] \in Item ELSE values'[i] = Nil
    <3>1. InUse(i)' <=> InUse(i) /\ i # head
      BY <1>1, <1>3, <2>1, PollPlaces
    <3> QED
      BY <1>3, <1>4, <2>1, <3>1 DEF QInv
  <2> QED
    BY <1>2, <1>4, <2>1 DEF QInv
<1>6. /\ Queued \in Seq(Item) /\ Len(Queued) = bufferCount
      /\ \A i \in 1..bufferCount : Queued[i] = values[Place(i)]
  BY ContentsFacts
<1>7. /\ Queued' \in Seq(Item) /\ Len(Queued') = bufferCount - 1
      /\ \A i \in 1..(bufferCount - 1) : Queued'[i] = values'[Place(i)']
  <2>1. (QInv => /\ Queued \in Seq(Item) /\ Len(Queued) = bufferCount
                 /\ \A i \in 1..bufferCount : Queued[i] = values[Place(i)])'
    BY ContentsFacts, PTL
  <2> QED
    BY <1>3, <1>5, <2>1
<1>8. Queued # <<>> /\ polled' = Head(Queued)
  <2>1. 1 \in 1..bufferCount
    BY <1>1, <1>3 DEF Counts
  <2> QED
    BY <1>2, <1>3, <1>6, <2>1
<1>9. /\ Tail(Queued) \in Seq(Item) /\ Len(Tail(Queued)) = bufferCount - 1
      /\ \A i \in 1..(bufferCount - 1) : Tail(Queued)[i] = Queued[i + 1]
  BY <1>6, <1>8, HeadTailProperties
<1>10. ASSUME NEW i \in 1..(bufferCount - 1) PROVE Queued'[i] = Queued[i + 1]
  <2>1. Place(i)' = Place(i + 1) /\ i \in Nat /\ i + 1 \in 1..bufferCount /\ 1 \in 1..bufferCount
    BY <1>1, PollPlaces DEF Counts
  <2>2. Place(i + 1) \in BufferSlot(bufferCapacity)
    BY <1>1, <2>1, PlaceInUse
  <2>3. Place(i + 1) # head
    <3>1. Place(i + 1) # Place(1)
      BY <1>1, <2>1, PlaceInjective
    <3> QED
      BY <1>2, <3>1
  <2> QED
    BY <1>3, <1>4, <1>6, <1>7, <2>1, <2>2, <2>3
<1>11. Queued' = Tail(Queued)
  BY <1>7, <1>9, <1>10, SeqEqual
<1> QED
  BY <1>5, <1>8, <1>11

-----------------------------------------------------------------------------
(* The theorems *)

LEMMA StutterQInv == QInv /\ UNCHANGED QueueVars => QInv'
BY DEF QInv, Counts, Ends, InUse, QueueVars, ringVars

(* The slots in use are those of the ring and those behind it. *)
THEOREM QueueInvariant == ASSUME QueueAssumption PROVE QueueSpec => []QInv
<1>1. QueueInit => QInv
  BY InitQInv
<1>2. QInv /\ [QueueNext]_QueueVars => QInv'
  BY EnqueueQInv, PollQInv, StutterQInv DEF QueueNext
<1> QED
  BY <1>1, <1>2, PTL DEF QueueSpec

(* findInQueue, which scans the whole buffer, finds exactly what waits.    *)
THEOREM QueueFindsWaiting == ASSUME QueueAssumption PROVE QueueSpec => []FindsWaiting
<1>1. QInv => FindsWaiting
  <2> SUFFICES ASSUME QInv, NEW v \in Item
               PROVE  FindInQueue(v) <=> \E i \in 1..bufferCount : Queued[i] = v
    BY DEF FindsWaiting
  <2>1. \A i \in 1..bufferCount : Queued[i] = values[Place(i)]
    BY ContentsFacts
  <2>2. \A i \in 1..bufferCount : Place(i) \in BufferSlot(bufferCapacity)
    BY PlaceInUse DEF QInv
  <2>3. ASSUME NEW j \in BufferSlot(bufferCapacity), values[j] = v
        PROVE  \E i \in 1..bufferCount : Place(i) = j
    <3>1. InUse(j)
      BY <2>3 DEF QInv, QueueAssumption
    <3> QED
      BY <3>1, UsedIsPlace DEF QInv
  <2> QED
    BY <2>1, <2>2, <2>3 DEF FindInQueue
<1> QED
  BY <1>1, QueueInvariant, PTL

(* The ring buffer, growing in the middle of everything, is a queue.       *)
THEOREM QueueIsFifo == ASSUME QueueAssumption PROVE QueueSpec => ImplementsFifo
<1>1. QueueInit => PromisedQueue!Init
  <2> SUFFICES ASSUME QueueInit PROVE Queued = <<>> /\ polled \notin Item
    BY DEF PromisedQueue!Init
  <2>1. Queued \in Seq(Item) /\ Len(Queued) = 0
    BY InitQInv, ContentsFacts DEF QueueInit
  <2> QED
    BY <2>1, EmptySeq DEF QueueInit, QueueAssumption
<1>2. QInv /\ [QueueNext]_QueueVars => [PromisedQueue!Next]_<<Queued, polled>>
  <2> SUFFICES ASSUME QInv, [QueueNext]_QueueVars PROVE [PromisedQueue!Next]_<<Queued, polled>>
    OBVIOUS
  <2>1. CASE Poll
    BY <2>1, PollQInv DEF PromisedQueue!Next, PromisedQueue!Poll
  <2>2. ASSUME NEW v \in Item, Enqueue(v) PROVE PromisedQueue!Next
    BY <2>2, EnqueueQInv DEF PromisedQueue!Next, PromisedQueue!Enqueue, Enqueue
  <2>3. CASE UNCHANGED QueueVars
    BY <2>3 DEF QueueVars, ringVars, Queued, Ring, Behind
  <2> QED
    BY <2>1, <2>2, <2>3 DEF QueueNext
<1> QED
  BY <1>1, <1>2, QueueInvariant, PTL DEF QueueSpec, ImplementsFifo, PromisedQueue!Spec

-----------------------------------------------------------------------------
(* The chunk: the loop of getLine ends, since a turn leaves fewer runs.    *)

(* the number of runs that are left *)
Left(r) == IF r[1] > r[2] THEN 0 ELSE r[2] - r[1] + 1

Below(lines, n) == {r \in Ranges(lines) : Left(r) < n}

FoundBelow(lines, i, find, n) == find = [r \in Below(lines, n) |-> Turn(lines, i, find, r)]

(* What fails for some natural number fails for a least one.               *)
LEMMA NaturalsHaveLeast ==
  ASSUME NEW S, S \subseteq Nat, S # {}
  PROVE  \E i \in S : \A j \in S : i <= j
<1>1. IsWellFoundedOn(OpToRel(<, Nat), Nat)
  BY NatLessThanWellFounded
<1>2. PICK x \in S : \A y \in S : <<y, x>> \notin OpToRel(<, Nat)
  BY <1>1, WFMin
<1>3. \A y \in S : ~(y < x)
  BY <1>2 DEF OpToRel
<1> QED
  BY <1>3

(* mid is one of the runs left *)
LEMMA MiddleIsBetween ==
  ASSUME NEW m \in Nat, NEW n \in Nat, m <= n
  PROVE  (m + n) \div 2 \in Nat /\ m <= (m + n) \div 2 /\ (m + n) \div 2 <= n
OBVIOUS

(* A turn depends only on what the turns over fewer runs find. *)
LEMMA TurnNarrows ==
  ASSUME NEW lines, Len(lines) \in Nat, NEW i, NEW r \in Ranges(lines), NEW f, NEW g,
         \A s \in Ranges(lines) : Left(s) < Left(r) => f[s] = g[s]
  PROVE  Turn(lines, i, f, r) = Turn(lines, i, g, r)
<1> DEFINE mid == (r[1] + r[2]) \div 2
           lower == <<r[1], mid - 1>>
           upper == <<mid + 1, r[2]>>
<1>1. r[1] \in Nat /\ r[2] \in Int /\ r[1] <= Len(lines) /\ r[2] < Len(lines) /\ r[2] >= -1
  BY DEF Ranges
<1>2. CASE r[1] > r[2]
  BY <1>2 DEF Turn
<1>3. CASE r[1] <= r[2]
  <2>1. mid \in Nat /\ r[1] <= mid /\ mid <= r[2]
    BY <1>1, <1>3
  <2> HIDE DEF mid
  <2>2. lower \in Ranges(lines) /\ upper \in Ranges(lines)
    BY <1>1, <2>1 DEF Ranges
  <2>3. Left(lower) < Left(r) /\ Left(upper) < Left(r)
    BY <1>1, <1>3, <2>1 DEF Left
  <2>4. f[lower] = g[lower] /\ f[upper] = g[upper]
    BY <2>2, <2>3
  <2> QED
    BY <2>4 DEF Turn, mid
<1> QED
  BY <1>1, <1>2, <1>3

(* There is a function that does what the turns say: a longest search for  *)
(* which there is none would have one for all that is shorter.             *)
LEMMA LoopFindsBelow ==
  ASSUME NEW lines, Len(lines) \in Nat, NEW i
  PROVE  \A n \in Nat : \E find : FoundBelow(lines, i, find, n)
<1> DEFINE Missing == {n \in Nat : ~ \E find : FoundBelow(lines, i, find, n)}
<1> SUFFICES ASSUME Missing # {} PROVE FALSE
  OBVIOUS
<1>1. PICK n \in Missing : \A m \in Missing : n <= m
  BY NaturalsHaveLeast
<1>2. n # 0
  <2>1. Below(lines, 0) = {}
    BY DEF Below, Left, Ranges
  <2>2. FoundBelow(lines, i, [r \in {} |-> 0], 0)
    BY <2>1 DEF FoundBelow
  <2> QED
    BY <2>2, <1>1
<1>3. n - 1 \in Nat /\ n - 1 \notin Missing
  BY <1>1, <1>2
<1>4. PICK f : FoundBelow(lines, i, f, n - 1)
  BY <1>3
<1> DEFINE g == [r \in Below(lines, n) |-> Turn(lines, i, f, r)]
<1>5. Below(lines, n - 1) \subseteq Below(lines, n)
  BY <1>1, <1>3 DEF Below, Left, Ranges
<1>6. \A r \in Below(lines, n - 1) : g[r] = f[r]
  BY <1>4, <1>5 DEF FoundBelow
<1>7. ASSUME NEW r \in Below(lines, n) PROVE g[r] = Turn(lines, i, g, r)
  <2>1. \A s \in Ranges(lines) : Left(s) < Left(r) => s \in Below(lines, n - 1)
    BY <1>1, <1>3 DEF Below, Left, Ranges
  <2>2. \A s \in Ranges(lines) : Left(s) < Left(r) => f[s] = g[s]
    BY <1>6, <2>1
  <2>3. Turn(lines, i, f, r) = Turn(lines, i, g, r)
    <3> HIDE DEF g
    <3> QED
      BY <2>2, TurnNarrows DEF Below
  <2> QED
    BY <2>3
<1>8. FoundBelow(lines, i, g, n)
  <2>1. g = [r \in Below(lines, n) |-> g[r]]
    OBVIOUS
  <2> HIDE DEF g
  <2> QED
    BY <1>7, <2>1 DEF FoundBelow
<1> QED
  BY <1>1, <1>8

(* The loop ends: what it finds for some runs is what its turn finds. *)
LEMMA LoopTurns ==
  ASSUME NEW lines, Len(lines) \in Nat, NEW i
  PROVE  \A r \in Ranges(lines) : FindLine(lines, i)[r] = Turn(lines, i, FindLine(lines, i), r)
<1> DEFINE Found(f) == f = [r \in Ranges(lines) |-> Turn(lines, i, f, r)]
<1>1. Below(lines, Len(lines) + 1) = Ranges(lines)
  BY DEF Below, Left, Ranges
<1>2. \E f : Found(f)
  <2>1. PICK f : FoundBelow(lines, i, f, Len(lines) + 1)
    <3>1. Len(lines) + 1 \in Nat
      OBVIOUS
    <3> QED
      BY <3>1, LoopFindsBelow
  <2> QED
    BY <1>1, <2>1 DEF FoundBelow
<1>3. Found(CHOOSE f : Found(f))
  BY <1>2
<1>4. FindLine(lines, i) = CHOOSE f : Found(f)
  BY DEF FindLine
<1>5. Found(FindLine(lines, i))
  BY <1>3, <1>4
<1> QED
  BY <1>5

-----------------------------------------------------------------------------
(* What the runs say of the code: each is for the bytes from its offset to *)
(* the next one's, and they leave none out.                                *)

Run == [offset : Nat, line : Nat]
InRun(lines, j, i) == lines[j].offset <= i /\ (j = Len(lines) \/ i < lines[j + 1].offset)

Covered(code, lines, writtenAt) ==
  /\ lines = <<>> => Len(code) = 0
  /\ lines # <<>> => lines[1].offset = 0
  /\ \A j \in 1..Len(lines) : lines[j].offset < Len(code)
  /\ \A j \in 1..Len(lines), i \in 0..(Len(code) - 1) :
       InRun(lines, j, i) => writtenAt[i + 1] = lines[j].line

ChunkInv ==
  \E code \in Seq(ByteValues), lines \in Seq(Run), writtenAt \in Seq(Nat) : \E constants :
    /\ chunk = [code |-> code, lines |-> lines, constants |-> constants, writtenAt |-> writtenAt]
    /\ Len(writtenAt) = Len(code)
    /\ Covered(code, lines, writtenAt)

LEMMA RunFacts ==
  ASSUME NEW lines \in Seq(Run)
  PROVE  /\ Len(lines) \in Nat
         /\ \A j \in 1..Len(lines) : lines[j].offset \in Nat /\ lines[j].line \in Nat
<1>1. ASSUME NEW j \in 1..Len(lines) PROVE lines[j] \in Run
  OBVIOUS
<1> QED
  BY <1>1 DEF Run

(* The search keeps between the runs it has left the one that i is in. *)
LEMMA SearchEnds ==
  ASSUME NEW lines \in Seq(Run), NEW i \in Nat, NEW line,
         \A j \in 1..Len(lines) : InRun(lines, j, i) => lines[j].line = line
  PROVE  \A r \in Ranges(lines) :
           /\ r[1] <= r[2]
           /\ lines[r[1] + 1].offset <= i
           /\ r[2] = Len(lines) - 1 \/ i < lines[r[2] + 2].offset
           => FindLine(lines, i)[r] = line
<1> DEFINE Within(r) ==
             /\ r[1] <= r[2]
             /\ lines[r[1] + 1].offset <= i
             /\ r[2] = Len(lines) - 1 \/ i < lines[r[2] + 2].offset
           loop == FindLine(lines, i)
           Wrong == {r \in Ranges(lines) : Within(r) /\ loop[r] # line}
           Widths == {Left(r) : r \in Wrong}
<1> SUFFICES ASSUME Wrong # {} PROVE FALSE
  OBVIOUS
<1>1. Len(lines) \in Nat /\ \A j \in 1..Len(lines) : lines[j].offset \in Nat
  BY RunFacts
<1>2. \A r \in Ranges(lines) : Left(r) \in Nat
  BY <1>1 DEF Left, Ranges
<1>3. Widths \subseteq Nat /\ Widths # {}
  <2>1. Wrong \subseteq Ranges(lines)
    OBVIOUS
  <2> HIDE DEF Wrong
  <2> QED
    BY <1>2, <2>1
<1>4. PICK r \in Wrong : \A s \in Wrong : Left(r) <= Left(s)
  <2> HIDE DEF Wrong
  <2>1. PICK n \in Widths : \A m \in Widths : n <= m
    <3> HIDE DEF Widths
    <3> QED
      BY <1>3, NaturalsHaveLeast
  <2> QED
    BY <2>1
<1>5. r \in Ranges(lines) /\ Within(r) /\ loop[r] # line
  BY <1>4
<1>6. ASSUME NEW s \in Ranges(lines), Within(s), Left(s) < Left(r)
      PROVE  loop[s] = line
  <2>1. ~(Left(r) <= Left(s))
    BY <1>2, <1>5, <1>6
  <2>2. s \notin Wrong
    <3> HIDE DEF Wrong
    <3> QED
      BY <1>4, <2>1
  <2> QED
    BY <1>6, <2>2
<1> DEFINE mid == (r[1] + r[2]) \div 2
           lower == <<r[1], mid - 1>>
           upper == <<mid + 1, r[2]>>
<1>7. /\ r[1] \in Nat /\ r[2] \in Nat /\ r[2] < Len(lines) /\ r[1] <= r[2]
      /\ r = <<r[1], r[2]>>
  <2> HIDE DEF loop, Wrong
  <2>1. r[1] <= r[2]
    BY <1>5
  <2> QED
    BY <1>1, <1>5, <2>1 DEF Ranges
<1>8. mid \in Nat /\ r[1] <= mid /\ mid <= r[2] /\ mid + 1 \in 1..Len(lines)
  <2>1. mid \in Nat /\ r[1] <= mid /\ mid <= r[2]
    BY <1>7, MiddleIsBetween
  <2> QED
    BY <1>1, <1>7, <2>1
<1>9. loop[r] = IF i < lines[mid + 1].offset THEN loop[lower]
                ELSE IF BeforeNextRun(lines, mid, i) THEN lines[mid + 1].line
                ELSE loop[upper]
  <2>1. loop[r] = Turn(lines, i, loop, r)
    BY <1>1, <1>5, LoopTurns
  <2>2. ~(r[1] > r[2])
    BY <1>7
  <2> HIDE DEF loop
  <2> QED
    BY <2>1, <2>2 DEF Turn
<1> HIDE DEF mid, loop, Wrong
<1>10. CASE i < lines[mid + 1].offset
  <2>1. r[1] # mid
    BY <1>1, <1>5, <1>7, <1>8, <1>10
  <2>2. lower \in Ranges(lines) /\ Left(lower) < Left(r)
    BY <1>1, <1>7, <1>8, <2>1 DEF Ranges, Left
  <2>3. Within(lower)
    BY <1>5, <1>7, <1>8, <1>10, <2>1
  <2> QED
    BY <1>5, <1>6, <1>9, <1>10, <2>2, <2>3
<1>11. CASE ~(i < lines[mid + 1].offset) /\ BeforeNextRun(lines, mid, i)
  <2>1. InRun(lines, mid + 1, i)
    BY <1>1, <1>8, <1>11 DEF BeforeNextRun, InRun
  <2>2. lines[mid + 1].line = line
    BY <1>8, <2>1
  <2> QED
    BY <1>5, <1>9, <1>11, <2>2
<1>12. CASE ~(i < lines[mid + 1].offset) /\ ~BeforeNextRun(lines, mid, i)
  <2>1. mid # Len(lines) - 1 /\ ~(i < lines[mid + 2].offset)
    BY <1>12 DEF BeforeNextRun
  <2>2. mid + 2 \in 1..Len(lines)
    BY <1>1, <1>8, <2>1
  <2>3. lines[mid + 2].offset <= i
    BY <1>1, <2>1, <2>2
  <2>4. mid # r[2]
    BY <1>5, <2>1
  <2>5. upper \in Ranges(lines) /\ Left(upper) < Left(r)
    BY <1>1, <1>7, <1>8, <2>4 DEF Ranges, Left
  <2>6. Within(upper)
    <3>1. (mid + 1) + 1 = mid + 2 /\ mid + 1 <= r[2]
      BY <1>7, <1>8, <2>4
    <3> QED
      BY <1>5, <2>3, <3>1
  <2> QED
    BY <1>5, <1>6, <1>9, <1>12, <2>5, <2>6
<1> QED
  BY <1>10, <1>11, <1>12

(* getLine begins with all runs, and the first begins at byte 0. *)
LEMMA InvFindsLines == ChunkInv => LinesFound
<1> SUFFICES ASSUME ChunkInv, NEW i \in 0..(Count(chunk) - 1)
             PROVE  GetLine(chunk, i) = chunk.writtenAt[i + 1]
  BY DEF LinesFound
<1>1. PICK code \in Seq(ByteValues), lines \in Seq(Run), writtenAt \in Seq(Nat) : \E constants :
        /\ chunk = [code |-> code, lines |-> lines, constants |-> constants,
                    writtenAt |-> writtenAt]
        /\ Len(writtenAt) = Len(code)
        /\ Covered(code, lines, writtenAt)
  BY DEF ChunkInv
<1>2. chunk.lines = lines /\ chunk.writtenAt = writtenAt /\ Count(chunk) = Len(code)
  BY <1>1 DEF Count
<1> DEFINE r == <<0, Len(lines) - 1>>
<1>3. Len(code) \in Nat /\ i \in Nat /\ i \in 0..(Len(code) - 1)
  BY <1>2
<1>4. Len(lines) \in Nat /\ Len(lines) # 0 /\ lines[1].offset = 0
  BY <1>1, <1>3 DEF Covered
<1>5. \A j \in 1..Len(lines) : InRun(lines, j, i) => lines[j].line = writtenAt[i + 1]
  BY <1>1, <1>3 DEF Covered
<1>6. /\ r \in Ranges(lines) /\ r[1] <= r[2] /\ lines[r[1] + 1].offset <= i
      /\ r[2] = Len(lines) - 1
  BY <1>3, <1>4 DEF Ranges
<1>7. FindLine(lines, i)[r] = writtenAt[i + 1]
  <2> HIDE DEF r
  <2>1. i \in Nat
    BY <1>3
  <2>2. \A s \in Ranges(lines) :
          /\ s[1] <= s[2]
          /\ lines[s[1] + 1].offset <= i
          /\ s[2] = Len(lines) - 1 \/ i < lines[s[2] + 2].offset
          => FindLine(lines, i)[s] = writtenAt[i + 1]
    BY <1>5, <2>1, SearchEnds
  <2> QED
    BY <1>6, <2>2
<1> QED
  BY <1>2, <1>7 DEF GetLine

(* writeChunk begins a run or leaves the last one to grow. *)
LEMMA WriteCovers ==
  ASSUME NEW code \in Seq(ByteValues), NEW lines \in Seq(Run), NEW writtenAt \in Seq(Nat),
         Len(writtenAt) = Len(code), Covered(code, lines, writtenAt),
         NEW byte \in ByteValues, NEW line \in Nat
  PROVE  Covered(Append(code, byte),
                 IF lines # <<>> /\ lines[Len(lines)].line = line THEN lines
                 ELSE Append(lines, [offset |-> Len(code), line |-> line]),
                 Append(writtenAt, line))
<1> DEFINE n == Len(lines)
           k == Len(code)
           wrote == Append(writtenAt, line)
           run == [offset |-> k, line |-> line]
<1>1. /\ n \in Nat /\ k \in Nat /\ Len(Append(code, byte)) = k + 1
      /\ \A j \in 1..n : lines[j].offset \in Nat /\ lines[j].offset < k
      /\ wrote[k + 1] = line /\ \A i \in 0..(k - 1) : wrote[i + 1] = writtenAt[i + 1]
  BY RunFacts, AppendProperties DEF Covered
<1>2. CASE lines # <<>> /\ lines[n].line = line
  <2>1. ASSUME NEW j \in 1..n, NEW i \in 0..k, InRun(lines, j, i)
        PROVE  wrote[i + 1] = lines[j].line
    <3>1. CASE i = k
      <4>1. j = n
        <5>1. SUFFICES ASSUME j # n PROVE FALSE
          OBVIOUS
        <5>2. j + 1 \in 1..n /\ i < lines[j + 1].offset
          BY <1>1, <2>1, <5>1 DEF InRun
        <5> QED
          BY <1>1, <3>1, <5>2
      <4> QED
        BY <1>1, <1>2, <3>1, <4>1
    <3>2. CASE i # k
      <4>1. i \in 0..(k - 1)
        BY <1>1, <3>2
      <4> QED
        BY <1>1, <2>1, <4>1 DEF Covered
    <3> QED
      BY <3>1, <3>2
  <2> QED
    BY <1>1, <1>2, <2>1 DEF Covered
<1>3. CASE ~(lines # <<>> /\ lines[n].line = line)
  <2> DEFINE new == Append(lines, run)
  <2>1. /\ Len(new) = n + 1 /\ new[n + 1] = run /\ \A j \in 1..n : new[j] = lines[j]
        /\ new # <<>>
    <3>1. run \in Run
      BY <1>1 DEF Run
    <3> QED
      BY <1>1, <3>1, AppendProperties
  <2>2. new[1].offset = 0
    <3>1. CASE lines = <<>>
      BY <1>1, <2>1, <3>1 DEF Covered
    <3>2. CASE lines # <<>>
      <4>1. 1 \in 1..n
        BY <1>1, <3>2
      <4> QED
        BY <2>1, <3>2, <4>1 DEF Covered
    <3> QED
      BY <3>1, <3>2
  <2> HIDE DEF new
  <2>3. ASSUME NEW j \in 1..(n + 1) PROVE new[j].offset \in 0..k
    <3>1. CASE j \in 1..n
      BY <1>1, <2>1, <3>1
    <3>2. CASE j = n + 1
      BY <1>1, <2>1, <3>2
    <3> QED
      BY <1>1, <3>1, <3>2
  <2>4. ASSUME NEW j \in 1..(n + 1), NEW i \in 0..k, InRun(new, j, i)
        PROVE  wrote[i + 1] = new[j].line
    <3>1. CASE j = n + 1
      <4>1. i = k
        BY <1>1, <2>1, <2>4, <3>1 DEF InRun
      <4> QED
        BY <1>1, <2>1, <3>1, <4>1
    <3>2. CASE j # n + 1
      <4>1. j \in 1..n /\ j + 1 \in 1..(n + 1) /\ i < new[j + 1].offset /\ new[j] = lines[j]
        BY <1>1, <2>1, <2>4, <3>2 DEF InRun
      <4>2. i \in 0..(k - 1)
        BY <1>1, <2>3, <4>1
      <4>3. InRun(lines, j, i)
        BY <1>1, <2>1, <2>4, <4>1 DEF InRun
      <4> QED
        BY <1>1, <4>1, <4>2, <4>3 DEF Covered
    <3> QED
      BY <3>1, <3>2
  <2>5. Covered(Append(code, byte), new, wrote)
    BY <1>1, <2>1, <2>2, <2>3, <2>4 DEF Covered
  <2> QED
    BY <1>3, <2>5 DEF new
<1> QED
  BY <1>2, <1>3

(* A byte that is patched or a constant that is added moves no run.        *)
LEMMA ChunkStep ==
  ASSUME ChunkInv, [ChunkNext]_chunk
  PROVE  ChunkInv'
<1>1. PICK code \in Seq(ByteValues), lines \in Seq(Run), writtenAt \in Seq(Nat) : \E constants :
        /\ chunk = [code |-> code, lines |-> lines, constants |-> constants,
                    writtenAt |-> writtenAt]
        /\ Len(writtenAt) = Len(code)
        /\ Covered(code, lines, writtenAt)
  BY DEF ChunkInv
<1>2. PICK constants :
        /\ chunk = [code |-> code, lines |-> lines, constants |-> constants,
                    writtenAt |-> writtenAt]
        /\ Len(writtenAt) = Len(code)
        /\ Covered(code, lines, writtenAt)
  BY <1>1
<1>3. ASSUME NEW byte \in ByteValues, NEW line \in Nat, WriteByte(byte, line)
      PROVE  ChunkInv'
  <2> DEFINE grown == IF lines # <<>> /\ lines[Len(lines)].line = line THEN lines
                      ELSE Append(lines, [offset |-> Len(code), line |-> line])
  <2>1. /\ code \o <<byte>> = Append(code, byte)
        /\ writtenAt \o [i \in DOMAIN <<byte>> |-> line] = Append(writtenAt, line)
    <3>1. [i \in DOMAIN <<byte>> |-> line] = <<line>>
      OBVIOUS
    <3>2. writtenAt \o <<line>> = Append(writtenAt, line)
      OBVIOUS
    <3> QED
      BY <3>1, <3>2
  <2>2. chunk' = [code |-> Append(code, byte), lines |-> grown, constants |-> constants,
                  writtenAt |-> Append(writtenAt, line)]
    BY <1>2, <1>3, <2>1 DEF WriteByte, WriteChunk, Count
  <2>3. /\ Append(code, byte) \in Seq(ByteValues) /\ Append(writtenAt, line) \in Seq(Nat)
        /\ Len(Append(writtenAt, line)) = Len(Append(code, byte))
    BY <1>2, AppendProperties
  <2>4. grown \in Seq(Run)
    <3>1. [offset |-> Len(code), line |-> line] \in Run
      BY DEF Run
    <3> QED
      BY <3>1, AppendProperties
  <2>5. Covered(Append(code, byte), grown, Append(writtenAt, line))
    BY <1>2, WriteCovers
  <2> HIDE DEF grown
  <2> QED
    BY <2>2, <2>3, <2>4, <2>5 DEF ChunkInv
<1>4. ASSUME NEW i \in Nat, NEW byte \in ByteValues, Patch(i, byte)
      PROVE  ChunkInv'
  <2> DEFINE patched == [code EXCEPT ![i + 1] = byte]
  <2>1. chunk' = [code |-> patched, lines |-> lines, constants |-> constants,
                  writtenAt |-> writtenAt]
    BY <1>2, <1>4 DEF Patch
  <2>2. patched \in Seq(ByteValues) /\ Len(patched) = Len(code)
    <3>1. i + 1 \in 1..Len(code)
      BY <1>2, <1>4 DEF Patch, Count
    <3> QED
      BY <3>1, ExceptSeq
  <2> HIDE DEF patched
  <2>3. Covered(patched, lines, writtenAt)
    BY <1>2, <2>2 DEF Covered
  <2> QED
    BY <1>2, <2>1, <2>2, <2>3 DEF ChunkInv
<1>5. ASSUME NEW v, WriteConstant(v)
      PROVE  ChunkInv'
  <2>1. chunk' = [code |-> code, lines |-> lines, constants |-> Append(constants, v),
                  writtenAt |-> writtenAt]
    BY <1>2, <1>5 DEF WriteConstant, AddConstant
  <2> QED
    BY <1>2, <2>1 DEF ChunkInv
<1>6. ASSUME chunk' = EmptyChunk
      PROVE  ChunkInv'
  <2>1. <<>> \in Seq(ByteValues) /\ <<>> \in Seq(Run) /\ <<>> \in Seq(Nat) /\ Covered(<<>>, <<>>, <<>>)
    BY DEF Covered
  <2> QED
    BY <1>6, <2>1 DEF ChunkInv, EmptyChunk
<1>7. CASE UNCHANGED chunk
  BY <1>7 DEF ChunkInv
<1> QED
  BY <1>3, <1>4, <1>5, <1>6, <1>7 DEF ChunkNext, FreeChunk

LEMMA ChunkInvHolds == ChunkInit => ChunkInv
<1>1. <<>> \in Seq(ByteValues) /\ <<>> \in Seq(Run) /\ <<>> \in Seq(Nat) /\ Covered(<<>>, <<>>, <<>>)
  BY DEF Covered
<1> QED
  BY <1>1 DEF ChunkInit, ChunkInv, EmptyChunk

(* The runs of lines cover the code: each byte is in the run of the line   *)
(* that writeChunk was called with, for any bytes and lines.               *)
THEOREM ChunkInvariant == ChunkSpec => []ChunkInv
<1>1. ChunkInit => ChunkInv
  BY ChunkInvHolds
<1>2. ChunkInv /\ [ChunkNext]_chunk => ChunkInv'
  BY ChunkStep
<1> QED
  BY <1>1, <1>2, PTL DEF ChunkSpec

(* For every byte of every chunk, the loop of getLine ends and answers the *)
(* line that writeChunk was called with for it.                            *)
THEOREM EveryLineFound == ChunkSpec => []LinesFound
BY ChunkInvariant, InvFindsLines, PTL
=============================================================================
