----------------------------- MODULE ValueQueue -----------------------------
(***************************************************************************)
(* The growing ring buffer of binary.c, which holds the functions and the  *)
(* strings still to be written.  It grows without moving what it holds:    *)
(* the first ringCapacity slots stay a ring that is only polled, and new   *)
(* values go behind them, until the ring is empty and the rest takes its   *)
(* place.                                                                  *)
(***************************************************************************)
EXTENDS Integers, Sequences, Values

CONSTANTS
  Item,        \* the values that are enqueued; Nil marks a free slot
  MinBuffer,   \* the first capacity, 8 in GROW_CAPACITY
  MaxBuffer    \* bound on bufferCapacity

QueueAssumption ==
  /\ Nil \notin Item
  /\ MinBuffer \in Nat \ {0} /\ MaxBuffer \in Nat

VARIABLES
  values,          \* the buffer, a function on 0..bufferCapacity-1
  bufferCount, bufferCapacity,
  ringCount, ringCapacity,
  head, tail,
  polled           \* what pollValue returned last

ringVars == <<values, bufferCount, bufferCapacity, ringCount, ringCapacity, head, tail>>
QueueVars == <<ringVars, polled>>

BufferSlot(n) == 0..(n - 1)

GrowBuffer(n) == IF n < MinBuffer THEN MinBuffer ELSE 2 * n

-----------------------------------------------------------------------------
(* enqueueValue: when the buffer has to grow, *)
ExpandBuffer ==
  \/ ringCapacity # bufferCapacity /\ tail = 0
  \/ ringCapacity = bufferCapacity /\ ringCapacity = ringCount

(* mutant: the ring grows with the buffer whenever the buffer grows *)
ExpandRingAlways == ExpandBuffer

(* and when the ring grows with it. *)
ExpandRing ==
  ringCapacity = bufferCapacity /\ ringCapacity = ringCount /\ tail = 0

(* the slot, the buffer and the ring once they have grown *)
Target == IF ExpandBuffer THEN bufferCapacity ELSE tail
NewCapacity == IF ExpandBuffer THEN GrowBuffer(bufferCapacity) ELSE bufferCapacity
Grown == [i \in BufferSlot(NewCapacity) |-> IF i < bufferCapacity THEN values[i] ELSE Nil]

Enqueue(v) ==
  /\ NewCapacity <= MaxBuffer
  /\ bufferCapacity' = NewCapacity
  /\ ringCapacity' = IF ExpandRing THEN NewCapacity ELSE ringCapacity
  /\ values' = [Grown EXCEPT ![Target] = v]
  /\ bufferCount' = bufferCount + 1
  /\ ringCount' = IF Target < ringCapacity' THEN ringCount + 1 ELSE ringCount
  /\ tail' = (Target + 1) % NewCapacity
  /\ UNCHANGED <<head, polled>>

(* mutant: the slot keeps its value *)
KeptAt(i) == values

(* the slot that has been polled is free *)
FreedAt(i) == [values EXCEPT ![i] = Nil]

(* pollValue, which its callers guard with queueEmpty; when the ring has   *)
(* become empty, what is behind it becomes the ring                        *)
Poll ==
  /\ bufferCount > 0
  /\ polled' = values[head]
  /\ values' = FreedAt(head)
  /\ bufferCount' = bufferCount - 1
  /\ IF ringCount = 1 /\ bufferCount > 1
     THEN /\ head' = ringCapacity
          /\ ringCount' = bufferCount - 1
          /\ ringCapacity' = bufferCapacity
     ELSE /\ head' = (head + 1) % ringCapacity
          /\ ringCount' = ringCount - 1
          /\ UNCHANGED ringCapacity
  /\ UNCHANGED <<bufferCapacity, tail>>

(* findInQueue *)
FindInQueue(v) == \E i \in BufferSlot(bufferCapacity) : values[i] = v

QueueInit ==
  /\ values = [i \in BufferSlot(0) |-> Nil]
  /\ bufferCount = 0 /\ bufferCapacity = 0
  /\ ringCount = 0 /\ ringCapacity = 0
  /\ head = 0 /\ tail = 0
  /\ polled = Nil

QueueNext == Poll \/ \E v \in Item : Enqueue(v)

QueueSpec == QueueInit /\ [][QueueNext]_QueueVars

-----------------------------------------------------------------------------
(* Properties *)

(* The values in the order pollValue takes them: round the ring from head, *)
(* then the slots behind the ring.                                         *)
Ring == [i \in 1..ringCount |-> values[(head + i - 1) % ringCapacity]]
Behind == [i \in 1..(bufferCount - ringCount) |-> values[ringCapacity + i - 1]]
Queued == Ring \o Behind

(* Values leave in the order they came in, whatever growing happened while *)
(* some of them waited.                                                    *)
PromisedQueue == INSTANCE Fifo WITH queue <- Queued, Value <- Item
ImplementsFifo == PromisedQueue!Spec

(* findInQueue scans the whole buffer, in any order: it finds what waits   *)
(* in the queue and nothing that has left it.  A string found is not       *)
(* written again, so it must still be there to get its place in the file.  *)
FindsWaiting ==
  \A v \in Item : FindInQueue(v) <=> \E i \in 1..bufferCount : Queued[i] = v
=============================================================================
