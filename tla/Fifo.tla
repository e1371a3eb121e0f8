-------------------------------- MODULE Fifo --------------------------------
(***************************************************************************)
(* What the ValueQueue of binary.c promises writeBinary: values leave in   *)
(* the order they came in.  A string gets its identifier when it comes in  *)
(* and its place in the file when it leaves: they agree in this order only. *)
(***************************************************************************)
EXTENDS Sequences

CONSTANT Value

VARIABLES
  queue,       \* the values, oldest first
  polled       \* what pollValue returned last

Enqueue(v) == queue' = Append(queue, v) /\ UNCHANGED polled

Poll ==
  /\ queue # <<>>
  /\ polled' = Head(queue)
  /\ queue' = Tail(queue)

Init == queue = <<>> /\ polled \notin Value
Next == Poll \/ \E v \in Value : Enqueue(v)
Spec == Init /\ [][Next]_<<queue, polled>>
=============================================================================
