---------------------------- MODULE MCStructures ----------------------------
(***************************************************************************)
(* The data structures for TLC, side by side: part says which of them      *)
(* moves, and the others stay as they began.                               *)
(*   "table"  the hash table and its iterator, over the keys of MCTable    *)
(*   "queue"  the ring buffer of binary.c, filled and polled in every      *)
(*            order; it starts smaller than in GROW_CAPACITY, so that it   *)
(*            grows twice                                                  *)
(*   "file"   the writer and the loader over the scripts of MCBinary       *)
(*   "arena"  an arena of seven words behind its own header, for requests  *)
(*            of up to three of them                                       *)
(*   "chunk"  a chunk of up to seven bytes, from three lines in any order  *)
(***************************************************************************)
EXTENDS MCTable, ValueQueue, MCBinary, Arena, Chunk

CONSTANTS f, g   \* what is enqueued

VARIABLE part    \* never changes

ASSUME Constants == TableAssumption /\ QueueAssumption /\ BinaryAssumption

AnyScript == CHOOSE p \in Scripts : TRUE

ChunkStep ==
  \/ Count(chunk) < 7 /\ \E line \in 1..3 : WriteByte(0, line)
  \/ \E i \in {0, 3} : Patch(i, 1)
  \/ Len(chunk.constants) = 0 /\ WriteConstant(Nil)
  \/ FreeChunk

PartInit ==
  /\ IteratorInit /\ QueueInit /\ BinaryInit /\ Init /\ ChunkInit
  /\ part \in {"table", "queue", "file", "arena", "chunk"}
  /\ part # "file" => constants = AnyScript

PartNext ==
  /\ UNCHANGED part
  /\ \/ /\ part = "table" /\ (TableStep \/ Iterate)
        /\ UNCHANGED <<QueueVars, BinaryVars, vars, chunk>>
     \/ part = "queue" /\ QueueNext /\ UNCHANGED <<IteratorVars, BinaryVars, vars, chunk>>
     \/ part = "file" /\ BinaryNext /\ UNCHANGED <<IteratorVars, QueueVars, vars, chunk>>
     \/ part = "arena" /\ Next /\ UNCHANGED <<IteratorVars, QueueVars, BinaryVars, chunk>>
     \/ part = "chunk" /\ ChunkStep /\ UNCHANGED <<IteratorVars, QueueVars, BinaryVars, vars>>

PartSpec ==
  PartInit /\ [][PartNext]_<<part, IteratorVars, QueueVars, BinaryVars, vars, chunk>>
=============================================================================
