------------------------------ MODULE Collector ------------------------------
(***************************************************************************)
(* collectGarbage of memory.c in its phases: mark the roots, trace gray    *)
(* objects, take white keys out of the weak table vm.strings, sweep.  The  *)
(* handlers are those of Heap and stand still while a collection runs.     *)
(*                                                                         *)
(* The collector implements the atomic CollectGarbage of Heap: Promised is *)
(* Heap with the objects that sweep is about to free taken as freed.       *)
(***************************************************************************)
EXTENDS Heap

VARIABLES
  marked,      \* the objects with isMarked set
  gray,        \* vm.grayStack, taken as a set: any order of tracing is allowed
  phase        \* what collectGarbage is doing, "run" outside of it

gcVars == <<marked, gray, phase>>

(* mutant: vm.strings is marked as the other tables are *)
MarkRootsAndStrings ==
  /\ phase = "run" /\ op.at \in AllocationPoints
  /\ marked' = Roots \cup strings /\ gray' = Roots \cup strings
  /\ phase' = "trace"
  /\ UNCHANGED vars

(* reallocate: collect, then markRoots *)
MarkRoots ==
  /\ phase = "run" /\ op.at \in AllocationPoints
  /\ marked' = Roots /\ gray' = Roots
  /\ phase' = "trace"
  /\ UNCHANGED vars

(* mutants of Blacken: markObject without its test for NULL, without its   *)
(* test of isMarked, without its push on the gray stack                    *)
BlackenNull ==
  /\ phase = "trace"
  /\ \E o \in gray \ {None} :
       LET found == (Blackened({o}) \cup {None}) \ marked IN
       /\ gray' = (gray \ {o}) \cup found
       /\ marked' = marked \cup found
  /\ UNCHANGED <<vars, phase>>
BlackenAgain ==
  /\ phase = "trace"
  /\ \E o \in gray :
       /\ gray' = (gray \ {o}) \cup Blackened({o})
       /\ marked' = marked \cup Blackened({o})
  /\ UNCHANGED <<vars, phase>>
BlackenOnly ==
  /\ phase = "trace"
  /\ \E o \in gray :
       /\ gray' = gray \ {o}
       /\ marked' = marked \cup Blackened({o})
  /\ UNCHANGED <<vars, phase>>

(* traceReferences: take an object off the gray stack and blacken it;      *)
(* markObject passes over NULL and what is marked                          *)
Blacken ==
  /\ phase = "trace"
  /\ \E o \in gray :
       LET found == Blackened({o}) \ marked IN
       /\ gray' = (gray \ {o}) \cup found
       /\ marked' = marked \cup found
  /\ UNCHANGED <<vars, phase>>

(* mutant: the weak table is not cleaned *)
KeepWhite ==
  /\ phase = "trace" /\ gray = {}
  /\ phase' = "sweep"
  /\ UNCHANGED <<vars, marked, gray>>

(* tableRemoveWhite(&vm.strings) *)
RemoveWhite ==
  /\ phase = "trace" /\ gray = {}
  /\ strings' = strings \cap marked
  /\ phase' = "sweep"
  /\ UNCHANGED <<objVars, rootVars, op, marked, gray>>

(* sweep: free the unmarked objects of vm.objects, unmark the others *)
Sweep ==
  /\ phase = "sweep"
  /\ Keep(marked)
  /\ marked' = {}
  /\ phase' = "run"
  /\ UNCHANGED <<strings, rootVars, op, gray>>

Collect == MarkRoots \/ Blacken \/ RemoveWhite \/ Sweep

CollectorInit == Init /\ marked = {} /\ gray = {} /\ phase = "run"

HandlerStep == phase = "run" /\ Handler /\ UNCHANGED gcVars

CollectorVars == <<vars, gcVars>>
CollectorNext == HandlerStep \/ Collect

(* collectGarbage is a loop nothing interrupts *)
CollectorSpec ==
  /\ CollectorInit /\ [][CollectorNext]_CollectorVars
  /\ WF_CollectorVars(Blacken \/ RemoveWhite \/ Sweep)

-----------------------------------------------------------------------------
(* Properties *)

(* What is marked, and what waits on the gray stack, is allocated: no freed *)
(* address gets there, and no NULL.                                        *)
CollectorTypeOK ==
  /\ marked \subseteq Live /\ gray \subseteq Live
  /\ phase \in {"run", "trace", "sweep"}

(* While tracing, a black object refers to no white one, so that what is   *)
(* still to be marked is reached from a gray object.                       *)
TriColour ==
  /\ gray \subseteq marked
  /\ phase = "run" => marked = {} /\ gray = {}
  /\ phase # "run" => Roots \subseteq marked
  /\ phase = "trace" => Blackened(marked \ gray) \subseteq marked

(* The sweep frees the objects that cannot be reached, all of them and no  *)
(* other.                                                                  *)
SweepsUnreachable == phase = "sweep" => marked = Reachable

(* A collection ends, whatever cycles the heap contains. *)
CollectionEnds == phase # "run" ~> phase = "run"

(* refinement: what is freed is gone when the weak table has been cleaned *)
Swept(f) == IF phase = "sweep" THEN [o \in Obj |-> IF o \in marked THEN f[o] ELSE None]
            ELSE f
SweptEdges == IF phase = "sweep" THEN {e \in edge : e[1] \in marked} ELSE edge
Promised == INSTANCE Heap WITH
  heap <- Swept(heap), text <- Swept(text), edge <- SweptEdges

(* Every step of the collector is a step of Heap or leaves it unchanged.   *)
ImplementsHeap == [][Promised!Next]_(Promised!vars)
=============================================================================
