---------------------------- MODULE MCCollector ----------------------------
(***************************************************************************)
(* Collector over the handlers that build cyclic objects and garbage:      *)
(* instances that hold themselves and each other, their classes, strings   *)
(* that only the weak table holds.  The script has a function that no      *)
(* root holds, and that function a name.                                   *)
(***************************************************************************)
EXTENDS Collector

Script == 2
Inner == 3
Name == 4
ScriptInit ==
  /\ heap = [o \in Obj |-> CASE o \in {InitString, Name} -> "string"
                           [] o \in {Script, Inner} -> "function"
                           [] OTHER -> None]
  /\ text = [o \in Obj |-> CASE o = InitString -> InitText
                           [] o = Name -> "f"
                           [] OTHER -> None]
  /\ edge = {<<Script, "constants", None, InitString>>,
             <<Script, "constants", None, Inner>>,
             <<Inner, "functionName", None, Name>>}
  /\ strings = {InitString, Name}
  /\ stack = <<Script>> /\ frames = <<[callee |-> Script, slots |-> 1]>>
  /\ globals = {} /\ open = {} /\ compiling = <<>> /\ refs = <<>>
  /\ op = Idle
  /\ marked = {} /\ gray = {} /\ phase = "run"

Cycles == \/ OpConstant \/ OpGetLocal \/ OpPop \/ OpClass \/ OpCallClass
          \/ OpSetProperty
          \/ OpConcatenate("initinit")
          \/ AllocateString \/ InternString \/ PushConcatenated
MCStep == phase = "run" /\ Cycles /\ UNCHANGED gcVars
MCSpec ==
  /\ ScriptInit /\ [][MCStep \/ Collect]_CollectorVars
  /\ WF_CollectorVars(Blacken \/ RemoveWhite \/ Sweep)
=============================================================================
