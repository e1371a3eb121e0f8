------------------------------- MODULE MCHeap -------------------------------
(***************************************************************************)
(* Three slices of Heap for TLC, each with every collection its handlers   *)
(* can meet: the strings and functions the compiler makes, from initVM on; *)
(* classes, instances and bound methods; closures and upvalues.            *)
(***************************************************************************)
EXTENDS Heap, TLC

VARIABLE slice   \* which of the three; it never changes

SliceObj == [strings |-> 5, classes |-> 6, closures |-> 7]
SliceStack == [strings |-> 4, classes |-> 3, closures |-> 3]

(* The last two start in a script whose constants are the name "init" and  *)
(* an inner function that has a constant too, or further on in that script. *)
Script == 2
Inner == 3
Start(objects, references, values, calls, captured) ==
  /\ heap = [o \in Obj |-> IF o \in DOMAIN objects THEN objects[o] ELSE None]
  /\ text = [o \in Obj |-> IF o = InitString THEN InitText ELSE None]
  /\ edge = references \cup {<<Script, "constants", None, InitString>>,
                             <<Script, "constants", None, Inner>>}
  /\ strings = {InitString}
  /\ stack = values /\ frames = calls /\ open = captured
  /\ globals = {} /\ compiling = <<>> /\ refs = <<>>
  /\ op = Idle

ScriptObjects == InitString :> "string" @@ Script :> "function" @@ Inner :> "function"
ScriptFrame == [callee |-> Script, slots |-> 1]
InnerConstant == {<<Inner, "constants", None, InitString>>}

ScriptInit == Start(ScriptObjects, InnerConstant, <<Script>>, <<ScriptFrame>>, {})

(* a local holds an instance that has the function in a field *)
InstanceInit ==
  Start(ScriptObjects @@ 4 :> "class" @@ 5 :> "instance",
        InnerConstant \cup {<<4, "className", None, InitString>>,
                            <<5, "klass", None, 4>>,
                            <<5, "instanceFields", InitString, Inner>>},
        <<Script, 5>>, <<ScriptFrame>>, {})

(* the function, as a closure that has captured a slot of the script, runs *)
(* and has a function of its own as its constant                           *)
ClosureInit ==
  Start(ScriptObjects @@ 4 :> "function" @@ 5 :> "closure" @@ 6 :> "upvalue",
        {<<Inner, "constants", None, 4>>, <<5, "function", None, Inner>>,
         <<5, "upvalues", None, 6>>},
        <<Script, 5>>, <<ScriptFrame, [callee |-> 5, slots |-> 2]>>, {<<6, 1>>})

Within(name) ==
  /\ UNCHANGED slice
  /\ \A o \in Obj : o > SliceObj[name] => heap'[o] = None
  /\ Len(stack') <= SliceStack[name]

SliceInit ==
  \/ slice = "strings" /\ Init
  \/ slice = "classes" /\ (ScriptInit \/ InstanceInit)
  \/ slice = "closures" /\ (ScriptInit \/ ClosureInit)

StringSlice == OpConstant \/ Strings \/ Compile \/ Globals \/ CollectGarbage
ClassSlice == OpConstant \/ OpClosure \/ Captured \/ Calls \/ Classes \/ CollectGarbage
ClosureSlice == OpConstant \/ Calls \/ Closures \/ CollectGarbage

SliceNext ==
  \/ slice = "strings" /\ StringSlice /\ Within("strings")
  \/ slice = "classes" /\ ClassSlice /\ Within("classes")
  \/ slice = "closures" /\ ClosureSlice /\ Within("closures")

SliceSpec == SliceInit /\ [][SliceNext]_<<vars, slice>>
=============================================================================
