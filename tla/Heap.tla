-------------------------------- MODULE Heap --------------------------------
(***************************************************************************)
(* The garbage-collected heap of clox2: the objects of object.c, the roots *)
(* of memory.c, the compiler and VM handlers that create, link and drop    *)
(* objects, and the collector as the handlers see it: one step that frees  *)
(* what cannot be reached.  Module Collector splits that step into mark,   *)
(* trace, weak-table and sweep phases and implements this module.          *)
(*                                                                         *)
(* A collection runs inside reallocate(), in the middle of whatever        *)
(* handler asked for memory.  Each handler is therefore split where it     *)
(* allocates: "op" is its program counter together with the C local        *)
(* variables that hold object pointers, which the collector cannot see.    *)
(* Whether bytesAllocated exceeds nextGC at an allocation is left open:    *)
(* any allocation may collect (and does under DEBUG_STRESS_GC).  Handlers  *)
(* that keep a fresh object in a C local across an allocation without      *)
(* rooting it (OP_THROW, the init functions of native.c) and the static    *)
(* fields of classes, which blackenClass does not mark, are left out.      *)
(*                                                                         *)
(* A reference from object o is a tuple <<o, f, k, v>>: member f of o      *)
(* holds v, under key k when f is a table.  None stands for a value that   *)
(* is not an object and for the key of a member that is not a table.       *)
(***************************************************************************)
EXTENDS Integers, Sequences

CONSTANTS
  MaxObj,      \* bound: objects allocated at one time
  Texts,       \* contents of strings
  InitText,    \* the text "init", interned by initVM
  MaxStack,    \* bound on vm.stackTop, in place of STACK_MAX
  MaxFrames,   \* bound on vm.frameCount and on the compiler chain
  None

Obj == 1..MaxObj
InitString == 1          \* vm.initString, the first object initVM allocates
Ref == Obj \cup {None}

Kind == {"string", "function", "closure", "upvalue", "class", "instance",
         "boundMethod", "array"}

ASSUME HeapAssumption ==
  /\ MaxObj \in Nat \ {0} /\ MaxStack \in Nat /\ MaxFrames \in Nat
  /\ InitText \in Texts
  /\ None \notin Texts \cup Kind /\ None \notin 1..MaxObj

(* The members each blacken function marks.  blackenClass does not mark    *)
(* klass->initializer.                                                     *)
Traced == {"functionName", "constants", "function", "upvalues", "closed",
           "className", "methods", "klass", "this_", "instanceFields",
           "receiver", "method", "values"}
Untraced == {"initializer"}
Member == Traced \cup Untraced

VARIABLES
  heap,        \* heap[o]: the type of object o, None when it is not allocated
  text,        \* text[o]: the characters of string o
  edge,        \* the references held by allocated objects
  strings,     \* the keys of vm.strings, the weak table of interned strings
  stack,       \* vm.stack below vm.stackTop
  frames,      \* vm.frames: the callee and the index of its first slot
  globals,     \* vm.globals: a set of <<name, value>>
  open,        \* vm.openUpvalues: a set of <<upvalue, stack index>>
  compiling,   \* the functions of the compiler chain, innermost last
  refs,        \* nativeState.nativeRc below nativeRcNext
  op           \* the handler in progress

objVars == <<heap, text, edge>>
rootVars == <<stack, frames, globals, open, compiling, refs>>
vars == <<objVars, strings, rootVars, op>>

-----------------------------------------------------------------------------
(* Looking at the state *)

Live == {o \in Obj : heap[o] # None}

Elements(s) == {s[i] : i \in 1..Len(s)}

Targets(E) == ({e[3] : e \in E} \cup {e[4] : e \in E}) \ {None}

(* mutant: markRoots without vm.openUpvalues *)
RootsWithoutOpen ==
  ( Elements(stack) \cup {frames[i].callee : i \in 1..Len(frames)}
    \cup (UNION {{g[1], g[2]} : g \in globals}) \cup Elements(compiling)
    \cup {InitString} \cup Elements(refs) ) \ {None}

(* What markRoots marks. *)
Roots ==
  ( Elements(stack) \cup {frames[i].callee : i \in 1..Len(frames)}
    \cup (UNION {{g[1], g[2]} : g \in globals})
    \cup {u[1] : u \in open} \cup Elements(compiling)
    \cup {InitString} \cup Elements(refs) ) \ {None}

(* Object pointers in the C locals of the handler in progress: one at most. *)
Locals == {op.held} \ {None}

Peek(n) == stack[Len(stack) - n]
Pop(n) == SubSeq(stack, 1, Len(stack) - n)
Front(s) == SubSeq(s, 1, Len(s) - 1)

(* The top n slots hold temporaries of the running frame.  Only locals are  *)
(* captured, and the compiler pops a captured local with OP_CLOSE_UPVALUE   *)
(* alone (endScope, breakStatement, continueStatement).                     *)
Temporaries(n) ==
  /\ Len(stack) - n >= frames[Len(frames)].slots
  /\ \A u \in open : u[2] <= Len(stack) - n

IsA(v, K) == v # None /\ heap[v] \in K

Frame == frames[Len(frames)]

(* getFrameFunction *)
IsFunctionOf(f, callee) ==
  \/ heap[callee] = "function" /\ f = callee
  \/ heap[callee] = "closure" /\ <<callee, "function", None, f>> \in edge

(* what READ_CONSTANT can return in the running frame *)
IsConstant(c) ==
  \E f \in Obj : <<f, "constants", None, c>> \in edge /\ IsFunctionOf(f, Frame.callee)
IsName(c) == heap[c] = "string" /\ IsConstant(c)

(* tableSet, and a plain assignment when k is None *)
Store(E, o, f, k, v) ==
  {e \in E : ~(e[1] = o /\ e[2] = f /\ e[3] = k)} \cup {<<o, f, k, v>>}

-----------------------------------------------------------------------------
(* Steps of handlers *)

Op(at, then, txt, held) ==
  [at |-> at, then |-> then, text |-> txt, held |-> held]
Idle == Op("idle", "none", None, None)

At(pc) == op.at = pc
Running == At("idle") /\ frames # <<>>
Compiling == At("idle") /\ frames = <<>>
Room(n) == Len(stack) + n <= MaxStack
Finish == op' = Idle

(* allocateObject: reallocate, then link the object into vm.objects.  The  *)
(* lowest free address is taken, so that a freed one is reused at once.    *)
New(o, k, t) ==
  /\ heap[o] = None /\ \A p \in Obj : p < o => heap[p] # None
  /\ heap' = [heap EXCEPT ![o] = k]
  /\ text' = [text EXCEPT ![o] = t]

-----------------------------------------------------------------------------
(* Strings: copyString, takeString, allocateString *)

(* The characters are looked up in vm.strings first. *)
FindString(t, then) ==
  \/ \E s \in strings : text[s] = t /\ op' = Op("return", then, t, s)
  \/ (\A s \in strings : text[s] # t) /\ op' = Op("string", then, t, None)

(* ALLOCATE_OBJ in allocateString, and the push that roots the string. *)
AllocateString ==
  /\ At("string")
  /\ \E o \in Obj :
       /\ New(o, "string", op.text)
       /\ stack' = Append(stack, o)
       /\ op' = Op("intern", op.then, op.text, o)
  /\ UNCHANGED <<edge, strings, frames, globals, open, compiling, refs>>

(* tableSet(&vm.strings) and pop. *)
InternString ==
  /\ At("intern")
  /\ strings' = strings \cup {op.held}
  /\ stack' = Pop(1)
  /\ op' = Op("return", op.then, op.text, op.held)
  /\ UNCHANGED <<objVars, frames, globals, open, compiling, refs>>

Returned(then) == At("return") /\ op.then = then

-----------------------------------------------------------------------------
(* The compiler *)

(* compile: initCompiler(TYPE_SCRIPT) *)
CompileScript ==
  /\ Compiling /\ compiling = <<>> /\ Room(1)
  /\ \E o \in Obj : New(o, "function", None) /\ compiling' = <<o>>
  /\ Finish
  /\ UNCHANGED <<edge, strings, stack, frames, globals, open, refs>>

(* initCompiler of an inner function: newFunction puts it in the compiler  *)
(* chain, then copyString makes its name.                                  *)
BeginFunction(t) ==
  /\ Compiling /\ compiling # <<>> /\ Len(compiling) < MaxFrames /\ Room(1)
  /\ \E o \in Obj : New(o, "function", None) /\ compiling' = Append(compiling, o)
  /\ FindString(t, "functionName")
  /\ UNCHANGED <<edge, strings, stack, frames, globals, open, refs>>

NameFunction ==
  /\ Returned("functionName")
  /\ edge' = Store(edge, compiling[Len(compiling)], "functionName", None, op.held)
  /\ Finish
  /\ UNCHANGED <<heap, text, strings, rootVars>>

(* identifierConstant: copyString, then addConstant unless the string is a *)
(* constant of the function already (stringConstants).                     *)
Identifier(t) ==
  /\ Compiling /\ compiling # <<>> /\ Room(1)
  /\ FindString(t, "constant")
  /\ UNCHANGED <<objVars, strings, rootVars>>

(* addConstant: push, so that writeValueArray may collect; *)
PushConstant ==
  /\ Returned("constant")
  /\ stack' = Append(stack, op.held)
  /\ op' = Op("constant", "none", None, op.held)
  /\ UNCHANGED <<objVars, strings, frames, globals, open, compiling, refs>>

(* then pop. *)
AddConstant ==
  /\ At("constant")
  /\ edge' = edge \cup {<<compiling[Len(compiling)], "constants", None, op.held>>}
  /\ stack' = Pop(1)
  /\ Finish
  /\ UNCHANGED <<heap, text, strings, frames, globals, open, compiling, refs>>

(* endCompiler drops the inner function from the compiler chain;           *)
(* emitFunction makes it a constant of the enclosing one.                  *)
EndFunction ==
  /\ Compiling /\ Len(compiling) > 1 /\ Room(1)
  /\ compiling' = Front(compiling)
  /\ stack' = Append(stack, compiling[Len(compiling)])
  /\ op' = Op("constant", "none", None, compiling[Len(compiling)])
  /\ UNCHANGED <<objVars, strings, frames, globals, open, refs>>

(* compile returns the script to interpretCompiled, which pushes and calls it *)
Interpret ==
  /\ Compiling /\ Len(compiling) = 1 /\ Room(1)
  /\ compiling' = <<>>
  /\ stack' = Append(stack, compiling[1])
  /\ frames' = <<[callee |-> compiling[1], slots |-> Len(stack) + 1]>>
  /\ Finish
  /\ UNCHANGED <<objVars, strings, globals, open, refs>>

-----------------------------------------------------------------------------
(* Instructions without an allocation *)

PushValue(v) ==
  /\ Room(1)
  /\ stack' = Append(stack, v)
  /\ Finish
  /\ UNCHANGED <<objVars, strings, frames, globals, open, compiling, refs>>

OpConstant == Running /\ \E c \in Obj : IsConstant(c) /\ PushValue(c)

OpGetLocal == Running /\ \E i \in Frame.slots..Len(stack) : PushValue(stack[i])

OpGetGlobal == Running /\ \E g \in globals : IsName(g[1]) /\ PushValue(g[2])

OpPop ==
  /\ Running /\ Temporaries(1)
  /\ stack' = Pop(1)
  /\ Finish
  /\ UNCHANGED <<objVars, strings, frames, globals, open, compiling, refs>>

(* mutant: closeUpvalues stops at the slot itself *)
ClosingAbove(last) == {u \in open : u[2] > last}

(* captured slots at or above a stack index, closed by closeUpvalues *)
Closing(last) == {u \in open : u[2] >= last}
ClosedEdges(last) == {<<u[1], "closed", None, stack[u[2]]>> : u \in Closing(last)}

(* OP_CLOSE_UPVALUE *)
OpCloseUpvalue ==
  /\ Running /\ Len(stack) > Frame.slots
  /\ edge' = edge \cup ClosedEdges(Len(stack))
  /\ open' = open \ Closing(Len(stack))
  /\ stack' = Pop(1)
  /\ Finish
  /\ UNCHANGED <<heap, text, strings, frames, globals, compiling, refs>>

(* OP_GET_UPVALUE: *location is a stack slot until the upvalue is closed *)
OpGetUpvalue ==
  /\ Running
  /\ \E u \in Obj :
       /\ <<Frame.callee, "upvalues", None, u>> \in edge
       /\ \/ \E i \in 1..Len(stack) : <<u, i>> \in open /\ PushValue(stack[i])
          \/ \E v \in Ref : <<u, "closed", None, v>> \in edge /\ PushValue(v)

(* callFunctionLike with no arguments: a frame on the callee's slot *)
Enter(callee) ==
  /\ Len(frames) < MaxFrames
  /\ frames' = Append(frames, [callee |-> callee, slots |-> Len(stack)])

OpCall ==
  /\ Running /\ Temporaries(1)
  /\ IsA(Peek(0), {"function", "closure"})
  /\ Enter(Peek(0))
  /\ Finish
  /\ UNCHANGED <<objVars, strings, stack, globals, open, compiling, refs>>

(* callBoundMethod: the receiver replaces the callee on the stack *)
OpCallBound ==
  /\ Running /\ Temporaries(1) /\ IsA(Peek(0), {"boundMethod"})
  /\ \E r, m \in Obj :
       /\ <<Peek(0), "receiver", None, r>> \in edge
       /\ <<Peek(0), "method", None, m>> \in edge
       /\ Enter(m)
       /\ stack' = Append(Pop(1), r)
  /\ Finish
  /\ UNCHANGED <<objVars, strings, globals, open, compiling, refs>>

(* invoke of a callable field: the instance stays in slot 0, so only the   *)
(* frame and the field hold the callee                                     *)
OpInvokeField ==
  /\ Running /\ Temporaries(1) /\ IsA(Peek(0), {"instance"})
  /\ \E n, m \in Obj :
       /\ <<Peek(0), "instanceFields", n, m>> \in edge /\ IsName(n)
       /\ IsA(m, {"function", "closure"})
       /\ Enter(m)
  /\ Finish
  /\ UNCHANGED <<objVars, strings, stack, globals, open, compiling, refs>>

(* OP_RETURN *)
OpReturn ==
  /\ Running /\ Temporaries(1)
  /\ edge' = edge \cup ClosedEdges(Frame.slots)
  /\ open' = open \ Closing(Frame.slots)
  /\ frames' = Front(frames)
  /\ stack' = IF Len(frames) = 1 THEN Pop(2)
              ELSE Append(SubSeq(stack, 1, Frame.slots - 1), Peek(0))
  /\ Finish
  /\ UNCHANGED <<heap, text, strings, globals, compiling, refs>>

-----------------------------------------------------------------------------
(* Instructions with one allocation.  Nothing has changed yet when they    *)
(* ask for memory: the collection it may start is one at "idle".           *)

(* concatenate: ALLOCATE the buffer while a and b are on the stack *)
OpConcatenate(t) ==
  /\ Running /\ Room(1) /\ Temporaries(2)
  /\ IsA(Peek(0), {"string"}) /\ IsA(Peek(1), {"string"})
  /\ FindString(t, "concatenate")
  /\ UNCHANGED <<objVars, strings, rootVars>>

PushConcatenated ==
  /\ Returned("concatenate")
  /\ stack' = Append(Pop(2), op.held)
  /\ Finish
  /\ UNCHANGED <<objVars, strings, frames, globals, open, compiling, refs>>

(* OP_DEFINE_GLOBAL *)
OpDefineGlobal ==
  /\ Running /\ Temporaries(1)
  /\ \E n \in Obj :
       IsName(n) /\ globals' = {g \in globals : g[1] # n} \cup {<<n, Peek(0)>>}
  /\ stack' = Pop(1)
  /\ Finish
  /\ UNCHANGED <<objVars, strings, frames, open, compiling, refs>>

(* OP_CLASS *)
OpClass ==
  /\ Running /\ Room(1)
  /\ \E o, n \in Obj :
       /\ IsName(n)
       /\ New(o, "class", None)
       /\ edge' = edge \cup {<<o, "className", None, n>>}
       /\ stack' = Append(stack, o)
  /\ Finish
  /\ UNCHANGED <<strings, frames, globals, open, compiling, refs>>

(* mutant: an initializer is not entered in the method table *)
OpMethodApart ==
  /\ Running /\ Temporaries(2)
  /\ IsA(Peek(0), {"function", "closure"}) /\ IsA(Peek(1), {"class"})
  /\ \E n \in Obj :
       /\ IsName(n)
       /\ edge' = Store(edge, Peek(1), IF n = InitString THEN "initializer" ELSE "methods",
                        IF n = InitString THEN None ELSE n, Peek(0))
  /\ stack' = Pop(1)
  /\ Finish
  /\ UNCHANGED <<heap, text, strings, frames, globals, open, compiling, refs>>

(* OP_METHOD, defineMethod *)
OpMethod ==
  /\ Running /\ Temporaries(2)
  /\ IsA(Peek(0), {"function", "closure"}) /\ IsA(Peek(1), {"class"})
  /\ \E n \in Obj :
       /\ IsName(n)
       /\ LET stored == Store(edge, Peek(1), "methods", n, Peek(0)) IN
          edge' = IF n = InitString
                  THEN Store(stored, Peek(1), "initializer", None, Peek(0))
                  ELSE stored
  /\ stack' = Pop(1)
  /\ Finish
  /\ UNCHANGED <<heap, text, strings, frames, globals, open, compiling, refs>>

(* OP_INHERIT: tableAddAll of the methods; the initializer is not copied.  *)
(* classDeclaration emits it before any OP_METHOD of the subclass.         *)
OpInherit ==
  /\ Running /\ Temporaries(2)
  /\ IsA(Peek(0), {"class"}) /\ IsA(Peek(1), {"class"}) 
  /\ \A e \in edge : e[1] = Peek(0) => e[2] # "methods"
  /\ edge' = edge \cup
       {<<Peek(0), "methods", e[3], e[4]>> :
          e \in {e \in edge : e[1] = Peek(1) /\ e[2] = "methods"}}
  /\ stack' = Pop(1)
  /\ Finish
  /\ UNCHANGED <<heap, text, strings, frames, globals, open, compiling, refs>>

(* callClass with no arguments: newInstance replaces the class on the      *)
(* stack; the initializer, when there is one, is called on it              *)
OpCallClass ==
  /\ Running /\ Temporaries(1) /\ IsA(Peek(0), {"class"})
  /\ \E o \in Obj :
       /\ New(o, "instance", None)
       /\ edge' = edge \cup {<<o, "klass", None, Peek(0)>>, <<o, "this_", None, o>>}
       /\ stack' = Append(Pop(1), o)
  /\ \/ /\ \A i \in Obj : <<Peek(0), "initializer", None, i>> \notin edge
        /\ UNCHANGED frames
     \/ \E i \in Obj : <<Peek(0), "initializer", None, i>> \in edge /\ Enter(i)
  /\ Finish
  /\ UNCHANGED <<strings, globals, open, compiling, refs>>

(* OP_SET_PROPERTY of an instance *)
OpSetProperty ==
  /\ Running /\ Temporaries(2) /\ IsA(Peek(1), {"instance"})
  /\ \E n \in Obj :
       IsName(n) /\ edge' = Store(edge, Peek(1), "instanceFields", n, Peek(0))
  /\ stack' = Append(Pop(2), Peek(0))
  /\ Finish
  /\ UNCHANGED <<heap, text, strings, frames, globals, open, compiling, refs>>

(* OP_GET_PROPERTY: a field of the instance, *)
OpGetField ==
  /\ Running /\ Temporaries(1) /\ IsA(Peek(0), {"instance"})
  /\ \E n \in Obj, v \in Ref :
       /\ <<Peek(0), "instanceFields", n, v>> \in edge /\ IsName(n)
       /\ stack' = Append(Pop(1), v)
  /\ Finish
  /\ UNCHANGED <<objVars, strings, frames, globals, open, compiling, refs>>

(* or else bindMethod, which allocates before it pops the receiver *)
OpBindMethod ==
  /\ Running /\ Temporaries(1) /\ IsA(Peek(0), {"instance"})
  /\ \E o, n, c, m \in Obj :
       /\ <<Peek(0), "klass", None, c>> \in edge /\ <<c, "methods", n, m>> \in edge
       /\ \A v \in Ref : <<Peek(0), "instanceFields", n, v>> \notin edge
       /\ IsName(n)
       /\ New(o, "boundMethod", None)
       /\ edge' = edge \cup {<<o, "receiver", None, Peek(0)>>,
                             <<o, "method", None, m>>}
       /\ stack' = Append(Pop(1), o)
  /\ Finish
  /\ UNCHANGED <<strings, frames, globals, open, compiling, refs>>

-----------------------------------------------------------------------------
(* Instructions with several allocations *)

(* OP_CLOSURE: newClosure and push; the upvalues are still NULL *)
OpClosure ==
  /\ Running /\ Room(1)
  /\ \E o, f \in Obj :
       /\ heap[f] = "function" /\ IsConstant(f)
       /\ New(o, "closure", None)
       /\ edge' = edge \cup {<<o, "function", None, f>>}
       /\ stack' = Append(stack, o)
  /\ op' = Op("capture", "none", None, None)
  /\ UNCHANGED <<strings, frames, globals, open, compiling, refs>>

(* captureUpvalue of a local: the open upvalue of the slot, *)
Capture(i) ==
  /\ At("capture") /\ i \in Frame.slots..Len(stack)
  /\ \E u \in Obj :
       <<u, i>> \in open /\ edge' = edge \cup {<<Peek(0), "upvalues", None, u>>}
  /\ UNCHANGED <<heap, text, strings, rootVars, op>>

(* or a new one; *)
CaptureNew(i) ==
  /\ At("capture") /\ i \in Frame.slots..Len(stack)
  /\ \A u \in open : u[2] # i
  /\ \E u \in Obj :
       /\ New(u, "upvalue", None)
       /\ open' = open \cup {<<u, i>>}
       /\ edge' = edge \cup {<<Peek(0), "upvalues", None, u>>}
  /\ op' = Op("capture", "none", None, None)
  /\ UNCHANGED <<strings, stack, frames, globals, compiling, refs>>

(* getUpvalue of the enclosing closure; *)
CaptureOuter ==
  /\ At("capture")
  /\ \E u \in Obj :
       /\ <<Frame.callee, "upvalues", None, u>> \in edge
       /\ edge' = edge \cup {<<Peek(0), "upvalues", None, u>>}
  /\ UNCHANGED <<heap, text, strings, rootVars, op>>

(* and the end of the loop over the upvalues. *)
Captured ==
  /\ At("capture")
  /\ Finish
  /\ UNCHANGED <<objVars, strings, rootVars>>

(* fieldNames: newArray, kept alive by pushReference while the keys are    *)
(* written into it                                                         *)
CallFieldNames ==
  /\ Running /\ Temporaries(1) /\ IsA(Peek(0), {"instance"})
  /\ \E o \in Obj :
       /\ New(o, "array", None)
       /\ refs' = Append(refs, o)
       /\ op' = Op("keys", "none", None, o)
  /\ UNCHANGED <<edge, strings, stack, frames, globals, open, compiling>>

FieldNamesReturn ==
  /\ At("keys")
  /\ edge' = edge \cup
       {<<op.held, "values", None, k>> :
          k \in {e[3] : e \in {e \in edge : e[1] = Peek(0) /\ e[2] = "instanceFields"}}}
  /\ refs' = Front(refs)
  /\ stack' = Append(Pop(1), op.held)
  /\ Finish
  /\ UNCHANGED <<heap, text, strings, frames, globals, open, compiling>>

-----------------------------------------------------------------------------
(* collectGarbage, as the handler that allocates sees it *)

(* where reallocate can be called with newSize > oldSize *)
AllocationPoints == {"idle", "string", "intern", "constant", "capture", "keys"}

(* mutants: blackenInstance without the class, blackenBoundMethod without  *)
(* the receiver, blackenClosure without the upvalues                       *)
BlackenedWithoutClass(S) ==
  Targets({e \in edge : e[1] \in S /\ e[2] \in Traced \ {"klass"}})
BlackenedWithoutReceiver(S) ==
  Targets({e \in edge : e[1] \in S /\ e[2] \in Traced \ {"receiver"}})

(* what blackening the objects of S marks *)
Blackened(S) == Targets({e \in edge : e[1] \in S /\ e[2] \in Traced})

(* the objects the collector must keep: the least set that holds the roots *)
(* and what blackening its members marks                                   *)
Reachable ==
  LET closed == {S \in {Roots \cup W : W \in SUBSET (Blackened(Live) \ Roots)} :
                   Blackened(S) \subseteq S} IN
  {o \in Live : \A S \in closed : o \in S}

(* What is not reachable is freed, and leaves vm.strings first. *)
Keep(S) ==
  /\ heap' = [o \in Obj |-> IF o \in S THEN heap[o] ELSE None]
  /\ text' = [o \in Obj |-> IF o \in S THEN text[o] ELSE None]
  /\ edge' = {e \in edge : e[1] \in S}

(* mutant: vm.strings is cleaned when only the roots have been marked *)
CollectGarbageStringsFirst ==
  /\ op.at \in AllocationPoints
  /\ Keep(Reachable)
  /\ strings' = strings \cap Roots
  /\ UNCHANGED <<rootVars, op>>

CollectGarbage ==
  /\ op.at \in AllocationPoints
  /\ Keep(Reachable)
  /\ strings' = strings \cap Reachable
  /\ UNCHANGED <<rootVars, op>>

-----------------------------------------------------------------------------
(* After initVM: the string "init" is interned, the natives are left out. *)
Init ==
  /\ heap = [o \in Obj |-> IF o = InitString THEN "string" ELSE None]
  /\ text = [o \in Obj |-> IF o = InitString THEN InitText ELSE None]
  /\ edge = {}
  /\ strings = {InitString}
  /\ stack = <<>> /\ frames = <<>> /\ globals = {} /\ open = {}
  /\ compiling = <<>> /\ refs = <<>>
  /\ op = Idle

Strings == \/ AllocateString \/ InternString
           \/ \E t \in Texts : OpConcatenate(t)
           \/ PushConcatenated

Compile == \/ CompileScript
           \/ \E t \in Texts : BeginFunction(t) \/ Identifier(t)
           \/ NameFunction \/ PushConstant \/ AddConstant \/ EndFunction
           \/ Interpret

Calls == OpGetLocal \/ OpPop \/ OpCall \/ OpReturn

Globals == OpGetGlobal \/ OpDefineGlobal

Closures == \/ OpClosure \/ CaptureOuter \/ Captured
            \/ \E i \in 1..MaxStack : Capture(i) \/ CaptureNew(i)
            \/ OpGetUpvalue \/ OpCloseUpvalue

Classes == \/ OpClass \/ OpMethod \/ OpInherit \/ OpCallClass
           \/ OpSetProperty \/ OpGetField \/ OpBindMethod
           \/ OpCallBound \/ OpInvokeField \/ CallFieldNames \/ FieldNamesReturn

Handler == \/ OpConstant \/ Strings \/ Compile \/ Globals \/ Calls
           \/ Closures \/ Classes

Next == Handler \/ CollectGarbage

Spec == Init /\ [][Next]_vars

-----------------------------------------------------------------------------
(* Properties *)

OpAt == AllocationPoints \cup {"return"}
OpThen == {"none", "functionName", "constant", "concatenate"}

Edge(O) == O \X Member \X (O \cup {None}) \X (O \cup {None})

(* Every variable has its type when the objects are those of O. *)
Typed(O) ==
  /\ heap \in [Obj -> Kind \cup {None}]
  /\ text \in [Obj -> Texts \cup {None}]
  /\ edge \subseteq Edge(O)
  /\ strings \subseteq O
  /\ stack \in Seq(O \cup {None})
  /\ frames \in Seq([callee : O, slots : Nat \ {0}])
  /\ globals \subseteq O \X (O \cup {None})
  /\ open \subseteq O \X (Nat \ {0})
  /\ compiling \in Seq(O)
  /\ refs \in Seq(O)
  /\ op \in [at : OpAt, then : OpThen, text : Texts \cup {None}, held : O \cup {None}]

(* Frames and open upvalues lie below stackTop, each frame above the one   *)
(* that called it.                                                         *)
FramesNested ==
  /\ \A i \in 1..Len(frames) :
       /\ frames[i].slots <= Len(stack)
       /\ \A j \in 1..i : frames[j].slots <= frames[i].slots
  /\ \A u \in open : u[2] <= Len(stack)

(* Every variable has its type, and what points into the stack stays in it. *)
TypeOK == Typed(Obj) /\ FramesNested

(* No pointer the program may still follow leads to a freed object: not    *)
(* from a root, not from the C local of the handler in progress, not from  *)
(* vm.strings and not from a member of an allocated object.                *)
EdgesLive == \A e \in edge : e[1] \in Live /\ {e[3], e[4]} \subseteq Live \cup {None}
NoDangling ==
  /\ Elements(stack) \subseteq Live \cup {None}
  /\ \A i \in 1..Len(frames) : frames[i].callee \in Live
  /\ \A g \in globals : g[1] \in Live /\ g[2] \in Live \cup {None}
  /\ \A u \in open : u[1] \in Live
  /\ Elements(compiling) \subseteq Live /\ Elements(refs) \subseteq Live
  /\ Locals \subseteq Live /\ strings \subseteq Live
  /\ EdgesLive

(* Strings are compared by address (valuesEqual, findEntry), so vm.strings *)
(* holds every allocated string, but the one that allocateString has not   *)
(* entered yet, and no two allocated strings have the same characters, that *)
(* one included.                                                           *)
Interned ==
  /\ \A s \in Live : heap[s] = "string" =>
       s \in strings \/ (op.at = "intern" /\ s = op.held)
  /\ \A s, t \in Live : heap[s] = "string" /\ heap[t] = "string" /\ text[s] = text[t]
                     => s = t

(* An object is reached only through members of the right C type, even     *)
(* when its address was that of another object before: the unchecked casts *)
(* AS_CLASS and AS_FUNCTION, getUpvalue and the method tables rely on it.  *)
MemberKind ==
  [functionName |-> {"string"}, constants |-> {"string", "function"},
   function |-> {"function"}, upvalues |-> {"upvalue"}, className |-> {"string"},
   methods |-> {"function", "closure"}, initializer |-> {"function", "closure"},
   klass |-> {"class"}, this_ |-> {"instance"}, receiver |-> {"instance"},
   method |-> {"function", "closure"}]
WellTyped ==
  /\ \A e \in edge : e[2] \in DOMAIN MemberKind => heap[e[4]] \in MemberKind[e[2]]
  /\ \A e \in edge : e[3] # None => heap[e[3]] = "string"
  /\ \A i \in 1..Len(frames) : heap[frames[i].callee] \in {"function", "closure"}
  /\ \A u \in open : heap[u[1]] = "upvalue"
  /\ \A s \in strings : heap[s] = "string"
  /\ \A i \in 1..Len(compiling) : heap[compiling[i]] = "function"

(* blackenClass does not mark klass->initializer: what keeps it allocated  *)
(* is that the methods of the class hold it under "init".                  *)
InitializerIsMethod ==
  \A e \in edge : e[2] = "initializer" =>
    e[3] = None /\ <<e[1], "methods", InitString, e[4]>> \in edge
=============================================================================
