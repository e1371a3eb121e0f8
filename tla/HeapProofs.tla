----------------------------- MODULE HeapProofs -----------------------------
(***************************************************************************)
(* The heap never holds a dangling pointer, for any number of objects and  *)
(* any bounds.  The invariant is the type invariant over the objects that  *)
(* are allocated (Typed(Live)) instead of all addresses, together with     *)
(* what the handlers know at each of their allocation points (HandlerOK)   *)
(* and what keeps the unmarked initializer of a class                      *)
(* (InitializerIsMethod).  Two more rest on it: references lead to objects *)
(* of the kind they are cast to (KindInv), and no text is there twice      *)
(* (InternInv).                                                            *)
(*                                                                         *)
(* Collector takes the collection of Heap apart; what is proved about it   *)
(* comes behind the heap.                                                  *)
(***************************************************************************)
EXTENDS Collector, SequenceTheorems, TLAPS

(* What the handler in progress relies on when memory is asked for: its C  *)
(* local is rooted, and the stack and the compiler chain are as it left    *)
(* them.                                                                   *)
HandlerOK ==
  /\ op.at \in {"idle", "string", "capture"} => op.held = None
  /\ op.at \in {"intern", "constant"} => stack # <<>> /\ op.held = stack[Len(stack)]
  /\ op.at = "keys" => refs # <<>> /\ op.held = refs[Len(refs)]
  /\ op.at \in {"intern", "return", "constant", "keys"} => op.held # None
  /\ op.at \in {"string", "intern", "return"} => op.then # "none"
  /\ op.at \in {"idle", "constant", "capture", "keys"} => op.then = "none"
  /\ op.at = "constant" \/ op.then \in {"functionName", "constant"}
       => compiling # <<>> /\ frames = <<>>
  /\ op.at \in {"intern", "constant"} => \A u \in open : u[2] < Len(stack)
  /\ op.then = "concatenate" => frames # <<>> /\ Temporaries(2)
  /\ op.then = "concatenate" /\ op.at = "intern" => Temporaries(3)
  /\ op.at \in {"capture", "keys"} =>
       frames # <<>> /\ stack # <<>> /\ Peek(0) # None

Good(O) == Typed(O) /\ FramesNested /\ HandlerOK /\ InitializerIsMethod

IInv == Good(Live) /\ InitString \in Live

(* The kind of object each reference leads to, whether or not the other    *)
(* members hold one, and of the object a handler has in its C local.       *)
EdgeKind(e) ==
  /\ e[2] \in DOMAIN MemberKind => e[4] # None /\ heap[e[4]] \in MemberKind[e[2]]
  /\ e[3] # None => heap[e[3]] = "string"
OpKind ==
  /\ op.at \in {"intern", "return"} => heap[op.held] = "string"
  /\ op.at = "constant" => heap[op.held] \in {"string", "function"}
KindInv ==
  /\ \A e \in edge : EdgeKind(e)
  /\ \A i \in 1..Len(frames) : heap[frames[i].callee] \in {"function", "closure"}
  /\ \A u \in open : heap[u[1]] = "upvalue"
  /\ \A s \in strings : heap[s] = "string"
  /\ \A i \in 1..Len(compiling) : heap[compiling[i]] = "function"
  /\ OpKind

(* vm.strings holds every allocated string but the one that is about to be *)
(* entered, and no text twice; a text that is being made is not in it yet. *)
InternInv ==
  /\ \A s \in Live : heap[s] = "string" => s \in strings \/ (op.at = "intern" /\ s = op.held)
  /\ \A s, t \in strings : text[s] = text[t] => s = t
  /\ op.at \in {"string", "intern"} => \A s \in strings : text[s] # op.text
  /\ op.at = "intern" => text[op.held] = op.text

-----------------------------------------------------------------------------
(* Sequences *)

LEMMA AppendFacts ==
  ASSUME NEW S, NEW s \in Seq(S), NEW x \in S
  PROVE  /\ Append(s, x) \in Seq(S)
         /\ Len(Append(s, x)) = Len(s) + 1
         /\ Append(s, x)[Len(s) + 1] = x
         /\ \A i \in 1..Len(s) : Append(s, x)[i] = s[i]
OBVIOUS

LEMMA PrefixFacts ==
  ASSUME NEW S, NEW s \in Seq(S), NEW n \in Int, n <= Len(s), 0 <= n
  PROVE  /\ SubSeq(s, 1, n) \in Seq(S)
         /\ Len(SubSeq(s, 1, n)) = n
         /\ \A i \in 1..n : SubSeq(s, 1, n)[i] = s[i]
OBVIOUS

LEMMA SeqGrows ==
  ASSUME NEW S, NEW T, S \subseteq T, NEW s \in Seq(S)
  PROVE  s \in Seq(T)
OBVIOUS

(* What is allocated stays so while a handler runs, and New adds to it. *)
LEMMA TypedGrows ==
  ASSUME NEW O, NEW L, O \subseteq L, Typed(O)
  PROVE  Typed(L)
<1>1. edge \subseteq Edge(L)
  BY DEF Typed, Edge
<1>2. stack \in Seq(L \cup {None}) /\ compiling \in Seq(L) /\ refs \in Seq(L)
  <2>1. O \cup {None} \subseteq L \cup {None}
    OBVIOUS
  <2> QED
    BY <2>1, SeqGrows DEF Typed
<1>3. frames \in Seq([callee : L, slots : Nat \ {0}])
  <2>1. [callee : O, slots : Nat \ {0}] \subseteq [callee : L, slots : Nat \ {0}]
    OBVIOUS
  <2> QED
    BY <2>1, SeqGrows DEF Typed
<1>4. op \in [at : OpAt, then : OpThen, text : Texts \cup {None}, held : L \cup {None}]
  BY DEF Typed
<1>5. globals \subseteq L \X (L \cup {None}) /\ open \subseteq L \X (Nat \ {0})
  BY DEF Typed
<1> QED
  BY <1>1, <1>2, <1>3, <1>4, <1>5 DEF Typed

LEMMA InitInv == Init => IInv
<1> SUFFICES ASSUME Init PROVE IInv
  OBVIOUS
<1> USE HeapAssumption
<1>1. InitString \in Live
  BY DEF Init, Live, Obj, InitString, Kind
<1>2. heap \in [Obj -> Kind \cup {None}] /\ text \in [Obj -> Texts \cup {None}]
  BY DEF Init, Kind
<1>3. op \in [at : OpAt, then : OpThen, text : Texts \cup {None}, held : Live \cup {None}]
  BY DEF Init, Idle, Op, OpAt, OpThen, AllocationPoints
<1>4. Typed(Live)
  BY <1>1, <1>2, <1>3 DEF Init, Typed
<1>5. FramesNested
  BY DEF Init, FramesNested
<1>6. HandlerOK
  BY DEF Init, HandlerOK, Idle, Op
<1>7. InitializerIsMethod
  BY DEF Init, InitializerIsMethod
<1> QED
  BY <1>1, <1>4, <1>5, <1>6, <1>7 DEF IInv, Good

-----------------------------------------------------------------------------
(* What the lemmas about the handlers share *)

LEMMA Slot ==
  ASSUME NEW O, Typed(O), NEW i \in 1..Len(stack)
  PROVE  stack[i] \in O \cup {None}
<1>1. stack \in Seq(O \cup {None})
  BY DEF Typed
<1> QED
  BY <1>1, ElementOfSeq

LEMMA FrameTyped ==
  ASSUME NEW O, Typed(O), NEW i \in 1..Len(frames)
  PROVE  frames[i].callee \in O /\ frames[i].slots \in Nat \ {0}
<1>1. frames \in Seq([callee : O, slots : Nat \ {0}])
  BY DEF Typed
<1>2. frames[i] \in [callee : O, slots : Nat \ {0}]
  BY <1>1, ElementOfSeq
<1> QED
  BY <1>2

LEMMA TopFrame ==
  ASSUME NEW O, Typed(O), FramesNested, frames # <<>>
  PROVE  /\ Len(frames) \in 1..Len(frames)
         /\ Frame.callee \in O /\ Frame.slots \in 1..Len(stack)
         /\ \A i \in 1..Len(frames) : frames[i].slots <= Frame.slots
<1>1. frames \in Seq([callee : O, slots : Nat \ {0}]) /\ stack \in Seq(O \cup {None})
  BY DEF Typed
<1>2. Len(frames) \in 1..Len(frames)
  BY <1>1, EmptySeq
<1>3. Frame.callee \in O /\ Frame.slots \in Nat \ {0}
  BY <1>2, FrameTyped DEF Frame
<1> QED
  BY <1>1, <1>2, <1>3 DEF FramesNested, Frame

LEMMA IdleOK == op' = Idle => HandlerOK'
BY DEF Idle, Op, HandlerOK

LEMMA StoreTyped ==
  ASSUME NEW O, NEW E, E \subseteq Edge(O),
         NEW o \in O, NEW f \in Member, NEW k \in O \cup {None}, NEW v \in O \cup {None}
  PROVE  Store(E, o, f, k, v) \subseteq Edge(O)
BY DEF Store, Edge

LEMMA PushGood ==
  ASSUME NEW O, Typed(O), FramesNested, NEW v \in O \cup {None},
         stack' = Append(stack, v), frames' = frames, open' = open
  PROVE  /\ stack' \in Seq(O \cup {None}) /\ FramesNested'
         /\ Len(stack') = Len(stack) + 1 /\ Len(stack) \in Nat
<1>1. stack \in Seq(O \cup {None}) /\ Len(stack) \in Nat
  BY DEF Typed
<1>2. stack' \in Seq(O \cup {None}) /\ Len(stack') = Len(stack) + 1
  BY <1>1, AppendFacts
<1>3. \A i \in 1..Len(frames) : frames[i].slots \in Nat
  BY FrameTyped
<1>4. \A u \in open : u[2] \in Nat
  BY DEF Typed
<1> QED
  BY <1>1, <1>2, <1>3, <1>4 DEF FramesNested

LEMMA PopGood ==
  ASSUME NEW O, Typed(O), FramesNested, NEW n \in Nat, n <= Len(stack),
         frames = <<>> \/ Frame.slots <= Len(stack) - n,
         \A u \in open : u[2] <= Len(stack) - n,
         stack' = Pop(n), frames' = frames, open' = open
  PROVE  stack' \in Seq(O \cup {None}) /\ FramesNested' /\ Len(stack') = Len(stack) - n
<1>1. stack \in Seq(O \cup {None})
  BY DEF Typed
<1>2. Len(stack) - n \in Nat
  BY <1>1
<1>3. stack' \in Seq(O \cup {None}) /\ Len(stack') = Len(stack) - n
  BY <1>1, <1>2, PrefixFacts DEF Pop
<1>4. \A i \in 1..Len(frames) : frames[i].slots \in Nat
  BY FrameTyped
<1>5. CASE frames = <<>>
  BY <1>3, <1>5 DEF FramesNested
<1>6. CASE frames # <<>>
  <2>1. Len(stack') \in Nat /\ Frame.slots <= Len(stack')
    BY <1>2, <1>3, <1>6
  <2>2. \A i \in 1..Len(frames) : frames[i].slots <= Frame.slots
    BY <1>6, TopFrame
  <2>3. Frame.slots \in Nat
    BY <1>6, TopFrame, FrameTyped DEF Frame
  <2>4. \A i \in 1..Len(frames) : frames[i].slots <= Len(stack')
    BY <1>4, <2>1, <2>2, <2>3
  <2>5. \A u \in open : u[2] <= Len(stack')
    BY <1>3
  <2> QED
    BY <1>3, <2>4, <2>5 DEF FramesNested
<1> QED
  BY <1>3, <1>5, <1>6

-----------------------------------------------------------------------------
(* Strings and the compiler.  O holds the objects allocated before and     *)
(* after the step.                                                         *)

LEMMA FindStringGood ==
  ASSUME NEW O, Good(O), O \subseteq Obj, NEW t \in Texts, NEW then \in OpThen, then # "none",
         FindString(t, then)
  PROVE  /\ op' \in [at : OpAt, then : OpThen, text : Texts \cup {None}, held : O \cup {None}]
         /\ op'.at \in {"string", "return"} /\ op'.then = then
         /\ op'.at = "string" => op'.held = None
         /\ op'.at = "return" => op'.held # None
<1>1. strings \subseteq O /\ None \notin strings
  BY HeapAssumption DEF Good, Typed, Obj
<1> QED
  BY <1>1 DEF FindString, Op, OpAt, AllocationPoints

LEMMA AllocateStringGood ==
  ASSUME NEW O, Good(O), O \subseteq Obj, Live' \subseteq O, AllocateString
  PROVE  Good(O)'
<1> USE DEF Good
<1>1. PICK o \in Obj : /\ New(o, "string", op.text)
                       /\ stack' = Append(stack, o)
                       /\ op' = Op("intern", op.then, op.text, o)
  BY DEF AllocateString
<1>2. op.at = "string" /\ UNCHANGED <<edge, strings, frames, globals, open, compiling, refs>>
  BY DEF AllocateString, At
<1>3. heap' \in [Obj -> Kind \cup {None}] /\ text' \in [Obj -> Texts \cup {None}]
  BY <1>1 DEF New, Typed, Kind
<1>4. o \in O /\ o # None
  BY <1>1, HeapAssumption DEF New, Typed, Live, Kind, Obj
<1>5. stack' \in Seq(O \cup {None}) /\ FramesNested' /\ Len(stack') = Len(stack) + 1
  BY <1>1, <1>2, <1>4, PushGood
<1>6. op' \in [at : OpAt, then : OpThen, text : Texts \cup {None}, held : O \cup {None}]
  BY <1>1, <1>4 DEF Op, OpAt, AllocationPoints, Typed
<1>7. Typed(O)'
  BY <1>2, <1>3, <1>5, <1>6 DEF Typed
<1>8. HandlerOK'
  <2>1. stack \in Seq(O \cup {None})
    BY DEF Typed
  <2>2. stack' # <<>> /\ stack'[Len(stack')] = o
    BY <1>1, <1>4, <2>1, AppendFacts
  <2>3. \A u \in open' : u[2] < Len(stack')
    BY <1>2, <1>5 DEF FramesNested, Typed
  <2>4. op.then = "concatenate" => frames # <<>> /\ Temporaries(2)'  /\ Temporaries(3)'
    <3>1. SUFFICES ASSUME op.then = "concatenate"
                   PROVE  frames # <<>> /\ Temporaries(2)'  /\ Temporaries(3)'
      OBVIOUS
    <3>2. frames # <<>> /\ Temporaries(2)
      BY <1>2, <3>1 DEF HandlerOK
    <3>3. Frame.slots \in Nat
      BY <3>2, TopFrame
    <3>4. \A u \in open : u[2] \in Nat
      BY DEF Typed
    <3> QED
      BY <1>2, <1>5, <3>2, <3>3, <3>4 DEF Temporaries, Frame
  <2>5. op'.at = "intern" /\ op'.then = op.then /\ op'.held = o
    BY <1>1 DEF Op
  <2> QED
    BY <1>2, <1>4, <2>2, <2>3, <2>4, <2>5 DEF HandlerOK
<1>9. InitializerIsMethod'
  BY <1>2 DEF InitializerIsMethod
<1> QED
  BY <1>5, <1>7, <1>8, <1>9

LEMMA InternStringGood ==
  ASSUME NEW O, Good(O), O \subseteq Obj, InternString
  PROVE  Good(O)'
<1> USE DEF Good
<1>1. /\ op.at = "intern" /\ strings' = strings \cup {op.held} /\ stack' = Pop(1)
      /\ op' = Op("return", op.then, op.text, op.held)
      /\ UNCHANGED <<heap, text, edge, frames, globals, open, compiling, refs>>
  BY DEF InternString, At, objVars
<1>2. op.held \in O /\ op.held # None
  BY <1>1 DEF HandlerOK, Typed
<1>3. stack \in Seq(O \cup {None}) /\ stack # <<>> /\ 1 <= Len(stack)
  BY <1>1, EmptySeq DEF HandlerOK, Typed
<1>4. op.then \in {"functionName", "constant", "concatenate"}
  BY <1>1 DEF HandlerOK, Typed, OpThen
<1>5. /\ frames = <<>> \/ Frame.slots <= Len(stack) - 1
      /\ \A u \in open : u[2] <= Len(stack) - 1
  <2>1. \A u \in open : u[2] < Len(stack) /\ u[2] \in Nat
    BY <1>1 DEF HandlerOK, Typed
  <2>2. CASE op.then = "concatenate"
    <3>1. frames # <<>> /\ Temporaries(3)
      BY <1>1, <2>2 DEF HandlerOK
    <3> QED
      BY <1>3, <2>1, <3>1, TopFrame DEF Temporaries, Frame
  <2>3. CASE op.then # "concatenate"
    BY <1>3, <1>4, <2>1, <2>3 DEF HandlerOK
  <2> QED
    BY <2>2, <2>3
<1>6. stack' \in Seq(O \cup {None}) /\ FramesNested' /\ Len(stack') = Len(stack) - 1
  BY <1>1, <1>3, <1>5, PopGood
<1>7. op' \in [at : OpAt, then : OpThen, text : Texts \cup {None}, held : O \cup {None}]
  BY <1>1, <1>2 DEF Op, OpAt, Typed
<1>8. Typed(O)'
  BY <1>1, <1>2, <1>6, <1>7 DEF Typed
<1>9. HandlerOK'
  <2>1. op'.at = "return" /\ op'.then = op.then /\ op'.held = op.held
    BY <1>1 DEF Op
  <2>2. op.then = "concatenate" => frames' # <<>> /\ Temporaries(2)'
    <3>1. SUFFICES ASSUME op.then = "concatenate"
                   PROVE  frames' # <<>> /\ Temporaries(2)'
      OBVIOUS
    <3>2. frames # <<>> /\ Temporaries(3)
      BY <1>1, <3>1 DEF HandlerOK
    <3>3. Frame.slots \in Nat
      BY <3>2, TopFrame
    <3>4. \A u \in open : u[2] \in Nat
      BY DEF Typed
    <3> QED
      BY <1>1, <1>3, <1>6, <3>2, <3>3, <3>4 DEF Temporaries, Frame
  <2>3. op.then # "concatenate" => compiling' # <<>> /\ frames' = <<>>
    BY <1>1, <1>4 DEF HandlerOK
  <2> QED
    BY <1>2, <1>4, <2>1, <2>2, <2>3 DEF HandlerOK
<1>10. InitializerIsMethod'
  BY <1>1 DEF InitializerIsMethod
<1> QED
  BY <1>6, <1>8, <1>9, <1>10

LEMMA InitializersKept ==
  ASSUME InitializerIsMethod,
         \A e \in edge : e[2] = "methods" => e \in edge',
         \A e \in edge' : e[2] = "initializer" => e \in edge
  PROVE  InitializerIsMethod'
BY DEF InitializerIsMethod

(* an object is allocated where O says *)
LEMMA NewTyped ==
  ASSUME NEW O, Live' \subseteq O, Typed(O), O \subseteq Obj,
         NEW o \in Obj, NEW k \in Kind, NEW t \in Texts \cup {None}, New(o, k, t)
  PROVE  /\ heap' \in [Obj -> Kind \cup {None}] /\ text' \in [Obj -> Texts \cup {None}]
         /\ o \in O /\ o # None
<1>1. heap' \in [Obj -> Kind \cup {None}] /\ text' \in [Obj -> Texts \cup {None}]
  BY DEF New, Typed
<1>2. heap'[o] = k
  BY DEF New, Typed
<1> QED
  BY <1>1, <1>2, HeapAssumption DEF Live, Obj

LEMMA IdleTyped ==
  ASSUME NEW O, op' = Idle
  PROVE  op' \in [at : OpAt, then : OpThen, text : Texts \cup {None}, held : O \cup {None}]
BY DEF Idle, Op, OpAt, OpThen, AllocationPoints

(* a step that leaves the objects and the frames alone and is done *)
LEMMA StackStepGood ==
  ASSUME NEW O, Good(O), UNCHANGED <<heap, text, edge, strings, frames, compiling, refs>>,
         stack' \in Seq(O \cup {None}), FramesNested', op' = Idle,
         globals' \subseteq O \X (O \cup {None}), open' \subseteq O \X (Nat \ {0})
  PROVE  Good(O)'
<1>1. Typed(O)'
  BY IdleTyped DEF Good, Typed
<1>2. InitializerIsMethod'
  BY DEF Good, InitializerIsMethod
<1> QED
  BY <1>1, <1>2, IdleOK DEF Good

LEMMA CompileScriptGood ==
  ASSUME NEW O, Good(O), O \subseteq Obj, Live' \subseteq O, CompileScript
  PROVE  Good(O)'
<1> USE DEF Good
<1>1. PICK o \in Obj : New(o, "function", None) /\ compiling' = <<o>>
  BY DEF CompileScript
<1>2. UNCHANGED <<edge, strings, stack, frames, globals, open, refs>> /\ op' = Idle
  BY DEF CompileScript, Finish
<1>3. /\ heap' \in [Obj -> Kind \cup {None}] /\ text' \in [Obj -> Texts \cup {None}]
      /\ o \in O
  BY <1>1, NewTyped DEF Kind
<1>4. Typed(O)'
  BY <1>1, <1>2, <1>3, IdleTyped DEF Typed
<1>5. FramesNested' /\ InitializerIsMethod'
  BY <1>2 DEF FramesNested, InitializerIsMethod
<1> QED
  BY <1>2, <1>4, <1>5, IdleOK

LEMMA BeginFunctionGood ==
  ASSUME NEW O, Good(O), O \subseteq Obj, Live' \subseteq O, NEW t \in Texts, BeginFunction(t)
  PROVE  Good(O)'
<1> USE DEF Good
<1>1. PICK o \in Obj : New(o, "function", None) /\ compiling' = Append(compiling, o)
  BY DEF BeginFunction
<1>2. /\ UNCHANGED <<edge, strings, stack, frames, globals, open, refs>>
      /\ frames = <<>> /\ FindString(t, "functionName")
  BY DEF BeginFunction, Compiling
<1>3. /\ heap' \in [Obj -> Kind \cup {None}] /\ text' \in [Obj -> Texts \cup {None}]
      /\ o \in O
  BY <1>1, NewTyped DEF Kind
<1>4. compiling' \in Seq(O) /\ compiling' # <<>>
  BY <1>1, <1>3, AppendFacts, EmptySeq DEF Typed
<1>5. /\ op' \in [at : OpAt, then : OpThen, text : Texts \cup {None}, held : O \cup {None}]
      /\ op'.at \in {"string", "return"} /\ op'.then = "functionName"
      /\ op'.at = "string" => op'.held = None
      /\ op'.at = "return" => op'.held # None
  BY <1>2, FindStringGood DEF OpThen
<1>6. Typed(O)'
  BY <1>2, <1>3, <1>4, <1>5 DEF Typed
<1>7. HandlerOK'
  BY <1>2, <1>4, <1>5 DEF HandlerOK
<1>8. FramesNested' /\ InitializerIsMethod'
  BY <1>2 DEF FramesNested, InitializerIsMethod
<1> QED
  BY <1>6, <1>7, <1>8

LEMMA IdentifierGood ==
  ASSUME NEW O, Good(O), O \subseteq Obj, NEW t \in Texts, Identifier(t)
  PROVE  Good(O)'
<1> USE DEF Good
<1>1. /\ UNCHANGED <<heap, text, edge, strings, stack, frames, globals, open, compiling, refs>>
      /\ frames = <<>> /\ compiling # <<>> /\ FindString(t, "constant")
  BY DEF Identifier, Compiling, objVars, rootVars
<1>2. /\ op' \in [at : OpAt, then : OpThen, text : Texts \cup {None}, held : O \cup {None}]
      /\ op'.at \in {"string", "return"} /\ op'.then = "constant"
      /\ op'.at = "string" => op'.held = None
      /\ op'.at = "return" => op'.held # None
  BY <1>1, FindStringGood DEF OpThen
<1>3. Typed(O)'
  BY <1>1, <1>2 DEF Typed
<1>4. HandlerOK'
  BY <1>1, <1>2 DEF HandlerOK
<1>5. FramesNested' /\ InitializerIsMethod'
  BY <1>1 DEF FramesNested, InitializerIsMethod
<1> QED
  BY <1>3, <1>4, <1>5

LEMMA NameFunctionGood ==
  ASSUME NEW O, Good(O), O \subseteq Obj, NameFunction
  PROVE  Good(O)'
<1> USE DEF Good
<1>1. /\ edge' = Store(edge, compiling[Len(compiling)], "functionName", None, op.held)
      /\ UNCHANGED <<heap, text, strings, stack, frames, globals, open, compiling, refs>>
      /\ op.then = "functionName" /\ op' = Idle
  BY DEF NameFunction, Returned, Finish, rootVars
<1>2. compiling[Len(compiling)] \in O
  <2>1. compiling \in Seq(O) /\ compiling # <<>>
    BY <1>1 DEF Typed, HandlerOK
  <2> QED
    BY <2>1, EmptySeq, ElementOfSeq
<1>3. edge' \subseteq Edge(O)
  <2>1. edge \subseteq Edge(O) /\ op.held \in O \cup {None} /\ "functionName" \in Member
    BY DEF Typed, Member, Traced
  <2> QED
    BY <1>1, <1>2, <2>1, StoreTyped
<1>4. Typed(O)'
  BY <1>1, <1>3, IdleTyped DEF Typed
<1>5. InitializerIsMethod'
  BY <1>1, InitializersKept DEF Store
<1>6. FramesNested'
  BY <1>1 DEF FramesNested
<1> QED
  BY <1>1, <1>4, <1>5, <1>6, IdleOK

(* PushConstant and EndFunction push the constant that AddConstant takes *)
LEMMA PushedConstantGood ==
  ASSUME NEW O, Good(O), O \subseteq Obj, NEW c \in O,
         stack' = Append(stack, c), op' = Op("constant", "none", None, c),
         compiling' \in Seq(O), compiling' # <<>>, frames = <<>>,
         UNCHANGED <<heap, text, edge, strings, frames, globals, open, refs>>
  PROVE  Good(O)'
<1> USE DEF Good
<1>1. c # None
  BY HeapAssumption DEF Obj
<1>2. stack \in Seq(O \cup {None})
  BY DEF Typed
<1>3. /\ stack' \in Seq(O \cup {None}) /\ FramesNested'
      /\ Len(stack') = Len(stack) + 1 /\ Len(stack) \in Nat
  BY PushGood
<1>4. /\ stack' # <<>> /\ stack'[Len(stack')] = c
      /\ \A u \in open' : u[2] < Len(stack')
  <2>1. \A u \in open : u[2] \in Nat
    BY DEF Typed
  <2> QED
    BY <1>2, <1>3, <2>1, AppendFacts DEF FramesNested
<1>5. op' \in [at : OpAt, then : OpThen, text : Texts \cup {None}, held : O \cup {None}]
  BY DEF Op, OpAt, OpThen, AllocationPoints
<1>6. Typed(O)'
  BY <1>3, <1>5 DEF Typed
<1>7. HandlerOK'
  BY <1>1, <1>4 DEF HandlerOK, Op
<1>8. InitializerIsMethod'
  BY DEF InitializerIsMethod
<1> QED
  BY <1>3, <1>6, <1>7, <1>8

LEMMA PushConstantGood ==
  ASSUME NEW O, Good(O), O \subseteq Obj, PushConstant
  PROVE  Good(O)'
<1>1. /\ op.at = "return" /\ op.then = "constant"
      /\ stack' = Append(stack, op.held) /\ op' = Op("constant", "none", None, op.held)
      /\ UNCHANGED <<heap, text, edge, strings, frames, globals, open, compiling, refs>>
  BY DEF PushConstant, Returned, At, objVars
<1>2. op.held \in O
  BY <1>1 DEF Good, Typed, HandlerOK
<1>3. compiling' \in Seq(O) /\ compiling' # <<>> /\ frames = <<>>
  BY <1>1 DEF Good, Typed, HandlerOK
<1> QED
  BY <1>1, <1>2, <1>3, PushedConstantGood

LEMMA EndFunctionGood ==
  ASSUME NEW O, Good(O), O \subseteq Obj, EndFunction
  PROVE  Good(O)'
<1>1. /\ compiling' = Front(compiling) /\ Len(compiling) > 1 /\ frames = <<>>
      /\ stack' = Append(stack, compiling[Len(compiling)])
      /\ op' = Op("constant", "none", None, compiling[Len(compiling)])
      /\ UNCHANGED <<heap, text, edge, strings, frames, globals, open, refs>>
  BY DEF EndFunction, Compiling, objVars
<1>2. compiling \in Seq(O) /\ Len(compiling) \in Nat
  BY DEF Good, Typed
<1>3. compiling[Len(compiling)] \in O
  BY <1>1, <1>2, ElementOfSeq
<1>4. compiling' \in Seq(O) /\ compiling' # <<>>
  <2>1. compiling' \in Seq(O) /\ Len(compiling') = Len(compiling) - 1
    BY <1>1, <1>2, PrefixFacts DEF Front
  <2> QED
    BY <1>1, <1>2, <2>1, EmptySeq
<1> QED
  BY <1>1, <1>3, <1>4, PushedConstantGood

LEMMA AddConstantGood ==
  ASSUME NEW O, Good(O), O \subseteq Obj, AddConstant
  PROVE  Good(O)'
<1> USE DEF Good
<1>1. /\ edge' = edge \cup {<<compiling[Len(compiling)], "constants", None, op.held>>}
      /\ stack' = Pop(1) /\ op' = Idle /\ op.at = "constant"
      /\ UNCHANGED <<heap, text, strings, frames, globals, open, compiling, refs>>
  BY DEF AddConstant, At, Finish
<1>2. stack \in Seq(O \cup {None}) /\ stack # <<>> /\ frames = <<>>
      /\ compiling \in Seq(O) /\ compiling # <<>> /\ op.held \in O \cup {None}
      /\ \A u \in open : u[2] < Len(stack) /\ u[2] \in Nat
  BY <1>1 DEF Typed, HandlerOK
<1>3. stack' \in Seq(O \cup {None}) /\ FramesNested'
  <2>1. Len(stack) \in Nat \ {0}
    BY <1>2, EmptySeq
  <2>2. \A u \in open : u[2] <= Len(stack) - 1
    BY <1>2, <2>1
  <2> QED
    BY <1>1, <1>2, <2>1, <2>2, PopGood
<1>4. edge' \subseteq Edge(O)
  <2>1. compiling[Len(compiling)] \in O
    BY <1>2, EmptySeq, ElementOfSeq
  <2>2. edge \subseteq Edge(O)
    BY DEF Typed
  <2> QED
    BY <1>1, <1>2, <2>1, <2>2 DEF Edge, Member, Traced
<1>5. Typed(O)'
  BY <1>1, <1>3, <1>4, IdleTyped DEF Typed
<1>6. InitializerIsMethod'
  BY <1>1, InitializersKept
<1> QED
  BY <1>1, <1>3, <1>5, <1>6, IdleOK

LEMMA InterpretGood ==
  ASSUME NEW O, Good(O), O \subseteq Obj, Interpret
  PROVE  Good(O)'
<1> USE DEF Good
<1>1. /\ compiling' = <<>> /\ stack' = Append(stack, compiling[1]) /\ op' = Idle
      /\ frames' = <<[callee |-> compiling[1], slots |-> Len(stack) + 1]>>
      /\ Len(compiling) = 1 /\ frames = <<>>
      /\ UNCHANGED <<heap, text, edge, strings, globals, open, refs>>
  BY DEF Interpret, Compiling, Finish, objVars
<1>2. stack \in Seq(O \cup {None}) /\ compiling \in Seq(O)
  BY DEF Typed
<1>3. compiling[1] \in O
  BY <1>1, <1>2, ElementOfSeq
<1>4. stack' \in Seq(O \cup {None}) /\ Len(stack') = Len(stack) + 1 /\ Len(stack) \in Nat
  BY <1>1, <1>2, <1>3, AppendFacts
<1>5. /\ frames' \in Seq([callee : O, slots : Nat \ {0}])
      /\ Len(frames') = 1 /\ frames'[1].slots = Len(stack')
  BY <1>1, <1>3, <1>4
<1>6. Typed(O)'
  BY <1>1, <1>4, <1>5, IdleTyped DEF Typed
<1>7. FramesNested'
  BY <1>1, <1>4, <1>5 DEF FramesNested, Typed
<1>8. InitializerIsMethod'
  BY <1>1 DEF InitializerIsMethod
<1> QED
  BY <1>1, <1>6, <1>7, <1>8, IdleOK

-----------------------------------------------------------------------------
(* Instructions without an allocation *)

LEMMA PushValueGood ==
  ASSUME NEW O, Good(O), NEW v \in O \cup {None}, PushValue(v)
  PROVE  Good(O)'
<1>1. /\ stack' = Append(stack, v) /\ op' = Idle
      /\ UNCHANGED <<heap, text, edge, strings, frames, globals, open, compiling, refs>>
  BY DEF PushValue, Finish, objVars
<1>2. stack' \in Seq(O \cup {None}) /\ FramesNested'
  BY <1>1, PushGood DEF Good
<1> QED
  BY <1>1, <1>2, StackStepGood DEF Good, Typed

LEMMA EdgeTyped ==
  ASSUME NEW O, Typed(O), NEW o, NEW f, NEW k, NEW v, <<o, f, k, v>> \in edge
  PROVE  o \in O /\ f \in Member /\ k \in O \cup {None} /\ v \in O \cup {None}
BY DEF Typed, Edge

LEMMA PushesGood ==
  ASSUME NEW O, Good(O), O \subseteq Obj, OpConstant \/ OpGetLocal \/ OpGetGlobal \/ OpGetUpvalue
  PROVE  Good(O)'
<1>1. CASE OpConstant
  BY <1>1, PushValueGood, EdgeTyped DEF OpConstant, IsConstant, Good
<1>2. CASE OpGetLocal
  <2>1. PICK i \in Frame.slots..Len(stack) : PushValue(stack[i])
    BY <1>2 DEF OpGetLocal
  <2>2. frames # <<>> /\ Typed(O) /\ FramesNested
    BY <1>2 DEF OpGetLocal, Running, Good
  <2>3. Frame.slots \in 1..Len(stack)
    BY <2>2, TopFrame
  <2>4. i \in 1..Len(stack)
    BY <2>3
  <2> QED
    BY <2>1, <2>2, <2>4, Slot, PushValueGood
<1>3. CASE OpGetGlobal
  <2>1. PICK g \in globals : PushValue(g[2])
    BY <1>3 DEF OpGetGlobal
  <2>2. g[2] \in O \cup {None}
    BY DEF Good, Typed
  <2> QED
    BY <2>1, <2>2, PushValueGood
<1>4. CASE OpGetUpvalue
  <2>1. PICK u \in Obj :
          \/ \E i \in 1..Len(stack) : PushValue(stack[i])
          \/ \E v \in Ref : <<u, "closed", None, v>> \in edge /\ PushValue(v)
    BY <1>4 DEF OpGetUpvalue
  <2> QED
    BY <2>1, Slot, EdgeTyped, PushValueGood DEF Good
<1> QED
  BY <1>1, <1>2, <1>3, <1>4

LEMMA Operands ==
  ASSUME NEW O, Good(O), frames # <<>>, NEW n \in Nat, Temporaries(n)
  PROVE  /\ stack \in Seq(O \cup {None}) /\ Len(stack) \in Nat
         /\ frames # <<>> /\ Frame.slots \in 1..Len(stack)
         /\ Frame.slots <= Len(stack) - n
         /\ \A u \in open : u[2] <= Len(stack) - n /\ u[2] \in Nat
<1>1. Typed(O) /\ FramesNested
  BY DEF Good
<1>2. stack \in Seq(O \cup {None}) /\ Len(stack) \in Nat
  BY <1>1 DEF Typed
<1>3. Frame.slots \in 1..Len(stack)
  BY <1>1, TopFrame
<1>4. /\ Frame.slots <= Len(stack) - n
      /\ \A u \in open : u[2] <= Len(stack) - n /\ u[2] \in Nat
  BY <1>1, <1>2, <1>3 DEF Temporaries, Frame, Typed
<1> QED
  BY <1>1, <1>2, <1>3, <1>4

LEMMA OneOperand ==
  ASSUME NEW O, Good(O), Running, Temporaries(1)
  PROVE  Peek(0) \in O \cup {None} /\ frames # <<>> /\ Len(stack) \in Nat \ {0}
<1>1. /\ frames # <<>> /\ Len(stack) \in Nat
      /\ Frame.slots \in 1..Len(stack) /\ Frame.slots <= Len(stack) - 1
  BY Operands DEF Running
<1>2. Len(stack) - 0 \in 1..Len(stack)
  BY <1>1
<1>3. Peek(0) \in O \cup {None}
  BY <1>2, Slot DEF Peek, Good
<1> QED
  BY <1>1, <1>3

LEMMA TwoOperands ==
  ASSUME NEW O, Good(O), Running, Temporaries(2)
  PROVE  /\ Peek(0) \in O \cup {None} /\ Peek(1) \in O \cup {None}
         /\ frames # <<>> /\ Len(stack) \in Nat /\ Len(stack) >= 2
<1>1. /\ frames # <<>> /\ Len(stack) \in Nat
      /\ Frame.slots \in 1..Len(stack) /\ Frame.slots <= Len(stack) - 2
  BY Operands DEF Running
<1>2. Len(stack) - 0 \in 1..Len(stack) /\ Len(stack) - 1 \in 1..Len(stack)
  BY <1>1
<1>3. Peek(0) \in O \cup {None} /\ Peek(1) \in O \cup {None}
  BY <1>2, Slot DEF Peek, Good
<1> QED
  BY <1>1, <1>3

LEMMA OperandIsA ==
  ASSUME NEW O, NEW v \in O \cup {None}, NEW K, IsA(v, K)
  PROVE  v \in O
BY DEF IsA

(* the results of an instruction replace its operands *)
LEMMA ReplaceGood ==
  ASSUME NEW O, Good(O), frames # <<>>, NEW n \in Nat, Temporaries(n),
         NEW v \in O \cup {None}, stack' = Append(Pop(n), v)
  PROVE  /\ stack' \in Seq(O \cup {None}) /\ Len(stack') = Len(stack) - n + 1
         /\ frames' = frames /\ open' = open => FramesNested'
<1>1. /\ stack \in Seq(O \cup {None}) /\ Len(stack) \in Nat /\ frames # <<>>
      /\ Frame.slots \in 1..Len(stack) /\ Frame.slots <= Len(stack) - n
      /\ \A u \in open : u[2] <= Len(stack) - n /\ u[2] \in Nat
  BY Operands DEF Running
<1>2. Pop(n) \in Seq(O \cup {None}) /\ Len(Pop(n)) = Len(stack) - n
  BY <1>1, PrefixFacts DEF Pop
<1>3. stack' \in Seq(O \cup {None}) /\ Len(stack') = Len(stack) - n + 1
  BY <1>2, AppendFacts
<1>4. \A i \in 1..Len(frames) : frames[i].slots \in Nat /\ frames[i].slots <= Frame.slots
  BY <1>1, TopFrame, FrameTyped DEF Good
<1> QED
  BY <1>1, <1>3, <1>4 DEF Good, FramesNested

LEMMA EnterGood ==
  ASSUME NEW O, Typed(O), FramesNested, NEW c \in O, Enter(c),
         Len(stack') = Len(stack), frames # <<>>, open' = open
  PROVE  frames' \in Seq([callee : O, slots : Nat \ {0}]) /\ FramesNested' /\ frames' # <<>>
<1>1. /\ stack \in Seq(O \cup {None}) /\ Len(stack) \in Nat
      /\ frames \in Seq([callee : O, slots : Nat \ {0}])
  BY DEF Typed
<1>2. Len(stack) \in Nat \ {0}
  BY <1>1, TopFrame
<1>3. /\ frames' \in Seq([callee : O, slots : Nat \ {0}])
      /\ Len(frames') = Len(frames) + 1
      /\ frames'[Len(frames) + 1].slots = Len(stack)
      /\ \A i \in 1..Len(frames) : frames'[i] = frames[i]
  <2>1. [callee |-> c, slots |-> Len(stack)] \in [callee : O, slots : Nat \ {0}]
    BY <1>2
  <2> QED
    BY <1>1, <2>1, AppendFacts DEF Enter
<1>4. \A i \in 1..Len(frames') :
        /\ frames'[i].slots <= Len(stack')
        /\ \A j \in 1..i : frames'[j].slots <= frames'[i].slots
  <2>1. \A i \in 1..Len(frames) : frames[i].slots \in Nat
    BY FrameTyped
  <2>2. TAKE i \in 1..Len(frames')
  <2>3. CASE i = Len(frames) + 1
    <3>1. frames'[i].slots = Len(stack)
      BY <1>3, <2>3
    <3>2. ASSUME NEW j \in 1..i, j # i PROVE frames'[j].slots <= Len(stack)
      <4>1. j \in 1..Len(frames)
        BY <1>1, <2>3, <3>2
      <4> QED
        BY <1>3, <4>1 DEF FramesNested
    <3> QED
      BY <1>1, <3>1, <3>2
  <2>4. CASE i # Len(frames) + 1
    <3>1. i \in 1..Len(frames) /\ \A j \in 1..i : j \in 1..Len(frames)
      BY <1>1, <1>3, <2>4
    <3> QED
      BY <1>3, <3>1 DEF FramesNested
  <2> QED
    BY <2>3, <2>4
<1> QED
  BY <1>3, <1>4, EmptySeq DEF FramesNested

LEMMA PopTemporaryGood ==
  ASSUME NEW O, Good(O), Running, Temporaries(1), stack' = Pop(1),
         frames' = frames, open' = open
  PROVE  stack' \in Seq(O \cup {None}) /\ FramesNested'
<1>1. /\ Typed(O) /\ FramesNested /\ Len(stack) \in Nat /\ 1 <= Len(stack)
      /\ Frame.slots <= Len(stack) - 1
      /\ \A u \in open : u[2] <= Len(stack) - 1
  <2>1. /\ Len(stack) \in Nat /\ Frame.slots \in 1..Len(stack)
        /\ Frame.slots <= Len(stack) - 1
        /\ \A u \in open : u[2] <= Len(stack) - 1
    BY Operands DEF Running
  <2> QED
    BY <2>1 DEF Good
<1> QED
  BY <1>1, PopGood

LEMMA OpPopGood ==
  ASSUME NEW O, Good(O), OpPop
  PROVE  Good(O)'
<1>1. /\ stack' = Pop(1) /\ op' = Idle /\ Running /\ Temporaries(1)
      /\ UNCHANGED <<heap, text, edge, strings, frames, globals, open, compiling, refs>>
  BY DEF OpPop, Finish, objVars
<1>2. stack' \in Seq(O \cup {None}) /\ FramesNested'
  BY <1>1, PopTemporaryGood
<1> QED
  BY <1>1, <1>2, StackStepGood DEF Good, Typed

LEMMA OpCallGood ==
  ASSUME NEW O, Good(O), OpCall
  PROVE  Good(O)'
<1> USE DEF Good
<1>1. /\ Running /\ Temporaries(1) /\ Enter(Peek(0)) /\ op' = Idle
      /\ IsA(Peek(0), {"function", "closure"})
      /\ UNCHANGED <<heap, text, edge, strings, stack, globals, open, compiling, refs>>
  BY DEF OpCall, Finish, objVars
<1>2. Peek(0) \in O /\ frames # <<>>
  <2>1. Peek(0) \in O \cup {None} /\ frames # <<>>
    BY <1>1, OneOperand
  <2> QED
    BY <1>1, <2>1, OperandIsA
<1>3. frames' \in Seq([callee : O, slots : Nat \ {0}]) /\ FramesNested'
  BY <1>1, <1>2, EnterGood
<1>4. Typed(O)'
  BY <1>1, <1>3, IdleTyped DEF Typed
<1>5. InitializerIsMethod'
  BY <1>1 DEF InitializerIsMethod
<1> QED
  BY <1>1, <1>3, <1>4, <1>5, IdleOK

LEMMA OpCallBoundGood ==
  ASSUME NEW O, Good(O), OpCallBound
  PROVE  Good(O)'
<1> USE DEF Good
<1>1. PICK r \in Obj, m \in Obj : 
        /\ <<Peek(0), "receiver", None, r>> \in edge
        /\ <<Peek(0), "method", None, m>> \in edge
        /\ Enter(m) /\ stack' = Append(Pop(1), r)
  BY DEF OpCallBound
<1>2. /\ Running /\ Temporaries(1) /\ op' = Idle
      /\ UNCHANGED <<heap, text, edge, strings, globals, open, compiling, refs>>
  BY DEF OpCallBound, Finish, objVars
<1>3. r \in O /\ m \in O
  <2>1. r # None /\ m # None
    BY HeapAssumption DEF Obj
  <2> QED
    BY <1>1, <2>1, EdgeTyped
<1>4. stack' \in Seq(O \cup {None}) /\ Len(stack') = Len(stack)
  <2>1. stack' \in Seq(O \cup {None}) /\ Len(stack') = Len(stack) - 1 + 1
    BY <1>1, <1>2, <1>3, ReplaceGood DEF Running
  <2>2. Len(stack) \in Nat
    BY <1>2, Operands DEF Running
  <2> QED
    BY <2>1, <2>2
<1>5. frames' \in Seq([callee : O, slots : Nat \ {0}]) /\ FramesNested'
  <2>1. frames # <<>>
    BY <1>2 DEF Running
  <2> QED
    BY <1>1, <1>2, <1>3, <1>4, <2>1, EnterGood
<1>6. Typed(O)'
  BY <1>2, <1>4, <1>5, IdleTyped DEF Typed
<1>7. InitializerIsMethod'
  BY <1>2 DEF InitializerIsMethod
<1> QED
  BY <1>2, <1>5, <1>6, <1>7, IdleOK

LEMMA OpInvokeFieldGood ==
  ASSUME NEW O, Good(O), OpInvokeField
  PROVE  Good(O)'
<1> USE DEF Good
<1>1. PICK n \in Obj, m \in Obj :
        <<Peek(0), "instanceFields", n, m>> \in edge /\ Enter(m)
  BY DEF OpInvokeField
<1>2. /\ Running /\ Temporaries(1) /\ op' = Idle
      /\ UNCHANGED <<heap, text, edge, strings, stack, globals, open, compiling, refs>>
  BY DEF OpInvokeField, Finish, objVars
<1>3. m \in O
  BY <1>1, EdgeTyped, HeapAssumption DEF Obj
<1>4. frames' \in Seq([callee : O, slots : Nat \ {0}]) /\ FramesNested'
  <2>1. frames # <<>>
    BY <1>2 DEF Running
  <2> QED
    BY <1>1, <1>2, <1>3, <2>1, EnterGood
<1>5. Typed(O)'
  BY <1>2, <1>4, IdleTyped DEF Typed
<1>6. InitializerIsMethod'
  BY <1>2 DEF InitializerIsMethod
<1> QED
  BY <1>2, <1>4, <1>5, <1>6, IdleOK

(* closeUpvalues copies stack slots into upvalues *)
LEMMA ClosedTyped ==
  ASSUME NEW O, Typed(O), FramesNested, NEW last \in Nat
  PROVE  ClosedEdges(last) \subseteq Edge(O)
<1>1. SUFFICES ASSUME NEW u \in open
               PROVE  <<u[1], "closed", None, stack[u[2]]>> \in Edge(O)
  BY DEF ClosedEdges, Closing
<1>2. u[1] \in O /\ u[2] \in Nat \ {0} /\ u[2] <= Len(stack) /\ Len(stack) \in Nat
  BY DEF Typed, FramesNested
<1>3. stack[u[2]] \in O \cup {None}
  BY <1>2, Slot
<1> QED
  BY <1>2, <1>3 DEF Edge, Member, Traced

LEMMA OpCloseUpvalueGood ==
  ASSUME NEW O, Good(O), OpCloseUpvalue
  PROVE  Good(O)'
<1> USE DEF Good
<1>1. /\ Running /\ Len(stack) > Frame.slots /\ op' = Idle
      /\ edge' = edge \cup ClosedEdges(Len(stack))
      /\ open' = open \ Closing(Len(stack)) /\ stack' = Pop(1)
      /\ UNCHANGED <<heap, text, strings, frames, globals, compiling, refs>>
  BY DEF OpCloseUpvalue, Finish
<1>2. frames # <<>>
  BY <1>1 DEF Running
<1>3. Frame.slots \in 1..Len(stack) /\ \A i \in 1..Len(frames) : frames[i].slots <= Frame.slots
  BY <1>2, TopFrame
<1>4. stack \in Seq(O \cup {None}) /\ Len(stack) \in Nat
  BY DEF Typed
<1>5. stack' \in Seq(O \cup {None}) /\ Len(stack') = Len(stack) - 1
  BY <1>1, <1>3, <1>4, PrefixFacts DEF Pop
<1>6. \A u \in open' : u[2] <= Len(stack) - 1
  BY <1>1, <1>4 DEF Closing, Typed
<1>7. \A i \in 1..Len(frames) : frames[i].slots <= Len(stack) - 1
  <2>1. \A i \in 1..Len(frames) : frames[i].slots \in Nat
    BY FrameTyped
  <2> QED
    BY <1>1, <1>3, <1>4, <2>1
<1>8. FramesNested'
  BY <1>1, <1>5, <1>6, <1>7 DEF FramesNested
<1>9. edge' \subseteq Edge(O)
  <2>1. edge \subseteq Edge(O)
    BY DEF Typed
  <2> QED
    BY <1>1, <1>4, <2>1, ClosedTyped
<1>10. open' \subseteq O \X (Nat \ {0})
  BY <1>1 DEF Typed
<1>11. Typed(O)'
  BY <1>1, <1>5, <1>9, <1>10, IdleTyped DEF Typed
<1>12. InitializerIsMethod'
  BY <1>1, InitializersKept DEF ClosedEdges
<1> QED
  BY <1>1, <1>8, <1>11, <1>12, IdleOK

LEMMA OpReturnGood ==
  ASSUME NEW O, Good(O), OpReturn
  PROVE  Good(O)'
<1> USE DEF Good
<1>1. /\ Running /\ Temporaries(1) /\ op' = Idle
      /\ edge' = edge \cup ClosedEdges(Frame.slots)
      /\ open' = open \ Closing(Frame.slots)
      /\ frames' = Front(frames)
      /\ stack' = IF Len(frames) = 1 THEN Pop(2)
                  ELSE Append(SubSeq(stack, 1, Frame.slots - 1), Peek(0))
      /\ UNCHANGED <<heap, text, strings, globals, compiling, refs>>
  BY DEF OpReturn, Finish
<1>2. /\ stack \in Seq(O \cup {None}) /\ Len(stack) \in Nat
      /\ frames # <<>> /\ Frame.slots \in 1..Len(stack) /\ Frame.slots <= Len(stack) - 1
  BY <1>1, Operands DEF Running
<1>3. /\ Len(frames) \in 1..Len(frames) /\ Len(frames) \in Nat
      /\ \A i \in 1..Len(frames) : frames[i].slots <= Frame.slots
  <2>1. Len(frames) \in 1..Len(frames) /\ \A i \in 1..Len(frames) : frames[i].slots <= Frame.slots
    BY <1>2, TopFrame
  <2> QED
    BY <2>1
<1>4. /\ stack' \in Seq(O \cup {None}) /\ Len(stack') \in Nat
      /\ Frame.slots - 1 <= Len(stack')
      /\ Len(frames) # 1 => Frame.slots <= Len(stack')
  <2>1. CASE Len(frames) = 1
    <3>1. Len(stack) - 2 \in Int /\ Len(stack) - 2 <= Len(stack) /\ 0 <= Len(stack) - 2
      BY <1>2
    <3>2. stack' \in Seq(O \cup {None}) /\ Len(stack') = Len(stack) - 2
      BY <1>1, <1>2, <2>1, <3>1, PrefixFacts DEF Pop
    <3> QED
      BY <1>2, <2>1, <3>2
  <2>2. CASE Len(frames) # 1
    <3>1. Peek(0) \in O \cup {None}
      BY <1>1, OneOperand
    <3>2. Frame.slots - 1 \in Int /\ Frame.slots - 1 <= Len(stack) /\ 0 <= Frame.slots - 1
      BY <1>2
    <3>3. /\ SubSeq(stack, 1, Frame.slots - 1) \in Seq(O \cup {None})
          /\ Len(SubSeq(stack, 1, Frame.slots - 1)) = Frame.slots - 1
      BY <1>2, <3>2, PrefixFacts
    <3>4. stack' = Append(SubSeq(stack, 1, Frame.slots - 1), Peek(0))
      BY <1>1, <2>2
    <3>5. stack' \in Seq(O \cup {None}) /\ Len(stack') = Frame.slots - 1 + 1
      BY <3>1, <3>3, <3>4, AppendFacts
    <3> QED
      BY <1>2, <3>5
  <2> QED
    BY <2>1, <2>2
<1>5. /\ frames' \in Seq([callee : O, slots : Nat \ {0}])
      /\ Len(frames') = Len(frames) - 1
      /\ \A i \in 1..Len(frames') : frames'[i] = frames[i]
  <2>1. frames \in Seq([callee : O, slots : Nat \ {0}])
    BY DEF Typed
  <2>2. Len(frames) - 1 \in Int /\ Len(frames) - 1 <= Len(frames) /\ 0 <= Len(frames) - 1
    BY <1>3
  <2> QED
    BY <1>1, <2>1, <2>2, PrefixFacts DEF Front
<1>6. FramesNested'
  <2>1. \A u \in open' : u[2] <= Len(stack')
    <3>1. \A u \in open' : u[2] < Frame.slots /\ u[2] \in Nat
      BY <1>1, <1>2 DEF Closing, Typed
    <3> QED
      BY <1>2, <1>4, <3>1
  <2>2. \A i \in 1..Len(frames') : i \in 1..Len(frames) /\ Len(frames) # 1
    BY <1>3, <1>5
  <2>3. \A i \in 1..Len(frames) : frames[i].slots \in Nat
    BY FrameTyped
  <2>4. \A i \in 1..Len(frames') : frames'[i].slots <= Len(stack')
    <3>1. ASSUME NEW i \in 1..Len(frames') PROVE frames'[i].slots <= Len(stack')
      <4>1. i \in 1..Len(frames) /\ Len(frames) # 1 /\ frames'[i] = frames[i]
        BY <1>5, <2>2
      <4>2. frames[i].slots <= Frame.slots /\ frames[i].slots \in Nat
        BY <1>3, <2>3, <4>1
      <4> QED
        BY <1>2, <1>4, <4>1, <4>2
    <3> QED
      BY <3>1
  <2>5. \A i \in 1..Len(frames') : \A j \in 1..i : frames'[j].slots <= frames'[i].slots
    <3>1. \A i \in 1..Len(frames') : \A j \in 1..i : j \in 1..Len(frames')
      BY <1>3, <1>5
    <3> QED
      BY <1>5, <2>2, <3>1 DEF FramesNested
  <2> QED
    BY <2>1, <2>4, <2>5 DEF FramesNested
<1>7. edge' \subseteq Edge(O)
  <2>1. edge \subseteq Edge(O)
    BY DEF Typed
  <2>2. Frame.slots \in Nat
    BY <1>2
  <2> QED
    BY <1>1, <2>1, <2>2, ClosedTyped
<1>8. open' \subseteq O \X (Nat \ {0})
  BY <1>1 DEF Typed
<1>9. Typed(O)'
  BY <1>1, <1>4, <1>5, <1>7, <1>8, IdleTyped DEF Typed
<1>10. InitializerIsMethod'
  BY <1>1, InitializersKept DEF ClosedEdges
<1> QED
  BY <1>1, <1>6, <1>9, <1>10, IdleOK

-----------------------------------------------------------------------------
(* Instructions with one allocation *)

LEMMA OpConcatenateGood ==
  ASSUME NEW O, Good(O), O \subseteq Obj, NEW t \in Texts, OpConcatenate(t)
  PROVE  Good(O)'
<1> USE DEF Good
<1>1. /\ UNCHANGED <<heap, text, edge, strings, stack, frames, globals, open, compiling, refs>>
      /\ frames # <<>> /\ Temporaries(2) /\ FindString(t, "concatenate")
  BY DEF OpConcatenate, Running, objVars, rootVars
<1>2. /\ op' \in [at : OpAt, then : OpThen, text : Texts \cup {None}, held : O \cup {None}]
      /\ op'.at \in {"string", "return"} /\ op'.then = "concatenate"
      /\ op'.at = "string" => op'.held = None
      /\ op'.at = "return" => op'.held # None
  BY <1>1, FindStringGood DEF OpThen
<1>3. Typed(O)'
  BY <1>1, <1>2 DEF Typed
<1>4. HandlerOK'
  BY <1>1, <1>2 DEF HandlerOK, Temporaries
<1>5. FramesNested' /\ InitializerIsMethod'
  BY <1>1 DEF FramesNested, InitializerIsMethod
<1> QED
  BY <1>3, <1>4, <1>5

LEMMA PushConcatenatedGood ==
  ASSUME NEW O, Good(O), PushConcatenated
  PROVE  Good(O)'
<1>1. /\ op.at = "return" /\ op.then = "concatenate" /\ op' = Idle
      /\ stack' = Append(Pop(2), op.held)
      /\ UNCHANGED <<heap, text, edge, strings, frames, globals, open, compiling, refs>>
  BY DEF PushConcatenated, Returned, At, Finish, objVars
<1>2. op.held \in O \cup {None} /\ frames # <<>> /\ Temporaries(2)
  BY <1>1 DEF Good, HandlerOK, Typed
<1>3. stack' \in Seq(O \cup {None}) /\ FramesNested'
  BY <1>1, <1>2, ReplaceGood
<1> QED
  BY <1>1, <1>3, StackStepGood DEF Good, Typed

LEMMA OpDefineGlobalGood ==
  ASSUME NEW O, Good(O), O \subseteq Obj, OpDefineGlobal
  PROVE  Good(O)'
<1>1. PICK n \in Obj :
        IsName(n) /\ globals' = {g \in globals : g[1] # n} \cup {<<n, Peek(0)>>}
  BY DEF OpDefineGlobal
<1>2. /\ Running /\ Temporaries(1) /\ stack' = Pop(1) /\ op' = Idle
      /\ UNCHANGED <<heap, text, edge, strings, frames, open, compiling, refs>>
  BY DEF OpDefineGlobal, Finish, objVars
<1>3. stack' \in Seq(O \cup {None}) /\ FramesNested'
  BY <1>2, PopTemporaryGood
<1>4. globals' \subseteq O \X (O \cup {None})
  <2>1. n \in O
    <3>1. n # None /\ Typed(O)
      BY HeapAssumption DEF Obj, Good
    <3> QED
      BY <1>1, <3>1, EdgeTyped DEF IsName, IsConstant
  <2>2. Peek(0) \in O \cup {None}
    BY <1>2, OneOperand
  <2>3. globals \subseteq O \X (O \cup {None})
    BY DEF Good, Typed
  <2> QED
    BY <1>1, <2>1, <2>2, <2>3
<1>5. open' \subseteq O \X (Nat \ {0})
  BY <1>2 DEF Good, Typed
<1> QED
  BY <1>2, <1>3, <1>4, <1>5, StackStepGood

LEMMA ConstantTyped ==
  ASSUME NEW O, Good(O), O \subseteq Obj, NEW c \in Obj, IsConstant(c)
  PROVE  c \in O
<1>1. c # None /\ Typed(O)
  BY HeapAssumption DEF Obj, Good
<1> QED
  BY <1>1, EdgeTyped DEF IsConstant

(* an instruction that adds members to objects and is done *)
LEMMA EdgeStepGood ==
  ASSUME NEW O, Good(O), UNCHANGED <<strings, globals, compiling, refs>>,
         heap' \in [Obj -> Kind \cup {None}], text' \in [Obj -> Texts \cup {None}],
         edge' \subseteq Edge(O), InitializerIsMethod',
         stack' \in Seq(O \cup {None}), open' = open,
         frames' \in Seq([callee : O, slots : Nat \ {0}]), FramesNested', op' = Idle
  PROVE  Good(O)'
<1>1. Typed(O)'
  BY IdleTyped DEF Good, Typed
<1> QED
  BY <1>1, IdleOK DEF Good

LEMMA OpClassGood ==
  ASSUME NEW O, Good(O), O \subseteq Obj, Live' \subseteq O, OpClass
  PROVE  Good(O)'
<1>1. PICK o \in Obj, n \in Obj :
        /\ IsName(n) /\ New(o, "class", None)
        /\ edge' = edge \cup {<<o, "className", None, n>>}
        /\ stack' = Append(stack, o)
  BY DEF OpClass
<1>2. op' = Idle /\ UNCHANGED <<strings, frames, globals, open, compiling, refs>>
  BY DEF OpClass, Finish
<1>3. Typed(O) /\ FramesNested /\ InitializerIsMethod
  BY DEF Good
<1>4. /\ heap' \in [Obj -> Kind \cup {None}] /\ text' \in [Obj -> Texts \cup {None}]
      /\ o \in O
  BY <1>1, <1>3, NewTyped DEF Kind
<1>5. n \in O
  BY <1>1, ConstantTyped DEF IsName
<1>6. edge' \subseteq Edge(O)
  BY <1>1, <1>3, <1>4, <1>5 DEF Edge, Typed, Member, Traced
<1>7. stack' \in Seq(O \cup {None}) /\ FramesNested'
  BY <1>1, <1>2, <1>3, <1>4, PushGood
<1>8. InitializerIsMethod'
  BY <1>1, <1>3, InitializersKept
<1>9. frames' \in Seq([callee : O, slots : Nat \ {0}])
  BY <1>2, <1>3 DEF Typed
<1> QED
  BY <1>2, <1>4, <1>6, <1>7, <1>8, <1>9, EdgeStepGood

LEMMA OpMethodGood ==
  ASSUME NEW O, Good(O), O \subseteq Obj, OpMethod
  PROVE  Good(O)'
<1> DEFINE class == Peek(1)
           method == Peek(0)
<1>1. PICK n \in Obj :
        /\ IsName(n)
        /\ edge' = IF n = InitString
                   THEN Store(Store(edge, class, "methods", n, method),
                              class, "initializer", None, method)
                   ELSE Store(edge, class, "methods", n, method)
  BY DEF OpMethod
<1>2. /\ Running /\ Temporaries(2) /\ IsA(class, {"class"}) /\ stack' = Pop(1) /\ op' = Idle
      /\ UNCHANGED <<heap, text, strings, frames, globals, open, compiling, refs>>
  BY DEF OpMethod, Finish
<1>3. Typed(O) /\ FramesNested /\ InitializerIsMethod
  BY DEF Good
<1>4. class \in O /\ method \in O \cup {None}
  <2>1. class \in O \cup {None} /\ method \in O \cup {None}
    BY <1>2, TwoOperands
  <2> QED
    BY <1>2, <2>1, OperandIsA
<1>5. n \in O
  BY <1>1, ConstantTyped DEF IsName
<1> HIDE DEF class, method
<1>6. edge' \subseteq Edge(O)
  <2>1. edge \subseteq Edge(O) /\ "methods" \in Member /\ "initializer" \in Member
    BY <1>3 DEF Typed, Member, Traced, Untraced
  <2>2. Store(edge, class, "methods", n, method) \subseteq Edge(O)
    BY <1>4, <1>5, <2>1, StoreTyped
  <2>3. Store(Store(edge, class, "methods", n, method),
              class, "initializer", None, method) \subseteq Edge(O)
    BY <1>4, <2>1, <2>2, StoreTyped
  <2> QED
    BY <1>1, <2>2, <2>3
<1>7. InitializerIsMethod'
  <2>1. CASE n = InitString
    <3>1. edge' = Store(Store(edge, class, "methods", n, method),
                        class, "initializer", None, method)
      BY <1>1, <2>1
    <3>2. <<class, "methods", InitString, method>> \in edge'
      BY <2>1, <3>1 DEF Store
    <3>3. ASSUME NEW e \in edge', e[2] = "initializer"
          PROVE  e[3] = None /\ <<e[1], "methods", InitString, e[4]>> \in edge'
      <4>1. CASE e[1] = class
        BY <1>3, <3>1, <3>2, <3>3, <4>1 DEF InitializerIsMethod, Store
      <4>2. CASE e[1] # class
        <5>1. e \in edge
          BY <3>1, <3>3, <4>2 DEF Store
        <5>2. e[3] = None /\ <<e[1], "methods", InitString, e[4]>> \in edge
          BY <1>3, <3>3, <5>1 DEF InitializerIsMethod
        <5> QED
          BY <3>1, <4>2, <5>2 DEF Store
      <4> QED
        BY <4>1, <4>2
    <3> QED
      BY <3>3 DEF InitializerIsMethod
  <2>2. CASE n # InitString
    BY <1>1, <1>3, <2>2 DEF InitializerIsMethod, Store
  <2> QED
    BY <2>1, <2>2
<1>8. stack' \in Seq(O \cup {None}) /\ FramesNested'
  <2>1. Temporaries(1)
    <3>1. /\ Frame.slots \in 1..Len(stack) /\ Frame.slots <= Len(stack) - 2
          /\ Len(stack) \in Nat
          /\ \A u \in open : u[2] <= Len(stack) - 2 /\ u[2] \in Nat
      BY <1>2, Operands DEF Running
    <3> QED
      BY <3>1 DEF Temporaries, Frame
  <2> QED
    BY <1>2, <2>1, PopTemporaryGood
<1>9. /\ heap' \in [Obj -> Kind \cup {None}] /\ text' \in [Obj -> Texts \cup {None}]
      /\ frames' \in Seq([callee : O, slots : Nat \ {0}])
  BY <1>2, <1>3 DEF Typed
<1> QED
  BY <1>2, <1>6, <1>7, <1>8, <1>9, EdgeStepGood

LEMMA FewerTemporaries ==
  ASSUME NEW O, Good(O), Running, Temporaries(2)
  PROVE  Temporaries(1)
<1>1. /\ Frame.slots \in 1..Len(stack) /\ Frame.slots <= Len(stack) - 2
      /\ Len(stack) \in Nat
      /\ \A u \in open : u[2] <= Len(stack) - 2 /\ u[2] \in Nat
  BY Operands DEF Running
<1> QED
  BY <1>1 DEF Temporaries, Frame

LEMMA OpInheritGood ==
  ASSUME NEW O, Good(O), OpInherit
  PROVE  Good(O)'
<1>1. /\ Running /\ Temporaries(2) /\ IsA(Peek(0), {"class"}) /\ stack' = Pop(1) /\ op' = Idle
      /\ edge' = edge \cup
           {<<Peek(0), "methods", e[3], e[4]>> :
              e \in {e \in edge : e[1] = Peek(1) /\ e[2] = "methods"}}
      /\ UNCHANGED <<heap, text, strings, frames, globals, open, compiling, refs>>
  BY DEF OpInherit, Finish
<1>2. Typed(O) /\ FramesNested /\ InitializerIsMethod
  BY DEF Good
<1>3. Peek(0) \in O
  <2>1. Peek(0) \in O \cup {None}
    BY <1>1, TwoOperands
  <2> QED
    BY <1>1, <2>1, OperandIsA
<1>4. edge' \subseteq Edge(O)
  BY <1>1, <1>2, <1>3 DEF Typed, Edge, Member, Traced
<1>5. InitializerIsMethod'
  BY <1>1, <1>2, InitializersKept
<1>6. stack' \in Seq(O \cup {None}) /\ FramesNested'
  BY <1>1, FewerTemporaries, PopTemporaryGood
<1>7. /\ heap' \in [Obj -> Kind \cup {None}] /\ text' \in [Obj -> Texts \cup {None}]
      /\ frames' \in Seq([callee : O, slots : Nat \ {0}])
  BY <1>1, <1>2 DEF Typed
<1> QED
  BY <1>1, <1>4, <1>5, <1>6, <1>7, EdgeStepGood

LEMMA OpCallClassGood ==
  ASSUME NEW O, Good(O), O \subseteq Obj, Live' \subseteq O, OpCallClass
  PROVE  Good(O)'
<1>1. PICK o \in Obj :
        /\ New(o, "instance", None)
        /\ edge' = edge \cup {<<o, "klass", None, Peek(0)>>, <<o, "this_", None, o>>}
        /\ stack' = Append(Pop(1), o)
  BY DEF OpCallClass
<1>2. /\ Running /\ Temporaries(1) /\ op' = Idle
      /\ \/ UNCHANGED frames
         \/ \E i \in Obj : <<Peek(0), "initializer", None, i>> \in edge /\ Enter(i)
      /\ UNCHANGED <<strings, globals, open, compiling, refs>>
  BY DEF OpCallClass, Finish
<1>3. Typed(O) /\ FramesNested /\ InitializerIsMethod /\ frames # <<>>
  BY <1>2 DEF Good, Running
<1>4. /\ heap' \in [Obj -> Kind \cup {None}] /\ text' \in [Obj -> Texts \cup {None}]
      /\ o \in O
  BY <1>1, <1>3, NewTyped DEF Kind
<1>5. Peek(0) \in O \cup {None} /\ Len(stack) \in Nat
  BY <1>2, OneOperand
<1>6. edge' \subseteq Edge(O)
  BY <1>1, <1>3, <1>4, <1>5 DEF Edge, Typed, Member, Traced
<1>7. InitializerIsMethod'
  BY <1>1, <1>3, InitializersKept
<1>8. /\ stack' \in Seq(O \cup {None}) /\ Len(stack') = Len(stack)
      /\ frames' = frames => FramesNested'
  <2>1. /\ stack' \in Seq(O \cup {None}) /\ Len(stack') = Len(stack) - 1 + 1
        /\ frames' = frames /\ open' = open => FramesNested'
    BY <1>1, <1>2, <1>3, <1>4, ReplaceGood
  <2> QED
    BY <1>2, <1>5, <2>1
<1>9. frames' \in Seq([callee : O, slots : Nat \ {0}]) /\ FramesNested'
  <2>1. CASE UNCHANGED frames
    BY <1>3, <1>8, <2>1 DEF Typed
  <2>2. ASSUME NEW i \in Obj, <<Peek(0), "initializer", None, i>> \in edge, Enter(i)
        PROVE  frames' \in Seq([callee : O, slots : Nat \ {0}]) /\ FramesNested'
    <3>1. i \in O
      BY <1>3, <2>2, EdgeTyped, HeapAssumption DEF Obj
    <3> QED
      BY <1>2, <1>3, <1>8, <2>2, <3>1, EnterGood
  <2> QED
    BY <1>2, <2>1, <2>2
<1> QED
  BY <1>2, <1>4, <1>6, <1>7, <1>8, <1>9, EdgeStepGood

LEMMA OpSetPropertyGood ==
  ASSUME NEW O, Good(O), O \subseteq Obj, OpSetProperty
  PROVE  Good(O)'
<1>1. PICK n \in Obj :
        IsName(n) /\ edge' = Store(edge, Peek(1), "instanceFields", n, Peek(0))
  BY DEF OpSetProperty
<1>2. /\ Running /\ Temporaries(2) /\ IsA(Peek(1), {"instance"}) /\ op' = Idle
      /\ stack' = Append(Pop(2), Peek(0))
      /\ UNCHANGED <<heap, text, strings, frames, globals, open, compiling, refs>>
  BY DEF OpSetProperty, Finish
<1>3. Typed(O) /\ FramesNested /\ InitializerIsMethod /\ frames # <<>>
  BY <1>2 DEF Good, Running
<1>4. Peek(0) \in O \cup {None} /\ Peek(1) \in O
  <2>1. Peek(0) \in O \cup {None} /\ Peek(1) \in O \cup {None}
    BY <1>2, TwoOperands
  <2> QED
    BY <1>2, <2>1, OperandIsA
<1>5. n \in O
  BY <1>1, ConstantTyped DEF IsName
<1>6. edge' \subseteq Edge(O)
  <2>1. edge \subseteq Edge(O) /\ "instanceFields" \in Member
    BY <1>3 DEF Typed, Member, Traced
  <2> QED
    BY <1>1, <1>4, <1>5, <2>1, StoreTyped
<1>7. InitializerIsMethod'
  BY <1>1, <1>3, InitializersKept DEF Store
<1>8. stack' \in Seq(O \cup {None}) /\ FramesNested'
  BY <1>2, <1>3, <1>4, ReplaceGood
<1>9. /\ heap' \in [Obj -> Kind \cup {None}] /\ text' \in [Obj -> Texts \cup {None}]
      /\ frames' \in Seq([callee : O, slots : Nat \ {0}])
  BY <1>2, <1>3 DEF Typed
<1> QED
  BY <1>2, <1>6, <1>7, <1>8, <1>9, EdgeStepGood

LEMMA OpGetFieldGood ==
  ASSUME NEW O, Good(O), OpGetField
  PROVE  Good(O)'
<1>1. PICK n \in Obj, v \in Ref :
        <<Peek(0), "instanceFields", n, v>> \in edge /\ stack' = Append(Pop(1), v)
  BY DEF OpGetField
<1>2. /\ Running /\ Temporaries(1) /\ op' = Idle
      /\ UNCHANGED <<heap, text, edge, strings, frames, globals, open, compiling, refs>>
  BY DEF OpGetField, Finish, objVars
<1>3. v \in O \cup {None}
  BY <1>1, EdgeTyped DEF Good
<1>4. stack' \in Seq(O \cup {None}) /\ FramesNested'
  BY <1>1, <1>2, <1>3, ReplaceGood DEF Running
<1> QED
  BY <1>2, <1>4, StackStepGood DEF Good, Typed

LEMMA OpBindMethodGood ==
  ASSUME NEW O, Good(O), O \subseteq Obj, Live' \subseteq O, OpBindMethod
  PROVE  Good(O)'
<1>1. PICK o \in Obj, n \in Obj, c \in Obj, m \in Obj :
        /\ <<c, "methods", n, m>> \in edge
        /\ New(o, "boundMethod", None)
        /\ edge' = edge \cup {<<o, "receiver", None, Peek(0)>>, <<o, "method", None, m>>}
        /\ stack' = Append(Pop(1), o)
  BY DEF OpBindMethod
<1>2. /\ Running /\ Temporaries(1) /\ op' = Idle
      /\ UNCHANGED <<strings, frames, globals, open, compiling, refs>>
  BY DEF OpBindMethod, Finish
<1>3. Typed(O) /\ FramesNested /\ InitializerIsMethod /\ frames # <<>>
  BY <1>2 DEF Good, Running
<1>4. /\ heap' \in [Obj -> Kind \cup {None}] /\ text' \in [Obj -> Texts \cup {None}]
      /\ o \in O
  BY <1>1, <1>3, NewTyped DEF Kind
<1>5. m \in O \cup {None} /\ Peek(0) \in O \cup {None}
  BY <1>1, <1>2, <1>3, EdgeTyped, OneOperand
<1>6. edge' \subseteq Edge(O)
  BY <1>1, <1>3, <1>4, <1>5 DEF Edge, Typed, Member, Traced
<1>7. InitializerIsMethod'
  BY <1>1, <1>3, InitializersKept
<1>8. stack' \in Seq(O \cup {None}) /\ FramesNested'
  BY <1>1, <1>2, <1>3, <1>4, ReplaceGood
<1>9. frames' \in Seq([callee : O, slots : Nat \ {0}])
  BY <1>2, <1>3 DEF Typed
<1> QED
  BY <1>2, <1>4, <1>6, <1>7, <1>8, <1>9, EdgeStepGood

-----------------------------------------------------------------------------
(* Instructions with several allocations *)

LEMMA OpClosureGood ==
  ASSUME NEW O, Good(O), O \subseteq Obj, Live' \subseteq O, OpClosure
  PROVE  Good(O)'
<1>1. PICK o \in Obj, f \in Obj :
        /\ IsConstant(f) /\ New(o, "closure", None)
        /\ edge' = edge \cup {<<o, "function", None, f>>}
        /\ stack' = Append(stack, o)
  BY DEF OpClosure
<1>2. /\ frames # <<>> /\ op' = Op("capture", "none", None, None)
      /\ UNCHANGED <<strings, frames, globals, open, compiling, refs>>
  BY DEF OpClosure, Running
<1>3. Typed(O) /\ FramesNested /\ InitializerIsMethod
  BY DEF Good
<1>4. /\ heap' \in [Obj -> Kind \cup {None}] /\ text' \in [Obj -> Texts \cup {None}]
      /\ o \in O /\ o # None
  BY <1>1, <1>3, NewTyped DEF Kind
<1>5. f \in O
  BY <1>1, ConstantTyped
<1>6. edge' \subseteq Edge(O)
  BY <1>1, <1>3, <1>4, <1>5 DEF Edge, Typed, Member, Traced
<1>7. /\ stack' \in Seq(O \cup {None}) /\ FramesNested' /\ Len(stack') = Len(stack) + 1
      /\ Len(stack) \in Nat
  BY <1>1, <1>2, <1>3, <1>4, PushGood
<1>8. op' \in [at : OpAt, then : OpThen, text : Texts \cup {None}, held : O \cup {None}]
  BY <1>2 DEF Op, OpAt, OpThen, AllocationPoints
<1>9. Typed(O)'
  BY <1>2, <1>3, <1>4, <1>6, <1>7, <1>8 DEF Typed
<1>10. InitializerIsMethod'
  BY <1>1, <1>3, InitializersKept
<1>11. HandlerOK'
  <2>1. stack' # <<>> /\ Peek(0)' = o
    <3>1. stack \in Seq(O \cup {None})
      BY <1>3 DEF Typed
    <3>2. stack'[Len(stack) + 1] = o
      BY <1>1, <1>4, <3>1, AppendFacts
    <3>3. Peek(0)' = stack'[Len(stack')]
      BY <1>7 DEF Peek
    <3> QED
      BY <1>7, <3>2, <3>3, EmptySeq
  <2> QED
    BY <1>2, <1>4, <2>1 DEF HandlerOK, Op
<1> QED
  BY <1>7, <1>9, <1>10, <1>11 DEF Good

(* the three ways to fill in an upvalue of the closure on top of the stack *)
LEMMA CapturingGood ==
  ASSUME NEW O, Good(O), O \subseteq Obj, At("capture"), NEW u \in O,
         edge' = edge \cup {<<Peek(0), "upvalues", None, u>>},
         heap' \in [Obj -> Kind \cup {None}], text' \in [Obj -> Texts \cup {None}],
         op' = op \/ op' = Op("capture", "none", None, None),
         open' \subseteq O \X (Nat \ {0}), \A v \in open' : v[2] <= Len(stack),
         UNCHANGED <<strings, stack, frames, globals, compiling, refs>>
  PROVE  Good(O)'
<1>1. /\ Typed(O) /\ FramesNested /\ InitializerIsMethod
      /\ op.at = "capture" /\ op.held = None /\ op.then = "none"
      /\ frames # <<>> /\ stack # <<>> /\ Peek(0) # None
  BY DEF Good, At, HandlerOK
<1>2. Peek(0) \in O
  <2>1. stack \in Seq(O \cup {None})
    BY <1>1 DEF Typed
  <2>2. Len(stack) - 0 \in 1..Len(stack)
    BY <1>1, <2>1, EmptySeq
  <2> QED
    BY <1>1, <2>2, Slot DEF Peek
<1>3. edge' \subseteq Edge(O)
  BY <1>1, <1>2 DEF Edge, Typed, Member, Traced
<1>4. /\ op' \in [at : OpAt, then : OpThen, text : Texts \cup {None}, held : O \cup {None}]
      /\ op'.at = "capture" /\ op'.held = None /\ op'.then = "none"
  BY <1>1 DEF Op, OpAt, OpThen, AllocationPoints, Typed
<1>5. Typed(O)'
  BY <1>1, <1>3, <1>4 DEF Typed
<1>6. InitializerIsMethod'
  BY <1>1, InitializersKept
<1>7. FramesNested'
  BY <1>1 DEF FramesNested
<1>8. HandlerOK'
  BY <1>1, <1>4 DEF HandlerOK, Peek
<1> QED
  BY <1>5, <1>6, <1>7, <1>8 DEF Good

LEMMA CaptureGood ==
  ASSUME NEW O, Good(O), O \subseteq Obj, NEW i \in 1..MaxStack, Capture(i)
  PROVE  Good(O)'
<1>1. PICK u \in Obj :
        <<u, i>> \in open /\ edge' = edge \cup {<<Peek(0), "upvalues", None, u>>}
  BY DEF Capture
<1>2. /\ At("capture")
      /\ UNCHANGED <<heap, text, strings, stack, frames, globals, open, compiling, refs, op>>
  BY DEF Capture, rootVars
<1>3. /\ u \in O /\ open' \subseteq O \X (Nat \ {0})
      /\ heap' \in [Obj -> Kind \cup {None}] /\ text' \in [Obj -> Texts \cup {None}]
  BY <1>1, <1>2 DEF Good, Typed
<1>4. \A v \in open' : v[2] <= Len(stack)
  BY <1>2 DEF Good, FramesNested
<1> QED
  BY <1>1, <1>2, <1>3, <1>4, CapturingGood

LEMMA CaptureNewGood ==
  ASSUME NEW O, Good(O), O \subseteq Obj, Live' \subseteq O, NEW i \in 1..MaxStack, CaptureNew(i)
  PROVE  Good(O)'
<1>1. PICK u \in Obj :
        /\ New(u, "upvalue", None) /\ open' = open \cup {<<u, i>>}
        /\ edge' = edge \cup {<<Peek(0), "upvalues", None, u>>}
  BY DEF CaptureNew
<1>2. /\ At("capture") /\ i \in Frame.slots..Len(stack)
      /\ op' = Op("capture", "none", None, None)
      /\ UNCHANGED <<strings, stack, frames, globals, compiling, refs>>
  BY DEF CaptureNew
<1>3. Typed(O) /\ FramesNested
  BY DEF Good
<1>4. /\ u \in O
      /\ heap' \in [Obj -> Kind \cup {None}] /\ text' \in [Obj -> Texts \cup {None}]
  BY <1>1, <1>3, NewTyped DEF Kind
<1>5. open' \subseteq O \X (Nat \ {0}) /\ \A v \in open' : v[2] <= Len(stack)
  <2>1. i \in Nat \ {0} /\ i <= Len(stack)
    BY <1>2, HeapAssumption
  <2> QED
    BY <1>1, <1>3, <1>4, <2>1 DEF Typed, FramesNested
<1> QED
  BY <1>1, <1>2, <1>4, <1>5, CapturingGood

LEMMA CaptureOuterGood ==
  ASSUME NEW O, Good(O), O \subseteq Obj, CaptureOuter
  PROVE  Good(O)'
<1>1. PICK u \in Obj :
        /\ <<Frame.callee, "upvalues", None, u>> \in edge
        /\ edge' = edge \cup {<<Peek(0), "upvalues", None, u>>}
  BY DEF CaptureOuter
<1>2. /\ At("capture")
      /\ UNCHANGED <<heap, text, strings, stack, frames, globals, open, compiling, refs, op>>
  BY DEF CaptureOuter, rootVars
<1>3. u \in O
  BY <1>1, EdgeTyped, HeapAssumption DEF Obj, Good
<1>4. /\ open' \subseteq O \X (Nat \ {0})
      /\ heap' \in [Obj -> Kind \cup {None}] /\ text' \in [Obj -> Texts \cup {None}]
  BY <1>2 DEF Good, Typed
<1>5. \A v \in open' : v[2] <= Len(stack)
  BY <1>2 DEF Good, FramesNested
<1> QED
  BY <1>1, <1>2, <1>3, <1>4, <1>5, CapturingGood

LEMMA CapturedGood ==
  ASSUME NEW O, Good(O), Captured
  PROVE  Good(O)'
<1>1. /\ op' = Idle
      /\ UNCHANGED <<heap, text, edge, strings, stack, frames, globals, open, compiling, refs>>
  BY DEF Captured, Finish, objVars, rootVars
<1>2. stack' \in Seq(O \cup {None}) /\ FramesNested'
  BY <1>1 DEF Good, Typed, FramesNested
<1> QED
  BY <1>1, <1>2, StackStepGood DEF Good, Typed

LEMMA CallFieldNamesGood ==
  ASSUME NEW O, Good(O), O \subseteq Obj, Live' \subseteq O, CallFieldNames
  PROVE  Good(O)'
<1>1. PICK o \in Obj :
        /\ New(o, "array", None) /\ refs' = Append(refs, o)
        /\ op' = Op("keys", "none", None, o)
  BY DEF CallFieldNames
<1>2. /\ Running /\ Temporaries(1) /\ IsA(Peek(0), {"instance"})
      /\ UNCHANGED <<edge, strings, stack, frames, globals, open, compiling>>
  BY DEF CallFieldNames
<1>3. Typed(O) /\ FramesNested /\ InitializerIsMethod
  BY DEF Good
<1>4. /\ heap' \in [Obj -> Kind \cup {None}] /\ text' \in [Obj -> Texts \cup {None}]
      /\ o \in O /\ o # None
  BY <1>1, <1>3, NewTyped DEF Kind
<1>5. refs' \in Seq(O) /\ refs' # <<>> /\ refs'[Len(refs')] = o
  <2>1. refs \in Seq(O)
    BY <1>3 DEF Typed
  <2> QED
    BY <1>1, <1>4, <2>1, AppendFacts, EmptySeq
<1>6. op' \in [at : OpAt, then : OpThen, text : Texts \cup {None}, held : O \cup {None}]
  BY <1>1, <1>4 DEF Op, OpAt, OpThen, AllocationPoints
<1>7. Typed(O)'
  BY <1>2, <1>3, <1>4, <1>5, <1>6 DEF Typed
<1>8. FramesNested' /\ InitializerIsMethod'
  BY <1>2, <1>3 DEF FramesNested, InitializerIsMethod
<1>9. HandlerOK'
  <2>1. stack # <<>> /\ frames # <<>> /\ Peek(0) # None
    <3>1. frames # <<>> /\ Len(stack) \in Nat \ {0}
      BY <1>2, OneOperand
    <3> QED
      BY <1>2, <3>1, EmptySeq DEF IsA
  <2> QED
    BY <1>1, <1>2, <1>4, <1>5, <2>1 DEF HandlerOK, Op, Peek
<1> QED
  BY <1>7, <1>8, <1>9 DEF Good

LEMMA FieldNamesReturnGood ==
  ASSUME NEW O, Good(O), FieldNamesReturn
  PROVE  Good(O)'
<1>1. /\ op.at = "keys" /\ op' = Idle
      /\ edge' = edge \cup
           {<<op.held, "values", None, k>> :
              k \in {e[3] : e \in {e \in edge : e[1] = Peek(0) /\ e[2] = "instanceFields"}}}
      /\ refs' = Front(refs) /\ stack' = Append(Pop(1), op.held)
      /\ UNCHANGED <<heap, text, strings, frames, globals, open, compiling>>
  BY DEF FieldNamesReturn, At, Finish
<1>2. /\ Typed(O) /\ FramesNested /\ InitializerIsMethod
      /\ stack # <<>> /\ refs # <<>> /\ op.held # None
  BY <1>1 DEF Good, HandlerOK
<1>3. op.held \in O
  BY <1>2 DEF Typed
<1>4. edge' \subseteq Edge(O)
  BY <1>1, <1>2, <1>3 DEF Edge, Typed, Member, Traced
<1>5. refs' \in Seq(O)
  <2>1. refs \in Seq(O)
    BY <1>2 DEF Typed
  <2>2. Len(refs) - 1 \in Int /\ Len(refs) - 1 <= Len(refs) /\ 0 <= Len(refs) - 1
    BY <1>2, <2>1, EmptySeq
  <2> QED
    BY <1>1, <2>1, <2>2, PrefixFacts DEF Front
<1>6. stack' \in Seq(O \cup {None}) /\ Len(stack') = Len(stack)
  <2>1. stack \in Seq(O \cup {None})
    BY <1>2 DEF Typed
  <2>2. /\ Len(stack) - 1 \in Int /\ Len(stack) - 1 <= Len(stack) /\ 0 <= Len(stack) - 1
        /\ Len(stack) \in Nat
    BY <1>2, <2>1, EmptySeq
  <2>3. Pop(1) \in Seq(O \cup {None}) /\ Len(Pop(1)) = Len(stack) - 1
    BY <2>1, <2>2, PrefixFacts DEF Pop
  <2>4. stack' \in Seq(O \cup {None}) /\ Len(stack') = Len(stack) - 1 + 1
    BY <1>1, <1>3, <2>3, AppendFacts
  <2> QED
    BY <2>2, <2>4
<1>7. FramesNested'
  BY <1>1, <1>2, <1>6 DEF FramesNested
<1>8. InitializerIsMethod'
  BY <1>1, <1>2, InitializersKept
<1>9. Typed(O)'
  BY <1>1, <1>2, <1>4, <1>5, <1>6, IdleTyped DEF Typed
<1> QED
  BY <1>1, <1>7, <1>8, <1>9, IdleOK DEF Good

-----------------------------------------------------------------------------
(* The collector *)

LEMMA InBlackened ==
  ASSUME NEW S, NEW x
  PROVE  x \in Blackened(S) <=>
           /\ x # None
           /\ \E e \in edge : e[1] \in S /\ e[2] \in Traced /\ (x = e[3] \/ x = e[4])
BY DEF Blackened, Targets

LEMMA RootsLive == IInv => Roots \subseteq Live
<1> SUFFICES ASSUME IInv, NEW o \in Roots PROVE o \in Live
  OBVIOUS
<1>1. Typed(Live) /\ InitString \in Live
  BY DEF IInv, Good
<1>2. \A i \in 1..Len(stack) : stack[i] \in Live \cup {None}
  BY <1>1, Slot
<1>3. \A i \in 1..Len(frames) : frames[i].callee \in Live
  BY <1>1, FrameTyped
<1>4. \A g \in globals : g[1] \in Live /\ g[2] \in Live \cup {None}
  BY <1>1 DEF Typed
<1>5. \A u \in open : u[1] \in Live
  BY <1>1 DEF Typed
<1>6. \A i \in 1..Len(compiling) : compiling[i] \in Live
  <2>1. compiling \in Seq(Live)
    BY <1>1 DEF Typed
  <2> QED
    BY <2>1, ElementOfSeq
<1>7. \A i \in 1..Len(refs) : refs[i] \in Live
  <2>1. refs \in Seq(Live)
    BY <1>1 DEF Typed
  <2> QED
    BY <2>1, ElementOfSeq
<1>8. o # None
  BY DEF Roots
<1>9. /\ Elements(stack) \subseteq Live \cup {None} /\ Elements(compiling) \subseteq Live
      /\ Elements(refs) \subseteq Live
  BY <1>2, <1>6, <1>7 DEF Elements
<1>10. {frames[i].callee : i \in 1..Len(frames)} \subseteq Live
  BY <1>3
<1>11. UNION {{g[1], g[2]} : g \in globals} \subseteq Live \cup {None}
  BY <1>4
<1>12. {u[1] : u \in open} \subseteq Live
  BY <1>5
<1> QED
  BY <1>1, <1>8, <1>9, <1>10, <1>11, <1>12 DEF Roots

(* What is kept is closed under what the blacken functions mark. *)
LEMMA ReachableFacts ==
  ASSUME IInv
  PROVE  /\ Reachable \subseteq Live /\ Roots \subseteq Reachable
         /\ Blackened(Reachable) \subseteq Reachable
<1> DEFINE closed == {S \in {Roots \cup W : W \in SUBSET (Blackened(Live) \ Roots)} :
                        Blackened(S) \subseteq S}
<1>1. Reachable = {o \in Live : \A S \in closed : o \in S}
  BY DEF Reachable
<1>2. Reachable \subseteq Live
  BY <1>1
<1>3. Roots \subseteq Reachable
  <2>1. \A S \in closed : Roots \subseteq S
    OBVIOUS
  <2> QED
    BY <1>1, <2>1, RootsLive
<1>4. ASSUME NEW x \in Blackened(Reachable) PROVE x \in Reachable
  <2>1. PICK e \in edge : e[1] \in Reachable /\ e[2] \in Traced /\ (x = e[3] \/ x = e[4])
    BY <1>4, InBlackened
  <2>2. x # None
    BY <1>4, InBlackened
  <2>3. x \in Live
    BY <2>1, <2>2 DEF IInv, Good, Typed, Edge
  <2>4. ASSUME NEW S \in closed PROVE x \in S
    <3>1. e[1] \in S
      BY <1>1, <2>1, <2>4
    <3>2. x \in Blackened(S)
      BY <2>1, <2>2, <3>1, InBlackened
    <3> QED
      BY <2>4, <3>2
  <2> QED
    BY <1>1, <2>3, <2>4
<1> QED
  BY <1>2, <1>3, <1>4

LEMMA SeqShrinks ==
  ASSUME NEW S, NEW T, NEW s \in Seq(S), \A i \in 1..Len(s) : s[i] \in T
  PROVE  s \in Seq(T)
OBVIOUS

LEMMA CollectGarbageInv == IInv /\ CollectGarbage => IInv'
<1> SUFFICES ASSUME IInv, CollectGarbage PROVE IInv'
  OBVIOUS
<1>0. PICK R : R = Reachable
  OBVIOUS
<1>1. /\ Typed(Live) /\ FramesNested /\ HandlerOK /\ InitializerIsMethod
      /\ InitString \in Live
  BY DEF IInv, Good
<1>2. /\ op.at \in AllocationPoints
      /\ heap' = [o \in Obj |-> IF o \in R THEN heap[o] ELSE None]
      /\ text' = [o \in Obj |-> IF o \in R THEN text[o] ELSE None]
      /\ edge' = {e \in edge : e[1] \in R} /\ strings' = strings \cap R
      /\ UNCHANGED <<stack, frames, globals, open, compiling, refs, op>>
  BY <1>0 DEF CollectGarbage, Keep, rootVars
<1>3. R \subseteq Live /\ Roots \subseteq R /\ Blackened(R) \subseteq R
  BY <1>0, ReachableFacts
<1>4. Live' = R
  BY <1>2, <1>3 DEF Live
<1>5. /\ heap' \in [Obj -> Kind \cup {None}] /\ text' \in [Obj -> Texts \cup {None}]
  BY <1>1, <1>2 DEF Typed
<1>6. edge' \subseteq Edge(R)
  <2> SUFFICES ASSUME NEW e \in edge, e[1] \in R PROVE e \in Edge(R)
    BY <1>2
  <2>1. /\ e \in Edge(Live) /\ e[2] \in Member
    BY <1>1 DEF Typed, Edge
  <2>2. ASSUME NEW f \in edge, f[1] \in R, f[2] \in Traced
        PROVE  f[3] \in R \cup {None} /\ f[4] \in R \cup {None}
    <3>1. f[3] # None => f[3] \in R
      BY <1>3, <2>2, InBlackened
    <3>2. f[4] # None => f[4] \in R
      BY <1>3, <2>2, InBlackened
    <3> QED
      BY <3>1, <3>2
  <2>3. CASE e[2] \in Traced
    BY <2>1, <2>2, <2>3 DEF Edge
  <2>4. CASE e[2] = "initializer"
    <3>1. e[3] = None /\ <<e[1], "methods", InitString, e[4]>> \in edge
      BY <1>1, <2>4 DEF InitializerIsMethod
    <3>2. e[4] \in R \cup {None}
      BY <2>2, <3>1 DEF Traced
    <3> QED
      BY <2>1, <3>1, <3>2 DEF Edge
  <2> QED
    BY <2>1, <2>3, <2>4 DEF Member, Untraced
<1>7. stack \in Seq(R \cup {None})
  <2>1. \A i \in 1..Len(stack) : stack[i] \in R \cup {None}
    BY <1>3 DEF Roots, Elements
  <2>2. stack \in Seq(Live \cup {None})
    BY <1>1 DEF Typed
  <2> QED
    BY <2>1, <2>2, SeqShrinks
<1>8. frames \in Seq([callee : R, slots : Nat \ {0}])
  <2>1. frames \in Seq([callee : Live, slots : Nat \ {0}])
    BY <1>1 DEF Typed
  <2>2. ASSUME NEW i \in 1..Len(frames) PROVE frames[i] \in [callee : R, slots : Nat \ {0}]
    <3>1. frames[i] \in [callee : Live, slots : Nat \ {0}]
      BY <2>1, ElementOfSeq
    <3>2. frames[i].callee # None
      BY <3>1, HeapAssumption DEF Live, Obj
    <3>3. frames[i].callee \in R
      BY <1>3, <3>2 DEF Roots
    <3> QED
      BY <3>1, <3>3
  <2> QED
    BY <2>1, <2>2, SeqShrinks
<1>9. compiling \in Seq(R)
  <2>1. compiling \in Seq(Live)
    BY <1>1 DEF Typed
  <2>2. ASSUME NEW i \in 1..Len(compiling) PROVE compiling[i] \in R
    <3>1. compiling[i] # None
      BY <2>1, ElementOfSeq, HeapAssumption DEF Live, Obj
    <3> QED
      BY <1>3, <3>1 DEF Roots, Elements
  <2> QED
    BY <2>1, <2>2, SeqShrinks
<1>10. refs \in Seq(R)
  <2>1. refs \in Seq(Live)
    BY <1>1 DEF Typed
  <2>2. ASSUME NEW i \in 1..Len(refs) PROVE refs[i] \in R
    <3>1. refs[i] # None
      BY <2>1, ElementOfSeq, HeapAssumption DEF Live, Obj
    <3> QED
      BY <1>3, <3>1 DEF Roots, Elements
  <2> QED
    BY <2>1, <2>2, SeqShrinks
<1>11. globals \subseteq R \X (R \cup {None})
  <2> SUFFICES ASSUME NEW g \in globals PROVE g \in R \X (R \cup {None})
    OBVIOUS
  <2>1. g \in Live \X (Live \cup {None}) /\ g[1] # None
    BY <1>1, HeapAssumption DEF Typed, Live, Obj
  <2>2. g[1] \in R /\ g[2] \in R \cup {None}
    BY <1>3, <2>1 DEF Roots
  <2> QED
    BY <2>1, <2>2
<1>12. open \subseteq R \X (Nat \ {0})
  <2> SUFFICES ASSUME NEW u \in open PROVE u \in R \X (Nat \ {0})
    OBVIOUS
  <2>1. u \in Live \X (Nat \ {0}) /\ u[1] # None
    BY <1>1, HeapAssumption DEF Typed, Live, Obj
  <2>2. u[1] \in R
    BY <1>3, <2>1 DEF Roots
  <2> QED
    BY <2>1, <2>2
<1>13. op \in [at : OpAt, then : OpThen, text : Texts \cup {None}, held : R \cup {None}]
  <2>1. op \in [at : OpAt, then : OpThen, text : Texts \cup {None}, held : Live \cup {None}]
    BY <1>1 DEF Typed
  <2>2. op.held \in R \cup {None}
    <3>1. CASE op.at \in {"idle", "string", "capture"}
      BY <1>1, <3>1 DEF HandlerOK
    <3>2. CASE op.at \in {"intern", "constant"}
      <4>1. stack # <<>> /\ op.held = stack[Len(stack)]
        BY <1>1, <3>2 DEF HandlerOK
      <4> QED
        BY <1>7, <4>1, EmptySeq, ElementOfSeq
    <3>3. CASE op.at = "keys"
      <4>1. refs # <<>> /\ op.held = refs[Len(refs)]
        BY <1>1, <3>3 DEF HandlerOK
      <4> QED
        BY <1>10, <4>1, EmptySeq, ElementOfSeq
    <3> QED
      BY <1>2, <3>1, <3>2, <3>3 DEF AllocationPoints
  <2> QED
    BY <2>1, <2>2
<1>14. Typed(R)'
  BY <1>2, <1>4, <1>5, <1>6, <1>7, <1>8, <1>9, <1>10, <1>11, <1>12, <1>13 DEF Typed
<1>15. FramesNested'
  BY <1>1, <1>2 DEF FramesNested
<1>16. HandlerOK'
  BY <1>1, <1>2 DEF HandlerOK, Temporaries, Frame, Peek
<1>17. InitializerIsMethod'
  BY <1>1, <1>2 DEF InitializerIsMethod
<1>18. InitString \in Live'
  BY <1>1, <1>3, <1>4, HeapAssumption DEF Roots, Live, Obj
<1> QED
  BY <1>4, <1>14, <1>15, <1>16, <1>17, <1>18 DEF IInv, Good, Typed

-----------------------------------------------------------------------------
(* Every handler keeps Good of the objects allocated before and after it *)

LEMMA HandlerGood ==
  ASSUME NEW O, Good(O), O \subseteq Obj, Live' \subseteq O, Handler
  PROVE  Good(O)'
<1>1. CASE Strings
  BY <1>1, AllocateStringGood, InternStringGood, OpConcatenateGood, PushConcatenatedGood
     DEF Strings
<1>2. CASE Compile
  BY <1>2, CompileScriptGood, BeginFunctionGood, IdentifierGood, NameFunctionGood,
     PushConstantGood, AddConstantGood, EndFunctionGood, InterpretGood DEF Compile
<1>3. CASE OpConstant \/ Globals
  BY <1>3, PushesGood, OpDefineGlobalGood DEF Globals
<1>4. CASE Calls
  BY <1>4, PushesGood, OpPopGood, OpCallGood, OpReturnGood DEF Calls
<1>5. CASE Closures
  BY <1>5, OpClosureGood, CaptureOuterGood, CapturedGood, CaptureGood, CaptureNewGood,
     PushesGood, OpCloseUpvalueGood DEF Closures
<1>6. CASE Classes
  BY <1>6, OpClassGood, OpMethodGood, OpInheritGood, OpCallClassGood, OpSetPropertyGood,
     OpGetFieldGood, OpBindMethodGood, OpCallBoundGood, OpInvokeFieldGood,
     CallFieldNamesGood, FieldNamesReturnGood DEF Classes
<1> QED
  BY <1>1, <1>2, <1>3, <1>4, <1>5, <1>6 DEF Handler

(* Only a collection frees: after a handler what was allocated still is. *)
LEMMA NewKeeps ==
  ASSUME NEW o \in Obj, NEW k \in Kind, NEW t, New(o, k, t), heap \in [Obj -> Kind \cup {None}]
  PROVE  Live \subseteq Live'
BY DEF New, Live

LEMMA HandlersAllocate ==
  ASSUME Handler
  PROVE  \/ UNCHANGED <<heap, text>>
         \/ \E o \in Obj, k \in Kind : New(o, k, None) \/ New(o, k, op.text)
<1>1. Strings => UNCHANGED <<heap, text>> \/ \E o \in Obj, k \in Kind : New(o, k, op.text)
  BY DEF Strings, AllocateString, InternString, OpConcatenate, PushConcatenated,
     objVars, Kind
<1>2. Compile => UNCHANGED <<heap, text>> \/ \E o \in Obj, k \in Kind : New(o, k, None)
  BY DEF Compile, CompileScript, BeginFunction, Identifier, NameFunction, PushConstant,
     AddConstant, EndFunction, Interpret, objVars, Kind
<1>3. OpConstant \/ Globals \/ Calls => UNCHANGED <<heap, text>>
  BY DEF OpConstant, Globals, Calls, OpGetGlobal, OpDefineGlobal, OpGetLocal, OpPop, OpCall,
     OpReturn, PushValue, objVars
<1>4. Closures => UNCHANGED <<heap, text>> \/ \E o \in Obj, k \in Kind : New(o, k, None)
  BY DEF Closures, OpClosure, CaptureOuter, Captured, Capture, CaptureNew, OpGetUpvalue,
     OpCloseUpvalue, PushValue, objVars, Kind
<1>5. Classes => UNCHANGED <<heap, text>> \/ \E o \in Obj, k \in Kind : New(o, k, None)
  BY DEF Classes, OpClass, OpMethod, OpInherit, OpCallClass, OpSetProperty, OpGetField,
     OpBindMethod, OpCallBound, OpInvokeField, CallFieldNames, FieldNamesReturn, objVars, Kind
<1> QED
  BY <1>1, <1>2, <1>3, <1>4, <1>5 DEF Handler

LEMMA HandlersFreeNothing ==
  ASSUME heap \in [Obj -> Kind \cup {None}], Handler
  PROVE  Live \subseteq Live'
<1>1. CASE UNCHANGED heap
  BY <1>1 DEF Live
<1>2. CASE \E o \in Obj, k \in Kind : New(o, k, None) \/ New(o, k, op.text)
  BY <1>2, NewKeeps
<1> QED
  BY <1>1, <1>2, HandlersAllocate

LEMMA HandlerInv == IInv /\ Handler => IInv'
<1> SUFFICES ASSUME IInv, Handler PROVE IInv'
  OBVIOUS
<1>1. PICK L : L = Live'
  OBVIOUS
<1>2. Live \subseteq L
  BY <1>1, HandlersFreeNothing DEF IInv, Good, Typed
<1>3. L \subseteq Obj
  BY <1>1 DEF Live
<1>4. Good(L)
  BY <1>2, TypedGrows DEF IInv, Good
<1>5. Good(L)'
  BY <1>1, <1>3, <1>4, HandlerGood
<1>6. InitString \in Live'
  BY <1>1, <1>2 DEF IInv
<1> QED
  BY <1>1, <1>5, <1>6 DEF IInv, Good, Typed

LEMMA StutterInv == IInv /\ UNCHANGED vars => IInv'
BY DEF IInv, Good, Typed, FramesNested, HandlerOK, Temporaries, Frame, Peek,
   InitializerIsMethod, Live, vars, objVars, rootVars

-----------------------------------------------------------------------------
(* The kinds of objects *)

LEMMA HandlersKeep ==
  ASSUME IInv, Handler
  PROVE  \A o \in Obj : heap[o] # None => heap'[o] = heap[o] /\ text'[o] = text[o]
<1>1. heap \in [Obj -> Kind \cup {None}] /\ text \in [Obj -> Texts \cup {None}]
  BY DEF IInv, Good, Typed
<1>2. CASE UNCHANGED <<heap, text>>
  BY <1>2
<1>3. CASE \E o \in Obj, k \in Kind : New(o, k, None) \/ New(o, k, op.text)
  BY <1>1, <1>3 DEF New
<1> QED
  BY <1>2, <1>3, HandlersAllocate

LEMMA MemberKinds ==
  /\ DOMAIN MemberKind = Member \ {"closed", "instanceFields", "values"}
  /\ MemberKind["functionName"] = {"string"} /\ MemberKind["className"] = {"string"}
  /\ MemberKind["constants"] = {"string", "function"}
  /\ MemberKind["function"] = {"function"} /\ MemberKind["upvalues"] = {"upvalue"}
  /\ MemberKind["methods"] = {"function", "closure"}
  /\ MemberKind["initializer"] = {"function", "closure"}
  /\ MemberKind["method"] = {"function", "closure"}
  /\ MemberKind["klass"] = {"class"} /\ MemberKind["this_"] = {"instance"}
  /\ MemberKind["receiver"] = {"instance"}
BY DEF MemberKind, Member, Traced, Untraced

LEMMA InitKinds == Init => KindInv /\ InternInv
<1> SUFFICES ASSUME Init PROVE KindInv /\ InternInv
  OBVIOUS
<1>1. InitString \in Obj
  BY HeapAssumption DEF InitString, Obj
<1> QED
  BY <1>1 DEF Init, KindInv, InternInv, OpKind, Idle, Op, Live

(* A step adds references of the right kinds only. *)
KindsGrow ==
  /\ \A e \in edge' : e \in edge \/ EdgeKind(e)'
  /\ \A i \in 1..Len(frames') :
       \/ \E j \in 1..Len(frames) : frames'[i].callee = frames[j].callee
       \/ heap'[frames'[i].callee] \in {"function", "closure"}
  /\ \A u \in open' : u \in open \/ heap'[u[1]] = "upvalue"
  /\ \A s \in strings' : s \in strings \/ heap'[s] = "string"
  /\ \A i \in 1..Len(compiling') :
       \/ \E j \in 1..Len(compiling) : compiling'[i] = compiling[j]
       \/ heap'[compiling'[i]] = "function"
  /\ OpKind'

(* What is allocated before and after a step has the same kind, and only   *)
(* what is allocated is referred to.                                       *)
LEMMA KindsGrown ==
  ASSUME IInv, IInv', KindInv, KindsGrow, 
         \A o \in Live : o \in Live' => heap'[o] = heap[o]
  PROVE  KindInv'
<1>1. Typed(Live)
  BY DEF IInv, Good
<1>2. Typed(Live)'
  BY DEF IInv, Good
<1>3. ASSUME NEW e \in edge', e \in edge PROVE EdgeKind(e)'
  <2>1. EdgeKind(e)
    BY <1>3 DEF KindInv
  <2>2. e[3] \in Live \cup {None} /\ e[4] \in Live \cup {None}
    BY <1>1, <1>3 DEF Typed, Edge
  <2>3. e[3] \in Live' \cup {None} /\ e[4] \in Live' \cup {None}
    BY <1>2, <1>3 DEF Typed, Edge
  <2>4. e[3] # None => heap'[e[3]] = heap[e[3]]
    BY <2>2, <2>3
  <2>5. e[4] # None => heap'[e[4]] = heap[e[4]]
    BY <2>2, <2>3
  <2> QED
    BY <2>1, <2>4, <2>5 DEF EdgeKind
<1>4. ASSUME NEW i \in 1..Len(frames') PROVE heap'[frames'[i].callee] \in {"function", "closure"}
  <2>1. frames'[i].callee \in Live'
    <3>1. frames' \in Seq([callee : Live', slots : Nat \ {0}])
      BY <1>2 DEF Typed
    <3>2. frames'[i] \in [callee : Live', slots : Nat \ {0}]
      BY <1>4, <3>1, ElementOfSeq
    <3> QED
      BY <3>2
  <2>2. ASSUME NEW j \in 1..Len(frames), frames'[i].callee = frames[j].callee
        PROVE  heap'[frames'[i].callee] \in {"function", "closure"}
    BY <1>1, <2>1, <2>2, FrameTyped DEF KindInv
  <2> QED
    BY <2>2 DEF KindsGrow
<1>5. ASSUME NEW u \in open', u \in open PROVE heap'[u[1]] = "upvalue"
  BY <1>1, <1>2, <1>5 DEF Typed, KindInv
<1>6. ASSUME NEW s \in strings', s \in strings PROVE heap'[s] = "string"
  BY <1>1, <1>2, <1>6 DEF Typed, KindInv
<1>7. ASSUME NEW i \in 1..Len(compiling') PROVE heap'[compiling'[i]] = "function"
  <2>1. compiling \in Seq(Live) /\ compiling' \in Seq(Live')
    BY <1>1, <1>2 DEF Typed
  <2>2. compiling'[i] \in Live'
    BY <1>7, <2>1, ElementOfSeq
  <2>3. ASSUME NEW j \in 1..Len(compiling), compiling'[i] = compiling[j]
        PROVE  heap'[compiling'[i]] = "function"
    <3>1. compiling[j] \in Live
      BY <2>1, ElementOfSeq
    <3> QED
      BY <2>2, <2>3, <3>1 DEF KindInv
  <2> QED
    BY <1>7, <2>3 DEF KindsGrow
<1> QED
  BY <1>3, <1>4, <1>5, <1>6, <1>7 DEF KindsGrow, KindInv

LEMMA OperandKinds ==
  ASSUME IInv, Running
  PROVE  /\ Temporaries(1) => Peek(0) \in Obj \cup {None}
         /\ Temporaries(2) => Peek(0) \in Obj \cup {None} /\ Peek(1) \in Obj \cup {None}
<1>1. Good(Live) /\ Live \subseteq Obj
  BY DEF IInv, Live
<1> QED
  BY <1>1, OneOperand, TwoOperands

LEMMA EnteredCallee ==
  ASSUME NEW S, frames \in Seq(S), NEW c, Enter(c)
  PROVE  \A i \in 1..Len(frames') :
           \/ i \in 1..Len(frames) /\ frames'[i].callee = frames[i].callee
           \/ frames'[i].callee = c
BY DEF Enter

LEMMA HandlerKindsGrow ==
  ASSUME IInv, KindInv, Handler
  PROVE  KindsGrow
<1>1. \A o \in Obj : heap[o] # None => heap'[o] = heap[o]
  BY HandlersKeep
<1>2. (\A k \in Kind : k # None) /\ None \notin Obj
  BY HeapAssumption DEF Obj
<1>3. /\ heap \in [Obj -> Kind \cup {None}]
      /\ \A e \in edge : /\ e[1] \in Obj /\ e[2] \in Member
                         /\ e[3] \in Obj \cup {None} /\ e[4] \in Obj \cup {None}
      /\ \A u \in open : u[1] \in Obj
      /\ frames \in Seq([callee : Obj, slots : Nat \ {0}])
      /\ stack \in Seq(Obj \cup {None})
      /\ compiling \in Seq(Obj)
      /\ op.held \in Obj \cup {None}
      /\ op.at \in {"return", "constant"} => op.held # None
  <2>1. TypeOK
    BY TypedGrows DEF IInv, Good, TypeOK, Live
  <2> QED
    BY <2>1 DEF TypeOK, Typed, Edge, IInv, Good, HandlerOK
<1>4. ASSUME UNCHANGED <<edge, strings, frames, open, compiling>>, OpKind'
      PROVE  KindsGrow
  BY <1>4 DEF KindsGrow
<1>5. ASSUME NEW t, NEW then, FindString(t, then), UNCHANGED <<heap, strings>> PROVE OpKind'
  BY <1>5 DEF FindString, OpKind, Op, KindInv
<1>6. op' = Idle => OpKind'
  BY DEF OpKind, Idle, Op
<1>7. OpConstant \/ OpGetLocal \/ OpGetGlobal \/ OpGetUpvalue \/ OpPop \/ OpDefineGlobal
        \/ OpGetField \/ PushConcatenated
      => KindsGrow
  BY <1>4, <1>6
     DEF OpConstant, OpGetLocal, OpGetGlobal, OpGetUpvalue, PushValue, OpPop,
         OpDefineGlobal,
     OpGetField, PushConcatenated, Finish, objVars
<1>8. (\E t \in Texts : OpConcatenate(t) \/ Identifier(t)) => KindsGrow
  BY <1>4, <1>5 DEF OpConcatenate, Identifier, objVars, rootVars
<1>9. AllocateString => KindsGrow
  BY <1>3, <1>4 DEF AllocateString, OpKind, Op, New
<1>10. InternString => KindsGrow
  BY <1>3, <1>4 DEF InternString, OpKind, Op, At, KindsGrow, KindInv, objVars
<1>11. CompileScript => KindsGrow
  BY <1>3, <1>6 DEF CompileScript, KindsGrow, New, Finish
<1>12. (\E t \in Texts : BeginFunction(t)) => KindsGrow
  <2> SUFFICES ASSUME NEW t \in Texts, BeginFunction(t) PROVE KindsGrow
    OBVIOUS
  <2>1. PICK o \in Obj : New(o, "function", None) /\ compiling' = Append(compiling, o)
    BY DEF BeginFunction
  <2>2. FindString(t, "functionName") /\ UNCHANGED <<edge, strings, frames, open>>
    BY DEF BeginFunction
  <2>3. \A i \in 1..Len(compiling') :
          (i \in 1..Len(compiling) /\ compiling'[i] = compiling[i]) \/ compiling'[i] = o
    BY <1>3, <2>1
  <2>4. heap'[o] = "function"
    BY <1>3, <2>1 DEF New
  <2>5. OpKind'
    <3>1. ASSUME NEW s \in strings PROVE heap'[s] = "string"
      <4>1. s \in Obj /\ heap[s] = "string"
        BY <3>1 DEF IInv, Good, Typed, Live, KindInv
      <4> QED
        BY <1>1, <1>2, <4>1 DEF Kind
    <3> QED
      BY <2>2, <3>1 DEF FindString, OpKind, Op
  <2> QED
    BY <2>2, <2>3, <2>4, <2>5 DEF KindsGrow
<1>13. NameFunction => KindsGrow
  BY <1>3, <1>6, MemberKinds
     DEF NameFunction, KindsGrow, KindInv, OpKind, Returned, At, Store, EdgeKind,
         Finish, rootVars, Member, Traced
<1>14. PushConstant => KindsGrow
  BY <1>4 DEF PushConstant, OpKind, Op, KindInv, Returned, At, objVars
<1>15. AddConstant => KindsGrow
  BY <1>3, <1>6, MemberKinds
     DEF AddConstant, KindsGrow, KindInv, OpKind, At, EdgeKind, Finish, Member, Traced
<1>16. EndFunction => KindsGrow
  BY <1>3 DEF EndFunction, KindsGrow, KindInv, OpKind, Op, Front, objVars
<1>17. Interpret => KindsGrow
  BY <1>3, <1>6 DEF Interpret, KindsGrow, KindInv, Finish, objVars
<1>18. OpCall => KindsGrow
  BY <1>3, <1>6, EnteredCallee DEF OpCall, KindsGrow, IsA, Finish, objVars
<1>19. OpReturn => KindsGrow
  BY <1>3, <1>6, MemberKinds
     DEF OpReturn, KindsGrow, KindInv, Front, Finish, ClosedEdges, Closing, EdgeKind
<1>20. OpClosure => KindsGrow
  BY <1>1, <1>2, <1>3, MemberKinds
     DEF OpClosure, KindsGrow, OpKind, Op, New, IsConstant, EdgeKind, Member, Traced,
         Kind
<1>21. (\E i \in 1..MaxStack : Capture(i)) => KindsGrow
  BY <1>2, <1>3, MemberKinds
     DEF Capture, KindsGrow, KindInv, EdgeKind, Member, Traced, At, OpKind, rootVars,
         Kind
<1>22. (\E i \in 1..MaxStack : CaptureNew(i)) => KindsGrow
  BY <1>2, <1>3, MemberKinds, HeapAssumption
     DEF CaptureNew, KindsGrow, New, EdgeKind, Member, Traced, OpKind, Op, Obj
<1>23. CaptureOuter => KindsGrow
  BY <1>3, MemberKinds
     DEF CaptureOuter, KindsGrow, KindInv, EdgeKind, Member, Traced, OpKind, At, rootVars
<1>24. Captured => KindsGrow
  BY <1>4, <1>6 DEF Captured, Finish, objVars, rootVars
<1>25. OpCloseUpvalue => KindsGrow
  BY <1>3, <1>6, MemberKinds
     DEF OpCloseUpvalue, KindsGrow, Finish, ClosedEdges, Closing, EdgeKind
<1>26. OpClass => KindsGrow
  BY <1>1, <1>2, <1>3, <1>6, MemberKinds
     DEF OpClass, KindsGrow, New, IsName, EdgeKind, Member, Traced, Kind, Finish
<1>27. OpMethod => KindsGrow
  BY <1>3, <1>6, MemberKinds, OperandKinds
     DEF OpMethod, KindsGrow, IsA, IsName, Store, EdgeKind, Member, Traced, Finish
<1>28. OpInherit => KindsGrow
  BY <1>3, <1>6, MemberKinds
     DEF OpInherit, KindsGrow, KindInv, EdgeKind, Finish, Member, Traced
<1>29. OpCallClass => KindsGrow
  <2> SUFFICES ASSUME OpCallClass PROVE KindsGrow
    OBVIOUS
  <2>1. PICK o \in Obj :
          /\ New(o, "instance", None)
          /\ edge' = edge \cup {<<o, "klass", None, Peek(0)>>, <<o, "this_", None, o>>}
    BY DEF OpCallClass
  <2>2. OpKind' /\ UNCHANGED <<strings, open, compiling>>
    BY <1>6 DEF OpCallClass, Finish
  <2>3. Peek(0) \in Obj /\ heap[Peek(0)] = "class"
    BY OperandKinds DEF OpCallClass, IsA
  <2>4. heap'[o] = "instance" /\ heap'[Peek(0)] = "class" /\ o # None /\ Peek(0) # None
    BY <1>1, <1>2, <1>3, <2>1, <2>3 DEF New, Kind
  <2>5. ASSUME NEW e \in edge', e \notin edge PROVE EdgeKind(e)'
    <3>1. e = <<o, "klass", None, Peek(0)>> \/ e = <<o, "this_", None, o>>
      BY <2>1, <2>5
    <3> QED
      BY <2>4, <3>1, MemberKinds DEF EdgeKind
  <2>6. \/ frames' = frames
        \/ \E i \in Obj : <<Peek(0), "initializer", None, i>> \in edge /\ Enter(i)
    BY DEF OpCallClass
  <2>7. ASSUME NEW i \in Obj, <<Peek(0), "initializer", None, i>> \in edge
        PROVE  heap'[i] \in {"function", "closure"}
    <3>1. heap[i] \in {"function", "closure"}
      BY <2>7, MemberKinds DEF KindInv, EdgeKind, Member, Untraced, Traced
    <3> QED
      BY <1>1, <1>2, <3>1 DEF Kind
  <2>8. \A i \in 1..Len(frames') :
          \/ \E j \in 1..Len(frames) : frames'[i].callee = frames[j].callee
          \/ heap'[frames'[i].callee] \in {"function", "closure"}
    BY <1>3, <2>6, <2>7, EnteredCallee
  <2> QED
    BY <2>2, <2>5, <2>8 DEF KindsGrow
<1>30. OpSetProperty => KindsGrow
  BY <1>3, <1>6, MemberKinds DEF OpSetProperty, KindsGrow, IsName, Store, EdgeKind, Finish
<1>31. OpBindMethod => KindsGrow
  <2> SUFFICES ASSUME OpBindMethod PROVE KindsGrow
    OBVIOUS
  <2>1. PICK o, n, c, m \in Obj :
          /\ <<c, "methods", n, m>> \in edge /\ New(o, "boundMethod", None)
          /\ edge' = edge \cup {<<o, "receiver", None, Peek(0)>>, <<o, "method", None, m>>}
    BY DEF OpBindMethod
  <2>2. OpKind' /\ UNCHANGED <<strings, frames, open, compiling>>
    BY <1>6 DEF OpBindMethod, Finish
  <2>3. Peek(0) \in Obj /\ heap[Peek(0)] = "instance"
    BY OperandKinds DEF OpBindMethod, IsA
  <2>4. heap[m] \in {"function", "closure"}
    BY <2>1, MemberKinds DEF KindInv, EdgeKind, Member, Traced
  <2>5. /\ heap'[Peek(0)] = "instance" /\ heap'[m] \in {"function", "closure"}
        /\ Peek(0) # None /\ m # None
    BY <1>1, <1>2, <2>3, <2>4 DEF Kind
  <2>6. ASSUME NEW e \in edge', e \notin edge PROVE EdgeKind(e)'
    <3>1. e = <<o, "receiver", None, Peek(0)>> \/ e = <<o, "method", None, m>>
      BY <2>1, <2>6
    <3> QED
      BY <2>5, <3>1, MemberKinds DEF EdgeKind
  <2> QED
    BY <2>2, <2>6 DEF KindsGrow
<1>32. OpCallBound => KindsGrow
  <2> SUFFICES ASSUME OpCallBound PROVE KindsGrow
    OBVIOUS
  <2>1. PICK m \in Obj : <<Peek(0), "method", None, m>> \in edge /\ Enter(m)
    BY DEF OpCallBound
  <2>2. heap[m] \in {"function", "closure"}
    BY <2>1, MemberKinds DEF KindInv, EdgeKind, Member, Traced
  <2>3. OpKind' /\ UNCHANGED <<heap, edge, strings, open, compiling>>
    BY <1>6 DEF OpCallBound, Finish, objVars
  <2>4. \A i \in 1..Len(frames') :
          \/ \E j \in 1..Len(frames) : frames'[i].callee = frames[j].callee
          \/ heap'[frames'[i].callee] \in {"function", "closure"}
    BY <1>3, <2>1, <2>2, <2>3, EnteredCallee
  <2> QED
    BY <2>3, <2>4 DEF KindsGrow
<1>33. OpInvokeField => KindsGrow
  BY <1>3, <1>6, EnteredCallee DEF OpInvokeField, KindsGrow, IsA, Finish, objVars
<1>34. CallFieldNames => KindsGrow
  BY <1>4 DEF CallFieldNames, OpKind, Op
<1>35. FieldNamesReturn => KindsGrow
  BY <1>6, MemberKinds DEF FieldNamesReturn, KindsGrow, EdgeKind, Finish
<1> QED
  BY <1>7, <1>8, <1>9, <1>10, <1>11, <1>12, <1>13, <1>14, <1>15, <1>16, <1>17, <1>18,
     <1>19, <1>20, <1>21, <1>22, <1>23, <1>24, <1>25, <1>26, <1>27, <1>28, <1>29, <1>30,
     <1>31, <1>32, <1>33, <1>34, <1>35
     DEF Handler, Strings, Compile, Globals, Calls, Closures, Classes

LEMMA CollectKeeps ==
  ASSUME CollectGarbage
  PROVE  \A o \in Obj : heap'[o] # None => heap'[o] = heap[o] /\ text'[o] = text[o]
BY DEF CollectGarbage, Keep

LEMMA CollectKindsGrow ==
  ASSUME IInv, IInv', KindInv, CollectGarbage
  PROVE  KindsGrow
<1>1. /\ edge' \subseteq edge /\ strings' \subseteq strings
      /\ UNCHANGED <<frames, open, compiling, op>>
  BY DEF CollectGarbage, Keep, rootVars
<1>2. op.at \in {"intern", "return", "constant"} => heap'[op.held] = heap[op.held]
  <2>1. op.at \in {"intern", "return", "constant"} => op.held # None
    BY DEF IInv, Good, HandlerOK
  <2>2. op'.held \in Live' \cup {None}
    BY DEF IInv, Good, Typed
  <2> QED
    BY <1>1, <2>1, <2>2, CollectKeeps DEF Live
<1>3. OpKind'
  BY <1>1, <1>2 DEF OpKind, KindInv
<1> QED
  BY <1>1, <1>3 DEF KindsGrow

LEMMA KindStep ==
  ASSUME IInv, IInv', KindInv, [Next]_vars
  PROVE  KindInv'
<1>1. CASE Handler
  BY <1>1, HandlerKindsGrow, HandlersKeep, KindsGrown DEF Live
<1>2. CASE CollectGarbage
  BY <1>2, CollectKindsGrow, CollectKeeps, KindsGrown DEF Live
<1>3. CASE UNCHANGED vars
  BY <1>3 DEF vars, objVars, rootVars, KindInv, EdgeKind, OpKind
<1> QED
  BY <1>1, <1>2, <1>3 DEF Next

-----------------------------------------------------------------------------
(* vm.strings *)

(* A step that makes no string leaves the intern table as good as it was. *)
LEMMA NoNewString ==
  ASSUME IInv, IInv', InternInv,
         \A o \in Live' : heap'[o] = "string" => o \in Live /\ heap[o] = "string",
         \A o \in Live : o \in Live' => text'[o] = text[o],
         strings' = strings \cap Live',
         \/ op' = op
         \/ op.at # "intern" /\ op'.at \notin {"string", "intern"}
  PROVE  InternInv'
<1>1. strings \subseteq Live
  BY DEF IInv, Good, Typed
<1>2. op'.at = "intern" => op'.held \in Live'
  BY DEF IInv, Good, Typed, HandlerOK
<1>3. op.at = "intern" => op.held \in Live
  BY DEF IInv, Good, Typed, HandlerOK
<1> QED
  BY <1>1, <1>2, <1>3 DEF InternInv

LEMMA HandlerInterns ==
  ASSUME IInv, IInv', InternInv, Handler
  PROVE  InternInv'
<1>1. /\ \A o \in Live : heap'[o] = heap[o] /\ text'[o] = text[o]
      /\ Live \subseteq Live' /\ Live' \subseteq Obj
  BY HandlersKeep DEF Live
<1>2. strings \subseteq Live /\ heap \in [Obj -> Kind \cup {None}]
  BY DEF IInv, Good, Typed
<1>3. ASSUME NEW o \in Obj, NEW k \in Kind \ {"string"}, New(o, k, None)
      PROVE  \A s \in Live' : heap'[s] = "string" => s \in Live /\ heap[s] = "string"
  BY <1>2, <1>3 DEF New, Live
<1>4. ASSUME UNCHANGED heap
      PROVE  \A s \in Live' : heap'[s] = "string" => s \in Live /\ heap[s] = "string"
  BY <1>4 DEF Live
<1>5. ASSUME UNCHANGED strings,
             \A o \in Live' : heap'[o] = "string" => o \in Live /\ heap[o] = "string",
             op' = op \/ (op.at # "intern" /\ op'.at \notin {"string", "intern"})
      PROVE  InternInv'
  BY <1>1, <1>2, <1>5, NoNewString
<1>6. ASSUME NEW t, NEW then, FindString(t, then), UNCHANGED strings, op.at = "idle",
             \A s \in Live' : heap'[s] = "string" => s \in Live /\ heap[s] = "string"
      PROVE  InternInv'
  BY <1>1, <1>2, <1>6 DEF FindString, Op, InternInv
<1>7. CASE AllocateString
  <2>1. PICK o \in Obj : New(o, "string", op.text) /\ op' = Op("intern", op.then, op.text, o)
    BY <1>7 DEF AllocateString
  <2>2. op.at = "string" /\ strings' = strings
    BY <1>7 DEF AllocateString, At
  <2>3. text \in [Obj -> Texts \cup {None}]
    BY DEF IInv, Good, Typed
  <2> QED
    BY <1>1, <1>2, <2>1, <2>2, <2>3 DEF New, Op, InternInv, Live
<1>8. CASE InternString
  BY <1>1, <1>2, <1>8 DEF InternString, At, Op, InternInv, objVars, Live
<1>9. CASE Compile
  <2>1. \A t \in Texts : BeginFunction(t) => InternInv'
    BY <1>3, <1>6 DEF BeginFunction, Compiling, At, Kind
  <2>2. \A t \in Texts : Identifier(t) => InternInv'
    BY <1>4, <1>6 DEF Identifier, Compiling, At, objVars
  <2>3. CompileScript => InternInv'
    BY <1>3, <1>5 DEF CompileScript, Compiling, At, Finish, Idle, Op, Kind
  <2> QED
    BY <1>4, <1>5, <1>9, <2>1, <2>2, <2>3 
       DEF Compile, NameFunction, PushConstant, AddConstant, EndFunction, Interpret,
           Compiling, Returned, At, Finish, Idle, Op, objVars
<1>10. CASE (\E t \in Texts : OpConcatenate(t)) \/ PushConcatenated
  BY <1>4, <1>5, <1>6, <1>10
     DEF OpConcatenate, PushConcatenated, Running, Returned, At, Finish, Idle, Op, objVars
<1>11. CASE OpConstant \/ Globals \/ Calls
  BY <1>4, <1>5, <1>11
     DEF OpConstant, Globals, Calls, OpGetGlobal, OpDefineGlobal, OpGetLocal, OpPop, OpCall,
         OpReturn, PushValue, Running, At, Finish, Idle, Op, objVars
<1>12. CASE OpClosure \/ \E i \in 1..MaxStack : CaptureNew(i)
  <2>1. strings' = strings /\ \E o \in Obj, k \in Kind \ {"string"} : New(o, k, None)
    BY <1>12
       DEF OpClosure, CaptureNew, Running, At, Op, Kind
  <2>2. op' = op \/ (op.at # "intern" /\ op'.at \notin {"string", "intern"})
    BY <1>12
       DEF OpClosure, CaptureNew, Running, At, Op, Kind
  <2> QED
    BY <1>3, <1>5, <2>1, <2>2
<1>13. CASE OpClass \/ OpCallClass \/ OpBindMethod \/ CallFieldNames
  <2>1. strings' = strings /\ \E o \in Obj, k \in Kind \ {"string"} : New(o, k, None)
    BY <1>13
       DEF OpClass, OpCallClass, OpBindMethod, CallFieldNames, Running, At, Finish,
           Idle, Op, Kind
  <2>2. op' = op \/ (op.at # "intern" /\ op'.at \notin {"string", "intern"})
    BY <1>13
       DEF OpClass, OpCallClass, OpBindMethod, CallFieldNames, Running, At, Finish,
           Idle, Op, Kind
  <2> QED
    BY <1>3, <1>5, <2>1, <2>2
<1>14. CASE CaptureOuter \/ Captured \/ OpCloseUpvalue
            \/ \E i \in 1..MaxStack : Capture(i)
  <2>1. strings' = strings /\ UNCHANGED heap
    BY <1>14
       DEF CaptureOuter, Captured, Capture, OpCloseUpvalue,
           Running, At, Finish, Idle, Op, objVars
  <2>2. op' = op \/ (op.at # "intern" /\ op'.at \notin {"string", "intern"})
    BY <1>14
       DEF CaptureOuter, Captured, Capture, OpCloseUpvalue,
           Running, At, Finish, Idle, Op, objVars
  <2> QED
    BY <1>4, <1>5, <2>1, <2>2
<1>15. CASE OpMethod \/ OpInherit \/ OpSetProperty \/ OpGetField \/ OpCallBound \/ OpInvokeField
            \/ FieldNamesReturn
  <2>1. strings' = strings /\ UNCHANGED heap
    BY <1>15
       DEF OpMethod, OpInherit, OpSetProperty, OpGetField, OpCallBound, OpInvokeField,
           FieldNamesReturn, Running, At, Finish, Idle, Op, objVars
  <2>2. op' = op \/ (op.at # "intern" /\ op'.at \notin {"string", "intern"})
    BY <1>15
       DEF OpMethod, OpInherit, OpSetProperty, OpGetField, OpCallBound, OpInvokeField,
           FieldNamesReturn, Running, At, Finish, Idle, Op, objVars
  <2> QED
    BY <1>4, <1>5, <2>1, <2>2
<1>16. CASE OpGetUpvalue
  <2>1. \E v : PushValue(v)
    BY <1>16 DEF OpGetUpvalue
  <2>2. strings' = strings /\ UNCHANGED heap
    BY <2>1 DEF PushValue, objVars
  <2>3. op.at # "intern" /\ op'.at \notin {"string", "intern"}
    BY <1>16, <2>1 DEF OpGetUpvalue, PushValue, Running, At, Finish, Idle, Op
  <2> QED
    BY <1>4, <1>5, <2>2, <2>3
<1> QED
  BY <1>7, <1>8, <1>9, <1>10, <1>11, <1>12, <1>13, <1>14, <1>15,
     <1>16
     DEF Handler, Strings, Closures, Classes

LEMMA InternStep ==
  ASSUME IInv, IInv', InternInv, [Next]_vars
  PROVE  InternInv'
<1>1. CASE Handler
  BY <1>1, HandlerInterns
<1>2. CASE CollectGarbage
  <2>1. \A o \in Live' : o \in Live /\ heap'[o] = heap[o] /\ text'[o] = text[o]
    BY <1>2, CollectKeeps DEF Live
  <2>2. Live' = Reachable
    BY <1>2, ReachableFacts DEF CollectGarbage, Keep, Live
  <2>3. strings' = strings \cap Live' /\ op' = op
    BY <1>2, <2>2 DEF CollectGarbage
  <2> QED
    BY <2>1, <2>3, NoNewString
<1>3. CASE UNCHANGED vars
  BY <1>3 DEF vars, objVars, InternInv, Live
<1> QED
  BY <1>1, <1>2, <1>3 DEF Next

-----------------------------------------------------------------------------
(* The theorems *)

(* The invariant holds in every state of every run, collections included. *)
THEOREM Invariant == Spec => []IInv
<1>1. Init => IInv
  BY InitInv
<1>2. IInv /\ [Next]_vars => IInv'
  BY HandlerInv, CollectGarbageInv, StutterInv DEF Next
<1> QED
  BY <1>1, <1>2, PTL DEF Spec

(* Every variable keeps its type, and no frame and no open upvalue points  *)
(* above vm.stackTop.                                                      *)
THEOREM TypeCorrect == Spec => []TypeOK
<1>1. IInv => TypeOK
  <2> SUFFICES ASSUME IInv PROVE TypeOK
    OBVIOUS
  <2>1. Typed(Live) /\ FramesNested /\ Live \subseteq Obj
    BY DEF IInv, Good, Live
  <2> QED
    BY <2>1, TypedGrows DEF TypeOK
<1> QED
  BY <1>1, Invariant, PTL

(* A collection at any allocation of any handler frees nothing the program *)
(* can still reach through a root, a C local, vm.strings or an object.     *)
THEOREM NothingDangles == Spec => []NoDangling
<1>1. IInv => NoDangling
  <2> SUFFICES ASSUME IInv PROVE NoDangling
    OBVIOUS
  <2>1. Typed(Live)
    BY DEF IInv, Good
  <2>2. \A i \in 1..Len(stack) : stack[i] \in Live \cup {None}
    BY <2>1, Slot
  <2>3. \A i \in 1..Len(frames) : frames[i].callee \in Live
    BY <2>1, FrameTyped
  <2>4. /\ \A g \in globals : g[1] \in Live /\ g[2] \in Live \cup {None}
        /\ \A u \in open : u[1] \in Live
    BY <2>1 DEF Typed
  <2>5. compiling \in Seq(Live) /\ refs \in Seq(Live)
    BY <2>1 DEF Typed
  <2>6. /\ \A i \in 1..Len(compiling) : compiling[i] \in Live
        /\ \A i \in 1..Len(refs) : refs[i] \in Live
    BY <2>5, ElementOfSeq
  <2>7. Locals \subseteq Live /\ strings \subseteq Live
    BY <2>1 DEF Typed, Locals
  <2>8. EdgesLive
    BY <2>1 DEF Typed, Edge, EdgesLive
  <2> QED
    BY <2>2, <2>3, <2>4, <2>6, <2>7, <2>8 DEF NoDangling, Elements
<1> QED
  BY <1>1, Invariant, PTL

(* The initializer of a class, which is not marked, is always held by the  *)
(* methods of the class, which are.                                        *)
THEOREM InitializerKept == Spec => []InitializerIsMethod
<1>1. IInv => InitializerIsMethod
  BY DEF IInv, Good
<1> QED
  BY <1>1, Invariant, PTL

(* A reference leads to an object of the C type it is read as, also when    *)
(* its address was another object's before.                                *)
THEOREM KindsCorrect == Spec => []WellTyped
<1>1. Init => IInv /\ KindInv
  BY InitInv, InitKinds
<1>2. IInv /\ KindInv /\ [Next]_vars => (IInv /\ KindInv)'
  BY HandlerInv, CollectGarbageInv, StutterInv, KindStep DEF Next
<1>3. KindInv => WellTyped
  BY DEF KindInv, EdgeKind, WellTyped
<1> QED
  BY <1>1, <1>2, <1>3, PTL DEF Spec

(* Every allocated string is in vm.strings, but for the one allocateString *)
(* is about to enter, and two strings with the same characters are the same *)
(* object: findEntry and valuesEqual may compare addresses.                *)
THEOREM StringsInterned == Spec => []Interned
<1>1. Init => IInv /\ InternInv
  BY InitInv, InitKinds
<1>2. IInv /\ InternInv /\ [Next]_vars => (IInv /\ InternInv)'
  BY HandlerInv, CollectGarbageInv, StutterInv, InternStep DEF Next
<1>3. InternInv => Interned
  BY DEF InternInv, Interned
<1> QED
  BY <1>1, <1>2, <1>3, PTL DEF Spec
-----------------------------------------------------------------------------
(***************************************************************************)
(* The collector, for any number of objects: at no point of a collection   *)
(* is the tri-colour invariant broken, and what it sweeps is exactly what  *)
(* cannot be reached.                                                      *)
(*                                                                         *)
(* Marking marks no more than Reachable because Reachable holds the roots  *)
(* and is closed under Blackened (ReachableFacts); when no object is gray  *)
(* it has marked no less, as the marked objects are then one of the closed *)
(* sets Reachable is the least of.  A sweep is therefore a step of         *)
(* CollectGarbage, and keeps the invariant of the heap as that one does.   *)
(***************************************************************************)

Marking ==
  /\ op.at \in AllocationPoints
  /\ marked \subseteq Reachable

Sweeping == gray = {} /\ Blackened(marked) \subseteq marked /\ strings \subseteq marked

GCInv ==
  /\ IInv
  /\ CollectorTypeOK /\ TriColour
  /\ phase # "run" => Marking
  /\ phase = "sweep" => Sweeping

-----------------------------------------------------------------------------
(* Reachability *)

(* Nothing a collection decides depends on vm.strings or on the colours. *)
LEMMA SameReachable ==
  ASSUME UNCHANGED <<objVars, rootVars>>
  PROVE  Roots' = Roots /\ Live' = Live /\ Reachable' = Reachable
BY DEF Roots, Live, Reachable, Blackened, Targets, Elements, objVars, rootVars

(* A marked set that holds the roots and what its members mark holds all   *)
(* that can be reached.                                                    *)
LEMMA ReachableIsLeast ==
  ASSUME NEW M, M \subseteq Live, Roots \subseteq M, Blackened(M) \subseteq M
  PROVE  Reachable \subseteq M
<1> DEFINE W == M \cap (Blackened(Live) \ Roots)
           S == Roots \cup W
<1>1. S \subseteq M
  OBVIOUS
<1>2. Blackened(S) \subseteq S
  <2> SUFFICES ASSUME NEW x \in Blackened(S) PROVE x \in S
    OBVIOUS
  <2>1. x # None /\ \E e \in edge : e[1] \in S /\ e[2] \in Traced /\ (x = e[3] \/ x = e[4])
    BY InBlackened
  <2>2. x \in Blackened(M) /\ x \in Blackened(Live)
    BY <1>1, <2>1, InBlackened
  <2> QED
    BY <2>2
<1>3. S \in {Roots \cup V : V \in SUBSET (Blackened(Live) \ Roots)}
  <2>1. W \in SUBSET (Blackened(Live) \ Roots)
    OBVIOUS
  <2> QED
    BY <2>1
<1>4. \A o \in Reachable : o \in S
  BY <1>2, <1>3 DEF Reachable
<1> QED
  BY <1>1, <1>4

-----------------------------------------------------------------------------
(* The steps *)

LEMMA FewerStrings ==
  ASSUME IInv, strings' \subseteq strings, UNCHANGED <<objVars, rootVars, op>>
  PROVE  IInv'
BY DEF IInv, Good, Typed, FramesNested, HandlerOK, Temporaries, Frame, Peek,
   InitializerIsMethod, Live, objVars, rootVars

LEMMA GCInitInv == CollectorInit => GCInv
<1> SUFFICES ASSUME CollectorInit PROVE GCInv
  OBVIOUS
<1>1. IInv
  BY InitInv DEF CollectorInit
<1> QED
  BY <1>1 DEF CollectorInit, GCInv, CollectorTypeOK, TriColour, Live

LEMMA HandlerGC == GCInv /\ HandlerStep => GCInv'
<1> SUFFICES ASSUME GCInv, HandlerStep PROVE GCInv'
  OBVIOUS
<1>1. IInv'
  BY HandlerInv DEF GCInv, HandlerStep
<1>2. phase = "run" /\ phase' = "run" /\ marked' = {} /\ gray' = {}
  BY DEF GCInv, HandlerStep, gcVars, TriColour
<1> QED
  BY <1>1, <1>2 DEF GCInv, CollectorTypeOK, TriColour

LEMMA MarkRootsGC == GCInv /\ MarkRoots => GCInv'
<1> SUFFICES ASSUME GCInv, MarkRoots PROVE GCInv'
  OBVIOUS
<1>1. /\ marked' = Roots /\ gray' = Roots /\ phase' = "trace"
      /\ op.at \in AllocationPoints /\ UNCHANGED vars
  BY DEF MarkRoots
<1>2. IInv'
  BY <1>1, StutterInv DEF GCInv
<1>3. Roots' = Roots /\ Live' = Live /\ Reachable' = Reachable
  BY <1>1, SameReachable DEF vars
<1>4. Roots \subseteq Live /\ Roots \subseteq Reachable /\ Live \subseteq Obj
  BY ReachableFacts, RootsLive DEF GCInv, Live
<1>5. CollectorTypeOK'
  BY <1>1, <1>3, <1>4 DEF CollectorTypeOK
<1>6. Blackened(marked \ gray)' = {}
  BY <1>1 DEF Blackened, Targets
<1>7. TriColour'
  BY <1>1, <1>3, <1>4, <1>6 DEF TriColour
<1>8. Marking'
  BY <1>1, <1>3, <1>4 DEF Marking, vars, AllocationPoints
<1> QED
  BY <1>1, <1>2, <1>5, <1>7, <1>8 DEF GCInv

(* What was black stays black, and all that o refers to becomes marked. *)
LEMMA BlackenGC == GCInv /\ Blacken => GCInv'
<1> SUFFICES ASSUME GCInv, Blacken PROVE GCInv'
  OBVIOUS
<1>1. /\ phase = "trace" /\ phase' = "trace" /\ UNCHANGED vars
      /\ marked \subseteq Reachable /\ Roots \subseteq marked /\ gray \subseteq marked
      /\ op.at \in AllocationPoints
      /\ \A x \in Blackened(marked \ gray) : x \in marked
  BY DEF Blacken, GCInv, TriColour, Marking
<1>2. PICK o \in gray :
        /\ gray' = (gray \ {o}) \cup (Blackened({o}) \ marked)
        /\ marked' = marked \cup Blackened({o})
  BY DEF Blacken
<1>3. IInv /\ IInv'
  BY <1>1, StutterInv DEF GCInv
<1>4. Roots' = Roots /\ Live' = Live /\ Reachable' = Reachable /\ edge' = edge
  BY <1>1, SameReachable DEF vars, objVars
<1>5. Reachable \subseteq Live /\ Blackened(Reachable) \subseteq Reachable /\ Live \subseteq Obj
  BY <1>3, ReachableFacts DEF Live
<1>6. Blackened({o}) \subseteq Reachable
  <2> SUFFICES ASSUME NEW x \in Blackened({o}) PROVE x \in Blackened(Reachable)
    BY <1>5
  <2>1. o \in Reachable
    BY <1>1
  <2> QED
    BY <2>1, InBlackened
<1>7. marked' \subseteq Reachable /\ gray' \subseteq marked'
  BY <1>1, <1>2, <1>6
<1>8. ASSUME NEW x \in Blackened(marked' \ gray') PROVE x \in marked'
  <2>1. PICK e \in edge : /\ e[1] \in marked' \ gray' /\ e[2] \in Traced
                          /\ x # None /\ (x = e[3] \/ x = e[4])
    BY <1>8, InBlackened
  <2>2. e[1] = o \/ e[1] \in marked \ gray
    BY <1>2, <2>1
  <2>3. CASE e[1] = o
    BY <1>2, <2>1, <2>3, InBlackened
  <2>4. CASE e[1] \in marked \ gray
    <3>1. x \in Blackened(marked \ gray)
      BY <2>1, <2>4, InBlackened
    <3> QED
      BY <1>1, <1>2, <3>1
  <2> QED
    BY <2>2, <2>3, <2>4
<1>9. Blackened(marked \ gray)' \subseteq marked'
  BY <1>4, <1>8 DEF Blackened
<1>10. CollectorTypeOK'
  BY <1>1, <1>4, <1>5, <1>7 DEF CollectorTypeOK
<1>11. TriColour'
  BY <1>1, <1>2, <1>4, <1>5, <1>7, <1>9 DEF TriColour
<1>12. Marking'
  BY <1>1, <1>4, <1>7 DEF Marking, vars, AllocationPoints
<1> QED
  BY <1>1, <1>3, <1>10, <1>11, <1>12 DEF GCInv

LEMMA RemoveWhiteGC == GCInv /\ RemoveWhite => GCInv'
<1> SUFFICES ASSUME GCInv, RemoveWhite PROVE GCInv'
  OBVIOUS
<1>1. /\ phase = "trace" /\ phase' = "sweep" /\ gray = {} /\ strings' = strings \cap marked
      /\ UNCHANGED <<objVars, rootVars, op, marked, gray>>
  BY DEF RemoveWhite
<1>2. IInv'
  BY <1>1, FewerStrings DEF GCInv
<1>3. Roots' = Roots /\ Live' = Live /\ Reachable' = Reachable
  BY <1>1, SameReachable
<1>4. Blackened(marked) \subseteq marked
  <2>1. marked \ gray = marked
    BY <1>1
  <2> QED
    BY <1>1, <2>1 DEF GCInv, TriColour
<1>5. Blackened(marked)' \subseteq marked'
  BY <1>1, <1>4 DEF Blackened, Targets, objVars
<1> QED
  BY <1>1, <1>2, <1>3, <1>5 DEF GCInv, CollectorTypeOK, TriColour, Marking, Sweeping,
     AllocationPoints

(* What is marked when the tracing has ended is what can be reached. *)
LEMMA MarkedIsReachable == GCInv /\ phase = "sweep" => marked = Reachable
BY ReachableIsLeast DEF GCInv, CollectorTypeOK, TriColour, Marking, Sweeping

LEMMA SweepCollects == GCInv /\ Sweep => CollectGarbage
<1> SUFFICES ASSUME GCInv, Sweep PROVE CollectGarbage
  OBVIOUS
<1>1. marked = Reachable /\ strings \subseteq marked /\ op.at \in AllocationPoints
  BY MarkedIsReachable DEF Sweep, GCInv, Sweeping, Marking
<1>2. strings' = strings \cap Reachable
  BY <1>1 DEF Sweep
<1> QED
  BY <1>1, <1>2 DEF Sweep, CollectGarbage

LEMMA SweepGC == GCInv /\ Sweep => GCInv'
<1> SUFFICES ASSUME GCInv, Sweep PROVE GCInv'
  OBVIOUS
<1>1. IInv'
  BY SweepCollects, CollectGarbageInv DEF GCInv
<1>2. phase = "sweep" /\ phase' = "run" /\ marked' = {} /\ gray' = {}
  BY DEF GCInv, Sweep, Sweeping
<1> QED
  BY <1>1, <1>2 DEF GCInv, CollectorTypeOK, TriColour

LEMMA StutterGC == GCInv /\ UNCHANGED CollectorVars => GCInv'
<1> SUFFICES ASSUME GCInv, UNCHANGED CollectorVars PROVE GCInv'
  OBVIOUS
<1>1. IInv'
  BY StutterInv DEF GCInv, CollectorVars
<1>2. UNCHANGED <<vars, marked, gray, phase>>
  BY DEF CollectorVars, gcVars
<1>3. Roots' = Roots /\ Live' = Live /\ Reachable' = Reachable
  BY <1>2, SameReachable DEF vars
<1>4. Blackened(marked \ gray)' = Blackened(marked \ gray) /\ Blackened(marked)' = Blackened(marked)
  BY <1>2 DEF Blackened, vars, objVars
<1> QED
  BY <1>1, <1>2, <1>3, <1>4 DEF GCInv, CollectorTypeOK, TriColour, Marking, Sweeping, vars,
     AllocationPoints

-----------------------------------------------------------------------------
(* The theorems *)

(* The invariant holds before, during and after every collection. *)
THEOREM CollectorInvariant == CollectorSpec => []GCInv
<1>1. CollectorInit => GCInv
  BY GCInitInv
<1>2. GCInv /\ [CollectorNext]_CollectorVars => GCInv'
  BY HandlerGC, MarkRootsGC, BlackenGC, RemoveWhiteGC, SweepGC, StutterGC
     DEF CollectorNext, Collect
<1> QED
  BY <1>1, <1>2, PTL DEF CollectorSpec

(* What markObject marks and pushes on the gray stack is an allocated      *)
(* object at every moment: never NULL, never a freed address.              *)
THEOREM CollectorTyped == CollectorSpec => []CollectorTypeOK
<1>1. GCInv => CollectorTypeOK
  BY DEF GCInv
<1> QED
  BY <1>1, CollectorInvariant, PTL

(* traceReferences takes the gray objects in any order and never leaves a  *)
(* black object with a white one behind it.                                *)
THEOREM NoBlackToWhite == CollectorSpec => []TriColour
<1>1. GCInv => TriColour
  BY DEF GCInv
<1> QED
  BY <1>1, CollectorInvariant, PTL

(* When sweep begins, the objects with isMarked set are exactly those that *)
(* a chain of marked members reaches from a root.                          *)
THEOREM SweepIsExact == CollectorSpec => []SweepsUnreachable
<1>1. GCInv => SweepsUnreachable
  BY MarkedIsReachable DEF SweepsUnreachable
<1> QED
  BY <1>1, CollectorInvariant, PTL

-----------------------------------------------------------------------------
(* The collector implements the atomic CollectGarbage *)

(* Outside of the sweep Promised sees the heap as it is, *)
LEMMA NotSweeping ==
  ASSUME phase # "sweep"
  PROVE  Swept(heap) = heap /\ Swept(text) = text /\ SweptEdges = edge
BY DEF Swept, SweptEdges

LEMMA NotSweepingNext ==
  ASSUME phase' # "sweep"
  PROVE  Swept(heap)' = heap' /\ Swept(text)' = text' /\ SweptEdges' = edge'
BY DEF Swept, SweptEdges

(* and so does every part the handlers are built from. *)
LEMMA SameParts ==
  ASSUME phase = "run", phase' = "run"
  PROVE  /\ (Promised!Running <=> Running) /\ (Promised!Compiling <=> Compiling)
         /\ \A pc : Promised!At(pc) <=> At(pc)
         /\ \A then : Promised!Returned(then) <=> Returned(then)
         /\ \A n : Promised!Peek(n) = Peek(n) /\ Promised!Pop(n) = Pop(n)
         /\ \A s : Promised!Front(s) = Front(s)
         /\ \A n : (Promised!Temporaries(n) <=> Temporaries(n)) /\ (Promised!Room(n) <=> Room(n))
         /\ \A v, K : Promised!IsA(v, K) <=> IsA(v, K)
         /\ Promised!Frame = Frame
         /\ \A c : (Promised!IsName(c) <=> IsName(c)) /\ (Promised!IsConstant(c) <=> IsConstant(c))
         /\ \A E, o, f, k, v : Promised!Store(E, o, f, k, v) = Store(E, o, f, k, v)
         /\ \A o, k, t : Promised!New(o, k, t) <=> New(o, k, t)
         /\ \A at, then, t, held : Promised!Op(at, then, t, held) = Op(at, then, t, held)
         /\ \A t, then : Promised!FindString(t, then) <=> FindString(t, then)
         /\ \A v : Promised!PushValue(v) <=> PushValue(v)
         /\ \A l : Promised!Closing(l) = Closing(l) /\ Promised!ClosedEdges(l) = ClosedEdges(l)
         /\ \A c : Promised!Enter(c) <=> Enter(c)
         /\ (Promised!Finish <=> Finish)
         /\ Promised!Obj = Obj /\ Promised!Ref = Ref /\ Promised!InitString = InitString
         /\ Promised!objVars = objVars /\ Promised!rootVars = rootVars
         /\ Promised!objVars' = objVars' /\ Promised!rootVars' = rootVars'
BY NotSweeping, NotSweepingNext
   DEF Running, Compiling, At, Returned, Peek, Pop, Front, Temporaries, IsA, Frame,
       IsConstant, IsFunctionOf, IsName, Store, New, Op, Finish, Idle, Room,
       FindString, PushValue, Closing, ClosedEdges, Enter, Obj, Ref, objVars,
       rootVars, InitString, Promised!Running, Promised!Compiling, Promised!At,
       Promised!Returned, Promised!Peek, Promised!Pop, Promised!Front,
       Promised!Temporaries, Promised!IsA, Promised!Frame, Promised!IsConstant,
       Promised!IsFunctionOf, Promised!IsName, Promised!Store, Promised!New,
       Promised!Op, Promised!Finish, Promised!Idle, Promised!Room,
       Promised!FindString, Promised!PushValue, Promised!Closing,
       Promised!ClosedEdges, Promised!Enter, Promised!Obj, Promised!Ref,
       Promised!objVars, Promised!rootVars, Promised!InitString

LEMMA HandlerStepImplements ==
  ASSUME phase = "run", phase' = "run", Handler
  PROVE  Promised!Handler
<1>1. Strings => Promised!Strings
  BY NotSweeping, NotSweepingNext, SameParts
     DEF Strings, AllocateString, InternString, OpConcatenate, PushConcatenated,
         Promised!Strings, Promised!AllocateString, Promised!InternString,
         Promised!OpConcatenate, Promised!PushConcatenated
<1>2. Compile => Promised!Compile
  BY NotSweeping, NotSweepingNext, SameParts
     DEF Compile, CompileScript, BeginFunction, Identifier, NameFunction,
         PushConstant, AddConstant, EndFunction, Interpret, Promised!Compile,
         Promised!CompileScript, Promised!BeginFunction, Promised!Identifier,
         Promised!NameFunction, Promised!PushConstant, Promised!AddConstant,
         Promised!EndFunction, Promised!Interpret
<1>3. /\ (OpConstant => Promised!OpConstant) /\ (Globals => Promised!Globals)
      /\ (Calls => Promised!Calls)
  BY NotSweeping, NotSweepingNext, SameParts
     DEF Globals, Calls, OpConstant, OpGetGlobal, OpDefineGlobal, OpGetLocal,
         OpPop, OpCall, OpReturn, Promised!Globals, Promised!Calls,
         Promised!OpConstant, Promised!OpGetGlobal, Promised!OpDefineGlobal,
         Promised!OpGetLocal, Promised!OpPop, Promised!OpCall, Promised!OpReturn
<1>4. Closures => Promised!Closures
  BY NotSweeping, NotSweepingNext, SameParts
     DEF Closures, OpClosure, CaptureOuter, Captured, Capture, CaptureNew,
         OpGetUpvalue, OpCloseUpvalue, Promised!Closures, Promised!OpClosure,
         Promised!CaptureOuter, Promised!Captured, Promised!Capture,
         Promised!CaptureNew, Promised!OpGetUpvalue, Promised!OpCloseUpvalue
<1>5. OpClass => Promised!OpClass
  BY NotSweeping, NotSweepingNext, SameParts DEF OpClass, Promised!OpClass
<1>6. OpMethod => Promised!OpMethod
  BY NotSweeping, NotSweepingNext, SameParts DEF OpMethod, Promised!OpMethod
<1>7. OpInherit => Promised!OpInherit
  BY NotSweeping, NotSweepingNext, SameParts DEF OpInherit, Promised!OpInherit
<1>8. OpCallClass => Promised!OpCallClass
  BY NotSweeping, NotSweepingNext, SameParts DEF OpCallClass, Promised!OpCallClass
<1>9. OpSetProperty => Promised!OpSetProperty
  BY NotSweeping, NotSweepingNext, SameParts DEF OpSetProperty, Promised!OpSetProperty
<1>10. OpGetField => Promised!OpGetField
  BY NotSweeping, NotSweepingNext, SameParts DEF OpGetField, Promised!OpGetField
<1>11. OpBindMethod => Promised!OpBindMethod
  BY NotSweeping, NotSweepingNext, SameParts DEF OpBindMethod, Promised!OpBindMethod
<1>12. OpCallBound => Promised!OpCallBound
  BY NotSweeping, NotSweepingNext, SameParts DEF OpCallBound, Promised!OpCallBound
<1>13. OpInvokeField => Promised!OpInvokeField
  BY NotSweeping, NotSweepingNext, SameParts DEF OpInvokeField, Promised!OpInvokeField
<1>14. CallFieldNames => Promised!CallFieldNames
  BY NotSweeping, NotSweepingNext, SameParts DEF CallFieldNames, Promised!CallFieldNames
<1>15. FieldNamesReturn => Promised!FieldNamesReturn
  BY NotSweeping, NotSweepingNext, SameParts DEF FieldNamesReturn, Promised!FieldNamesReturn
<1>16. Classes => Promised!Classes
  BY <1>5, <1>6, <1>7, <1>8, <1>9, <1>10, <1>11, <1>12, <1>13, <1>14, <1>15
     DEF Classes, Promised!Classes
<1> QED
  BY <1>1, <1>2, <1>3, <1>4, <1>16 DEF Handler, Promised!Handler

(* When the weak table has been cleaned the collection has, in effect,     *)
(* taken place:                                                            *)
LEMMA RemoveWhiteImplements ==
  ASSUME GCInv, RemoveWhite
  PROVE  Promised!CollectGarbage
<1>1. /\ phase = "trace" /\ phase' = "sweep" /\ gray = {} /\ strings' = strings \cap marked
      /\ UNCHANGED <<objVars, rootVars, op, marked, gray>>
  BY DEF RemoveWhite
<1>2. marked = Reachable
  <2>1. marked \ gray = marked
    BY <1>1
  <2>2. Blackened(marked) \subseteq marked
    BY <1>1, <2>1 DEF GCInv, TriColour
  <2> QED
    BY <1>1, <2>2, ReachableIsLeast DEF GCInv, CollectorTypeOK, TriColour, Marking
<1>3. Promised!Reachable = Reachable
  <2>1. SweptEdges = edge /\ Swept(heap) = heap
    BY <1>1, NotSweeping
  <2>2. Promised!Live = Live /\ Promised!Roots = Roots
    BY <2>1 DEF Live, Roots, Elements, Obj, InitString,
         Promised!Live, Promised!Roots, Promised!Elements, Promised!Obj, Promised!InitString
  <2>3. \A S : Promised!Blackened(S) = Blackened(S)
    BY <2>1 DEF Blackened, Targets, Traced,
         Promised!Blackened, Promised!Targets, Promised!Traced
  <2> QED
    BY <2>2, <2>3 DEF Reachable, Promised!Reachable
<1>4. Promised!Keep(Reachable)
  <2>1. /\ Swept(heap) = heap /\ Swept(text) = text /\ SweptEdges = edge
    BY <1>1, NotSweeping
  <2>2. /\ Swept(heap)' = [o \in Obj |-> IF o \in Reachable THEN heap[o] ELSE None]
        /\ Swept(text)' = [o \in Obj |-> IF o \in Reachable THEN text[o] ELSE None]
        /\ SweptEdges' = {e \in edge : e[1] \in Reachable}
    BY <1>1, <1>2 DEF Swept, SweptEdges, objVars
  <2> QED
    BY <2>1, <2>2 DEF Promised!Keep, Obj, Promised!Obj
<1>5. op.at \in Promised!AllocationPoints
  BY <1>1 DEF GCInv, Marking, AllocationPoints, Promised!AllocationPoints
<1> QED
  BY <1>1, <1>2, <1>3, <1>4, <1>5 DEF Promised!CollectGarbage, Promised!rootVars, rootVars

(* what sweep does then changes nothing the handlers could see, *)
LEMMA SweepImplements ==
  ASSUME Sweep
  PROVE  UNCHANGED Promised!vars
<1>1. /\ Swept(heap)' = Swept(heap) /\ Swept(text)' = Swept(text) /\ SweptEdges' = SweptEdges
  BY DEF Sweep, Keep, Swept, SweptEdges
<1> QED
  BY <1>1 DEF Sweep, Promised!vars, Promised!objVars, Promised!rootVars, rootVars

(* nor does marking. *)
LEMMA MarkImplements ==
  ASSUME phase # "sweep", phase' # "sweep", UNCHANGED vars
  PROVE  UNCHANGED Promised!vars
BY NotSweeping, NotSweepingNext
   DEF vars, objVars, rootVars, Promised!vars, Promised!objVars, Promised!rootVars

LEMMA StutterImplements == UNCHANGED CollectorVars => UNCHANGED Promised!vars
BY DEF CollectorVars, gcVars, vars, objVars, rootVars, Swept, SweptEdges,
   Promised!vars, Promised!objVars, Promised!rootVars

(* Taking a collection apart into marking, tracing, cleaning and sweeping  *)
(* shows no handler more than a collection in one step would.              *)
THEOREM CollectorImplements == CollectorSpec => ImplementsHeap
<1>1. GCInv /\ [CollectorNext]_CollectorVars => [Promised!Next]_(Promised!vars)
  <2> SUFFICES ASSUME GCInv, [CollectorNext]_CollectorVars
               PROVE  [Promised!Next]_(Promised!vars)
    OBVIOUS
  <2>1. CASE HandlerStep
    BY <2>1, HandlerStepImplements DEF HandlerStep, gcVars, Promised!Next
  <2>2. CASE MarkRoots \/ Blacken
    BY <2>2, MarkImplements DEF MarkRoots, Blacken
  <2>3. CASE RemoveWhite
    BY <2>3, RemoveWhiteImplements DEF Promised!Next
  <2>4. CASE Sweep
    BY <2>4, SweepImplements
  <2>5. CASE UNCHANGED CollectorVars
    BY <2>5, StutterImplements
  <2> QED
    BY <2>1, <2>2, <2>3, <2>4, <2>5 DEF CollectorNext, Collect
<1> QED
  BY <1>1, CollectorInvariant, PTL DEF CollectorSpec, ImplementsHeap
=============================================================================
