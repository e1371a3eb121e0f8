------------------------------- MODULE Scopes -------------------------------
(***************************************************************************)
(* Scopes, locals, upvalues, loops and switches of compiler.c.  The parser *)
(* is modelled between two statements: an action begins or ends a          *)
(* construct, declares or reads a variable, or compiles a break or a       *)
(* continue, and the next token may be any that is accepted; a program     *)
(* that error() rejects is not followed further.                           *)
(*                                                                         *)
(* Beside the compiler's own records there is the stack that the emitted   *)
(* code really builds: slots[f] is what the frame of function f holds when *)
(* the run arrives at this point of the code.  The compiler never sees it; *)
(* the properties compare the two.  A statement after a break or continue  *)
(* in the same block is taken as reached, as it is in "if (c) break;".     *)
(*                                                                         *)
(* Expressions are left out except for lambdas and for reading variables,  *)
(* and a lambda does not stand in the header of a for statement.  So are   *)
(* classes, whose methods are functions with a named first slot, and try   *)
(* statements.                                                             *)
(***************************************************************************)
EXTENDS Integers, Sequences, FiniteSets

CONSTANTS
  Name,          \* the names of variables
  Unnamed,       \* the name of the first slot of a frame and of no variable
  MaxLocals,     \* bound on localCount, in place of UINT8_COUNT
  MaxFunctions,  \* bound on the chain of compilers
  MaxNesting,    \* bound on the constructs open at one time
  MaxJumps,      \* bound on the jumps out of open constructs
  Garbage        \* depths that a local never written to may show

ASSUME ScopesAssumption ==
  /\ Unnamed \notin Name
  /\ MaxLocals \in Nat \ {0} /\ MaxFunctions \in Nat /\ MaxNesting \in Nat
  /\ MaxJumps \in Nat
  /\ Garbage \subseteq Nat /\ Garbage # {}

VARIABLES
  compilers,     \* the chain of compilers, current last
  syntax,        \* the constructs that are open, innermost last
  slots,         \* what the frame of each function holds at this point
  lost           \* captured variables whose slot was dropped by OP_POP

vars == <<compilers, syntax, slots, lost>>

Elements(s) == {s[i] : i \in 1..Len(s)}
Largest(S) == IF S = {} THEN 0 ELSE CHOOSE x \in S : \A y \in S : y <= x

Fn == Len(compilers)
Current == compilers[Fn]
Stack == slots[Fn]
Top == syntax[Len(syntax)]

(* A variable is a name and the place among the open constructs of the one *)
(* that declares it.  A slot holds a variable, perhaps captured.           *)
Variable(n, k) == [name |-> n, scope |-> k]
Holding(v) == [var |-> v, captured |-> FALSE]
Vars(s) == [i \in 1..Len(s) |-> s[i].var]
Callee == Variable(Unnamed, 0)

Local(n, d) == [name |-> n, depth |-> d, captured |-> FALSE]

(* initCompiler, and the scope function() and lambda() begin *)
NewCompiler(depth) ==
  [locals |-> <<Local(Unnamed, 0)>>, localCount |-> 1, scopeDepth |-> depth,
   loopType |-> "none", loopStart |-> 0, loopDepth |-> 0, upvalues |-> <<>>]

(* A construct: what it declares, the loop it surrounds (as the C locals of *)
(* forStatement and whileStatement keep it), and where its jumps start.     *)
Construct(kind, names) ==
  [kind |-> kind, names |-> names, fn |-> Fn, entry |-> Vars(Stack),
   surrounding |-> [loopType |-> "none", loopStart |-> 0, loopDepth |-> 0],
   breaks |-> {}, continues |-> {}]

Open(c) == syntax' = Append(syntax, c)
Close(n) == syntax' = SubSeq(syntax, 1, Len(syntax) - n)
Room(n) == Len(syntax) + n <= MaxNesting
MayJump == Cardinality(UNION {{k} \X (syntax[k].breaks \cup syntax[k].continues) :
                                k \in 1..Len(syntax)}) < MaxJumps

-----------------------------------------------------------------------------
(* Locals *)

(* mutant: the count is raised before and not after the entry is chosen *)
AddLocalBehind(c, local) ==
  [c EXCEPT !.locals = SubSeq(@, 1, c.localCount) \o <<Local(Unnamed, 0), local>>,
            !.localCount = @ + 1]

(* addLocal; an entry of the array that is not in use keeps its contents *)
AddLocal(c, local) ==
  [c EXCEPT
     !.locals = [i \in 1..(IF Len(@) > c.localCount THEN Len(@) ELSE c.localCount + 1) |->
                   IF i = c.localCount + 1 THEN local ELSE @[i]],
     !.localCount = @ + 1]

(* declareVariable finds no variable of this name in this scope *)
Declarable(n) ==
  LET c == Current
      outside == Largest({i \in 1..c.localCount : c.locals[i].depth # -1
                                               /\ c.locals[i].depth < c.scopeDepth}) IN
  \A i \in (outside + 1)..c.localCount : c.locals[i].name # n

(* the locals that the loops of endScope and breakStatement leave *)
Kept(c, d) == Largest({i \in 1..c.localCount : c.locals[i].depth <= d})

(* The code these loops emit: OP_CLOSE_UPVALUE for a local marked as       *)
(* captured, OP_POP for any other.  Dropping(k) is the stack after it, and *)
(* Losing(k) the captured variables that an OP_POP took.                   *)
Dropping(k) == SubSeq(Stack, 1, Len(Stack) - (Current.localCount - k))
Losing(k) ==
  {Stack[Len(Stack) - j].var : j \in
     {j \in 0..(Current.localCount - k - 1) :
        /\ j < Len(Stack) /\ Stack[Len(Stack) - j].captured
        /\ ~Current.locals[Current.localCount - j].captured}}

(* endScope *)
EndScope(c) ==
  [c EXCEPT !.scopeDepth = @ - 1, !.localCount = Kept(c, c.scopeDepth - 1)]

(* a declaration, not only a statement, may stand here *)
MayDeclare == Top.kind \notin {"while", "body", "switch"}

-----------------------------------------------------------------------------
(* Variables *)

LocalIndex(c, n) == Largest({i \in 1..c.localCount : c.locals[i].name = n})

(* the innermost function with a local of that name, or 0 *)
Holder(n) == Largest({f \in 1..Fn : LocalIndex(compilers[f], n) # 0})

(* mutant: upvalues are told apart by their index alone *)
SameUpvalueIndex(u, index, isLocal) == u.index = index

SameUpvalue(u, index, isLocal) == u.index = index /\ u.isLocal = isLocal

(* addUpvalue: the upvalues of a compiler, and which of them is the one *)
AddUpvalue(us, index, isLocal) ==
  LET same == {i \in 1..Len(us) : SameUpvalue(us[i], index, isLocal)} IN
  IF same # {} THEN [upvalues |-> us, at |-> CHOOSE i \in same : TRUE]
  ELSE [upvalues |-> Append(us, [index |-> index, isLocal |-> isLocal]),
        at |-> Len(us) + 1]

(* resolveUpvalue: from the function that holds the local to the current   *)
Resolved(n) ==
  LET h == Holder(n)
      added[f \in (h + 1)..Fn] ==
        IF f = h + 1
        THEN AddUpvalue(compilers[f].upvalues, LocalIndex(compilers[h], n), TRUE)
        ELSE AddUpvalue(compilers[f].upvalues, added[f - 1].at, FALSE) IN
  added

(* mutant: the local is not marked *)
MarkNothing(c, i) == c

MarkCaptured(c, i) == [c EXCEPT !.locals[i].captured = TRUE]

(* the chain of compilers after namedVariable has resolved n *)
AfterRead(n) ==
  [f \in 1..Fn |->
     IF Holder(n) = 0 \/ Holder(n) = Fn \/ f < Holder(n) THEN compilers[f]
     ELSE IF f = Holder(n) THEN MarkCaptured(compilers[f], LocalIndex(compilers[f], n))
     ELSE [compilers[f] EXCEPT !.upvalues = Resolved(n)[f].upvalues]]

(* not in its own initializer *)
Readable(n) ==
  Holder(n) # 0 =>
    compilers[Holder(n)].locals[LocalIndex(compilers[Holder(n)], n)].depth # -1

(* namedVariable *)
ReadVariable(n) ==
  /\ Readable(n)
  /\ compilers' = AfterRead(n)
  /\ UNCHANGED <<syntax, slots, lost>>

(* varDeclaration of a local without a lambda in its initializer *)
DeclareVariable(n) ==
  /\ MayDeclare /\ Current.scopeDepth > 0
  /\ Declarable(n) /\ Current.localCount < MaxLocals
  /\ compilers' = [compilers EXCEPT ![Fn] = AddLocal(@, Local(n, @.scopeDepth))]
  /\ slots' = [slots EXCEPT ![Fn] = Append(@, Holding(Variable(n, Len(syntax))))]
  /\ syntax' = [syntax EXCEPT ![Len(syntax)].names = @ \cup {n}]
  /\ UNCHANGED lost

-----------------------------------------------------------------------------
(* Blocks *)

BeginBlock ==
  /\ Room(1)
  /\ compilers' = [compilers EXCEPT ![Fn].scopeDepth = @ + 1]
  /\ Open(Construct("block", {}))
  /\ UNCHANGED <<slots, lost>>

EndBlock ==
  /\ Top.kind = "block"
  /\ compilers' = [compilers EXCEPT ![Fn] = EndScope(@)]
  /\ slots' = [slots EXCEPT ![Fn] = Dropping(EndScope(Current).localCount)]
  /\ lost' = lost \cup Losing(EndScope(Current).localCount)
  /\ Close(1)

-----------------------------------------------------------------------------
(* Functions *)

(* initCompiler to the end of parameterList.  The slot that OP_CLOSURE is  *)
(* going to fill is taken as filled: nothing else is emitted for that      *)
(* frame before.  At scope depth 0, where nothing is declared, all three   *)
(* kinds are as a lambda.                                                  *)
BeginFunction(kind, n, parameters) ==
  /\ Room(1) /\ Fn < MaxFunctions
  /\ LET inner == Len(syntax) + 1
         declares == kind # "lambda"
         local == Local(n, IF kind = "initializer" THEN -1 ELSE Current.scopeDepth)
         compiler == IF parameters = {} THEN NewCompiler(1)
                     ELSE AddLocal(NewCompiler(1), Local(CHOOSE p \in parameters : TRUE, 1))
         frame == IF parameters = {} THEN <<Holding(Callee)>>
                  ELSE <<Holding(Callee),
                         Holding(Variable(CHOOSE p \in parameters : TRUE, inner))>> IN
     /\ declares => /\ MayDeclare /\ Current.scopeDepth > 0
                    /\ Declarable(n) /\ Current.localCount < MaxLocals
     /\ compilers' = Append(IF declares THEN [compilers EXCEPT ![Fn] = AddLocal(@, local)]
                            ELSE compilers, compiler)
     /\ slots' = Append(IF declares
                        THEN [slots EXCEPT ![Fn] = Append(@, Holding(Variable(n, inner - 1)))]
                        ELSE slots, frame)
     /\ syntax' = Append(IF declares THEN [syntax EXCEPT ![inner - 1].names = @ \cup {n}]
                         ELSE syntax,
                         [Construct(kind, parameters) EXCEPT !.fn = Fn + 1])
  /\ UNCHANGED lost

(* endCompiler, then OP_CLOSURE with its pairs in the code of the function *)
(* around, then markInitialized when the lambda was an initializer         *)
EndFunction ==
  /\ Top.kind \in {"function", "initializer", "lambda"}
  /\ compilers' = [f \in 1..(Fn - 1) |->
       IF f = Fn - 1 /\ Top.kind = "initializer"
       THEN [compilers[f] EXCEPT !.locals[compilers[f].localCount].depth =
                                    compilers[f].scopeDepth]
       ELSE compilers[f]]
  /\ slots' = [f \in 1..(Fn - 1) |-> [i \in 1..Len(slots[f]) |->
       IF f = Fn - 1 /\ [index |-> i, isLocal |-> TRUE] \in Elements(Current.upvalues)
       THEN [slots[f][i] EXCEPT !.captured = TRUE]
       ELSE slots[f][i]]]
  /\ Close(1)
  /\ UNCHANGED lost

-----------------------------------------------------------------------------
(* Loops *)

Surrounding(c) ==
  [loopType |-> c.loopType, loopStart |-> c.loopStart, loopDepth |-> c.loopDepth]

(* the place among the constructs stands for the address of the loop       *)
EnterLoop(c, k) ==
  [c EXCEPT !.loopType = "loop", !.loopStart = k, !.loopDepth = c.scopeDepth]

(* mutant: the depth of the loop around is not restored *)
LeaveLoopDeep(c, s) == [c EXCEPT !.loopType = s.loopType, !.loopStart = s.loopStart]

LeaveLoop(c, s) ==
  [c EXCEPT !.loopType = s.loopType, !.loopStart = s.loopStart, !.loopDepth = s.loopDepth]

(* whileStatement *)
BeginWhile ==
  /\ Room(1)
  /\ compilers' = [compilers EXCEPT ![Fn] = EnterLoop(@, Len(syntax) + 1)]
  /\ Open([Construct("while", {}) EXCEPT !.surrounding = Surrounding(Current)])
  /\ UNCHANGED <<slots, lost>>

EndWhile ==
  /\ Top.kind = "while"
  /\ compilers' = [compilers EXCEPT ![Fn] = LeaveLoop(@, Top.surrounding)]
  /\ Close(1)
  /\ UNCHANGED <<slots, lost>>

(* forStatement: the scope of the loop variable around the loop, and when  *)
(* there is one, a copy of it in a scope of its own around the body        *)
BeginFor(names) ==
  /\ Room(2) /\ Current.localCount + 2 * (IF names = {} THEN 0 ELSE 1) <= MaxLocals
  /\ LET k == Len(syntax) + 1
         d == Current.scopeDepth + 1
         declare(c, depth) == IF names = {} THEN c
                              ELSE AddLocal(c, Local(CHOOSE n \in names : TRUE, depth))
         hold(s, scope) ==
           IF names = {} THEN s
           ELSE Append(s, Holding(Variable(CHOOSE n \in names : TRUE, scope)))
         loop == EnterLoop(declare([Current EXCEPT !.scopeDepth = d], d), k)
         body == IF names = {} THEN loop
                 ELSE declare([loop EXCEPT !.scopeDepth = d + 1], d + 1) IN
     /\ compilers' = [compilers EXCEPT ![Fn] = body]
     /\ slots' = [slots EXCEPT ![Fn] = hold(hold(@, k), k + 1)]
     /\ syntax' = syntax \o
          <<[Construct("for", names) EXCEPT
               !.surrounding = Surrounding(Current), !.entry = Vars(hold(Stack, k))],
            [Construct("body", names) EXCEPT !.entry = Vars(hold(Stack, k))]>>
  /\ UNCHANGED lost

(* the scope of the copy ends before the loop, that of the variable after  *)
EndFor ==
  /\ Top.kind = "body"
  /\ LET body == IF Top.names = {} THEN Current ELSE EndScope(Current)
         after == EndScope(LeaveLoop(body, syntax[Len(syntax) - 1].surrounding)) IN
     /\ compilers' = [compilers EXCEPT ![Fn] = after]
     /\ slots' = [slots EXCEPT ![Fn] = Dropping(after.localCount)]
     /\ lost' = lost \cup Losing(after.localCount)
  /\ Close(2)

Loops == {k \in 1..Len(syntax) : syntax[k].kind \in {"while", "for"}}
Switches == {k \in 1..Len(syntax) : syntax[k].kind = "switch"}

(* breakStatement: currentBreakLocations is the list of the innermost loop *)
(* or switch, of whatever function                                         *)
Break ==
  LET k == Largest(Loops \cup Switches)
      kept == Kept(Current, Current.loopDepth) IN
  /\ (Current.loopType # "none" \/ k # 0) /\ MayJump
  /\ syntax' = [syntax EXCEPT ![k].breaks =
                  @ \cup {[fn |-> Fn, stack |-> Vars(Dropping(kept))]}]
  /\ lost' = lost \cup Losing(kept)
  /\ UNCHANGED <<compilers, slots>>

(* continueStatement *)
Continue ==
  LET kept == Kept(Current, Current.loopDepth) IN
  /\ Current.loopType = "loop" /\ MayJump
  /\ syntax' = [syntax EXCEPT ![Largest(Loops)].continues =
                  @ \cup {[start |-> Current.loopStart, stack |-> Vars(Dropping(kept))]}]
  /\ lost' = lost \cup Losing(kept)
  /\ UNCHANGED <<compilers, slots>>

-----------------------------------------------------------------------------
(* Switches *)

(* switchStatement to its first case: the slot is counted and its entry in *)
(* the array of locals left as it is                                       *)
BeginSwitch ==
  /\ Room(1) /\ Current.localCount < MaxLocals
  /\ LET value == Variable(Unnamed, Len(syntax) + 1) IN
     /\ \E d \in Garbage :
          LET c == IF Len(Current.locals) > Current.localCount
                   THEN [Current EXCEPT !.localCount = @ + 1]
                   ELSE AddLocal(Current, Local(Unnamed, d)) IN
          compilers' = [compilers EXCEPT ![Fn] = [c EXCEPT !.loopType = "none"]]
     /\ slots' = [slots EXCEPT ![Fn] = Append(@, Holding(value))]
     /\ Open([Construct("switch", {}) EXCEPT
                !.surrounding = Surrounding(Current), !.entry = Append(@, value)])
  /\ UNCHANGED lost

(* another case or the default: the one before falls through to it *)
NextCase ==
  /\ Top.kind = "switch" /\ MayJump
  /\ syntax' = [syntax EXCEPT ![Len(syntax)].breaks =
                  @ \cup {[fn |-> Fn, stack |-> Vars(Stack)]}]
  /\ UNCHANGED <<compilers, slots, lost>>

EndSwitch ==
  /\ Top.kind = "switch"
  /\ compilers' = [compilers EXCEPT ![Fn].localCount = @ - 1,
                                    ![Fn].loopType = Top.surrounding.loopType]
  /\ slots' = [slots EXCEPT ![Fn] = SubSeq(@, 1, Len(@) - 1)]
  /\ Close(1)
  /\ UNCHANGED lost

-----------------------------------------------------------------------------
Init ==
  /\ compilers = <<NewCompiler(0)>>
  /\ slots = <<<<Holding(Callee)>>>>
  /\ syntax = <<[kind |-> "script", names |-> {}, fn |-> 1, entry |-> <<Callee>>,
                 surrounding |-> Surrounding(NewCompiler(0)),
                 breaks |-> {}, continues |-> {}]>>
  /\ lost = {}

Parameters == {{}} \cup {{n} : n \in Name}

Blocks == BeginBlock \/ EndBlock \/ \E n \in Name : DeclareVariable(n) \/ ReadVariable(n)
Functions == \/ \E p \in Parameters : BeginFunction("lambda", Unnamed, p)
             \/ \E kind \in {"function", "initializer"}, n \in Name :
                  BeginFunction(kind, n, {})
             \/ EndFunction
LoopStatements == \/ BeginWhile \/ EndWhile
                  \/ \E names \in Parameters : BeginFor(names)
                  \/ EndFor \/ Break \/ Continue
SwitchStatements == BeginSwitch \/ NextCase \/ EndSwitch

Next == Blocks \/ Functions \/ LoopStatements \/ SwitchStatements

Spec == Init /\ [][Next]_vars

(* programs without switch statements *)
LoopNext == Blocks \/ Functions \/ LoopStatements

LoopSpec == Init /\ [][LoopNext]_vars

-----------------------------------------------------------------------------
(* Properties *)

(* The index of a local is its slot: what resolveLocal answers, and what   *)
(* OP_GET_LOCAL then reads, is the variable of that name.                  *)
LocalsAreSlots ==
  \A f \in 1..Fn :
    /\ Len(slots[f]) = compilers[f].localCount
    /\ \A i \in 1..Len(slots[f]) : slots[f][i].var.name = compilers[f].locals[i].name

(* A name means the innermost variable of that name around it, through the *)
(* slots of its own function or the chain of upvalues that the closures    *)
(* are going to be made with, and is global when there is none.            *)
Declarer(n) == Largest({k \in 1..Len(syntax) : n \in syntax[k].names})
Reached(n) ==
  LET after == AfterRead(n)
      frame(f, i) == IF i \in 1..Len(slots[f]) THEN slots[f][i].var ELSE Callee
      through[f \in 1..Fn] ==
        [i \in 1..Len(after[f].upvalues) |->
           LET u == after[f].upvalues[i] IN
           IF u.isLocal THEN frame(f - 1, u.index) ELSE through[f - 1][u.index]] IN
  IF Holder(n) = Fn THEN frame(Fn, LocalIndex(Current, n))
  ELSE through[Fn][Resolved(n)[Fn].at]
ReadsInnermost ==
  \A n \in Name : Readable(n) =>
    IF Declarer(n) = 0 THEN Holder(n) = 0
    ELSE Holder(n) # 0 /\ Reached(n) = Variable(n, Declarer(n))

(* A loop goes round with the stack it started with: at the end of its     *)
(* body, at every continue, and after it at every break of its function.   *)
JumpsLand ==
  /\ \A k \in Loops :
       /\ \A b \in syntax[k].breaks : b.fn = syntax[k].fn => b.stack = syntax[k].entry
       /\ \A c \in syntax[k].continues : c.start = k /\ c.stack = syntax[k].entry
  /\ Top.kind = "while" => Vars(Stack) = Top.entry

(* A captured variable leaves the stack by OP_CLOSE_UPVALUE only: no open  *)
(* upvalue is left behind for another local to take its place.             *)
NoneLost == lost = {}

(* "Reserve a stack space for the switch helper position that is used to   *)
(* save the switched expression result": it is there to the end of the     *)
(* switch.                                                                 *)
SwitchReserved ==
  \A k \in Switches :
    LET f == syntax[k].fn
        i == Len(syntax[k].entry) IN
    /\ compilers[f].localCount >= i
    /\ Len(slots[f]) >= i /\ slots[f][i].var = syntax[k].entry[i]
=============================================================================
