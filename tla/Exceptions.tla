----------------------------- MODULE Exceptions -----------------------------
(***************************************************************************)
(* Exceptions, runtime errors and the lines of the prompt: the frames,     *)
(* their handlers and the stack of vm.c, under the code that compiler.c    *)
(* emits for try, catch, finally, throw, blocks and loops.                 *)
(*                                                                         *)
(* The program is not fixed: a step begins or ends a construct, calls,     *)
(* returns or throws, and the ip of a frame is the path of the constructs  *)
(* it stands in.  An address in the code, such as that of a handler, is    *)
(* the path of the construct it belongs to.  A local that a closure        *)
(* captures is captured right where it is declared, and every local holds  *)
(* an object, which is truthy.                                             *)
(*                                                                         *)
(* "stray" is where the run ends up when it goes on with a frame or an     *)
(* address that is none; what it does there is not followed.               *)
(***************************************************************************)
EXTENDS Integers, SequencesExt

CONSTANTS
  Class,        \* the classes of exceptions, with one instance each
  Leaving,      \* whether break and continue may leave a try statement
  Kinds,        \* the try statements: with catch, a name for it, finally
  MaxFrames,    \* FRAMES_MAX
  MaxHandlers,  \* MAX_HANDLER_FRAMES
  MaxStack,     \* bound on the values that statements push on the stack
  MaxLeft,      \* bound on the values left on the stack when a line begins
  MaxPath,      \* bound on the constructs open in all frames
  MaxLocals     \* bound on the locals of a block

ASSUME ExceptionsAssumption ==
  /\ MaxFrames \in Nat \ {0} /\ MaxHandlers \in Nat \ {0}
  /\ Kinds \subseteq [catch : BOOLEAN, named : BOOLEAN, final : BOOLEAN]
  /\ \A k \in Kinds : (k.catch \/ k.final) /\ (k.named => k.catch)
  /\ Leaving \in BOOLEAN
  /\ MaxStack \in Nat /\ MaxLeft \in Nat /\ MaxPath \in Nat /\ MaxLocals \in Nat

VARIABLES
  stack,     \* vm.stack up to vm.stackTop
  frames,    \* vm.frames up to vm.frameCount
  open,      \* the places in the stack of vm.openUpvalues
  status,    \* "prompt", "running" or "stray"
  shifted,   \* history: the frames whose values were not where their code
             \* counts on them, and 0 when that was in any frame of the stack
  misled     \* history: whether a finally block has ended by a value that
             \* is not its own flag

vars == <<stack, frames, open, status, shifted, misled>>

(* Values are told apart by what the properties follow them for *)
Callee == [callee |-> TRUE]
Result == [result |-> TRUE]
Plain == [plain |-> TRUE]              \* thrown, and not an instance
Instance(c) == [instance |-> c]
Flag(b) == [flag |-> b]                \* pushed for a finally block
LocalAt(k, i) == [local |-> <<k, i>>]  \* the i-th local of the k-th construct

Thrown == {Plain} \cup {Instance(c) : c \in Class}
Falsey(v) == v = Flag(FALSE)

(* Constructs.  locals says of each local whether a closure captured it.   *)
Block == [kind |-> "block", locals |-> <<>>]
Loop == [kind |-> "loop", locals |-> <<>>]
Try(c, kind) ==
  [kind |-> "try", locals |-> <<>>, phase |-> "body", value |-> Plain,
   class |-> c, named |-> kind.named, final |-> kind.final]

(* A frame that is a line's own, or left in place by a line that ended in  *)
(* it (history).                                                           *)
Frame(slots, path, line) ==
  [slots |-> slots, path |-> path, handlers |-> <<>>, line |-> line, left |-> FALSE]
Left(fs) == [j \in 1..Len(fs) |-> [fs[j] EXCEPT !.left = TRUE]]

F == frames[Len(frames)]
Top == Last(F.path)
In(phase) == F.path # <<>> /\ Top.kind = "try" /\ Top.phase = phase

(* a statement may begin or end here: not at the entry of a catch, nor in  *)
(* front of the last OP_POP of a finally block                             *)
Running == status = "running" /\ ~In("landed") /\ ~In("leaving")
InTry(phase) == Running /\ In(phase)
InBlock == Running /\ F.path # <<>> /\ Top.kind = "block"
Goto(path) == frames' = [frames EXCEPT ![Len(frames)].path = path]
Deeper ==
  LET n[j \in 0..Len(frames)] == IF j = 0 THEN 0 ELSE n[j - 1] + Len(frames[j].path) IN
  n[Len(frames)] < MaxPath
Room(n) == Len(stack) + n <= MaxStack

(* the slots that the compiler counts in front of the code in this path *)
Counted(path) ==
  LET n[k \in 0..Len(path)] == IF k = 0 THEN 1 ELSE n[k - 1] + Len(path[k].locals) IN
  n[Len(path)]

(* how many values a frame holds *)
Height(j) == (IF j = Len(frames) THEN Len(stack) + 1 ELSE frames[j + 1].slots)
             - frames[j].slots

(* What a construct is to hold on the stack: its locals, or for a finally  *)
(* block the flag and below it the exception that is on its way.           *)
Holds(path, k) ==
  LET c == path[k] IN
  IF c.kind # "try" THEN [i \in 1..Len(c.locals) |-> LocalAt(k, i)]
  ELSE CASE c.phase = "landed" -> <<c.value>>
         [] c.phase = "catch" /\ c.named -> <<c.value>>
         [] c.phase = "finally" -> <<Flag(FALSE)>>
         [] c.phase = "raised" -> <<c.value, Flag(TRUE)>>
         [] OTHER -> <<>>
Content(path) ==
  LET held[k \in 0..Len(path)] == IF k = 0 THEN <<Callee>> ELSE held[k - 1] \o Holds(path, k) IN
  held[Len(path)]

(* the try statements around the ip that have pushed a handler and not yet *)
(* popped it                                                               *)
Handling(c) == c.kind = "try" /\ c.phase \in {"body", "landed", "raised"}
Installed(path) == {k \in 1..Len(path) : Handling(path[k])}

-----------------------------------------------------------------------------
(* Errors and lines *)

(* mutant: upvalues of the callee's own slots stay open *)
ClosingLate(n) == {i \in open : i <= n}

(* closeUpvalues: what stays open when the slots from n on are closed *)
Closing(n) == {i \in open : i < n}

(* resetStack.  Its loop over the handlers runs to the frameCount that has *)
(* just become 0.                                                          *)
ResetStack ==
  /\ stack' = <<>>
  /\ frames' = <<>>
  /\ open' = {}

(* the state of a run that is not followed any further *)
Stray ==
  /\ stack' = <<>> /\ frames' = <<>> /\ open' = {}
  /\ status' = "stray"

(* runtimeError in an instruction that then leaves run() *)
RuntimeError ==
  /\ Running
  /\ ResetStack
  /\ status' = "prompt"

(* a line of repl(): interpretCompiled does not look at what callFunction  *)
(* answers, and frames may be there from a line before                     *)
NewLine ==
  /\ status = "prompt" /\ Room(1) /\ Len(stack) <= MaxLeft
  /\ IF Len(frames) = MaxFrames THEN Stray
     ELSE /\ stack' = Append(stack, Callee)
          /\ frames' = Append(frames, Frame(Len(stack) + 1, <<>>, TRUE))
          /\ status' = "running"
          /\ UNCHANGED open

-----------------------------------------------------------------------------
(* Calls *)

(* a call statement of a function without parameters *)
Call ==
  /\ Running /\ Room(1) /\ Deeper
  /\ IF Len(frames) = MaxFrames THEN ResetStack /\ status' = "prompt"
     ELSE /\ stack' = Append(stack, Callee)
          /\ frames' = Append(frames, Frame(Len(stack) + 1, <<Block>>, FALSE))
          /\ UNCHANGED <<open, status>>

(* OP_RETURN, and OP_POP of the statement that called.  A line that is not *)
(* the first frame returns into the frame that was left there.             *)
Return ==
  /\ Running
  /\ F.line => F.path = <<>>
  /\ open' = Closing(F.slots)
  /\ frames' = Front(frames)
  /\ IF Len(frames) = 1
     THEN stack' = Front(stack) /\ status' = "prompt"
     ELSE /\ stack' = SubSeq(stack, 1, F.slots - 1) \o (IF F.line THEN <<Result>> ELSE <<>>)
          /\ UNCHANGED status

-----------------------------------------------------------------------------
(* Blocks and loops *)

(* the code of endScope and of a break for the locals it leaves: each is    *)
(* popped, by OP_CLOSE_UPVALUE when it is captured                         *)
Drop(captured) ==
  LET n == Len(captured) IN
  /\ stack' = SubSeq(stack, 1, Len(stack) - n)
  /\ open' = {u \in open : \A i \in 1..n : captured[i] => u < Len(stack) - n + i}

BeginBlock ==
  /\ Running /\ Deeper
  /\ Goto(Append(F.path, Block))
  /\ UNCHANGED <<stack, open, status>>

(* varDeclaration; captureUpvalue goes by the slot that the compiler gave  *)
DeclareLocal(captured) ==
  /\ InBlock /\ Len(Top.locals) < MaxLocals /\ Room(1)
  /\ stack' = Append(stack, LocalAt(Len(F.path), Len(Top.locals) + 1))
  /\ open' = IF captured THEN open \cup {F.slots + Counted(F.path)} ELSE open
  /\ Goto([F.path EXCEPT ![Len(F.path)].locals = Append(@, captured)])
  /\ UNCHANGED status

(* the body of a function ends with its return *)
EndBlock ==
  /\ InBlock /\ (F.line \/ Len(F.path) > 1)
  /\ Drop(Top.locals)
  /\ Goto(Front(F.path))
  /\ UNCHANGED status

BeginLoop ==
  /\ Running /\ Deeper
  /\ Goto(Append(F.path, Loop))
  /\ UNCHANGED <<stack, open, status>>

EndLoop ==
  /\ Running /\ F.path # <<>> /\ Top.kind = "loop"
  /\ Goto(Front(F.path))
  /\ UNCHANGED <<stack, open, status>>

(* breakStatement leaves the innermost loop and continueStatement goes     *)
(* round it; both pop locals and neither pops a handler                    *)
LeaveLoop(again) ==
  /\ Running
  /\ \E k \in 1..Len(F.path) :
       /\ F.path[k].kind = "loop"
       /\ \A i \in (k + 1)..Len(F.path) :
            F.path[i].kind # "loop" /\ (Handling(F.path[i]) => Leaving)
       /\ Drop(FlattenSeq([i \in 1..(Len(F.path) - k) |-> F.path[k + i].locals]))
       /\ Goto(SubSeq(F.path, 1, IF again THEN k ELSE k - 1))
  /\ UNCHANGED status

-----------------------------------------------------------------------------
(* Throwing *)

(* the handlers, by frame and number, that take an exception: by its class *)
(* or because they have a finally block                                    *)
Takes(h, v) == v = Instance(h.class) \/ h.final
Takers(fs, v) ==
  {at \in (1..Len(fs)) \X (1..MaxHandlers) :
     at[2] <= Len(fs[at[1]].handlers) /\ Takes(fs[at[1]].handlers[at[2]], v)}
Innermost(S) == CHOOSE x \in S : \A y \in S : y[1] < x[1] \/ (y[1] = x[1] /\ y[2] <= x[2])

(* mutant: a handler that is jumped to is taken off *)
InstalledAtPopped(f, n) == SubSeq(f.handlers, 1, n - 1)

(* the handlers left when number n of frame f is jumped to: with it        *)
InstalledAt(f, n) == SubSeq(f.handlers, 1, n)

Landing(fs, j, n, phase, v) ==
  LET h == fs[j].handlers[n] IN
  Append(SubSeq(fs, 1, j - 1),
         [fs[j] EXCEPT
            !.handlers = InstalledAt(fs[j], n),
            !.path = Append(Front(h.path), [Last(h.path) EXCEPT !.phase = phase, !.value = v])])

(* propagateException in the frames fs with v on top of the stack st *)
Propagate(fs, v, st) ==
  IF v \notin {Instance(c) : c \in Class}
  THEN stack' = st /\ frames' = Left(fs) /\ status' = "prompt" /\ UNCHANGED open
  ELSE IF Takers(fs, v) = {}
  THEN stack' = st /\ frames' = <<>> /\ status' = "prompt" /\ UNCHANGED open
  ELSE LET t == Innermost(Takers(fs, v))
           h == fs[t[1]].handlers[t[2]] IN
       IF v = Instance(h.class) /\ ~h.catch THEN Stray
       ELSE IF v = Instance(h.class)
       THEN /\ stack' = st
            /\ frames' = Landing(fs, t[1], t[2], "landed", v)
            /\ open' = Closing(fs[t[1]].slots)
            /\ UNCHANGED status
       ELSE /\ stack' = Append(st, Flag(TRUE))
            /\ frames' = Landing(fs, t[1], t[2], "raised", v)
            /\ UNCHANGED <<open, status>>

(* throwStatement and OP_THROW *)
Throw(v) ==
  /\ Running /\ Room(1)
  /\ Propagate(frames, v, Append(stack, v))

-----------------------------------------------------------------------------
(* Try statements *)

(* OP_PUSH_EXCEPTION_HANDLER.  Without catch the operands of the class and *)
(* of the handler stay as emitted, and the class is whatever the constant  *)
(* 0xFF is, perhaps none.  pushExceptionHandler may empty the frames, and  *)
(* run() goes on with the one that it has in a local.                      *)
BeginTry(c, kind) ==
  /\ Running /\ Deeper
  /\ LET t == Try(c, kind) IN
     \/ /\ Len(F.handlers) < MaxHandlers
        /\ frames' = [frames EXCEPT
             ![Len(frames)].handlers =
               Append(@, [class |-> c, catch |-> kind.catch, final |-> kind.final,
                          path |-> Append(F.path, t)]),
             ![Len(frames)].path = Append(@, t)]
        /\ UNCHANGED <<stack, open, status>>
     \/ /\ Len(F.handlers) = MaxHandlers
        /\ Stray
     \/ ~kind.catch /\ Stray

(* mutant: only a finally block that an exception enters has its flag *)
CalmFlagless(st) == st

(* the flag of a finally block that no exception enters, on the stack st *)
Calm(st) == Append(st, Flag(FALSE))

(* from the end of the try or the catch to the finally block, if any *)
AfterTry(handlers, st) ==
  IF Top.final
  THEN /\ stack' = Calm(st)
       /\ frames' = [frames EXCEPT
            ![Len(frames)].handlers = handlers,
            ![Len(frames)].path[Len(F.path)] =
              [@ EXCEPT !.phase = "finally", !.locals = <<>>]]
  ELSE /\ stack' = st
       /\ frames' = [frames EXCEPT ![Len(frames)].handlers = handlers,
                                   ![Len(frames)].path = Front(@)]

(* The end of the statement under try.  The place of the jump over the     *)
(* catch is kept in eight bits: behind the first 255 bytes of the code of  *)
(* a function another place is patched, and the jump goes astray.          *)
EndTry ==
  /\ InTry("body") /\ Room(1)
  /\ \/ AfterTry(Front(F.handlers), stack) /\ UNCHANGED <<open, status>>
     \/ Stray

(* mutant: the slot counted for the name is the one in front of it *)
NamedSlotBelow(f) == f.slots + Counted(f.path) - 1

(* the slot of the name that a catch gives its exception: the next counted *)
NamedSlot(f) == f.slots + Counted(f.path)

(* the start of a catch: OP_SET_LOCAL of its name, OP_POP_EXCEPTION_HANDLER *)
EnterCatch(captured) ==
  /\ status = "running" /\ In("landed")
  /\ captured => Top.named
  /\ frames' = [frames EXCEPT
       ![Len(frames)].handlers = Front(@),
       ![Len(frames)].path[Len(F.path)] =
         [@ EXCEPT !.phase = "catch", !.locals = IF Top.named THEN <<captured>> ELSE <<>>]]
  /\ stack' = IF Top.named THEN [stack EXCEPT ![NamedSlot(F)] = Last(stack)] ELSE stack
  /\ open' = IF captured THEN open \cup {NamedSlot(F)} ELSE open
  /\ UNCHANGED status

(* endScope at the end of the catch *)
EndCatch ==
  /\ InTry("catch") /\ Room(1)
  /\ LET n == Len(Top.locals) IN
     /\ open' = IF n = 1 /\ Top.locals[1] THEN Closing(Len(stack)) ELSE open
     /\ AfterTry(F.handlers, SubSeq(stack, 1, Len(stack) - n))
  /\ UNCHANGED status

(* The end of a finally block goes by what is on top of the stack.  When   *)
(* that is false, the statement ends.                                      *)
EndFinally ==
  /\ InTry("finally") \/ InTry("raised")
  /\ Falsey(Last(stack))
  /\ stack' = Front(stack)
  /\ Goto(Front(F.path))
  /\ UNCHANGED <<open, status>>

(* Otherwise OP_POP and OP_PROPAGATE_EXCEPTION, whose handlerCount-- wraps *)
(* around when no handler is left.                                         *)
Reraise ==
  /\ InTry("finally") \/ InTry("raised")
  /\ ~Falsey(Last(stack))
  /\ IF F.handlers = <<>>
     THEN Stray
     ELSE Propagate([frames EXCEPT
                       ![Len(frames)].handlers = Front(@),
                       ![Len(frames)].path[Len(F.path)] = [@ EXCEPT !.phase = "leaving"]],
                    stack[Len(stack) - 1], Front(stack))

(* a line left this frame in OP_PROPAGATE_EXCEPTION, and another returned   *)
Resume ==
  /\ status = "running" /\ In("leaving")
  /\ stack' = Front(stack)
  /\ Goto(Front(F.path))
  /\ UNCHANGED <<open, status>>

-----------------------------------------------------------------------------
Init ==
  /\ stack = <<>> /\ frames = <<>> /\ open = {}
  /\ status = "prompt"
  /\ shifted = {} /\ misled = FALSE

Statements ==
  \/ BeginBlock \/ EndBlock \/ BeginLoop \/ EndLoop
  \/ \E captured \in BOOLEAN : DeclareLocal(captured)
  \/ \E again \in BOOLEAN : LeaveLoop(again)
TryStatements ==
  \/ \E c \in Class, kind \in Kinds : BeginTry(c, kind)
  \/ \E captured \in BOOLEAN : EnterCatch(captured)
  \/ EndTry \/ EndCatch \/ EndFinally \/ Reraise \/ Resume
  \/ \E v \in Thrown : Throw(v)
Calls == NewLine \/ Call \/ Return \/ RuntimeError

(* What a frame holds is not what its code counts on when an exception     *)
(* came with locals of the code that threw it, or a catch does not name    *)
(* it; and the compiler does not count the flag of a finally block and the *)
(* exception below it, so that the slots of the names declared in a        *)
(* finally block are not theirs.                                           *)
Shifts(j) ==
  LET path == frames[j].path IN
  \/ Height(j) > Len(Content(path))
  \/ \E k, i \in 1..Len(path) : /\ path[k].kind = "try" /\ path[k].phase \in {"finally", "raised"}
                                /\ k < i /\ path[i].locals # <<>>

(* An exception that was caught has left the flag of another finally block, *)
(* or itself, on top.                                                      *)
Misreads ==
  \/ EndFinally /\ In("raised")
  \/ Reraise /\ In("finally")

Next ==
  /\ Statements \/ TryStatements \/ Calls
  /\ LET kept == stack' # <<>> \/ frames' # <<>> \/ open' # {} IN
     /\ shifted' = {j \in 0..Len(frames') :
                      \/ j \in shifted /\ kept
                      \/ \E i \in 1..Len(frames') : i \notin shifted /\ j \in {0, i} /\ Shifts(i)'}
     /\ misled' = (kept /\ (misled \/ Misreads))

Spec == Init /\ [][Next]_vars

-----------------------------------------------------------------------------
(* Properties *)

(* Every try statement around the code that runs has its handler on the    *)
(* handlers of the frame, in this order and with its own class, whatever   *)
(* was thrown, caught or raised again before: propagateException never     *)
(* cuts a handler off that code still relies on.  Not so in a frame that a *)
(* line left, but in any frame, and without other handlers beside, as long *)
(* as every finally block ended by its own flag.                           *)
HandlersInstalled ==
  \A j \in {j \in 1..Len(frames) : misled => ~frames[j].left} :
    LET needed == Installed(frames[j].path)
        has == frames[j].handlers IN
    \E at \in [needed -> 1..Len(has)] :
      /\ \A i, k \in needed : i < k => at[i] < at[k]
      /\ \A k \in needed : has[at[k]].class = frames[j].path[k].class
      /\ ~misled => \A n \in 1..Len(has) : \E k \in needed : at[k] = n

(* A frame holds at least the values that its code counts on, so that no   *)
(* pop of its code reaches a value of the frame below, as long as every    *)
(* finally block ended by its own flag.                                    *)
HeightCovers ==
  ~misled => \A j \in 1..Len(frames) : Height(j) >= Len(Content(frames[j].path))

(* Until then, and as long as a frame is not shifted, each local is in its *)
(* slot, and a finally block finds its flag, and below it the very         *)
(* exception that it interrupted, where OP_PROPAGATE_EXCEPTION looks for   *)
(* it.  That no finally block takes another value for its flag unless a    *)
(* frame was shifted is part of it.                                        *)
ContentInPlace ==
  IF misled THEN 0 \in shifted
  ELSE \A j \in (1..Len(frames)) \ shifted :
         SubSeq(stack, frames[j].slots, frames[j].slots + Height(j) - 1)
           = Content(frames[j].path)

(* In a catch with a name, however deep the exception was thrown, and in   *)
(* whatever the catch does, the name is the exception that was caught, and *)
(* that is an instance of the class of the catch; in shifted frames, too,  *)
(* as long as every finally block ended by its own flag.                   *)
NameIsCaught ==
  ~misled => \A j \in 1..Len(frames) : \A k \in 1..Len(frames[j].path) :
      LET f == frames[j]
          c == f.path[k] IN
      c.kind = "try" /\ c.named /\ c.phase = "catch" =>
        /\ stack[f.slots + Counted(SubSeq(f.path, 1, k - 1))] = c.value
        /\ c.value = Instance(c.class)

(* An open upvalue is in the stack, across throws, lines and errors, as    *)
(* long as no frame was shifted.                                           *)
OpenInStack == 0 \notin shifted => \A u \in open : u <= Len(stack)

(* "Too many nested exception handlers in one function": the handlers of a *)
(* frame are no more than the try statements that its code is nested in.   *)
HandlersNest ==
  \A j \in 1..Len(frames) :
    Len(frames[j].handlers) <=
      Len(SelectSeq(frames[j].path, LAMBDA c : c.kind = "try"))
=============================================================================
