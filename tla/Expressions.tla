----------------------------- MODULE Expressions -----------------------------
(***************************************************************************)
(* A line of the prompt, from its tokens to what it does: the parser of    *)
(* compiler.c (its table of rules, expressions and the statements around   *)
(* them), the chunk it writes, and the loop of vm.c that executes it, one  *)
(* instruction a step.                                                     *)
(*                                                                         *)
(* Names are global variables here; locals and functions are Scopes',      *)
(* methods and collections Heap's.  A number is twice itself, or the       *)
(* arithmetic that made it, left uncomputed.                               *)
(***************************************************************************)
EXTENDS Chunk, FiniteSets

VARIABLES
  source, tree,   \* the tokens of a line, and what they were written for
  status,         \* "read", "run"; "rejected", "failed", "stuck" or "done"
  flow,           \* where its code can get, and how high the stack is there
  ip, stack,      \* of the loop, and the frame of the script
  savedIp,        \* ip in that frame, where errors look for their line
  told,           \* the line that an error told, 0 before
  env             \* the globals, the objects, and what was printed

vars == <<source, tree, status, chunk, flow, ip, stack, savedIp, told, env>>

-----------------------------------------------------------------------------
(* Values: tuples, the first element tells the kind *)

Nil == <<"nil">>
True == <<"true">>
False == <<"false">>
Bool(b) == IF b THEN True ELSE False
Undefined == <<"undefined">>   \* not in the table
Failed == <<"failed">>         \* a runtime error in place of a value
Script == <<"script">>

Numerals == {"0", "0.5", "1", "2", "3"}
Twice(t) == CASE t = "0" -> 0 [] t = "0.5" -> 1 [] t = "1" -> 2 [] t = "2" -> 4 [] t = "3" -> 6
Number(n) == <<"number", 2 * n>>

Arithmetic == {"ADD", "SUBTRACT", "MULTIPLY", "DIVIDE", "MODULUS", "EXPONENT"}
IsNumber(v) == v[1] \in {"number", "NEGATE", "f"} \cup Arithmetic
IsObject(v) == v[1] \in {"string", "array", "instance", "native"}

(* Some number for each computation: where numbers are compared or used as *)
(* subscripts, all that matters is that they are ordered.                  *)
RECURSIVE Magnitude(_)
Magnitude(v) ==
  CASE v[1] = "number" -> v[2]
    [] v[1] = "NEGATE" -> 0 - Magnitude(v[2])
    [] v[1] = "f" -> Magnitude(v[2]) + 1
    [] OTHER -> Magnitude(v[2]) - 3 * Magnitude(v[3])

(* unpackPrimitive: an instance whose this_ is no instance stands for it *)
Unpacked(e, v) ==
  IF v[1] = "instance" /\ e.instances[v[2]].this[1] # "instance"
  THEN e.instances[v[2]].this ELSE v

Falsy(e, v) ==
  \/ v \in {Nil, False}
  \/ v[1] = "instance" /\ e.instances[v[2]].this = False

(* what is concatenated: the parts of a string, or a primitive as text *)
Text(v) == IF v[1] = "string" THEN v[2] ELSE <<v>>

Sum(l, r) ==
  IF IsNumber(l) /\ IsNumber(r) THEN <<"ADD", l, r>>
  ELSE IF /\ "string" \in {l[1], r[1]}
          /\ l[1] = "string" \/ ~IsObject(l)
          /\ r[1] = "string" \/ ~IsObject(r)
       THEN <<"string", Text(l) \o Text(r)>>
       ELSE Failed

(* the instructions with two operands *)
Combined(op, e, a, b) ==
  LET l == Unpacked(e, a)
      r == Unpacked(e, b) IN
  CASE op = "EQUAL" -> Bool(l = r)
    [] op = "ADD" -> Sum(l, r)
    [] op # "EQUAL" /\ op # "ADD" /\ ~(IsNumber(l) /\ IsNumber(r)) -> Failed
    [] op = "GREATER" -> Bool(Magnitude(l) > Magnitude(r))
    [] op = "LESS" -> Bool(Magnitude(l) < Magnitude(r))
    [] OTHER -> <<op, l, r>>

Negated(e, a) == LET v == Unpacked(e, a) IN IF IsNumber(v) THEN <<"NEGATE", v>> ELSE Failed

(* (ptrdiff_t) cuts a fraction off *)
Whole(v) == IF Magnitude(v) >= 0 THEN Magnitude(v) \div 2 ELSE 0 - ((0 - Magnitude(v)) \div 2)

(* the element of an array, counted from 1; 0 when there is none *)
Position(e, a, i) ==
  LET array == Unpacked(e, a)
      index == Unpacked(e, i) IN
  IF /\ IsNumber(index) /\ array[1] = "array"
     /\ Whole(index) >= 0 /\ Whole(index) < Len(e.arrays[array[2]])
  THEN Whole(index) + 1
  ELSE 0

Element(e, a, i) ==
  IF Position(e, a, i) = 0 THEN Failed
  ELSE e.arrays[Unpacked(e, a)[2]][Position(e, a, i)]

WithElement(e, a, i, v) ==
  [e EXCEPT !.arrays[Unpacked(e, a)[2]][Position(e, a, i)] = v]
NewArray(e) == <<"array", Len(e.arrays) + 1>>

(* tryPromote: a primitive with a property asked for becomes an instance of *)
(* its class, which has none of the names here                             *)
HasProperties(v) ==
  IsNumber(v) \/ v \in {True, False} \/ v[1] \in {"string", "array", "instance"}
Field(e, o, name) ==
  IF o[1] = "instance" THEN e.instances[o[2]].fields[name] ELSE Undefined
WithField(e, o, name, v) ==
  IF o[1] = "instance" THEN [e EXCEPT !.instances[o[2]].fields[name] = v] ELSE e

(* callValue: one native function, of one argument, is there to be called *)
Answer(callee, args) ==
  IF callee[1] # "native" \/ Len(args) # 1 THEN Failed
  ELSE IF IsNumber(args[1]) THEN <<"f", args[1]>> ELSE args[1]

(* invoke: a field that is called; no receiver here has methods *)
Invoked(e, receiver, name, args) == Answer(Field(e, receiver, name), args)

-----------------------------------------------------------------------------
(* The parser: at is the place of parser.current.  Two tokens stand on a   *)
(* line of the source.  The functions of compiler.c call each other in     *)
(* turn; here each is the sequence of the steps it takes, and todo is what *)
(* is left of all those that are under way.  places are the offsets that   *)
(* they keep in local variables, the latest last.                          *)

Parser(steps) ==
  [at |-> 1, chunk |-> EmptyChunk, hadError |-> FALSE, panicMode |-> FALSE,
   todo |-> steps, places |-> <<>>]

Token(i) == IF i <= Len(source) THEN source[i] ELSE "eof"
Line(i) == ((IF i <= Len(source) THEN i ELSE Len(source)) + 1) \div 2
Current(p) == Token(p.at)
Previous(p) == Token(p.at - 1)

Do(p, steps) == [p EXCEPT !.todo = steps \o @]
Error(p) == [p EXCEPT !.hadError = TRUE, !.panicMode = TRUE]
ErrorIf(wrong, p) == IF wrong THEN Error(p) ELSE p
Advance(p) == [p EXCEPT !.at = @ + 1]
Consume(p, t) == IF Current(p) = t THEN Advance(p) ELSE Error(p)

(* consumeReplOptional, in the script of a prompt *)
ConsumeOptional(p, t) == IF Current(p) = t THEN Advance(p) ELSE p

Emit(p, bytes) == [p EXCEPT !.chunk = WriteChunk(@, bytes, Line(p.at - 1))]

Keep(p, offset) == [p EXCEPT !.places = Append(@, offset)]
Place(p, n) == p.places[Len(p.places) - n + 1]
Forget(p, n) ==
  LET k == Len(p.places) - n + 1 IN
  [p EXCEPT !.places = SubSeq(@, 1, k - 1) \o SubSeq(@, k + 1, Len(@))]

(* emitJump answers the offset of what patchJump is to fill in *)
EmitJump(p, op) == Keep(Emit(p, <<op, 255, 255>>), Count(p.chunk) + 1)
(* conditional keeps it in 8 bits *)
EmitShortJump(p, op) == Keep(Emit(p, <<op, 255, 255>>), (Count(p.chunk) + 1) % 256)

PatchJump(p, offset) ==
  LET jump == Count(p.chunk) - offset - 2 IN
  ErrorIf(jump > 65535, [p EXCEPT !.chunk.code[offset + 1] = (jump \div 256) % 256,
                                  !.chunk.code[offset + 2] = jump % 256])

EmitLoop(p, start) ==
  LET offset == Count(p.chunk) + 1 - start + 2 IN
  Emit(ErrorIf(offset > 65535, p), <<"LOOP", (offset \div 256) % 256, offset % 256>>)

(* makeConstant: the new constant is the last *)
MakeConstant(p, v) ==
  ErrorIf(Len(p.chunk.constants) > 255, [p EXCEPT !.chunk = AddConstant(@, v)])
LastConstant(p) == IF Len(p.chunk.constants) > 256 THEN 0 ELSE Len(p.chunk.constants) - 1
EmitLast(p) == Emit(p, <<"CONSTANT", LastConstant(p)>>)

(* a number that rounds to 0, 1 or 2 is an instruction of its own *)
EmitConstant(p, v) ==
  LET rounded == (v[2] + 1) \div 2 IN
  IF v[1] = "number" /\ rounded <= 2
  THEN Emit(p, <<<<"ZERO", "ONE", "TWO">>[rounded + 1]>>)
  ELSE EmitLast(MakeConstant(p, v))

(* identifierConstant: a name is one constant, however often it is used *)
Places(p, name) == {i \in DOMAIN p.chunk.constants : p.chunk.constants[i] = <<"name", name>>}
WithName(p, name) == IF Places(p, name) # {} THEN p ELSE MakeConstant(p, <<"name", name>>)
NameConstant(p) == (CHOOSE i \in Places(p, Previous(p)) : TRUE) - 1

-----------------------------------------------------------------------------
(* The table of rules *)

Names == {"a", "b", "o", "p", "n", "z", "f", "x", "u"}
Literals == {"nil", "true", "false"}
Strings == {"s", "t"}    \* the token of a string, quotes and all

Assignment == 1
Container == 2
Conditional == 3
CallIndex == 12

Precedence(t) ==
  CASE t = "[" -> Container
    [] t = "?" -> Conditional
    [] t = "or" -> 4
    [] t = "and" -> 5
    [] t \in {"==", "!="} -> 6
    [] t \in {"<", ">", "<=", ">="} -> 7
    [] t \in {"+", "-"} -> 8
    [] t \in {"*", "/", "%"} -> 9
    [] t = "**" -> 10
    [] t \in {"(", "."} -> CallIndex
    [] OTHER -> 0
Unary == 11

BinaryTokens == {"==", "!=", "<", ">", "<=", ">=", "+", "-", "*", "/", "%", "**"}
PrefixTokens == {"(", "[", "-", "!"} \cup Names \cup Literals \cup Strings \cup Numerals

(* what the compound assignments compute *)
CompoundTokens == {"+=", "-=", "*=", "/=", "%="}
Computes(t) ==
  CASE t \in {"+", "+="} -> "ADD" [] t \in {"-", "-="} -> "SUBTRACT"
    [] t \in {"*", "*="} -> "MULTIPLY" [] t \in {"/", "/="} -> "DIVIDE"
    [] t \in {"%", "%="} -> "MODULUS" [] t = "**" -> "EXPONENT"
    [] t \in {"==", "!="} -> "EQUAL"
    [] t \in {">", "<="} -> "GREATER" [] t \in {"<", ">="} -> "LESS"

-----------------------------------------------------------------------------
(* What the functions of the parser do, once the token that chose them is  *)
(* parser.previous                                                         *)

Bytes(bytes) == <<<<"emit">> \o bytes>>
ParsePrecedence(level) == <<<<"parse", level>>>>
Expression == <<<<"expression">>>>

(* an assignment, a compound assignment, or neither, to the place whose    *)
(* value get reads and set writes; again reads it and keeps the place      *)
AssignOr(p, canAssign, get, again, set) ==
  IF canAssign /\ Current(p) = "=" THEN <<<<"advance">>>> \o Expression \o set
  ELSE IF canAssign /\ Current(p) \in CompoundTokens
  THEN <<<<"advance">>>> \o again \o Expression \o Bytes(<<Computes(Current(p))>>) \o set
  ELSE get

(* namedVariable, of a global *)
NamedVariable(p, canAssign) ==
  LET arg == NameConstant(p)
      get == Bytes(<<"GET_GLOBAL", arg>>) IN
  AssignOr(p, canAssign, get, get, Bytes(<<"SET_GLOBAL", arg>>))

Property(p, canAssign) ==
  LET name == NameConstant(p)
      get == Bytes(<<"GET_PROPERTY", name>>) IN
  AssignOr(p, canAssign,
           IF Current(p) = "(" THEN <<<<"advance">>, <<"list", ")", <<"INVOKE", name>>>>>> ELSE get,
           Bytes(<<"DUP">>) \o get,
           Bytes(<<"SET_PROPERTY", name>>))

ElementOf(p, canAssign) ==
  AssignOr(p, canAssign, Bytes(<<"GET_INDEX">>), Bytes(<<"DUP", "GET_INDEX">>),
           Bytes(<<"SET_INDEX">>))

UnaryOperator(operator) ==
  ParsePrecedence(Unary) \o Bytes(IF operator = "!" THEN <<"NOT">> ELSE <<"NEGATE">>)

(* mutant: every operator groups to the right *)
BinaryToTheRight(operator) ==
  ParsePrecedence(Precedence(operator)) \o
  Bytes(IF operator \in {"!=", ">=", "<="} THEN <<Computes(operator), "NOT">>
        ELSE <<Computes(operator)>>)

Binary(operator) ==
  ParsePrecedence(Precedence(operator) + (IF operator = "**" THEN 0 ELSE 1)) \o
  Bytes(IF operator \in {"!=", ">=", "<="} THEN <<Computes(operator), "NOT">>
        ELSE <<Computes(operator)>>)

And ==
  <<<<"jump", "JUMP_IF_FALSE">>>> \o Bytes(<<"POP">>) \o ParsePrecedence(Precedence("and")) \o
  <<<<"patch", 1>>>>

Or ==
  <<<<"jump", "JUMP_IF_FALSE">>, <<"jump", "JUMP">>, <<"patch", 2>>>> \o Bytes(<<"POP">>) \o
  ParsePrecedence(Precedence("or")) \o <<<<"patch", 1>>>>

(* mutant: the condition stays under the second branch *)
ConditionalKept ==
  <<<<"short jump", "JUMP_IF_FALSE">>>> \o Bytes(<<"POP">>) \o ParsePrecedence(Assignment) \o
  <<<<"short jump", "JUMP">>, <<"consume", ":">>, <<"patch", 2>>>> \o
  ParsePrecedence(Conditional) \o <<<<"patch", 1>>>>

ConditionalOperator ==
  <<<<"short jump", "JUMP_IF_FALSE">>>> \o Bytes(<<"POP">>) \o ParsePrecedence(Assignment) \o
  <<<<"short jump", "JUMP">>, <<"consume", ":">>, <<"patch", 2>>>> \o Bytes(<<"POP">>) \o
  ParsePrecedence(Conditional) \o <<<<"patch", 1>>>>

PrefixRule(t, canAssign) ==
  CASE t = "(" -> Expression \o <<<<"consume", ")">>>>
    [] t = "[" -> <<<<"list", "]", <<"ARRAY">>>>>>
    [] t \in {"-", "!"} -> UnaryOperator(t)
    [] t \in Names -> <<<<"name">>, <<"variable", canAssign>>>>
    [] t \in Numerals -> <<<<"constant", <<"number", Twice(t)>>>>>>
    [] t \in Strings -> <<<<"constant", <<"string", <<<<t>>>>>>>>>>
    [] t = "nil" -> Bytes(<<"NIL">>)
    [] t = "true" -> Bytes(<<"TRUE">>)
    [] t = "false" -> Bytes(<<"FALSE">>)

InfixRule(t, canAssign) ==
  CASE t = "(" -> <<<<"list", ")", <<"CALL">>>>>>
    [] t = "[" -> Expression \o <<<<"consume", "]">>, <<"element", canAssign>>>>
    [] t = "." -> <<<<"identifier">>, <<"name">>, <<"property", canAssign>>>>
    [] t = "?" -> ConditionalOperator
    [] t = "and" -> And
    [] t = "or" -> Or
    [] t \in BinaryTokens -> Binary(t)

(* parsePrecedence: the prefix rule, then operators of the level and above *)
Parse(p, level) ==
  IF Previous(p) \notin PrefixTokens THEN Error(p)
  ELSE Do(p, PrefixRule(Previous(p), level <= Assignment) \o <<<<"operators", level>>>>)

Operators(p, level) ==
  IF level <= Precedence(Current(p))
  THEN Do(Advance(p), InfixRule(Current(p), level <= Assignment) \o <<<<"operators", level>>>>)
  ELSE IF level <= Assignment /\ Current(p) \in CompoundTokens \cup {"="}
  THEN Error(Advance(p)) ELSE p

(* argumentList and the elements of array, n of them so far; the count     *)
(* follows the bytes of the instruction                                    *)
Operand(close, n) == IF close = "]" THEN <<(n \div 256) % 256, n % 256>> ELSE <<n % 256>>
Most(close) == IF close = "]" THEN 65535 ELSE 255

List(p, close, op) ==
  IF Current(p) = close THEN Emit(Advance(p), op \o Operand(close, 0))
  ELSE Do(p, Expression \o <<<<"more", close, op, 1>>>>)

More(p, close, op, n) ==
  IF Current(p) = ","
  THEN Do(ErrorIf(n > Most(close), Advance(p)), Expression \o <<<<"more", close, op, n + 1>>>>)
  ELSE Do(ErrorIf(n > Most(close), p), <<<<"consume", close>>>> \o Bytes(op \o Operand(close, n)))

-----------------------------------------------------------------------------
(* Statements, after the token they begin with; those that are not here    *)
(* are in Scopes and Exceptions                                            *)

(* printStatement, and expressionStatement at the prompt *)
Printing == Expression \o <<<<"optional", ";">>>> \o Bytes(<<"PRINT">>)

VarDeclaration == <<<<"identifier">>, <<"name">>, <<"initializer">>>>
Initializer(p) ==
  LET define == <<<<"optional", ";">>>> \o Bytes(<<"DEFINE_GLOBAL", NameConstant(p)>>) IN
  IF Current(p) = "=" THEN Do(Advance(p), Expression \o define)
  ELSE Do(p, Bytes(<<"NIL">>) \o define)

Condition == <<<<"consume", "(">>>> \o Expression \o <<<<"consume", ")">>>>

IfStatement ==
  Condition \o <<<<"jump", "JUMP_IF_FALSE">>>> \o Bytes(<<"POP">>) \o
  <<<<"statement">>, <<"jump", "JUMP">>, <<"patch", 2>>>> \o Bytes(<<"POP">>) \o
  <<<<"else">>, <<"patch", 1>>>>

WhileStatement ==
  <<<<"here">>>> \o Condition \o <<<<"jump", "JUMP_IF_FALSE">>>> \o Bytes(<<"POP">>) \o
  <<<<"statement">>, <<"loop", 2>>, <<"patch", 1>>>> \o Bytes(<<"POP">>)

(* forStatement, of a loop that declares no variable: its start, the jump  *)
(* out of it when it has a condition, the jump to its body and the place   *)
(* of the increment when it has one                                        *)
ForStatement == <<<<"consume", "(">>, <<"for initializer">>, <<"here">>, <<"for condition">>>>

ForInitializer(p) == IF Current(p) = ";" THEN Advance(p) ELSE Do(p, Printing)

ForCondition(p) ==
  IF Current(p) = ";" THEN Do(Advance(p), <<<<"for body", 1>>>>)
  ELSE Do(p, Expression \o <<<<"consume", ";">>, <<"jump", "JUMP_IF_FALSE">>>> \o Bytes(<<"POP">>)
             \o <<<<"for body", 2>>, <<"patch", 1>>>> \o Bytes(<<"POP">>))

ForBody(p, start) ==
  IF Current(p) = ")" THEN Do(Advance(p), <<<<"statement">>, <<"loop", start>>>>)
  ELSE Do(p, <<<<"jump", "JUMP">>, <<"here">>>> \o Expression \o Bytes(<<"POP">>) \o
             <<<<"consume", ")">>, <<"loop", start + 2>>, <<"patch", 2>>,
               <<"statement">>, <<"loop", 1>>>>)

Statement(p) ==
  CASE Current(p) = "{" -> Do(Advance(p), <<<<"block">>>>)
    [] Current(p) = "print" -> Do(Advance(p), Printing)
    [] Current(p) = "if" -> Do(Advance(p), IfStatement)
    [] Current(p) = "while" -> Do(Advance(p), WhileStatement)
    [] Current(p) = "for" -> Do(Advance(p), ForStatement)
    [] OTHER -> Do(p, Printing)

(* block, of statements that declare nothing *)
Block(p) ==
  IF Current(p) \in {"}", "eof"} THEN Consume(p, "}")
  ELSE Do(p, <<<<"declaration">>, <<"block">>>>)

Declaration(p) ==
  IF Current(p) = "var" THEN Do(Advance(p), VarDeclaration) ELSE Do(p, <<<<"statement">>>>)

StatementTokens == {"var", "print", "if", "while", "for"}
Synchronize(p) ==
  IF Current(p) \in StatementTokens \cup {"eof"} \/ Previous(p) = ";"
  THEN [p EXCEPT !.panicMode = FALSE]
  ELSE Do(Advance(p), <<<<"synchronize">>>>)

(* compile, with the return that endCompiler adds *)
Compile(p) ==
  IF Current(p) = "eof" THEN Emit(Advance(p), <<"NIL", "RETURN">>)
  ELSE Do(p, <<<<"declaration">>, <<"synchronize">>, <<"compile">>>>)

-----------------------------------------------------------------------------
Step(step, p) ==
  CASE step[1] = "advance" -> Advance(p)
    [] step[1] = "consume" -> Consume(p, step[2])
    [] step[1] = "optional" -> ConsumeOptional(p, step[2])
    [] step[1] = "emit" -> Emit(p, Tail(step))
    [] step[1] = "jump" -> EmitJump(p, step[2])
    [] step[1] = "short jump" -> EmitShortJump(p, step[2])
    [] step[1] = "here" -> Keep(p, Count(p.chunk))
    [] step[1] = "patch" -> PatchJump(Forget(p, step[2]), Place(p, step[2]))
    [] step[1] = "loop" -> EmitLoop(Forget(p, step[2]), Place(p, step[2]))
    [] step[1] = "constant" -> EmitConstant(p, step[2])
    [] step[1] = "identifier" -> IF Current(p) \in Names THEN Advance(p) ELSE Error(p)
    [] step[1] = "name" -> WithName(p, Previous(p))
    [] step[1] = "variable" -> Do(p, NamedVariable(p, step[2]))
    [] step[1] = "property" -> Do(p, Property(p, step[2]))
    [] step[1] = "element" -> Do(p, ElementOf(p, step[2]))
    [] step[1] = "expression" ->
         Do(p, ParsePrecedence(IF Current(p) = "[" THEN Container ELSE Assignment))
    [] step[1] = "parse" -> Parse(Advance(p), step[2])
    [] step[1] = "operators" -> Operators(p, step[2])
    [] step[1] = "list" -> List(p, step[2], step[3])
    [] step[1] = "more" -> More(p, step[2], step[3], step[4])
    [] step[1] = "initializer" -> Initializer(p)
    [] step[1] = "else" -> IF Current(p) = "else" THEN Do(Advance(p), <<<<"statement">>>>) ELSE p
    [] step[1] = "for initializer" -> ForInitializer(p)
    [] step[1] = "for condition" -> ForCondition(p)
    [] step[1] = "for body" -> ForBody(p, step[2])
    [] step[1] = "statement" -> Statement(p)
    [] step[1] = "block" -> Block(p)
    [] step[1] = "declaration" -> Declaration(p)
    [] step[1] = "synchronize" -> IF p.panicMode THEN Synchronize(p) ELSE p
    [] step[1] = "compile" -> Compile(p)

RECURSIVE Taken(_)
Taken(p) ==
  IF p.todo = <<>> THEN p ELSE Taken(Step(Head(p.todo), [p EXCEPT !.todo = Tail(@)]))
Compiled == Taken(Parser(<<<<"compile">>>>))

-----------------------------------------------------------------------------
(* What each instruction takes from the stack and leaves there, and where  *)
(* it goes on: all the ways through a chunk                                *)

Byte(c, at, k) == c.code[at + 1 + k]
Short(c, at) == 256 * Byte(c, at, 1) + Byte(c, at, 2)

Width(op) ==
  CASE op \in {"CONSTANT", "GET_GLOBAL", "SET_GLOBAL", "DEFINE_GLOBAL",
               "GET_PROPERTY", "SET_PROPERTY", "CALL"} -> 2
    [] op \in {"INVOKE", "ARRAY", "JUMP", "JUMP_IF_FALSE", "LOOP"} -> 3
    [] OTHER -> 1

Takes(c, at) ==
  LET op == Byte(c, at, 0) IN
  CASE op \in {"POP", "PRINT", "DEFINE_GLOBAL", "DUP", "SET_GLOBAL", "NOT", "NEGATE",
               "GET_PROPERTY", "JUMP_IF_FALSE"} -> 1
    [] op \in {"SET_PROPERTY", "GET_INDEX", "EQUAL", "GREATER", "LESS", "RETURN"}
              \cup Arithmetic -> 2
    [] op = "SET_INDEX" -> 3
    [] op = "ARRAY" -> Short(c, at)
    [] op = "CALL" -> Byte(c, at, 1) + 1
    [] op = "INVOKE" -> Byte(c, at, 2) + 1
    [] OTHER -> 0

Leaves(op) ==
  CASE op = "DUP" -> 2
    [] op \in {"POP", "PRINT", "DEFINE_GLOBAL", "JUMP", "LOOP", "RETURN"} -> 0
    [] OTHER -> 1

Targets(c, at) ==
  LET op == Byte(c, at, 0)
      next == at + Width(op) IN
  CASE op = "JUMP" -> {next + Short(c, at)}
    [] op = "JUMP_IF_FALSE" -> {next, next + Short(c, at)}
    [] op = "LOOP" -> {next - Short(c, at)}
    [] op = "RETURN" -> {}
    [] OTHER -> {next}

(* pairs of a place in the code and the height of the stack there; a height *)
(* the instruction there cannot do with leads nowhere                      *)
MaxHeight == 20
RECURSIVE Reached(_, _)
Reached(c, new) ==
  LET Follows(point) ==
        LET op == Byte(c, point[1], 0) IN
        IF point[2] \notin Takes(c, point[1])..MaxHeight THEN {}
        ELSE {<<to, point[2] - Takes(c, point[1]) + Leaves(op)>> : to \in Targets(c, point[1])}
      all == new \cup UNION {Follows(point) : point \in new} IN
  IF all = new THEN new ELSE Reached(c, all)

-----------------------------------------------------------------------------
(* interpret, and the instructions of run() *)

At(op) == status = "run" /\ Byte(chunk, ip, 0) = op
AtOneOf(ops) == status = "run" /\ Byte(chunk, ip, 0) \in ops
Constant == chunk.constants[Byte(chunk, ip, 1) + 1]
Name == Constant[2]
Peek(n) == stack[Len(stack) - n]
Without(n) == SubSeq(stack, 1, Len(stack) - n)
Args(n) == SubSeq(stack, Len(stack) - n + 1, Len(stack))

Interpret ==
  /\ status = "read"
  /\ LET p == Compiled IN
     IF p.hadError THEN status' = "rejected" /\ UNCHANGED <<chunk, flow, stack>>
     ELSE /\ status' = "run" /\ chunk' = p.chunk
          /\ flow' = Reached(p.chunk, {<<0, 1>>})
          /\ stack' = <<Script>>
  /\ UNCHANGED <<source, tree, ip, savedIp, told, env>>

Behind == ip + Width(Byte(chunk, ip, 0))

(* runtimeError, for a frame that is at place: before the first byte,      *)
(* getLine looks on for ever.  Otherwise the stack is reset.               *)
Fail(place) ==
  /\ LET line == GetLine(chunk, place - 1) IN
     IF line = NoLine THEN status' = "stuck" /\ UNCHANGED <<told, stack>>
     ELSE status' = "failed" /\ told' = line /\ stack' = <<>>
  /\ UNCHANGED <<ip, savedIp, env>>

Proceed(newStack) ==
  /\ stack' = newStack
  /\ ip' = Behind
  /\ UNCHANGED <<status, told>>

(* v takes the place of the n values on top *)
Replace(n, v) == Proceed(Append(Without(n), v)) /\ UNCHANGED <<savedIp, env>>
Push(v) == Replace(0, v)
Answering(n, v) == IF v = Failed THEN Fail(Behind) ELSE Replace(n, v)

OpConstant ==
  \/ At("CONSTANT") /\ Push(Constant)
  \/ At("ZERO") /\ Push(Number(0))
  \/ At("ONE") /\ Push(Number(1))
  \/ At("TWO") /\ Push(Number(2))
  \/ At("NIL") /\ Push(Nil)
  \/ At("TRUE") /\ Push(True)
  \/ At("FALSE") /\ Push(False)

OpPop == At("POP") /\ Proceed(Without(1)) /\ UNCHANGED <<savedIp, env>>
OpDup == At("DUP") /\ Push(Peek(0))

OpGetGlobal ==
  /\ At("GET_GLOBAL")
  /\ Answering(0, IF env.globals[Name] = Undefined THEN Failed ELSE env.globals[Name])

OpDefineGlobal ==
  /\ At("DEFINE_GLOBAL")
  /\ Proceed(Without(1))
  /\ env' = [env EXCEPT !.globals[Name] = Peek(0)]
  /\ UNCHANGED savedIp

OpSetGlobal ==
  /\ At("SET_GLOBAL")
  /\ IF env.globals[Name] = Undefined THEN Fail(Behind)
     ELSE /\ Proceed(stack)
          /\ env' = [env EXCEPT !.globals[Name] = Peek(0)]
          /\ UNCHANGED savedIp

(* no field: bindMethod finds no method either, and the frame was not told ip *)
OpGetProperty ==
  /\ At("GET_PROPERTY")
  /\ LET value == Field(env, Peek(0), Name) IN
     IF ~HasProperties(Peek(0)) THEN Fail(Behind)
     ELSE IF value = Undefined THEN Fail(savedIp)
     ELSE Replace(1, value)

OpSetProperty ==
  /\ At("SET_PROPERTY")
  /\ IF ~HasProperties(Peek(1)) THEN Fail(Behind)
     ELSE /\ Proceed(Append(Without(2), Peek(0)))
          /\ env' = WithField(env, Peek(1), Name, Peek(0))
          /\ UNCHANGED savedIp

OpGetIndex == At("GET_INDEX") /\ Answering(2, Element(env, Peek(1), Peek(0)))

OpSetIndex ==
  /\ At("SET_INDEX")
  /\ IF Position(env, Peek(2), Peek(1)) = 0 THEN Fail(Behind)
     ELSE /\ Proceed(Append(Without(3), Peek(0)))
          /\ env' = WithElement(env, Peek(2), Peek(1), Peek(0))
          /\ UNCHANGED savedIp

OpBinary ==
  \E op \in {"EQUAL", "GREATER", "LESS"} \cup Arithmetic :
    At(op) /\ Answering(2, Combined(op, env, Peek(1), Peek(0)))

OpNot == At("NOT") /\ Replace(1, Bool(Falsy(env, Peek(0))))
OpNegate == At("NEGATE") /\ Answering(1, Negated(env, Peek(0)))

OpJump ==
  /\ AtOneOf({"JUMP", "LOOP"})
  /\ ip' \in Targets(chunk, ip)
  /\ UNCHANGED <<status, stack, savedIp, told, env>>

OpJumpIfFalse ==
  /\ At("JUMP_IF_FALSE")
  /\ ip' = ip + 3 + (IF Falsy(env, Peek(0)) THEN Short(chunk, ip) ELSE 0)
  /\ UNCHANGED <<status, stack, savedIp, told, env>>

OpPrint ==
  /\ At("PRINT")
  /\ Proceed(Without(1))
  /\ env' = [env EXCEPT !.printed = Append(@, Peek(0))]
  /\ UNCHANGED savedIp

OpArray ==
  /\ At("ARRAY")
  /\ LET size == Short(chunk, ip) IN
     /\ Proceed(Append(Without(size), NewArray(env)))
     /\ env' = [env EXCEPT !.arrays = Append(@, Args(size))]
  /\ UNCHANGED savedIp

(* a call of the native leaves ip in the frame *)
Called(n, answer) ==
  IF answer = Failed THEN Fail(Behind)
  ELSE Proceed(Append(Without(n + 1), answer)) /\ savedIp' = Behind /\ UNCHANGED env

OpCall ==
  /\ At("CALL")
  /\ LET n == Byte(chunk, ip, 1) IN Called(n, Answer(Peek(n), Args(n)))

OpInvoke ==
  /\ At("INVOKE")
  /\ LET n == Byte(chunk, ip, 2) IN Called(n, Invoked(env, Peek(n), Name, Args(n)))

(* of the script: its result and the script itself are popped *)
OpReturn ==
  /\ At("RETURN")
  /\ status' = "done" /\ stack' = Without(2)
  /\ UNCHANGED <<ip, savedIp, told, env>>

Execute ==
  \/ OpConstant \/ OpPop \/ OpDup
  \/ OpGetGlobal \/ OpDefineGlobal \/ OpSetGlobal \/ OpGetProperty \/ OpSetProperty
  \/ OpGetIndex \/ OpSetIndex \/ OpBinary \/ OpNot \/ OpNegate
  \/ OpJump \/ OpJumpIfFalse \/ OpPrint \/ OpArray \/ OpCall \/ OpInvoke \/ OpReturn

(* a, o, p, n, z and f are defined when the line is read: a number, an     *)
(* instance with a number and one with f as its x, a boxed number and a    *)
(* boxed false, and the native                                             *)
NoField == [name \in Names |-> Undefined]
InitialEnv ==
  [globals |-> [name \in Names |->
                  CASE name = "a" -> Number(3) [] name = "o" -> <<"instance", 1>>
                    [] name = "p" -> <<"instance", 2>> [] name = "n" -> <<"instance", 3>>
                    [] name = "z" -> <<"instance", 4>> [] name = "f" -> <<"native">>
                    [] OTHER -> Undefined],
   instances |-> <<[this |-> <<"instance", 1>>, fields |-> [NoField EXCEPT !["x"] = Number(1)]],
                   [this |-> <<"instance", 2>>, fields |-> [NoField EXCEPT !["x"] = <<"native">>]],
                   [this |-> Number(1), fields |-> NoField],
                   [this |-> False, fields |-> NoField]>>,
   arrays |-> <<>>, printed |-> <<>>]

(* the line is there; read() of the prompt has nothing more to do *)
Start(line, tokens) ==
  /\ source = tokens /\ tree = line
  /\ status = "read"
  /\ chunk = EmptyChunk /\ flow = {} /\ ip = 0 /\ stack = <<>> /\ savedIp = 0 /\ told = 0
  /\ env = InitialEnv

Next == Interpret \/ (Execute /\ UNCHANGED <<source, tree, chunk, flow>>)
=============================================================================
