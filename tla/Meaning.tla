------------------------------- MODULE Meaning -------------------------------
(***************************************************************************)
(* What a line of Expressions should do: trees of expressions and          *)
(* statements, how they are written as tokens with no more parentheses     *)
(* than they need, and what they mean, without a parser, code or a stack.  *)
(***************************************************************************)
EXTENDS Expressions

CONSTANT IndexLevel   \* how tightly a subscript binds where a tree is written down

(* Trees are tuples, the first element tells the kind:                     *)
(*   literal t, variable x, assign x e, compound x op e,                   *)
(*   binary op l r, and l r, or l r, choose c l r, unary op e,             *)
(*   array es, index a i, put a i e, get o, set o e, update o op e,        *)
(*   call f es, invoke o es                                                *)
(* and as statements: show e, print e, var x e, if c s t, when c s,        *)
(* while c s, for i c n s, then s t, block s                               *)
NoTree == <<"none">>
Kind(t) == t[1]
Atom == 13

(* how tightly a tree holds together *)
Level(t) ==
  CASE Kind(t) \in {"assign", "compound", "put", "set", "update"} -> Assignment
    [] Kind(t) = "choose" -> Conditional
    [] Kind(t) = "or" -> Precedence("or")
    [] Kind(t) = "and" -> Precedence("and")
    [] Kind(t) = "binary" -> Precedence(t[2])
    [] Kind(t) = "unary" -> Unary
    [] Kind(t) = "index" -> IndexLevel
    [] Kind(t) \in {"get", "call", "invoke"} -> CallIndex
    [] OTHER -> Atom

RECURSIVE Written(_)
(* in parentheses where it holds together less than level *)
Within(t, level) ==
  IF Level(t) < level THEN <<"(">> \o Written(t) \o <<")">> ELSE Written(t)

RECURSIVE Listed(_)
Listed(ts) ==
  CASE ts = <<>> -> <<>>
    [] Len(ts) = 1 -> Written(ts[1])
    [] OTHER -> Written(ts[1]) \o <<",">> \o Listed(Tail(ts))

(* what is assigned to: an expression that begins with [ does not assign *)
Target(t, level) ==
  IF Within(t, level)[1] = "[" THEN <<"(">> \o Written(t) \o <<")">> ELSE Within(t, level)

Written(t) ==
  CASE Kind(t) \in {"literal", "variable"} -> <<t[2]>>
    [] Kind(t) = "assign" -> <<t[2], "=">> \o Written(t[3])
    [] Kind(t) = "compound" -> <<t[2], t[3]>> \o Written(t[4])
    [] Kind(t) = "binary" ->
         Within(t[3], Level(t) + (IF t[2] = "**" THEN 1 ELSE 0)) \o <<t[2]>> \o
         Within(t[4], Level(t) + (IF t[2] = "**" THEN 0 ELSE 1))
    [] Kind(t) \in {"and", "or"} ->
         Within(t[2], Level(t) + 1) \o <<Kind(t)>> \o Within(t[3], Level(t))
    [] Kind(t) = "choose" ->
         Within(t[2], Conditional + 1) \o <<"?">> \o Within(t[3], Assignment) \o <<":">> \o
         Within(t[4], Conditional)
    [] Kind(t) = "unary" -> <<t[2]>> \o Within(t[3], Unary)
    [] Kind(t) = "array" -> <<"[">> \o Listed(t[2]) \o <<"]">>
    [] Kind(t) = "index" -> Within(t[2], IndexLevel) \o <<"[">> \o Written(t[3]) \o <<"]">>
    [] Kind(t) = "put" -> Target(t[2], IndexLevel) \o <<"[">> \o Written(t[3]) \o <<"]", "=">> \o Written(t[4])
    [] Kind(t) = "get" -> Within(t[2], CallIndex) \o <<".", "x">>
    [] Kind(t) = "set" -> Target(t[2], CallIndex) \o <<".", "x", "=">> \o Written(t[3])
    [] Kind(t) = "update" -> Target(t[2], CallIndex) \o <<".", "x", t[3]>> \o Written(t[4])
    [] Kind(t) = "call" -> Within(t[2], CallIndex) \o <<"(">> \o Listed(t[3]) \o <<")">>
    [] Kind(t) = "invoke" -> Within(t[2], CallIndex) \o <<".", "x", "(">> \o Listed(t[3]) \o <<")">>
    [] Kind(t) = "show" -> Written(t[2]) \o <<";">>
    [] Kind(t) = "print" -> <<"print">> \o Written(t[2]) \o <<";">>
    [] Kind(t) = "var" -> <<"var", t[2], "=">> \o Written(t[3]) \o <<";">>
    [] Kind(t) = "if" -> <<"if", "(">> \o Written(t[2]) \o <<")">> \o Written(t[3]) \o
                         <<"else">> \o Written(t[4])
    [] Kind(t) = "when" -> <<"if", "(">> \o Written(t[2]) \o <<")">> \o Written(t[3])
    [] Kind(t) = "while" -> <<"while", "(">> \o Written(t[2]) \o <<")">> \o Written(t[3])
    [] Kind(t) = "for" -> <<"for", "(">> \o Written(t[2]) \o <<";">> \o Written(t[3]) \o <<";">>
                          \o Written(t[4]) \o <<")">> \o Written(t[5])
    [] Kind(t) = "then" -> Written(t[2]) \o Written(t[3])
    [] Kind(t) = "block" -> <<"{">> \o Written(t[2]) \o <<"}">>

-----------------------------------------------------------------------------
(* Meanings: the value of an expression, and the environment after it.     *)
(* After an error the environment is what it was then.                     *)

Gives(v, e) == [value |-> v, env |-> e]
Fails(r) == r.value = Failed
(* F of a result, if it is none of a failure *)
Unless(r, F(_, _)) == IF Fails(r) THEN r ELSE F(r.value, r.env)

RECURSIVE Meaning(_, _)

(* the values of several expressions, from left to right *)
RECURSIVE All(_, _)
All(ts, e) ==
  IF ts = <<>> THEN Gives(<<>>, e)
  ELSE Unless(Meaning(ts[1], e), LAMBDA v, f :
         Unless(All(Tail(ts), f), LAMBDA vs, g : Gives(<<v>> \o vs, g)))

(* F of the values of ts, if none of them fails *)
With(ts, e, F(_, _)) == Unless(All(ts, e), F)

Operation(token, e, l, r) ==
  LET numbers == IsNumber(Unpacked(e, l)) /\ IsNumber(Unpacked(e, r))
      a == Magnitude(Unpacked(e, l))
      b == Magnitude(Unpacked(e, r)) IN
  CASE token = "!=" -> Bool(Unpacked(e, l) # Unpacked(e, r))
    [] token = "<=" -> IF numbers THEN Bool(a <= b) ELSE Failed
    [] token = ">=" -> IF numbers THEN Bool(a >= b) ELSE Failed
    [] OTHER -> Combined(Computes(token), e, l, r)

Defined(v) == IF v = Undefined THEN Failed ELSE v
Assigned(x, v, e) ==
  IF v = Failed \/ e.globals[x] = Undefined THEN Gives(Failed, e)
  ELSE Gives(v, [e EXCEPT !.globals[x] = v])
Stored(o, v, e) ==
  IF v = Failed \/ ~HasProperties(o) THEN Gives(Failed, e) ELSE Gives(v, WithField(e, o, "x", v))

Meaning(t, e) ==
  CASE Kind(t) = "literal" ->
         Gives(CASE t[2] = "nil" -> Nil [] t[2] = "true" -> True [] t[2] = "false" -> False
                 [] t[2] \in Strings -> <<"string", <<<<t[2]>>>>>>
                 [] OTHER -> <<"number", Twice(t[2])>>, e)
    [] Kind(t) = "variable" -> Gives(Defined(e.globals[t[2]]), e)
    [] Kind(t) = "assign" -> With(<<t[3]>>, e, LAMBDA v, f : Assigned(t[2], v[1], f))
    [] Kind(t) = "compound" ->
         With(<<<<"variable", t[2]>>, t[4]>>, e,
              LAMBDA v, f : Assigned(t[2], Operation(t[3], f, v[1], v[2]), f))
    [] Kind(t) = "binary" ->
         With(<<t[3], t[4]>>, e, LAMBDA v, f : Gives(Operation(t[2], f, v[1], v[2]), f))
    [] Kind(t) = "and" ->
         With(<<t[2]>>, e, LAMBDA v, f : IF Falsy(f, v[1]) THEN Gives(v[1], f) ELSE Meaning(t[3], f))
    [] Kind(t) = "or" ->
         With(<<t[2]>>, e, LAMBDA v, f : IF Falsy(f, v[1]) THEN Meaning(t[3], f) ELSE Gives(v[1], f))
    [] Kind(t) = "choose" ->
         With(<<t[2]>>, e, LAMBDA v, f : Meaning(IF Falsy(f, v[1]) THEN t[4] ELSE t[3], f))
    [] Kind(t) = "unary" ->
         With(<<t[3]>>, e, LAMBDA v, f : Gives(IF t[2] = "!" THEN Bool(Falsy(f, v[1]))
                                               ELSE Negated(f, v[1]), f))
    [] Kind(t) = "array" ->
         With(t[2], e, LAMBDA v, f : Gives(NewArray(f), [f EXCEPT !.arrays = Append(@, v)]))
    [] Kind(t) = "index" ->
         With(<<t[2], t[3]>>, e, LAMBDA v, f : Gives(Element(f, v[1], v[2]), f))
    [] Kind(t) = "put" ->
         With(<<t[2], t[3], t[4]>>, e,
              LAMBDA v, f : IF Position(f, v[1], v[2]) = 0 THEN Gives(Failed, f)
                            ELSE Gives(v[3], WithElement(f, v[1], v[2], v[3])))
    [] Kind(t) = "get" -> With(<<t[2]>>, e, LAMBDA v, f : Gives(Defined(Field(f, v[1], "x")), f))
    [] Kind(t) = "set" -> With(<<t[2], t[3]>>, e, LAMBDA v, f : Stored(v[1], v[2], f))
    [] Kind(t) = "update" ->
         With(<<t[2]>>, e, LAMBDA o, f :
           IF Field(f, o[1], "x") = Undefined THEN Gives(Failed, f)
           ELSE With(<<t[4]>>, f, LAMBDA v, g :
                  Stored(o[1], Operation(t[3], g, Field(f, o[1], "x"), v[1]), g)))
    [] Kind(t) = "call" ->
         With(<<t[2]>> \o t[3], e, LAMBDA v, f : Gives(Answer(v[1], Tail(v)), f))
    [] Kind(t) = "invoke" ->
         With(<<t[2]>> \o t[3], e, LAMBDA v, f : Gives(Answer(Field(f, v[1], "x"), Tail(v)), f))

(* the effect of a statement; its value is Failed or Nil *)
RECURSIVE Effect(_, _)
Effect(t, e) ==
  CASE Kind(t) \in {"show", "print"} ->
         With(<<t[2]>>, e, LAMBDA v, f : Gives(Nil, [f EXCEPT !.printed = Append(@, v[1])]))
    [] Kind(t) = "var" ->
         With(<<t[3]>>, e, LAMBDA v, f : Gives(Nil, [f EXCEPT !.globals[t[2]] = v[1]]))
    [] Kind(t) \in {"if", "when"} ->
         With(<<t[2]>>, e, LAMBDA v, f :
           IF ~Falsy(f, v[1]) THEN Effect(t[3], f)
           ELSE IF Kind(t) = "if" THEN Effect(t[4], f) ELSE Gives(Nil, f))
    [] Kind(t) = "block" -> Effect(t[2], e)
    [] Kind(t) = "then" ->
         Unless(Effect(t[2], e), LAMBDA v, f : Effect(t[3], f))
    [] Kind(t) = "while" ->
         With(<<t[2]>>, e, LAMBDA v, f :
           IF Falsy(f, v[1]) THEN Gives(Nil, f) ELSE Effect(<<"then", t[3], t>>, f))
    [] Kind(t) = "for" ->
         Effect(<<"then", <<"show", t[2]>>,
                  <<"while", t[3], <<"then", t[5], <<"do", t[4]>>>>>>>>, e)
    [] Kind(t) = "do" -> With(<<t[2]>>, e, LAMBDA v, f : Gives(Nil, f))

-----------------------------------------------------------------------------
(* Properties *)

(* A line that is written for a tree is accepted and does what the tree    *)
(* means: what it prints, assigns and stores, and whether it fails.        *)
MeansTree ==
  tree # NoTree =>
    /\ status # "rejected"
    /\ status \in {"done", "failed"} =>
         LET meant == Effect(tree, InitialEnv) IN
         env = meant.env /\ (status = "failed" <=> Fails(meant))

(* Whatever is accepted, written for a tree or not: every way to a place   *)
(* in its code finds the stack equally high and with what the instruction  *)
(* there takes, the execution is on one of these ways, and it ends with    *)
(* nothing on the stack.                                                   *)
HeightsAgree ==
  /\ \A s, t \in flow : s[1] = t[1] => s[2] = t[2]
  /\ \A s \in flow : s[2] >= Takes(chunk, s[1])
  /\ status = "run" => <<ip, Len(stack)>> \in flow
  /\ status = "done" => stack = <<>>

(* A runtime error tells the line of the instruction that failed.          *)
ErrorsTellLine ==
  /\ status # "stuck"
  /\ status = "failed" => told = chunk.writtenAt[ip + 1]
=============================================================================
