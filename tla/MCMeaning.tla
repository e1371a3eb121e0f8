------------------------------ MODULE MCMeaning ------------------------------
(***************************************************************************)
(* The lines of a prompt, for TLC: every expression of up to two operators *)
(* over some operands of every kind, those of three operators of different *)
(* levels, statements with such expressions, and all short sequences of    *)
(* some tokens, most of which the compiler rejects.                        *)
(***************************************************************************)
EXTENDS Meaning

Lit(t) == <<"literal", t>>
Var(x) == <<"variable", x>>
One == Lit("1")
A == Var("a")
Pair == <<"array", <<A, Lit("2")>>>>

(* every kind of expression, with operands of X and Y *)
Kinds(operators, X, Y) ==
  UNION {
    {<<"binary", op, x, y>> : op \in operators, x \in X, y \in Y},
    {<<"unary", op, x>> : op \in {"!", "-"}, x \in X},
    {<<kind, x, y>> : kind \in {"and", "or"}, x \in X, y \in Y},
    {<<"choose", x, y, Lit("2")>> : x \in X, y \in Y},
    {<<"choose", Var("z"), x, y>> : x \in X, y \in Y},
    {<<"assign", "a", x>> : x \in X},
    {<<"compound", "a", "-=", x>> : x \in X},
    {<<"array", <<x, y>>>> : x \in X, y \in Y},
    {<<"index", x, y>> : x \in X, y \in Y},
    {<<"put", x, One, y>> : x \in X, y \in Y},
    {<<"get", x>> : x \in X},
    {<<"set", x, y>> : x \in X, y \in Y},
    {<<"update", x, "*=", y>> : x \in X, y \in Y},
    {<<"call", x, <<y>>>> : x \in X, y \in Y},
    {<<"invoke", x, <<y>>>> : x \in X, y \in Y} }

Operands == {One, Lit("0"), Lit("3"), Lit("nil"), Lit("s"), A, Var("o"), Var("p"), Var("n"), Var("z"),
             Var("f"), Var("u"), Pair}
Shallow == Kinds(BinaryTokens, Operands, Operands)

(* one operator of each level *)
OfEachLevel == {"!=", ">=", "-", "/", "**"}
Inner == Kinds(OfEachLevel, {A}, {One}) \cup
         {<<"get", Var("o")>>, <<"set", Var("o"), A>>, <<"update", Var("o"), "+=", A>>,
          <<"call", Var("f"), <<A>>>>, <<"invoke", Var("p"), <<A>>>>,
          <<"index", Pair, One>>, <<"put", Pair, One, A>>}
Outer == {A, Pair, Var("o"), Var("p"), Var("f")}
Deep == Kinds(OfEachLevel, Inner, {One}) \cup Kinds(OfEachLevel, Outer, Inner)

Beyond(x) == Kinds({"-"}, {x}, {One}) \cup Kinds({"-"}, {A}, {x})
Middle == Kinds({"<=", "**"}, Inner, {One}) \cup Kinds({"<=", "**"}, {A}, Inner)

Shown(e) == <<"print", e>>
(* loops that run twice where a is 3, and end because a is true, then false *)
StillA(e) == <<"and", A, e>>
NextA == <<"assign", "a", <<"binary", "==", A, Lit("3")>>>>
Statements(e, f) ==
  {<<"then", <<"var", "b", e>>, Shown(<<"binary", "+", Var("b"), f>>)>>,
   <<"if", e, Shown(A), <<"show", f>>>>,
   <<"then", <<"when", e, Shown(A)>>, <<"show", f>>>>,
   <<"while", StillA(e), <<"block", <<"then", Shown(f), <<"show", NextA>>>>>>>>,
   <<"for", e, StillA(f), NextA, Shown(A)>>,
   <<"while", StillA(e), <<"if", f, <<"show", NextA>>, <<"show", <<"assign", "a", Lit("nil")>>>>>>>>}

(* loops without their parts, and what they mean *)
Bare ==
  {[tokens |-> <<"for", "(", ";", "a", ";", ")", "a", "=", "nil", ";">>,
    tree |-> <<"while", A, <<"show", <<"assign", "a", Lit("nil")>>>>>>],
   [tokens |-> <<"for", "(", ";", ";", ")", "-", "(", "a", "=", "nil", ")", ";">>,
    tree |-> <<"while", Lit("true"),
               <<"show", <<"unary", "-", <<"assign", "a", Lit("nil")>>>>>>>>]}

Alphabets ==
  {{"a", "=", "+=", "(", ")", "-"}, {"a", "=", "[", "]", ",", "?", ":"},
   {"p", "x", ".", "*=", "(", ")", ","}, {"if", "else", "(", ")", "a", ";"},
   {"var", "b", "=", "0.5", "or", ";", "print"}}

LineOf(t) == Start(t, Written(t))
Init ==
  \/ \E t \in Shallow : LineOf(<<"show", t>>)
  \/ \E t \in Deep : LineOf(<<"show", t>>)
  \/ \E x \in Middle : \E t \in Beyond(x) : LineOf(<<"show", t>>)
  \/ \E e, f \in Inner : \E s \in Statements(e, f) : LineOf(s)
  \/ \E line \in Bare : Start(line.tree, line.tokens)
  \/ \E S \in Alphabets, n \in 0..5 : \E tokens \in [1..n -> S] : Start(NoTree, tokens)

Spec == Init /\ [][Next]_vars
=============================================================================
