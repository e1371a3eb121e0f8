----------------------------- MODULE ScopesProofs -----------------------------
(***************************************************************************)
(* What compiler.c takes the stack to be is what the code it emits makes   *)
(* of it, for programs without switch statements: every local is in the    *)
(* slot of its index, a name reaches the innermost variable of that name   *)
(* through whatever chain of upvalues, a loop begins each round with the   *)
(* stack it began with, and no captured variable is popped.                *)
(*                                                                         *)
(* The invariant gives each construct its scope depth, and each slot the   *)
(* construct that declares it; endScope and the jumps drop the locals of a *)
(* depth, and these are those of the constructs that are left.             *)
(***************************************************************************)
EXTENDS Scopes, SequenceTheorems, WellFoundedInduction, TLAPS

FunctionKinds == {"function", "initializer", "lambda"}
LoopKinds == {"while", "for"}
AllKinds == {"script", "block", "body"} \cup FunctionKinds \cup LoopKinds

Word == Name \cup {Unnamed}
VarType == [name : Word, scope : Nat]
SlotType == [var : VarType, captured : BOOLEAN]
LocalType == [name : Word, depth : Int, captured : BOOLEAN]
LoopType == [loopType : {"none", "loop"}, loopStart : Nat, loopDepth : Nat]
CompilerType ==
  [locals : Seq(LocalType), localCount : Nat, scopeDepth : Nat,
   loopType : {"none", "loop"}, loopStart : Nat, loopDepth : Nat,
   upvalues : Seq([index : Nat, isLocal : BOOLEAN])]
ConstructType ==
  [kind : AllKinds, names : SUBSET Name, fn : Nat, entry : Seq(VarType),
   surrounding : LoopType,
   breaks : SUBSET [fn : Nat, stack : Seq(VarType)],
   continues : SUBSET [start : Nat, stack : Seq(VarType)]]

-----------------------------------------------------------------------------
(* The invariant, of compilers cs, slots sl and constructs sy of which the *)
(* k-th has scope depth dp[k]                                              *)

Typed(cs, sl, sy, dp) ==
  /\ cs \in Seq(CompilerType) /\ sl \in Seq(Seq(SlotType)) /\ sy \in Seq(ConstructType)
  /\ Len(cs) >= 1 /\ Len(sl) = Len(cs)
  /\ dp \in Seq(Nat) /\ Len(dp) = Len(sy)

(* the functions around each other, and the constructs in each *)
Tree(cs, sy) ==
  /\ Len(sy) >= 1 /\ sy[1].fn = 1 /\ sy[1].kind = "script" /\ sy[Len(sy)].fn = Len(cs)
  /\ \A k \in 2..Len(sy) :
       sy[k].fn = IF sy[k].kind \in FunctionKinds THEN sy[k - 1].fn + 1 ELSE sy[k - 1].fn
  /\ \A j, k \in 1..Len(sy) : j <= k => sy[j].fn <= sy[k].fn

(* A construct that declares something opened a scope for it. *)
Opens(sy, dp, k) == k >= 2 /\ (sy[k].kind \in FunctionKinds \/ dp[k] = dp[k - 1] + 1)

Depths(cs, sy, dp) ==
  /\ dp[1] = 0
  /\ \A k \in 2..Len(sy) :
       IF sy[k].kind \in FunctionKinds THEN dp[k] = 1 ELSE dp[k] \in {dp[k - 1], dp[k - 1] + 1}
  /\ \A j, k \in 1..Len(sy) : j <= k /\ sy[j].fn = sy[k].fn => dp[j] <= dp[k]
  /\ \A k \in 1..Len(sy) : k = Len(sy) \/ sy[k + 1].fn # sy[k].fn =>
       cs[sy[k].fn].scopeDepth = dp[k]
  /\ \A k \in 1..Len(sy) : sy[k].names # {} => Opens(sy, dp, k)

(* Local i of function f, of n, waits for the end of its initializer. *)
Waits(c, sy, f, n, i) ==
  /\ c.locals[i].depth = -1 /\ i = c.localCount /\ f < n
  /\ \E k \in 2..Len(sy) : sy[k].kind = "initializer" /\ sy[k].fn = f + 1

(* compiler c and frame s of function f, of n: a slot for each local *)
Framed(c, s, sy, dp, f, n) ==
  /\ c.localCount \in 1..Len(c.locals) /\ Len(s) = c.localCount
  /\ s[1].var = Callee /\ c.locals[1].depth = 0
  /\ \A i \in 1..Len(s) : s[i].var.name = c.locals[i].name
  /\ \A i \in 2..Len(s) : LET k == s[i].var.scope IN
       /\ k \in 1..Len(sy) /\ sy[k].fn = f /\ s[i].var.name \in sy[k].names
       /\ c.locals[i].depth = dp[k] \/ Waits(c, sy, f, n, i)
  /\ \A i, j \in 1..Len(s) : i <= j => s[i].var.scope <= s[j].var.scope

Placed(cs, sl, sy, dp) ==
  /\ \A f \in 1..Len(cs) : Framed(cs[f], sl[f], sy, dp, f, Len(cs))
  /\ \A k \in 2..Len(sy) : sy[k].kind = "initializer" =>
       LET s == sl[sy[k - 1].fn] IN Len(s) >= 2 /\ s[Len(s)].var.scope = k - 1

(* What a construct declares is in a slot. *)
Named(sl, sy) ==
  \A k \in 1..Len(sy) : \A n \in sy[k].names :
    \E i \in 2..Len(sl[sy[k].fn]) : sl[sy[k].fn][i].var = Variable(n, k)

(* the innermost loop of function f among the first m constructs *)
LoopAt(sy, f, m) == Largest({j \in 1..m : sy[j].kind \in LoopKinds /\ sy[j].fn = f})
LoopState(sy, dp, f, m) ==
  LET j == LoopAt(sy, f, m) IN
  IF j = 0 THEN [loopType |-> "none", loopStart |-> 0, loopDepth |-> 0]
  ELSE [loopType |-> "loop", loopStart |-> j, loopDepth |-> dp[j]]
LoopsKept(cs, sy, dp) ==
  /\ \A f \in 1..Len(cs) : Surrounding(cs[f]) = LoopState(sy, dp, f, Len(sy))
  /\ \A k \in 1..Len(sy) : sy[k].kind \in LoopKinds =>
       sy[k].surrounding = LoopState(sy, dp, sy[k].fn, k - 1)

(* The stack a loop began with is still there, and below what it declares. *)
EnteredAt(s, c, k) ==
  /\ Len(c.entry) <= Len(s)
  /\ \A i \in 1..Len(s) : i <= Len(c.entry) <=> s[i].var.scope <= k
  /\ \A i \in 1..Len(c.entry) : c.entry[i] = s[i].var
  /\ \A b \in c.breaks : b.fn = c.fn => b.stack = c.entry
  /\ \A j \in c.continues : j.start = k /\ j.stack = c.entry
Entered(sl, sy) ==
  \A k \in 1..Len(sy) : sy[k].kind \in LoopKinds => EnteredAt(sl[sy[k].fn], sy[k], k)

(* What the closures will capture is marked. *)
Marked(cs, sl) ==
  /\ cs[1].upvalues = <<>>
  /\ \A f \in 1..Len(cs) :
       /\ \A i \in 1..Len(sl[f]) : sl[f][i].captured => cs[f].locals[i].captured
       /\ \A u \in Elements(cs[f].upvalues) : u.isLocal =>
            f >= 2 /\ u.index \in 1..cs[f - 1].localCount
            /\ cs[f - 1].locals[u.index].captured

Inv(cs, sl, sy, dp) ==
  /\ Typed(cs, sl, sy, dp) /\ Tree(cs, sy) /\ Depths(cs, sy, dp)
  /\ Placed(cs, sl, sy, dp) /\ Named(sl, sy) /\ LoopsKept(cs, sy, dp)
  /\ Entered(sl, sy) /\ Marked(cs, sl)

(* The constructs of the grammar: the body of a for statement is in it,    *)
(* with a scope of its own when there is a loop variable.                  *)
Rule(sy, dp, k) ==
  /\ sy[k].kind = "script" => k = 1
  /\ sy[k].kind = "for" <=> (k + 1 \in 1..Len(sy) /\ sy[k + 1].kind = "body")
  /\ sy[k].kind \in {"block", "for"} => dp[k] = dp[k - 1] + 1
  /\ sy[k].kind = "while" => dp[k] = dp[k - 1]
  /\ sy[k].kind = "body" =>
       k >= 2 /\ dp[k] = IF sy[k].names = {} THEN dp[k - 1] ELSE dp[k - 1] + 1
Grammar(sy, dp) == \A k \in 1..Len(sy) : Rule(sy, dp, k)

SInv ==
  /\ lost = {}
  /\ \E dp \in Seq(Nat) : Inv(compilers, slots, syntax, dp) /\ Grammar(syntax, dp)

-----------------------------------------------------------------------------
(* Numbers and sequences *)

LEMMA NaturalsHaveLeast ==
  ASSUME NEW S, S \subseteq Nat, S # {}
  PROVE  \E i \in S : \A j \in S : i <= j
<1>1. IsWellFoundedOn(OpToRel(<, Nat), Nat)
  BY NatLessThanWellFounded
<1>2. PICK x \in S : \A y \in S : <<y, x>> \notin OpToRel(<, Nat)
  BY <1>1, WFMin
<1>3. \A y \in S : ~(y < x)
  BY <1>2 DEF OpToRel
<1> QED
  BY <1>3

LEMMA LargestIs ==
  ASSUME NEW S, S \subseteq Nat, NEW m \in S, \A y \in S : y <= m
  PROVE  Largest(S) = m
<1>1. S # {}
  OBVIOUS
<1> DEFINE x == CHOOSE x \in S : \A y \in S : y <= x
<1>2. x \in S /\ \A y \in S : y <= x
  OBVIOUS
<1>3. Largest(S) = x
  BY <1>1 DEF Largest
<1> HIDE DEF x
<1> QED
  BY <1>2, <1>3

LEMMA LargestFacts ==
  ASSUME NEW n \in Nat, NEW S, S \subseteq 1..n
  PROVE  /\ Largest(S) \in 0..n
         /\ S = {} => Largest(S) = 0
         /\ S # {} => Largest(S) \in S /\ \A y \in S : y <= Largest(S)
<1>1. CASE S = {}
  BY <1>1 DEF Largest
<1>2. CASE S # {}
  <2> DEFINE R == {n - y : y \in S}
  <2>6. \A y \in S : n - y \in Nat /\ y \in Nat
    OBVIOUS
  <2>1. R \subseteq Nat /\ R # {}
    BY <1>2, <2>6
  <2> HIDE DEF R
  <2>2. PICK r \in R : \A q \in R : r <= q
    BY <2>1, NaturalsHaveLeast
  <2>3. PICK m \in S : r = n - m
    BY <2>2 DEF R
  <2>4. \A y \in S : y <= m
    <3> SUFFICES ASSUME NEW y \in S PROVE y <= m
      OBVIOUS
    <3>1. r <= n - y
      BY <2>2 DEF R
    <3> QED
      BY <2>3, <3>1
  <2>5. Largest(S) = m
    BY <2>6, <2>3, <2>4, LargestIs
  <2> QED
    BY <1>2, <2>4, <2>5
<1> QED
  BY <1>1, <1>2

LEMMA AppendFacts ==
  ASSUME NEW S, NEW s \in Seq(S), NEW v \in S
  PROVE  /\ Append(s, v) \in Seq(S) /\ Len(Append(s, v)) = Len(s) + 1 /\ Len(s) \in Nat
         /\ \A i \in 1..Len(s) : Append(s, v)[i] = s[i]
         /\ Append(s, v)[Len(s) + 1] = v
BY AppendProperties

LEMMA PrefixFacts ==
  ASSUME NEW S, NEW s \in Seq(S), NEW m \in 0..Len(s)
  PROVE  /\ SubSeq(s, 1, m) \in Seq(S) /\ Len(SubSeq(s, 1, m)) = m
         /\ \A i \in 1..m : SubSeq(s, 1, m)[i] = s[i]
OBVIOUS

LEMMA LastReplaced ==
  ASSUME NEW S, NEW s \in Seq(S), Len(s) >= 1, NEW v \in S
  PROVE  LET t == [s EXCEPT ![Len(s)] = v] IN
         /\ t \in Seq(S) /\ Len(t) = Len(s) /\ Len(s) \in Nat
         /\ t[Len(s)] = v /\ \A i \in 1..Len(s) : i # Len(s) => t[i] = s[i]
OBVIOUS

LEMMA SeqIs ==
  ASSUME NEW S, NEW m \in Nat, NEW s \in [1..m -> S]
  PROVE  s \in Seq(S) /\ Len(s) = m
OBVIOUS

LEMMA Sames ==
  ASSUME NEW S, NEW s \in Seq(S), NEW t \in Seq(S), Len(s) = Len(t),
         \A i \in 1..Len(s) : s[i] = t[i]
  PROVE  s = t
OBVIOUS

LEMMA AppendReplaced ==
  ASSUME NEW S, NEW s \in Seq(S), NEW v \in S, NEW w \in S
  PROVE  [Append(s, v) EXCEPT ![Len(s) + 1] = w] = Append(s, w)
<1>1. PICK a, b, r : a = Append(s, v) /\ b = Append(s, w) /\ r = [a EXCEPT ![Len(s) + 1] = w]
  <2>1. \E a : a = Append(s, v)
    OBVIOUS
  <2> QED
    BY <2>1
<1>2. /\ a \in Seq(S) /\ Len(a) = Len(s) + 1 /\ Len(s) \in Nat
      /\ \A i \in 1..Len(s) : a[i] = s[i]
  BY <1>1, AppendFacts
<1>3. /\ b \in Seq(S) /\ Len(b) = Len(s) + 1 /\ b[Len(s) + 1] = w
      /\ \A i \in 1..Len(s) : b[i] = s[i]
  BY <1>1, AppendFacts
<1>4. /\ r \in Seq(S) /\ Len(r) = Len(s) + 1 /\ r[Len(s) + 1] = w
      /\ \A i \in 1..Len(s) : r[i] = a[i]
  <2>1. r = [a EXCEPT ![Len(a)] = w] /\ Len(a) >= 1
    BY <1>1, <1>2
  <2>2. /\ r \in Seq(S) /\ Len(r) = Len(a) /\ r[Len(a)] = w
        /\ \A i \in 1..Len(a) : i # Len(a) => r[i] = a[i]
    BY <1>2, <2>1, LastReplaced
  <2>3. \A i \in 1..Len(s) : i \in 1..Len(a) /\ i # Len(a)
    BY <1>2
  <2> QED
    BY <1>2, <2>2, <2>3
<1>5. \A i \in 1..(Len(s) + 1) : i \in 1..Len(s) \/ i = Len(s) + 1
  BY <1>2
<1>6. r = b
  BY <1>2, <1>3, <1>4, <1>5, Sames
<1> QED
  BY <1>1, <1>6

-----------------------------------------------------------------------------
(* The compiler's own records *)

LEMMA KeptIs ==
  ASSUME NEW c, NEW d, c.localCount \in Nat, NEW m \in 1..c.localCount,
         \A i \in 1..c.localCount : c.locals[i].depth <= d <=> i <= m
  PROVE  Kept(c, d) = m
<1> DEFINE S == {i \in 1..c.localCount : c.locals[i].depth <= d}
<1>1. S \subseteq Nat /\ m \in S /\ \A y \in S : y <= m
  OBVIOUS
<1>2. Kept(c, d) = Largest(S)
  BY DEF Kept
<1> HIDE DEF S
<1> QED
  BY <1>1, <1>2, LargestIs

(* c is o with one local more *)
Grown(c, o, l) ==
  /\ c.localCount = o.localCount + 1 /\ c.localCount \in 1..Len(c.locals)
  /\ \A i \in 1..o.localCount : c.locals[i] = o.locals[i]
  /\ c.locals[o.localCount + 1] = l
  /\ c.scopeDepth = o.scopeDepth /\ c.loopType = o.loopType /\ c.loopStart = o.loopStart
  /\ c.loopDepth = o.loopDepth /\ c.upvalues = o.upvalues

(* addLocal *)
LEMMA AddLocalFacts ==
  ASSUME NEW c \in CompilerType, c.localCount \in 1..Len(c.locals), NEW l \in LocalType
  PROVE  /\ AddLocal(c, l) \in CompilerType /\ Grown(AddLocal(c, l), c, l)
         /\ Len(AddLocal(c, l).locals) =
              IF Len(c.locals) > c.localCount THEN Len(c.locals) ELSE c.localCount + 1
<1> DEFINE n == c.localCount
           m == IF Len(c.locals) > n THEN Len(c.locals) ELSE n + 1
           ls == [i \in 1..m |-> IF i = n + 1 THEN l ELSE c.locals[i]]
           a == AddLocal(c, l)
<1>1. c.locals \in Seq(LocalType) /\ n \in Nat /\ Len(c.locals) \in Nat /\ n <= Len(c.locals)
  BY DEF CompilerType
<1>2. m \in Nat /\ n + 1 <= m /\ \A i \in 1..m : i = n + 1 \/ i \in 1..Len(c.locals)
  BY <1>1
<1>3. a = [c EXCEPT !.locals = ls, !.localCount = n + 1]
  BY DEF AddLocal
<1> HIDE DEF m
<1>4. ls \in [1..m -> LocalType]
  BY <1>1, <1>2
<1>5. ls \in Seq(LocalType) /\ Len(ls) = m
  BY <1>2, <1>4
<1>6. (\A i \in 1..n : ls[i] = c.locals[i]) /\ ls[n + 1] = l
  BY <1>1, <1>2
<1> HIDE DEF ls, a, n
<1>9. n + 1 \in Nat
  BY <1>1
<1>7. /\ a \in CompilerType /\ a.locals = ls /\ a.localCount = n + 1
      /\ a.scopeDepth = c.scopeDepth /\ a.loopType = c.loopType /\ a.loopStart = c.loopStart
      /\ a.loopDepth = c.loopDepth /\ a.upvalues = c.upvalues
  BY <1>3, <1>5, <1>9 DEF CompilerType
<1>8. n + 1 \in 1..Len(ls)
  BY <1>1, <1>2, <1>5
<1> QED
  BY <1>5, <1>6, <1>7, <1>8 DEF a, m, n, Grown

-----------------------------------------------------------------------------
(* Loops *)

LEMMA LoopAtIn ==
  ASSUME NEW sy, NEW f, NEW m \in Nat
  PROVE  /\ LoopAt(sy, f, m) \in 0..m
         /\ LoopAt(sy, f, m) # 0 =>
              sy[LoopAt(sy, f, m)].kind \in LoopKinds /\ sy[LoopAt(sy, f, m)].fn = f
         /\ \A j \in 1..m : sy[j].kind \in LoopKinds /\ sy[j].fn = f => j <= LoopAt(sy, f, m)
<1> DEFINE S == {j \in 1..m : sy[j].kind \in LoopKinds /\ sy[j].fn = f}
<1>1. S \subseteq 1..m
  OBVIOUS
<1>2. LoopAt(sy, f, m) = Largest(S)
  BY DEF LoopAt
<1>3. \A j \in S : sy[j].kind \in LoopKinds /\ sy[j].fn = f
  OBVIOUS
<1>4. \A j \in 1..m : sy[j].kind \in LoopKinds /\ sy[j].fn = f => j \in S
  OBVIOUS
<1> HIDE DEF S
<1> QED
  BY <1>1, <1>2, <1>3, <1>4, LargestFacts

LEMMA LoopAtSame ==
  ASSUME NEW sy, NEW t, NEW f, NEW m \in Nat,
         \A j \in 1..m : /\ t[j].kind \in LoopKinds <=> sy[j].kind \in LoopKinds
                         /\ t[j].fn = sy[j].fn
  PROVE  LoopAt(t, f, m) = LoopAt(sy, f, m)
<1>1. {j \in 1..m : t[j].kind \in LoopKinds /\ t[j].fn = f}
      = {j \in 1..m : sy[j].kind \in LoopKinds /\ sy[j].fn = f}
  OBVIOUS
<1> QED
  BY <1>1 DEF LoopAt

LEMMA LoopAtNext ==
  ASSUME NEW sy, NEW f, NEW m \in Nat, sy[m + 1].kind \notin LoopKinds \/ sy[m + 1].fn # f
  PROVE  LoopAt(sy, f, m + 1) = LoopAt(sy, f, m)
<1>1. {j \in 1..(m + 1) : sy[j].kind \in LoopKinds /\ sy[j].fn = f}
      = {j \in 1..m : sy[j].kind \in LoopKinds /\ sy[j].fn = f}
  OBVIOUS
<1> QED
  BY <1>1 DEF LoopAt

LEMMA LoopAtLoop ==
  ASSUME NEW sy, NEW f, NEW m \in Nat \ {0}, sy[m].kind \in LoopKinds, sy[m].fn = f
  PROVE  LoopAt(sy, f, m) = m
<1>1. LoopAt(sy, f, m) \in 0..m /\ m <= LoopAt(sy, f, m)
  BY LoopAtIn
<1> QED
  BY <1>1

(* the first m constructs are the same, as far as loops go *)
Agree(sy, dp, t, e, m) ==
  \A j \in 1..m : /\ t[j].kind \in LoopKinds <=> sy[j].kind \in LoopKinds
                  /\ t[j].fn = sy[j].fn /\ e[j] = dp[j]

LEMMA LoopStateSame ==
  ASSUME NEW sy, NEW t, NEW dp, NEW e, NEW f, NEW m \in Nat, Agree(sy, dp, t, e, m)
  PROVE  LoopState(t, e, f, m) = LoopState(sy, dp, f, m)
<1>1. LoopAt(t, f, m) = LoopAt(sy, f, m) /\ LoopAt(sy, f, m) \in 0..m
  <2>1. \A j \in 1..m : /\ t[j].kind \in LoopKinds <=> sy[j].kind \in LoopKinds
                        /\ t[j].fn = sy[j].fn
    BY DEF Agree
  <2> QED
    BY <2>1, LoopAtSame, LoopAtIn
<1>2. LoopAt(sy, f, m) # 0 => e[LoopAt(sy, f, m)] = dp[LoopAt(sy, f, m)]
  BY <1>1 DEF Agree
<1> QED
  BY <1>1, <1>2 DEF LoopState

LEMMA LoopStateNext ==
  ASSUME NEW sy, NEW dp, NEW f, NEW m \in Nat, sy[m + 1].kind \notin LoopKinds \/ sy[m + 1].fn # f
  PROVE  LoopState(sy, dp, f, m + 1) = LoopState(sy, dp, f, m)
BY LoopAtNext DEF LoopState

-----------------------------------------------------------------------------
(* What the invariant says of one function or construct *)

LEMMA Facts ==
  ASSUME NEW cs, NEW sl, NEW sy, NEW dp, Inv(cs, sl, sy, dp)
  PROVE  /\ Len(cs) \in Nat \ {0} /\ Len(sy) \in Nat \ {0} /\ Len(sl) = Len(cs)
         /\ Len(dp) = Len(sy) /\ sy[Len(sy)].fn = Len(cs)
         /\ \A k \in 1..Len(sy) :
              sy[k] \in ConstructType /\ sy[k].fn \in 1..Len(cs) /\ dp[k] \in Nat
         /\ \A f \in 1..Len(cs) :
              /\ cs[f] \in CompilerType /\ sl[f] \in Seq(SlotType)
              /\ Framed(cs[f], sl[f], sy, dp, f, Len(cs))
              /\ cs[f].localCount \in 1..Len(cs[f].locals) /\ Len(sl[f]) = cs[f].localCount
              /\ cs[f].locals \in Seq(LocalType)
              /\ \A i \in 1..Len(sl[f]) : sl[f][i].var.scope \in 0..Len(sy)
<1>1. /\ Len(cs) \in Nat \ {0} /\ Len(sy) \in Nat \ {0} /\ Len(sl) = Len(cs)
      /\ Len(dp) = Len(sy) /\ sy[Len(sy)].fn = Len(cs)
  BY DEF Inv, Typed, Tree
<1>2. ASSUME NEW k \in 1..Len(sy)
      PROVE  sy[k] \in ConstructType /\ sy[k].fn \in 1..Len(cs) /\ dp[k] \in Nat
  <2>1. sy[k] \in ConstructType /\ dp[k] \in Nat
    BY <1>1, <1>2 DEF Inv, Typed
  <2>2. sy[k].fn \in Nat
    BY <2>1 DEF ConstructType
  <2>3. 1 \in 1..Len(sy) /\ Len(sy) \in 1..Len(sy) /\ 1 <= k /\ k <= Len(sy)
    BY <1>1
  <2>4. sy[1].fn <= sy[k].fn /\ sy[k].fn <= sy[Len(sy)].fn /\ sy[1].fn = 1
    BY <2>3 DEF Inv, Tree
  <2> QED
    BY <1>1, <2>1, <2>2, <2>4
<1>3. ASSUME NEW f \in 1..Len(cs)
      PROVE  /\ cs[f] \in CompilerType /\ sl[f] \in Seq(SlotType)
             /\ Framed(cs[f], sl[f], sy, dp, f, Len(cs))
             /\ cs[f].localCount \in 1..Len(cs[f].locals) /\ Len(sl[f]) = cs[f].localCount
             /\ cs[f].locals \in Seq(LocalType)
  <2>1. cs[f] \in CompilerType /\ sl[f] \in Seq(SlotType)
    BY <1>1, <1>3 DEF Inv, Typed
  <2>2. Framed(cs[f], sl[f], sy, dp, f, Len(cs))
    BY <1>3 DEF Inv, Placed
  <2> QED
    BY <2>1, <2>2 DEF Framed, CompilerType
<1>4. ASSUME NEW f \in 1..Len(cs), NEW i \in 1..Len(sl[f])
      PROVE  sl[f][i].var.scope \in 0..Len(sy)
  <2>1. Framed(cs[f], sl[f], sy, dp, f, Len(cs)) /\ Len(sl[f]) \in Nat
    BY <1>3
  <2>2. CASE i = 1
    BY <1>1, <2>1, <2>2 DEF Framed, Callee, Variable
  <2>3. CASE i \in 2..Len(sl[f])
    <3>1. sl[f][i].var.scope \in 1..Len(sy)
      BY <2>1, <2>3 DEF Framed
    <3> QED
      BY <3>1, <1>1
  <2> QED
    BY <2>1, <2>2, <2>3
<1> QED
  BY <1>1, <1>2, <1>3, <1>4

(* A frame is as it was when the constructs of its function are. *)
LEMMA FramedStays ==
  ASSUME NEW c, NEW c2, NEW s, NEW sy, NEW t, NEW dp, NEW e, NEW f, NEW n, NEW m,
         Framed(c, s, sy, dp, f, n), c2.locals = c.locals, c2.localCount = c.localCount,
         \A k \in 1..Len(sy) : sy[k].fn = f =>
           k \in 1..Len(t) /\ t[k].fn = f /\ sy[k].names \subseteq t[k].names /\ e[k] = dp[k],
         \A i : Waits(c, sy, f, n, i) => Waits(c2, t, f, m, i)
  PROVE  Framed(c2, s, t, e, f, m)
<1>1. ASSUME NEW i \in 2..Len(s)
      PROVE  LET k == s[i].var.scope IN
             /\ k \in 1..Len(t) /\ t[k].fn = f /\ s[i].var.name \in t[k].names
             /\ c2.locals[i].depth = e[k] \/ Waits(c2, t, f, m, i)
  <2>1. PICK k : k = s[i].var.scope
    OBVIOUS
  <2>2. /\ k \in 1..Len(sy) /\ sy[k].fn = f /\ s[i].var.name \in sy[k].names
        /\ c.locals[i].depth = dp[k] \/ Waits(c, sy, f, n, i)
    BY <2>1 DEF Framed
  <2> QED
    BY <2>1, <2>2
<1> QED
  BY <1>1 DEF Framed

-----------------------------------------------------------------------------
(* What statements do, one thing at a time *)

SameLocals(c, o) ==
  c.locals = o.locals /\ c.localCount = o.localCount /\ c.upvalues = o.upvalues
SameLoop(c, o) ==
  c.loopType = o.loopType /\ c.loopStart = o.loopStart /\ c.loopDepth = o.loopDepth

(* a construct is begun that is neither a loop nor a function *)
LEMMA PushKeeps ==
  ASSUME NEW cs, NEW sl, NEW sy, NEW dp, Inv(cs, sl, sy, dp),
         NEW x \in ConstructType, x.kind \in {"block", "body"}, x.fn = Len(cs), x.names = {},
         NEW d \in {dp[Len(sy)], dp[Len(sy)] + 1},
         NEW c \in CompilerType, SameLocals(c, cs[Len(cs)]), SameLoop(c, cs[Len(cs)]),
         c.scopeDepth = d
  PROVE  Inv([cs EXCEPT ![Len(cs)] = c], sl, Append(sy, x), Append(dp, d))
<1>1. PICK n, L : n = Len(cs) /\ L = Len(sy)
  OBVIOUS
<1>2. PICK cs2, sy2, dp2 : /\ cs2 = [cs EXCEPT ![n] = c]
                           /\ sy2 = Append(sy, x) /\ dp2 = Append(dp, d)
  OBVIOUS
<1>3. Typed(cs, sl, sy, dp) /\ Tree(cs, sy)
  BY DEF Inv
<1>4. n \in Nat \ {0} /\ L \in Nat \ {0} /\ Len(dp) = L /\ L \in 1..L /\ d \in Nat
  BY <1>1, <1>3 DEF Typed, Tree
<1>5. /\ cs2 \in Seq(CompilerType) /\ Len(cs2) = n /\ cs2[n] = c
      /\ \A f \in 1..n : f # n => cs2[f] = cs[f]
  BY <1>1, <1>2, <1>3, LastReplaced DEF Typed
<1>6. /\ sy2 \in Seq(ConstructType) /\ Len(sy2) = L + 1 /\ sy2[L + 1] = x
      /\ \A k \in 1..L : sy2[k] = sy[k]
  BY <1>1, <1>2, <1>3, AppendFacts DEF Typed
<1>7. /\ dp2 \in Seq(Nat) /\ Len(dp2) = L + 1 /\ dp2[L + 1] = d
      /\ \A k \in 1..L : dp2[k] = dp[k]
  BY <1>2, <1>3, <1>4, AppendFacts DEF Typed
<1>8. \A f \in 1..n : SameLocals(cs2[f], cs[f]) /\ SameLoop(cs2[f], cs[f])
  BY <1>1, <1>5 DEF SameLocals, SameLoop
<1>9. /\ \A k \in 1..(L + 1) : k \in 1..L \/ k = L + 1
      /\ \A k \in 2..(L + 1) : k - 1 \in 1..L /\ (k \in 2..L \/ k = L + 1)
      /\ (L + 1) - 1 = L /\ \A k \in 1..L : k \in 1..(L + 1) /\ k # L + 1 /\ k <= L + 1
      /\ \A k \in 1..L : k # L => k + 1 \in 1..L
  BY <1>4
<1>10. x.kind \notin FunctionKinds \cup LoopKinds /\ x.kind # "initializer"
  BY DEF FunctionKinds, LoopKinds
<1>11. Typed(cs2, sl, sy2, dp2)
  BY <1>1, <1>3, <1>5, <1>6, <1>7 DEF Typed
<1>12. Tree(cs2, sy2)
  <2>1. /\ sy[1].fn = 1 /\ sy[1].kind = "script" /\ sy[L].fn = n
        /\ \A k \in 2..L :
             sy[k].fn = IF sy[k].kind \in FunctionKinds THEN sy[k - 1].fn + 1 ELSE sy[k - 1].fn
        /\ \A j, k \in 1..L : j <= k => sy[j].fn <= sy[k].fn
    BY <1>1, <1>3 DEF Tree
  <2>2. \A k \in 2..(L + 1) :
          sy2[k].fn = IF sy2[k].kind \in FunctionKinds THEN sy2[k - 1].fn + 1 ELSE sy2[k - 1].fn
    <3> SUFFICES ASSUME NEW k \in 2..(L + 1)
                 PROVE  sy2[k].fn = IF sy2[k].kind \in FunctionKinds THEN sy2[k - 1].fn + 1
                                    ELSE sy2[k - 1].fn
      OBVIOUS
    <3>1. CASE k = L + 1
      BY <1>1, <1>4, <1>6, <1>9, <1>10, <2>1, <3>1
    <3>2. CASE k \in 2..L
      <4>1. sy2[k] = sy[k] /\ sy2[k - 1] = sy[k - 1]
        BY <1>6, <1>9, <3>2
      <4> QED
        BY <2>1, <3>2, <4>1
    <3> QED
      BY <1>9, <3>1, <3>2
  <2>3. \A j, k \in 1..(L + 1) : j <= k => sy2[j].fn <= sy2[k].fn
    <3> SUFFICES ASSUME NEW j \in 1..(L + 1), NEW k \in 1..(L + 1), j <= k
                 PROVE  sy2[j].fn <= sy2[k].fn
      OBVIOUS
    <3>1. CASE k \in 1..L
      <4>1. j \in 1..L
        BY <1>4, <3>1
      <4> QED
        BY <1>6, <2>1, <3>1, <4>1
    <3>2. CASE k = L + 1 /\ j = L + 1
      BY <1>1, <1>4, <1>6, <3>2
    <3>3. CASE k = L + 1 /\ j \in 1..L
      <4>1. j <= L
        BY <1>4, <3>3
      <4>2. sy2[j].fn <= n
        BY <1>4, <1>6, <2>1, <3>3, <4>1
      <4> QED
        BY <1>1, <1>6, <3>3, <4>2
    <3> QED
      BY <1>9, <3>1, <3>2, <3>3
  <2>4. sy2[1] = sy[1] /\ Len(sy2) >= 1 /\ sy2[Len(sy2)].fn = Len(cs2)
    BY <1>1, <1>4, <1>5, <1>6
  <2> QED
    BY <1>6, <2>1, <2>2, <2>3, <2>4 DEF Tree
<1>13. Depths(cs2, sy2, dp2)
  <2>1. /\ dp[1] = 0
        /\ \A k \in 2..L : IF sy[k].kind \in FunctionKinds THEN dp[k] = 1
                           ELSE dp[k] \in {dp[k - 1], dp[k - 1] + 1}
        /\ \A j, k \in 1..L : j <= k /\ sy[j].fn = sy[k].fn => dp[j] <= dp[k]
        /\ \A k \in 1..L : k = L \/ sy[k + 1].fn # sy[k].fn => cs[sy[k].fn].scopeDepth = dp[k]
        /\ \A k \in 1..L : sy[k].names # {} => Opens(sy, dp, k)
    BY <1>1 DEF Inv, Depths
  <2>2. \A k \in 1..L : dp[k] \in Nat
    BY <1>3, <1>4 DEF Typed
  <2>3. \A k \in 2..(L + 1) : IF sy2[k].kind \in FunctionKinds THEN dp2[k] = 1
                              ELSE dp2[k] \in {dp2[k - 1], dp2[k - 1] + 1}
    <3> SUFFICES ASSUME NEW k \in 2..(L + 1)
                 PROVE  IF sy2[k].kind \in FunctionKinds THEN dp2[k] = 1
                        ELSE dp2[k] \in {dp2[k - 1], dp2[k - 1] + 1}
      OBVIOUS
    <3>1. CASE k = L + 1
      BY <1>1, <1>4, <1>6, <1>7, <1>9, <1>10, <3>1
    <3>2. CASE k \in 2..L
      <4>1. sy2[k] = sy[k] /\ dp2[k] = dp[k] /\ dp2[k - 1] = dp[k - 1]
        BY <1>6, <1>7, <1>9, <3>2
      <4> QED
        BY <2>1, <3>2, <4>1
    <3> QED
      BY <1>9, <3>1, <3>2
  <2>4. \A j, k \in 1..(L + 1) : j <= k /\ sy2[j].fn = sy2[k].fn => dp2[j] <= dp2[k]
    <3> SUFFICES ASSUME NEW j \in 1..(L + 1), NEW k \in 1..(L + 1),
                        j <= k, sy2[j].fn = sy2[k].fn
                 PROVE  dp2[j] <= dp2[k]
      OBVIOUS
    <3>1. CASE k \in 1..L
      <4>1. j \in 1..L
        BY <1>4, <3>1
      <4> QED
        BY <1>6, <1>7, <2>1, <3>1, <4>1
    <3>2. CASE k = L + 1 /\ j = L + 1
      BY <1>4, <1>7, <3>2
    <3>3. CASE k = L + 1 /\ j \in 1..L
      <4>1. j <= L /\ sy[j].fn = sy[L].fn
        BY <1>1, <1>3, <1>4, <1>6, <3>3 DEF Tree
      <4>2. dp[j] <= dp[L] /\ dp[j] \in Nat /\ dp[L] \in Nat
        BY <1>4, <2>1, <2>2, <3>3, <4>1
      <4>3. dp2[j] = dp[j] /\ dp2[k] = d
        BY <1>7, <3>3
      <4> QED
        BY <1>1, <4>2, <4>3
    <3> QED
      BY <1>9, <3>1, <3>2, <3>3
  <2>5. ASSUME NEW k \in 1..(L + 1), k = L + 1 \/ sy2[k + 1].fn # sy2[k].fn
        PROVE  cs2[sy2[k].fn].scopeDepth = dp2[k]
    <3>1. CASE k = L + 1
      BY <1>1, <1>5, <1>6, <1>7, <3>1
    <3>2. CASE k \in 1..L
      <4>1. k # L
        <5> SUFFICES ASSUME k = L PROVE FALSE
          OBVIOUS
        <5>1. sy2[k + 1].fn = n /\ sy2[k].fn = n
          BY <1>1, <1>3, <1>4, <1>6 DEF Tree
        <5> QED
          BY <1>4, <2>5, <5>1
      <4>2. k + 1 \in 1..L /\ sy2[k + 1] = sy[k + 1] /\ sy2[k] = sy[k]
        BY <1>6, <1>9, <3>2, <4>1
      <4>3. sy[k + 1].fn # sy[k].fn
        BY <1>4, <2>5, <3>2, <4>2
      <4>4. sy[k].fn <= sy[k + 1].fn /\ sy[k + 1].fn <= n
        BY <1>1, <1>3, <1>4, <3>2, <4>2 DEF Tree
      <4>5. sy[k].fn \in Nat /\ sy[k + 1].fn \in Nat /\ 1 <= sy[k].fn
        <5>1. sy[k] \in ConstructType /\ sy[k + 1] \in ConstructType
          BY <1>1, <1>3, <3>2, <4>2 DEF Typed
        <5>2. sy[1].fn <= sy[k].fn /\ sy[1].fn = 1
          BY <1>1, <1>3, <1>4, <3>2 DEF Tree
        <5> QED
          BY <5>1, <5>2 DEF ConstructType
      <4>6. sy[k].fn \in 1..n /\ sy[k].fn # n
        BY <1>4, <4>3, <4>4, <4>5
      <4>7. cs2[sy[k].fn] = cs[sy[k].fn] /\ cs[sy[k].fn].scopeDepth = dp[k]
        BY <1>5, <2>1, <3>2, <4>3, <4>6
      <4> QED
        BY <1>7, <3>2, <4>2, <4>7
    <3> QED
      BY <1>9, <3>1, <3>2
  <2>6. \A k \in 1..(L + 1) : sy2[k].names # {} => Opens(sy2, dp2, k)
    <3> SUFFICES ASSUME NEW k \in 1..(L + 1), sy2[k].names # {} PROVE Opens(sy2, dp2, k)
      OBVIOUS
    <3>1. k \in 1..L /\ sy2[k] = sy[k] /\ dp2[k] = dp[k]
      BY <1>6, <1>7, <1>9
    <3>2. Opens(sy, dp, k)
      BY <2>1, <3>1
    <3>3. dp2[k - 1] = dp[k - 1]
      BY <1>4, <1>7, <3>1, <3>2 DEF Opens
    <3> QED
      BY <3>1, <3>2, <3>3 DEF Opens
  <2>7. dp2[1] = 0
    BY <1>4, <1>7, <2>1
  <2> QED
    BY <1>6, <2>3, <2>4, <2>5, <2>6, <2>7 DEF Depths
<1>14. Placed(cs2, sl, sy2, dp2)
  <2>1. ASSUME NEW f \in 1..n PROVE Framed(cs2[f], sl[f], sy2, dp2, f, n)
    <3>1. Framed(cs[f], sl[f], sy, dp, f, n)
      BY <1>1 DEF Inv, Placed
    <3>2. cs2[f].locals = cs[f].locals /\ cs2[f].localCount = cs[f].localCount
      BY <1>8 DEF SameLocals
    <3>3. \A k \in 1..Len(sy) : k \in 1..Len(sy2) /\ sy2[k] = sy[k] /\ dp2[k] = dp[k]
      BY <1>1, <1>6, <1>7, <1>9
    <3>4. \A k \in 2..Len(sy) : k \in 2..Len(sy2) /\ sy2[k] = sy[k]
      BY <1>1, <1>6, <1>9
    <3>5. \A i : Waits(cs[f], sy, f, n, i) => Waits(cs2[f], sy2, f, n, i)
      BY <3>2, <3>4 DEF Waits
    <3> QED
      BY <3>1, <3>2, <3>3, <3>5, FramedStays
  <2>4. ASSUME NEW k \in 2..(L + 1), sy2[k].kind = "initializer"
        PROVE  LET s == sl[sy2[k - 1].fn] IN Len(s) >= 2 /\ s[Len(s)].var.scope = k - 1
    <3>1. k \in 2..L /\ sy2[k - 1] = sy[k - 1] /\ sy[k].kind = "initializer"
      <4>1. k # L + 1
        BY <1>6, <1>10, <2>4
      <4>2. k \in 2..L /\ k \in 1..L /\ k - 1 \in 1..L
        BY <1>9, <4>1
      <4> QED
        BY <1>6, <2>4, <4>2
    <3> QED
      BY <1>1, <3>1 DEF Inv, Placed, Framed
  <2> QED
    BY <1>5, <1>6, <2>1, <2>4 DEF Placed
<1>15. Named(sl, sy2)
  <2>1. SUFFICES ASSUME NEW k \in 1..(L + 1), NEW w \in sy2[k].names
        PROVE  \E i \in 2..Len(sl[sy2[k].fn]) : sl[sy2[k].fn][i].var = Variable(w, k)
    BY <1>6 DEF Named
  <2>2. k \in 1..L /\ sy2[k] = sy[k]
    BY <1>6, <1>9, <2>1
  <2>3. Named(sl, sy)
    BY DEF Inv
  <2> QED
    BY <1>1, <2>1, <2>2, <2>3 DEF Named
<1>16. LoopsKept(cs2, sy2, dp2)
  <2>1. \A m \in 0..L : Agree(sy, dp, sy2, dp2, m)
    BY <1>4, <1>6, <1>7 DEF Agree
  <2>2. \A f : LoopState(sy2, dp2, f, L + 1) = LoopState(sy, dp, f, L)
    <3> SUFFICES ASSUME NEW f PROVE LoopState(sy2, dp2, f, L + 1) = LoopState(sy, dp, f, L)
      OBVIOUS
    <3>1. Agree(sy, dp, sy2, dp2, L) /\ L \in Nat /\ sy2[L + 1].kind \notin LoopKinds
      BY <1>4, <1>6, <1>10, <2>1
    <3>2. LoopState(sy2, dp2, f, L) = LoopState(sy, dp, f, L)
      BY <3>1, LoopStateSame
    <3>3. LoopState(sy2, dp2, f, L + 1) = LoopState(sy2, dp2, f, L)
      BY <3>1, LoopStateNext
    <3> QED
      BY <3>2, <3>3
  <2>3. \A f \in 1..n : Surrounding(cs2[f]) = LoopState(sy2, dp2, f, L + 1)
    BY <1>1, <1>8, <2>2 DEF Inv, LoopsKept, Surrounding, SameLoop
  <2>4. ASSUME NEW k \in 1..(L + 1), sy2[k].kind \in LoopKinds
        PROVE  sy2[k].surrounding = LoopState(sy2, dp2, sy2[k].fn, k - 1)
    <3>1. k \in 1..L /\ k - 1 \in 0..L
      BY <1>4, <1>6, <1>9, <1>10, <2>4
    <3>4. Agree(sy, dp, sy2, dp2, k - 1) /\ k - 1 \in Nat
      BY <2>1, <3>1
    <3>2. LoopState(sy2, dp2, sy2[k].fn, k - 1) = LoopState(sy, dp, sy2[k].fn, k - 1)
      BY <3>4, LoopStateSame
    <3>3. sy2[k] = sy[k]
      BY <1>6, <3>1
    <3> QED
      BY <1>1, <2>4, <3>1, <3>2, <3>3 DEF Inv, LoopsKept
  <2> QED
    BY <1>5, <1>6, <2>3, <2>4 DEF LoopsKept
<1>17. Entered(sl, sy2)
  <2>1. \A k \in 1..(L + 1) : sy2[k].kind \in LoopKinds => k \in 1..L /\ sy2[k] = sy[k]
    BY <1>6, <1>9, <1>10
  <2> QED
    BY <1>1, <1>6, <2>1 DEF Inv, Entered
<1>18. Marked(cs2, sl)
  <2>1. \A f \in 1..n : f >= 2 => f - 1 \in 1..n
    BY <1>4
  <2>2. 1 \in 1..n
    BY <1>4
  <2> QED
    BY <1>1, <1>5, <1>8, <2>1, <2>2 DEF Inv, Marked, SameLocals
<1> QED
  BY <1>1, <1>2, <1>11, <1>12, <1>13, <1>14, <1>15, <1>16, <1>17, <1>18 DEF Inv

(* The constructs t are those of sy, but for what is recorded of them. *)
SameTree(sy, t) ==
  /\ Len(t) = Len(sy)
  /\ \A k \in 1..Len(sy) :
       /\ t[k].fn = sy[k].fn
       /\ t[k].kind = sy[k].kind
          \/ (t[k].kind \in {"block", "body", "while", "for"}
              /\ sy[k].kind \in {"block", "body", "while", "for"})

LEMMA TreeSame ==
  ASSUME NEW cs, NEW cs2, NEW sl, NEW sy, NEW t, NEW dp, Inv(cs, sl, sy, dp),
         Len(cs2) = Len(cs), SameTree(sy, t),
         \A f \in 1..Len(cs) : cs2[f].scopeDepth = cs[f].scopeDepth,
         \A k \in 1..Len(sy) : t[k].names # {} => Opens(sy, dp, k)
  PROVE  Tree(cs2, t) /\ Depths(cs2, t, dp)
<1>1. PICK L : L = Len(sy)
  OBVIOUS
<1>2. sy \in Seq(ConstructType) /\ L \in Nat /\ L >= 1 /\ Len(t) = L
  BY <1>1 DEF Inv, Typed, Tree, SameTree
<1>3. \A k \in 1..L : /\ t[k].fn = sy[k].fn
                      /\ t[k].kind \in FunctionKinds <=> sy[k].kind \in FunctionKinds
                      /\ t[k].kind = "script" <=> sy[k].kind = "script"
  BY <1>1 DEF SameTree, FunctionKinds
<1>4. \A k \in 2..L : k - 1 \in 1..L /\ k \in 1..L
  BY <1>2
<1>5. 1 \in 1..L /\ L \in 1..L
  BY <1>2
<1>6. Tree(cs2, t)
  <2>1. Tree(cs, sy)
    BY DEF Inv
  <2>2. Len(t) >= 1 /\ t[1].fn = 1 /\ t[1].kind = "script" /\ t[Len(t)].fn = Len(cs2)
    BY <1>1, <1>2, <1>3, <1>5, <2>1 DEF Tree
  <2>3. ASSUME NEW k \in 2..L
        PROVE  t[k].fn = IF t[k].kind \in FunctionKinds THEN t[k - 1].fn + 1 ELSE t[k - 1].fn
    <3>1. t[k].fn = sy[k].fn /\ t[k - 1].fn = sy[k - 1].fn
          /\ (t[k].kind \in FunctionKinds <=> sy[k].kind \in FunctionKinds)
      BY <1>3, <1>4
    <3> QED
      BY <1>1, <2>1, <3>1 DEF Tree
  <2>4. \A j, k \in 1..L : j <= k => t[j].fn <= t[k].fn
    BY <1>1, <1>3, <2>1 DEF Tree
  <2> QED
    BY <1>2, <2>2, <2>3, <2>4 DEF Tree
<1>7. \A k \in 1..L : k # L => k + 1 \in 1..L
  BY <1>2
<1>8. \A k \in 1..L : sy[k].fn \in 1..Len(cs)
  <2> SUFFICES ASSUME NEW k \in 1..L PROVE sy[k].fn \in 1..Len(cs)
    OBVIOUS
  <2>1. sy[1].fn <= sy[k].fn /\ sy[k].fn <= sy[L].fn /\ sy[1].fn = 1 /\ sy[L].fn = Len(cs)
    BY <1>1, <1>2, <1>5 DEF Inv, Tree
  <2>4. sy[k] \in ConstructType
    BY <1>1, <1>2
  <2>2. sy[k].fn \in Nat
    BY <2>4 DEF ConstructType
  <2>3. Len(cs) \in Nat
    BY DEF Inv, Typed
  <2> QED
    BY <2>1, <2>2, <2>3
<1>9. Depths(cs2, t, dp)
  <2>1. /\ dp[1] = 0
        /\ \A k \in 2..L : IF sy[k].kind \in FunctionKinds THEN dp[k] = 1
                           ELSE dp[k] \in {dp[k - 1], dp[k - 1] + 1}
        /\ \A j, k \in 1..L : j <= k /\ sy[j].fn = sy[k].fn => dp[j] <= dp[k]
        /\ \A k \in 1..L : k = L \/ sy[k + 1].fn # sy[k].fn => cs[sy[k].fn].scopeDepth = dp[k]
    BY <1>1 DEF Inv, Depths
  <2>2. \A k \in 1..L : k = L \/ t[k + 1].fn # t[k].fn => cs2[t[k].fn].scopeDepth = dp[k]
    <3> SUFFICES ASSUME NEW k \in 1..L, k = L \/ t[k + 1].fn # t[k].fn
                 PROVE  cs2[t[k].fn].scopeDepth = dp[k]
      OBVIOUS
    <3>1. k = L \/ sy[k + 1].fn # sy[k].fn
      BY <1>3, <1>7
    <3>2. cs[sy[k].fn].scopeDepth = dp[k]
      BY <2>1, <3>1
    <3> QED
      BY <1>3, <1>8, <3>2
  <2>3. \A k \in 1..L : t[k].names # {} => Opens(t, dp, k)
    BY <1>1, <1>3 DEF Opens
  <2> QED
    BY <1>2, <1>3, <1>4, <2>1, <2>2, <2>3 DEF Depths
<1> QED
  BY <1>6, <1>9

LEMMA PlacedSame ==
  ASSUME NEW cs, NEW cs2, NEW sl, NEW sy, NEW t, NEW dp, Inv(cs, sl, sy, dp),
         Len(cs2) = Len(cs), SameTree(sy, t),
         \A f \in 1..Len(cs) : SameLocals(cs2[f], cs[f]),
         \A k \in 1..Len(sy) : t[k].names = sy[k].names
  PROVE  Placed(cs2, sl, t, dp) /\ Named(sl, t) /\ Marked(cs2, sl)
<1>1. PICK L, n : L = Len(sy) /\ n = Len(cs)
  OBVIOUS
<1>2. L \in Nat /\ L >= 1 /\ Len(t) = L /\ n \in Nat /\ n >= 1
  BY <1>1 DEF Inv, Typed, Tree, SameTree
<1>3. \A k \in 1..L : t[k].fn = sy[k].fn /\ (t[k].kind = "initializer" <=> sy[k].kind = "initializer")
  BY <1>1 DEF SameTree
<1>4. \A k \in 2..L : k - 1 \in 1..L /\ k \in 1..L
  BY <1>2
<1>5. \A f \in 1..n : /\ cs2[f].locals = cs[f].locals /\ cs2[f].localCount = cs[f].localCount
                      /\ cs2[f].upvalues = cs[f].upvalues
  BY <1>1 DEF SameLocals
<1>6. \A f \in 1..n : \A i : Waits(cs[f], sy, f, n, i) => Waits(cs2[f], t, f, n, i)
  BY <1>1, <1>2, <1>3, <1>4, <1>5 DEF Waits
<1>7. Placed(cs2, sl, t, dp)
  <2>1. ASSUME NEW f \in 1..n PROVE Framed(cs2[f], sl[f], t, dp, f, n)
    <3>1. Framed(cs[f], sl[f], sy, dp, f, n)
      BY <1>1 DEF Inv, Placed
    <3>2. cs2[f].locals = cs[f].locals /\ cs2[f].localCount = cs[f].localCount
      BY <1>5
    <3>3. \A k \in 1..Len(sy) : k \in 1..Len(t) /\ t[k].fn = sy[k].fn /\ t[k].names = sy[k].names
      BY <1>1, <1>2, <1>3
    <3>4. \A i : Waits(cs[f], sy, f, n, i) => Waits(cs2[f], t, f, n, i)
      BY <1>6
    <3> QED
      BY <3>1, <3>2, <3>3, <3>4, FramedStays
  <2>3. ASSUME NEW k \in 2..L, t[k].kind = "initializer"
        PROVE  LET s == sl[t[k - 1].fn] IN Len(s) >= 2 /\ s[Len(s)].var.scope = k - 1
    <3>1. sy[k].kind = "initializer" /\ t[k - 1].fn = sy[k - 1].fn
      BY <1>3, <1>4, <2>3
    <3> QED
      BY <1>1, <3>1 DEF Inv, Placed, Framed
  <2> QED
    BY <1>1, <1>2, <2>1, <2>3 DEF Placed
<1>8. Named(sl, t)
  BY <1>1, <1>2, <1>3 DEF Inv, Named
<1>9. Marked(cs2, sl)
  <2>1. \A f \in 1..n : f >= 2 => f - 1 \in 1..n
    BY <1>2
  <2>2. 1 \in 1..n
    BY <1>2
  <2> QED
    BY <1>1, <1>5, <2>1, <2>2 DEF Inv, Marked
<1> QED
  BY <1>7, <1>8, <1>9

(* A loop begins with the stack as it is. *)
LEMMA MakeLoopKeeps ==
  ASSUME NEW cs, NEW sl, NEW sy, NEW dp, Inv(cs, sl, sy, dp),
         sy[Len(sy)].kind \in {"block", "body"},
         NEW x \in ConstructType, x.kind \in LoopKinds, x.fn = sy[Len(sy)].fn,
         x.names = sy[Len(sy)].names, x.surrounding = Surrounding(cs[Len(cs)]),
         x.entry = Vars(sl[Len(sl)]), x.breaks = {}, x.continues = {},
         NEW c \in CompilerType, SameLocals(c, cs[Len(cs)]),
         c.scopeDepth = cs[Len(cs)].scopeDepth,
         c.loopType = "loop", c.loopStart = Len(sy), c.loopDepth = c.scopeDepth
  PROVE  Inv([cs EXCEPT ![Len(cs)] = c], sl, [sy EXCEPT ![Len(sy)] = x], dp)
<1>1. PICK n, L : n = Len(cs) /\ L = Len(sy)
  OBVIOUS
<1>2. PICK cs2, t : cs2 = [cs EXCEPT ![n] = c] /\ t = [sy EXCEPT ![L] = x]
  OBVIOUS
<1>3. Typed(cs, sl, sy, dp) /\ Tree(cs, sy)
  BY DEF Inv
<1>4. n \in Nat \ {0} /\ L \in Nat \ {0} /\ L \in 1..L /\ n \in 1..n /\ sy[L].fn = n
  BY <1>1, <1>3 DEF Typed, Tree
<1>5. /\ cs2 \in Seq(CompilerType) /\ Len(cs2) = n /\ cs2[n] = c
      /\ \A f \in 1..n : f # n => cs2[f] = cs[f]
  BY <1>1, <1>2, <1>3, LastReplaced DEF Typed
<1>6. /\ t \in Seq(ConstructType) /\ Len(t) = L /\ t[L] = x
      /\ \A k \in 1..L : k # L => t[k] = sy[k]
  BY <1>1, <1>2, <1>3, <1>4, LastReplaced DEF Typed
<1>7. SameTree(sy, t) /\ \A k \in 1..L : t[k].names = sy[k].names
  BY <1>1, <1>6 DEF SameTree, LoopKinds
<1>8. \A f \in 1..n : SameLocals(cs2[f], cs[f]) /\ cs2[f].scopeDepth = cs[f].scopeDepth
  BY <1>1, <1>5 DEF SameLocals
<1>9. \A k \in 1..L : sy[k].names # {} => Opens(sy, dp, k)
  BY <1>1 DEF Inv, Depths
<1>10. Typed(cs2, sl, t, dp)
  BY <1>1, <1>3, <1>5, <1>6 DEF Typed
<1>11. Tree(cs2, t) /\ Depths(cs2, t, dp)
  BY <1>1, <1>5, <1>7, <1>8, <1>9, TreeSame
<1>12. Placed(cs2, sl, t, dp) /\ Named(sl, t) /\ Marked(cs2, sl)
  BY <1>1, <1>5, <1>7, <1>8, PlacedSame
<1>13. \A m \in 0..(L - 1) : Agree(sy, dp, t, dp, m)
  <2>1. \A m \in 0..(L - 1) : \A j \in 1..m : j \in 1..L /\ j # L
    BY <1>4
  <2> QED
    BY <1>6, <2>1 DEF Agree
<1>14. \A f : LoopState(sy, dp, f, L) = LoopState(sy, dp, f, L - 1)
  <2>1. sy[(L - 1) + 1].kind \notin LoopKinds /\ L - 1 \in Nat /\ (L - 1) + 1 = L
    BY <1>1, <1>4 DEF LoopKinds
  <2> QED
    BY <2>1, LoopStateNext
<1>15. LoopsKept(cs2, t, dp)
  <2>1. ASSUME NEW k \in 1..L, t[k].kind \in LoopKinds
        PROVE  t[k].surrounding = LoopState(t, dp, t[k].fn, k - 1)
    <3>1. Agree(sy, dp, t, dp, k - 1) /\ k - 1 \in Nat
      BY <1>4, <1>13
    <3>2. LoopState(t, dp, t[k].fn, k - 1) = LoopState(sy, dp, t[k].fn, k - 1)
      BY <3>1, LoopStateSame
    <3>3. CASE k # L
      BY <1>1, <1>6, <2>1, <3>2, <3>3 DEF Inv, LoopsKept
    <3>4. CASE k = L
      BY <1>1, <1>4, <1>6, <1>14, <3>2, <3>4 DEF Inv, LoopsKept
    <3> QED
      BY <3>3, <3>4
  <2>2. ASSUME NEW f \in 1..n PROVE Surrounding(cs2[f]) = LoopState(t, dp, f, L)
    <3>1. CASE f = n
      <4>1. LoopAt(t, f, L) = L
        BY <1>1, <1>4, <1>6, <3>1, LoopAtLoop
      <4>2. c.loopDepth = dp[L]
        BY <1>1, <1>3, <1>4 DEF Inv, Depths
      <4> QED
        BY <1>1, <1>4, <1>5, <3>1, <4>1, <4>2 DEF LoopState, Surrounding
    <3>2. CASE f # n
      <4>1. t[(L - 1) + 1].fn # f /\ L - 1 \in Nat /\ (L - 1) + 1 = L
        BY <1>1, <1>4, <1>6, <3>2
      <4>2. LoopState(t, dp, f, L) = LoopState(t, dp, f, L - 1)
        BY <4>1, LoopStateNext
      <4>3. Agree(sy, dp, t, dp, L - 1)
        BY <1>4, <1>13
      <4>4. LoopState(t, dp, f, L - 1) = LoopState(sy, dp, f, L - 1)
        BY <4>1, <4>3, LoopStateSame
      <4>5. Surrounding(cs[f]) = LoopState(sy, dp, f, L)
        BY <1>1 DEF Inv, LoopsKept
      <4> QED
        BY <1>5, <1>14, <3>2, <4>2, <4>4, <4>5
    <3> QED
      BY <3>1, <3>2
  <2> QED
    BY <1>5, <1>6, <2>1, <2>2 DEF LoopsKept
<1>16. Entered(sl, t)
  <2> SUFFICES ASSUME NEW k \in 1..L, t[k].kind \in LoopKinds
               PROVE  EnteredAt(sl[t[k].fn], t[k], k)
    BY <1>6 DEF Entered
  <2>1. CASE k # L
    BY <1>1, <1>6, <2>1 DEF Inv, Entered
  <2>2. CASE k = L
    <3>1. t[k] = x /\ t[k].fn = n /\ Len(sl) = n /\ sl[n] \in Seq(SlotType)
      BY <1>1, <1>3, <1>4, <1>6, <2>2 DEF Typed
    <3>2. /\ Len(x.entry) = Len(sl[n]) /\ Len(sl[n]) \in Nat
          /\ \A i \in 1..Len(sl[n]) : x.entry[i] = sl[n][i].var
      BY <3>1 DEF Vars
    <3>3. \A i \in 1..Len(sl[n]) : sl[n][i].var.scope <= L
      <4> SUFFICES ASSUME NEW i \in 1..Len(sl[n]) PROVE sl[n][i].var.scope <= L
        OBVIOUS
      <4>1. CASE i = 1
        BY <1>1, <1>4, <4>1 DEF Inv, Placed, Framed, Callee, Variable
      <4>2. CASE i \in 2..Len(sl[n])
        <5>1. sl[n][i].var.scope \in 1..L
          BY <1>1, <1>4, <4>2 DEF Inv, Placed, Framed
        <5> QED
          BY <5>1
      <4> QED
        BY <3>2, <4>1, <4>2
    <3> QED
      BY <2>2, <3>1, <3>2, <3>3 DEF EnteredAt
  <2> QED
    BY <2>1, <2>2
<1> QED
  BY <1>1, <1>2, <1>10, <1>11, <1>12, <1>15, <1>16 DEF Inv

(* The loop ends, and the one around it is the current one again. *)
LEMMA UnLoopKeeps ==
  ASSUME NEW cs, NEW sl, NEW sy, NEW dp, Inv(cs, sl, sy, dp),
         sy[Len(sy)].kind \in LoopKinds,
         NEW x \in ConstructType, x.kind \in {"block", "body"}, x.fn = sy[Len(sy)].fn,
         x.names = sy[Len(sy)].names,
         NEW c \in CompilerType, SameLocals(c, cs[Len(cs)]),
         c.scopeDepth = cs[Len(cs)].scopeDepth, Surrounding(c) = sy[Len(sy)].surrounding
  PROVE  Inv([cs EXCEPT ![Len(cs)] = c], sl, [sy EXCEPT ![Len(sy)] = x], dp)
<1>1. PICK n, L : n = Len(cs) /\ L = Len(sy)
  OBVIOUS
<1>2. PICK cs2, t : cs2 = [cs EXCEPT ![n] = c] /\ t = [sy EXCEPT ![L] = x]
  OBVIOUS
<1>3. Typed(cs, sl, sy, dp) /\ Tree(cs, sy)
  BY DEF Inv
<1>4. n \in Nat \ {0} /\ L \in Nat \ {0} /\ L \in 1..L /\ n \in 1..n /\ sy[L].fn = n
  BY <1>1, <1>3 DEF Typed, Tree
<1>5. /\ cs2 \in Seq(CompilerType) /\ Len(cs2) = n /\ cs2[n] = c
      /\ \A f \in 1..n : f # n => cs2[f] = cs[f]
  BY <1>1, <1>2, <1>3, LastReplaced DEF Typed
<1>6. /\ t \in Seq(ConstructType) /\ Len(t) = L /\ t[L] = x
      /\ \A k \in 1..L : k # L => t[k] = sy[k]
  BY <1>1, <1>2, <1>3, <1>4, LastReplaced DEF Typed
<1>7. SameTree(sy, t) /\ \A k \in 1..L : t[k].names = sy[k].names
  BY <1>1, <1>6 DEF SameTree, LoopKinds
<1>8. \A f \in 1..n : SameLocals(cs2[f], cs[f]) /\ cs2[f].scopeDepth = cs[f].scopeDepth
  BY <1>1, <1>5 DEF SameLocals
<1>9. \A k \in 1..L : sy[k].names # {} => Opens(sy, dp, k)
  BY <1>1 DEF Inv, Depths
<1>10. Typed(cs2, sl, t, dp)
  BY <1>1, <1>3, <1>5, <1>6 DEF Typed
<1>11. Tree(cs2, t) /\ Depths(cs2, t, dp)
  BY <1>1, <1>5, <1>7, <1>8, <1>9, TreeSame
<1>12. Placed(cs2, sl, t, dp) /\ Named(sl, t) /\ Marked(cs2, sl)
  BY <1>1, <1>5, <1>7, <1>8, PlacedSame
<1>13. \A m \in 0..(L - 1) : Agree(sy, dp, t, dp, m)
  <2>1. \A m \in 0..(L - 1) : \A j \in 1..m : j \in 1..L /\ j # L
    BY <1>4
  <2> QED
    BY <1>6, <2>1 DEF Agree
<1>14. \A f : LoopState(t, dp, f, L) = LoopState(t, dp, f, L - 1)
  <2>1. t[(L - 1) + 1].kind \notin LoopKinds /\ L - 1 \in Nat /\ (L - 1) + 1 = L
    BY <1>4, <1>6 DEF LoopKinds
  <2> QED
    BY <2>1, LoopStateNext
<1>15. LoopsKept(cs2, t, dp)
  <2>1. ASSUME NEW k \in 1..L, t[k].kind \in LoopKinds
        PROVE  t[k].surrounding = LoopState(t, dp, t[k].fn, k - 1)
    <3>1. Agree(sy, dp, t, dp, k - 1) /\ k - 1 \in Nat
      BY <1>4, <1>13
    <3>2. LoopState(t, dp, t[k].fn, k - 1) = LoopState(sy, dp, t[k].fn, k - 1)
      BY <3>1, LoopStateSame
    <3>3. k # L
      BY <1>6, <2>1 DEF LoopKinds
    <3> QED
      BY <1>1, <1>6, <2>1, <3>2, <3>3 DEF Inv, LoopsKept
  <2>2. ASSUME NEW f \in 1..n PROVE Surrounding(cs2[f]) = LoopState(t, dp, f, L)
    <3>1. Agree(sy, dp, t, dp, L - 1) /\ L - 1 \in Nat
      BY <1>4, <1>13
    <3>2. LoopState(t, dp, f, L) = LoopState(sy, dp, f, L - 1)
      BY <1>14, <3>1, LoopStateSame
    <3>3. CASE f = n
      BY <1>1, <1>4, <1>5, <3>2, <3>3 DEF Inv, LoopsKept
    <3>4. CASE f # n
      <4>1. sy[(L - 1) + 1].fn # f /\ (L - 1) + 1 = L
        BY <1>4, <3>4
      <4>2. LoopState(sy, dp, f, L) = LoopState(sy, dp, f, L - 1)
        BY <3>1, <4>1, LoopStateNext
      <4>3. Surrounding(cs[f]) = LoopState(sy, dp, f, L)
        BY <1>1 DEF Inv, LoopsKept
      <4> QED
        BY <1>5, <3>2, <3>4, <4>2, <4>3
    <3> QED
      BY <3>3, <3>4
  <2> QED
    BY <1>5, <1>6, <2>1, <2>2 DEF LoopsKept
<1>16. Entered(sl, t)
  <2>1. \A k \in 1..L : t[k].kind \in LoopKinds => t[k] = sy[k]
    BY <1>6 DEF LoopKinds
  <2> QED
    BY <1>1, <1>6, <2>1 DEF Inv, Entered
<1> QED
  BY <1>1, <1>2, <1>10, <1>11, <1>12, <1>15, <1>16 DEF Inv

(* A local is declared in the innermost construct. *)
LEMMA DeclareKeeps ==
  ASSUME NEW cs, NEW sl, NEW sy, NEW dp, Inv(cs, sl, sy, dp),
         sy[Len(sy)].kind \notin LoopKinds, Opens(sy, dp, Len(sy)), NEW v \in Name,
         NEW x \in ConstructType, x.kind = sy[Len(sy)].kind, x.fn = sy[Len(sy)].fn,
         x.names = sy[Len(sy)].names \cup {v},
         NEW c \in CompilerType, Grown(c, cs[Len(cs)], Local(v, cs[Len(cs)].scopeDepth))
  PROVE  Inv([cs EXCEPT ![Len(cs)] = c],
             [sl EXCEPT ![Len(sl)] = Append(sl[Len(sl)], Holding(Variable(v, Len(sy))))],
             [sy EXCEPT ![Len(sy)] = x], dp)
<1>1. PICK n, L : n = Len(cs) /\ L = Len(sy)
  OBVIOUS
<1>0. PICK s : s = Append(sl[n], Holding(Variable(v, L)))
  OBVIOUS
<1>2. PICK cs2, t, sl2 : /\ cs2 = [cs EXCEPT ![n] = c] /\ t = [sy EXCEPT ![L] = x]
                         /\ sl2 = [sl EXCEPT ![n] = s]
  OBVIOUS
<1>3. Typed(cs, sl, sy, dp) /\ Tree(cs, sy)
  BY DEF Inv
<1>4. /\ n \in Nat \ {0} /\ L \in Nat \ {0} /\ L \in 1..L /\ n \in 1..n /\ sy[L].fn = n
      /\ Len(sl) = n /\ sl[n] \in Seq(SlotType) /\ Len(sl[n]) \in Nat
  BY <1>1, <1>3 DEF Typed, Tree
<1>5. /\ cs2 \in Seq(CompilerType) /\ Len(cs2) = n /\ cs2[n] = c
      /\ \A f \in 1..n : f # n => cs2[f] = cs[f]
  BY <1>1, <1>2, <1>3, LastReplaced DEF Typed
<1>6. /\ t \in Seq(ConstructType) /\ Len(t) = L /\ t[L] = x
      /\ \A k \in 1..L : k # L => t[k] = sy[k]
  BY <1>1, <1>2, <1>3, <1>4, LastReplaced DEF Typed
<1>7. PICK h : h = Holding(Variable(v, L))
  OBVIOUS
<1>8. h \in SlotType /\ h.var.name = v /\ h.var.scope = L /\ ~h.captured
      /\ h.var = Variable(v, L)
  BY <1>4, <1>7 DEF SlotType, VarType, Word, Holding, Variable
<1>9. PICK m : m = Len(sl[n])
  OBVIOUS
<1>10. /\ s \in Seq(SlotType) /\ Len(s) = m + 1 /\ m \in Nat
       /\ \A i \in 1..m : s[i] = sl[n][i]
       /\ s[m + 1] = h
  BY <1>0, <1>4, <1>7, <1>8, <1>9, AppendFacts
<1>11. /\ sl2 \in Seq(Seq(SlotType)) /\ Len(sl2) = n /\ sl2[n] = s
       /\ \A f \in 1..n : f # n => sl2[f] = sl[f]
  BY <1>2, <1>3, <1>4, <1>10, LastReplaced DEF Typed
<1>12. /\ m = cs[n].localCount /\ m \in 1..Len(cs[n].locals)
       /\ c.localCount = m + 1 /\ c.localCount \in 1..Len(c.locals)
       /\ \A i \in 1..m : c.locals[i] = cs[n].locals[i]
       /\ c.locals[m + 1] = Local(v, cs[n].scopeDepth)
       /\ c.scopeDepth = cs[n].scopeDepth /\ Surrounding(c) = Surrounding(cs[n])
       /\ c.upvalues = cs[n].upvalues
  BY <1>1, <1>4, <1>9 DEF Inv, Placed, Framed, Grown, Surrounding
<1>13. SameTree(sy, t)
  BY <1>1, <1>6 DEF SameTree
<1>14. \A k \in 1..L : t[k].names # {} => Opens(sy, dp, k)
  BY <1>1, <1>6 DEF Inv, Depths
<1>15. \A f \in 1..n : cs2[f].scopeDepth = cs[f].scopeDepth
  BY <1>5, <1>12
<1>16. Typed(cs2, sl2, t, dp)
  BY <1>1, <1>3, <1>4, <1>5, <1>6, <1>11 DEF Typed
<1>17. Tree(cs2, t) /\ Depths(cs2, t, dp)
  BY <1>1, <1>5, <1>13, <1>14, <1>15, TreeSame
<1>18. \A i \in 1..(m + 1) : i \in 1..m \/ i = m + 1
  BY <1>10
<1>19. \A i \in 1..m : sl[n][i].var.scope <= L
  <2> SUFFICES ASSUME NEW i \in 1..m PROVE sl[n][i].var.scope <= L
    OBVIOUS
  <2>1. CASE i = 1
    BY <1>1, <1>4, <2>1 DEF Inv, Placed, Framed, Callee, Variable
  <2>2. CASE i \in 2..m
    <3>1. sl[n][i].var.scope \in 1..L
      BY <1>1, <1>4, <1>9, <2>2 DEF Inv, Placed, Framed
    <3> QED
      BY <3>1
  <2> QED
    BY <1>10, <2>1, <2>2
<1>20. Placed(cs2, sl2, t, dp)
  <2>1. Framed(cs[n], sl[n], sy, dp, n, n)
    BY <1>1, <1>4 DEF Inv, Placed
  <2>2. ASSUME NEW f \in 1..n, f # n PROVE Framed(cs2[f], sl2[f], t, dp, f, n)
    <3>1. Framed(cs[f], sl[f], sy, dp, f, n)
      BY <1>1 DEF Inv, Placed
    <3>2. cs2[f] = cs[f] /\ sl2[f] = sl[f]
      BY <1>5, <1>11, <2>2
    <3>3. \A k \in 1..Len(sy) : k \in 1..Len(t) /\ t[k].fn = sy[k].fn /\ t[k].kind = sy[k].kind
                              /\ sy[k].names \subseteq t[k].names
      BY <1>1, <1>6
    <3>4. \A k \in 2..Len(sy) : k \in 1..Len(sy) /\ k \in 2..Len(t)
      BY <1>1, <1>4, <1>6
    <3>5. \A i : Waits(cs[f], sy, f, n, i) => Waits(cs2[f], t, f, n, i)
      BY <3>2, <3>3, <3>4 DEF Waits
    <3> QED
      BY <3>1, <3>2, <3>3, <3>5, FramedStays
  <2>3. /\ c.localCount \in 1..Len(c.locals) /\ Len(s) = c.localCount
        /\ s[1].var = Callee /\ c.locals[1].depth = 0
    <3>1. sl[n][1].var = Callee /\ cs[n].locals[1].depth = 0 /\ 1 \in 1..m
      BY <1>12, <2>1 DEF Framed
    <3> QED
      BY <1>10, <1>12, <3>1
  <2>4. ASSUME NEW i \in 1..(m + 1) PROVE s[i].var.name = c.locals[i].name
    <3>1. CASE i = m + 1
      <4>1. c.locals[i].name = v
        BY <1>12, <3>1 DEF Local
      <4>2. s[i].var.name = v
        BY <1>8, <1>10, <3>1
      <4> QED
        BY <4>1, <4>2
    <3>2. CASE i \in 1..m
      <4>1. sl[n][i].var.name = cs[n].locals[i].name
        BY <1>9, <2>1, <3>2 DEF Framed
      <4> QED
        BY <1>10, <1>12, <3>2, <4>1
    <3> QED
      BY <1>18, <3>1, <3>2
  <2>5. ASSUME NEW i \in 2..(m + 1)
        PROVE  LET k == s[i].var.scope IN
               /\ k \in 1..L /\ t[k].fn = n /\ s[i].var.name \in t[k].names
               /\ c.locals[i].depth = dp[k]
    <3>1. CASE i = m + 1
      <4>1. c.locals[i].depth = dp[L]
        BY <1>1, <1>4, <1>12, <3>1 DEF Inv, Depths, Local
      <4>2. s[i].var.scope = L /\ s[i].var.name = v /\ t[L].fn = n /\ v \in t[L].names
        BY <1>1, <1>4, <1>6, <1>8, <1>10, <3>1
      <4> QED
        BY <1>4, <4>1, <4>2
    <3>2. CASE i \in 2..m
      <4>1. PICK k : k = sl[n][i].var.scope
        OBVIOUS
      <4>2. /\ k \in 1..L /\ sy[k].fn = n /\ sl[n][i].var.name \in sy[k].names
            /\ cs[n].locals[i].depth = dp[k] \/ Waits(cs[n], sy, n, n, i)
        BY <1>1, <1>9, <2>1, <3>2, <4>1 DEF Framed
      <4>3. ~Waits(cs[n], sy, n, n, i)
        BY <1>4 DEF Waits
      <4>4. i \in 1..m /\ s[i] = sl[n][i] /\ c.locals[i] = cs[n].locals[i]
        BY <1>10, <1>12, <3>2
      <4>5. t[k].fn = sy[k].fn /\ sy[k].names \subseteq t[k].names
        BY <1>1, <1>6, <4>2
      <4> QED
        BY <4>1, <4>2, <4>3, <4>4, <4>5
    <3> QED
      BY <1>10, <3>1, <3>2
  <2>6. ASSUME NEW i \in 1..(m + 1), NEW j \in 1..(m + 1), i <= j
        PROVE  s[i].var.scope <= s[j].var.scope
    <3>1. CASE j \in 1..m
      <4>1. i \in 1..m
        BY <1>10, <2>6, <3>1
      <4> QED
        BY <1>9, <1>10, <2>1, <2>6, <3>1, <4>1 DEF Framed
    <3>2. CASE j = m + 1 /\ i \in 1..m
      BY <1>8, <1>10, <1>19, <3>2
    <3>3. CASE j = m + 1 /\ i = m + 1
      BY <1>4, <1>8, <1>10, <3>3
    <3> QED
      BY <1>18, <3>1, <3>2, <3>3
  <2>7. ASSUME NEW k \in 2..L, t[k].kind = "initializer"
        PROVE  LET r == sl2[t[k - 1].fn] IN Len(r) >= 2 /\ r[Len(r)].var.scope = k - 1
    <3>1. k \in 1..L /\ k - 1 \in 1..L /\ k # 1 /\ k - 1 # k
      BY <1>4
    <3>2. sy[k].kind = "initializer" /\ t[k - 1].fn = sy[k - 1].fn /\ sy[k].fn = t[k].fn
      BY <1>1, <1>6, <2>7, <3>1
    <3>3. sy[k].fn = sy[k - 1].fn + 1 /\ sy[k].fn <= n /\ 1 <= sy[k - 1].fn
      BY <1>1, <1>3, <1>4, <3>1, <3>2 DEF Tree, FunctionKinds
    <3>4. sy[k - 1] \in ConstructType
      BY <1>1, <1>3, <3>1 DEF Typed
    <3>5. sy[k - 1].fn \in 1..n /\ sy[k - 1].fn # n
      BY SMTT(40), <1>4, <3>3, <3>4 DEF ConstructType
    <3>6. sl2[sy[k - 1].fn] = sl[sy[k - 1].fn]
      BY <1>11, <3>5
    <3> QED
      BY <1>1, <3>2, <3>6 DEF Inv, Placed, Framed
  <2>8. Framed(c, s, t, dp, n, n)
    BY <1>6, <1>10, <2>3, <2>4, <2>5, <2>6 DEF Framed
  <2>9. \A f \in 1..n : Framed(cs2[f], sl2[f], t, dp, f, n)
    BY <1>5, <1>11, <2>2, <2>8
  <2> QED
    BY <1>5, <1>6, <2>7, <2>9 DEF Placed
<1>21. Named(sl2, t)
  <2> SUFFICES ASSUME NEW k \in 1..L, NEW w \in t[k].names
               PROVE  \E i \in 2..Len(sl2[t[k].fn]) : sl2[t[k].fn][i].var = Variable(w, k)
    BY <1>6 DEF Named
  <2>1. CASE k = L /\ w = v
    <3>1. m + 1 \in 2..Len(s)
      BY <1>10, <1>12
    <3> QED
      <4>1. t[k].fn = n /\ sl2[n] = s /\ s[m + 1].var = Variable(w, k)
        BY <1>1, <1>4, <1>6, <1>8, <1>10, <1>11, <2>1
      <4> QED
        BY <3>1, <4>1
  <2>2. CASE w \in sy[k].names
    <3>1. PICK i \in 2..Len(sl[sy[k].fn]) : sl[sy[k].fn][i].var = Variable(w, k)
      BY <1>1, <2>2 DEF Inv, Named
    <3>2. t[k].fn = sy[k].fn
      BY <1>1, <1>6
    <3>3. CASE sy[k].fn = n
      <4>1. i \in 1..m /\ i \in 2..Len(s)
        BY <1>9, <1>10, <3>1, <3>3
      <4> QED
        BY SMTT(40), <1>10, <1>11, <3>1, <3>2, <3>3, <4>1
    <3>4. CASE sy[k].fn # n
      <4>1. sy[k].fn \in 1..n
        <5>1. sy[1].fn <= sy[k].fn /\ sy[k].fn <= sy[L].fn /\ sy[1].fn = 1
          BY <1>1, <1>3, <1>4 DEF Tree
        <5>2. sy[k] \in ConstructType
          BY <1>1, <1>3 DEF Typed
        <5>3. sy[k].fn \in Nat
          BY <5>2 DEF ConstructType
        <5> QED
          BY <1>4, <5>1, <5>3
      <4> QED
        BY <1>11, <3>1, <3>2, <3>4, <4>1
    <3> QED
      BY <3>3, <3>4
  <2> QED
    BY <1>1, <1>6, <2>1, <2>2
<1>22. LoopsKept(cs2, t, dp)
  <2>1. \A q \in 0..L : Agree(sy, dp, t, dp, q)
    <3>1. \A q \in 0..L : \A j \in 1..q : j \in 1..L
      BY <1>4
    <3> QED
      BY <1>1, <1>6, <3>1 DEF Agree
  <2>2. ASSUME NEW f, NEW q \in 0..L PROVE LoopState(t, dp, f, q) = LoopState(sy, dp, f, q)
    <3>1. Agree(sy, dp, t, dp, q) /\ q \in Nat
      BY <2>1
    <3> QED
      BY <3>1, LoopStateSame
  <2>3. ASSUME NEW f \in 1..n PROVE Surrounding(cs2[f]) = LoopState(t, dp, f, L)
    <3>1. Surrounding(cs[f]) = LoopState(sy, dp, f, L) /\ L \in 0..L
      BY <1>1, <1>4 DEF Inv, LoopsKept
    <3> QED
      BY <1>5, <1>12, <2>2, <3>1
  <2>4. ASSUME NEW k \in 1..L, t[k].kind \in LoopKinds
        PROVE  t[k].surrounding = LoopState(t, dp, t[k].fn, k - 1)
    <3>1. k # L /\ t[k] = sy[k] /\ k - 1 \in 0..L
      BY <1>1, <1>4, <1>6, <2>4
    <3>2. LoopState(t, dp, t[k].fn, k - 1) = LoopState(sy, dp, t[k].fn, k - 1)
      BY <2>2, <3>1
    <3>3. sy[k].surrounding = LoopState(sy, dp, sy[k].fn, k - 1)
      BY <1>1, <2>4, <3>1 DEF Inv, LoopsKept
    <3> QED
      BY <3>1, <3>2, <3>3
  <2> QED
    BY <1>5, <1>6, <2>3, <2>4 DEF LoopsKept
<1>23. Entered(sl2, t)
  <2> SUFFICES ASSUME NEW k \in 1..L, t[k].kind \in LoopKinds
               PROVE  EnteredAt(sl2[t[k].fn], t[k], k)
    BY <1>6 DEF Entered
  <2>1. k # L /\ t[k] = sy[k] /\ k < L /\ k \in Nat
    BY <1>1, <1>4, <1>6
  <2>2. EnteredAt(sl[t[k].fn], t[k], k)
    BY <1>1, <2>1 DEF Inv, Entered
  <2>3. CASE t[k].fn = n
    <3>1. t[k] \in ConstructType
      BY <1>6
    <3>2. Len(t[k].entry) \in Nat
      BY <3>1 DEF ConstructType
    <3>3. EnteredAt(s, t[k], k)
      <4>1. /\ Len(t[k].entry) <= m
            /\ \A i \in 1..m : i <= Len(t[k].entry) <=> s[i].var.scope <= k
            /\ \A i \in 1..Len(t[k].entry) : t[k].entry[i] = sl[n][i].var
            /\ \A b \in t[k].breaks : b.fn = t[k].fn => b.stack = t[k].entry
            /\ \A j \in t[k].continues : j.start = k /\ j.stack = t[k].entry
        BY <1>9, <1>10, <2>2, <2>3 DEF EnteredAt
      <4>2. \A i \in 1..Len(t[k].entry) : i \in 1..m
        BY <1>10, <3>2, <4>1
      <4>3. ~(m + 1 <= Len(t[k].entry)) /\ ~(s[m + 1].var.scope <= k)
        BY <1>4, <1>8, <1>10, <2>1, <3>2, <4>1
      <4>4. \A i \in 1..(m + 1) : i <= Len(t[k].entry) <=> s[i].var.scope <= k
        BY <1>18, <4>1, <4>3
      <4>5. Len(t[k].entry) <= m + 1
        BY <1>10, <3>2, <4>1
      <4> QED
        BY <1>10, <4>1, <4>2, <4>4, <4>5 DEF EnteredAt
    <3> QED
      BY <1>11, <2>3, <3>3
  <2>4. CASE t[k].fn # n
    <3>1. t[k].fn \in 1..n
      <4>1. sy[1].fn <= sy[k].fn /\ sy[k].fn <= sy[L].fn /\ sy[1].fn = 1
        BY <1>1, <1>3, <1>4 DEF Tree
      <4>2. t[k] \in ConstructType
        BY <1>6
      <4>3. t[k].fn \in Nat
        BY <4>2 DEF ConstructType
      <4> QED
        BY <1>4, <2>1, <4>1, <4>3
    <3> QED
      BY <1>11, <2>2, <2>4, <3>1
  <2> QED
    BY <2>3, <2>4
<1>24. Marked(cs2, sl2)
  <2>1. \A f \in 1..n : f >= 2 => f - 1 \in 1..n /\ f - 1 # n
    BY <1>4
  <2>2. cs2[1].upvalues = <<>>
    <3>1. 1 \in 1..n /\ cs[1].upvalues = <<>>
      BY <1>1, <1>4 DEF Inv, Marked
    <3> QED
      BY <1>5, <1>12, <3>1
  <2>3. ASSUME NEW f \in 1..n, NEW u \in Elements(cs2[f].upvalues), u.isLocal
        PROVE  f >= 2 /\ u.index \in 1..cs2[f - 1].localCount
               /\ cs2[f - 1].locals[u.index].captured
    <3>1. cs2[f].upvalues = cs[f].upvalues
      BY <1>5, <1>12
    <3>2. f >= 2 /\ u.index \in 1..cs[f - 1].localCount /\ cs[f - 1].locals[u.index].captured
      BY <1>1, <2>3, <3>1 DEF Inv, Marked
    <3> QED
      BY <1>5, <2>1, <3>2
  <2>4. ASSUME NEW f \in 1..n, NEW i \in 1..Len(sl2[f]), sl2[f][i].captured
        PROVE  cs2[f].locals[i].captured
    <3>1. CASE f # n
      BY <1>1, <1>5, <1>11, <2>4, <3>1 DEF Inv, Marked
    <3>2. CASE f = n
      <4>1. i \in 1..m
        BY <1>8, <1>10, <1>11, <1>18, <2>4, <3>2
      <4>2. sl[n][i].captured
        BY <1>10, <1>11, <2>4, <3>2, <4>1
      <4>3. cs[n].locals[i].captured
        BY <1>1, <1>4, <1>9, <4>1, <4>2 DEF Inv, Marked
      <4> QED
        BY <1>5, <1>12, <3>2, <4>1, <4>3
    <3> QED
      BY <3>1, <3>2
  <2> QED
    BY <1>5, <2>2, <2>3, <2>4 DEF Marked
<1> QED
  BY <1>0, <1>1, <1>2, <1>4, <1>16, <1>17, <1>20, <1>21, <1>22, <1>23, <1>24 DEF Inv

(* A block ends, and what it declares leaves the frame. *)
LEMMA PopKeeps ==
  ASSUME NEW cs, NEW sl, NEW sy, NEW dp, Inv(cs, sl, sy, dp),
         Len(sy) >= 2, sy[Len(sy)].kind \in {"block", "body"},
         NEW c \in CompilerType, c.locals = cs[Len(cs)].locals,
         c.upvalues = cs[Len(cs)].upvalues, SameLoop(c, cs[Len(cs)]),
         c.scopeDepth = dp[Len(sy) - 1], c.localCount \in 1..cs[Len(cs)].localCount,
         \A i \in 1..Len(sl[Len(cs)]) :
           i <= c.localCount <=> sl[Len(cs)][i].var.scope < Len(sy)
  PROVE  Inv([cs EXCEPT ![Len(cs)] = c],
             [sl EXCEPT ![Len(sl)] = SubSeq(sl[Len(sl)], 1, c.localCount)],
             SubSeq(sy, 1, Len(sy) - 1), SubSeq(dp, 1, Len(sy) - 1))
<1>1. PICK n, L, m : n = Len(cs) /\ L = Len(sy) /\ m = c.localCount
  OBVIOUS
<1>2. PICK s : s = SubSeq(sl[n], 1, m)
  OBVIOUS
<1>3. PICK cs2, t, e, sl2 : /\ cs2 = [cs EXCEPT ![n] = c] /\ sl2 = [sl EXCEPT ![n] = s]
                            /\ t = SubSeq(sy, 1, L - 1) /\ e = SubSeq(dp, 1, L - 1)
  OBVIOUS
<1>4. /\ n \in Nat \ {0} /\ L \in Nat \ {0} /\ L - 1 \in Nat \ {0} /\ Len(sl) = n /\ Len(dp) = L
      /\ sy[L].fn = n /\ n \in 1..n /\ L \in 1..L /\ L - 1 \in 1..L /\ L - 1 \in 1..(L - 1)
      /\ \A k \in 1..L : sy[k] \in ConstructType /\ sy[k].fn \in 1..n
      /\ m \in Nat \ {0} /\ m \in 0..Len(sl[n]) /\ m <= Len(sl[n]) /\ Len(sl[n]) \in Nat
      /\ sl[n] \in Seq(SlotType)
  <2>1. n \in Nat \ {0} /\ L \in Nat \ {0} /\ n \in 1..n
    BY <1>1, Facts
  <2>2. Len(sl[n]) = cs[n].localCount /\ sl[n] \in Seq(SlotType) /\ Len(sl[n]) \in Nat
    BY <1>1, <2>1, Facts
  <2>3. m \in 1..Len(sl[n])
    BY <1>1, <2>2
  <2> QED
    BY SMTT(40), <1>1, <2>1, <2>2, <2>3, Facts
<1>5. /\ cs2 \in Seq(CompilerType) /\ Len(cs2) = n /\ cs2[n] = c
      /\ \A f \in 1..n : f # n => cs2[f] = cs[f]
  BY <1>1, <1>3, LastReplaced DEF Inv, Typed
<1>6. /\ s \in Seq(SlotType) /\ Len(s) = m /\ \A i \in 1..m : s[i] = sl[n][i]
  BY <1>2, <1>4, PrefixFacts
<1>7. /\ sl2 \in Seq(Seq(SlotType)) /\ Len(sl2) = n /\ sl2[n] = s
      /\ \A f \in 1..n : f # n => sl2[f] = sl[f]
  BY <1>1, <1>3, <1>4, <1>6, LastReplaced DEF Inv, Typed
<1>8. /\ t \in Seq(ConstructType) /\ Len(t) = L - 1 /\ \A k \in 1..(L - 1) : t[k] = sy[k]
      /\ e \in Seq(Nat) /\ Len(e) = L - 1 /\ \A k \in 1..(L - 1) : e[k] = dp[k]
  <2>1. sy \in Seq(ConstructType) /\ dp \in Seq(Nat) /\ L - 1 \in 0..L
    BY <1>4 DEF Inv, Typed
  <2>2. L - 1 \in 0..Len(sy) /\ L - 1 \in 0..Len(dp)
    BY <1>1, <1>4
  <2>3. t \in Seq(ConstructType) /\ Len(t) = L - 1 /\ \A k \in 1..(L - 1) : t[k] = sy[k]
    BY <1>3, <2>1, <2>2, PrefixFacts
  <2>4. e \in Seq(Nat) /\ Len(e) = L - 1 /\ \A k \in 1..(L - 1) : e[k] = dp[k]
    BY <1>3, <2>1, <2>2, PrefixFacts
  <2> QED
    BY <2>3, <2>4
<1>9. sy[L - 1].fn = n
  <2>1. L \in 2..Len(sy) /\ sy[L].kind \notin FunctionKinds
    BY <1>1, <1>4 DEF FunctionKinds
  <2> QED
    BY <1>4, <2>1 DEF Inv, Tree
<1>10. \A k \in 1..(L - 1) : k \in 1..L /\ k # L
  BY <1>4
<1>11. \A k \in 2..(L - 1) : k \in 2..L /\ k \in 1..(L - 1) /\ k - 1 \in 1..(L - 1)
  BY <1>4
<1>12. Typed(cs2, sl2, t, e)
  BY <1>4, <1>5, <1>7, <1>8 DEF Typed
<1>13. Tree(cs2, t)
  <2>1. t[1].fn = 1 /\ t[1].kind = "script" /\ 1 \in 1..(L - 1)
    <3>1. 1 \in 1..(L - 1) /\ t[1] = sy[1]
      BY <1>4, <1>8
    <3> QED
      BY <3>1 DEF Inv, Tree
  <2>2. \A k \in 2..(L - 1) : t[k].fn = IF t[k].kind \in FunctionKinds THEN t[k - 1].fn + 1
                                         ELSE t[k - 1].fn
    BY <1>1, <1>8, <1>11 DEF Inv, Tree
  <2>3. \A j, k \in 1..(L - 1) : j <= k => t[j].fn <= t[k].fn
    BY <1>1, <1>8, <1>10 DEF Inv, Tree
  <2>4. Len(t) = L - 1 /\ L - 1 >= 1
    BY <1>4, <1>8
  <2>5. t[L - 1].fn = Len(cs2)
    <3>1. t[L - 1] = sy[L - 1]
      BY <1>4, <1>8
    <3> QED
      BY <1>5, <1>9, <3>1
  <2> QED
    BY <2>1, <2>2, <2>3, <2>4, <2>5 DEF Tree
<1>14. Depths(cs2, t, e)
  <2>1. e[1] = 0 /\ 1 \in 1..(L - 1)
    <3>1. 1 \in 1..(L - 1) /\ e[1] = dp[1]
      BY <1>4, <1>8
    <3> QED
      BY <3>1 DEF Inv, Depths
  <2>2. \A k \in 2..(L - 1) : IF t[k].kind \in FunctionKinds THEN e[k] = 1
                              ELSE e[k] \in {e[k - 1], e[k - 1] + 1}
    BY <1>1, <1>8, <1>11 DEF Inv, Depths
  <2>3. ASSUME NEW j \in 1..(L - 1), NEW k \in 1..(L - 1), j <= k, t[j].fn = t[k].fn
        PROVE  e[j] <= e[k]
    <3>1. j \in 1..L /\ k \in 1..L /\ sy[j].fn = sy[k].fn
      BY <1>8, <1>10, <2>3
    <3>2. dp[j] <= dp[k]
      BY <1>1, <2>3, <3>1 DEF Inv, Depths
    <3> QED
      BY <1>8, <3>2
  <2>4. ASSUME NEW k \in 1..(L - 1), k = L - 1 \/ t[k + 1].fn # t[k].fn
        PROVE  cs2[t[k].fn].scopeDepth = e[k]
    <3>1. CASE k = L - 1
      BY <1>1, <1>4, <1>5, <1>8, <1>9, <3>1
    <3>2. CASE k # L - 1
      <4>1. k + 1 \in 1..(L - 1) /\ k \in 1..L /\ k + 1 \in 1..L /\ k <= k + 1 /\ k # L /\ k + 1 <= L
        BY <1>4, <3>2
      <4>2. sy[k + 1].fn # sy[k].fn
        BY <1>8, <2>4, <3>2, <4>1
      <4>3. cs[sy[k].fn].scopeDepth = dp[k]
        BY <1>1, <4>1, <4>2 DEF Inv, Depths
      <4>4. sy[k].fn <= sy[k + 1].fn /\ sy[k + 1].fn <= sy[L].fn
        BY <1>1, <1>4, <4>1 DEF Inv, Tree
      <4>5. sy[k].fn \in 1..n /\ sy[k + 1].fn \in 1..n
        BY <1>4, <4>1
      <4>6. sy[k].fn # n
        <5>1. ASSUME sy[k].fn = n PROVE FALSE
          <6>1. PICK q : q = sy[k + 1].fn
            OBVIOUS
          <6>2. n <= q /\ q <= n /\ q \in 1..n /\ n \in Nat /\ q # n
            BY <1>4, <4>2, <4>4, <4>5, <5>1, <6>1
          <6> QED
            BY <6>2
        <5> QED
          BY <5>1
      <4> QED
        BY <1>5, <1>8, <4>3, <4>5, <4>6
    <3> QED
      BY <3>1, <3>2
  <2>5. \A k \in 1..(L - 1) : t[k].names # {} => Opens(t, e, k)
    <3>1. \A k \in 1..(L - 1) : k >= 2 => k \in 2..(L - 1)
      BY <1>4
    <3> QED
      BY <1>1, <1>8, <1>10, <1>11, <3>1 DEF Inv, Depths, Opens
  <2> QED
    BY <1>8, <2>1, <2>2, <2>3, <2>4, <2>5 DEF Depths
<1>15. Placed(cs2, sl2, t, e)
  <2>1. ASSUME NEW f \in 1..n, f # n PROVE Framed(cs2[f], sl2[f], t, e, f, n)
    <3>1. Framed(cs[f], sl[f], sy, dp, f, n)
      BY <1>1, Facts
    <3>2. cs2[f] = cs[f] /\ sl2[f] = sl[f]
      BY <1>5, <1>7, <2>1
    <3>3. \A k \in 1..Len(sy) : sy[k].fn = f => k \in 1..(L - 1)
      BY <1>1, <1>4, <2>1
    <3>4. \A k \in 2..L : sy[k].kind = "initializer" => k \in 2..(L - 1)
      BY <1>1, <1>4
    <3>5. \A i : Waits(cs[f], sy, f, n, i) => Waits(cs2[f], t, f, n, i)
      BY <1>1, <1>8, <1>11, <3>2, <3>4 DEF Waits
    <3>6. \A k \in 1..Len(sy) : sy[k].fn = f =>
            k \in 1..Len(t) /\ t[k].fn = f /\ sy[k].names \subseteq t[k].names /\ e[k] = dp[k]
      BY <1>8, <3>3
    <3> QED
      BY <3>1, <3>2, <3>5, <3>6, FramedStays
  <2>2. Framed(cs[n], sl[n], sy, dp, n, n)
    BY <1>1, <1>4, Facts
  <2>3. /\ m \in 1..Len(c.locals) /\ s[1].var = Callee /\ c.locals[1].depth = 0
        /\ \A i \in 1..m : i \in 1..Len(sl[n]) /\ s[i].var.name = c.locals[i].name
        /\ \A i, j \in 1..m : i <= j => s[i].var.scope <= s[j].var.scope
    <3>1. cs[n].localCount \in 1..Len(cs[n].locals) /\ Len(cs[n].locals) \in Nat
          /\ Len(sl[n]) = cs[n].localCount
      BY <1>1, <1>4, Facts
    <3>2. \A i \in 1..m : i \in 1..Len(sl[n])
      BY <1>4
    <3>3. m \in 1..Len(c.locals) /\ 1 \in 1..m
      BY <1>1, <1>4, <3>1
    <3> QED
      BY <1>1, <1>6, <2>2, <3>2, <3>3 DEF Framed
  <2>4. ASSUME NEW i \in 2..m
        PROVE  LET k == s[i].var.scope IN
               /\ k \in 1..(L - 1) /\ t[k].fn = n /\ s[i].var.name \in t[k].names
               /\ c.locals[i].depth = e[k]
    <3>1. i \in 1..m /\ i \in 2..Len(sl[n]) /\ i \in 1..Len(sl[n]) /\ i <= m
      BY <1>4
    <3>2. PICK k : k = sl[n][i].var.scope
      OBVIOUS
    <3>3. /\ k \in 1..L /\ sy[k].fn = n /\ sl[n][i].var.name \in sy[k].names
          /\ cs[n].locals[i].depth = dp[k] \/ Waits(cs[n], sy, n, n, i)
      BY <1>1, <2>2, <3>1, <3>2 DEF Framed
    <3>4. k < L
      BY <1>1, <3>1, <3>2
    <3>5. k \in 1..(L - 1)
      BY <1>4, <3>3, <3>4
    <3>6. ~Waits(cs[n], sy, n, n, i)
      BY <1>4 DEF Waits
    <3> QED
      BY ZenonT(60), <1>1, <1>6, <1>8, <3>1, <3>2, <3>3, <3>5, <3>6
  <2>5. Framed(c, s, t, e, n, n)
    BY <1>1, <1>6, <1>8, <2>3, <2>4 DEF Framed
  <2>6. ASSUME NEW k \in 2..(L - 1), t[k].kind = "initializer"
        PROVE  LET r == sl2[t[k - 1].fn] IN Len(r) >= 2 /\ r[Len(r)].var.scope = k - 1
    <3>1. sy[k].kind = "initializer" /\ t[k - 1].fn = sy[k - 1].fn /\ k \in 2..L /\ k \in 1..L
          /\ k - 1 \in 1..L
      BY <1>8, <1>10, <1>11, <2>6
    <3>2. sy[k].fn = sy[k - 1].fn + 1
      BY <1>1, <3>1 DEF Inv, Tree, FunctionKinds
    <3>3. sy[k - 1].fn \in 1..n /\ sy[k].fn \in 1..n
      BY <1>4, <3>1
    <3>5. sy[k - 1].fn # n
      BY <1>4, <3>2, <3>3
    <3>4. sl2[sy[k - 1].fn] = sl[sy[k - 1].fn]
      BY <1>7, <3>3, <3>5
    <3> QED
      BY <1>1, <3>1, <3>4 DEF Inv, Placed
  <2> QED
    BY <1>5, <1>7, <1>8, <2>1, <2>5, <2>6 DEF Placed
<1>16. Named(sl2, t)
  <2> SUFFICES ASSUME NEW k \in 1..(L - 1), NEW w \in t[k].names
               PROVE  \E i \in 2..Len(sl2[t[k].fn]) : sl2[t[k].fn][i].var = Variable(w, k)
    BY <1>8 DEF Named
  <2>1. t[k] = sy[k] /\ k \in 1..L /\ sy[k].fn \in 1..n
    BY <1>4, <1>8, <1>10
  <2>2. PICK i \in 2..Len(sl[sy[k].fn]) : sl[sy[k].fn][i].var = Variable(w, k)
    BY <1>1, <2>1 DEF Inv, Named
  <2>3. CASE sy[k].fn = n
    <3>1. sl[n][i].var.scope = k /\ i \in 1..Len(sl[n])
      BY <1>4, <2>2, <2>3 DEF Variable
    <3>2. k < L
      BY <1>4
    <3>3. i <= m
      BY <1>1, <3>1, <3>2
    <3>4. i \in 2..m /\ i \in 1..m
      BY <1>4, <2>2, <2>3, <3>3
    <3> QED
      BY <1>6, <1>7, <2>1, <2>2, <2>3, <3>4
  <2>4. CASE sy[k].fn # n
    BY <1>7, <2>1, <2>2, <2>4
  <2> QED
    BY <2>3, <2>4
<1>17. LoopsKept(cs2, t, e)
  <2>1. \A q \in 0..(L - 1) : Agree(sy, dp, t, e, q)
    <3>1. \A q \in 0..(L - 1) : \A j \in 1..q : j \in 1..(L - 1)
      BY <1>4
    <3> QED
      BY <1>8, <3>1 DEF Agree
  <2>2. ASSUME NEW f, NEW q \in 0..(L - 1) PROVE LoopState(t, e, f, q) = LoopState(sy, dp, f, q)
    <3>1. Agree(sy, dp, t, e, q) /\ q \in Nat
      BY <2>1
    <3> QED
      BY <3>1, LoopStateSame
  <2>3. ASSUME NEW f \in 1..n PROVE Surrounding(cs2[f]) = LoopState(t, e, f, L - 1)
    <3>1. Surrounding(cs[f]) = LoopState(sy, dp, f, L)
      BY <1>1 DEF Inv, LoopsKept
    <3>2. sy[(L - 1) + 1].kind \notin LoopKinds /\ L - 1 \in Nat /\ (L - 1) + 1 = L
      BY <1>1, <1>4 DEF LoopKinds
    <3>3. LoopState(sy, dp, f, L) = LoopState(sy, dp, f, L - 1)
      BY <3>2, LoopStateNext
    <3>4. Surrounding(cs2[f]) = Surrounding(cs[f])
      BY <1>1, <1>5 DEF Surrounding, SameLoop
    <3>5. L - 1 \in 0..(L - 1)
      BY <1>4
    <3> QED
      BY <2>2, <3>1, <3>3, <3>4, <3>5
  <2>4. ASSUME NEW k \in 1..(L - 1), t[k].kind \in LoopKinds
        PROVE  t[k].surrounding = LoopState(t, e, t[k].fn, k - 1)
    <3>1. t[k] = sy[k] /\ k - 1 \in 0..(L - 1) /\ k \in 1..L
      BY <1>4, <1>8, <1>10
    <3>2. LoopState(t, e, t[k].fn, k - 1) = LoopState(sy, dp, t[k].fn, k - 1)
      BY <2>2, <3>1
    <3> QED
      BY <1>1, <2>4, <3>1, <3>2 DEF Inv, LoopsKept
  <2> QED
    BY <1>5, <1>8, <2>3, <2>4 DEF LoopsKept
<1>18. Entered(sl2, t)
  <2> SUFFICES ASSUME NEW k \in 1..(L - 1), t[k].kind \in LoopKinds
               PROVE  EnteredAt(sl2[t[k].fn], t[k], k)
    BY <1>8 DEF Entered
  <2>1. t[k] = sy[k] /\ k \in 1..L /\ t[k].fn \in 1..n /\ k < L
    <3>1. k \in 1..L /\ k < L
      BY <1>4
    <3>2. t[k] = sy[k]
      BY <1>8
    <3> QED
      BY <1>4, <1>10, <3>1, <3>2
  <2>2. EnteredAt(sl[t[k].fn], t[k], k)
    BY <1>1, <2>1 DEF Inv, Entered
  <2>3. CASE t[k].fn = n
    <3>1. Len(t[k].entry) \in Nat
      BY <1>4, <2>1 DEF ConstructType
    <3>2. PICK q : q = Len(t[k].entry)
      OBVIOUS
    <3>3. /\ q <= Len(sl[n])
          /\ \A i \in 1..Len(sl[n]) : i <= q <=> sl[n][i].var.scope <= k
          /\ \A i \in 1..q : t[k].entry[i] = sl[n][i].var
          /\ \A b \in t[k].breaks : b.fn = t[k].fn => b.stack = t[k].entry
          /\ \A j \in t[k].continues : j.start = k /\ j.stack = t[k].entry
      BY <2>2, <2>3, <3>2 DEF EnteredAt
    <3>4. q <= m
      <4>1. CASE q = 0
        BY <1>4, <4>1
      <4>2. CASE q # 0
        <5>1. q \in 1..Len(sl[n]) /\ q <= q
          BY <1>4, <3>1, <3>2, <3>3, <4>2
        <5>2. sl[n][q].var.scope <= k /\ sl[n][q].var.scope \in 0..L
          BY SMTT(40), <1>1, <1>4, <3>3, <5>1, Facts
        <5>3. sl[n][q].var.scope < L
          BY SMTT(40), <1>4, <2>1, <5>2
        <5> QED
          BY <1>1, <5>1, <5>3
      <4> QED
        BY <4>1, <4>2
    <3>5. \A i \in 1..m : i \in 1..Len(sl[n])
      BY <1>4
    <3>6. \A i \in 1..q : i \in 1..m
      BY <1>4, <3>1, <3>2, <3>4
    <3>7. EnteredAt(s, t[k], k)
      BY <1>6, <3>2, <3>3, <3>4, <3>5, <3>6 DEF EnteredAt
    <3> QED
      BY <1>7, <2>3, <3>7
  <2>4. CASE t[k].fn # n
    BY <1>7, <2>1, <2>2, <2>4
  <2> QED
    BY <2>3, <2>4
<1>19. Marked(cs2, sl2)
  <2>1. \A f \in 1..n : f >= 2 => f - 1 \in 1..n /\ f - 1 # n
    BY <1>4
  <2>2. \A f \in 1..n : cs2[f].upvalues = cs[f].upvalues /\ cs2[f].locals = cs[f].locals
    BY <1>1, <1>5
  <2>3. cs2[1].upvalues = <<>>
    <3>1. 1 \in 1..n /\ cs[1].upvalues = <<>>
      BY <1>4 DEF Inv, Marked
    <3> QED
      BY <2>2, <3>1
  <2>4. ASSUME NEW f \in 1..n, NEW u \in Elements(cs2[f].upvalues), u.isLocal
        PROVE  f >= 2 /\ u.index \in 1..cs2[f - 1].localCount
               /\ cs2[f - 1].locals[u.index].captured
    <3>1. f >= 2 /\ u.index \in 1..cs[f - 1].localCount /\ cs[f - 1].locals[u.index].captured
      BY <1>1, <2>2, <2>4 DEF Inv, Marked
    <3> QED
      BY <1>5, <2>1, <3>1
  <2>5. ASSUME NEW f \in 1..n, NEW i \in 1..Len(sl2[f]), sl2[f][i].captured
        PROVE  cs2[f].locals[i].captured
    <3>1. i \in 1..Len(sl[f]) /\ sl[f][i].captured
      <4>1. CASE f = n
        <5>1. i \in 1..m /\ i \in 1..Len(sl[n])
          BY <1>4, <1>6, <1>7, <2>5, <4>1
        <5> QED
          BY <1>6, <1>7, <2>5, <4>1, <5>1
      <4>2. CASE f # n
        BY <1>7, <2>5, <4>2
      <4> QED
        BY <4>1, <4>2
    <3> QED
      BY <1>1, <2>2, <3>1 DEF Inv, Marked
  <2> QED
    BY <1>5, <2>3, <2>4, <2>5 DEF Marked
<1>20. [sl EXCEPT ![Len(sl)] = SubSeq(sl[Len(sl)], 1, c.localCount)] = sl2
  BY <1>1, <1>2, <1>3, <1>4
<1> QED
  BY <1>1, <1>3, <1>12, <1>13, <1>14, <1>15, <1>16, <1>17, <1>18, <1>19, <1>20 DEF Inv

(* A function begins; as the initializer of a variable, it comes before    *)
(* that variable is initialized.                                           *)
AsBefore(d, c) ==
  /\ d.localCount = c.localCount /\ Len(d.locals) = Len(c.locals)
  /\ d.scopeDepth = c.scopeDepth /\ d.upvalues = c.upvalues /\ SameLoop(d, c)
  /\ \A i \in 1..c.localCount :
       /\ d.locals[i].name = c.locals[i].name /\ d.locals[i].captured = c.locals[i].captured
       /\ i # c.localCount => d.locals[i].depth = c.locals[i].depth

LEMMA NewCompilerTyped ==
  /\ NewCompiler(1) \in CompilerType /\ Len(NewCompiler(1).locals) = 1
  /\ NewCompiler(1).localCount = 1 /\ NewCompiler(1).scopeDepth = 1
  /\ NewCompiler(1).locals[1] = Local(Unnamed, 0) /\ NewCompiler(1).upvalues = <<>>
  /\ Surrounding(NewCompiler(1)) = [loopType |-> "none", loopStart |-> 0, loopDepth |-> 0]
<1>1. Local(Unnamed, 0) \in LocalType
  BY DEF Local, LocalType, Word
<1>2. <<Local(Unnamed, 0)>> \in Seq(LocalType)
  BY <1>1
<1>3. <<>> \in Seq([index : Nat, isLocal : BOOLEAN])
  OBVIOUS
<1> QED
  BY <1>2, <1>3 DEF NewCompiler, CompilerType, Surrounding

LEMMA NewFunctionKeeps ==
  ASSUME NEW cs, NEW sl, NEW sy, NEW dp, Inv(cs, sl, sy, dp),
         NEW x \in ConstructType, x.kind \in FunctionKinds, x.fn = Len(cs) + 1, x.names = {},
         NEW d \in CompilerType, AsBefore(d, cs[Len(cs)]),
         IF x.kind = "initializer"
         THEN /\ d.locals[d.localCount].depth = -1 /\ d.localCount >= 2
              /\ sl[Len(cs)][d.localCount].var.scope = Len(sy)
         ELSE d.locals[d.localCount].depth = cs[Len(cs)].locals[d.localCount].depth
  PROVE  Inv(Append([cs EXCEPT ![Len(cs)] = d], NewCompiler(1)),
             Append(sl, <<Holding(Callee)>>), Append(sy, x), Append(dp, 1))
<1>1. PICK n, L, w : n = Len(cs) /\ L = Len(sy) /\ w = NewCompiler(1)
  OBVIOUS
<1>2. PICK r, cs1 : r = <<Holding(Callee)>> /\ cs1 = [cs EXCEPT ![n] = d]
  OBVIOUS
<1>3. PICK cs2, t, e, sl2 : /\ cs2 = Append(cs1, w) /\ sl2 = Append(sl, r)
                            /\ t = Append(sy, x) /\ e = Append(dp, 1)
  OBVIOUS
<1>4. /\ n \in Nat \ {0} /\ L \in Nat \ {0} /\ Len(sl) = n /\ Len(dp) = L
      /\ sy[L].fn = n /\ n \in 1..n /\ L \in 1..L
      /\ \A k \in 1..L : sy[k] \in ConstructType /\ sy[k].fn \in 1..n /\ dp[k] \in Nat
      /\ x.fn = n + 1
  BY <1>1, Facts
<1>5. /\ cs1 \in Seq(CompilerType) /\ Len(cs1) = n /\ cs1[n] = d
      /\ \A f \in 1..n : f # n => cs1[f] = cs[f]
  BY <1>1, <1>2, LastReplaced DEF Inv, Typed
<1>6. /\ w \in CompilerType /\ Len(w.locals) = 1 /\ w.localCount = 1 /\ w.scopeDepth = 1
      /\ w.locals[1] = Local(Unnamed, 0) /\ w.upvalues = <<>>
      /\ Surrounding(w) = [loopType |-> "none", loopStart |-> 0, loopDepth |-> 0]
  BY <1>1, NewCompilerTyped
<1>7. /\ cs2 \in Seq(CompilerType) /\ Len(cs2) = n + 1 /\ cs2[n + 1] = w /\ cs2[n] = d
      /\ \A f \in 1..n : cs2[f] = cs1[f] /\ (f # n => cs2[f] = cs[f])
  BY <1>3, <1>4, <1>5, <1>6, AppendFacts
<1>8. Holding(Callee) \in SlotType /\ Holding(Callee).var = Callee /\ ~Holding(Callee).captured
  BY DEF Holding, Callee, Variable, SlotType, VarType, Word
<1>9. r \in Seq(SlotType) /\ Len(r) = 1 /\ r[1] = Holding(Callee)
  BY <1>2, <1>8
<1>10. /\ sl2 \in Seq(Seq(SlotType)) /\ Len(sl2) = n + 1 /\ sl2[n + 1] = r
       /\ \A f \in 1..n : sl2[f] = sl[f]
  <2>1. sl \in Seq(Seq(SlotType))
    BY DEF Inv, Typed
  <2> QED
    BY SMTT(40), <1>3, <1>4, <1>9, <2>1, AppendFacts
<1>11. /\ t \in Seq(ConstructType) /\ Len(t) = L + 1 /\ t[L + 1] = x
       /\ \A k \in 1..L : t[k] = sy[k]
  BY <1>1, <1>3, <1>4, AppendFacts DEF Inv, Typed
<1>12. /\ e \in Seq(Nat) /\ Len(e) = L + 1 /\ e[L + 1] = 1
       /\ \A k \in 1..L : e[k] = dp[k]
  <2>1. dp \in Seq(Nat) /\ 1 \in Nat /\ Len(dp) = L
    BY <1>3, <1>4 DEF Inv, Typed
  <2> QED
    BY <1>3, <2>1, AppendFacts
<1>13. /\ \A k \in 1..(L + 1) : k \in 1..L \/ k = L + 1
       /\ \A f \in 1..(n + 1) : f \in 1..n \/ f = n + 1
       /\ \A k \in 2..(L + 1) : \/ k \in 2..L /\ k \in 1..L /\ k - 1 \in 1..L
                                \/ k = L + 1 /\ k - 1 = L
  <2>1. \A k \in 1..(L + 1) : k \in 1..L \/ k = L + 1
    BY <1>4
  <2>2. \A f \in 1..(n + 1) : f \in 1..n \/ f = n + 1
    BY <1>4
  <2>3. \A k \in 2..(L + 1) : \/ k \in 2..L /\ k \in 1..L /\ k - 1 \in 1..L
                              \/ k = L + 1 /\ k - 1 = L
    BY <1>4
  <2> QED
    BY <2>1, <2>2, <2>3
<1>14. Typed(cs2, sl2, t, e)
  BY <1>4, <1>7, <1>10, <1>11, <1>12 DEF Typed
<1>15. Tree(cs2, t)
  <2>1. t[1].fn = 1 /\ t[1].kind = "script" /\ 1 \in 1..L
    BY <1>4, <1>11 DEF Inv, Tree
  <2>2. ASSUME NEW k \in 2..(L + 1)
        PROVE  t[k].fn = IF t[k].kind \in FunctionKinds THEN t[k - 1].fn + 1 ELSE t[k - 1].fn
    <3>1. CASE k = L + 1
      BY <1>4, <1>11, <1>13, <3>1
    <3>2. CASE k # L + 1
      <4>1. k \in 2..L /\ t[k] = sy[k] /\ t[k - 1] = sy[k - 1]
        BY <1>11, <1>13, <3>2
      <4> QED
        BY <1>1, <4>1 DEF Inv, Tree
    <3> QED
      BY <3>1, <3>2
  <2>3. ASSUME NEW j \in 1..(L + 1), NEW k \in 1..(L + 1), j <= k PROVE t[j].fn <= t[k].fn
    <3>1. CASE k = L + 1
      <4>1. CASE j = L + 1
        BY <1>4, <1>11, <3>1, <4>1
      <4>2. CASE j # L + 1
        <5>1. t[j] = sy[j] /\ sy[j].fn \in 1..n
          BY <1>4, <1>11, <1>13, <4>2
        <5> QED
          BY <1>4, <1>11, <3>1, <5>1
      <4> QED
        BY <4>1, <4>2
    <3>2. CASE k # L + 1
      <4>1. k \in 1..L
        BY <1>13, <3>2
      <4>2. j \in 1..L
        BY <1>4, <2>3, <4>1
      <4> QED
        BY <1>1, <1>11, <2>3, <4>1, <4>2 DEF Inv, Tree
    <3> QED
      BY <3>1, <3>2
  <2> QED
    BY <1>4, <1>7, <1>11, <2>1, <2>2, <2>3 DEF Tree
<1>16. Depths(cs2, t, e)
  <2>1. e[1] = 0
    <3>1. dp[1] = 0 /\ 1 \in 1..L
      BY <1>4 DEF Inv, Depths
    <3> QED
      BY <1>12, <3>1
  <2>2. ASSUME NEW k \in 2..(L + 1)
        PROVE  IF t[k].kind \in FunctionKinds THEN e[k] = 1
               ELSE e[k] \in {e[k - 1], e[k - 1] + 1}
    <3>1. CASE k = L + 1
      BY <1>11, <1>12, <3>1
    <3>2. CASE k # L + 1
      <4>1. k \in 2..L /\ t[k] = sy[k] /\ e[k] = dp[k] /\ e[k - 1] = dp[k - 1]
        BY <1>11, <1>12, <1>13, <3>2
      <4> QED
        BY <1>1, <4>1 DEF Inv, Depths
    <3> QED
      BY <3>1, <3>2
  <2>3. ASSUME NEW j \in 1..(L + 1), NEW k \in 1..(L + 1), j <= k, t[j].fn = t[k].fn
        PROVE  e[j] <= e[k]
    <3>1. CASE k = L + 1
      <4>1. j = L + 1
        <5>1. ASSUME j # L + 1 PROVE FALSE
          <6>1. j \in 1..L /\ t[j].fn \in 1..n /\ t[j].fn = n + 1
            BY <1>4, <1>11, <1>13, <2>3, <3>1, <5>1
          <6> QED
            BY <1>4, <6>1
        <5> QED
          BY <5>1
      <4> QED
        BY <1>12, <3>1, <4>1
    <3>2. CASE k # L + 1
      <4>1. k \in 1..L
        BY <1>13, <3>2
      <4>2. j \in 1..L
        BY <1>4, <2>3, <4>1
      <4> QED
        BY <1>1, <1>11, <1>12, <2>3, <4>1, <4>2 DEF Inv, Depths
    <3> QED
      BY <3>1, <3>2
  <2>4. ASSUME NEW k \in 1..(L + 1), k = L + 1 \/ t[k + 1].fn # t[k].fn
        PROVE  cs2[t[k].fn].scopeDepth = e[k]
    <3>1. CASE k = L + 1
      BY <1>4, <1>6, <1>7, <1>11, <1>12, <3>1
    <3>2. CASE k = L
      <4>1. cs[n].scopeDepth = dp[L]
        BY <1>1, <1>4 DEF Inv, Depths
      <4>2. d.scopeDepth = cs[n].scopeDepth
        BY <1>1 DEF AsBefore
      <4> QED
        BY <1>4, <1>7, <1>11, <1>12, <3>2, <4>1, <4>2
    <3>3. CASE k \in 1..L /\ k # L
      <4>1. k \in 1..L /\ k + 1 \in 1..L /\ k # L + 1
        BY <1>4, <3>3
      <4>2. sy[k + 1].fn # sy[k].fn
        BY <1>11, <2>4, <4>1
      <4>3. cs[sy[k].fn].scopeDepth = dp[k]
        BY <1>1, <4>1, <4>2 DEF Inv, Depths
      <4>4. sy[k].fn \in 1..n /\ \A f \in 1..n : cs2[f].scopeDepth = cs[f].scopeDepth
        BY <1>1, <1>4, <1>7, <4>1 DEF AsBefore
      <4> QED
        BY <1>11, <1>12, <4>1, <4>3, <4>4
    <3> QED
      BY <1>13, <3>1, <3>2, <3>3
  <2>5. ASSUME NEW k \in 1..(L + 1), t[k].names # {} PROVE Opens(t, e, k)
    <3>1. k \in 1..L /\ t[k] = sy[k]
      BY <1>11, <1>13, <2>5
    <3>2. Opens(sy, dp, k)
      BY <1>1, <2>5, <3>1 DEF Inv, Depths
    <3>3. k >= 2 /\ k - 1 \in 1..L
      BY <1>4, <3>1, <3>2 DEF Opens
    <3> QED
      BY <1>12, <3>1, <3>2, <3>3 DEF Opens
  <2> QED
    BY <1>11, <2>1, <2>2, <2>3, <2>4, <2>5 DEF Depths
<1>17. \A k \in 1..Len(sy) :
         k \in 1..Len(t) /\ t[k] = sy[k] /\ sy[k].names \subseteq t[k].names /\ e[k] = dp[k]
  BY <1>1, <1>4, <1>11, <1>12
<1>18. Placed(cs2, sl2, t, e)
  <2>1. ASSUME NEW f \in 1..n, f # n PROVE Framed(cs2[f], sl2[f], t, e, f, n + 1)
    <3>1. Framed(cs[f], sl[f], sy, dp, f, n) /\ cs2[f] = cs[f] /\ sl2[f] = sl[f]
      BY <1>1, <1>7, <1>10, <2>1, Facts
    <3>2. \A k \in 2..L : k \in 2..(L + 1) /\ t[k] = sy[k]
      BY <1>4, <1>11
    <3>3. f < n + 1
      BY <1>4
    <3>4. \A i : Waits(cs[f], sy, f, n, i) => Waits(cs2[f], t, f, n + 1, i)
      BY <1>1, <1>11, <3>1, <3>2, <3>3 DEF Waits
    <3> QED
      BY <1>17, <3>1, <3>4, FramedStays
  <2>2. Framed(cs[n], sl[n], sy, dp, n, n) /\ cs[n].localCount \in 1..Len(cs[n].locals)
        /\ Len(sl[n]) = cs[n].localCount /\ Len(sl[n]) \in Nat
    BY <1>1, <1>4, Facts
  <2>3. /\ d.localCount = Len(sl[n]) /\ d.localCount \in 1..Len(d.locals)
        /\ \A i \in 1..Len(sl[n]) : d.locals[i].name = cs[n].locals[i].name
        /\ \A i \in 1..Len(sl[n]) : i # d.localCount => d.locals[i].depth = cs[n].locals[i].depth
    BY <1>1, <2>2 DEF AsBefore
  <2>4. d.locals[1].depth = 0
    <3>1. CASE d.localCount # 1
      BY <2>2, <2>3, <3>1 DEF Framed
    <3>2. CASE d.localCount = 1
      BY <1>1, <2>2, <3>2 DEF Framed
    <3> QED
      BY <3>1, <3>2
  <2>5. ASSUME NEW i \in 2..Len(sl[n])
        PROVE  LET k == sl[n][i].var.scope IN
               /\ k \in 1..(L + 1) /\ t[k].fn = n /\ sl[n][i].var.name \in t[k].names
               /\ d.locals[i].depth = e[k] \/ Waits(d, t, n, n + 1, i)
    <3>1. PICK k : k = sl[n][i].var.scope
      OBVIOUS
    <3>2. /\ k \in 1..L /\ sy[k].fn = n /\ sl[n][i].var.name \in sy[k].names
          /\ cs[n].locals[i].depth = dp[k] \/ Waits(cs[n], sy, n, n, i)
      BY <1>1, <2>2, <3>1 DEF Framed
    <3>3. ~Waits(cs[n], sy, n, n, i)
      BY <1>4 DEF Waits
    <3>4. i \in 1..Len(sl[n])
      OBVIOUS
    <3>5. d.locals[i].depth = dp[k] \/ Waits(d, t, n, n + 1, i)
      <4>1. CASE i # d.localCount \/ x.kind # "initializer"
        BY <1>1, <2>3, <3>2, <3>3, <3>4, <4>1
      <4>2. CASE i = d.localCount /\ x.kind = "initializer"
        <5>1. L + 1 \in 2..(L + 1) /\ n < n + 1
          BY <1>4
        <5> QED
          BY <1>4, <1>11, <4>2, <5>1 DEF Waits
      <4> QED
        BY <4>1, <4>2
    <3> QED
      BY <1>1, <1>17, <1>11, <3>1, <3>2, <3>5
  <2>6. Framed(d, sl[n], t, e, n, n + 1)
    <3>1. /\ sl[n][1].var = Callee
          /\ \A i \in 1..Len(sl[n]) : sl[n][i].var.name = d.locals[i].name
          /\ \A i, j \in 1..Len(sl[n]) : i <= j => sl[n][i].var.scope <= sl[n][j].var.scope
      BY <2>2, <2>3 DEF Framed
    <3> QED
      BY <1>11, <2>3, <2>4, <2>5, <3>1 DEF Framed
  <2>7. Framed(w, r, t, e, n + 1, n + 1)
    <3>1. \A i \in 1..1 : i = 1
      OBVIOUS
    <3>2. Local(Unnamed, 0).name = Callee.name /\ Local(Unnamed, 0).depth = 0
          /\ Callee.scope <= Callee.scope
      BY DEF Local, Callee, Variable
    <3>3. \A i \in 1..Len(r) : r[i].var.name = w.locals[i].name
      BY <1>6, <1>8, <1>9, <3>1, <3>2
    <3>4. \A i, j \in 1..Len(r) : i <= j => r[i].var.scope <= r[j].var.scope
      BY <1>8, <1>9, <3>1, <3>2
    <3>5. w.localCount \in 1..Len(w.locals) /\ Len(r) = w.localCount /\ r[1].var = Callee
          /\ w.locals[1].depth = 0 /\ 2..Len(r) = {}
      BY <1>6, <1>8, <1>9, <3>2
    <3> QED
      BY <3>3, <3>4, <3>5 DEF Framed
  <2>8. \A f \in 1..(n + 1) : Framed(cs2[f], sl2[f], t, e, f, n + 1)
    BY <1>4, <1>7, <1>10, <1>13, <2>1, <2>6, <2>7
  <2>9. ASSUME NEW k \in 2..(L + 1), t[k].kind = "initializer"
        PROVE  LET s == sl2[t[k - 1].fn] IN Len(s) >= 2 /\ s[Len(s)].var.scope = k - 1
    <3>1. CASE k = L + 1
      <4>0. k - 1 = L /\ L \in 1..L /\ t[L] = sy[L] /\ t[k] = x
        BY <1>4, <1>11, <3>1
      <4>1. k - 1 = L /\ t[k - 1].fn = n /\ sl2[n] = sl[n] /\ x.kind = "initializer"
        BY <1>4, <1>10, <2>9, <4>0
      <4> QED
        BY <1>1, <2>3, <4>1
    <3>2. CASE k # L + 1
      <4>1. k \in 2..L /\ t[k] = sy[k] /\ t[k - 1] = sy[k - 1] /\ sy[k - 1].fn \in 1..n
        BY <1>4, <1>11, <1>13, <3>2
      <4> QED
        BY <1>1, <1>10, <2>9, <4>1 DEF Inv, Placed
    <3> QED
      BY <3>1, <3>2
  <2> QED
    BY <1>7, <1>11, <2>8, <2>9 DEF Placed
<1>19. Named(sl2, t)
  <2> SUFFICES ASSUME NEW k \in 1..(L + 1), NEW v \in t[k].names
               PROVE  \E i \in 2..Len(sl2[t[k].fn]) : sl2[t[k].fn][i].var = Variable(v, k)
    BY <1>11 DEF Named
  <2>1. k \in 1..L /\ t[k] = sy[k] /\ sl2[sy[k].fn] = sl[sy[k].fn]
    BY <1>4, <1>10, <1>11, <1>13
  <2> QED
    BY <1>1, <2>1 DEF Inv, Named
<1>20. LoopsKept(cs2, t, e)
  <2>1. \A q \in 0..L : Agree(sy, dp, t, e, q)
    <3>1. \A q \in 0..L : \A j \in 1..q : j \in 1..L
      BY <1>4
    <3> QED
      BY <1>11, <1>12, <3>1 DEF Agree
  <2>2. ASSUME NEW f, NEW q \in 0..L PROVE LoopState(t, e, f, q) = LoopState(sy, dp, f, q)
    <3>1. Agree(sy, dp, t, e, q) /\ q \in Nat
      BY <2>1
    <3> QED
      BY <3>1, LoopStateSame
  <2>3. \A f : LoopState(t, e, f, L + 1) = LoopState(t, e, f, L)
    BY SMTT(40), <1>4, <1>11, LoopStateNext DEF FunctionKinds, LoopKinds
  <2>4. ASSUME NEW f \in 1..n PROVE Surrounding(cs2[f]) = LoopState(t, e, f, L + 1)
    <3>1. Surrounding(cs[f]) = LoopState(sy, dp, f, L) /\ L \in 0..L
      BY <1>1, <1>4 DEF Inv, LoopsKept
    <3>2. Surrounding(cs2[f]) = Surrounding(cs[f])
      BY <1>1, <1>7 DEF Surrounding, AsBefore, SameLoop
    <3> QED
      BY <2>2, <2>3, <3>1, <3>2
  <2>5. Surrounding(w) = LoopState(t, e, n + 1, L + 1)
    <3>1. LoopAt(t, n + 1, L) = 0
      <4>1. LoopAt(t, n + 1, L) \in 0..L
            /\ (LoopAt(t, n + 1, L) # 0 => t[LoopAt(t, n + 1, L)].fn = n + 1)
        BY <1>4, LoopAtIn
      <4>2. ASSUME NEW k \in 1..L PROVE t[k].fn # n + 1
        <5>1. t[k] = sy[k] /\ sy[k].fn \in 1..n
          BY <1>4, <1>11
        <5> QED
          BY <1>4, <5>1
      <4>3. LoopAt(t, n + 1, L) = 0 \/ LoopAt(t, n + 1, L) \in 1..L
        BY <1>4, <4>1
      <4> QED
        BY <4>1, <4>2, <4>3
    <3>2. LoopState(t, e, n + 1, L) = [loopType |-> "none", loopStart |-> 0, loopDepth |-> 0]
      BY <3>1 DEF LoopState
    <3> QED
      BY <1>6, <2>3, <3>2
  <2>6. ASSUME NEW k \in 1..(L + 1), t[k].kind \in LoopKinds
        PROVE  t[k].surrounding = LoopState(t, e, t[k].fn, k - 1)
    <3>1. k \in 1..L /\ t[k] = sy[k] /\ k - 1 \in 0..L
      <4>1. k # L + 1
        BY <1>11, <2>6 DEF FunctionKinds, LoopKinds
      <4> QED
        BY <1>4, <1>11, <1>13, <4>1
    <3> QED
      BY <1>1, <2>2, <2>6, <3>1 DEF Inv, LoopsKept
  <2> QED
    BY <1>7, <1>11, <1>13, <2>4, <2>5, <2>6 DEF LoopsKept
<1>21. Entered(sl2, t)
  <2> SUFFICES ASSUME NEW k \in 1..(L + 1), t[k].kind \in LoopKinds
               PROVE  EnteredAt(sl2[t[k].fn], t[k], k)
    BY <1>11 DEF Entered
  <2>1. k # L + 1
    BY <1>11 DEF FunctionKinds, LoopKinds
  <2>2. k \in 1..L /\ t[k] = sy[k] /\ sl2[sy[k].fn] = sl[sy[k].fn]
    BY <1>4, <1>10, <1>11, <1>13, <2>1
  <2> QED
    BY <1>1, <2>2 DEF Inv, Entered
<1>22. Marked(cs2, sl2)
  <2>1. \A f \in 1..n : cs2[f].upvalues = cs[f].upvalues /\ cs2[f].localCount = cs[f].localCount
    BY <1>1, <1>7 DEF AsBefore
  <2>2. \A f \in 1..n : \A i \in 1..cs[f].localCount :
          cs2[f].locals[i].captured = cs[f].locals[i].captured
    BY <1>1, <1>7 DEF AsBefore
  <2>3. cs2[1].upvalues = <<>>
    <3>1. 1 \in 1..n /\ cs[1].upvalues = <<>>
      BY <1>4 DEF Inv, Marked
    <3> QED
      BY <2>1, <3>1
  <2>4. ASSUME NEW f \in 1..(n + 1), NEW u \in Elements(cs2[f].upvalues), u.isLocal
        PROVE  f >= 2 /\ u.index \in 1..cs2[f - 1].localCount
               /\ cs2[f - 1].locals[u.index].captured
    <3>1. f \in 1..n
      <4>1. Elements(w.upvalues) = {}
        BY <1>6 DEF Elements
      <4> QED
        BY <1>7, <1>13, <2>4, <4>1
    <3>2. f >= 2 /\ u.index \in 1..cs[f - 1].localCount /\ cs[f - 1].locals[u.index].captured
      BY <1>1, <2>1, <2>4, <3>1 DEF Inv, Marked
    <3>3. f - 1 \in 1..n
      BY <1>4, <3>1, <3>2
    <3> QED
      BY <2>1, <2>2, <3>2, <3>3
  <2>5. ASSUME NEW f \in 1..(n + 1), NEW i \in 1..Len(sl2[f]), sl2[f][i].captured
        PROVE  cs2[f].locals[i].captured
    <3>1. f \in 1..n
      <4>1. ASSUME f = n + 1 PROVE FALSE
        BY <1>8, <1>9, <1>10, <2>5, <4>1
      <4> QED
        BY <1>13, <4>1
    <3>2. cs[f].locals[i].captured /\ i \in 1..cs[f].localCount
      <4>1. Len(sl[f]) = cs[f].localCount
        BY <1>1, <3>1, Facts
      <4> QED
        BY <1>1, <1>10, <2>5, <3>1, <4>1 DEF Inv, Marked
    <3> QED
      BY <2>2, <3>1, <3>2
  <2> QED
    BY <1>7, <2>3, <2>4, <2>5 DEF Marked
<1> QED
  BY <1>1, <1>2, <1>3, <1>14, <1>15, <1>16, <1>18, <1>19, <1>20, <1>21, <1>22 DEF Inv

(* the chain and the frames when the innermost function, of that kind, ends *)
EndedCompilers(cs, kind) ==
  [f \in 1..(Len(cs) - 1) |->
     IF f = Len(cs) - 1 /\ kind = "initializer"
     THEN [cs[f] EXCEPT !.locals[cs[f].localCount].depth = cs[f].scopeDepth]
     ELSE cs[f]]
EndedSlots(cs, sl) ==
  [f \in 1..(Len(cs) - 1) |-> [i \in 1..Len(sl[f]) |->
     IF f = Len(cs) - 1
        /\ [index |-> i, isLocal |-> TRUE] \in Elements(cs[Len(cs)].upvalues)
     THEN [sl[f][i] EXCEPT !.captured = TRUE]
     ELSE sl[f][i]]]

(* A function ends: the closure marks what it captures in the frame around, *)
(* and the variable it initializes is initialized.                          *)
LEMMA EndFunctionKeeps ==
  ASSUME NEW cs, NEW sl, NEW sy, NEW dp, Inv(cs, sl, sy, dp),
         sy[Len(sy)].kind \in FunctionKinds, NEW cs2, NEW sl2,
         cs2 = EndedCompilers(cs, sy[Len(sy)].kind), sl2 = EndedSlots(cs, sl)
  PROVE  Inv(cs2, sl2, SubSeq(sy, 1, Len(sy) - 1), SubSeq(dp, 1, Len(sy) - 1))
<1>1. PICK n, L : n = Len(cs) /\ L = Len(sy)
  OBVIOUS
<1>2. PICK t, e : t = SubSeq(sy, 1, L - 1) /\ e = SubSeq(dp, 1, L - 1)
  OBVIOUS
<1>3. n \in Nat \ {0} /\ L \in Nat \ {0} /\ Len(sl) = n /\ Len(dp) = L /\ sy[L].fn = n
  BY <1>1, Facts
<1>4. L - 1 \in Nat \ {0} /\ L \in 1..L /\ L - 1 \in 1..L /\ L \in 2..L
  <2>1. L # 1
    BY <1>1 DEF Inv, Tree, FunctionKinds
  <2> QED
    BY <1>3, <2>1
<1>5. \A k \in 1..L : sy[k] \in ConstructType /\ sy[k].fn \in 1..n /\ dp[k] \in Nat
  BY <1>1, Facts
<1>6. n - 1 \in Nat \ {0} /\ sy[L - 1].fn = n - 1 /\ n - 1 \in 1..n /\ n \in 1..n
  <2>1. sy[L].fn = sy[L - 1].fn + 1
    BY <1>1, <1>4 DEF Inv, Tree
  <2>2. sy[L - 1].fn \in 1..n
    BY <1>4, <1>5
  <2> QED
    BY <1>3, <2>1, <2>2
<1>7. \A f \in 1..(n - 1) : f \in 1..n /\ f # n
  BY <1>3
<1>8. ASSUME NEW f \in 1..(n - 1) PROVE cs2[f] \in CompilerType /\ AsBefore(cs2[f], cs[f])
  <2>1. cs[f] \in CompilerType /\ cs[f].localCount \in 1..Len(cs[f].locals)
        /\ cs[f].locals \in Seq(LocalType)
    BY <1>1, <1>7, Facts
  <2>2. CASE cs2[f] = cs[f]
    BY <2>1, <2>2 DEF AsBefore, SameLoop
  <2>3. CASE cs2[f] = [cs[f] EXCEPT !.locals[cs[f].localCount].depth = cs[f].scopeDepth]
    <3> DEFINE c == cs[f]
               m == c.localCount
               ls == [c.locals EXCEPT ![m].depth = c.scopeDepth]
    <3>1. c.scopeDepth \in Int /\ m \in 1..Len(c.locals) /\ c.locals \in Seq(LocalType)
          /\ Len(c.locals) \in Nat
      BY <2>1 DEF CompilerType
    <3>2. c.locals[m] \in LocalType
      BY <3>1
    <3>3. [c.locals[m] EXCEPT !.depth = c.scopeDepth] \in LocalType
      BY <3>1, <3>2 DEF LocalType
    <3>4. ls = [c.locals EXCEPT ![m] = [c.locals[m] EXCEPT !.depth = c.scopeDepth]]
      OBVIOUS
    <3>5. ls \in Seq(LocalType) /\ Len(ls) = Len(c.locals)
      BY <3>1, <3>3, <3>4
    <3>6. \A i \in 1..Len(c.locals) : ls[i] = IF i = m THEN [c.locals[m] EXCEPT !.depth = c.scopeDepth]
                                             ELSE c.locals[i]
      BY <3>1, <3>4
    <3>7. \A i \in 1..m : i \in 1..Len(c.locals)
      BY <3>1
    <3>8. cs2[f] = [c EXCEPT !.locals = ls]
      BY <2>3
    <3> HIDE DEF c, m, ls
    <3>9. c \in CompilerType
      BY <2>1 DEF c
    <3>10. /\ cs2[f] \in CompilerType /\ cs2[f].locals = ls
           /\ cs2[f].localCount = c.localCount /\ cs2[f].scopeDepth = c.scopeDepth
           /\ cs2[f].upvalues = c.upvalues /\ SameLoop(cs2[f], c)
      BY <3>5, <3>8, <3>9 DEF CompilerType, SameLoop
    <3>11. \A i \in 1..m :
             /\ ls[i].name = c.locals[i].name /\ ls[i].captured = c.locals[i].captured
             /\ i # m => ls[i].depth = c.locals[i].depth
      <4> SUFFICES ASSUME NEW i \in 1..m
                   PROVE  /\ ls[i].name = c.locals[i].name
                          /\ ls[i].captured = c.locals[i].captured
                          /\ i # m => ls[i].depth = c.locals[i].depth
        OBVIOUS
      <4>1. CASE i # m
        BY <3>6, <3>7, <4>1
      <4>2. CASE i = m
        <5>1. ls[m] = [c.locals[m] EXCEPT !.depth = c.scopeDepth]
          BY <3>1, <3>6
        <5> QED
          BY <3>2, <4>2, <5>1 DEF LocalType
      <4> QED
        BY <4>1, <4>2
    <3>12. m = c.localCount
      BY DEF m
    <3> QED
      BY <3>5, <3>10, <3>11, <3>12 DEF AsBefore, c
  <2>4. \/ cs2[f] = cs[f]
        \/ cs2[f] = [cs[f] EXCEPT !.locals[cs[f].localCount].depth = cs[f].scopeDepth]
    BY <1>1 DEF EndedCompilers
  <2> QED
    BY <2>2, <2>3, <2>4
<1>9. /\ \A f \in 1..(n - 1) : f # n - 1 => cs2[f] = cs[f]
      /\ sy[L].kind # "initializer" => cs2[n - 1] = cs[n - 1]
      /\ sy[L].kind = "initializer" =>
           cs2[n - 1].locals[cs[n - 1].localCount].depth = cs[n - 1].scopeDepth
  <2>1. \A f \in 1..(n - 1) : f # n - 1 => cs2[f] = cs[f]
    BY <1>1 DEF EndedCompilers
  <2>2. n - 1 \in 1..(n - 1)
    BY <1>6
  <2>3. sy[L].kind # "initializer" => cs2[n - 1] = cs[n - 1]
    BY <1>1, <2>2 DEF EndedCompilers
  <2>4. ASSUME sy[L].kind = "initializer"
        PROVE  cs2[n - 1].locals[cs[n - 1].localCount].depth = cs[n - 1].scopeDepth
    <3>1. PICK c : c = cs[n - 1]
      OBVIOUS
    <3>2. c \in CompilerType /\ c.localCount \in 1..Len(c.locals) /\ c.locals \in Seq(LocalType)
      BY <1>1, <1>6, <3>1, Facts
    <3>3. cs2[n - 1] = [c EXCEPT !.locals[c.localCount].depth = c.scopeDepth]
      BY <1>1, <2>2, <2>4, <3>1 DEF EndedCompilers
    <3>4. c.locals[c.localCount] \in LocalType
      BY <3>2
    <3> QED
      BY <3>1, <3>2, <3>3, <3>4 DEF CompilerType, LocalType
  <2> QED
    BY <2>1, <2>3, <2>4
<1>10. cs2 \in Seq(CompilerType) /\ Len(cs2) = n - 1
  <2>1. Len(cs) - 1 = n - 1
    BY <1>1
  <2>2. cs2 = [f \in 1..(n - 1) |-> cs2[f]]
    BY <2>1 DEF EndedCompilers
  <2>3. cs2 \in [1..(n - 1) -> CompilerType]
    BY <1>8, <2>2
  <2> QED
    BY <1>6, <2>3, SeqIs
<1>11. ASSUME NEW f \in 1..(n - 1)
       PROVE  /\ sl2[f] \in Seq(SlotType) /\ Len(sl2[f]) = Len(sl[f]) /\ Len(sl[f]) \in Nat
              /\ \A i \in 1..Len(sl[f]) :
                   /\ sl2[f][i].var = sl[f][i].var
                   /\ sl2[f][i].captured =>
                        \/ sl[f][i].captured
                        \/ /\ f = n - 1
                           /\ [index |-> i, isLocal |-> TRUE] \in Elements(cs[n].upvalues)
  <2>1. PICK s : s = sl[f]
    OBVIOUS
  <2>2. s \in Seq(SlotType) /\ Len(s) \in Nat
    <3>1. f \in 1..Len(cs)
      BY <1>1, <1>7
    <3>2. s \in Seq(SlotType)
      BY <2>1, <3>1, Facts
    <3> QED
      BY <3>2
  <2>3. PICK P : P = (f = n - 1)
    OBVIOUS
  <2>4. sl2[f] = [i \in 1..Len(s) |->
           IF P /\ [index |-> i, isLocal |-> TRUE] \in Elements(cs[n].upvalues)
           THEN [s[i] EXCEPT !.captured = TRUE] ELSE s[i]]
    BY <1>1, <2>1, <2>3 DEF EndedSlots
  <2>5. \A i \in 1..Len(s) : /\ s[i] \in SlotType
                             /\ [s[i] EXCEPT !.captured = TRUE] \in SlotType
                             /\ [s[i] EXCEPT !.captured = TRUE].var = s[i].var
    <3>1. \A i \in 1..Len(s) : s[i] \in SlotType
      BY <2>2
    <3>2. \A x \in SlotType : /\ [x EXCEPT !.captured = TRUE] \in SlotType
                             /\ [x EXCEPT !.captured = TRUE].var = x.var
      BY DEF SlotType
    <3> QED
      BY <3>1, <3>2
  <2>6. sl2[f] \in [1..Len(s) -> SlotType]
    BY <2>4, <2>5
  <2>7. sl2[f] \in Seq(SlotType) /\ Len(sl2[f]) = Len(s)
    BY <2>2, <2>6
  <2>8. \A i \in 1..Len(s) :
          \/ sl2[f][i] = s[i]
          \/ /\ sl2[f][i] = [s[i] EXCEPT !.captured = TRUE]
             /\ f = n - 1 /\ [index |-> i, isLocal |-> TRUE] \in Elements(cs[n].upvalues)
    BY <2>3, <2>4
  <2>9. \A i \in 1..Len(s) :
          /\ sl2[f][i].var = s[i].var
          /\ sl2[f][i].captured =>
               \/ s[i].captured
               \/ /\ f = n - 1
                  /\ [index |-> i, isLocal |-> TRUE] \in Elements(cs[n].upvalues)
    BY <2>5, <2>8
  <2> QED
    BY <2>1, <2>2, <2>7, <2>9
<1>12. sl2 \in Seq(Seq(SlotType)) /\ Len(sl2) = n - 1
  <2>1. Len(cs) - 1 = n - 1
    BY <1>1
  <2>2. sl2 = [f \in 1..(n - 1) |-> sl2[f]]
    BY <2>1 DEF EndedSlots
  <2>3. \A f \in 1..(n - 1) : sl2[f] \in Seq(SlotType)
    BY <1>11
  <2>4. sl2 \in [1..(n - 1) -> Seq(SlotType)]
    BY <2>2, <2>3
  <2> QED
    BY <1>6, <2>4, SeqIs
<1>13. /\ t \in Seq(ConstructType) /\ Len(t) = L - 1 /\ \A k \in 1..(L - 1) : t[k] = sy[k]
       /\ e \in Seq(Nat) /\ Len(e) = L - 1 /\ \A k \in 1..(L - 1) : e[k] = dp[k]
  <2>1. sy \in Seq(ConstructType) /\ dp \in Seq(Nat)
    BY DEF Inv, Typed
  <2>2. L - 1 \in 0..Len(sy) /\ L - 1 \in 0..Len(dp)
    BY <1>1, <1>3, <1>4
  <2>3. t \in Seq(ConstructType) /\ Len(t) = L - 1 /\ \A k \in 1..(L - 1) : t[k] = sy[k]
    BY <1>2, <2>1, <2>2, PrefixFacts
  <2>4. e \in Seq(Nat) /\ Len(e) = L - 1 /\ \A k \in 1..(L - 1) : e[k] = dp[k]
    BY <1>2, <2>1, <2>2, PrefixFacts
  <2> QED
    BY <2>3, <2>4
<1>14. \A k \in 1..(L - 1) : k \in 1..L /\ k # L
  BY <1>4
<1>15. \A k \in 2..(L - 1) : k \in 2..L /\ k \in 1..(L - 1) /\ k - 1 \in 1..(L - 1)
  BY <1>4
<1>16. ASSUME NEW k \in 1..(L - 1) PROVE sy[k].fn \in 1..(n - 1)
  <2>1. k \in 1..L /\ k <= L - 1 /\ L - 1 \in 1..L
    BY <1>4
  <2>2. sy[k].fn <= sy[L - 1].fn
    BY <1>1, <2>1 DEF Inv, Tree
  <2>3. sy[k].fn \in 1..n
    BY <1>5, <2>1
  <2> QED
    BY <1>6, <2>2, <2>3
<1>17. n = Len(cs) /\ L = Len(sy)
  BY <1>1
<1>18. Typed(cs2, sl2, t, e)
  BY <1>6, <1>10, <1>12, <1>13 DEF Typed
<1>19. Tree(cs2, t)
  <2>1. t[1].fn = 1 /\ t[1].kind = "script" /\ 1 \in 1..(L - 1)
    BY <1>4, <1>13 DEF Inv, Tree
  <2>2. \A k \in 2..(L - 1) : t[k].fn = IF t[k].kind \in FunctionKinds THEN t[k - 1].fn + 1
                                         ELSE t[k - 1].fn
    BY <1>13, <1>15, <1>17 DEF Inv, Tree
  <2>3. \A j, k \in 1..(L - 1) : j <= k => t[j].fn <= t[k].fn
    BY <1>13, <1>14, <1>17 DEF Inv, Tree
  <2>4. Len(t) = L - 1 /\ L - 1 >= 1 /\ L - 1 \in 1..(L - 1)
    BY <1>4, <1>13
  <2>5. t[L - 1].fn = Len(cs2)
    <3>1. t[L - 1] = sy[L - 1]
      BY <1>13, <2>4
    <3> QED
      BY <1>6, <1>10, <3>1
  <2> QED
    BY <2>1, <2>2, <2>3, <2>4, <2>5 DEF Tree
<1>20. Depths(cs2, t, e)
  <2>1. e[1] = 0 /\ 1 \in 1..(L - 1)
    BY <1>4, <1>13 DEF Inv, Depths
  <2>2. \A k \in 2..(L - 1) : IF t[k].kind \in FunctionKinds THEN e[k] = 1
                              ELSE e[k] \in {e[k - 1], e[k - 1] + 1}
    BY <1>13, <1>15, <1>17 DEF Inv, Depths
  <2>3. ASSUME NEW j \in 1..(L - 1), NEW k \in 1..(L - 1), j <= k, t[j].fn = t[k].fn
        PROVE  e[j] <= e[k]
    <3>1. j \in 1..L /\ k \in 1..L /\ sy[j].fn = sy[k].fn
      BY <1>13, <1>14, <2>3
    <3>2. dp[j] <= dp[k]
      BY <1>17, <2>3, <3>1 DEF Inv, Depths
    <3> QED
      BY <1>13, <3>2
  <2>4. ASSUME NEW k \in 1..(L - 1), k = L - 1 \/ t[k + 1].fn # t[k].fn
        PROVE  cs2[t[k].fn].scopeDepth = e[k]
    <3>1. k \in 1..L /\ k # L /\ t[k] = sy[k] /\ e[k] = dp[k]
      BY <1>13, <1>14
    <3>2. sy[k + 1].fn # sy[k].fn
      <4>1. CASE k = L - 1
        BY <1>3, <1>4, <1>6, <4>1
      <4>2. CASE k # L - 1
        <5>1. k + 1 \in 1..(L - 1)
          BY <1>4, <4>2
        <5> QED
          BY <1>13, <2>4, <4>2, <5>1
      <4> QED
        BY <4>1, <4>2
    <3>3. cs[sy[k].fn].scopeDepth = dp[k]
      BY <1>17, <3>1, <3>2 DEF Inv, Depths
    <3>4. cs2[sy[k].fn].scopeDepth = cs[sy[k].fn].scopeDepth
      BY <1>8, <1>16 DEF AsBefore
    <3> QED
      BY <3>1, <3>3, <3>4
  <2>5. \A k \in 1..(L - 1) : t[k].names # {} => Opens(t, e, k)
    <3>1. \A k \in 1..(L - 1) : k >= 2 => k \in 2..(L - 1)
      BY <1>4
    <3> QED
      BY <1>13, <1>14, <1>15, <1>17, <3>1 DEF Inv, Depths, Opens
  <2> QED
    BY <1>13, <2>1, <2>2, <2>3, <2>4, <2>5 DEF Depths
<1>21. ASSUME NEW i, Waits(cs[n - 1], sy, n - 1, n, i) PROVE sy[L].kind = "initializer"
  <2>1. PICK k \in 2..L : sy[k].kind = "initializer" /\ sy[k].fn = n - 1 + 1
    BY <1>17, <1>21 DEF Waits
  <2>2. ASSUME k # L PROVE FALSE
    <3>1. k \in 1..(L - 1)
      BY <1>4, <2>1, <2>2
    <3>2. sy[k].fn \in 1..(n - 1)
      BY <1>16, <3>1
    <3> QED
      BY <1>6, <2>1, <3>2
  <2> QED
    BY <2>1, <2>2
<1>22. sy[L].kind = "initializer" =>
         Len(sl[n - 1]) >= 2 /\ sl[n - 1][Len(sl[n - 1])].var.scope = L - 1
  BY <1>4, <1>6, <1>17 DEF Inv, Placed
<1>23. cs[n - 1].scopeDepth = dp[L - 1] /\ dp[L - 1] = e[L - 1]
  <2>1. L - 1 \in 1..L /\ (L - 1) + 1 = L /\ L - 1 \in 1..(L - 1) /\ sy[L].fn # sy[L - 1].fn
    BY <1>3, <1>4, <1>6
  <2>2. cs[sy[L - 1].fn].scopeDepth = dp[L - 1]
    BY <1>17, <2>1 DEF Inv, Depths
  <2> QED
    BY <1>6, <1>13, <2>1, <2>2
<1>24. ASSUME NEW f \in 1..(n - 1) PROVE Framed(cs2[f], sl2[f], t, e, f, n - 1)
  <2>1. /\ Framed(cs[f], sl[f], sy, dp, f, n) /\ cs[f].localCount \in 1..Len(cs[f].locals)
        /\ Len(sl[f]) = cs[f].localCount
    BY SMTT(40), <1>7, <1>17, Facts
  <2>2. PICK s, r, m : s = sl[f] /\ r = sl2[f] /\ m = Len(s)
    OBVIOUS
  <2>3. Len(r) = m /\ m \in Nat \ {0} /\ \A i \in 1..m : r[i].var = s[i].var
    <3>1. Len(r) = m /\ m \in Nat /\ \A i \in 1..m : r[i].var = s[i].var
      BY <1>11, <2>2
    <3> QED
      BY <2>1, <2>2, <3>1
  <2>4. PICK c, d : c = cs[f] /\ d = cs2[f]
    OBVIOUS
  <2>5. /\ c.localCount = m /\ d.localCount = m /\ d.localCount \in 1..Len(d.locals)
        /\ \A i \in 1..m : d.locals[i].name = c.locals[i].name
        /\ \A i \in 1..m : i # m => d.locals[i].depth = c.locals[i].depth
    BY <1>8, <2>1, <2>2, <2>4 DEF AsBefore
  <2>6. \/ d = c
        \/ /\ f = n - 1 /\ sy[L].kind = "initializer"
           /\ d.locals[m].depth = e[L - 1] /\ m >= 2 /\ s[m].var.scope = L - 1
    BY <1>9, <1>22, <1>23, <2>2, <2>4, <2>5
  <2>7. r[1].var = Callee /\ d.locals[1].depth = 0
    <3>1. c.locals[1].depth = 0 /\ s[1].var = Callee /\ 1 \in 1..m
      BY <2>1, <2>2, <2>3, <2>4 DEF Framed
    <3> QED
      BY <2>3, <2>5, <2>6, <3>1
  <2>8. \A i \in 1..m : r[i].var.name = d.locals[i].name
    BY <2>1, <2>2, <2>3, <2>4, <2>5 DEF Framed
  <2>9. \A i, j \in 1..m : i <= j => r[i].var.scope <= r[j].var.scope
    BY <2>1, <2>2, <2>3 DEF Framed
  <2>10. ASSUME NEW i \in 2..m
         PROVE  LET k == r[i].var.scope IN
                /\ k \in 1..(L - 1) /\ t[k].fn = f /\ r[i].var.name \in t[k].names
                /\ d.locals[i].depth = e[k] \/ Waits(d, t, f, n - 1, i)
    <3>1. i \in 1..m /\ r[i].var = s[i].var
      BY <2>3
    <3>2. PICK k : k = s[i].var.scope
      OBVIOUS
    <3>3. /\ k \in 1..L /\ sy[k].fn = f /\ s[i].var.name \in sy[k].names
          /\ c.locals[i].depth = dp[k] \/ Waits(c, sy, f, n, i)
      BY <1>17, <2>1, <2>2, <2>4, <3>2 DEF Framed
    <3>4. k # L /\ k \in 1..(L - 1)
      BY <1>3, <1>4, <1>7, <3>3
    <3>5. t[k] = sy[k] /\ e[k] = dp[k]
      BY <1>13, <3>4
    <3>6. d.locals[i].depth = e[k] \/ Waits(d, t, f, n - 1, i)
      <4>1. CASE d # c /\ i = m
        BY <2>6, <3>2, <4>1
      <4>2. CASE d # c /\ i # m
        BY <2>5, <3>1, <3>3, <3>5, <4>2 DEF Waits
      <4>3. CASE d = c /\ ~Waits(c, sy, f, n, i)
        BY <3>3, <3>5, <4>3
      <4>4. CASE d = c /\ Waits(c, sy, f, n, i) /\ f # n - 1
        <5>1. PICK q \in 2..L : sy[q].kind = "initializer" /\ sy[q].fn = f + 1
          BY <1>17, <4>4 DEF Waits
        <5>2. q # L /\ f < n - 1
          BY <1>3, <4>4, <5>1
        <5>3. q \in 2..(L - 1) /\ q \in 1..(L - 1)
          BY <1>4, <5>1, <5>2
        <5>4. t[q] = sy[q] /\ Len(t) = L - 1
          BY <1>13, <5>3
        <5> QED
          BY <4>4, <5>1, <5>2, <5>3, <5>4 DEF Waits
      <4>5. CASE d = c /\ Waits(c, sy, f, n, i) /\ f = n - 1
        <5>1. sy[L].kind = "initializer"
          BY <1>21, <2>4, <4>5
        <5>2. i = m /\ d.locals[m].depth = e[L - 1] /\ s[m].var.scope = L - 1
          <6>1. i = m
            BY <2>5, <4>5 DEF Waits
          <6>2. d.locals[m].depth = cs[n - 1].scopeDepth
            BY <1>9, <2>4, <2>5, <4>5, <5>1
          <6> QED
            BY <1>22, <1>23, <2>2, <4>5, <5>1, <6>1, <6>2
        <5> QED
          BY <3>2, <5>2
      <4> QED
        BY <4>1, <4>2, <4>3, <4>4, <4>5
    <3> QED
      BY <3>1, <3>2, <3>3, <3>4, <3>5, <3>6
  <2>11. Framed(d, r, t, e, f, n - 1)
    BY <1>13, <2>3, <2>5, <2>7, <2>8, <2>9, <2>10 DEF Framed
  <2> QED
    BY <2>2, <2>4, <2>11
<1>25. Placed(cs2, sl2, t, e)
  <2>1. ASSUME NEW k \in 2..(L - 1), t[k].kind = "initializer"
        PROVE  LET s == sl2[t[k - 1].fn] IN Len(s) >= 2 /\ s[Len(s)].var.scope = k - 1
    <3>1. k \in 2..L /\ sy[k].kind = "initializer" /\ t[k - 1] = sy[k - 1]
          /\ sy[k - 1].fn \in 1..(n - 1)
      BY <1>13, <1>15, <1>16, <2>1
    <3>2. PICK f : f = sy[k - 1].fn
      OBVIOUS
    <3>3. Len(sl[f]) >= 2 /\ sl[f][Len(sl[f])].var.scope = k - 1
      BY <1>17, <3>1, <3>2 DEF Inv, Placed
    <3>4. Len(sl2[f]) = Len(sl[f]) /\ Len(sl[f]) \in Nat
          /\ \A i \in 1..Len(sl[f]) : sl2[f][i].var = sl[f][i].var
      BY <1>11, <3>1, <3>2
    <3>5. Len(sl[f]) \in 1..Len(sl[f])
      BY <3>3, <3>4
    <3> QED
      BY <3>1, <3>2, <3>3, <3>4, <3>5
  <2> QED
    BY <1>10, <1>13, <1>24, <2>1 DEF Placed
<1>26. Named(sl2, t)
  <2> SUFFICES ASSUME NEW k \in 1..(L - 1), NEW v \in t[k].names
               PROVE  \E i \in 2..Len(sl2[t[k].fn]) : sl2[t[k].fn][i].var = Variable(v, k)
    BY <1>13 DEF Named
  <2>1. t[k] = sy[k] /\ k \in 1..L
    BY <1>13, <1>14
  <2>2. PICK f : f = sy[k].fn
    OBVIOUS
  <2>3. f \in 1..(n - 1)
    BY <1>16, <2>2
  <2>4. PICK i \in 2..Len(sl[f]) : sl[f][i].var = Variable(v, k)
    BY <1>17, <2>1, <2>2 DEF Inv, Named
  <2>5. i \in 1..Len(sl[f])
    <3>1. Len(sl[f]) \in Nat
      BY <1>11, <2>3
    <3> QED
      BY <2>4, <3>1
  <2>6. Len(sl2[f]) = Len(sl[f]) /\ sl2[f][i].var = sl[f][i].var
    BY <1>11, <2>3, <2>5
  <2> QED
    BY <2>1, <2>2, <2>4, <2>6
<1>27. LoopsKept(cs2, t, e)
  <2>1. \A q \in 0..(L - 1) : Agree(sy, dp, t, e, q)
    <3>1. \A q \in 0..(L - 1) : \A j \in 1..q : j \in 1..(L - 1)
      BY <1>4
    <3> QED
      BY <1>13, <3>1 DEF Agree
  <2>2. ASSUME NEW f, NEW q \in 0..(L - 1) PROVE LoopState(t, e, f, q) = LoopState(sy, dp, f, q)
    <3>1. Agree(sy, dp, t, e, q) /\ q \in Nat
      BY <2>1
    <3> QED
      BY <3>1, LoopStateSame
  <2>3. ASSUME NEW f \in 1..(n - 1) PROVE Surrounding(cs2[f]) = LoopState(t, e, f, L - 1)
    <3>1. Surrounding(cs[f]) = LoopState(sy, dp, f, L)
      BY <1>7, <1>17 DEF Inv, LoopsKept
    <3>2. sy[(L - 1) + 1].kind \notin LoopKinds /\ L - 1 \in Nat /\ (L - 1) + 1 = L
      BY <1>4, <1>17 DEF LoopKinds, FunctionKinds
    <3>3. LoopState(sy, dp, f, L) = LoopState(sy, dp, f, L - 1)
      BY <3>2, LoopStateNext
    <3>4. Surrounding(cs2[f]) = Surrounding(cs[f])
      BY <1>8 DEF Surrounding, SameLoop, AsBefore
    <3>5. L - 1 \in 0..(L - 1)
      BY <1>4
    <3> QED
      BY <2>2, <3>1, <3>3, <3>4, <3>5
  <2>4. ASSUME NEW k \in 1..(L - 1), t[k].kind \in LoopKinds
        PROVE  t[k].surrounding = LoopState(t, e, t[k].fn, k - 1)
    <3>1. t[k] = sy[k] /\ k - 1 \in 0..(L - 1) /\ k \in 1..L
      BY <1>4, <1>13, <1>14
    <3>2. LoopState(t, e, t[k].fn, k - 1) = LoopState(sy, dp, t[k].fn, k - 1)
      BY <2>2, <3>1
    <3> QED
      BY <1>17, <2>4, <3>1, <3>2 DEF Inv, LoopsKept
  <2> QED
    BY <1>10, <1>13, <2>3, <2>4 DEF LoopsKept
<1>28. Entered(sl2, t)
  <2> SUFFICES ASSUME NEW k \in 1..(L - 1), t[k].kind \in LoopKinds
               PROVE  EnteredAt(sl2[t[k].fn], t[k], k)
    BY <1>13 DEF Entered
  <2>1. t[k] = sy[k] /\ k \in 1..L
    BY <1>13, <1>14
  <2>2. PICK f, c : c = t[k] /\ f = t[k].fn
    OBVIOUS
  <2>3. EnteredAt(sl[f], c, k)
    BY <1>17, <2>1, <2>2 DEF Inv, Entered
  <2>4. PICK s, r : s = sl[f] /\ r = sl2[f]
    OBVIOUS
  <2>5. f \in 1..(n - 1)
    BY <1>16, <2>1, <2>2
  <2>6. Len(r) = Len(s) /\ Len(s) \in Nat /\ \A i \in 1..Len(s) : r[i].var = s[i].var
    BY <1>11, <2>4, <2>5
  <2>7. Len(c.entry) \in Nat
    <3>1. sy[k] \in ConstructType
      BY <1>5, <2>1
    <3> QED
      BY <2>1, <2>2, <3>1 DEF ConstructType
  <2>8. EnteredAt(s, c, k) /\ Len(c.entry) <= Len(s)
    BY <2>3, <2>4 DEF EnteredAt
  <2>9. \A i \in 1..Len(c.entry) : i \in 1..Len(s)
    BY <2>6, <2>7, <2>8
  <2>10. EnteredAt(r, c, k)
    BY <2>6, <2>8, <2>9 DEF EnteredAt
  <2> QED
    BY <2>2, <2>4, <2>10
<1>29. Marked(cs2, sl2)
  <2>1. \A f \in 1..(n - 1) : f >= 2 => f - 1 \in 1..(n - 1)
    BY <1>6
  <2>2. \A f \in 1..(n - 1) :
          cs2[f].upvalues = cs[f].upvalues /\ cs2[f].localCount = cs[f].localCount
    BY <1>8 DEF AsBefore
  <2>3. \A f \in 1..(n - 1) : \A i \in 1..cs[f].localCount :
          cs2[f].locals[i].captured = cs[f].locals[i].captured
    BY <1>8 DEF AsBefore
  <2>4. cs2[1].upvalues = <<>>
    <3>1. 1 \in 1..(n - 1) /\ cs[1].upvalues = <<>>
      BY <1>6 DEF Inv, Marked
    <3> QED
      BY <2>2, <3>1
  <2>5. ASSUME NEW f \in 1..(n - 1), NEW u \in Elements(cs2[f].upvalues), u.isLocal
        PROVE  f >= 2 /\ u.index \in 1..cs2[f - 1].localCount
               /\ cs2[f - 1].locals[u.index].captured
    <3>1. f >= 2 /\ u.index \in 1..cs[f - 1].localCount /\ cs[f - 1].locals[u.index].captured
      BY <1>7, <1>17, <2>2, <2>5 DEF Inv, Marked
    <3> QED
      BY <2>1, <2>2, <2>3, <3>1
  <2>6. ASSUME NEW f \in 1..(n - 1), NEW i \in 1..Len(sl2[f]), sl2[f][i].captured
        PROVE  cs2[f].locals[i].captured
    <3>1. i \in 1..Len(sl[f]) /\ Len(sl[f]) = cs[f].localCount
      <4>1. f \in 1..Len(cs)
        BY <1>7, <1>17
      <4>2. Len(sl[f]) = cs[f].localCount
        BY <4>1, Facts
      <4>3. Len(sl2[f]) = Len(sl[f])
        BY <1>11
      <4> QED
        BY <2>6, <4>2, <4>3
    <3>2. CASE sl[f][i].captured
      <4>1. cs[f].locals[i].captured
        BY <1>7, <1>17, <3>1, <3>2 DEF Inv, Marked
      <4> QED
        BY <2>3, <3>1, <4>1
    <3>3. CASE f = n - 1 /\ [index |-> i, isLocal |-> TRUE] \in Elements(cs[n].upvalues)
      <4>1. PICK u : u = [index |-> i, isLocal |-> TRUE]
        OBVIOUS
      <4>2. u \in Elements(cs[n].upvalues) /\ u.isLocal /\ u.index = i
        BY <3>3, <4>1
      <4>3. cs[n - 1].locals[i].captured
        BY <1>6, <1>17, <4>2 DEF Inv, Marked
      <4> QED
        BY <2>3, <3>1, <3>3, <4>3
    <3> QED
      BY <1>11, <2>6, <3>1, <3>2, <3>3
  <2> QED
    BY <1>10, <2>4, <2>5, <2>6 DEF Marked
<1> QED
  BY <1>2, <1>17, <1>18, <1>19, <1>20, <1>25, <1>26, <1>27, <1>28, <1>29 DEF Inv

(* A break or a continue is recorded with the construct it leaves. *)
LEMMA JumpKeeps ==
  ASSUME NEW cs, NEW sl, NEW sy, NEW dp, Inv(cs, sl, sy, dp), NEW q \in 1..Len(sy),
         NEW x \in ConstructType, x.kind = sy[q].kind, x.fn = sy[q].fn, x.names = sy[q].names,
         x.surrounding = sy[q].surrounding,
         sy[q].kind \in LoopKinds => EnteredAt(sl[sy[q].fn], x, q)
  PROVE  Inv(cs, sl, [sy EXCEPT ![q] = x], dp)
<1>1. PICK t, L : t = [sy EXCEPT ![q] = x] /\ L = Len(sy)
  OBVIOUS
<1>2. L \in Nat \ {0} /\ q \in 1..L
  BY <1>1, Facts
<1>3. /\ t \in Seq(ConstructType) /\ Len(t) = L /\ t[q] = x
      /\ \A k \in 1..L : k # q => t[k] = sy[k]
  BY <1>1, <1>2 DEF Inv, Typed
<1>4. SameTree(sy, t) /\ \A k \in 1..L : t[k].names = sy[k].names
  BY <1>1, <1>3 DEF SameTree
<1>5. \A k \in 1..L : sy[k].names # {} => Opens(sy, dp, k)
  BY <1>1 DEF Inv, Depths
<1>6. \A f \in 1..Len(cs) : SameLocals(cs[f], cs[f])
  BY DEF SameLocals
<1>7. Typed(cs, sl, t, dp)
  BY <1>1, <1>3 DEF Inv, Typed
<1>8. Tree(cs, t) /\ Depths(cs, t, dp)
  BY <1>1, <1>4, <1>5, TreeSame
<1>9. Placed(cs, sl, t, dp) /\ Named(sl, t) /\ Marked(cs, sl)
  BY <1>1, <1>4, <1>6, PlacedSame
<1>10. LoopsKept(cs, t, dp)
  <2>1. ASSUME NEW m \in 0..L PROVE Agree(sy, dp, t, dp, m)
    <3>1. \A j \in 1..m : j \in 1..L
      BY <1>2
    <3> QED
      BY <1>3, <3>1 DEF Agree
  <2>2. ASSUME NEW f, NEW m \in 0..L PROVE LoopState(t, dp, f, m) = LoopState(sy, dp, f, m)
    <3>1. Agree(sy, dp, t, dp, m) /\ m \in Nat
      BY <2>1
    <3> QED
      BY <3>1, LoopStateSame
  <2>3. L \in 0..L /\ \A k \in 1..L : k - 1 \in 0..L
    BY <1>2
  <2>4. \A k \in 1..L : /\ t[k].kind = sy[k].kind /\ t[k].fn = sy[k].fn
                        /\ t[k].surrounding = sy[k].surrounding
    BY <1>3
  <2>5. \A f \in 1..Len(cs) : Surrounding(cs[f]) = LoopState(t, dp, f, L)
    BY <1>1, <2>2, <2>3 DEF Inv, LoopsKept
  <2>6. ASSUME NEW k \in 1..L, t[k].kind \in LoopKinds
        PROVE  t[k].surrounding = LoopState(t, dp, t[k].fn, k - 1)
    <3>1. t[k].surrounding = LoopState(sy, dp, t[k].fn, k - 1)
      BY <1>1, <2>4, <2>6 DEF Inv, LoopsKept
    <3> QED
      BY <2>2, <2>3, <3>1
  <2> QED
    BY <1>3, <2>5, <2>6 DEF LoopsKept
<1>11. Entered(sl, t)
  <2> SUFFICES ASSUME NEW k \in 1..L, t[k].kind \in LoopKinds
               PROVE  EnteredAt(sl[t[k].fn], t[k], k)
    BY <1>3 DEF Entered
  <2>1. CASE k # q
    BY <1>1, <1>3, <2>1 DEF Inv, Entered
  <2>2. CASE k = q
    BY <1>3, <2>2
  <2> QED
    BY <2>1, <2>2
<1> QED
  BY <1>1, <1>7, <1>8, <1>9, <1>10, <1>11 DEF Inv

(* A name is resolved: locals are marked as captured, and upvalues added. *)
Resolving(d, c) ==
  /\ d.localCount = c.localCount /\ Len(d.locals) = Len(c.locals)
  /\ d.scopeDepth = c.scopeDepth /\ SameLoop(d, c)
  /\ \A i \in 1..c.localCount :
       /\ d.locals[i].name = c.locals[i].name /\ d.locals[i].depth = c.locals[i].depth
       /\ c.locals[i].captured => d.locals[i].captured

LEMMA ReadKeeps ==
  ASSUME NEW cs, NEW sl, NEW sy, NEW dp, Inv(cs, sl, sy, dp), NEW cs2 \in Seq(CompilerType),
         Len(cs2) = Len(cs), \A f \in 1..Len(cs) : Resolving(cs2[f], cs[f]),
         cs2[1].upvalues = <<>>,
         \A f \in 1..Len(cs) : \A u \in Elements(cs2[f].upvalues) :
           u.isLocal => \/ u \in Elements(cs[f].upvalues)
                        \/ /\ f >= 2 /\ u.index \in 1..cs[f - 1].localCount
                           /\ cs2[f - 1].locals[u.index].captured
  PROVE  Inv(cs2, sl, sy, dp)
<1>1. PICK n, L : n = Len(cs) /\ L = Len(sy)
  OBVIOUS
<1>2. L \in Nat \ {0} /\ n \in Nat \ {0}
  BY <1>1, Facts
<1>3. Typed(cs2, sl, sy, dp)
  BY DEF Inv, Typed
<1>4. Tree(cs2, sy) /\ Depths(cs2, sy, dp)
  <2>1. \A f \in 1..n : cs2[f].scopeDepth = cs[f].scopeDepth
    BY <1>1 DEF Resolving
  <2>2. SameTree(sy, sy)
    BY DEF SameTree
  <2>3. \A k \in 1..L : sy[k].names # {} => Opens(sy, dp, k)
    BY <1>1 DEF Inv, Depths
  <2> QED
    BY <1>1, <2>1, <2>2, <2>3, TreeSame
<1>5. ASSUME NEW f \in 1..n PROVE Framed(cs2[f], sl[f], sy, dp, f, n)
  <2>1. Framed(cs[f], sl[f], sy, dp, f, n) /\ Len(sl[f]) = cs[f].localCount
        /\ cs[f].localCount \in 1..Len(cs[f].locals) /\ Resolving(cs2[f], cs[f])
    BY <1>1, Facts
  <2>2. PICK c, d, s : c = cs[f] /\ d = cs2[f] /\ s = sl[f]
    OBVIOUS
  <2>3. /\ Framed(c, s, sy, dp, f, n) /\ Len(s) = c.localCount /\ Resolving(d, c)
        /\ Len(s) \in Nat \ {0} /\ \A i \in 2..Len(s) : i \in 1..Len(s)
    BY <2>1, <2>2
  <2>4. \A i \in 1..Len(s) : d.locals[i].name = c.locals[i].name /\ d.locals[i].depth = c.locals[i].depth
    BY <2>3 DEF Resolving
  <2>5. \A i \in 2..Len(s) : Waits(c, sy, f, n, i) => Waits(d, sy, f, n, i)
    BY <2>3, <2>4 DEF Waits, Resolving
  <2>6. d.localCount = c.localCount /\ Len(d.locals) = Len(c.locals) /\ 1 \in 1..Len(s)
    BY <2>3 DEF Resolving
  <2>7. Framed(d, s, sy, dp, f, n)
    BY <2>3, <2>4, <2>5, <2>6 DEF Framed
  <2> QED
    BY <2>2, <2>7
<1>6. Placed(cs2, sl, sy, dp)
  BY <1>1, <1>5 DEF Inv, Placed
<1>7. LoopsKept(cs2, sy, dp)
  <2>1. \A f \in 1..n : Surrounding(cs2[f]) = Surrounding(cs[f])
    BY <1>1 DEF Resolving, SameLoop, Surrounding
  <2> QED
    BY <1>1, <2>1 DEF Inv, LoopsKept
<1>8. Marked(cs2, sl)
  <2>1. \A f \in 1..n : f >= 2 => f - 1 \in 1..n
    BY <1>2
  <2>2. \A f \in 1..n : cs2[f].localCount = cs[f].localCount
    BY <1>1 DEF Resolving
  <2>3. \A f \in 1..n : \A i \in 1..cs[f].localCount :
          cs[f].locals[i].captured => cs2[f].locals[i].captured
    BY <1>1 DEF Resolving
  <2>4. ASSUME NEW f \in 1..n, NEW u \in Elements(cs2[f].upvalues), u.isLocal
        PROVE  f >= 2 /\ u.index \in 1..cs2[f - 1].localCount
               /\ cs2[f - 1].locals[u.index].captured
    <3>1. CASE u \in Elements(cs[f].upvalues)
      <4>1. f >= 2 /\ u.index \in 1..cs[f - 1].localCount /\ cs[f - 1].locals[u.index].captured
        BY <1>1, <2>4, <3>1 DEF Inv, Marked
      <4> QED
        BY <2>1, <2>2, <2>3, <4>1
    <3>2. CASE f >= 2 /\ u.index \in 1..cs[f - 1].localCount
               /\ cs2[f - 1].locals[u.index].captured
      BY <2>1, <2>2, <3>2
    <3> QED
      BY <1>1, <2>4, <3>1, <3>2
  <2>5. ASSUME NEW f \in 1..n, NEW i \in 1..Len(sl[f]), sl[f][i].captured
        PROVE  cs2[f].locals[i].captured
    <3>1. Len(sl[f]) = cs[f].localCount
      BY <1>1, Facts
    <3>2. cs[f].locals[i].captured
      BY <1>1, <2>5 DEF Inv, Marked
    <3> QED
      BY <2>3, <3>1, <3>2
  <2> QED
    BY <1>1, <2>4, <2>5 DEF Marked
<1> QED
  BY <1>1, <1>3, <1>4, <1>6, <1>7, <1>8 DEF Inv

-----------------------------------------------------------------------------
(* The locals that endScope and the jumps drop are those of the constructs *)
(* that are left.                                                          *)
Splits(sy, dp, n, d, k) ==
  \A j \in 1..Len(sy) : sy[j].fn = n /\ sy[j].names # {} => (dp[j] <= d <=> j <= k)

LEMMA KeptSplits ==
  ASSUME NEW cs, NEW sl, NEW sy, NEW dp, Inv(cs, sl, sy, dp),
         NEW d \in Nat, NEW k \in Nat, Splits(sy, dp, Len(cs), d, k)
  PROVE  /\ Kept(cs[Len(cs)], d) \in 1..cs[Len(cs)].localCount
         /\ \A i \in 1..Len(sl[Len(cs)]) :
              i <= Kept(cs[Len(cs)], d) <=> sl[Len(cs)][i].var.scope <= k
<1>1. PICK n, c, s : n = Len(cs) /\ c = cs[n] /\ s = sl[n]
  OBVIOUS
<1>2. n \in Nat \ {0} /\ n \in 1..n
  BY <1>1, Facts
<1>3. Framed(c, s, sy, dp, n, n) /\ Len(s) = c.localCount /\ c.localCount \in Nat \ {0}
  <2>1. Framed(c, s, sy, dp, n, n) /\ Len(s) = c.localCount /\ c.localCount \in 1..Len(c.locals)
        /\ c.locals \in Seq(LocalType)
    BY <1>1, <1>2, Facts
  <2> QED
    BY <2>1
<1>4. PICK l : l = Len(s)
  OBVIOUS
<1>5. l \in Nat \ {0} /\ c.localCount = l
  BY <1>3, <1>4
<1>6. ASSUME NEW i \in 1..l PROVE c.locals[i].depth <= d <=> s[i].var.scope <= k
  <2>1. CASE i = 1
    BY <1>3, <2>1 DEF Framed, Callee, Variable
  <2>2. CASE i # 1
    <3>1. i \in 2..Len(s)
      BY <1>4, <1>5, <2>2
    <3>2. PICK j : j = s[i].var.scope
      OBVIOUS
    <3>3. /\ j \in 1..Len(sy) /\ sy[j].fn = n /\ s[i].var.name \in sy[j].names
          /\ c.locals[i].depth = dp[j] \/ Waits(c, sy, n, n, i)
      BY <1>3, <3>1, <3>2 DEF Framed
    <3>4. ~Waits(c, sy, n, n, i)
      BY <1>2 DEF Waits
    <3> QED
      BY <1>1, <3>2, <3>3, <3>4 DEF Splits
  <2> QED
    BY <2>1, <2>2
<1>7. PICK S : S = {i \in 1..l : c.locals[i].depth <= d}
  OBVIOUS
<1>8. Kept(c, d) = Largest(S)
  BY <1>5, <1>7 DEF Kept
<1>9. S \subseteq 1..l /\ \A i \in 1..l : i \in S <=> s[i].var.scope <= k
  BY <1>6, <1>7
<1>10. 1 \in S
  <2>1. s[1].var.scope = 0
    BY <1>3 DEF Framed, Callee, Variable
  <2> QED
    BY <1>5, <1>9, <2>1
<1>11. PICK m : m = Largest(S)
  OBVIOUS
<1>12. m \in S /\ \A y \in S : y <= m
  BY <1>5, <1>9, <1>10, <1>11, LargestFacts
<1>13. m \in 1..l
  BY <1>9, <1>12
<1>14. ASSUME NEW i \in 1..l PROVE i <= m <=> s[i].var.scope <= k
  <2>1. ASSUME i <= m PROVE s[i].var.scope <= k
    <3>1. s[i].var.scope <= s[m].var.scope
      BY <1>3, <1>4, <1>13, <2>1 DEF Framed
    <3>2. s[m].var.scope <= k
      BY <1>9, <1>12, <1>13
    <3>3. s[i].var.scope \in 0..Len(sy) /\ s[m].var.scope \in 0..Len(sy)
      BY <1>1, <1>2, <1>4, <1>13, Facts
    <3> QED
      BY <3>1, <3>2, <3>3
  <2>2. ASSUME s[i].var.scope <= k PROVE i <= m
    BY <1>9, <1>12, <2>2
  <2> QED
    BY <2>1, <2>2
<1> QED
  BY <1>1, <1>4, <1>5, <1>8, <1>11, <1>13, <1>14

(* the construct a jump leaves to, and the depth that endScope leaves *)
LEMMA LoopSplits ==
  ASSUME NEW cs, NEW sl, NEW sy, NEW dp, Inv(cs, sl, sy, dp),
         NEW k \in 1..Len(sy), sy[k].fn = Len(cs),
         NEW j \in 1..Len(sy), sy[j].fn = Len(cs), sy[j].names # {}
  PROVE  dp[j] <= dp[k] <=> j <= k
<1>1. Len(sy) \in Nat /\ dp[j] \in Nat /\ dp[k] \in Nat
  BY Facts
<1>2. ASSUME j <= k PROVE dp[j] <= dp[k]
  BY <1>2 DEF Inv, Depths
<1>3. ASSUME k < j PROVE dp[j] > dp[k]
  <2>1. j - 1 \in 1..Len(sy) /\ j \in 2..Len(sy) /\ k <= j - 1 /\ j - 1 <= j
    BY <1>1, <1>3
  <2>2. sy[k].fn <= sy[j - 1].fn /\ sy[j - 1].fn <= sy[j].fn /\ sy[j - 1].fn \in 1..Len(cs)
    BY <2>1, Facts DEF Inv, Tree
  <2>3. sy[j - 1].fn = Len(cs)
    <3>1. PICK p : p = sy[j - 1].fn
      OBVIOUS
    <3>2. Len(cs) <= p /\ p \in 1..Len(cs) /\ Len(cs) \in Nat
      BY <2>2, <3>1, Facts
    <3> QED
      BY <3>1, <3>2
  <2>4. sy[j].kind \notin FunctionKinds
    <3>1. sy[j].kind \in FunctionKinds => sy[j].fn = sy[j - 1].fn + 1
      BY <2>1 DEF Inv, Tree
    <3>2. Len(cs) \in Nat
      BY Facts
    <3> QED
      BY <2>3, <3>1, <3>2
  <2>5. dp[j] = dp[j - 1] + 1
    BY <2>4 DEF Inv, Depths, Opens
  <2>6. dp[k] <= dp[j - 1] /\ dp[j - 1] \in Nat
    BY <2>1, <2>3, Facts DEF Inv, Depths
  <2> QED
    BY <1>1, <2>5, <2>6
<1> QED
  BY <1>1, <1>2, <1>3

-----------------------------------------------------------------------------
(* The parts of the actions *)

LEMMA Here ==
  ASSUME NEW cs, NEW sl, NEW sy, NEW dp, Inv(cs, sl, sy, dp)
  PROVE  cs[Len(cs)].scopeDepth = dp[Len(sy)]
<1>1. Len(sy) \in 1..Len(sy) /\ sy[Len(sy)].fn = Len(cs)
  BY Facts
<1> QED
  BY <1>1 DEF Inv, Depths

LEMMA SameFunction ==
  ASSUME NEW cs, NEW sl, NEW sy, NEW dp, Inv(cs, sl, sy, dp), Len(sy) >= 2,
         sy[Len(sy)].kind \notin FunctionKinds
  PROVE  sy[Len(sy) - 1].fn = Len(cs) /\ Len(sy) - 1 \in 1..Len(sy) /\ dp[Len(sy) - 1] \in Nat
<1>1. Len(sy) \in 2..Len(sy) /\ Len(sy) - 1 \in 1..Len(sy) /\ sy[Len(sy)].fn = Len(cs)
  BY Facts
<1>2. sy[Len(sy)].fn = sy[Len(sy) - 1].fn
  BY <1>1 DEF Inv, Tree
<1> QED
  BY <1>1, <1>2, Facts

LEMMA EndScopeKeeps ==
  ASSUME NEW cs, NEW sl, NEW sy, NEW dp, Inv(cs, sl, sy, dp), Len(sy) >= 2,
         sy[Len(sy)].kind \in {"block", "body"}, dp[Len(sy)] = dp[Len(sy) - 1] + 1,
         NEW c, c = EndScope(cs[Len(cs)])
  PROVE  /\ Inv([cs EXCEPT ![Len(cs)] = c],
                [sl EXCEPT ![Len(sl)] = SubSeq(sl[Len(sl)], 1, c.localCount)],
                SubSeq(sy, 1, Len(sy) - 1), SubSeq(dp, 1, Len(sy) - 1))
         /\ c.localCount \in 1..cs[Len(cs)].localCount
<1>1. PICK n, L, o : n = Len(cs) /\ L = Len(sy) /\ o = cs[n]
  OBVIOUS
<1>2. sy[L - 1].fn = n /\ L - 1 \in 1..L /\ dp[L - 1] \in Nat /\ L \in Nat
  BY <1>1, SameFunction, Facts DEF FunctionKinds
<1>3. n \in 1..n /\ o \in CompilerType /\ o.scopeDepth = dp[L] /\ Len(sl[n]) = o.localCount
  BY <1>1, Here, Facts
<1>4. o.scopeDepth - 1 = dp[L - 1]
  BY <1>1, <1>2, <1>3
<1>5. PICK m : m = Kept(o, dp[L - 1])
  OBVIOUS
<1>6. c = [o EXCEPT !.scopeDepth = dp[L - 1], !.localCount = m]
  <2>1. c = [o EXCEPT !.scopeDepth = @ - 1, !.localCount = Kept(o, o.scopeDepth - 1)]
    BY <1>1 DEF EndScope
  <2> QED
    BY <1>4, <1>5, <2>1
<1>7. Splits(sy, dp, Len(cs), dp[L - 1], L - 1)
  BY <1>1, <1>2, LoopSplits DEF Splits
<1>8. L - 1 \in Nat
  BY <1>2
<1>9. /\ m \in 1..o.localCount
      /\ \A i \in 1..Len(sl[n]) : i <= m <=> sl[n][i].var.scope <= L - 1
  <2>1. PICK d, k : d = dp[L - 1] /\ k = L - 1
    OBVIOUS
  <2>2. d \in Nat /\ k \in Nat
    BY <1>2, <1>8, <2>1
  <2>3. Splits(sy, dp, Len(cs), d, k)
    BY <1>7, <2>1
  <2>4. /\ Kept(cs[Len(cs)], d) \in 1..cs[Len(cs)].localCount
        /\ \A i \in 1..Len(sl[Len(cs)]) :
             i <= Kept(cs[Len(cs)], d) <=> sl[Len(cs)][i].var.scope <= k
    BY <2>2, <2>3, KeptSplits
  <2> QED
    BY <1>1, <1>5, <2>1, <2>4
<1>10. o.localCount \in Nat /\ m \in Nat
  BY <1>3, <1>9 DEF CompilerType
<1>11. /\ c \in CompilerType /\ c.locals = o.locals /\ c.upvalues = o.upvalues /\ SameLoop(c, o)
       /\ c.scopeDepth = dp[L - 1] /\ c.localCount = m
  BY <1>2, <1>3, <1>6, <1>10 DEF CompilerType, SameLoop
<1>12. \A i \in 1..Len(sl[n]) : i <= m <=> sl[n][i].var.scope < L
  <2>1. \A i \in 1..Len(sl[n]) : sl[n][i].var.scope \in 0..L
    BY <1>1, <1>3, Facts
  <2> QED
    BY <1>2, <1>9, <2>1
<1> QED
  BY <1>1, <1>9, <1>11, <1>12, PopKeeps

LEMMA DeclareLocalKeeps ==
  ASSUME NEW cs, NEW sl, NEW sy, NEW dp, Inv(cs, sl, sy, dp),
         sy[Len(sy)].kind \notin LoopKinds, Opens(sy, dp, Len(sy)), NEW v \in Name
  PROVE  Inv([cs EXCEPT ![Len(cs)] = AddLocal(cs[Len(cs)], Local(v, cs[Len(cs)].scopeDepth))],
             [sl EXCEPT ![Len(sl)] = Append(sl[Len(sl)], Holding(Variable(v, Len(sy))))],
             [sy EXCEPT ![Len(sy)] = [sy[Len(sy)] EXCEPT !.names = @ \cup {v}]], dp)
<1>1. PICK n, L, o : n = Len(cs) /\ L = Len(sy) /\ o = cs[n]
  OBVIOUS
<1>2. n \in 1..n /\ o \in CompilerType /\ o.localCount \in 1..Len(o.locals)
      /\ L \in 1..L /\ sy[L] \in ConstructType
  BY <1>1, Facts
<1>3. Local(v, o.scopeDepth) \in LocalType
  BY <1>2 DEF Local, LocalType, Word, CompilerType
<1>4. PICK c : c = AddLocal(o, Local(v, o.scopeDepth))
  OBVIOUS
<1>5. c \in CompilerType /\ Grown(c, o, Local(v, o.scopeDepth))
  BY <1>2, <1>3, <1>4, AddLocalFacts
<1>6. PICK x : x = [sy[L] EXCEPT !.names = @ \cup {v}]
  OBVIOUS
<1>7. /\ x \in ConstructType /\ x.kind = sy[L].kind /\ x.fn = sy[L].fn
      /\ x.names = sy[L].names \cup {v}
  BY <1>2, <1>6 DEF ConstructType
<1> QED
  BY <1>1, <1>4, <1>5, <1>6, <1>7, DeclareKeeps

LEMMA ConstructFacts ==
  ASSUME NEW dp, Inv(compilers, slots, syntax, dp), NEW kind \in AllKinds,
         NEW names \in SUBSET Name
  PROVE  /\ Construct(kind, names) \in ConstructType
         /\ Construct(kind, names).kind = kind /\ Construct(kind, names).names = names
         /\ Construct(kind, names).fn = Len(compilers)
         /\ Construct(kind, names).entry = Vars(slots[Len(compilers)])
         /\ Construct(kind, names).breaks = {} /\ Construct(kind, names).continues = {}
         /\ Vars(slots[Len(compilers)]) \in Seq(VarType)
<1>1. Len(compilers) \in Nat /\ Len(compilers) \in 1..Len(compilers)
  BY Facts
<1>2. PICK s : s = slots[Len(compilers)]
  OBVIOUS
<1>3. s \in Seq(SlotType)
  BY <1>1, <1>2, Facts
<1>4. Len(s) \in Nat /\ \A i \in 1..Len(s) : s[i].var \in VarType
  <2>1. Len(s) \in Nat /\ \A i \in 1..Len(s) : s[i] \in SlotType
    BY <1>3
  <2> QED
    BY <2>1 DEF SlotType
<1>5. Vars(s) \in [1..Len(s) -> VarType]
  BY <1>4 DEF Vars
<1>6. Vars(s) \in Seq(VarType)
  BY <1>4, <1>5, SeqIs
<1> QED
  BY <1>1, <1>2, <1>6 DEF Construct, ConstructType, LoopType, Fn, Stack

(* what a jump or the end of a scope pops, but for the frames of others *)
LEMMA NothingLost ==
  ASSUME NEW dp, Inv(compilers, slots, syntax, dp), NEW k \in 0..Current.localCount
  PROVE  Losing(k) = {} /\ Dropping(k) = SubSeq(Stack, 1, k) /\ Stack \in Seq(SlotType)
         /\ Len(Stack) = Current.localCount
<1>1. PICK n, s, c : n = Fn /\ s = Stack /\ c = Current
  OBVIOUS
<1>2. n \in 1..n /\ n = Len(compilers) /\ s = slots[n] /\ c = compilers[n]
  BY <1>1, Facts DEF Fn, Stack, Current
<1>3. Len(s) = c.localCount /\ s \in Seq(SlotType)
  BY <1>2, Facts
<1>4. Len(s) \in Nat
  BY <1>3
<1>5. \A i \in 1..Len(s) : s[i].captured => c.locals[i].captured
  BY <1>2 DEF Inv, Marked
<1>6. Losing(k) = {}
  <2>1. ASSUME NEW j \in 0..(c.localCount - k - 1), j < Len(s), s[Len(s) - j].captured,
               ~c.locals[c.localCount - j].captured
        PROVE  FALSE
    <3>1. Len(s) - j \in 1..Len(s)
      BY <1>4, <2>1
    <3> QED
      BY <1>3, <1>5, <2>1, <3>1
  <2> QED
    BY <1>1, <2>1 DEF Losing
<1>7. Dropping(k) = SubSeq(s, 1, k)
  <2>1. Len(s) - (c.localCount - k) = k
    BY <1>1, <1>3, <1>4
  <2> QED
    BY <1>1, <2>1 DEF Dropping
<1> QED
  BY <1>1, <1>3, <1>6, <1>7

-----------------------------------------------------------------------------
(* The grammar *)

(* construct k is followed by the body of a for statement *)
Followed(sy, k) == k + 1 \in 1..Len(sy) /\ sy[k + 1].kind = "body"

LEMMA RuleSame ==
  ASSUME NEW sy, NEW dp, NEW t, NEW e, NEW k \in Nat \ {0}, Rule(sy, dp, k),
         t[k].kind = sy[k].kind, sy[k].kind = "body" => t[k].names = sy[k].names,
         e[k] = dp[k], IF k = 1 THEN sy[k].kind = "script" ELSE e[k - 1] = dp[k - 1],
         Followed(t, k) <=> Followed(sy, k)
  PROVE  Rule(t, e, k)
<1>1. CASE k = 1
  BY <1>1 DEF Rule, Followed
<1>2. CASE k # 1
  BY <1>2 DEF Rule, Followed
<1> QED
  BY <1>1, <1>2

LEMMA GrammarPush ==
  ASSUME NEW sy \in Seq(ConstructType), NEW dp \in Seq(Nat), Len(dp) = Len(sy), Len(sy) >= 1,
         sy[1].kind = "script", Grammar(sy, dp), NEW x \in ConstructType, NEW d \in Nat,
         x.kind \notin {"script", "for", "body"},
         x.kind = "block" => d = dp[Len(sy)] + 1, x.kind = "while" => d = dp[Len(sy)]
  PROVE  Grammar(Append(sy, x), Append(dp, d))
<1>1. PICK L, t, e : L = Len(sy) /\ t = Append(sy, x) /\ e = Append(dp, d)
  OBVIOUS
<1>2. /\ Len(t) = L + 1 /\ L \in Nat \ {0} /\ t[L + 1] = x
      /\ \A k \in 1..L : t[k] = sy[k]
  BY <1>1, AppendFacts
<1>3. e[L + 1] = d /\ \A k \in 1..L : e[k] = dp[k]
  BY <1>1, AppendFacts
<1>4. ASSUME NEW k \in 1..L PROVE Rule(t, e, k)
  <2>1. Rule(sy, dp, k) /\ k \in Nat \ {0}
    BY <1>1 DEF Grammar
  <2>2. t[k] = sy[k] /\ e[k] = dp[k]
    BY <1>2, <1>3
  <2>3. IF k = 1 THEN sy[k].kind = "script" ELSE e[k - 1] = dp[k - 1]
    BY <1>2, <1>3
  <2>4. Followed(t, k) <=> Followed(sy, k)
    <3>1. CASE k = L
      BY <1>1, <1>2, <3>1 DEF Followed
    <3>2. CASE k # L
      <4>1. k + 1 \in 1..L /\ k + 1 \in 1..(L + 1)
        BY <1>2, <3>2
      <4> QED
        BY <1>1, <1>2, <4>1 DEF Followed
    <3> QED
      BY <3>1, <3>2
  <2> QED
    BY <2>1, <2>2, <2>3, <2>4, RuleSame
<1>5. Rule(t, e, L + 1)
  <2>1. ~(L + 1 + 1 \in 1..Len(t)) /\ L + 1 - 1 = L /\ L \in 1..L
    BY <1>2
  <2>2. e[L] = dp[L]
    BY <1>3, <2>1
  <2> QED
    BY <1>1, <1>2, <1>3, <2>1, <2>2 DEF Rule
<1>6. \A k \in 1..(L + 1) : k \in 1..L \/ k = L + 1
  BY <1>2
<1> QED
  BY <1>1, <1>2, <1>4, <1>5, <1>6 DEF Grammar

LEMMA GrammarPop ==
  ASSUME NEW sy \in Seq(ConstructType), NEW dp \in Seq(Nat), Len(dp) = Len(sy),
         sy[1].kind = "script", Grammar(sy, dp), NEW m \in 1..(Len(sy) - 1),
         sy[m + 1].kind # "body"
  PROVE  Grammar(SubSeq(sy, 1, m), SubSeq(dp, 1, m))
<1>1. PICK L, t, e : L = Len(sy) /\ t = SubSeq(sy, 1, m) /\ e = SubSeq(dp, 1, m)
  OBVIOUS
<1>2. L \in Nat /\ m \in 0..L /\ m \in Nat \ {0} /\ m \in 0..Len(dp)
  BY <1>1
<1>3. Len(t) = m /\ \A k \in 1..m : t[k] = sy[k] /\ k \in 1..L
  BY <1>1, <1>2, PrefixFacts
<1>4. \A k \in 1..m : e[k] = dp[k]
  BY <1>1, <1>2, PrefixFacts
<1>5. ASSUME NEW k \in 1..m PROVE Rule(t, e, k)
  <2>1. Rule(sy, dp, k) /\ k \in Nat \ {0}
    BY <1>1, <1>3 DEF Grammar
  <2>2. t[k] = sy[k] /\ e[k] = dp[k]
    BY <1>3, <1>4
  <2>3. IF k = 1 THEN sy[k].kind = "script" ELSE e[k - 1] = dp[k - 1]
    BY <1>2, <1>4
  <2>4. Followed(t, k) <=> Followed(sy, k)
    <3>1. CASE k = m
      BY <1>2, <1>3, <3>1 DEF Followed
    <3>2. CASE k # m
      <4>1. k + 1 \in 1..m /\ k + 1 \in 1..L
        BY <1>2, <3>2
      <4> QED
        BY <1>1, <1>3, <4>1 DEF Followed
    <3> QED
      BY <3>1, <3>2
  <2> QED
    BY <2>1, <2>2, <2>3, <2>4, RuleSame
<1> QED
  BY <1>1, <1>3, <1>5 DEF Grammar

LEMMA GrammarSame ==
  ASSUME NEW sy, NEW dp, NEW t, Len(t) = Len(sy), Len(sy) \in Nat,
         sy[1].kind = "script", Grammar(sy, dp),
         \A k \in 1..Len(sy) : /\ t[k].kind = sy[k].kind
                               /\ sy[k].kind = "body" => t[k].names = sy[k].names
  PROVE  Grammar(t, dp)
<1>1. ASSUME NEW k \in 1..Len(sy) PROVE Rule(t, dp, k)
  <2>1. Rule(sy, dp, k) /\ k \in Nat \ {0}
    BY DEF Grammar
  <2>2. Followed(t, k) <=> Followed(sy, k)
    BY DEF Followed
  <2> QED
    BY <2>1, <2>2, RuleSame
<1> QED
  BY <1>1 DEF Grammar

(* what the two parts of the invariant say of the program so far *)
LEMMA StateFacts ==
  ASSUME NEW dp, Inv(compilers, slots, syntax, dp), Grammar(syntax, dp)
  PROVE  /\ syntax \in Seq(ConstructType) /\ dp \in Seq(Nat) /\ Len(dp) = Len(syntax)
         /\ compilers \in Seq(CompilerType) /\ slots \in Seq(Seq(SlotType))
         /\ Len(syntax) \in Nat \ {0} /\ Len(syntax) \in 1..Len(syntax)
         /\ Len(compilers) \in Nat \ {0} /\ Len(compilers) \in 1..Len(compilers)
         /\ Len(slots) = Len(compilers) /\ syntax[1].kind = "script"
         /\ Fn = Len(compilers) /\ Current = compilers[Fn] /\ Stack = slots[Fn]
         /\ Top = syntax[Len(syntax)] /\ Top.fn = Fn /\ Top \in ConstructType
         /\ Current \in CompilerType /\ Stack \in Seq(SlotType)
         /\ Current.localCount \in 1..Len(Current.locals)
         /\ Current.scopeDepth = dp[Len(syntax)] /\ dp[Len(syntax)] \in Nat
         /\ Top.kind # "for" /\ (Top.kind # "script" => Len(syntax) - 1 \in 1..Len(syntax))
<1>1. /\ syntax \in Seq(ConstructType) /\ dp \in Seq(Nat) /\ Len(dp) = Len(syntax)
      /\ compilers \in Seq(CompilerType) /\ slots \in Seq(Seq(SlotType))
      /\ syntax[1].kind = "script"
  BY DEF Inv, Typed, Tree
<1>2. /\ Len(syntax) \in Nat \ {0} /\ Len(syntax) \in 1..Len(syntax)
      /\ Len(compilers) \in Nat \ {0} /\ Len(compilers) \in 1..Len(compilers)
      /\ Len(slots) = Len(compilers)
  BY Facts
<1>3. Fn = Len(compilers) /\ Current = compilers[Fn] /\ Stack = slots[Fn]
      /\ Top = syntax[Len(syntax)]
  BY DEF Fn, Current, Stack, Top
<1>4. Top.fn = Fn /\ Top \in ConstructType /\ Current \in CompilerType /\ Stack \in Seq(SlotType)
      /\ Current.localCount \in 1..Len(Current.locals) /\ dp[Len(syntax)] \in Nat
  BY <1>2, <1>3, Facts
<1>5. Current.scopeDepth = dp[Len(syntax)]
  BY <1>3, Here
<1>6. Top.kind # "for"
  <2>1. Rule(syntax, dp, Len(syntax)) /\ ~(Len(syntax) + 1 \in 1..Len(syntax))
    BY <1>2 DEF Grammar
  <2> QED
    BY <1>3, <2>1 DEF Rule
<1>7. Top.kind # "script" => Len(syntax) - 1 \in 1..Len(syntax)
  <2>1. Len(syntax) = 1 => Top.kind = "script"
    BY <1>1, <1>3
  <2> QED
    BY <1>2, <2>1
<1> QED
  BY <1>1, <1>2, <1>3, <1>4, <1>5, <1>6, <1>7

-----------------------------------------------------------------------------
(* The actions *)

LEMMA Concluded ==
  ASSUME lost' = {}, NEW e, Inv(compilers', slots', syntax', e), Grammar(syntax', e)
  PROVE  SInv'
BY DEF SInv, Inv, Typed

LEMMA DepthSet ==
  ASSUME NEW c \in CompilerType, NEW d \in Nat
  PROVE  LET e == [c EXCEPT !.scopeDepth = d] IN
         e \in CompilerType /\ SameLocals(e, c) /\ SameLoop(e, c) /\ e.scopeDepth = d
BY DEF CompilerType, SameLocals, SameLoop

LEMMA LoopSet ==
  ASSUME NEW c \in CompilerType, NEW k \in Nat
  PROVE  LET e == EnterLoop(c, k) IN
         /\ e \in CompilerType /\ SameLocals(e, c) /\ e.scopeDepth = c.scopeDepth
         /\ e.loopType = "loop" /\ e.loopStart = k /\ e.loopDepth = e.scopeDepth
BY DEF CompilerType, SameLocals, EnterLoop

LEMMA LoopReset ==
  ASSUME NEW c \in CompilerType, NEW s \in LoopType
  PROVE  LET e == LeaveLoop(c, s) IN
         /\ e \in CompilerType /\ SameLocals(e, c) /\ e.scopeDepth = c.scopeDepth
         /\ Surrounding(e) = s
BY DEF CompilerType, SameLocals, LeaveLoop, LoopType, Surrounding

LEMMA InitSInv == Init => SInv
<1> SUFFICES ASSUME Init PROVE SInv
  OBVIOUS
<1>1. PICK c, x : /\ c = NewCompiler(0)
                  /\ x = [kind |-> "script", names |-> {}, fn |-> 1, entry |-> <<Callee>>,
                          surrounding |-> Surrounding(NewCompiler(0)),
                          breaks |-> {}, continues |-> {}]
  OBVIOUS
<1>2. compilers = <<c>> /\ slots = <<<<Holding(Callee)>>>> /\ syntax = <<x>> /\ lost = {}
  BY <1>1 DEF Init
<1>3. /\ c \in CompilerType /\ Len(c.locals) = 1 /\ c.localCount = 1 /\ c.scopeDepth = 0
      /\ c.locals[1] = Local(Unnamed, 0) /\ c.upvalues = <<>>
      /\ Surrounding(c) = [loopType |-> "none", loopStart |-> 0, loopDepth |-> 0]
  <2>1. Local(Unnamed, 0) \in LocalType
    BY DEF Local, LocalType, Word
  <2>2. <<Local(Unnamed, 0)>> \in Seq(LocalType)
    BY <2>1
  <2>3. <<>> \in Seq([index : Nat, isLocal : BOOLEAN])
    OBVIOUS
  <2> QED
    BY <1>1, <2>2, <2>3 DEF NewCompiler, CompilerType, Surrounding
<1>4. Holding(Callee) \in SlotType /\ Holding(Callee).var = Callee /\ ~Holding(Callee).captured
      /\ Callee \in VarType /\ Callee.name = Unnamed /\ Callee.scope = 0
  BY DEF Holding, Callee, Variable, SlotType, VarType, Word
<1>5. /\ x \in ConstructType /\ x.kind = "script" /\ x.fn = 1 /\ x.names = {}
  <2>1. <<Callee>> \in Seq(VarType)
    BY <1>4
  <2>2. Surrounding(c) \in LoopType
    BY <1>3 DEF LoopType
  <2> QED
    BY <1>1, <2>1, <2>2 DEF ConstructType, AllKinds
<1>6. PICK s : s = <<Holding(Callee)>>
  OBVIOUS
<1>7. s \in Seq(SlotType) /\ Len(s) = 1 /\ s[1] = Holding(Callee)
  BY <1>4, <1>6
<1>8. PICK e : e = <<0>>
  OBVIOUS
<1>9. e \in Seq(Nat) /\ Len(e) = 1 /\ e[1] = 0
  BY <1>8
<1>10. PICK cs, sl, sy : cs = <<c>> /\ sl = <<s>> /\ sy = <<x>>
  OBVIOUS
<1>11. cs \in Seq(CompilerType) /\ Len(cs) = 1 /\ cs[1] = c
  BY <1>3, <1>10
<1>12. sl \in Seq(Seq(SlotType)) /\ Len(sl) = 1 /\ sl[1] = s
  BY <1>7, <1>10
<1>13. sy \in Seq(ConstructType) /\ Len(sy) = 1 /\ sy[1] = x
  BY <1>5, <1>10
<1>14. (\A i \in 1..1 : i = 1) /\ 2..1 = {}
  OBVIOUS
<1>15. Typed(cs, sl, sy, e)
  BY <1>9, <1>11, <1>12, <1>13 DEF Typed
<1>16. Tree(cs, sy)
  BY <1>5, <1>11, <1>13, <1>14 DEF Tree
<1>17. Depths(cs, sy, e)
  BY <1>3, <1>5, <1>9, <1>11, <1>13, <1>14 DEF Depths
<1>18. Placed(cs, sl, sy, e)
  <2>1. Local(Unnamed, 0).name = Unnamed /\ Local(Unnamed, 0).depth = 0
    BY DEF Local
  <2>2. \A i \in 1..Len(s) : s[i].var.name = c.locals[i].name
    BY <1>3, <1>4, <1>7, <1>14, <2>1
  <2>3. \A i, j \in 1..Len(s) : i <= j => s[i].var.scope <= s[j].var.scope
    BY <1>4, <1>7, <1>14
  <2>4. c.localCount \in 1..Len(c.locals) /\ Len(s) = c.localCount /\ s[1].var = Callee
        /\ c.locals[1].depth = 0 /\ 2..Len(s) = {}
    BY <1>3, <1>4, <1>7, <2>1
  <2>5. Framed(c, s, sy, e, 1, 1)
    BY <2>2, <2>3, <2>4 DEF Framed
  <2> QED
    BY <1>11, <1>12, <1>13, <1>14, <2>5 DEF Placed
<1>19. Named(sl, sy)
  BY <1>5, <1>13, <1>14 DEF Named
<1>20. LoopsKept(cs, sy, e)
  <2>1. sy[1].kind \notin LoopKinds
    BY <1>5, <1>13 DEF LoopKinds
  <2>2. LoopAt(sy, 1, 1) = 0
    <3>1. {j \in 1..1 : sy[j].kind \in LoopKinds /\ sy[j].fn = 1} = {}
      BY <1>14, <2>1
    <3> QED
      BY <3>1 DEF LoopAt, Largest
  <2> QED
    BY <1>3, <1>11, <1>13, <1>14, <2>1, <2>2 DEF LoopsKept, LoopState
<1>21. Entered(sl, sy)
  BY <1>5, <1>13, <1>14 DEF Entered, LoopKinds
<1>22. Marked(cs, sl)
  BY <1>3, <1>4, <1>7, <1>11, <1>12, <1>14 DEF Marked, Elements
<1>23. Grammar(sy, e)
  BY <1>5, <1>13, <1>14 DEF Grammar, Rule
<1> QED
  BY <1>2, <1>6, <1>9, <1>10, <1>15, <1>16, <1>17, <1>18, <1>19, <1>20, <1>21, <1>22, <1>23
     DEF SInv, Inv

LEMMA BeginBlockKeeps == SInv /\ BeginBlock => SInv'
<1> SUFFICES ASSUME SInv, BeginBlock PROVE SInv'
  OBVIOUS
<1>1. PICK dp \in Seq(Nat) : Inv(compilers, slots, syntax, dp) /\ Grammar(syntax, dp)
  BY DEF SInv
<1>2. PICK L, d, c, x : /\ L = Len(syntax) /\ d = dp[L] + 1
                        /\ c = [Current EXCEPT !.scopeDepth = @ + 1]
                        /\ x = Construct("block", {})
  <2>1. \E L : L = Len(syntax)
    OBVIOUS
  <2> QED
    BY <2>1
<1>3. x \in ConstructType /\ x.kind = "block" /\ x.names = {} /\ x.fn = Len(compilers)
  <2>1. "block" \in AllKinds /\ {} \in SUBSET Name
    BY DEF AllKinds
  <2> QED
    BY <1>1, <1>2, <2>1, ConstructFacts
<1>4. /\ c \in CompilerType /\ SameLocals(c, Current) /\ SameLoop(c, Current)
      /\ c.scopeDepth = d /\ d \in Nat
  <2>1. Current \in CompilerType /\ Current.scopeDepth = dp[L] /\ dp[L] \in Nat
    BY <1>1, <1>2, StateFacts
  <2>2. c = [Current EXCEPT !.scopeDepth = d]
    BY <1>2, <2>1
  <2>3. d \in Nat
    BY <1>2, <2>1
  <2> QED
    BY <2>1, <2>2, <2>3, DepthSet
<1>5. Inv([compilers EXCEPT ![Len(compilers)] = c], slots, Append(syntax, x), Append(dp, d))
  <2>1. d \in {dp[Len(syntax)], dp[Len(syntax)] + 1}
    BY <1>2
  <2>2. Current = compilers[Len(compilers)]
    BY DEF Current, Fn
  <2> QED
    BY <1>1, <1>3, <1>4, <2>1, <2>2, PushKeeps
<1>6. Grammar(Append(syntax, x), Append(dp, d))
  <2>1. /\ syntax \in Seq(ConstructType) /\ Len(dp) = Len(syntax) /\ Len(syntax) >= 1
        /\ syntax[1].kind = "script"
    BY <1>1, StateFacts
  <2>2. /\ x.kind \notin {"script", "for", "body"} /\ x.kind # "while"
        /\ d = dp[Len(syntax)] + 1
    BY <1>2, <1>3
  <2> QED
    BY <1>1, <1>3, <1>4, <2>1, <2>2, GrammarPush
<1>7. /\ compilers' = [compilers EXCEPT ![Len(compilers)] = c]
      /\ syntax' = Append(syntax, x) /\ slots' = slots /\ lost' = lost
  BY <1>2 DEF BeginBlock, Open, Fn, Current
<1>8. lost' = {}
  BY <1>7 DEF SInv
<1> QED
  BY <1>5, <1>6, <1>7, <1>8, Concluded

LEMMA EndBlockKeeps == SInv /\ EndBlock => SInv'
<1> SUFFICES ASSUME SInv, EndBlock PROVE SInv'
  OBVIOUS
<1>1. PICK dp \in Seq(Nat) : Inv(compilers, slots, syntax, dp) /\ Grammar(syntax, dp)
  BY DEF SInv
<1>2. PICK L, c : L = Len(syntax) /\ c = EndScope(Current)
  OBVIOUS
<1>3. Top.kind = "block" /\ Top = syntax[L] /\ L - 1 \in 1..L /\ L \in Nat
  BY <1>1, <1>2, StateFacts DEF EndBlock
<1>4. dp[L] = dp[L - 1] + 1
  BY <1>1, <1>2, <1>3, StateFacts DEF Grammar, Rule
<1>5. /\ Inv([compilers EXCEPT ![Len(compilers)] = c],
             [slots EXCEPT ![Len(slots)] = SubSeq(slots[Len(slots)], 1, c.localCount)],
             SubSeq(syntax, 1, L - 1), SubSeq(dp, 1, L - 1))
      /\ c.localCount \in 1..Current.localCount
  <2>1. c = EndScope(compilers[Len(compilers)]) /\ Current = compilers[Len(compilers)]
    BY <1>2 DEF Current, Fn
  <2>2. L >= 2
    BY <1>3
  <2> QED
    BY <1>1, <1>2, <1>3, <1>4, <2>1, <2>2, EndScopeKeeps
<1>6. Grammar(SubSeq(syntax, 1, L - 1), SubSeq(dp, 1, L - 1))
  <2>1. L - 1 \in 1..(L - 1) /\ syntax[(L - 1) + 1].kind # "body"
    BY <1>3
  <2> QED
    BY <1>1, <1>2, <2>1, StateFacts, GrammarPop
<1>7. c.localCount \in 0..Current.localCount
  BY <1>1, <1>5, StateFacts
<1>8. Losing(c.localCount) = {} /\ Dropping(c.localCount) = SubSeq(Stack, 1, c.localCount)
  BY <1>1, <1>7, NothingLost
<1>9. /\ compilers' = [compilers EXCEPT ![Len(compilers)] = c]
      /\ slots' = [slots EXCEPT ![Len(slots)] = SubSeq(slots[Len(slots)], 1, c.localCount)]
      /\ syntax' = SubSeq(syntax, 1, L - 1)
  BY <1>1, <1>2, <1>8, StateFacts DEF EndBlock, Close
<1>10. lost' = {}
  BY <1>2, <1>8 DEF EndBlock, SInv
<1> QED
  BY <1>5, <1>6, <1>9, <1>10, Concluded

(* A declaration stands where a scope has been opened for it. *)
LEMMA DeclaresInScope ==
  ASSUME NEW dp, Inv(compilers, slots, syntax, dp), Grammar(syntax, dp),
         MayDeclare, Current.scopeDepth > 0
  PROVE  Opens(syntax, dp, Len(syntax)) /\ Top.kind \notin LoopKinds
         /\ Top.kind \in {"block"} \cup FunctionKinds
<1>1. PICK L : L = Len(syntax)
  OBVIOUS
<1>2. /\ Top = syntax[L] /\ Top.kind # "for" /\ Top.kind \in AllKinds /\ L \in 1..L /\ L \in Nat
      /\ Current.scopeDepth = dp[L]
  BY <1>1, StateFacts DEF ConstructType
<1>3. Top.kind \notin {"while", "body"}
  BY DEF MayDeclare
<1>4. Rule(syntax, dp, L)
  BY <1>1, <1>2 DEF Grammar
<1>5. Top.kind # "script"
  <2>1. ASSUME Top.kind = "script" PROVE FALSE
    <3>1. L = 1
      BY <1>2, <1>4, <2>1 DEF Rule
    <3>2. dp[1] = 0
      BY DEF Inv, Depths
    <3> QED
      BY <1>2, <3>1, <3>2
  <2> QED
    BY <2>1
<1>6. Top.kind \in {"block"} \cup FunctionKinds
  BY <1>2, <1>3, <1>5 DEF AllKinds, LoopKinds
<1>7. L >= 2
  <2>1. L # 1
    BY <1>1, <1>2, <1>5, StateFacts
  <2> QED
    BY <1>2, <2>1
<1>8. Top.kind = "block" => dp[L] = dp[L - 1] + 1
  BY <1>2, <1>4 DEF Rule
<1> QED
  BY <1>1, <1>2, <1>6, <1>7, <1>8 DEF Opens, LoopKinds, FunctionKinds

LEMMA DeclaredKeeps ==
  ASSUME NEW dp, Inv(compilers, slots, syntax, dp), Grammar(syntax, dp),
         MayDeclare, Current.scopeDepth > 0, NEW v \in Name,
         NEW x, x = [Top EXCEPT !.names = @ \cup {v}]
  PROVE  /\ Inv([compilers EXCEPT
                   ![Len(compilers)] = AddLocal(Current, Local(v, Current.scopeDepth))],
                [slots EXCEPT ![Len(slots)] =
                   Append(slots[Len(slots)], Holding(Variable(v, Len(syntax))))],
                [syntax EXCEPT ![Len(syntax)] = x], dp)
         /\ Grammar([syntax EXCEPT ![Len(syntax)] = x], dp)
         /\ x \in ConstructType
<1>1. PICK L : L = Len(syntax)
  OBVIOUS
<1>2. Opens(syntax, dp, L) /\ Top.kind \notin LoopKinds /\ Top.kind \in {"block"} \cup FunctionKinds
  BY <1>1, DeclaresInScope
<1>3. Top = syntax[L] /\ L \in 1..L /\ Top \in ConstructType
  BY <1>1, StateFacts
<1>4. Inv([compilers EXCEPT ![Len(compilers)] = AddLocal(Current, Local(v, Current.scopeDepth))],
          [slots EXCEPT ![Len(slots)] = Append(slots[Len(slots)], Holding(Variable(v, L)))],
          [syntax EXCEPT ![L] = x], dp)
  <2>1. Current = compilers[Len(compilers)]
    BY DEF Current, Fn
  <2> QED
    BY <1>1, <1>2, <1>3, <2>1, DeclareLocalKeeps
<1>5. x.kind = Top.kind /\ Top.kind # "body" /\ x \in ConstructType
  BY <1>2, <1>3 DEF ConstructType, FunctionKinds
<1>6. Grammar([syntax EXCEPT ![L] = x], dp)
  <2>1. PICK t : t = [syntax EXCEPT ![L] = x]
    OBVIOUS
  <2>2. syntax \in Seq(ConstructType) /\ Len(syntax) \in Nat /\ syntax[1].kind = "script"
    BY StateFacts
  <2>3. Len(t) = Len(syntax) /\ \A k \in 1..Len(syntax) : t[k] = IF k = L THEN x ELSE syntax[k]
    BY <2>1, <2>2
  <2>4. \A k \in 1..Len(syntax) : /\ t[k].kind = syntax[k].kind
                                  /\ syntax[k].kind = "body" => t[k].names = syntax[k].names
    BY <1>3, <1>5, <2>3
  <2> QED
    BY <2>1, <2>2, <2>3, <2>4, GrammarSame
<1> QED
  BY <1>1, <1>4, <1>5, <1>6

LEMMA DeclareVariableKeeps ==
  ASSUME NEW v \in Name
  PROVE  SInv /\ DeclareVariable(v) => SInv'
<1> SUFFICES ASSUME SInv, DeclareVariable(v) PROVE SInv'
  OBVIOUS
<1>1. PICK dp \in Seq(Nat) : Inv(compilers, slots, syntax, dp) /\ Grammar(syntax, dp)
  BY DEF SInv
<1>2. PICK L, x : L = Len(syntax) /\ x = [Top EXCEPT !.names = @ \cup {v}]
  OBVIOUS
<1>3. MayDeclare /\ Current.scopeDepth > 0
  BY DEF DeclareVariable
<1>4. /\ Inv([compilers EXCEPT
                ![Len(compilers)] = AddLocal(Current, Local(v, Current.scopeDepth))],
             [slots EXCEPT ![Len(slots)] = Append(slots[Len(slots)], Holding(Variable(v, L)))],
             [syntax EXCEPT ![L] = x], dp)
      /\ Grammar([syntax EXCEPT ![L] = x], dp)
  BY <1>1, <1>2, <1>3, DeclaredKeeps
<1>5. /\ compilers' = [compilers EXCEPT
                         ![Len(compilers)] = AddLocal(Current, Local(v, Current.scopeDepth))]
      /\ slots' = [slots EXCEPT ![Len(slots)] = Append(slots[Len(slots)], Holding(Variable(v, L)))]
      /\ syntax' = [syntax EXCEPT ![L] = x]
  BY <1>1, <1>2, StateFacts DEF DeclareVariable
<1>6. lost' = {}
  BY DEF DeclareVariable, SInv
<1> QED
  BY <1>4, <1>5, <1>6, Concluded

LEMMA BeginWhileKeeps == SInv /\ BeginWhile => SInv'
<1> SUFFICES ASSUME SInv, BeginWhile PROVE SInv'
  OBVIOUS
<1>1. PICK dp \in Seq(Nat) : Inv(compilers, slots, syntax, dp) /\ Grammar(syntax, dp)
  BY DEF SInv
<1>2. PICK L, n : L = Len(syntax) /\ n = Len(compilers)
  OBVIOUS
<1>3. PICK c, y, x : /\ c = EnterLoop(Current, L + 1) /\ y = Construct("body", {})
                     /\ x = [Construct("while", {}) EXCEPT !.surrounding = Surrounding(Current)]
  OBVIOUS
<1>4. /\ L \in Nat \ {0} /\ n \in 1..n /\ Current = compilers[n] /\ Current \in CompilerType
      /\ Current.scopeDepth = dp[L] /\ dp[L] \in Nat /\ syntax \in Seq(ConstructType)
      /\ compilers \in Seq(CompilerType) /\ syntax[1].kind = "script" /\ Len(dp) = L
      /\ Len(slots) = n
  BY <1>1, <1>2, StateFacts
<1>5. "body" \in AllKinds /\ "while" \in AllKinds /\ {} \in SUBSET Name
  BY DEF AllKinds, LoopKinds
<1>6. y \in ConstructType /\ y.kind = "body" /\ y.names = {} /\ y.fn = n
  BY <1>1, <1>2, <1>3, <1>5, ConstructFacts
<1>7. PICK w : w = Construct("while", {})
  OBVIOUS
<1>8. /\ w \in ConstructType /\ w.kind = "while" /\ w.names = {} /\ w.fn = n
      /\ w.entry = Vars(slots[n]) /\ w.breaks = {} /\ w.continues = {}
  BY <1>1, <1>2, <1>5, <1>7, ConstructFacts
<1>9. Surrounding(Current) \in LoopType
  BY <1>4 DEF Surrounding, CompilerType, LoopType
<1>10. /\ x \in ConstructType /\ x.kind = "while" /\ x.names = {} /\ x.fn = n
       /\ x.surrounding = Surrounding(Current)
       /\ x.entry = Vars(slots[n]) /\ x.breaks = {} /\ x.continues = {}
  BY <1>3, <1>7, <1>8, <1>9 DEF ConstructType
<1>11. /\ c \in CompilerType /\ SameLocals(c, Current) /\ c.scopeDepth = Current.scopeDepth
       /\ c.loopType = "loop" /\ c.loopStart = L + 1 /\ c.loopDepth = c.scopeDepth
  <2>1. L + 1 \in Nat
    BY <1>4
  <2> QED
    BY <1>3, <1>4, <2>1, LoopSet
<1>12. PICK sy, e : sy = Append(syntax, y) /\ e = Append(dp, dp[L])
  OBVIOUS
<1>13. Inv(compilers, slots, sy, e)
  <2>1. PICK o : o = compilers[Len(compilers)]
    OBVIOUS
  <2>2. /\ SameLocals(o, compilers[Len(compilers)]) /\ SameLoop(o, compilers[Len(compilers)])
        /\ o \in CompilerType /\ o.scopeDepth = dp[L]
    BY <1>2, <1>4, <2>1 DEF SameLocals, SameLoop
  <2>3. /\ y.kind \in {"block", "body"} /\ dp[L] \in {dp[Len(syntax)], dp[Len(syntax)] + 1}
        /\ y \in ConstructType /\ y.fn = Len(compilers) /\ y.names = {}
    BY <1>2, <1>6
  <2>4. Inv([compilers EXCEPT ![Len(compilers)] = o], slots, Append(syntax, y), Append(dp, dp[L]))
    BY <1>1, <2>2, <2>3, PushKeeps
  <2>5. [compilers EXCEPT ![Len(compilers)] = o] = compilers
    BY <1>4, <2>1
  <2> QED
    BY <1>12, <2>4, <2>5
<1>14. Len(sy) = L + 1 /\ sy[L + 1] = y
  BY <1>2, <1>4, <1>6, <1>12, AppendFacts
<1>15. [sy EXCEPT ![L + 1] = x] = Append(syntax, x)
  BY <1>2, <1>4, <1>6, <1>10, <1>12, AppendReplaced
<1>16. Inv([compilers EXCEPT ![n] = c], slots, Append(syntax, x), e)
  <2>1. /\ sy[Len(sy)].kind \in {"block", "body"} /\ x.kind \in LoopKinds
        /\ SameLocals(c, compilers[Len(compilers)])
        /\ c.scopeDepth = compilers[Len(compilers)].scopeDepth
        /\ x.fn = sy[Len(sy)].fn /\ x.names = sy[Len(sy)].names
        /\ x.surrounding = Surrounding(compilers[Len(compilers)])
        /\ x.entry = Vars(slots[Len(slots)]) /\ c.loopStart = Len(sy)
    BY <1>2, <1>4, <1>6, <1>10, <1>11, <1>14 DEF LoopKinds
  <2>2. Inv([compilers EXCEPT ![Len(compilers)] = c], slots, [sy EXCEPT ![Len(sy)] = x], e)
    BY <1>10, <1>11, <1>13, <2>1, MakeLoopKeeps
  <2> QED
    BY <1>2, <1>14, <1>15, <2>2
<1>17. Grammar(Append(syntax, x), e)
  <2>1. x.kind \notin {"script", "for", "body"} /\ x.kind # "block" /\ dp[L] = dp[Len(syntax)]
        /\ Len(syntax) >= 1
    BY <1>2, <1>4, <1>10
  <2> QED
    BY <1>1, <1>2, <1>4, <1>10, <1>12, <2>1, GrammarPush
<1>18. /\ compilers' = [compilers EXCEPT ![n] = c] /\ syntax' = Append(syntax, x)
       /\ slots' = slots /\ lost' = lost
  BY <1>2, <1>3 DEF BeginWhile, Open, Fn, Current
<1>19. lost' = {}
  BY <1>18 DEF SInv
<1> QED
  BY <1>16, <1>17, <1>18, <1>19, Concluded

LEMMA EndFunctionKeepsSInv == SInv /\ EndFunction => SInv'
<1> SUFFICES ASSUME SInv, EndFunction PROVE SInv'
  OBVIOUS
<1>1. PICK dp \in Seq(Nat) : Inv(compilers, slots, syntax, dp) /\ Grammar(syntax, dp)
  BY DEF SInv
<1>2. PICK L : L = Len(syntax)
  OBVIOUS
<1>3. Top = syntax[L] /\ syntax[L].kind \in FunctionKinds /\ L - 1 \in 1..L /\ L \in Nat
  BY <1>1, <1>2, StateFacts DEF EndFunction, FunctionKinds
<1>4. PICK cs, sl : cs = EndedCompilers(compilers, syntax[L].kind) /\ sl = EndedSlots(compilers, slots)
  OBVIOUS
<1>5. Inv(cs, sl, SubSeq(syntax, 1, L - 1), SubSeq(dp, 1, L - 1))
  BY <1>1, <1>2, <1>3, <1>4, EndFunctionKeeps
<1>6. Grammar(SubSeq(syntax, 1, L - 1), SubSeq(dp, 1, L - 1))
  <2>1. L - 1 \in 1..(L - 1) /\ syntax[(L - 1) + 1].kind # "body"
    BY <1>3 DEF FunctionKinds
  <2> QED
    BY <1>1, <1>2, <2>1, StateFacts, GrammarPop
<1>7. compilers' = cs /\ slots' = sl /\ syntax' = SubSeq(syntax, 1, L - 1) /\ lost' = lost
  BY <1>2, <1>3, <1>4 DEF EndFunction, EndedCompilers, EndedSlots, Close, Fn, Current
<1>8. lost' = {}
  BY <1>7 DEF SInv
<1> QED
  BY <1>5, <1>6, <1>7, <1>8, Concluded

LEMMA PrefixOfReplaced ==
  ASSUME NEW S, NEW s \in Seq(S), Len(s) >= 1, NEW v \in S
  PROVE  SubSeq([s EXCEPT ![Len(s)] = v], 1, Len(s) - 1) = SubSeq(s, 1, Len(s) - 1)
<1>1. PICK r, m : r = [s EXCEPT ![Len(s)] = v] /\ m = Len(s) - 1
  OBVIOUS
<1>2. /\ r \in Seq(S) /\ Len(r) = Len(s) /\ Len(s) \in Nat
      /\ \A i \in 1..Len(s) : i # Len(s) => r[i] = s[i]
  BY <1>1, LastReplaced
<1>3. m \in 0..Len(s) /\ \A i \in 1..m : i \in 1..Len(s) /\ i # Len(s)
  BY <1>1, <1>2
<1>4. PICK a, b : a = SubSeq(r, 1, m) /\ b = SubSeq(s, 1, m)
  OBVIOUS
<1>5. a \in Seq(S) /\ Len(a) = m /\ \A i \in 1..m : a[i] = r[i]
  BY <1>2, <1>3, <1>4, PrefixFacts
<1>6. b \in Seq(S) /\ Len(b) = m /\ \A i \in 1..m : b[i] = s[i]
  BY <1>2, <1>3, <1>4, PrefixFacts
<1>7. a = b
  <2>1. \A i \in 1..Len(a) : a[i] = b[i]
    BY <1>2, <1>3, <1>5, <1>6
  <2> QED
    BY <1>5, <1>6, <2>1, Sames
<1> QED
  BY <1>1, <1>4, <1>7

(* a construct without declarations ends *)
LEMMA PopEmptyKeeps ==
  ASSUME NEW cs, NEW sl, NEW sy, NEW dp, Inv(cs, sl, sy, dp), Len(sy) >= 2,
         sy[Len(sy)].kind \in {"block", "body"}, sy[Len(sy)].names = {},
         dp[Len(sy)] = dp[Len(sy) - 1]
  PROVE  Inv(cs, sl, SubSeq(sy, 1, Len(sy) - 1), SubSeq(dp, 1, Len(sy) - 1))
<1>1. PICK n, L, c, s : n = Len(cs) /\ L = Len(sy) /\ c = cs[n] /\ s = sl[n]
  <2>1. \E n, L : n = Len(cs) /\ L = Len(sy)
    OBVIOUS
  <2> QED
    BY <2>1
<1>2. /\ n \in Nat \ {0} /\ n \in 1..n /\ L \in Nat \ {0} /\ Len(sl) = n
      /\ c \in CompilerType /\ s \in Seq(SlotType) /\ Framed(c, s, sy, dp, n, n)
      /\ c.localCount \in 1..Len(c.locals) /\ Len(s) = c.localCount
  BY <1>1, Facts
<1>3. c.localCount \in Nat \ {0} /\ Len(s) \in Nat
  BY <1>2 DEF CompilerType
<1>4. ASSUME NEW i \in 1..Len(s) PROVE i <= c.localCount /\ s[i].var.scope < L
  <2>1. CASE i = 1
    BY <1>2, <1>3, <2>1 DEF Framed, Callee, Variable
  <2>2. CASE i # 1
    <3>1. i \in 2..Len(s)
      BY <1>3, <2>2
    <3>2. s[i].var.scope \in 1..L /\ s[i].var.name \in sy[s[i].var.scope].names
      BY <1>1, <1>2, <3>1 DEF Framed
    <3>3. s[i].var.scope # L
      BY <1>1, <3>2
    <3> QED
      BY <1>2, <3>2, <3>3
  <2> QED
    BY <2>1, <2>2
<1>5. c.scopeDepth = dp[L - 1]
  BY <1>1, Here
<1>6. SameLoop(c, cs[Len(cs)])
  BY <1>1 DEF SameLoop
<1>7. Inv([cs EXCEPT ![Len(cs)] = c],
          [sl EXCEPT ![Len(sl)] = SubSeq(sl[Len(sl)], 1, c.localCount)],
          SubSeq(sy, 1, Len(sy) - 1), SubSeq(dp, 1, Len(sy) - 1))
  <2>1. \A i \in 1..Len(sl[Len(cs)]) : i <= c.localCount <=> sl[Len(cs)][i].var.scope < Len(sy)
    BY <1>1, <1>4
  <2>2. c.localCount \in 1..cs[Len(cs)].localCount /\ c.scopeDepth = dp[Len(sy) - 1]
    BY <1>1, <1>3, <1>5
  <2>3. c.locals = cs[Len(cs)].locals /\ c.upvalues = cs[Len(cs)].upvalues
    BY <1>1
  <2> QED
    BY <1>2, <1>6, <2>1, <2>2, <2>3, PopKeeps
<1>8. cs \in Seq(CompilerType) /\ sl \in Seq(Seq(SlotType))
  BY DEF Inv, Typed
<1>9. [cs EXCEPT ![Len(cs)] = c] = cs
  BY <1>1, <1>8
<1>10. SubSeq(s, 1, c.localCount) = s
  BY <1>2, <1>3
<1>11. [sl EXCEPT ![Len(sl)] = SubSeq(sl[Len(sl)], 1, c.localCount)] = sl
  BY <1>1, <1>2, <1>8, <1>10
<1> QED
  BY <1>7, <1>9, <1>11

LEMMA EndWhileKeeps == SInv /\ EndWhile => SInv'
<1> SUFFICES ASSUME SInv, EndWhile PROVE SInv'
  OBVIOUS
<1>1. PICK dp \in Seq(Nat) : Inv(compilers, slots, syntax, dp) /\ Grammar(syntax, dp)
  BY DEF SInv
<1>2. PICK L, n : L = Len(syntax) /\ n = Len(compilers)
  OBVIOUS
<1>3. /\ Top = syntax[L] /\ Top.kind = "while" /\ L - 1 \in 1..L /\ L \in Nat /\ L \in 1..L
      /\ Top.fn = n /\ Top \in ConstructType /\ Current = compilers[n] /\ Current \in CompilerType
      /\ compilers \in Seq(CompilerType) /\ syntax \in Seq(ConstructType) /\ n \in Nat \ {0}
      /\ dp[L] \in Nat
  BY <1>1, <1>2, StateFacts DEF EndWhile
<1>4. PICK c, x : c = LeaveLoop(Current, Top.surrounding) /\ x = [Top EXCEPT !.kind = "body"]
  OBVIOUS
<1>5. /\ c \in CompilerType /\ SameLocals(c, Current) /\ c.scopeDepth = Current.scopeDepth
      /\ Surrounding(c) = Top.surrounding
  <2>1. Top.surrounding \in LoopType
    BY <1>3 DEF ConstructType
  <2> QED
    BY <1>3, <1>4, <2>1, LoopReset
<1>6. /\ x \in ConstructType /\ x.kind = "body" /\ x.fn = Top.fn /\ x.names = Top.names
  BY <1>3, <1>4 DEF ConstructType, AllKinds
<1>7. PICK cs, sy : cs = [compilers EXCEPT ![n] = c] /\ sy = [syntax EXCEPT ![L] = x]
  OBVIOUS
<1>8. Inv(cs, slots, sy, dp)
  <2>1. /\ syntax[Len(syntax)].kind \in LoopKinds /\ x.kind \in {"block", "body"}
        /\ x.fn = syntax[Len(syntax)].fn /\ x.names = syntax[Len(syntax)].names
        /\ SameLocals(c, compilers[Len(compilers)])
        /\ c.scopeDepth = compilers[Len(compilers)].scopeDepth
        /\ Surrounding(c) = syntax[Len(syntax)].surrounding
    BY <1>2, <1>3, <1>5, <1>6 DEF LoopKinds
  <2> QED
    BY <1>1, <1>2, <1>5, <1>6, <1>7, <2>1, UnLoopKeeps
<1>9. dp[L] = dp[L - 1]
  BY <1>1, <1>2, <1>3 DEF Grammar, Rule
<1>10. Top.names = {}
  <2>1. ASSUME Top.names # {} PROVE FALSE
    <3>1. Opens(syntax, dp, L)
      BY <1>1, <1>2, <1>3, <2>1 DEF Inv, Depths
    <3> QED
      BY <1>3, <1>9, <3>1 DEF Opens, FunctionKinds
  <2> QED
    BY <2>1
<1>11. Len(sy) = L /\ sy[L] = x
  BY <1>2, <1>3, <1>7
<1>12. Inv(cs, slots, SubSeq(sy, 1, L - 1), SubSeq(dp, 1, L - 1))
  <2>1. /\ Len(sy) >= 2 /\ sy[Len(sy)].kind \in {"block", "body"} /\ sy[Len(sy)].names = {}
        /\ dp[Len(sy)] = dp[Len(sy) - 1]
    BY <1>3, <1>6, <1>9, <1>10, <1>11
  <2> QED
    BY <1>8, <1>11, <2>1, PopEmptyKeeps
<1>13. SubSeq(sy, 1, L - 1) = SubSeq(syntax, 1, L - 1)
  BY <1>2, <1>3, <1>6, <1>7, PrefixOfReplaced
<1>14. Grammar(SubSeq(syntax, 1, L - 1), SubSeq(dp, 1, L - 1))
  <2>1. L - 1 \in 1..(L - 1) /\ syntax[(L - 1) + 1].kind # "body"
    BY <1>3
  <2> QED
    BY <1>1, <1>2, <2>1, StateFacts, GrammarPop
<1>15. compilers' = cs /\ slots' = slots /\ syntax' = SubSeq(syntax, 1, L - 1) /\ lost' = lost
  BY <1>2, <1>4, <1>7 DEF EndWhile, Close, Fn, Current
<1>16. lost' = {}
  BY <1>15 DEF SInv
<1> QED
  BY <1>12, <1>13, <1>14, <1>15, <1>16, Concluded

(* A function begins, with a parameter or without. *)
LEMMA PairAppended ==
  ASSUME NEW S, NEW a \in S, NEW b \in S
  PROVE  Append(<<a>>, b) = <<a, b>>
<1>1. PICK s, t, u : s = <<a>> /\ t = Append(<<a>>, b) /\ u = <<a, b>>
  OBVIOUS
<1>2. s \in Seq(S) /\ Len(s) = 1 /\ s[1] = a
  BY <1>1
<1>3. /\ t \in Seq(S) /\ Len(t) = Len(s) + 1 /\ \A i \in 1..Len(s) : t[i] = s[i]
      /\ t[Len(s) + 1] = b
  BY <1>1, <1>2, AppendFacts
<1>4. u \in Seq(S) /\ Len(u) = 2 /\ u[1] = a /\ u[2] = b
  BY <1>1
<1>5. Len(t) = 2 /\ t[1] = a /\ t[2] = b
  BY <1>2, <1>3
<1>6. \A i \in 1..2 : t[i] = u[i]
  BY <1>4, <1>5
<1>7. t = u
  BY <1>3, <1>4, <1>5, <1>6, Sames
<1> QED
  BY <1>1, <1>7

LEMMA FunctionBegins ==
  ASSUME NEW cs, NEW sl, NEW sy, NEW dp, Inv(cs, sl, sy, dp),
         NEW x \in ConstructType, x.kind \in FunctionKinds, x.fn = Len(cs) + 1, x.names = {},
         NEW d \in CompilerType, AsBefore(d, cs[Len(cs)]),
         IF x.kind = "initializer"
         THEN /\ d.locals[d.localCount].depth = -1 /\ d.localCount >= 2
              /\ sl[Len(cs)][d.localCount].var.scope = Len(sy)
         ELSE d.locals[d.localCount].depth = cs[Len(cs)].locals[d.localCount].depth,
         NEW p \in Name
  PROVE  Inv(Append([cs EXCEPT ![Len(cs)] = d], AddLocal(NewCompiler(1), Local(p, 1))),
             Append(sl, <<Holding(Callee), Holding(Variable(p, Len(sy) + 1))>>),
             Append(sy, [x EXCEPT !.names = {p}]), Append(dp, 1))
<1>1. PICK n, L : n = Len(cs) /\ L = Len(sy)
  OBVIOUS
<1>2. PICK w, r, cs1 : /\ w = NewCompiler(1) /\ r = <<Holding(Callee)>>
                       /\ cs1 = [cs EXCEPT ![n] = d]
  OBVIOUS
<1>3. PICK cs2, sl2, t, e : /\ cs2 = Append(cs1, w) /\ sl2 = Append(sl, r)
                            /\ t = Append(sy, x) /\ e = Append(dp, 1)
  OBVIOUS
<1>4. Inv(cs2, sl2, t, e)
  BY <1>1, <1>2, <1>3, NewFunctionKeeps
<1>5. /\ n \in Nat \ {0} /\ L \in Nat \ {0} /\ Len(sl) = n /\ sy \in Seq(ConstructType)
      /\ dp \in Seq(Nat) /\ Len(dp) = L /\ cs \in Seq(CompilerType) /\ sl \in Seq(Seq(SlotType))
  BY <1>1, Facts DEF Inv, Typed
<1>6. cs1 \in Seq(CompilerType) /\ Len(cs1) = n
  BY <1>1, <1>2, <1>5, LastReplaced
<1>7. /\ w \in CompilerType /\ Len(w.locals) = 1 /\ w.localCount = 1 /\ w.scopeDepth = 1
  BY <1>2, NewCompilerTyped
<1>8. Len(cs2) = n + 1 /\ cs2[n + 1] = w
  BY <1>3, <1>6, <1>7, AppendFacts
<1>9. r \in Seq(SlotType)
  BY <1>2 DEF Holding, Callee, Variable, SlotType, VarType, Word
<1>10. Len(sl2) = n + 1 /\ sl2[n + 1] = r
  BY <1>3, <1>5, <1>9, AppendFacts
<1>11. Len(t) = L + 1 /\ t[L + 1] = x /\ e[L + 1] = 1
  BY <1>1, <1>3, <1>5, AppendFacts
<1>12. PICK q : q = Holding(Variable(p, L + 1))
  OBVIOUS
<1>13. q \in SlotType
  BY <1>5, <1>12 DEF Holding, Variable, SlotType, VarType, Word
<1>14. PICK c, y, s : /\ c = AddLocal(w, Local(p, 1)) /\ y = [x EXCEPT !.names = {p}]
                      /\ s = Append(r, q)
  OBVIOUS
<1>15. Inv([cs2 EXCEPT ![n + 1] = c], [sl2 EXCEPT ![n + 1] = s], [t EXCEPT ![L + 1] = y], e)
  <2>1. t[Len(t)].kind \notin LoopKinds /\ Opens(t, e, Len(t))
    BY SMTT(40), <1>5, <1>11 DEF Opens, LoopKinds, FunctionKinds
  <2>2. y = [t[Len(t)] EXCEPT !.names = @ \cup {p}]
    BY <1>11, <1>14
  <2>3. c = AddLocal(cs2[Len(cs2)], Local(p, cs2[Len(cs2)].scopeDepth))
    BY <1>7, <1>8, <1>14
  <2>4. s = Append(sl2[Len(sl2)], Holding(Variable(p, Len(t))))
    BY <1>10, <1>11, <1>12, <1>14
  <2>5. Inv([cs2 EXCEPT ![Len(cs2)] = c], [sl2 EXCEPT ![Len(sl2)] = s],
            [t EXCEPT ![Len(t)] = y], e)
    BY <1>4, <2>1, <2>2, <2>3, <2>4, DeclareLocalKeeps
  <2> QED
    BY <1>8, <1>10, <1>11, <2>5
<1>16. c \in CompilerType
  <2>1. Local(p, 1) \in LocalType
    BY DEF Local, LocalType, Word
  <2>2. w.localCount \in 1..Len(w.locals)
    BY <1>7
  <2> QED
    BY <1>7, <1>14, <2>1, <2>2, AddLocalFacts
<1>17. [cs2 EXCEPT ![n + 1] = c] = Append(cs1, c)
  BY <1>3, <1>6, <1>7, <1>16, AppendReplaced
<1>18. s \in Seq(SlotType) /\ s = <<Holding(Callee), q>>
  <2>1. s \in Seq(SlotType)
    BY <1>9, <1>13, <1>14, AppendFacts
  <2>2. Append(<<Holding(Callee)>>, q) = <<Holding(Callee), q>>
    <3>1. Holding(Callee) \in SlotType
      BY DEF Holding, Callee, Variable, SlotType, VarType, Word
    <3> QED
      BY <1>13, <3>1, PairAppended
  <2> QED
    BY <1>2, <1>14, <2>1, <2>2
<1>19. [sl2 EXCEPT ![n + 1] = s] = Append(sl, s)
  <2>1. [Append(sl, r) EXCEPT ![Len(sl) + 1] = s] = Append(sl, s)
    <3>1. PICK T : T = Seq(SlotType)
      OBVIOUS
    <3>2. sl \in Seq(T) /\ r \in T /\ s \in T
      BY <1>5, <1>9, <1>18, <3>1
    <3> QED
      BY <3>2, AppendReplaced
  <2> QED
    BY <1>3, <1>5, <2>1
<1>20. y \in ConstructType
  BY <1>14 DEF ConstructType
<1>21. [t EXCEPT ![L + 1] = y] = Append(sy, y)
  BY <1>1, <1>3, <1>5, <1>20, AppendReplaced
<1> QED
  BY <1>1, <1>2, <1>3, <1>12, <1>14, <1>15, <1>17, <1>18, <1>19, <1>21

InFunction(c, f) == [c EXCEPT !.fn = f]

LEMMA ConstructNamed ==
  ASSUME NEW kind, NEW names, NEW f, NEW x, x = InFunction(Construct(kind, {}), f),
         NEW y, y = InFunction(Construct(kind, names), f)
  PROVE  y = [x EXCEPT !.names = names]
<1>1. PICK g, e, s : /\ g = Fn /\ e = Vars(Stack)
                     /\ s = [loopType |-> "none", loopStart |-> 0, loopDepth |-> 0]
  OBVIOUS
<1>2. x = [kind |-> kind, names |-> {}, fn |-> f, entry |-> e, surrounding |-> s,
           breaks |-> {}, continues |-> {}]
  <2>1. Construct(kind, {}) = [kind |-> kind, names |-> {}, fn |-> g, entry |-> e,
                               surrounding |-> s, breaks |-> {}, continues |-> {}]
    BY <1>1 DEF Construct
  <2> QED
    BY <2>1 DEF InFunction
<1>3. y = [kind |-> kind, names |-> names, fn |-> f, entry |-> e, surrounding |-> s,
           breaks |-> {}, continues |-> {}]
  <2>1. Construct(kind, names) = [kind |-> kind, names |-> names, fn |-> g, entry |-> e,
                                  surrounding |-> s, breaks |-> {}, continues |-> {}]
    BY <1>1 DEF Construct
  <2> QED
    BY <2>1 DEF InFunction
<1>4. [x EXCEPT !.names = names] = [kind |-> kind, names |-> names, fn |-> f, entry |-> e,
                                    surrounding |-> s, breaks |-> {}, continues |-> {}]
  BY <1>2
<1> QED
  BY <1>3, <1>4

LEMMA BeginLambdaKeeps ==
  ASSUME NEW parameters \in Parameters
  PROVE  SInv /\ BeginFunction("lambda", Unnamed, parameters) => SInv'
<1> SUFFICES ASSUME SInv, BeginFunction("lambda", Unnamed, parameters) PROVE SInv'
  OBVIOUS
<1>1. PICK dp \in Seq(Nat) : Inv(compilers, slots, syntax, dp) /\ Grammar(syntax, dp)
  BY DEF SInv
<1>2. PICK L, n : L = Len(syntax) /\ n = Len(compilers)
  OBVIOUS
<1>3. PICK x, y : /\ x = [Construct("lambda", {}) EXCEPT !.fn = n + 1]
                  /\ y = [Construct("lambda", parameters) EXCEPT !.fn = n + 1]
  OBVIOUS
<1>4. /\ syntax \in Seq(ConstructType) /\ Len(dp) = L /\ L \in Nat \ {0} /\ n \in Nat \ {0}
      /\ syntax[1].kind = "script" /\ Current = compilers[n] /\ Fn = n
      /\ Current \in CompilerType /\ compilers \in Seq(CompilerType)
  BY <1>1, <1>2, StateFacts
<1>5. PICK z : z = Construct("lambda", {})
  OBVIOUS
<1>6. z \in ConstructType /\ z.kind = "lambda" /\ z.names = {}
  <2>1. "lambda" \in AllKinds /\ {} \in SUBSET Name
    BY DEF AllKinds, FunctionKinds
  <2> QED
    BY <1>1, <1>5, <2>1, ConstructFacts
<1>7. x \in ConstructType /\ x.kind = "lambda" /\ x.names = {} /\ x.fn = n + 1
  <2>1. x = [z EXCEPT !.fn = n + 1] /\ n + 1 \in Nat
    BY <1>3, <1>4, <1>5
  <2> QED
    BY <1>6, <2>1 DEF ConstructType
<1>8. y = [x EXCEPT !.names = parameters]
  <2>1. /\ x = InFunction(Construct("lambda", {}), n + 1)
        /\ y = InFunction(Construct("lambda", parameters), n + 1)
    BY <1>3 DEF InFunction
  <2> QED
    BY <2>1, ConstructNamed
<1>9. y \in ConstructType /\ y.kind = "lambda"
  <2>1. parameters \in SUBSET Name
    BY DEF Parameters
  <2> QED
    BY <1>7, <1>8, <2>1 DEF ConstructType
<1>10. Grammar(Append(syntax, y), Append(dp, 1))
  <2>1. /\ y.kind \notin {"script", "for", "body"} /\ y.kind # "block" /\ y.kind # "while"
        /\ Len(syntax) >= 1 /\ 1 \in Nat
    BY <1>2, <1>4, <1>9
  <2> QED
    BY <1>1, <1>2, <1>4, <1>9, <2>1, GrammarPush
<1>11. PICK d : d = compilers[n]
  OBVIOUS
<1>12. /\ d \in CompilerType /\ AsBefore(d, compilers[Len(compilers)])
       /\ d.locals[d.localCount].depth = compilers[Len(compilers)].locals[d.localCount].depth
       /\ x.kind # "initializer" /\ x.kind \in FunctionKinds /\ x.fn = Len(compilers) + 1
       /\ [compilers EXCEPT ![Len(compilers)] = d] = compilers
  BY <1>2, <1>4, <1>7, <1>11 DEF AsBefore, SameLoop, FunctionKinds
<1>13. lost' = {}
  BY DEF BeginFunction, SInv
<1>14. CASE parameters = {}
  <2>1. Inv(Append(compilers, NewCompiler(1)), Append(slots, <<Holding(Callee)>>),
            Append(syntax, x), Append(dp, 1))
    BY <1>1, <1>7, <1>12, NewFunctionKeeps
  <2>2. x = y
    BY <1>3, <1>14
  <2>3. /\ compilers' = Append(compilers, NewCompiler(1))
        /\ slots' = Append(slots, <<Holding(Callee)>>) /\ syntax' = Append(syntax, y)
    BY <1>3, <1>4, <1>14 DEF BeginFunction
  <2> QED
    BY <1>10, <1>13, <2>1, <2>2, <2>3, Concluded
<1>15. CASE parameters # {}
  <2>1. PICK p \in Name : parameters = {p}
    BY <1>15 DEF Parameters
  <2>2. (CHOOSE q \in parameters : TRUE) = p
    BY <2>1
  <2>3. Inv(Append(compilers, AddLocal(NewCompiler(1), Local(p, 1))),
            Append(slots, <<Holding(Callee), Holding(Variable(p, L + 1))>>),
            Append(syntax, y), Append(dp, 1))
    BY <1>1, <1>2, <1>7, <1>8, <1>12, <2>1, FunctionBegins
  <2>4. /\ compilers' = Append(compilers, AddLocal(NewCompiler(1), Local(p, 1)))
        /\ slots' = Append(slots, <<Holding(Callee), Holding(Variable(p, L + 1))>>)
        /\ syntax' = Append(syntax, y)
    BY <1>2, <1>3, <1>4, <1>15, <2>2 DEF BeginFunction
  <2> QED
    BY <1>10, <1>13, <2>3, <2>4, Concluded
<1> QED
  BY <1>14, <1>15

(* the variable that holds a closure is declared before the function begins *)
LEMMA BeginDeclaredKeeps ==
  ASSUME NEW kind \in {"function", "initializer"}, NEW v \in Name
  PROVE  SInv /\ BeginFunction(kind, v, {}) => SInv'
<1> SUFFICES ASSUME SInv, BeginFunction(kind, v, {}) PROVE SInv'
  OBVIOUS
<1>1. PICK dp \in Seq(Nat) : Inv(compilers, slots, syntax, dp) /\ Grammar(syntax, dp)
  BY DEF SInv
<1>2. PICK L, n, o : L = Len(syntax) /\ n = Len(compilers) /\ o = Current
  OBVIOUS
<1>3. /\ L \in Nat \ {0} /\ n \in Nat \ {0} /\ n \in 1..n /\ o = compilers[n] /\ Fn = n
      /\ o \in CompilerType /\ o.localCount \in 1..Len(o.locals) /\ Len(slots) = n
      /\ compilers \in Seq(CompilerType) /\ slots \in Seq(Seq(SlotType)) /\ Top = syntax[L]
      /\ syntax \in Seq(ConstructType) /\ Stack = slots[n] /\ Stack \in Seq(SlotType)
  BY <1>1, <1>2, StateFacts
<1>4. MayDeclare /\ Current.scopeDepth > 0
  BY DEF BeginFunction
<1>5. PICK c, d, y : /\ c = AddLocal(o, Local(v, o.scopeDepth))
                     /\ d = AddLocal(o, Local(v, IF kind = "initializer" THEN -1 ELSE o.scopeDepth))
                     /\ y = [Top EXCEPT !.names = @ \cup {v}]
  OBVIOUS
<1>6. PICK cs, sl, sy : /\ cs = [compilers EXCEPT ![n] = c]
                        /\ sl = [slots EXCEPT ![n] = Append(@, Holding(Variable(v, L)))]
                        /\ sy = [syntax EXCEPT ![L] = y]
  OBVIOUS
<1>7. Inv(cs, sl, sy, dp) /\ Grammar(sy, dp) /\ y \in ConstructType
  BY <1>1, <1>2, <1>3, <1>4, <1>5, <1>6, DeclaredKeeps
<1>8. /\ c \in CompilerType /\ Grown(c, o, Local(v, o.scopeDepth))
      /\ d \in CompilerType
      /\ Grown(d, o, Local(v, IF kind = "initializer" THEN -1 ELSE o.scopeDepth))
      /\ Len(c.locals) = Len(d.locals)
  <2>1. Local(v, o.scopeDepth) \in LocalType
        /\ Local(v, IF kind = "initializer" THEN -1 ELSE o.scopeDepth) \in LocalType
    BY <1>3 DEF Local, LocalType, Word, CompilerType
  <2> QED
    BY <1>3, <1>5, <2>1, AddLocalFacts
<1>9. cs \in Seq(CompilerType) /\ Len(cs) = n /\ cs[n] = c
  <2>1. compilers \in Seq(CompilerType) /\ Len(compilers) >= 1 /\ c \in CompilerType
    BY <1>2, <1>3, <1>8
  <2> QED
    BY <1>2, <1>6, <2>1, LastReplaced
<1>10. Len(sy) = L /\ sy \in Seq(ConstructType) /\ sy[1].kind = "script" /\ Len(dp) = L
  <2>1. syntax \in Seq(ConstructType) /\ Len(syntax) >= 1 /\ y \in ConstructType
    BY <1>2, <1>3, <1>7
  <2>2. Len(sy) = L /\ sy \in Seq(ConstructType)
    BY <1>2, <1>6, <2>1, LastReplaced
  <2>3. sy[1].kind = "script"
    BY <1>7 DEF Inv, Tree
  <2>4. Len(dp) = L
    BY <1>1, <1>2, StateFacts
  <2> QED
    BY <2>2, <2>3, <2>4
<1>11. PICK l : l = o.localCount
  OBVIOUS
<1>12. l \in Nat \ {0} /\ c.localCount = l + 1 /\ d.localCount = l + 1
  <2>1. o.localCount \in Nat \ {0}
    BY <1>3 DEF CompilerType
  <2>2. c.localCount = o.localCount + 1 /\ d.localCount = o.localCount + 1
    BY <1>8 DEF Grown
  <2> QED
    BY <1>11, <2>1, <2>2
<1>13. /\ \A i \in 1..l : c.locals[i] = o.locals[i] /\ d.locals[i] = o.locals[i]
       /\ c.locals[l + 1] = Local(v, o.scopeDepth)
       /\ d.locals[l + 1] = Local(v, IF kind = "initializer" THEN -1 ELSE o.scopeDepth)
  BY <1>8, <1>11 DEF Grown
<1>14. AsBefore(d, c)
  <2>1. /\ d.localCount = c.localCount /\ Len(d.locals) = Len(c.locals)
        /\ d.scopeDepth = c.scopeDepth /\ d.upvalues = c.upvalues /\ SameLoop(d, c)
    BY <1>8, <1>12 DEF Grown, SameLoop
  <2>2. ASSUME NEW i \in 1..(l + 1)
        PROVE  /\ d.locals[i].name = c.locals[i].name
               /\ d.locals[i].captured = c.locals[i].captured
               /\ i # l + 1 => d.locals[i].depth = c.locals[i].depth
    <3>1. CASE i = l + 1
      <4>1. PICK h : h = (IF kind = "initializer" THEN -1 ELSE o.scopeDepth)
        OBVIOUS
      <4>2. d.locals[i] = [name |-> v, depth |-> h, captured |-> FALSE]
            /\ c.locals[i] = [name |-> v, depth |-> o.scopeDepth, captured |-> FALSE]
        BY <1>13, <3>1, <4>1 DEF Local
      <4> QED
        BY <3>1, <4>2
    <3>2. CASE i # l + 1
      <4>1. i \in 1..l
        BY <1>12, <3>2
      <4> QED
        BY <1>13, <4>1
    <3> QED
      BY <3>1, <3>2
  <2> QED
    BY <1>12, <2>1, <2>2 DEF AsBefore
<1>15. PICK x, z : /\ x = [Construct(kind, {}) EXCEPT !.fn = n + 1]
                   /\ z = Construct(kind, {})
  OBVIOUS
<1>16. x \in ConstructType /\ x.kind = kind /\ x.names = {} /\ x.fn = n + 1
  <2>1. kind \in AllKinds /\ {} \in SUBSET Name
    BY DEF AllKinds, FunctionKinds
  <2>2. z \in ConstructType /\ z.kind = kind /\ z.names = {}
    BY <1>1, <1>15, <2>1, ConstructFacts
  <2>3. x = [z EXCEPT !.fn = n + 1] /\ n + 1 \in Nat
    BY <1>3, <1>15
  <2> QED
    BY <2>2, <2>3 DEF ConstructType
<1>17. kind = "initializer" =>
         /\ d.locals[d.localCount].depth = -1 /\ d.localCount >= 2
         /\ sl[n][d.localCount].var.scope = L
  <2>1. SUFFICES ASSUME kind = "initializer"
        PROVE  /\ d.locals[d.localCount].depth = -1 /\ d.localCount >= 2
               /\ sl[n][d.localCount].var.scope = L
    OBVIOUS
  <2>2. d.locals[l + 1].depth = -1
    BY <1>13, <2>1 DEF Local
  <2>3. Len(slots[n]) = l /\ slots[n] \in Seq(SlotType)
    <3>1. n \in 1..Len(compilers) /\ compilers[n].localCount = l
      BY <1>1, <1>2, <1>3, <1>11
    <3>2. Len(slots[n]) = compilers[n].localCount /\ slots[n] \in Seq(SlotType)
      BY <1>1, <3>1, Facts
    <3> QED
      BY <3>1, <3>2
  <2>4. PICK q : q = Holding(Variable(v, L))
    OBVIOUS
  <2>5. q.var.scope = L /\ q \in SlotType
    BY <1>3, <2>4 DEF Holding, Variable, SlotType, VarType, Word
  <2>6. sl[n] = Append(slots[n], q)
    BY <1>3, <1>6, <2>4
  <2>7. sl[n][l + 1] = q
    BY <2>3, <2>5, <2>6, AppendFacts
  <2> QED
    BY <1>12, <2>2, <2>5, <2>7
<1>18. kind # "initializer" => d.locals[d.localCount].depth = c.locals[d.localCount].depth
  BY <1>12, <1>13
<1>19. Inv(Append([cs EXCEPT ![n] = d], NewCompiler(1)), Append(sl, <<Holding(Callee)>>),
           Append(sy, x), Append(dp, 1))
  <2>1. x.kind \in FunctionKinds /\ x.fn = Len(cs) + 1 /\ AsBefore(d, cs[Len(cs)])
    BY <1>9, <1>14, <1>16 DEF FunctionKinds
  <2>2. IF x.kind = "initializer"
        THEN /\ d.locals[d.localCount].depth = -1 /\ d.localCount >= 2
             /\ sl[Len(cs)][d.localCount].var.scope = Len(sy)
        ELSE d.locals[d.localCount].depth = cs[Len(cs)].locals[d.localCount].depth
    BY <1>9, <1>10, <1>16, <1>17, <1>18
  <2> QED
    BY <1>7, <1>8, <1>9, <1>16, <2>1, <2>2, NewFunctionKeeps
<1>20. [cs EXCEPT ![n] = d] = [compilers EXCEPT ![n] = d]
  BY <1>6
<1>21. Grammar(Append(sy, x), Append(dp, 1))
  <2>1. /\ x.kind \notin {"script", "for", "body"} /\ x.kind # "block" /\ x.kind # "while"
        /\ Len(sy) >= 1 /\ 1 \in Nat /\ Len(dp) = Len(sy)
    BY <1>3, <1>10, <1>16
  <2> QED
    BY <1>1, <1>7, <1>10, <1>16, <2>1, GrammarPush
<1>22. compilers' = Append([compilers EXCEPT ![n] = d], NewCompiler(1))
  <2>1. compilers' = Append([compilers EXCEPT ![Fn] = AddLocal(@,
                       Local(v, IF kind = "initializer" THEN -1 ELSE Current.scopeDepth))],
                      NewCompiler(1))
    BY DEF BeginFunction
  <2> QED
    BY <1>2, <1>3, <1>5, <2>1
<1>23. slots' = Append(sl, <<Holding(Callee)>>)
  <2>1. slots' = Append([slots EXCEPT ![Fn] = Append(@, Holding(Variable(v, L + 1 - 1)))],
                        <<Holding(Callee)>>)
    BY <1>2 DEF BeginFunction
  <2>2. L + 1 - 1 = L
    BY <1>3
  <2> QED
    BY <1>3, <1>6, <2>1, <2>2
<1>24. syntax' = Append(sy, x)
  <2>1. syntax' = Append([syntax EXCEPT ![L + 1 - 1].names = @ \cup {v}], x)
    BY <1>2, <1>3, <1>15 DEF BeginFunction
  <2>2. L + 1 - 1 = L
    BY <1>3
  <2>3. [syntax EXCEPT ![L].names = @ \cup {v}] = sy
    BY <1>3, <1>5, <1>6
  <2> QED
    BY <2>1, <2>2, <2>3
<1>25. lost' = {}
  BY DEF BeginFunction, SInv
<1> QED
  BY <1>19, <1>20, <1>21, <1>22, <1>23, <1>24, <1>25, Concluded

-----------------------------------------------------------------------------
(* Jumps *)

LEMMA JumpStack ==
  ASSUME NEW dp, Inv(compilers, slots, syntax, dp), Grammar(syntax, dp),
         NEW kept, kept = Kept(Current, Current.loopDepth),
         NEW k, k = LoopAt(syntax, Len(compilers), Len(syntax))
  PROVE  /\ Vars(Dropping(kept)) \in Seq(VarType) /\ Losing(kept) = {}
         /\ k # 0 =>
              /\ k \in 1..Len(syntax) /\ syntax[k].kind \in LoopKinds
              /\ syntax[k].fn = Len(compilers) /\ Current.loopStart = k
              /\ Vars(Dropping(kept)) = syntax[k].entry
         /\ k = 0 => Current.loopType = "none"
<1>1. PICK L, n, o, s : L = Len(syntax) /\ n = Len(compilers) /\ o = Current /\ s = Stack
  OBVIOUS
<1>2. /\ L \in Nat \ {0} /\ n \in Nat \ {0} /\ n \in 1..n /\ o = compilers[n] /\ s = slots[n]
      /\ o \in CompilerType /\ s \in Seq(SlotType) /\ Fn = n
  BY <1>1, StateFacts
<1>3. o.localCount \in Nat /\ Len(s) = o.localCount
  <2>1. o.localCount \in Nat
    BY <1>2 DEF CompilerType
  <2> QED
    BY <1>1, <1>2, <2>1, Facts
<1>4. kept \in 0..o.localCount
  <2>1. {i \in 1..o.localCount : o.locals[i].depth <= o.loopDepth} \subseteq 1..o.localCount
    OBVIOUS
  <2> QED
    BY <1>1, <1>3, <2>1, LargestFacts DEF Kept
<1>5. Losing(kept) = {} /\ Dropping(kept) = SubSeq(s, 1, kept)
  <2>1. kept \in 0..Current.localCount
    BY <1>1, <1>4
  <2> QED
    BY <1>1, <2>1, NothingLost
<1>6. PICK t : t = SubSeq(s, 1, kept)
  OBVIOUS
<1>7. t \in Seq(SlotType) /\ Len(t) = kept /\ \A i \in 1..kept : t[i] = s[i]
  BY <1>2, <1>3, <1>4, <1>6, PrefixFacts
<1>8. Vars(t) \in Seq(VarType) /\ Len(Vars(t)) = kept /\ \A i \in 1..kept : Vars(t)[i] = s[i].var
  <2>1. kept \in Nat
    BY <1>3, <1>4
  <2>2. \A i \in 1..kept : t[i] \in SlotType
    BY <1>7, <2>1
  <2>3. Vars(t) = [i \in 1..kept |-> t[i].var]
    BY <1>7 DEF Vars
  <2>4. Vars(t) \in [1..kept -> VarType]
    BY <2>2, <2>3 DEF SlotType
  <2>5. Vars(t) \in Seq(VarType) /\ Len(Vars(t)) = kept
    BY <2>1, <2>4, SeqIs
  <2> QED
    BY <1>7, <2>3, <2>5
<1>9. k \in 0..L /\ (k # 0 => syntax[k].kind \in LoopKinds /\ syntax[k].fn = n)
  <2>1. L \in Nat
    BY <1>2
  <2> QED
    BY <1>1, <2>1, LoopAtIn
<1>10. Surrounding(o) = LoopState(syntax, dp, n, L)
  BY <1>1, <1>2 DEF Inv, LoopsKept
<1>11. k = 0 => o.loopType = "none"
  BY <1>1, <1>10 DEF LoopState, Surrounding
<1>12. k # 0 => o.loopStart = k /\ o.loopDepth = dp[k]
  BY <1>1, <1>10 DEF LoopState, Surrounding
<1>13. ASSUME k # 0 PROVE Vars(t) = syntax[k].entry
  <2>1. k \in 1..L /\ dp[k] \in Nat /\ k \in Nat /\ syntax[k] \in ConstructType
    <3>1. k \in 1..L /\ k \in Nat
      BY <1>2, <1>9, <1>13
    <3> QED
      BY <1>1, <3>1, Facts
  <2>2. Splits(syntax, dp, n, dp[k], k)
    BY <1>1, <1>9, <1>13, <2>1, LoopSplits DEF Splits
  <2>3. \A i \in 1..Len(s) : i <= kept <=> s[i].var.scope <= k
    BY <1>1, <1>2, <1>12, <1>13, <2>1, <2>2, KeptSplits
  <2>4. EnteredAt(s, syntax[k], k)
    BY <1>1, <1>2, <1>9, <1>13, <2>1 DEF Inv, Entered
  <2>5. PICK e : e = syntax[k].entry
    OBVIOUS
  <2>6. /\ Len(e) <= Len(s) /\ \A i \in 1..Len(s) : i <= Len(e) <=> s[i].var.scope <= k
        /\ \A i \in 1..Len(e) : e[i] = s[i].var
    BY <2>4, <2>5 DEF EnteredAt
  <2>7. e \in Seq(VarType) /\ Len(e) \in Nat
    BY <2>1, <2>5 DEF ConstructType
  <2>8. \A i \in 1..Len(s) : i <= Len(e) <=> i <= kept
    BY <2>3, <2>6
  <2>9. Len(e) = kept
    <3>1. Len(s) \in Nat /\ kept \in 0..Len(s) /\ Len(e) \in 0..Len(s)
      BY <1>3, <1>4, <2>6, <2>7
    <3> QED
      BY <2>8, <3>1
  <2> QED
    <3>1. Vars(t) \in Seq(VarType) /\ Len(Vars(t)) = kept
      BY <1>8
    <3>2. \A i \in 1..kept : Vars(t)[i] = e[i]
      BY <1>8, <2>6, <2>9
    <3>3. Vars(t) = e
      BY <2>7, <2>9, <3>1, <3>2, Sames
    <3> QED
      BY <2>5, <3>3
<1>14. k # 0 => k \in 1..L
  BY <1>2, <1>9
<1>15. Vars(Dropping(kept)) = Vars(t)
  BY <1>5, <1>6
<1> QED
  BY <1>1, <1>5, <1>8, <1>9, <1>11, <1>12, <1>13, <1>14, <1>15

(* A jump adds to construct q a break or continue that lands. *)
LEMMA JumpAdded ==
  ASSUME NEW dp, Inv(compilers, slots, syntax, dp), Grammar(syntax, dp),
         NEW q \in 1..Len(syntax), syntax[q].kind \in LoopKinds,
         NEW x \in ConstructType, x.kind = syntax[q].kind, x.fn = syntax[q].fn,
         x.names = syntax[q].names, x.surrounding = syntax[q].surrounding,
         x.entry = syntax[q].entry,
         \A b \in x.breaks : b \in syntax[q].breaks \/ (b.fn = x.fn => b.stack = x.entry),
         \A j \in x.continues :
           j \in syntax[q].continues \/ (j.start = q /\ j.stack = x.entry)
  PROVE  /\ Inv(compilers, slots, [syntax EXCEPT ![q] = x], dp)
         /\ Grammar([syntax EXCEPT ![q] = x], dp)
<1>1. PICK sy : sy = [syntax EXCEPT ![q] = x]
  OBVIOUS
<1>2. PICK s : s = slots[syntax[q].fn]
  OBVIOUS
<1>3. EnteredAt(s, syntax[q], q)
  BY <1>2 DEF Inv, Entered
<1>4. EnteredAt(s, x, q)
  <2>1. \A b \in x.breaks : b.fn = x.fn => b.stack = x.entry
    BY <1>3 DEF EnteredAt
  <2>2. \A j \in x.continues : j.start = q /\ j.stack = x.entry
    BY <1>3 DEF EnteredAt
  <2> QED
    BY <1>3, <2>1, <2>2 DEF EnteredAt
<1>5. Inv(compilers, slots, sy, dp)
  BY <1>1, <1>2, <1>4, JumpKeeps
<1>6. syntax \in Seq(ConstructType) /\ Len(syntax) \in Nat /\ syntax[1].kind = "script"
  BY StateFacts
<1>7. /\ Len(sy) = Len(syntax)
      /\ \A j \in 1..Len(syntax) : sy[j].kind = syntax[j].kind /\ sy[j].names = syntax[j].names
  BY <1>1, <1>6
<1>8. Grammar(sy, dp)
  BY <1>6, <1>7, GrammarSame
<1> QED
  BY <1>1, <1>5, <1>8

LEMMA OnlyLoops ==
  ASSUME NEW dp, Inv(compilers, slots, syntax, dp)
  PROVE  /\ Switches = {} /\ Loops \subseteq 1..Len(syntax) /\ Len(syntax) \in Nat
         /\ \A k \in 1..Len(syntax) : k \in Loops <=> syntax[k].kind \in LoopKinds
         /\ \A k \in 1..Len(syntax) :
              syntax[k] \in ConstructType /\ syntax[k].fn \in 1..Len(compilers)
<1>1. /\ Len(syntax) \in Nat
      /\ \A k \in 1..Len(syntax) :
           syntax[k] \in ConstructType /\ syntax[k].fn \in 1..Len(compilers)
  BY Facts
<1>2. \A k \in 1..Len(syntax) : syntax[k].kind \in AllKinds
  BY <1>1 DEF ConstructType
<1>3. Switches = {}
  BY <1>2 DEF Switches, AllKinds, FunctionKinds, LoopKinds
<1> QED
  BY <1>1, <1>3 DEF Loops, LoopKinds

(* the innermost loop is that of the current function if it is in one *)
LEMMA InnermostLoop ==
  ASSUME NEW dp, Inv(compilers, slots, syntax, dp), NEW k, NEW q,
         k = LoopAt(syntax, Len(compilers), Len(syntax)), q = Largest(Loops)
  PROVE  /\ q \in 0..Len(syntax) /\ (q # 0 => q \in Loops)
         /\ k # 0 => q = k
         /\ q # 0 /\ syntax[q].fn = Len(compilers) => q = k
<1>1. PICK L, n : L = Len(syntax) /\ n = Len(compilers)
  OBVIOUS
<1>2. /\ L \in Nat /\ n \in Nat /\ Loops \subseteq 1..L
      /\ \A j \in 1..L : j \in Loops <=> syntax[j].kind \in LoopKinds
      /\ \A j \in 1..L : syntax[j].fn \in 1..n
  BY <1>1, OnlyLoops, Facts
<1>3. q \in 0..L /\ (q # 0 => q \in Loops) /\ (Loops # {} => q \in Loops)
      /\ \A j \in Loops : j <= q
  BY <1>1, <1>2, LargestFacts
<1>4. /\ k \in 0..L /\ (k # 0 => syntax[k].kind \in LoopKinds /\ syntax[k].fn = n)
      /\ \A j \in 1..L : syntax[j].kind \in LoopKinds /\ syntax[j].fn = n => j <= k
  BY <1>1, <1>2, LoopAtIn
<1>5. q # 0 /\ syntax[q].fn = n => q <= k
  BY <1>2, <1>3, <1>4
<1>6. k # 0 => k \in Loops /\ k <= q /\ q # 0
  BY <1>2, <1>3, <1>4
<1>7. k # 0 => syntax[q].fn = n
  <2>1. SUFFICES ASSUME k # 0 PROVE syntax[q].fn = n
    OBVIOUS
  <2>2. k \in 1..L /\ q \in 1..L /\ k <= q
    BY <1>2, <1>3, <1>4, <1>6, <2>1
  <2>3. syntax[k].fn <= syntax[q].fn
    BY <1>1, <2>2 DEF Inv, Tree
  <2>4. syntax[k].fn = n /\ syntax[q].fn \in 1..n
    BY <1>2, <1>4, <2>1, <2>2
  <2> QED
    BY <1>2, <2>3, <2>4
<1>8. q # 0 /\ syntax[q].fn = n => q = k
  BY <1>2, <1>3, <1>4, <1>5, <1>6
<1> QED
  BY <1>1, <1>3, <1>5, <1>6, <1>7, <1>8

LEMMA BreakKeeps == SInv /\ Break => SInv'
<1> SUFFICES ASSUME SInv, Break PROVE SInv'
  OBVIOUS
<1>1. PICK dp \in Seq(Nat) : Inv(compilers, slots, syntax, dp) /\ Grammar(syntax, dp)
  BY DEF SInv
<1>2. PICK k, q, kept : /\ k = LoopAt(syntax, Len(compilers), Len(syntax))
                        /\ q = Largest(Loops) /\ kept = Kept(Current, Current.loopDepth)
  OBVIOUS
<1>3. /\ (Current.loopType # "none" \/ q # 0)
      /\ syntax' = [syntax EXCEPT ![q].breaks =
                      @ \cup {[fn |-> Fn, stack |-> Vars(Dropping(kept))]}]
      /\ lost' = lost \cup Losing(kept) /\ compilers' = compilers /\ slots' = slots
  <2>1. Loops \cup Switches = Loops
    BY <1>1, OnlyLoops
  <2> QED
    BY <1>2, <2>1 DEF Break
<1>4. /\ Vars(Dropping(kept)) \in Seq(VarType) /\ Losing(kept) = {}
      /\ k # 0 => Vars(Dropping(kept)) = syntax[k].entry
      /\ k = 0 => Current.loopType = "none"
  BY <1>1, <1>2, JumpStack
<1>5. /\ q # 0 /\ q \in 1..Len(syntax) /\ syntax[q].kind \in LoopKinds
      /\ syntax[q] \in ConstructType
      /\ syntax[q].fn = Len(compilers) => q = k
  <2>1. /\ q \in 0..Len(syntax) /\ (q # 0 => q \in Loops) /\ (k # 0 => q = k)
        /\ q # 0 /\ syntax[q].fn = Len(compilers) => q = k
    BY <1>1, <1>2, InnermostLoop
  <2>2. q # 0
    BY <1>3, <1>4, <2>1
  <2>3. q \in Loops /\ Loops \subseteq 1..Len(syntax)
    BY <1>1, <2>1, <2>2, OnlyLoops
  <2> QED
    BY <1>1, <2>1, <2>2, <2>3, OnlyLoops
<1>6. PICK b, w : b = [fn |-> Fn, stack |-> Vars(Dropping(kept))] /\ w = syntax[q]
  OBVIOUS
<1>7. PICK x : x = [w EXCEPT !.breaks = @ \cup {b}]
  OBVIOUS
<1>8. b \in [fn : Nat, stack : Seq(VarType)] /\ b.fn = Len(compilers)
  <2>1. Fn \in Nat /\ Fn = Len(compilers)
    BY <1>1, StateFacts
  <2> QED
    BY <1>4, <1>6, <2>1
<1>9. x \in ConstructType
  BY <1>5, <1>6, <1>7, <1>8 DEF ConstructType
<1>10. /\ x.kind = w.kind /\ x.fn = w.fn /\ x.names = w.names
       /\ x.surrounding = w.surrounding /\ x.entry = w.entry
       /\ x.continues = w.continues /\ x.breaks = w.breaks \cup {b}
  BY <1>5, <1>6, <1>7 DEF ConstructType
<1>11. b.fn = w.fn => b.stack = w.entry
  BY <1>4, <1>5, <1>6, <1>8
<1>12. /\ Inv(compilers, slots, [syntax EXCEPT ![q] = x], dp)
       /\ Grammar([syntax EXCEPT ![q] = x], dp)
  BY <1>1, <1>5, <1>6, <1>9, <1>10, <1>11, JumpAdded
<1>13. syntax' = [syntax EXCEPT ![q] = x]
  BY <1>3, <1>6, <1>7
<1>14. lost' = {}
  BY <1>3, <1>4 DEF SInv
<1> QED
  BY <1>3, <1>12, <1>13, <1>14, Concluded

LEMMA ContinueKeeps == SInv /\ Continue => SInv'
<1> SUFFICES ASSUME SInv, Continue PROVE SInv'
  OBVIOUS
<1>1. PICK dp \in Seq(Nat) : Inv(compilers, slots, syntax, dp) /\ Grammar(syntax, dp)
  BY DEF SInv
<1>2. PICK k, q, kept : /\ k = LoopAt(syntax, Len(compilers), Len(syntax))
                        /\ q = Largest(Loops) /\ kept = Kept(Current, Current.loopDepth)
  OBVIOUS
<1>3. /\ Current.loopType = "loop"
      /\ syntax' = [syntax EXCEPT ![q].continues =
                      @ \cup {[start |-> Current.loopStart, stack |-> Vars(Dropping(kept))]}]
      /\ lost' = lost \cup Losing(kept) /\ compilers' = compilers /\ slots' = slots
  BY <1>2 DEF Continue
<1>4. /\ Vars(Dropping(kept)) \in Seq(VarType) /\ Losing(kept) = {}
      /\ k # 0 => Vars(Dropping(kept)) = syntax[k].entry /\ Current.loopStart = k
      /\ k = 0 => Current.loopType = "none"
  BY <1>1, <1>2, JumpStack
<1>5. k # 0 /\ q = k
  BY <1>1, <1>2, <1>3, <1>4, InnermostLoop
<1>6. /\ q \in 1..Len(syntax) /\ syntax[q].kind \in LoopKinds /\ syntax[q] \in ConstructType
      /\ q \in Nat
  <2>1. q \in Loops
    BY <1>1, <1>2, <1>5, InnermostLoop
  <2> QED
    BY <1>1, <2>1, OnlyLoops
<1>7. PICK j, w : /\ j = [start |-> Current.loopStart, stack |-> Vars(Dropping(kept))]
                  /\ w = syntax[q]
  OBVIOUS
<1>8. PICK x : x = [w EXCEPT !.continues = @ \cup {j}]
  OBVIOUS
<1>9. /\ j \in [start : Nat, stack : Seq(VarType)] /\ j.start = q /\ j.stack = w.entry
  BY <1>4, <1>5, <1>6, <1>7
<1>10. x \in ConstructType
  BY <1>6, <1>7, <1>8, <1>9 DEF ConstructType
<1>11. /\ x.kind = w.kind /\ x.fn = w.fn /\ x.names = w.names
       /\ x.surrounding = w.surrounding /\ x.entry = w.entry
       /\ x.breaks = w.breaks /\ x.continues = w.continues \cup {j}
  BY <1>6, <1>7, <1>8 DEF ConstructType
<1>12. /\ Inv(compilers, slots, [syntax EXCEPT ![q] = x], dp)
       /\ Grammar([syntax EXCEPT ![q] = x], dp)
  BY ZenonT(60), <1>1, <1>6, <1>7, <1>9, <1>10, <1>11, JumpAdded
<1>13. syntax' = [syntax EXCEPT ![q] = x]
  BY <1>3, <1>7, <1>8
<1>14. lost' = {}
  BY <1>3, <1>4 DEF SInv
<1> QED
  BY <1>3, <1>12, <1>13, <1>14, Concluded

-----------------------------------------------------------------------------
(* For statements *)

LEMMA PrefixOfPrefix ==
  ASSUME NEW S, NEW s \in Seq(S), NEW m \in 0..Len(s), NEW k \in 0..m
  PROVE  SubSeq(SubSeq(s, 1, m), 1, k) = SubSeq(s, 1, k)
<1>1. PICK t : t = SubSeq(s, 1, m)
  OBVIOUS
<1>2. Len(s) \in Nat /\ m \in Nat /\ k \in Nat /\ k \in 0..Len(s)
  OBVIOUS
<1>3. t \in Seq(S) /\ Len(t) = m /\ \A i \in 1..m : t[i] = s[i]
  BY <1>1, PrefixFacts
<1>4. /\ SubSeq(t, 1, k) \in Seq(S) /\ Len(SubSeq(t, 1, k)) = k
      /\ \A i \in 1..k : SubSeq(t, 1, k)[i] = t[i]
  <2>1. k \in 0..Len(t)
    BY <1>3
  <2> QED
    BY <1>3, <2>1, PrefixFacts
<1>5. /\ SubSeq(s, 1, k) \in Seq(S) /\ Len(SubSeq(s, 1, k)) = k
      /\ \A i \in 1..k : SubSeq(s, 1, k)[i] = s[i]
  BY <1>2, PrefixFacts
<1>6. \A i \in 1..k : SubSeq(t, 1, k)[i] = SubSeq(s, 1, k)[i]
  <2>1. \A i \in 1..k : i \in 1..m
    BY <1>2
  <2> QED
    BY <1>3, <1>4, <1>5, <2>1
<1>7. SubSeq(t, 1, k) = SubSeq(s, 1, k)
  BY <1>4, <1>5, <1>6, Sames
<1> QED
  BY <1>1, <1>7

LEMMA WholePrefix ==
  ASSUME NEW S, NEW s \in Seq(S)
  PROVE  SubSeq(s, 1, Len(s)) = s
<1>1. Len(s) \in 0..Len(s)
  OBVIOUS
<1> QED
  BY <1>1, PrefixFacts, Sames

(* the scope of the copy of the loop variable, when there is one, ends *)
LEMMA BodyEnds ==
  ASSUME NEW cs, NEW sl, NEW sy, NEW dp, Inv(cs, sl, sy, dp), Len(sy) >= 2,
         sy[Len(sy)].kind = "body", Rule(sy, dp, Len(sy)),
         NEW c, c = IF sy[Len(sy)].names = {} THEN cs[Len(cs)] ELSE EndScope(cs[Len(cs)])
  PROVE  /\ Inv([cs EXCEPT ![Len(cs)] = c],
                [sl EXCEPT ![Len(sl)] = SubSeq(sl[Len(sl)], 1, c.localCount)],
                SubSeq(sy, 1, Len(sy) - 1), SubSeq(dp, 1, Len(sy) - 1))
         /\ c.localCount \in 1..cs[Len(cs)].localCount
<1>1. dp[Len(sy)] = IF sy[Len(sy)].names = {} THEN dp[Len(sy) - 1] ELSE dp[Len(sy) - 1] + 1
  BY DEF Rule
<1>2. CASE sy[Len(sy)].names # {}
  BY <1>1, <1>2, EndScopeKeeps
<1>3. CASE sy[Len(sy)].names = {}
  <2>1. Inv(cs, sl, SubSeq(sy, 1, Len(sy) - 1), SubSeq(dp, 1, Len(sy) - 1))
    BY <1>1, <1>3, PopEmptyKeeps
  <2>2. c = cs[Len(cs)]
    BY <1>3
  <2>3. /\ Len(cs) \in 1..Len(cs) /\ Len(sl) = Len(cs) /\ sl[Len(sl)] \in Seq(SlotType)
        /\ Len(sl[Len(sl)]) = cs[Len(cs)].localCount
        /\ cs[Len(cs)] \in CompilerType /\ cs[Len(cs)].localCount >= 1
    <3>1. Len(cs) \in 1..Len(cs) /\ Len(sl) = Len(cs)
      BY Facts
    <3> QED
      BY <3>1, Facts
  <2>4. cs \in Seq(CompilerType) /\ sl \in Seq(Seq(SlotType))
    BY DEF Inv, Typed
  <2>5. SubSeq(sl[Len(sl)], 1, c.localCount) = sl[Len(sl)]
    BY <2>2, <2>3, WholePrefix
  <2>6. [cs EXCEPT ![Len(cs)] = c] = cs
    BY <2>2, <2>3, <2>4
  <2>7. [sl EXCEPT ![Len(sl)] = sl[Len(sl)]] = sl
    BY <2>3, <2>4
  <2>8. c.localCount \in 1..cs[Len(cs)].localCount
    <3>1. cs[Len(cs)].localCount \in Nat
      BY <2>3 DEF CompilerType
    <3> QED
      BY <2>2, <2>3, <3>1
  <2> QED
    BY <2>1, <2>5, <2>6, <2>7, <2>8
<1> QED
  BY <1>2, <1>3

LEMMA EndForKeeps == SInv /\ EndFor => SInv'
<1> SUFFICES ASSUME SInv, EndFor PROVE SInv'
  OBVIOUS
<1>1. PICK dp \in Seq(Nat) : Inv(compilers, slots, syntax, dp) /\ Grammar(syntax, dp)
  BY DEF SInv
<1>2. PICK L, n, o, s : L = Len(syntax) /\ n = Len(compilers) /\ o = Current /\ s = Stack
  OBVIOUS
<1>3. /\ Top = syntax[L] /\ Top.kind = "body" /\ L \in Nat /\ L \in 1..L
      /\ o = compilers[n] /\ o \in CompilerType /\ s = slots[n] /\ s \in Seq(SlotType)
      /\ compilers \in Seq(CompilerType) /\ syntax \in Seq(ConstructType) /\ n \in Nat \ {0}
      /\ slots \in Seq(Seq(SlotType)) /\ Len(slots) = n /\ dp \in Seq(Nat) /\ Len(dp) = L
      /\ syntax[1].kind = "script" /\ n \in 1..n
  BY <1>1, <1>2, StateFacts DEF EndFor
<1>4. L >= 2 /\ Rule(syntax, dp, L) /\ Rule(syntax, dp, L - 1) /\ L - 1 \in 1..L
  <2>1. Rule(syntax, dp, L)
    BY <1>1, <1>2, <1>3 DEF Grammar
  <2>2. L >= 2
    BY <1>3, <2>1 DEF Rule
  <2>3. L - 1 \in 1..L
    BY <1>3, <2>2
  <2> QED
    BY <1>1, <1>2, <2>1, <2>2, <2>3 DEF Grammar
<1>5. PICK w : w = syntax[L - 1]
  OBVIOUS
<1>6. /\ w \in ConstructType /\ w.kind = "for"
      /\ L - 1 >= 2 /\ L - 2 \in 1..(L - 1) /\ dp[L - 1] = dp[L - 2] + 1
  <2>1. (L - 1) + 1 \in 1..L /\ (L - 1) + 1 = L
    BY <1>3
  <2>2. w.kind = "for"
    BY <1>2, <1>3, <1>4, <1>5, <2>1 DEF Rule
  <2>3. L - 1 # 1
    BY <1>3, <1>5, <2>2
  <2>4. dp[L - 1] = dp[(L - 1) - 1] + 1
    BY <1>4, <1>5, <2>2 DEF Rule
  <2>5. (L - 1) - 1 = L - 2 /\ L - 1 >= 2 /\ L - 2 \in 1..(L - 1)
    BY <1>3, <1>4, <2>3
  <2>6. w \in ConstructType
    BY <1>2, <1>3, <1>4, <1>5
  <2> QED
    BY <2>2, <2>4, <2>5, <2>6
<1>7. PICK c1 : c1 = IF Top.names = {} THEN o ELSE EndScope(o)
  OBVIOUS
<1>8. PICK cs1, sl1, sy1, dp1 : /\ cs1 = [compilers EXCEPT ![n] = c1]
                                /\ sl1 = [slots EXCEPT ![n] = SubSeq(s, 1, c1.localCount)]
                                /\ sy1 = SubSeq(syntax, 1, L - 1)
                                /\ dp1 = SubSeq(dp, 1, L - 1)
  OBVIOUS
<1>9. Inv(cs1, sl1, sy1, dp1) /\ c1.localCount \in 1..o.localCount
  <2>1. /\ Len(syntax) >= 2 /\ syntax[Len(syntax)].kind = "body" /\ Rule(syntax, dp, Len(syntax))
        /\ c1 = IF syntax[Len(syntax)].names = {} THEN compilers[Len(compilers)]
                ELSE EndScope(compilers[Len(compilers)])
    BY <1>2, <1>3, <1>4, <1>7
  <2> QED
    BY <1>1, <1>2, <1>3, <1>8, <2>1, BodyEnds
<1>10. /\ Len(sy1) = L - 1 /\ sy1[L - 1] = w /\ sy1 \in Seq(ConstructType)
       /\ dp1[L - 1] = dp[L - 1] /\ dp1[L - 2] = dp[L - 2]
  <2>1. L - 1 \in 0..Len(syntax) /\ L - 1 \in 0..Len(dp)
    BY <1>2, <1>3, <1>4
  <2>2. /\ Len(sy1) = L - 1 /\ sy1 \in Seq(ConstructType)
        /\ \A i \in 1..(L - 1) : sy1[i] = syntax[i]
    BY <1>3, <1>8, <2>1, PrefixFacts
  <2>3. \A i \in 1..(L - 1) : dp1[i] = dp[i]
    BY <1>3, <1>8, <2>1, PrefixFacts
  <2>4. L - 1 \in 1..(L - 1) /\ L - 2 \in 1..(L - 1)
    BY <1>3, <1>6
  <2> QED
    BY <1>5, <2>2, <2>3, <2>4
<1>11. /\ c1 \in CompilerType /\ cs1 \in Seq(CompilerType) /\ Len(cs1) = n /\ cs1[n] = c1
       /\ Len(sl1) = n /\ sl1[n] = SubSeq(s, 1, c1.localCount) /\ sl1 \in Seq(Seq(SlotType))
  <2>1. cs1 \in Seq(CompilerType) /\ sl1 \in Seq(Seq(SlotType))
    BY <1>9 DEF Inv, Typed
  <2>2. Len(cs1) = n /\ cs1[n] = c1 /\ Len(sl1) = n /\ sl1[n] = SubSeq(s, 1, c1.localCount)
    <3>1. Len(cs1) = n /\ cs1[n] = c1
      BY <1>2, <1>3, <1>8
    <3>2. Len(sl1) = n
      BY <1>2, <1>3, <1>8
    <3>3. n \in DOMAIN slots
      BY <1>3
    <3>4. sl1[n] = SubSeq(s, 1, c1.localCount)
      BY <1>8, <3>3
    <3> QED
      BY <3>1, <3>2, <3>4
  <2>3. c1 \in CompilerType
    BY <1>3, <2>1, <2>2
  <2> QED
    BY <2>1, <2>2, <2>3
<1>12. PICK c2, x : c2 = LeaveLoop(c1, w.surrounding) /\ x = [w EXCEPT !.kind = "block"]
  OBVIOUS
<1>13. /\ c2 \in CompilerType /\ SameLocals(c2, c1) /\ c2.scopeDepth = c1.scopeDepth
       /\ Surrounding(c2) = w.surrounding
  <2>1. w.surrounding \in LoopType
    BY <1>6 DEF ConstructType
  <2> QED
    BY <1>11, <1>12, <2>1, LoopReset
<1>14. x \in ConstructType /\ x.kind = "block" /\ x.fn = w.fn /\ x.names = w.names
  BY <1>6, <1>12 DEF ConstructType, AllKinds
<1>15. PICK cs2, sy2 : cs2 = [cs1 EXCEPT ![n] = c2] /\ sy2 = [sy1 EXCEPT ![L - 1] = x]
  OBVIOUS
<1>16. Inv(cs2, sl1, sy2, dp1)
  <2>1. /\ sy1[Len(sy1)].kind \in LoopKinds /\ x.kind \in {"block", "body"}
        /\ x.fn = sy1[Len(sy1)].fn /\ x.names = sy1[Len(sy1)].names
        /\ SameLocals(c2, cs1[Len(cs1)]) /\ c2.scopeDepth = cs1[Len(cs1)].scopeDepth
        /\ Surrounding(c2) = sy1[Len(sy1)].surrounding
    BY <1>6, <1>10, <1>11, <1>13, <1>14 DEF LoopKinds
  <2> QED
    BY <1>9, <1>10, <1>11, <1>13, <1>14, <1>15, <2>1, UnLoopKeeps
<1>17. Len(sy2) = L - 1 /\ sy2[L - 1] = x /\ Len(cs2) = n /\ cs2[n] = c2
  <2>1. L - 1 \in 1..Len(sy1) /\ n \in 1..Len(cs1)
    BY <1>3, <1>6, <1>10, <1>11
  <2> QED
    BY <1>10, <1>11, <1>15, <2>1
<1>18. PICK c3 : c3 = EndScope(c2)
  OBVIOUS
<1>19. /\ Inv([cs2 EXCEPT ![n] = c3], [sl1 EXCEPT ![n] = SubSeq(sl1[n], 1, c3.localCount)],
              SubSeq(sy2, 1, L - 2), SubSeq(dp1, 1, L - 2))
       /\ c3.localCount \in 1..c2.localCount
  <2>1. /\ Len(sy2) >= 2 /\ sy2[Len(sy2)].kind \in {"block", "body"}
        /\ c3 = EndScope(cs2[Len(cs2)])
    BY <1>6, <1>14, <1>17, <1>18
  <2>2. dp1[Len(sy2)] = dp1[Len(sy2) - 1] + 1
    <3>1. Len(sy2) - 1 = L - 2
      BY <1>3, <1>17
    <3> QED
      BY <1>6, <1>10, <1>17, <3>1
  <2>3. Len(sy2) - 1 = L - 2
    BY <1>3, <1>17
  <2> QED
    BY <1>11, <1>16, <1>17, <2>1, <2>2, <2>3, EndScopeKeeps
<1>20. c3.localCount \in 1..c1.localCount /\ c1.localCount \in 0..Len(s) /\ Len(s) = o.localCount
       /\ c3.localCount \in 0..o.localCount /\ c3.localCount \in 0..c1.localCount
  <2>1. Len(s) = o.localCount /\ o.localCount \in Nat
    <3>1. o.localCount \in Nat
      BY <1>3 DEF CompilerType
    <3> QED
      BY <1>1, <1>2, <1>3, <3>1, Facts
  <2>2. c2.localCount = c1.localCount
    BY <1>13 DEF SameLocals
  <2> QED
    BY <1>9, <1>19, <2>1, <2>2
<1>21. [cs2 EXCEPT ![n] = c3] = [compilers EXCEPT ![n] = c3]
  BY <1>8, <1>15
<1>22. [sl1 EXCEPT ![n] = SubSeq(sl1[n], 1, c3.localCount)]
       = [slots EXCEPT ![n] = SubSeq(s, 1, c3.localCount)]
  <2>1. SubSeq(sl1[n], 1, c3.localCount) = SubSeq(s, 1, c3.localCount)
    <3>1. PICK i, j : i = c1.localCount /\ j = c3.localCount
      OBVIOUS
    <3>2. i \in 0..Len(s) /\ j \in 0..i /\ s \in Seq(SlotType)
      BY <1>3, <1>20, <3>1
    <3>3. SubSeq(SubSeq(s, 1, i), 1, j) = SubSeq(s, 1, j)
      BY <3>2, PrefixOfPrefix
    <3> QED
      BY <1>11, <3>1, <3>3
  <2> QED
    BY <1>8, <2>1
<1>23. SubSeq(sy2, 1, L - 2) = SubSeq(syntax, 1, L - 2)
  <2>1. Len(sy1) >= 1 /\ (L - 1) - 1 = L - 2 /\ L - 2 \in 0..(L - 1) /\ L - 1 \in 0..L
    BY <1>3, <1>6, <1>10
  <2>2. SubSeq(sy2, 1, (L - 1) - 1) = SubSeq(sy1, 1, (L - 1) - 1)
    BY <1>10, <1>14, <1>15, <2>1, PrefixOfReplaced
  <2>3. SubSeq(sy1, 1, L - 2) = SubSeq(syntax, 1, L - 2)
    BY <1>2, <1>3, <1>8, <2>1, PrefixOfPrefix
  <2> QED
    BY <2>1, <2>2, <2>3
<1>24. SubSeq(dp1, 1, L - 2) = SubSeq(dp, 1, L - 2)
  <2>1. L - 2 \in 0..(L - 1) /\ L - 1 \in 0..L
    BY <1>3, <1>6
  <2> QED
    BY <1>3, <1>8, <2>1, PrefixOfPrefix
<1>25. Grammar(SubSeq(syntax, 1, L - 2), SubSeq(dp, 1, L - 2))
  <2>1. L - 2 \in 1..(L - 1) /\ syntax[(L - 2) + 1].kind # "body"
    <3>1. (L - 2) + 1 = L - 1
      BY <1>3
    <3> QED
      BY <1>5, <1>6, <3>1
  <2> QED
    BY <1>1, <1>2, <1>3, <2>1, GrammarPop
<1>26. /\ compilers' = [compilers EXCEPT ![n] = c3]
       /\ slots' = [slots EXCEPT ![n] = Dropping(c3.localCount)]
       /\ lost' = lost \cup Losing(c3.localCount)
       /\ syntax' = SubSeq(syntax, 1, L - 2)
  BY <1>2, <1>5, <1>7, <1>12, <1>18 DEF EndFor, Close, Fn
<1>27. Losing(c3.localCount) = {} /\ Dropping(c3.localCount) = SubSeq(s, 1, c3.localCount)
  <2>1. c3.localCount \in 0..Current.localCount
    BY <1>2, <1>20
  <2> QED
    BY <1>1, <1>2, <2>1, NothingLost
<1>28. lost' = {}
  BY <1>26, <1>27 DEF SInv
<1> QED
  BY <1>19, <1>21, <1>22, <1>23, <1>24, <1>25, <1>26, <1>27, <1>28, Concluded

(* a compiler and a frame after the declaration of at most one variable *)
Declared(c, names, d) ==
  IF names = {} THEN c ELSE AddLocal(c, Local(CHOOSE v \in names : TRUE, d))
Held(s, names, k) ==
  IF names = {} THEN s ELSE Append(s, Holding(Variable(CHOOSE v \in names : TRUE, k)))

LEMMA TwoAppended ==
  ASSUME NEW S, NEW s \in Seq(S), NEW a \in S, NEW b \in S
  PROVE  s \o <<a, b>> = Append(Append(s, a), b)
<1>1. PICK t, u : t = s \o <<a, b>> /\ u = Append(s, a)
  OBVIOUS
<1>2. <<a, b>> \in Seq(S) /\ Len(<<a, b>>) = 2 /\ Len(s) \in Nat
  OBVIOUS
<1>3. /\ t \in Seq(S) /\ Len(t) = Len(s) + 2 /\ \A i \in 1..Len(s) : t[i] = s[i]
      /\ t[Len(s) + 1] = a /\ t[Len(s) + 2] = b
  BY <1>1, <1>2
<1>4. /\ u \in Seq(S) /\ Len(u) = Len(s) + 1 /\ \A i \in 1..Len(s) : u[i] = s[i]
      /\ u[Len(s) + 1] = a
  BY <1>1, AppendFacts
<1>5. /\ Append(u, b) \in Seq(S) /\ Len(Append(u, b)) = Len(u) + 1
      /\ \A i \in 1..Len(u) : Append(u, b)[i] = u[i] /\ Append(u, b)[Len(u) + 1] = b
  BY <1>4, AppendFacts
<1>6. Len(u) + 1 = Len(s) + 2
  BY <1>2, <1>4
<1>7. \A i \in 1..Len(t) : t[i] = Append(u, b)[i]
  <2>1. ASSUME NEW i \in 1..(Len(s) + 2) PROVE t[i] = Append(u, b)[i]
    <3>1. CASE i \in 1..Len(s)
      <4>1. i \in 1..Len(u)
        BY <1>2, <1>4, <3>1
      <4> QED
        BY <1>3, <1>4, <1>5, <3>1, <4>1
    <3>2. CASE i = Len(s) + 1
      <4>1. i \in 1..Len(u)
        BY <1>2, <1>4, <3>2
      <4> QED
        BY <1>3, <1>4, <1>5, <3>2, <4>1
    <3>3. CASE i = Len(s) + 2
      BY <1>3, <1>5, <1>6, <3>3
    <3>4. \A m \in Nat : \A j \in 1..(m + 2) : j \in 1..m \/ j = m + 1 \/ j = m + 2
      OBVIOUS
    <3>5. i \in 1..Len(s) \/ i = Len(s) + 1 \/ i = Len(s) + 2
      BY <1>2, <3>4
    <3> QED
      BY <3>1, <3>2, <3>3, <3>5
  <2> QED
    BY <1>3, <2>1
<1>8. t = Append(u, b)
  BY <1>3, <1>5, <1>6, <1>7, Sames
<1> QED
  BY <1>1, <1>8

LEMMA OneName ==
  ASSUME NEW names \in Parameters, names # {}
  PROVE  \E p \in Name : names = {p} /\ (CHOOSE v \in names : TRUE) = p
<1>1. PICK p \in Name : names = {p}
  BY DEF Parameters
<1>2. (CHOOSE v \in names : TRUE) \in names
  BY <1>1
<1> QED
  BY <1>1, <1>2

LEMMA DeclaredFacts ==
  ASSUME NEW c \in CompilerType, c.localCount \in 1..Len(c.locals),
         NEW names \in Parameters, NEW d \in Nat
  PROVE  /\ Declared(c, names, d) \in CompilerType /\ SameLoop(Declared(c, names, d), c)
         /\ Declared(c, names, d).scopeDepth = c.scopeDepth
<1>1. CASE names = {}
  BY <1>1 DEF Declared, SameLoop
<1>2. CASE names # {}
  <2>1. PICK p \in Name : (CHOOSE v \in names : TRUE) = p
    BY <1>2, OneName
  <2>2. Declared(c, names, d) = AddLocal(c, Local(p, d))
    BY <1>2, <2>1 DEF Declared
  <2>3. Local(p, d) \in LocalType
    BY DEF Local, LocalType, Word
  <2> QED
    BY <2>2, <2>3, AddLocalFacts DEF Grown, SameLoop
<1> QED
  BY <1>1, <1>2

(* a scope with the variables it declares begins *)
LEMMA ScopeOpens ==
  ASSUME NEW cs, NEW sl, NEW sy, NEW dp, Inv(cs, sl, sy, dp), NEW names \in Parameters,
         NEW x \in ConstructType, x.kind \in {"block", "body"}, x.fn = Len(cs), x.names = names,
         NEW d \in {dp[Len(sy)], dp[Len(sy)] + 1}, names # {} => d = dp[Len(sy)] + 1,
         NEW c \in CompilerType, SameLocals(c, cs[Len(cs)]), SameLoop(c, cs[Len(cs)]),
         c.scopeDepth = d
  PROVE  Inv([cs EXCEPT ![Len(cs)] = Declared(c, names, d)],
             [sl EXCEPT ![Len(sl)] = Held(sl[Len(sl)], names, Len(sy) + 1)],
             Append(sy, x), Append(dp, d))
<1>1. PICK n, L : n = Len(cs) /\ L = Len(sy)
  OBVIOUS
<1>2. /\ n \in Nat \ {0} /\ L \in Nat \ {0} /\ Len(sl) = n /\ sy \in Seq(ConstructType)
      /\ dp \in Seq(Nat) /\ Len(dp) = L /\ cs \in Seq(CompilerType) /\ sl \in Seq(Seq(SlotType))
  BY <1>1, Facts DEF Inv, Typed
<1>3. CASE names = {}
  <2>1. Inv([cs EXCEPT ![n] = c], sl, Append(sy, x), Append(dp, d))
    BY <1>1, <1>3, PushKeeps
  <2>2. [sl EXCEPT ![n] = sl[n]] = sl
    BY <1>2
  <2> QED
    BY <1>1, <1>2, <1>3, <2>1, <2>2 DEF Declared, Held
<1>4. CASE names # {}
  <2>1. PICK p \in Name : names = {p} /\ (CHOOSE v \in names : TRUE) = p
    BY <1>4, OneName
  <2>2. PICK y : y = [x EXCEPT !.names = {}]
    OBVIOUS
  <2>3. /\ y \in ConstructType /\ y.kind = x.kind /\ y.fn = x.fn /\ y.names = {}
        /\ [y EXCEPT !.names = @ \cup {p}] = x
    BY <2>1, <2>2 DEF ConstructType
  <2>4. PICK cs1, t, e : /\ cs1 = [cs EXCEPT ![n] = c]
                         /\ t = Append(sy, y) /\ e = Append(dp, d)
    OBVIOUS
  <2>5. Inv(cs1, sl, t, e)
    BY <1>1, <2>3, <2>4, PushKeeps
  <2>6. cs1 \in Seq(CompilerType) /\ Len(cs1) = n /\ cs1[n] = c
    BY <1>1, <1>2, <2>4, LastReplaced
  <2>7. d \in Nat /\ dp[L] \in Nat
    BY <1>1, <1>2
  <2>8. Len(t) = L + 1 /\ t[L + 1] = y /\ e[L + 1] = d /\ e[L] = dp[L]
    <3>1. Len(t) = L + 1 /\ t[L + 1] = y
      BY <1>1, <1>2, <2>3, <2>4, AppendFacts
    <3>2. L \in 1..Len(dp) /\ Len(dp) = L
      BY <1>2
    <3> QED
      BY <1>2, <2>4, <2>7, <3>1, <3>2, AppendFacts
  <2>9. PICK a, s : /\ a = AddLocal(c, Local(p, d))
                    /\ s = Append(sl[n], Holding(Variable(p, L + 1)))
    OBVIOUS
  <2>10. Inv([cs1 EXCEPT ![n] = a], [sl EXCEPT ![n] = s], [t EXCEPT ![L + 1] = x], e)
    <3>1. t[Len(t)].kind \notin LoopKinds
      BY <2>3, <2>8 DEF LoopKinds
    <3>2. Opens(t, e, Len(t))
      <4>1. Len(t) - 1 = L /\ Len(t) >= 2
        BY <1>2, <2>8
      <4>2. d = dp[L] + 1
        BY <1>1, <1>4
      <4> QED
        BY <2>8, <4>1, <4>2 DEF Opens
    <3>3. x = [t[Len(t)] EXCEPT !.names = @ \cup {p}]
      BY <2>3, <2>8
    <3>4. a = AddLocal(cs1[Len(cs1)], Local(p, cs1[Len(cs1)].scopeDepth))
      BY <2>6, <2>9
    <3>5. s = Append(sl[Len(sl)], Holding(Variable(p, Len(t))))
      BY <1>2, <2>8, <2>9
    <3>6. Inv([cs1 EXCEPT ![Len(cs1)] = a], [sl EXCEPT ![Len(sl)] = s],
              [t EXCEPT ![Len(t)] = x], e)
      BY <2>5, <3>1, <3>2, <3>3, <3>4, <3>5, DeclareLocalKeeps
    <3> QED
      BY <1>2, <2>6, <2>8, <3>6
  <2>11. [t EXCEPT ![L + 1] = x] = Append(sy, x)
    BY <1>1, <1>2, <2>3, <2>4, AppendReplaced
  <2>12. [cs1 EXCEPT ![n] = a] = [cs EXCEPT ![n] = a]
    BY <2>4
  <2>13. a = Declared(c, names, d) /\ s = Held(sl[n], names, L + 1)
    BY <1>4, <2>1, <2>9 DEF Declared, Held
  <2> QED
    BY <1>1, <1>2, <2>4, <2>10, <2>11, <2>12, <2>13
<1> QED
  BY <1>3, <1>4

(* a for statement and its body follow the rules *)
LEMMA GrammarFor ==
  ASSUME NEW sy \in Seq(ConstructType), NEW dp \in Seq(Nat), Len(dp) = Len(sy), Len(sy) >= 1,
         sy[1].kind = "script", Grammar(sy, dp),
         NEW a \in ConstructType, a.kind = "for", NEW b \in ConstructType, b.kind = "body",
         NEW d \in Nat, d = dp[Len(sy)] + 1, NEW e \in Nat,
         e = IF b.names = {} THEN d ELSE d + 1
  PROVE  Grammar(Append(Append(sy, a), b), Append(Append(dp, d), e))
<1>1. PICK L : L = Len(sy)
  OBVIOUS
<1>2. L \in Nat \ {0} /\ Len(dp) = L
  BY <1>1
<1>3. PICK t1, q1 : t1 = Append(sy, a) /\ q1 = Append(dp, d)
  OBVIOUS
<1>4. PICK t, q : t = Append(t1, b) /\ q = Append(q1, e)
  OBVIOUS
<1>5. /\ t1 \in Seq(ConstructType) /\ Len(t1) = L + 1 /\ t1[L + 1] = a
      /\ \A i \in 1..L : t1[i] = sy[i]
  BY <1>1, <1>3, AppendFacts
<1>6. /\ q1 \in Seq(Nat) /\ Len(q1) = L + 1 /\ q1[L + 1] = d /\ \A i \in 1..L : q1[i] = dp[i]
  <2>1. /\ Append(dp, d) \in Seq(Nat) /\ Len(Append(dp, d)) = Len(dp) + 1
        /\ \A i \in 1..Len(dp) : Append(dp, d)[i] = dp[i]
        /\ Append(dp, d)[Len(dp) + 1] = d
    BY AppendFacts
  <2> QED
    BY <1>2, <1>3, <2>1
<1>7. (L + 1) + 1 = L + 2 /\ L + 1 \in 1..(L + 1) /\ \A i \in 1..L : i \in 1..(L + 1)
  BY <1>2
<1>8. /\ Len(t) = L + 2 /\ t[L + 2] = b /\ t[L + 1] = a /\ \A i \in 1..L : t[i] = sy[i]
  <2>1. Len(t) = (L + 1) + 1 /\ t[(L + 1) + 1] = b /\ \A i \in 1..(L + 1) : t[i] = t1[i]
    <3>1. t1 \in Seq(ConstructType) /\ Len(t1) = L + 1
      BY <1>5
    <3>2. /\ Len(Append(t1, b)) = Len(t1) + 1 /\ Append(t1, b)[Len(t1) + 1] = b
          /\ \A i \in 1..Len(t1) : Append(t1, b)[i] = t1[i]
      BY <3>1, AppendFacts
    <3> QED
      BY <1>4, <3>1, <3>2
  <2> QED
    BY <1>5, <1>7, <2>1
<1>9. q[L + 2] = e /\ q[L + 1] = d /\ \A i \in 1..L : q[i] = dp[i]
  <2>1. q[(L + 1) + 1] = e /\ \A i \in 1..(L + 1) : q[i] = q1[i]
    <3>1. q1 \in Seq(Nat) /\ Len(q1) = L + 1
      BY <1>6
    <3>2. /\ Append(q1, e)[Len(q1) + 1] = e
          /\ \A i \in 1..Len(q1) : Append(q1, e)[i] = q1[i]
      BY <3>1, AppendFacts
    <3> QED
      BY <1>4, <3>1, <3>2
  <2> QED
    BY <1>6, <1>7, <2>1
<1>10. ASSUME NEW k \in 1..L PROVE Rule(t, q, k)
  <2>1. Rule(sy, dp, k) /\ k \in Nat \ {0}
    BY <1>1, <1>10 DEF Grammar
  <2>2. t[k] = sy[k] /\ q[k] = dp[k]
    BY <1>8, <1>9
  <2>3. IF k = 1 THEN sy[k].kind = "script" ELSE q[k - 1] = dp[k - 1]
    <3>1. k # 1 => k - 1 \in 1..L
      BY <1>2
    <3> QED
      BY <1>9, <3>1
  <2>4. Followed(t, k) <=> Followed(sy, k)
    <3>1. CASE k = L
      <4>1. ~Followed(sy, k)
        BY <1>1, <1>2, <3>1 DEF Followed
      <4>2. ~Followed(t, k)
        BY <1>2, <1>8, <3>1 DEF Followed
      <4> QED
        BY <4>1, <4>2
    <3>2. CASE k # L
      <4>1. k + 1 \in 1..L /\ k + 1 \in 1..(L + 2)
        BY <1>2, <3>2
      <4> QED
        BY <1>1, <1>8, <4>1 DEF Followed
    <3> QED
      BY <3>1, <3>2
  <2> QED
    BY <2>1, <2>2, <2>3, <2>4, RuleSame
<1>11. Rule(t, q, L + 1)
  <2>1. (L + 1) + 1 \in 1..(L + 2) /\ (L + 1) + 1 = L + 2 /\ (L + 1) - 1 = L /\ L \in 1..L
    BY <1>2
  <2> QED
    BY <1>1, <1>8, <1>9, <2>1 DEF Rule
<1>12. Rule(t, q, L + 2)
  <2>1. (L + 2) + 1 \notin 1..(L + 2) /\ (L + 2) - 1 = L + 1 /\ L + 2 >= 2
    BY <1>2
  <2> QED
    BY <1>8, <1>9, <2>1 DEF Rule
<1>13. \A k \in 1..(L + 2) : k \in 1..L \/ k = L + 1 \/ k = L + 2
  BY <1>2
<1> QED
  BY <1>3, <1>4, <1>8, <1>10, <1>11, <1>12, <1>13 DEF Grammar

LEMMA BeginForKeeps ==
  ASSUME NEW names \in Parameters
  PROVE  SInv /\ BeginFor(names) => SInv'
<1> SUFFICES ASSUME SInv, BeginFor(names) PROVE SInv'
  OBVIOUS
<1>1. PICK dp \in Seq(Nat) : Inv(compilers, slots, syntax, dp) /\ Grammar(syntax, dp)
  BY DEF SInv
<1>2. PICK L, n, o, s : L = Len(syntax) /\ n = Len(compilers) /\ o = Current /\ s = Stack
  OBVIOUS
<1>3. /\ L \in Nat \ {0} /\ n \in Nat \ {0} /\ n \in 1..n /\ o = compilers[n] /\ Fn = n
      /\ o \in CompilerType /\ o.localCount \in 1..Len(o.locals) /\ Len(slots) = n
      /\ compilers \in Seq(CompilerType) /\ slots \in Seq(Seq(SlotType)) /\ Top = syntax[L]
      /\ syntax \in Seq(ConstructType) /\ s = slots[n] /\ s \in Seq(SlotType)
      /\ dp \in Seq(Nat) /\ Len(dp) = L /\ o.scopeDepth = dp[L] /\ dp[L] \in Nat
      /\ syntax[1].kind = "script"
  BY <1>1, <1>2, StateFacts
<1>4. PICK d : d = o.scopeDepth + 1
  OBVIOUS
<1>5. d \in Nat /\ d = dp[L] + 1
  BY <1>3, <1>4
<1>6. PICK c0 : c0 = [o EXCEPT !.scopeDepth = d]
  OBVIOUS
<1>7. /\ c0 \in CompilerType /\ SameLocals(c0, o) /\ SameLoop(c0, o) /\ c0.scopeDepth = d
  BY <1>3, <1>5, <1>6, DepthSet
<1>8. PICK c1, s1 : c1 = Declared(c0, names, d) /\ s1 = Held(s, names, L + 1)
  OBVIOUS
<1>9. /\ c1 \in CompilerType /\ SameLoop(c1, o) /\ c1.scopeDepth = d
  <2>1. c0.localCount \in 1..Len(c0.locals)
    BY <1>3, <1>7 DEF SameLocals
  <2> QED
    BY <1>5, <1>7, <1>8, <2>1, DeclaredFacts DEF SameLoop
<1>10. PICK x : x = Construct("block", names)
  OBVIOUS
<1>11. x \in ConstructType /\ x.kind = "block" /\ x.names = names /\ x.fn = n
  <2>1. "block" \in AllKinds /\ names \in SUBSET Name
    BY DEF AllKinds, Parameters
  <2> QED
    BY <1>1, <1>2, <1>10, <2>1, ConstructFacts
<1>12. PICK cs1, sl1, sy1, dp1 : /\ cs1 = [compilers EXCEPT ![n] = c1]
                                 /\ sl1 = [slots EXCEPT ![n] = s1]
                                 /\ sy1 = Append(syntax, x) /\ dp1 = Append(dp, d)
  OBVIOUS
<1>13. Inv(cs1, sl1, sy1, dp1)
  <2>1. /\ x.kind \in {"block", "body"} /\ x.fn = Len(compilers)
        /\ d \in {dp[Len(syntax)], dp[Len(syntax)] + 1} /\ d = dp[Len(syntax)] + 1
        /\ SameLocals(c0, compilers[Len(compilers)]) /\ SameLoop(c0, compilers[Len(compilers)])
    BY <1>2, <1>3, <1>5, <1>7, <1>11
  <2>2. Inv([compilers EXCEPT ![Len(compilers)] = Declared(c0, names, d)],
            [slots EXCEPT ![Len(slots)] = Held(slots[Len(slots)], names, Len(syntax) + 1)],
            Append(syntax, x), Append(dp, d))
    BY <1>1, <1>7, <1>11, <2>1, ScopeOpens
  <2> QED
    BY <1>2, <1>3, <1>8, <1>12, <2>2
<1>14. /\ Len(cs1) = n /\ cs1[n] = c1 /\ Len(sl1) = n /\ sl1[n] = s1
       /\ sl1 \in Seq(Seq(SlotType)) /\ s1 \in Seq(SlotType)
  <2>1. sl1 \in Seq(Seq(SlotType))
    BY <1>13 DEF Inv, Typed
  <2>2. Len(cs1) = n /\ cs1[n] = c1
    BY <1>2, <1>3, <1>12
  <2>3. Len(sl1) = n /\ n \in DOMAIN slots
    BY <1>3, <1>12
  <2>4. sl1[n] = s1
    BY <1>12, <2>3
  <2> QED
    BY <1>3, <2>1, <2>2, <2>3, <2>4
<1>15. Len(sy1) = L + 1 /\ sy1[L + 1] = x /\ dp1[L + 1] = d /\ Len(dp1) = L + 1
  BY SMTT(40), <1>2, <1>3, <1>5, <1>11, <1>12, AppendFacts
<1>16. PICK a, b : /\ a = [Construct("for", names) EXCEPT !.surrounding = Surrounding(o),
                                                         !.entry = Vars(s1)]
                   /\ b = [Construct("body", names) EXCEPT !.entry = Vars(s1)]
  OBVIOUS
<1>17. Vars(s1) \in Seq(VarType)
  <2>1. Len(s1) \in Nat /\ Vars(s1) = [i \in 1..Len(s1) |-> s1[i].var]
    BY <1>14 DEF Vars
  <2>2. \A i \in 1..Len(s1) : s1[i] \in SlotType
    BY <1>14
  <2>3. Vars(s1) \in [1..Len(s1) -> VarType]
    BY <2>1, <2>2 DEF SlotType
  <2> QED
    BY <2>1, <2>3, SeqIs
<1>18. Surrounding(o) \in LoopType
  BY <1>3 DEF Surrounding, LoopType, CompilerType
<1>19. /\ a \in ConstructType /\ a.kind = "for" /\ a.names = names /\ a.fn = n
       /\ a.surrounding = Surrounding(o) /\ a.entry = Vars(s1)
       /\ a.breaks = {} /\ a.continues = {}
  <2>1. "for" \in AllKinds /\ names \in SUBSET Name
    BY DEF AllKinds, Parameters, LoopKinds
  <2>2. PICK w : w = Construct("for", names)
    OBVIOUS
  <2>3. /\ w \in ConstructType /\ w.kind = "for" /\ w.names = names /\ w.fn = n
        /\ w.breaks = {} /\ w.continues = {}
    BY <1>1, <1>2, <2>1, <2>2, ConstructFacts
  <2> QED
    BY <1>16, <1>17, <1>18, <2>2, <2>3 DEF ConstructType
<1>20. /\ b \in ConstructType /\ b.kind = "body" /\ b.names = names /\ b.fn = n
  <2>1. "body" \in AllKinds /\ names \in SUBSET Name
    BY DEF AllKinds, Parameters
  <2>2. PICK w : w = Construct("body", names)
    OBVIOUS
  <2>3. /\ w \in ConstructType /\ w.kind = "body" /\ w.names = names /\ w.fn = n
    BY <1>1, <1>2, <2>1, <2>2, ConstructFacts
  <2> QED
    BY <1>16, <1>17, <2>2, <2>3 DEF ConstructType
<1>21. PICK c2 : c2 = EnterLoop(c1, L + 1)
  OBVIOUS
<1>22. /\ c2 \in CompilerType /\ SameLocals(c2, c1) /\ c2.scopeDepth = d
       /\ c2.loopType = "loop" /\ c2.loopStart = L + 1 /\ c2.loopDepth = c2.scopeDepth
  <2>1. L + 1 \in Nat
    BY <1>3
  <2> QED
    BY <1>9, <1>21, <2>1, LoopSet
<1>23. PICK cs2, sy2 : cs2 = [compilers EXCEPT ![n] = c2] /\ sy2 = Append(syntax, a)
  OBVIOUS
<1>24. Inv(cs2, sl1, sy2, dp1)
  <2>1. /\ sy1[Len(sy1)].kind \in {"block", "body"} /\ a.kind \in LoopKinds
        /\ a.fn = sy1[Len(sy1)].fn /\ a.names = sy1[Len(sy1)].names
        /\ a.entry = Vars(sl1[Len(sl1)])
    BY <1>11, <1>14, <1>15, <1>19 DEF LoopKinds
  <2>2. a.surrounding = Surrounding(cs1[Len(cs1)])
    BY <1>9, <1>14, <1>19 DEF Surrounding, SameLoop
  <2>3. /\ SameLocals(c2, cs1[Len(cs1)]) /\ c2.scopeDepth = cs1[Len(cs1)].scopeDepth
        /\ c2.loopStart = Len(sy1)
    BY <1>9, <1>14, <1>15, <1>22
  <2>4. Inv([cs1 EXCEPT ![Len(cs1)] = c2], sl1, [sy1 EXCEPT ![Len(sy1)] = a], dp1)
    BY <1>13, <1>19, <1>22, <2>1, <2>2, <2>3, MakeLoopKeeps
  <2>5. [cs1 EXCEPT ![n] = c2] = cs2
    BY <1>12, <1>23
  <2>6. [sy1 EXCEPT ![L + 1] = a] = sy2
    BY <1>2, <1>3, <1>11, <1>12, <1>19, <1>23, AppendReplaced
  <2> QED
    BY <1>14, <1>15, <2>4, <2>5, <2>6
<1>25. Len(cs2) = n /\ cs2[n] = c2 /\ Len(sy2) = L + 1
  <2>1. Len(cs2) = n /\ cs2[n] = c2
    BY <1>2, <1>3, <1>23
  <2> QED
    BY <1>2, <1>3, <1>19, <1>23, <2>1, AppendFacts
<1>26. PICK e, c3 : /\ e = IF names = {} THEN d ELSE d + 1
                    /\ c3 = IF names = {} THEN c2 ELSE [c2 EXCEPT !.scopeDepth = d + 1]
  OBVIOUS
<1>27. e \in Nat /\ e \in {d, d + 1}
  BY <1>5, <1>26
<1>28. /\ c3 \in CompilerType /\ SameLocals(c3, c2) /\ SameLoop(c3, c2) /\ c3.scopeDepth = e
  <2>1. CASE names = {}
    BY <1>22, <1>26, <2>1 DEF SameLocals, SameLoop
  <2>2. CASE names # {}
    <3>1. d + 1 \in Nat
      BY <1>5
    <3> QED
      BY <1>22, <1>26, <2>2, <3>1, DepthSet
  <2> QED
    BY <2>1, <2>2
<1>29. PICK c4, s4 : c4 = Declared(c3, names, e) /\ s4 = Held(s1, names, L + 2)
  OBVIOUS
<1>30. Inv([compilers EXCEPT ![n] = c4], [slots EXCEPT ![n] = s4],
           Append(sy2, b), Append(dp1, e))
  <2>1. /\ b.kind \in {"block", "body"} /\ b.fn = Len(cs2) /\ b.names = names
        /\ SameLocals(c3, cs2[Len(cs2)]) /\ SameLoop(c3, cs2[Len(cs2)])
    BY <1>20, <1>25, <1>28
  <2>2. /\ e \in {dp1[Len(sy2)], dp1[Len(sy2)] + 1}
        /\ names # {} => e = dp1[Len(sy2)] + 1
    BY <1>15, <1>25, <1>26
  <2>3. Inv([cs2 EXCEPT ![Len(cs2)] = Declared(c3, names, e)],
            [sl1 EXCEPT ![Len(sl1)] = Held(sl1[Len(sl1)], names, Len(sy2) + 1)],
            Append(sy2, b), Append(dp1, e))
    BY <1>20, <1>24, <1>28, <2>1, <2>2, ScopeOpens
  <2>4. (L + 1) + 1 = L + 2
    BY <1>3
  <2>5. [cs2 EXCEPT ![n] = c4] = [compilers EXCEPT ![n] = c4]
        /\ [sl1 EXCEPT ![n] = s4] = [slots EXCEPT ![n] = s4]
    BY <1>12, <1>23
  <2> QED
    BY <1>14, <1>25, <1>29, <2>3, <2>4, <2>5
<1>31. Grammar(Append(sy2, b), Append(dp1, e))
  <2>1. /\ Len(dp) = Len(syntax) /\ Len(syntax) >= 1 /\ d = dp[Len(syntax)] + 1
        /\ e = IF b.names = {} THEN d ELSE d + 1
    BY <1>2, <1>3, <1>5, <1>20, <1>26
  <2> QED
    BY <1>1, <1>3, <1>5, <1>12, <1>19, <1>20, <1>23, <1>27, <2>1, GrammarFor
<1>32. compilers' = [compilers EXCEPT ![n] = c4]
  <2>1. c2 = EnterLoop(IF names = {} THEN [Current EXCEPT !.scopeDepth = Current.scopeDepth + 1]
                       ELSE AddLocal([Current EXCEPT !.scopeDepth = Current.scopeDepth + 1],
                              Local(CHOOSE v \in names : TRUE, Current.scopeDepth + 1)),
                       Len(syntax) + 1)
    BY <1>2, <1>4, <1>6, <1>8, <1>21 DEF Declared
  <2>2. c4 = IF names = {} THEN c2
             ELSE AddLocal([c2 EXCEPT !.scopeDepth = Current.scopeDepth + 1 + 1],
                           Local(CHOOSE v \in names : TRUE, Current.scopeDepth + 1 + 1))
    BY <1>2, <1>4, <1>26, <1>29 DEF Declared
  <2> QED
    BY <1>3, <2>1, <2>2 DEF BeginFor
<1>33. slots' = [slots EXCEPT ![n] = s4]
  <2>1. (L + 1) + 1 = L + 2
    BY <1>3
  <2> QED
    BY <1>2, <1>3, <1>8, <1>29, <2>1 DEF BeginFor, Held
<1>34. syntax' = Append(sy2, b)
  <2>1. syntax' = syntax \o <<a, b>>
    BY <1>2, <1>3, <1>8, <1>16 DEF BeginFor, Held
  <2>2. syntax \o <<a, b>> = Append(Append(syntax, a), b)
    BY <1>3, <1>19, <1>20, TwoAppended
  <2> QED
    BY <1>23, <2>1, <2>2
<1>35. lost' = {}
  BY DEF BeginFor, SInv
<1> QED
  BY <1>30, <1>31, <1>32, <1>33, <1>34, <1>35, Concluded

-----------------------------------------------------------------------------
(* Reading a variable *)

UpvalueType == [index : Nat, isLocal : BOOLEAN]

(* AddUpvalue answers where the upvalue is, and adds no other. *)
LEMMA AddUpvalueFacts ==
  ASSUME NEW us \in Seq(UpvalueType), NEW index \in Nat, NEW isLocal \in BOOLEAN,
         NEW a, a = AddUpvalue(us, index, isLocal)
  PROVE  /\ a.upvalues \in Seq(UpvalueType) /\ a.at \in 1..Len(a.upvalues)
         /\ a.upvalues[a.at] = [index |-> index, isLocal |-> isLocal]
         /\ \A u \in Elements(a.upvalues) :
              u \in Elements(us) \/ u = [index |-> index, isLocal |-> isLocal]
<1>1. PICK same, v : /\ same = {i \in 1..Len(us) : SameUpvalue(us[i], index, isLocal)}
                     /\ v = [index |-> index, isLocal |-> isLocal]
  OBVIOUS
<1>2. v \in UpvalueType
  BY <1>1 DEF UpvalueType
<1>3. CASE same # {}
  <2>1. a = [upvalues |-> us, at |-> CHOOSE i \in same : TRUE]
    BY <1>1, <1>3 DEF AddUpvalue
  <2>2. a.upvalues = us /\ a.at \in same
    BY <1>3, <2>1
  <2>3. us[a.at] \in UpvalueType /\ a.at \in 1..Len(us)
    BY <1>1, <2>2
  <2>4. us[a.at].index = index /\ us[a.at].isLocal = isLocal
    BY <1>1, <2>2 DEF SameUpvalue
  <2>5. us[a.at] = v
    BY <1>1, <2>3, <2>4 DEF UpvalueType
  <2> QED
    BY <1>1, <2>2, <2>3, <2>5
<1>4. CASE same = {}
  <2>1. a = [upvalues |-> Append(us, v), at |-> Len(us) + 1]
    BY <1>1, <1>4 DEF AddUpvalue
  <2>2. a.upvalues = Append(us, v) /\ a.at = Len(us) + 1
    BY <2>1
  <2>3. /\ Append(us, v) \in Seq(UpvalueType) /\ Len(Append(us, v)) = Len(us) + 1
        /\ Len(us) \in Nat /\ \A i \in 1..Len(us) : Append(us, v)[i] = us[i]
        /\ Append(us, v)[Len(us) + 1] = v
    BY <1>2, AppendFacts
  <2>4. ASSUME NEW u \in Elements(a.upvalues) PROVE u \in Elements(us) \/ u = v
    <3>1. PICK i \in 1..Len(a.upvalues) : u = a.upvalues[i]
      BY <2>4 DEF Elements
    <3>2. i \in 1..Len(us) \/ i = Len(us) + 1
      BY <2>2, <2>3
    <3> QED
      BY <2>2, <2>3, <3>1, <3>2 DEF Elements
  <2>5. a.at \in 1..Len(a.upvalues)
    BY <2>2, <2>3
  <2> QED
    BY <1>1, <2>2, <2>3, <2>4, <2>5
<1> QED
  BY <1>3, <1>4

(* g is what Resolved defines by recursion, for functions h + 1 to m *)
Resolves(g, cs, h, i, m) ==
  g = [f \in (h + 1)..m |->
         IF f = h + 1 THEN AddUpvalue(cs[f].upvalues, i, TRUE)
         ELSE AddUpvalue(cs[f].upvalues, g[f - 1].at, FALSE)]

LEMMA ResolvesExists ==
  ASSUME NEW cs, NEW h \in Nat, NEW i, NEW m \in Nat, m >= h
  PROVE  \E g : Resolves(g, cs, h, i, m)
<1>1. PICK S : S = {k \in Nat : k >= h /\ ~\E g : Resolves(g, cs, h, i, k)}
  OBVIOUS
<1>2. ASSUME S # {} PROVE FALSE
  <2>1. PICK k \in S : \A j \in S : k <= j
    BY <1>1, <1>2, NaturalsHaveLeast
  <2>2. k \in Nat /\ k >= h /\ ~\E g : Resolves(g, cs, h, i, k)
    BY <1>1, <2>1
  <2>3. CASE k = h
    <3>1. (h + 1)..k = {}
      BY <2>3
    <3>2. PICK g : g = [f \in (h + 1)..k |-> 0]
      OBVIOUS
    <3>3. Resolves(g, cs, h, i, k)
      BY <3>1, <3>2 DEF Resolves
    <3> QED
      BY <2>2, <3>3
  <2>4. CASE k # h
    <3>1. k - 1 \in Nat /\ k - 1 >= h /\ k - 1 \notin S
      BY <2>1, <2>2, <2>4
    <3>2. PICK g : Resolves(g, cs, h, i, k - 1)
      BY <1>1, <3>1
    <3>3. PICK v : v = IF k = h + 1 THEN AddUpvalue(cs[k].upvalues, i, TRUE)
                       ELSE AddUpvalue(cs[k].upvalues, g[k - 1].at, FALSE)
      OBVIOUS
    <3>4. PICK e : e = [f \in (h + 1)..k |-> IF f = k THEN v ELSE g[f]]
      OBVIOUS
    <3>5. ASSUME NEW f \in (h + 1)..k
          PROVE  e[f] = IF f = h + 1 THEN AddUpvalue(cs[f].upvalues, i, TRUE)
                        ELSE AddUpvalue(cs[f].upvalues, e[f - 1].at, FALSE)
      <4>1. CASE f = k
        <5>1. k # h + 1 => k - 1 \in (h + 1)..k /\ k - 1 # k
          BY <2>2, <2>4
        <5>2. k # h + 1 => e[k - 1] = g[k - 1]
          BY <3>4, <5>1
        <5> QED
          BY <3>3, <3>4, <4>1, <5>2
      <4>2. CASE f # k
        <5>1. f \in (h + 1)..(k - 1)
          BY <2>2, <4>2
        <5>2. e[f] = g[f]
          BY <3>4, <4>2
        <5>3. f # h + 1 => f - 1 \in (h + 1)..k /\ f - 1 # k
          BY <2>2, <4>2
        <5>4. f # h + 1 => e[f - 1] = g[f - 1]
          BY <3>4, <5>3
        <5>5. g[f] = IF f = h + 1 THEN AddUpvalue(cs[f].upvalues, i, TRUE)
                     ELSE AddUpvalue(cs[f].upvalues, g[f - 1].at, FALSE)
          BY <3>2, <5>1 DEF Resolves
        <5> QED
          BY <5>2, <5>4, <5>5
      <4> QED
        BY <4>1, <4>2
    <3>6. Resolves(e, cs, h, i, k)
      BY <3>4, <3>5 DEF Resolves
    <3> QED
      BY <2>2, <3>6
  <2> QED
    BY <2>3, <2>4
<1> QED
  BY <1>1, <1>2

LEMMA ResolvedIs ==
  ASSUME NEW v, NEW h \in Nat, h = Holder(v), Fn \in Nat, Fn >= h
  PROVE  Resolves(Resolved(v), compilers, h, LocalIndex(compilers[h], v), Fn)
<1>1. PICK i : i = LocalIndex(compilers[h], v)
  OBVIOUS
<1>2. \E g : Resolves(g, compilers, h, i, Fn)
  BY ResolvesExists
<1>3. Resolved(v) = CHOOSE g : Resolves(g, compilers, h, i, Fn)
  BY <1>1 DEF Resolved, Resolves
<1>4. Resolves(CHOOSE g : Resolves(g, compilers, h, i, Fn), compilers, h, i, Fn)
  BY <1>2
<1> QED
  BY <1>1, <1>3, <1>4

(* the compiler of function f in the chain from holder h of local i *)
Link(g, cs, h, i, f) ==
  /\ g[f].upvalues \in Seq(UpvalueType) /\ g[f].at \in 1..Len(g[f].upvalues)
  /\ g[f].upvalues[g[f].at] = IF f = h + 1 THEN [index |-> i, isLocal |-> TRUE]
                              ELSE [index |-> g[f - 1].at, isLocal |-> FALSE]
  /\ \A u \in Elements(g[f].upvalues) :
       u \in Elements(cs[f].upvalues) \/ ~u.isLocal \/ (f = h + 1 /\ u.index = i)

LEMMA ChainFacts ==
  ASSUME NEW cs, NEW h \in Nat, NEW i \in Nat, NEW m \in Nat, NEW g,
         Resolves(g, cs, h, i, m),
         \A f \in (h + 1)..m : cs[f].upvalues \in Seq(UpvalueType),
         NEW f \in (h + 1)..m
  PROVE  Link(g, cs, h, i, f)
<1>1. ASSUME NEW k \in (h + 1)..m
      PROVE  g[k] = IF k = h + 1 THEN AddUpvalue(cs[k].upvalues, i, TRUE)
                    ELSE AddUpvalue(cs[k].upvalues, g[k - 1].at, FALSE)
  BY DEF Resolves
<1>2. PICK S : S = {k \in (h + 1)..m : g[k].at \notin Nat}
  OBVIOUS
<1>3. ASSUME NEW k \in (h + 1)..m, k # h + 1 => g[k - 1].at \in Nat
      PROVE  g[k].at \in Nat
  <2>1. PICK j, l : j = (IF k = h + 1 THEN i ELSE g[k - 1].at) /\ l = (k = h + 1)
    OBVIOUS
  <2>2. j \in Nat /\ l \in BOOLEAN /\ cs[k].upvalues \in Seq(UpvalueType)
    BY <1>3, <2>1
  <2>3. g[k] = AddUpvalue(cs[k].upvalues, j, l)
    BY <1>1, <2>1
  <2>4. PICK a, us : a = g[k] /\ us = cs[k].upvalues
    OBVIOUS
  <2>5. a = AddUpvalue(us, j, l) /\ us \in Seq(UpvalueType)
    BY <2>2, <2>3, <2>4
  <2>6. a.upvalues \in Seq(UpvalueType) /\ a.at \in 1..Len(a.upvalues)
    BY <2>2, <2>5, AddUpvalueFacts
  <2> QED
    BY <2>4, <2>6
<1>4. S = {}
  <2>1. ASSUME S # {} PROVE FALSE
    <3>1. S \subseteq Nat
      BY <1>2
    <3>2. PICK k \in S : \A j \in S : k <= j
      BY <2>1, <3>1, NaturalsHaveLeast
    <3>3. k \in (h + 1)..m /\ g[k].at \notin Nat
      BY <1>2, <3>2
    <3>4. k # h + 1 => k - 1 \in (h + 1)..m /\ k - 1 \notin S
      BY <3>1, <3>2, <3>3
    <3>5. k # h + 1 => g[k - 1].at \in Nat
      BY <1>2, <3>4
    <3> QED
      BY <1>3, <3>3, <3>5
  <2> QED
    BY <2>1
<1>5. f # h + 1 => g[f - 1].at \in Nat
  <2>1. f # h + 1 => f - 1 \in (h + 1)..m
    OBVIOUS
  <2> QED
    BY <1>2, <1>4, <2>1
<1>6. PICK j, l : j = (IF f = h + 1 THEN i ELSE g[f - 1].at) /\ l = (f = h + 1)
  OBVIOUS
<1>7. j \in Nat /\ l \in BOOLEAN /\ cs[f].upvalues \in Seq(UpvalueType)
  BY <1>5, <1>6
<1>8. g[f] = AddUpvalue(cs[f].upvalues, j, l)
  BY <1>1, <1>6
<1>9. /\ g[f].upvalues \in Seq(UpvalueType) /\ g[f].at \in 1..Len(g[f].upvalues)
      /\ g[f].upvalues[g[f].at] = [index |-> j, isLocal |-> l]
      /\ \A u \in Elements(g[f].upvalues) :
           u \in Elements(cs[f].upvalues) \/ u = [index |-> j, isLocal |-> l]
  BY <1>7, <1>8, AddUpvalueFacts
<1>10. g[f].upvalues[g[f].at] = IF f = h + 1 THEN [index |-> i, isLocal |-> TRUE]
                                ELSE [index |-> g[f - 1].at, isLocal |-> FALSE]
  BY <1>6, <1>9
<1>11. ASSUME NEW u \in Elements(g[f].upvalues)
       PROVE  \/ u \in Elements(cs[f].upvalues) \/ ~u.isLocal
              \/ f = h + 1 /\ u.index = i
  <2>1. CASE u = [index |-> j, isLocal |-> l]
    <3>1. u.index = j /\ u.isLocal = l
      BY <2>1
    <3> QED
      BY <1>6, <3>1
  <2> QED
    BY <1>9, <2>1
<1> QED
  BY <1>9, <1>10, <1>11 DEF Link

LEMMA LocalIndexFacts ==
  ASSUME NEW c, c.localCount \in Nat, NEW v
  PROVE  /\ LocalIndex(c, v) \in 0..c.localCount
         /\ LocalIndex(c, v) # 0 => c.locals[LocalIndex(c, v)].name = v
         /\ \A i \in 1..c.localCount : c.locals[i].name = v =>
              i <= LocalIndex(c, v) /\ LocalIndex(c, v) # 0
<1>1. PICK S : S = {i \in 1..c.localCount : c.locals[i].name = v}
  OBVIOUS
<1>2. S \subseteq 1..c.localCount
  BY <1>1
<1>3. /\ Largest(S) \in 0..c.localCount /\ (S = {} => Largest(S) = 0)
      /\ S # {} => Largest(S) \in S /\ \A y \in S : y <= Largest(S)
  BY <1>2, LargestFacts
<1>4. LocalIndex(c, v) = Largest(S)
  BY <1>1 DEF LocalIndex
<1> QED
  BY <1>1, <1>2, <1>3, <1>4

LEMMA HolderFacts ==
  ASSUME NEW v, Fn \in Nat
  PROVE  /\ Holder(v) \in 0..Fn
         /\ Holder(v) # 0 => LocalIndex(compilers[Holder(v)], v) # 0
         /\ \A f \in 1..Fn : LocalIndex(compilers[f], v) # 0 => f <= Holder(v) /\ Holder(v) # 0
<1>1. PICK S : S = {f \in 1..Fn : LocalIndex(compilers[f], v) # 0}
  OBVIOUS
<1>2. S \subseteq 1..Fn
  BY <1>1
<1>3. /\ Largest(S) \in 0..Fn /\ (S = {} => Largest(S) = 0)
      /\ S # {} => Largest(S) \in S /\ \A y \in S : y <= Largest(S)
  BY <1>2, LargestFacts
<1>4. Holder(v) = Largest(S)
  BY <1>1 DEF Holder
<1> QED
  BY <1>1, <1>2, <1>3, <1>4

LEMMA MarkCapturedFacts ==
  ASSUME NEW c \in CompilerType, c.localCount \in 1..Len(c.locals), NEW i \in 1..c.localCount
  PROVE  /\ MarkCaptured(c, i) \in CompilerType /\ Resolving(MarkCaptured(c, i), c)
         /\ MarkCaptured(c, i).upvalues = c.upvalues
         /\ MarkCaptured(c, i).locals[i].captured
<1>1. PICK l, k : l = c.locals /\ k = c.localCount
  OBVIOUS
<1>2. l \in Seq(LocalType) /\ k \in Nat /\ Len(l) \in Nat /\ i \in 1..Len(l) /\ i \in 1..k
  <2>1. l \in Seq(LocalType) /\ k \in Nat
    BY <1>1 DEF CompilerType
  <2> QED
    BY <1>1, <2>1
<1>3. PICK w : w = [l[i] EXCEPT !.captured = TRUE]
  OBVIOUS
<1>4. l[i] \in LocalType
  BY <1>2
<1>5. w \in LocalType /\ w.captured /\ w.name = l[i].name /\ w.depth = l[i].depth
  BY <1>3, <1>4 DEF LocalType
<1>6. PICK q : q = [l EXCEPT ![i] = w]
  OBVIOUS
<1>7. /\ q \in Seq(LocalType) /\ Len(q) = Len(l) /\ q[i] = w
      /\ \A j \in 1..Len(l) : j # i => q[j] = l[j]
  BY <1>2, <1>5, <1>6
<1>8. PICK d : d = [c EXCEPT !.locals = q]
  OBVIOUS
<1>9. MarkCaptured(c, i) = d
  BY <1>1, <1>3, <1>6, <1>8 DEF MarkCaptured
<1>10. /\ d \in CompilerType /\ d.locals = q /\ d.localCount = k /\ d.scopeDepth = c.scopeDepth
       /\ d.upvalues = c.upvalues /\ SameLoop(d, c)
  BY <1>1, <1>7, <1>8 DEF CompilerType, SameLoop
<1>11. ASSUME NEW j \in 1..k
       PROVE  /\ q[j].name = l[j].name /\ q[j].depth = l[j].depth
              /\ l[j].captured => q[j].captured
  <2>1. j \in 1..Len(l)
    BY <1>1, <1>2
  <2> QED
    BY <1>5, <1>7, <2>1
<1> QED
  BY <1>1, <1>5, <1>7, <1>9, <1>10, <1>11 DEF Resolving

(* compiler f after the variable v of function h has been read in another *)
Reads(cs, v, h, f) ==
  /\ f < h => cs[f] = compilers[f]
  /\ f = h => cs[f] = MarkCaptured(compilers[h], LocalIndex(compilers[h], v))
  /\ f > h => cs[f] = [compilers[f] EXCEPT !.upvalues = Resolved(v)[f].upvalues]

IsChain(cs, n) == cs = [f \in 1..n |-> cs[f]]

LEMMA AfterReadIs ==
  ASSUME NEW dp, Inv(compilers, slots, syntax, dp), NEW v, NEW h, h = Holder(v),
         NEW n, n = Len(compilers), NEW cs, cs = AfterRead(v)
  PROVE  /\ h \in 0..n /\ n \in Nat \ {0}
         /\ IsChain(cs, n)
         /\ h = 0 \/ h = n => cs = compilers
         /\ h # 0 /\ h # n => \A f \in 1..n : Reads(cs, v, h, f)
<1>1. n \in Nat \ {0} /\ Fn = n /\ compilers \in Seq(CompilerType)
  BY Facts DEF Fn, Inv, Typed
<1>2. h \in 0..n
  <2>1. Fn \in Nat
    BY <1>1
  <2> QED
    BY <1>1, <2>1, HolderFacts
<1>3. cs = [f \in 1..n |->
        IF h = 0 \/ h = n \/ f < h THEN compilers[f]
        ELSE IF f = h THEN MarkCaptured(compilers[f], LocalIndex(compilers[f], v))
        ELSE [compilers[f] EXCEPT !.upvalues = Resolved(v)[f].upvalues]]
  BY <1>1 DEF AfterRead
<1>4. ASSUME h = 0 \/ h = n PROVE cs = compilers
  <2>1. cs = [f \in 1..n |-> compilers[f]]
    BY <1>3, <1>4
  <2> QED
    BY <1>1, <2>1
<1>5. ASSUME h # 0, h # n, NEW f \in 1..n
      PROVE  Reads(cs, v, h, f)
  <2>1. f < h => cs[f] = compilers[f]
    BY <1>3, <1>5
  <2>2. f = h => cs[f] = MarkCaptured(compilers[h], LocalIndex(compilers[h], v))
    BY <1>1, <1>2, <1>3, <1>5
  <2>3. f > h => cs[f] = [compilers[f] EXCEPT !.upvalues = Resolved(v)[f].upvalues]
    <3>1. f > h => ~(f < h) /\ f # h
      BY <1>1, <1>2
    <3> QED
      BY <1>3, <1>5, <3>1
  <2> QED
    BY <2>1, <2>2, <2>3 DEF Reads
<1>6. IsChain(cs, n)
  BY <1>3 DEF IsChain
<1> QED
  BY <1>1, <1>2, <1>4, <1>5, <1>6

(* what resolveUpvalue makes of the compilers after the holder *)
LEMMA ResolvedFacts ==
  ASSUME NEW dp, Inv(compilers, slots, syntax, dp), NEW v, NEW h, h = Holder(v),
         NEW n, n = Len(compilers), h # 0, NEW i, i = LocalIndex(compilers[h], v)
  PROVE  /\ h \in 1..n /\ i \in 1..compilers[h].localCount
         /\ compilers[h].locals[i].name = v
         /\ \A f \in (h + 1)..n : Link(Resolved(v), compilers, h, i, f)
<1>1. n \in Nat \ {0} /\ Fn = n
  BY Facts DEF Fn
<1>2. h \in 1..n /\ i # 0
  <2>1. Fn \in Nat
    BY <1>1
  <2>2. h \in 0..n /\ i # 0
    BY <1>1, <2>1, HolderFacts
  <2> QED
    BY <1>1, <2>2
<1>3. compilers[h].localCount \in Nat
  BY <1>2, Facts DEF CompilerType
<1>4. i \in 1..compilers[h].localCount /\ compilers[h].locals[i].name = v
  <2>1. i \in 0..compilers[h].localCount /\ compilers[h].locals[i].name = v
    BY <1>2, <1>3, LocalIndexFacts
  <2> QED
    BY <1>2, <1>3, <2>1
<1>5. h \in Nat /\ i \in Nat /\ n \in Nat /\ n >= h
  BY <1>1, <1>2, <1>3, <1>4
<1>6. PICK g : g = Resolved(v)
  OBVIOUS
<1>7. Resolves(g, compilers, h, i, n)
  BY <1>1, <1>5, <1>6, ResolvedIs
<1>8. ASSUME NEW f \in (h + 1)..n PROVE compilers[f].upvalues \in Seq(UpvalueType)
  <2>1. f \in 1..n
    BY <1>5
  <2> QED
    BY <2>1, Facts DEF CompilerType, UpvalueType
<1>9. ASSUME NEW f \in (h + 1)..n
      PROVE  Link(g, compilers, h, i, f)
  <2>1. PICK m : m = n
    OBVIOUS
  <2>2. /\ m \in Nat /\ Resolves(g, compilers, h, i, m) /\ f \in (h + 1)..m
        /\ \A k \in (h + 1)..m : compilers[k].upvalues \in Seq(UpvalueType)
    BY <1>5, <1>7, <1>8, <2>1
  <2> QED
    BY <1>5, <2>2, ChainFacts
<1> QED
  BY <1>2, <1>4, <1>6, <1>9

LEMMA ReadVariableKeeps ==
  ASSUME NEW v \in Name
  PROVE  SInv /\ ReadVariable(v) => SInv'
<1> SUFFICES ASSUME SInv, ReadVariable(v) PROVE SInv'
  OBVIOUS
<1>1. PICK dp \in Seq(Nat) : Inv(compilers, slots, syntax, dp) /\ Grammar(syntax, dp)
  BY DEF SInv
<1>2. PICK n, h, cs, g : /\ n = Len(compilers) /\ h = Holder(v) /\ cs = AfterRead(v)
                         /\ g = Resolved(v)
  OBVIOUS
<1>3. compilers' = cs /\ slots' = slots /\ syntax' = syntax /\ lost' = {}
  BY <1>2 DEF ReadVariable, SInv
<1>4. /\ h \in 0..n /\ n \in Nat \ {0} /\ IsChain(cs, n)
      /\ h = 0 \/ h = n => cs = compilers
  BY <1>1, <1>2, AfterReadIs
<1>5. CASE h = 0 \/ h = n
  BY <1>1, <1>3, <1>4, <1>5, Concluded
<1>6. CASE h # 0 /\ h # n
  <2>1. PICK i : i = LocalIndex(compilers[h], v)
    OBVIOUS
  <2>2. h \in 1..n /\ h < n /\ i \in 1..compilers[h].localCount
    <3>1. h \in 1..n /\ h < n
      BY <1>4, <1>6
    <3> QED
      BY <1>1, <1>2, <1>6, <2>1, <3>1, ResolvedFacts
  <2>3. ASSUME NEW f \in 1..n
        PROVE  /\ compilers[f] \in CompilerType
               /\ compilers[f].localCount \in 1..Len(compilers[f].locals)
               /\ compilers[f].upvalues \in Seq(UpvalueType)
    BY <1>1, <1>2, Facts DEF CompilerType, UpvalueType
  <2>4. ASSUME NEW f \in 1..n
        PROVE  /\ f < h => cs[f] = compilers[f]
               /\ f = h => cs[f] = MarkCaptured(compilers[h], i)
               /\ f > h => cs[f] = [compilers[f] EXCEPT !.upvalues = g[f].upvalues]
    <3>1. Reads(cs, v, h, f)
      BY <1>1, <1>2, <1>6, AfterReadIs
    <3> QED
      BY <1>2, <2>1, <3>1 DEF Reads
  <2>5. ASSUME NEW f \in (h + 1)..n
        PROVE  /\ g[f].upvalues \in Seq(UpvalueType)
               /\ \A u \in Elements(g[f].upvalues) :
                    \/ u \in Elements(compilers[f].upvalues) \/ ~u.isLocal
                    \/ f = h + 1 /\ u.index = i
    <3>1. Link(g, compilers, h, i, f)
      BY <1>1, <1>2, <1>6, <2>1, ResolvedFacts
    <3> QED
      BY <3>1 DEF Link
  <2>6. /\ MarkCaptured(compilers[h], i) \in CompilerType
        /\ Resolving(MarkCaptured(compilers[h], i), compilers[h])
        /\ MarkCaptured(compilers[h], i).upvalues = compilers[h].upvalues
        /\ MarkCaptured(compilers[h], i).locals[i].captured
    BY <2>2, <2>3, MarkCapturedFacts
  <2>7. ASSUME NEW f \in 1..n
        PROVE  /\ cs[f] \in CompilerType /\ Resolving(cs[f], compilers[f])
               /\ f <= h => cs[f].upvalues = compilers[f].upvalues
               /\ f > h => cs[f].upvalues = g[f].upvalues
    <3>1. CASE f < h
      <4>1. cs[f] = compilers[f]
        BY <2>4, <3>1
      <4>2. Resolving(compilers[f], compilers[f])
        BY DEF Resolving, SameLoop
      <4> QED
        BY <2>2, <2>3, <3>1, <4>1, <4>2
    <3>2. CASE f = h
      <4>1. PICK a : a = MarkCaptured(compilers[h], i)
        OBVIOUS
      <4>2. cs[f] = a
        BY <2>4, <3>2, <4>1
      <4>3. a \in CompilerType /\ Resolving(a, compilers[f]) /\ a.upvalues = compilers[f].upvalues
        BY <2>6, <3>2, <4>1
      <4>4. f <= h /\ ~(f > h)
        BY <2>2, <3>2
      <4> QED
        BY <4>2, <4>3, <4>4
    <3>3. CASE f > h
      <4>1. f \in (h + 1)..n
        BY <2>2, <3>3
      <4>2. PICK us : us = g[f].upvalues
        OBVIOUS
      <4>3. us \in Seq(UpvalueType)
        BY <2>5, <4>1, <4>2
      <4>4. cs[f] = [compilers[f] EXCEPT !.upvalues = us]
        BY <2>4, <3>3, <4>2
      <4>5. cs[f] \in CompilerType /\ cs[f].upvalues = us
        BY <2>3, <4>3, <4>4 DEF CompilerType, UpvalueType
      <4>6. Resolving(cs[f], compilers[f])
        BY <2>3, <4>4 DEF Resolving, SameLoop, CompilerType
      <4> QED
        BY <2>2, <3>3, <4>2, <4>5, <4>6
    <3>4. f < h \/ f = h \/ f > h
      BY <2>2
    <3> QED
      BY <3>1, <3>2, <3>3, <3>4
  <2>8. cs \in Seq(CompilerType) /\ Len(cs) = n
    <3>1. cs \in [1..n -> CompilerType]
      BY <1>4, <2>7 DEF IsChain
    <3> QED
      BY <1>4, <3>1, SeqIs
  <2>9. cs[1].upvalues = <<>>
    <3>1. 1 \in 1..n /\ 1 <= h
      BY <1>4, <2>2
    <3>2. compilers[1].upvalues = <<>>
      BY <1>1 DEF Inv, Marked
    <3> QED
      BY <2>7, <3>1, <3>2
  <2>10. ASSUME NEW f \in 1..n, NEW u \in Elements(cs[f].upvalues), u.isLocal
         PROVE  \/ u \in Elements(compilers[f].upvalues)
                \/ /\ f >= 2 /\ u.index \in 1..compilers[f - 1].localCount
                   /\ cs[f - 1].locals[u.index].captured
    <3>1. CASE f <= h
      BY <2>7, <2>10, <3>1
    <3>2. CASE f > h
      <4>1. f \in (h + 1)..n
        BY <2>2, <3>2
      <4>2. u \in Elements(g[f].upvalues)
        BY <2>7, <2>10, <3>2
      <4>3. u \in Elements(compilers[f].upvalues) \/ (f = h + 1 /\ u.index = i)
        BY <2>5, <2>10, <4>1, <4>2
      <4>4. CASE f = h + 1 /\ u.index = i
        <5>1. f - 1 = h /\ f >= 2
          BY <2>2, <4>4
        <5>2. cs[h].locals[i].captured
          BY <2>2, <2>4, <2>6
        <5> QED
          BY <2>2, <4>4, <5>1, <5>2
      <4> QED
        BY <4>3, <4>4
    <3> QED
      BY <2>2, <3>1, <3>2
  <2>11. Inv(cs, slots, syntax, dp)
    BY <1>1, <1>2, <2>7, <2>8, <2>9, <2>10, ReadKeeps
  <2> QED
    BY <1>1, <1>3, <2>11, Concluded
<1> QED
  BY <1>5, <1>6

-----------------------------------------------------------------------------
(* What the invariant says *)

LEMMA NextKeeps == SInv /\ [LoopNext]_vars => SInv'
<1> SUFFICES ASSUME SInv, [LoopNext]_vars PROVE SInv'
  OBVIOUS
<1>1. CASE Blocks
  <2>1. CASE BeginBlock
    BY <2>1, BeginBlockKeeps
  <2>2. CASE EndBlock
    BY <2>2, EndBlockKeeps
  <2>3. CASE \E n \in Name : DeclareVariable(n) \/ ReadVariable(n)
    BY <2>3, DeclareVariableKeeps, ReadVariableKeeps
  <2> QED
    BY <1>1, <2>1, <2>2, <2>3 DEF Blocks
<1>2. CASE Functions
  <2>1. CASE \E p \in Parameters : BeginFunction("lambda", Unnamed, p)
    BY <2>1, BeginLambdaKeeps
  <2>2. CASE \E kind \in {"function", "initializer"}, n \in Name : BeginFunction(kind, n, {})
    BY <2>2, BeginDeclaredKeeps
  <2>3. CASE EndFunction
    BY <2>3, EndFunctionKeepsSInv
  <2> QED
    BY <1>2, <2>1, <2>2, <2>3 DEF Functions
<1>3. CASE LoopStatements
  <2>1. CASE BeginWhile
    BY <2>1, BeginWhileKeeps
  <2>2. CASE EndWhile
    BY <2>2, EndWhileKeeps
  <2>3. CASE \E names \in Parameters : BeginFor(names)
    BY <2>3, BeginForKeeps
  <2>4. CASE EndFor
    BY <2>4, EndForKeeps
  <2>5. CASE Break
    BY <2>5, BreakKeeps
  <2>6. CASE Continue
    BY <2>6, ContinueKeeps
  <2> QED
    BY <1>3, <2>1, <2>2, <2>3, <2>4, <2>5, <2>6 DEF LoopStatements
<1>4. CASE UNCHANGED vars
  <2>1. PICK dp \in Seq(Nat) : Inv(compilers, slots, syntax, dp) /\ Grammar(syntax, dp)
    BY DEF SInv
  <2>2. /\ compilers' = compilers /\ slots' = slots /\ syntax' = syntax /\ lost' = lost
    BY <1>4 DEF vars
  <2>3. lost' = {}
    BY <2>2 DEF SInv
  <2> QED
    BY <2>1, <2>2, <2>3, Concluded
<1> QED
  BY <1>1, <1>2, <1>3, <1>4 DEF LoopNext

(* Without switch statements the compiler's records and the stack that its *)
(* code builds stay in step: the inductive invariant.                      *)
THEOREM ScopesInvariant == LoopSpec => []SInv
<1>1. Init => SInv
  BY InitSInv
<1>2. SInv /\ [LoopNext]_vars => SInv'
  BY NextKeeps
<1> QED
  BY <1>1, <1>2, PTL DEF LoopSpec

LEMMA SlotsImplied == SInv => LocalsAreSlots
<1> SUFFICES ASSUME SInv, NEW f \in 1..Fn
             PROVE  /\ Len(slots[f]) = compilers[f].localCount
                    /\ \A i \in 1..Len(slots[f]) :
                         slots[f][i].var.name = compilers[f].locals[i].name
  BY DEF LocalsAreSlots
<1>1. PICK dp \in Seq(Nat) : Inv(compilers, slots, syntax, dp) /\ Grammar(syntax, dp)
  BY DEF SInv
<1>2. Framed(compilers[f], slots[f], syntax, dp, f, Len(compilers))
  BY <1>1, Facts DEF Fn
<1> QED
  BY <1>2 DEF Framed

LEMMA LandingImplied == SInv => JumpsLand
<1> SUFFICES ASSUME SInv PROVE JumpsLand
  OBVIOUS
<1>1. PICK dp \in Seq(Nat) : Inv(compilers, slots, syntax, dp) /\ Grammar(syntax, dp)
  BY DEF SInv
<1>2. ASSUME NEW k \in Loops
      PROVE  /\ \A b \in syntax[k].breaks : b.fn = syntax[k].fn => b.stack = syntax[k].entry
             /\ \A c \in syntax[k].continues : c.start = k /\ c.stack = syntax[k].entry
  <2>1. k \in 1..Len(syntax) /\ syntax[k].kind \in LoopKinds
    BY <1>1, OnlyLoops
  <2>2. EnteredAt(slots[syntax[k].fn], syntax[k], k)
    BY <1>1, <2>1 DEF Inv, Entered
  <2> QED
    BY <2>2 DEF EnteredAt
<1>3. ASSUME Top.kind = "while" PROVE Vars(Stack) = Top.entry
  <2>1. PICK L, s, e : L = Len(syntax) /\ s = Stack /\ e = Top.entry
    OBVIOUS
  <2>2. /\ L \in 1..L /\ L \in Nat /\ Top = syntax[L] /\ s = slots[Top.fn]
        /\ Top \in ConstructType /\ s \in Seq(SlotType) /\ Top.fn \in 1..Len(compilers)
    BY <1>1, <2>1, StateFacts
  <2>3. EnteredAt(s, Top, L)
    BY <1>1, <1>3, <2>1, <2>2 DEF Inv, Entered, LoopKinds
  <2>4. /\ Len(e) <= Len(s) /\ \A i \in 1..Len(s) : i <= Len(e) <=> s[i].var.scope <= L
        /\ \A i \in 1..Len(e) : e[i] = s[i].var
    BY <2>1, <2>3 DEF EnteredAt
  <2>5. \A i \in 1..Len(s) : s[i].var.scope \in 0..L
    BY <1>1, <2>1, <2>2, Facts
  <2>6. e \in Seq(VarType) /\ Len(e) \in Nat /\ Len(s) \in Nat
    BY <2>1, <2>2 DEF ConstructType
  <2>7. \A i \in 1..Len(s) : i <= Len(e)
    <3>1. \A x \in 0..L : x <= L
      BY <2>2
    <3> QED
      BY <2>4, <2>5, <3>1
  <2>8. Len(e) = Len(s)
    BY <2>4, <2>6, <2>7
  <2>9. Vars(s) \in Seq(VarType) /\ Len(Vars(s)) = Len(s) /\ \A i \in 1..Len(s) : Vars(s)[i] = s[i].var
    <3>1. Vars(s) = [i \in 1..Len(s) |-> s[i].var]
      BY DEF Vars
    <3>2. \A i \in 1..Len(s) : s[i] \in SlotType
      BY <2>2
    <3>3. Vars(s) \in [1..Len(s) -> VarType]
      BY <3>1, <3>2 DEF SlotType
    <3> QED
      BY <2>6, <3>1, <3>3, SeqIs
  <2> QED
    BY <2>1, <2>4, <2>6, <2>8, <2>9, Sames
<1> QED
  BY <1>2, <1>3 DEF JumpsLand

(* The index of a local is its slot on the stack that the emitted code     *)
(* builds, whatever blocks, functions, loops and jumps came before.        *)
THEOREM LocalsAreTheirSlots == LoopSpec => []LocalsAreSlots
BY ScopesInvariant, SlotsImplied, PTL

(* A loop goes round with the stack it started with: at the end of its     *)
(* body, at every continue, and after it at every break of its function.   *)
THEOREM EveryJumpLands == LoopSpec => []JumpsLand
BY ScopesInvariant, LandingImplied, PTL

(* No OP_POP takes a captured variable off the stack: endScope and the     *)
(* jumps emit OP_CLOSE_UPVALUE for every one.                              *)
THEOREM NoCapturedIsLost == LoopSpec => []NoneLost
<1>1. SInv => NoneLost
  BY DEF SInv, NoneLost
<1> QED
  BY <1>1, ScopesInvariant, PTL

-----------------------------------------------------------------------------
(* What a name reaches *)

(* the local that a name means is the innermost variable of that name *)
LEMMA HolderDeclares ==
  ASSUME NEW dp, Inv(compilers, slots, syntax, dp), NEW v \in Name,
         NEW h, h = Holder(v), NEW D, D = Declarer(v),
         NEW i, i = LocalIndex(compilers[h], v)
  PROVE  /\ h = 0 <=> D = 0
         /\ h # 0 => h \in 1..Len(compilers) /\ i \in 1..Len(slots[h])
                     /\ slots[h][i].var = Variable(v, D)
<1>1. PICK L, n : L = Len(syntax) /\ n = Len(compilers)
  OBVIOUS
<1>2. /\ L \in Nat \ {0} /\ n \in Nat \ {0} /\ Fn = n
      /\ \A k \in 1..L : syntax[k].fn \in 1..n
      /\ \A f \in 1..n : /\ slots[f] \in Seq(SlotType) /\ Len(slots[f]) = compilers[f].localCount
                         /\ Framed(compilers[f], slots[f], syntax, dp, f, n)
  BY <1>1, Facts DEF Fn
<1>3. ASSUME NEW f \in 1..n PROVE compilers[f].localCount \in Nat /\ Len(slots[f]) \in Nat
  BY <1>1, <1>2, Facts DEF CompilerType
<1>4. /\ h \in 0..n /\ (h # 0 => i # 0)
      /\ \A f \in 1..n : LocalIndex(compilers[f], v) # 0 => f <= h /\ h # 0
  <2>1. Fn \in Nat
    BY <1>2
  <2> QED
    BY <1>2, <2>1, HolderFacts
<1>5. PICK S : S = {k \in 1..L : v \in syntax[k].names}
  OBVIOUS
<1>6. /\ D \in 0..L /\ (S = {} => D = 0) /\ (S # {} => D \in S /\ \A y \in S : y <= D)
  <2>1. S \subseteq 1..L /\ L \in Nat
    BY <1>2, <1>5
  <2>2. D = Largest(S)
    BY <1>1, <1>5 DEF Declarer
  <2>3. /\ Largest(S) \in 0..L /\ (S = {} => Largest(S) = 0)
        /\ (S # {} => Largest(S) \in S /\ \A y \in S : y <= Largest(S))
    BY <2>1, LargestFacts
  <2> QED
    BY <2>2, <2>3
(* what is declared is found *)
<1>7. ASSUME NEW k \in S
      PROVE  /\ syntax[k].fn \in 1..n /\ syntax[k].fn <= h /\ h # 0
             /\ \E j \in 2..Len(slots[syntax[k].fn]) :
                  /\ slots[syntax[k].fn][j].var = Variable(v, k)
                  /\ j <= LocalIndex(compilers[syntax[k].fn], v)
  <2>1. k \in 1..L /\ v \in syntax[k].names
    BY <1>5
  <2>2. PICK f : f = syntax[k].fn
    OBVIOUS
  <2>3. f \in 1..n
    BY <1>2, <2>1, <2>2
  <2>4. PICK j \in 2..Len(slots[f]) : slots[f][j].var = Variable(v, k)
    BY <1>1, <2>1, <2>2 DEF Inv, Named
  <2>5. Framed(compilers[f], slots[f], syntax, dp, f, n) /\ Len(slots[f]) = compilers[f].localCount
        /\ Len(slots[f]) \in Nat
    BY <1>2, <1>3, <2>3
  <2>6. j \in 1..Len(slots[f])
    BY <2>4, <2>5
  <2>7. compilers[f].locals[j].name = v
    <3>1. slots[f][j].var.name = compilers[f].locals[j].name
      BY <2>5, <2>6 DEF Framed
    <3> QED
      BY <2>4, <3>1 DEF Variable
  <2>8. j <= LocalIndex(compilers[f], v) /\ LocalIndex(compilers[f], v) # 0
    <3>1. j \in 1..compilers[f].localCount /\ compilers[f].localCount \in Nat
      BY <2>5, <2>6
    <3> QED
      BY <2>7, <3>1, LocalIndexFacts
  <2>9. f <= h /\ h # 0
    BY <1>4, <2>3, <2>8
  <2> QED
    BY <2>2, <2>3, <2>4, <2>8, <2>9
(* what is found is declared *)
<1>8. ASSUME h # 0
      PROVE  /\ h \in 1..n /\ i \in 1..Len(slots[h]) /\ slots[h][i].var.name = v
             /\ slots[h][i].var.scope \in S /\ syntax[slots[h][i].var.scope].fn = h
  <2>1. h \in 1..n
    BY <1>2, <1>4, <1>8
  <2>2. /\ Framed(compilers[h], slots[h], syntax, dp, h, n)
        /\ Len(slots[h]) = compilers[h].localCount /\ Len(slots[h]) \in Nat
        /\ compilers[h].localCount \in Nat
    BY <1>2, <1>3, <2>1
  <2>3. i \in 0..compilers[h].localCount /\ i # 0 /\ compilers[h].locals[i].name = v
    BY <1>4, <1>8, <2>2, LocalIndexFacts
  <2>4. i \in 1..Len(slots[h])
    BY <2>2, <2>3
  <2>5. slots[h][i].var.name = v
    BY <2>2, <2>3, <2>4 DEF Framed
  <2>6. i # 1
    <3>1. Callee.name = Unnamed /\ Unnamed # v
      BY ScopesAssumption DEF Callee, Variable
    <3>2. slots[h][1].var = Callee
      BY <2>2 DEF Framed
    <3> QED
      BY <2>5, <3>1, <3>2
  <2>7. i \in 2..Len(slots[h])
    BY <2>2, <2>4, <2>6
  <2>8. PICK k : k = slots[h][i].var.scope
    OBVIOUS
  <2>9. k \in 1..Len(syntax) /\ syntax[k].fn = h /\ slots[h][i].var.name \in syntax[k].names
    BY <2>2, <2>7, <2>8 DEF Framed
  <2>10. k \in S
    BY <1>1, <1>5, <2>5, <2>9
  <2> QED
    BY <2>1, <2>4, <2>5, <2>8, <2>9, <2>10
<1>9. h = 0 <=> D = 0
  <2>1. S # {} => D \in 1..L /\ h # 0
    BY <1>5, <1>6, <1>7
  <2>2. h # 0 => S # {}
    BY <1>8
  <2>3. S # {} => D # 0
    BY <1>2, <2>1
  <2> QED
    BY <1>6, <2>1, <2>2, <2>3
<1>10. ASSUME h # 0 PROVE slots[h][i].var = Variable(v, D)
  <2>1. PICK k : k = slots[h][i].var.scope
    OBVIOUS
  <2>2. /\ h \in 1..n /\ i \in 1..Len(slots[h]) /\ slots[h][i].var.name = v
        /\ k \in S /\ syntax[k].fn = h
    BY <1>8, <1>10, <2>1
  <2>3. D \in S /\ k <= D
    BY <1>6, <2>2
  <2>4. syntax[D].fn = h
    <3>1. syntax[k].fn <= syntax[D].fn
      BY <1>1, <1>5, <2>2, <2>3 DEF Inv, Tree
    <3>2. syntax[D].fn \in 1..n /\ syntax[D].fn <= h
      BY <1>7, <2>3
    <3> QED
      BY <1>2, <2>2, <3>1, <3>2
  <2>5. PICK j \in 2..Len(slots[h]) : slots[h][j].var = Variable(v, D) /\ j <= i
    BY <1>7, <2>3, <2>4
  <2>6. Len(slots[h]) \in Nat /\ j \in 1..Len(slots[h])
    BY <1>3, <2>2, <2>5
  <2>7. slots[h][j].var.scope <= slots[h][i].var.scope
    BY <1>2, <2>2, <2>5, <2>6 DEF Framed
  <2>8. D <= k
    BY <2>1, <2>5, <2>7 DEF Variable
  <2>9. D = k
    <3>1. D \in Nat /\ k \in Nat
      BY <1>2, <1>5, <2>2, <2>3
    <3> QED
      BY <2>3, <2>8, <3>1
  <2>10. slots[h][i].var \in VarType
    <3>1. slots[h][i] \in SlotType
      BY <1>2, <2>2
    <3> QED
      BY <3>1 DEF SlotType
  <2> QED
    BY <2>1, <2>2, <2>9, <2>10 DEF VarType, Variable
<1> QED
  BY <1>1, <1>8, <1>9, <1>10

(* g is what Reached defines by recursion, for functions 1 to m *)
FrameVar(f, i) == IF i \in 1..Len(slots[f]) THEN slots[f][i].var ELSE Callee
Layer(below, cs, f) ==
  [j \in 1..Len(cs[f].upvalues) |->
     IF cs[f].upvalues[j].isLocal THEN FrameVar(f - 1, cs[f].upvalues[j].index)
     ELSE below[cs[f].upvalues[j].index]]
Through(g, cs, m) == g = [f \in 1..m |-> Layer(g[f - 1], cs, f)]

LEMMA NoneBelow ==
  ASSUME NEW cs, cs[1].upvalues = <<>>, NEW a, NEW b
  PROVE  Layer(a, cs, 1) = Layer(b, cs, 1)
<1>1. 1..Len(cs[1].upvalues) = {}
  OBVIOUS
<1> QED
  BY <1>1 DEF Layer

LEMMA ThroughExists ==
  ASSUME NEW cs, cs[1].upvalues = <<>>, NEW m \in Nat
  PROVE  \E g : Through(g, cs, m)
<1>1. PICK S : S = {k \in Nat : ~\E g : Through(g, cs, k)}
  OBVIOUS
<1>2. ASSUME S # {} PROVE FALSE
  <2>1. PICK k \in S : \A j \in S : k <= j
    BY <1>1, <1>2, NaturalsHaveLeast
  <2>2. k \in Nat /\ ~\E g : Through(g, cs, k)
    BY <1>1, <2>1
  <2>3. CASE k = 0
    <3>1. 1..k = {}
      BY <2>3
    <3>2. PICK g : g = [f \in 1..k |-> 0]
      OBVIOUS
    <3>3. Through(g, cs, k)
      BY <3>1, <3>2 DEF Through
    <3> QED
      BY <2>2, <3>3
  <2>4. CASE k # 0
    <3>1. k - 1 \in Nat /\ k - 1 \notin S
      BY <2>1, <2>2, <2>4
    <3>2. PICK g : Through(g, cs, k - 1)
      BY <1>1, <3>1
    <3>3. PICK w : w = Layer(g[k - 1], cs, k)
      OBVIOUS
    <3>4. PICK e : e = [f \in 1..k |-> IF f = k THEN w ELSE g[f]]
      OBVIOUS
    <3>5. ASSUME NEW f \in 1..k PROVE e[f] = Layer(e[f - 1], cs, f)
      <4>1. CASE f = k
        <5>1. e[f] = Layer(g[f - 1], cs, f)
          BY <3>3, <3>4, <4>1
        <5>2. CASE f = 1
          BY <5>1, <5>2, NoneBelow
        <5>3. CASE f # 1
          <6>1. f - 1 \in 1..k /\ f - 1 # k
            BY <2>2, <5>3
          <6>2. e[f - 1] = g[f - 1]
            BY <3>4, <6>1
          <6> QED
            BY <5>1, <6>2
        <5> QED
          BY <5>2, <5>3
      <4>2. CASE f # k
        <5>1. f \in 1..(k - 1)
          BY <2>2, <4>2
        <5>2. e[f] = g[f]
          BY <3>4, <4>2
        <5>3. e[f] = Layer(g[f - 1], cs, f)
          BY <3>2, <5>1, <5>2 DEF Through
        <5>4. CASE f = 1
          BY <5>3, <5>4, NoneBelow
        <5>5. CASE f # 1
          <6>1. f - 1 \in 1..k /\ f - 1 # k
            BY <2>2, <4>2, <5>5
          <6>2. e[f - 1] = g[f - 1]
            BY <3>4, <6>1
          <6> QED
            BY <5>3, <6>2
        <5> QED
          BY <5>4, <5>5
      <4> QED
        BY <4>1, <4>2
    <3>6. Through(e, cs, k)
      BY <3>4, <3>5 DEF Through
    <3> QED
      BY <2>2, <3>6
  <2> QED
    BY <2>3, <2>4
<1> QED
  BY <1>1, <1>2

LEMMA ReachedIs ==
  ASSUME NEW v, NEW cs, cs = AfterRead(v), cs[1].upvalues = <<>>, Fn \in Nat
  PROVE  \E g : /\ Through(g, cs, Fn)
                /\ Reached(v) = IF Holder(v) = Fn THEN FrameVar(Fn, LocalIndex(Current, v))
                                ELSE g[Fn][Resolved(v)[Fn].at]
<1>1. \E g : Through(g, cs, Fn)
  BY ThroughExists
<1>2. Through(CHOOSE g : Through(g, cs, Fn), cs, Fn)
  BY <1>1
<1>3. Reached(v) = IF Holder(v) = Fn THEN FrameVar(Fn, LocalIndex(Current, v))
                   ELSE (CHOOSE g : Through(g, cs, Fn))[Fn][Resolved(v)[Fn].at]
  BY DEF Reached, Through, Layer, FrameVar
<1> QED
  BY <1>2, <1>3

(* Through the chain of upvalues the local of the holder is reached. *)
LEMMA ChainReaches ==
  ASSUME NEW dp, Inv(compilers, slots, syntax, dp), NEW v, NEW h, h = Holder(v),
         NEW n, n = Len(compilers), h # 0, h # n, NEW i, i = LocalIndex(compilers[h], v),
         NEW g, Through(g, AfterRead(v), n)
  PROVE  g[n][Resolved(v)[n].at] = FrameVar(h, i)
<1>1. PICK cs, r : cs = AfterRead(v) /\ r = Resolved(v)
  OBVIOUS
<1>2. /\ h \in 1..n /\ n \in Nat /\ h < n
      /\ \A f \in (h + 1)..n : Link(r, compilers, h, i, f)
  <2>1. h \in 1..n /\ \A f \in (h + 1)..n : Link(r, compilers, h, i, f)
    BY <1>1, ResolvedFacts
  <2>2. n \in Nat
    BY Facts
  <2> QED
    BY <2>1, <2>2
<1>3. ASSUME NEW f \in (h + 1)..n PROVE cs[f].upvalues = r[f].upvalues
  <2>1. f \in 1..n /\ f > h
    BY <1>2
  <2>2. Reads(cs, v, h, f)
    BY <1>1, <2>1, AfterReadIs
  <2>3. cs[f] = [compilers[f] EXCEPT !.upvalues = r[f].upvalues]
    BY <1>1, <2>1, <2>2 DEF Reads
  <2>4. compilers[f] \in CompilerType
    BY <2>1, Facts
  <2> QED
    BY <2>3, <2>4 DEF CompilerType
<1>4. ASSUME NEW f \in (h + 1)..n
      PROVE  g[f][r[f].at] = IF f = h + 1 THEN FrameVar(h, i) ELSE g[f - 1][r[f - 1].at]
  <2>1. PICK us, a, u : us = r[f].upvalues /\ a = r[f].at /\ u = r[f].upvalues[r[f].at]
    OBVIOUS
  <2>2. a \in 1..Len(us) /\ u = us[a]
        /\ u = IF f = h + 1 THEN [index |-> i, isLocal |-> TRUE]
               ELSE [index |-> r[f - 1].at, isLocal |-> FALSE]
    BY <1>2, <2>1 DEF Link
  <2>3. f \in 1..n
    BY <1>2
  <2>4. g[f] = [j \in 1..Len(us) |-> IF us[j].isLocal THEN FrameVar(f - 1, us[j].index)
                                      ELSE g[f - 1][us[j].index]]
    <3>1. g[f] = Layer(g[f - 1], cs, f)
      BY <1>1, <2>3 DEF Through
    <3>2. cs[f].upvalues = us
      BY <1>3, <2>1
    <3> QED
      BY <3>1, <3>2 DEF Layer
  <2>5. g[f][a] = IF u.isLocal THEN FrameVar(f - 1, u.index) ELSE g[f - 1][u.index]
    BY <2>2, <2>4
  <2>6. CASE f = h + 1
    <3>1. u.isLocal /\ u.index = i /\ f - 1 = h
      BY <1>2, <2>2, <2>6
    <3> QED
      BY <2>1, <2>5, <2>6, <3>1
  <2>7. CASE f # h + 1
    <3>1. ~u.isLocal /\ u.index = r[f - 1].at
      BY <2>2, <2>7
    <3> QED
      BY <2>1, <2>5, <2>7, <3>1
  <2> QED
    BY <2>6, <2>7
<1>5. PICK S : S = {f \in (h + 1)..n : g[f][r[f].at] # FrameVar(h, i)}
  OBVIOUS
<1>6. S = {}
  <2>1. ASSUME S # {} PROVE FALSE
    <3>1. S \subseteq Nat
      BY <1>2, <1>5
    <3>2. PICK f \in S : \A j \in S : f <= j
      BY <2>1, <3>1, NaturalsHaveLeast
    <3>3. f \in (h + 1)..n /\ g[f][r[f].at] # FrameVar(h, i)
      BY <1>5, <3>2
    <3>4. f # h + 1
      BY <1>4, <3>3
    <3>5. f - 1 \in (h + 1)..n /\ f - 1 \notin S
      BY <1>2, <3>1, <3>2, <3>3, <3>4
    <3>6. g[f - 1][r[f - 1].at] = FrameVar(h, i)
      BY <1>5, <3>5
    <3> QED
      BY <1>4, <3>3, <3>4, <3>6
  <2> QED
    BY <2>1
<1>7. n \in (h + 1)..n
  BY <1>2
<1> QED
  BY <1>1, <1>5, <1>6, <1>7

LEMMA ReadsImplied == SInv => ReadsInnermost
<1> SUFFICES ASSUME SInv, NEW v \in Name
             PROVE  IF Declarer(v) = 0 THEN Holder(v) = 0
                    ELSE Holder(v) # 0 /\ Reached(v) = Variable(v, Declarer(v))
  BY DEF ReadsInnermost
<1>1. PICK dp \in Seq(Nat) : Inv(compilers, slots, syntax, dp) /\ Grammar(syntax, dp)
  BY DEF SInv
<1>2. PICK n, h, D, i, cs : /\ n = Len(compilers) /\ h = Holder(v) /\ D = Declarer(v)
                            /\ i = LocalIndex(compilers[Holder(v)], v) /\ cs = AfterRead(v)
  OBVIOUS
<1>3. /\ h = 0 <=> D = 0
      /\ h # 0 => h \in 1..n /\ i \in 1..Len(slots[h]) /\ slots[h][i].var = Variable(v, D)
  BY <1>1, <1>2, HolderDeclares
<1>4. CASE h = 0
  BY <1>2, <1>3, <1>4
<1>5. CASE h # 0
  <2>1. FrameVar(h, i) = Variable(v, D)
    BY <1>3, <1>5 DEF FrameVar
  <2>2. cs[1].upvalues = <<>> /\ Fn \in Nat /\ Fn = n
    <3>1. n \in Nat \ {0} /\ Fn = n
      BY <1>1, <1>2, Facts DEF Fn
    <3>2. compilers[1].upvalues = <<>>
      BY <1>1 DEF Inv, Marked
    <3>3. CASE h = n
      <4>1. cs = compilers
        <5>1. h = 0 \/ h = n => cs = compilers
          BY <1>1, <1>2, AfterReadIs
        <5> QED
          BY <3>3, <5>1
      <4> QED
        BY <3>1, <3>2, <4>1
    <3>4. CASE h # n
      <4>1. 1 \in 1..n /\ (1 < h \/ 1 = h)
        BY <1>3, <1>5, <3>1
      <4>2. Reads(cs, v, h, 1)
        BY <1>1, <1>2, <1>5, <3>4, <4>1, AfterReadIs
      <4>3. CASE 1 < h
        <5>1. cs[1] = compilers[1]
          BY <4>2, <4>3 DEF Reads
        <5> QED
          BY <3>1, <3>2, <5>1
      <4>4. CASE 1 = h
        <5>1. compilers[h] \in CompilerType /\ compilers[h].localCount \in 1..Len(compilers[h].locals)
          BY <1>1, <1>2, <1>3, <1>5, Facts
        <5>2. i \in 1..compilers[h].localCount
          BY <1>1, <1>2, <1>5, ResolvedFacts
        <5>3. MarkCaptured(compilers[h], i).upvalues = compilers[h].upvalues
          BY <5>1, <5>2, MarkCapturedFacts
        <5> QED
          <6>1. cs[1] = MarkCaptured(compilers[h], LocalIndex(compilers[h], v))
            BY <4>2, <4>4 DEF Reads
          <6>2. cs[1].upvalues = compilers[h].upvalues
            BY <1>2, <5>3, <6>1
          <6> QED
            BY <3>1, <3>2, <4>4, <6>2
      <4> QED
        BY <4>1, <4>3, <4>4
    <3> QED
      BY <3>1, <3>3, <3>4
  <2>3. PICK g : /\ Through(g, cs, n)
                 /\ Reached(v) = IF h = n THEN FrameVar(n, LocalIndex(Current, v))
                                 ELSE g[n][Resolved(v)[n].at]
    BY <1>2, <2>2, ReachedIs
  <2>4. CASE h = n
    <3>1. LocalIndex(Current, v) = i
      BY <1>2, <2>2, <2>4 DEF Current
    <3> QED
      BY <1>2, <1>3, <1>5, <2>1, <2>3, <2>4, <3>1
  <2>5. CASE h # n
    <3>1. g[n][Resolved(v)[n].at] = FrameVar(h, i)
      BY <1>1, <1>2, <1>5, <2>3, <2>5, ChainReaches
    <3> QED
      BY <1>2, <1>3, <1>5, <2>1, <2>3, <2>5, <3>1
  <2> QED
    BY <2>4, <2>5
<1> QED
  BY <1>4, <1>5

(* A name that resolveLocal and resolveUpvalue find is the innermost       *)
(* variable of that name, through whatever chain of upvalues, and one that *)
(* they do not find is declared nowhere around.                            *)
THEOREM NamesReachInnermost == LoopSpec => []ReadsInnermost
BY ScopesInvariant, ReadsImplied, PTL

=============================================================================
