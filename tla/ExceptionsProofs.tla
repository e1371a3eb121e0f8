--------------------------- MODULE ExceptionsProofs ---------------------------
(***************************************************************************)
(* Where an exception lands in vm.c, and what it finds there.              *)
(*                                                                         *)
(* First, the handlers of a frame are those of the try statements around   *)
(* its ip, whatever was thrown before (HInv).  The invariant says it of    *)
(* every path that a handler holds as well, since a throw cuts the         *)
(* handlers at one and makes its path that of the frame.                   *)
(*                                                                         *)
(* Second, the values that the code of a frame counts on are there (CInv): *)
(* as many as it pops, the exception of a catch under its name, and, in a  *)
(* frame that no throw has shifted, each in its place.                     *)
(*                                                                         *)
(* Third, as long as no frame was shifted, an open upvalue is that of a    *)
(* captured local whose block has not ended, or lies below all frames      *)
(* (OInv).                                                                 *)
(***************************************************************************)
EXTENDS Exceptions, SequenceTheorems, WellFoundedInduction, TLAPS

Value ==
  {Callee, Result} \cup Thrown \cup {Flag(b) : b \in BOOLEAN}
    \cup {LocalAt(k, i) : k \in Nat, i \in Nat}
Phases == {"body", "landed", "catch", "finally", "raised", "leaving"}
TryType ==
  [kind : {"try"}, locals : Seq(BOOLEAN), phase : Phases, value : Value,
   class : Class, named : BOOLEAN, final : BOOLEAN]
Construct == [kind : {"block", "loop"}, locals : Seq(BOOLEAN)] \cup TryType
Handler == [class : Class, catch : BOOLEAN, final : BOOLEAN, path : Seq(Construct)]
(* the slots of a frame do not matter to its handlers: they are of any set *)
FrameType(S) ==
  [slots : S, path : Seq(Construct), handlers : Seq(Handler), line : BOOLEAN, left : BOOLEAN]

-----------------------------------------------------------------------------
(* The invariant *)

(* what OP_PUSH_EXCEPTION_HANDLER pushed *)
Pushed(h) ==
  /\ h.path # <<>>
  /\ LET c == h.path[Len(h.path)] IN
     c \in TryType /\ c.class = h.class /\ c.phase = "body" /\ c.locals = <<>>

(* The try statements of a path have handlers, in order, among the first m. *)
Embeds(path, has, m) ==
  \E at \in [Installed(path) -> 1..m] :
    /\ \A i, k \in Installed(path) : i < k => at[i] < at[k]
    /\ \A k \in Installed(path) : has[at[k]].class = path[k].class

(* The handlers were pushed by try statements, and if so, where each was   *)
(* pushed those below were the handlers of the code.                       *)
Rooted(has, so) ==
  \A n \in 1..Len(has) :
    Pushed(has[n]) /\ (so => Embeds(Front(has[n].path), has, n - 1))

(* handler h was pushed by a try statement around the ip *)
Around(h, path) ==
  LET q == Len(h.path) IN
  /\ q \in Installed(path) /\ path[q].class = h.class
  /\ \A i \in 1..(q - 1) : h.path[i] = path[i]

(* The handlers are those of the path, and no others. *)
Exact(path, has) ==
  /\ \A n \in 1..Len(has) : Around(has[n], path)
  /\ \A m, n \in 1..Len(has) : m < n => Len(has[m].path) < Len(has[n].path)
  /\ \A k \in Installed(path) : \E n \in 1..Len(has) : Len(has[n].path) = k

Half(f, mis) == Rooted(f.handlers, ~f.left) /\ (~mis => Exact(f.path, f.handlers))
Whole(f, mis) ==
  Half(f, mis) /\ (~f.left => Embeds(f.path, f.handlers, Len(f.handlers)))

Good(fs, mis) ==
  (\E S : fs \in Seq(FrameType(S))) /\ \A j \in 1..Len(fs) : Whole(fs[j], mis)

(* the frames of a throw, of which the last is about to be left *)
Throwing(fs, mis) ==
  /\ \E S : fs \in Seq(FrameType(S))
  /\ fs # <<>> /\ Half(fs[Len(fs)], mis)
  /\ \A j \in 1..(Len(fs) - 1) : Whole(fs[j], mis)

HInv ==
  /\ Good(frames, misled) /\ misled \in BOOLEAN
  /\ status = "running" => frames # <<>>

-----------------------------------------------------------------------------
(* Sequences and numbers *)

LEMMA NaturalsHaveLeast ==
  ASSUME NEW S, S \subseteq Nat, S # {}
  PROVE  \E i \in S : \A j \in S : i <= j
<1>1. IsWellFoundedOn(OpToRel(<, Nat), Nat)
  BY NatLessThanWellFounded
<1>2. PICK x \in S : \A y \in S : <<y, x>> \notin OpToRel(<, Nat)
  BY <1>1, WFMin
<1>3. \A y \in S : ~(y < x)
  BY <1>2 DEF OpToRel
<1> QED
  BY <1>3

LEMMA AppendFacts ==
  ASSUME NEW S, NEW s \in Seq(S), NEW v \in S
  PROVE  /\ Append(s, v) \in Seq(S) /\ Len(Append(s, v)) = Len(s) + 1 /\ Len(s) \in Nat
         /\ \A i \in 1..Len(s) : Append(s, v)[i] = s[i]
         /\ Append(s, v)[Len(s) + 1] = v
BY AppendProperties

LEMMA PrefixFacts ==
  ASSUME NEW S, NEW s \in Seq(S), NEW m \in 0..Len(s)
  PROVE  /\ SubSeq(s, 1, m) \in Seq(S) /\ Len(SubSeq(s, 1, m)) = m
         /\ \A i \in 1..m : SubSeq(s, 1, m)[i] = s[i]
OBVIOUS

LEMMA LastReplaced ==
  ASSUME NEW S, NEW s \in Seq(S), Len(s) >= 1, NEW v \in S
  PROVE  LET t == [s EXCEPT ![Len(s)] = v] IN
         /\ t \in Seq(S) /\ Len(t) = Len(s) /\ Len(s) \in Nat
         /\ t[Len(s)] = v /\ \A i \in 1..Len(s) : i # Len(s) => t[i] = s[i]
OBVIOUS

LEMMA SeqIs ==
  ASSUME NEW S, NEW m \in Nat, NEW s \in [1..m -> S]
  PROVE  s \in Seq(S) /\ Len(s) = m
OBVIOUS

LEMMA Sames ==
  ASSUME NEW S, NEW s \in Seq(S), NEW t \in Seq(S), Len(s) = Len(t),
         \A i \in 1..Len(s) : s[i] = t[i]
  PROVE  s = t
OBVIOUS

LEMMA FrontFacts ==
  ASSUME NEW S, NEW s \in Seq(S), s # <<>>
  PROVE  /\ Front(s) \in Seq(S) /\ Len(Front(s)) = Len(s) - 1 /\ Len(s) \in Nat /\ Len(s) >= 1
         /\ \A i \in 1..(Len(s) - 1) : Front(s)[i] = s[i]
         /\ Front(s) = SubSeq(s, 1, Len(s) - 1)
<1>1. Len(s) \in Nat /\ Len(s) # 0
  BY EmptySeq, LenProperties
<1>2. PICK m : m = Len(s) - 1
  OBVIOUS
<1>3. m \in 0..Len(s) /\ Front(s) = SubSeq(s, 1, m)
  BY <1>1, <1>2 DEF Front
<1>4. /\ SubSeq(s, 1, m) \in Seq(S) /\ Len(SubSeq(s, 1, m)) = m
      /\ \A i \in 1..m : SubSeq(s, 1, m)[i] = s[i]
  BY <1>3, PrefixFacts
<1> QED
  BY <1>1, <1>2, <1>3, <1>4

LEMMA NaturalsHaveMost ==
  ASSUME NEW b \in Nat, NEW S, S \subseteq 0..b, S # {}
  PROVE  \E i \in S : \A j \in S : j <= i
<1> DEFINE R == {b - y : y \in S}
<1>1. \A y \in S : b - y \in Nat /\ y \in Int
  OBVIOUS
<1>2. R \subseteq Nat /\ R # {}
  BY <1>1
<1> HIDE DEF R
<1>3. PICK r \in R : \A q \in R : r <= q
  BY <1>2, NaturalsHaveLeast
<1>4. PICK i \in S : r = b - i
  BY DEF R
<1>5. ASSUME NEW j \in S PROVE j <= i
  <2>1. b - j \in R
    BY DEF R
  <2>2. r <= b - j
    BY <1>3, <2>1
  <2> QED
    BY <1>1, <1>4, <2>2
<1> QED
  BY <1>5

(* propagateException finds the innermost of the handlers that take it. *)
LEMMA InnermostIs ==
  ASSUME NEW a \in Nat, NEW b \in Nat, NEW S, S \subseteq (1..a) \X (1..b), S # {}
  PROVE  Innermost(S) \in S
<1>1. PICK J : J = {x[1] : x \in S}
  OBVIOUS
<1>2. J \subseteq 0..a /\ J # {}
  BY <1>1
<1>3. PICK j \in J : \A i \in J : i <= j
  BY <1>2, NaturalsHaveMost
<1>4. PICK N : N = {x[2] : x \in {y \in S : y[1] = j}}
  OBVIOUS
<1>5. N \subseteq 0..b /\ N # {}
  BY <1>1, <1>3, <1>4
<1>6. PICK n \in N : \A i \in N : i <= n
  BY <1>5, NaturalsHaveMost
<1>7. PICK x \in S : x[1] = j /\ x[2] = n
  BY <1>4, <1>6
<1>8. ASSUME NEW y \in S PROVE y[1] < x[1] \/ (y[1] = x[1] /\ y[2] <= x[2])
  <2>1. y[1] \in J /\ y[1] \in 1..a /\ y[2] \in 1..b
    BY <1>1
  <2>2. y[1] <= j
    BY <1>3, <2>1
  <2>3. CASE y[1] = j
    <3>1. y[2] \in N
      BY <1>4, <2>3
    <3> QED
      BY <1>6, <1>7, <2>3, <3>1
  <2>4. CASE y[1] # j
    <3>1. j \in 0..a
      BY <1>2
    <3> QED
      BY <1>7, <2>1, <2>2, <2>4, <3>1
  <2> QED
    BY <2>3, <2>4
<1>9. \E z \in S : \A y \in S : y[1] < z[1] \/ (y[1] = z[1] /\ y[2] <= z[2])
  BY <1>8
<1> QED
  BY <1>9 DEF Innermost


LEMMA FrontOfAppend ==
  ASSUME NEW S, NEW s \in Seq(S), NEW v \in S
  PROVE  Front(Append(s, v)) = s
<1>1. PICK t : t = Append(s, v)
  OBVIOUS
<1>2. t \in Seq(S) /\ Len(t) = Len(s) + 1 /\ Len(s) \in Nat /\ \A i \in 1..Len(s) : t[i] = s[i]
  BY <1>1, AppendFacts
<1>3. t # <<>>
  BY <1>2, EmptySeq
<1>4. PICK u : u = Front(t)
  OBVIOUS
<1>5. u \in Seq(S) /\ Len(u) = Len(t) - 1 /\ \A i \in 1..(Len(t) - 1) : u[i] = t[i]
  BY <1>2, <1>3, <1>4, FrontFacts
<1>6. Len(u) = Len(s) /\ Len(t) - 1 = Len(s)
  BY <1>2, <1>5
<1>7. \A i \in 1..Len(u) : u[i] = s[i]
  BY <1>2, <1>5, <1>6
<1>8. u = s
  BY <1>5, <1>6, <1>7, Sames
<1> QED
  BY <1>1, <1>4, <1>8
-----------------------------------------------------------------------------
(* Handlers and the try statements of a path *)

(* what is handled in q was in p, and has as many handlers or more *)
LEMMA EmbedsSame ==
  ASSUME NEW p, NEW q, NEW has, NEW has2, NEW m \in Nat, NEW m2 \in Nat, m <= m2,
         Embeds(p, has, m), Installed(q) \subseteq Installed(p),
         \A k \in Installed(q) : q[k].class = p[k].class,
         \A i \in 1..m : has2[i].class = has[i].class
  PROVE  Embeds(q, has2, m2)
<1>1. PICK P, Q : P = Installed(p) /\ Q = Installed(q)
  OBVIOUS
<1>2. PICK at \in [P -> 1..m] : /\ \A i, k \in P : i < k => at[i] < at[k]
                                /\ \A k \in P : has[at[k]].class = p[k].class
  BY <1>1 DEF Embeds
<1>3. PICK b : b = [k \in Q |-> at[k]]
  OBVIOUS
<1>4. \A k \in Q : k \in P /\ b[k] = at[k] /\ at[k] \in 1..m /\ at[k] \in 1..m2
  BY <1>1, <1>2, <1>3
<1>5. b \in [Q -> 1..m2]
  BY <1>3, <1>4
<1>6. \A i, k \in Q : i < k => b[i] < b[k]
  BY <1>2, <1>4
<1>7. \A k \in Q : has2[b[k]].class = q[k].class
  BY <1>1, <1>2, <1>4
<1> QED
  BY <1>1, <1>5, <1>6, <1>7 DEF Embeds

LEMMA EmbedsPush ==
  ASSUME NEW p, NEW q, NEW has, NEW has2, NEW m \in Nat, Embeds(p, has, m),
         NEW c \in Nat, Installed(q) = Installed(p) \cup {c}, Installed(p) \subseteq Nat,
         \A k \in Installed(p) : k < c /\ q[k].class = p[k].class,
         \A i \in 1..m : has2[i].class = has[i].class, has2[m + 1].class = q[c].class
  PROVE  Embeds(q, has2, m + 1)
<1>1. PICK P, Q : P = Installed(p) /\ Q = Installed(q)
  OBVIOUS
<1>2. PICK at \in [P -> 1..m] : /\ \A i, k \in P : i < k => at[i] < at[k]
                                /\ \A k \in P : has[at[k]].class = p[k].class
  BY <1>1 DEF Embeds
<1>3. PICK b : b = [k \in Q |-> IF k = c THEN m + 1 ELSE at[k]]
  OBVIOUS
<1>4. \A k \in P : k \in Q /\ k # c /\ b[k] = at[k] /\ at[k] \in 1..m
  BY <1>1, <1>2, <1>3
<1>5. b[c] = m + 1 /\ c \in Q /\ \A k \in Q : k \in P \/ k = c
  BY <1>1, <1>3
<1>6. b \in [Q -> 1..(m + 1)]
  <2>1. \A k \in Q : b[k] \in 1..(m + 1)
    BY <1>4, <1>5
  <2> QED
    BY <1>3, <2>1
<1>7. ASSUME NEW i \in Q, NEW k \in Q, i < k PROVE b[i] < b[k]
  <2>1. CASE k \in P /\ i \in P
    BY <1>2, <1>4, <1>7, <2>1
  <2>2. CASE k = c /\ i \in P
    BY <1>4, <1>5, <2>2
  <2>3. CASE i = c
    <3>1. k \notin P
      BY <1>1, <1>7, <2>3
    <3> QED
      BY <1>5, <1>7, <2>3, <3>1
  <2> QED
    BY <1>5, <2>1, <2>2, <2>3
<1>8. \A k \in Q : has2[b[k]].class = q[k].class
  <2>1. \A k \in P : has2[b[k]].class = q[k].class
    BY <1>1, <1>2, <1>4
  <2> QED
    BY <1>5, <2>1
<1> QED
  BY <1>1, <1>6, <1>7, <1>8 DEF Embeds

LEMMA EmbedsPop ==
  ASSUME NEW p, NEW q, NEW has, NEW m \in Nat, Embeds(p, has, m),
         NEW c \in Installed(p), Installed(q) = Installed(p) \ {c},
         \A k \in Installed(q) : k < c /\ q[k].class = p[k].class
  PROVE  m >= 1 /\ Embeds(q, has, m - 1)
<1>1. PICK P, Q : P = Installed(p) /\ Q = Installed(q)
  OBVIOUS
<1>2. PICK at \in [P -> 1..m] : /\ \A i, k \in P : i < k => at[i] < at[k]
                                /\ \A k \in P : has[at[k]].class = p[k].class
  BY <1>1 DEF Embeds
<1>3. PICK b : b = [k \in Q |-> at[k]]
  OBVIOUS
<1>4. at[c] \in 1..m
  BY <1>1, <1>2
<1>5. \A k \in Q : k \in P /\ b[k] = at[k] /\ at[k] \in 1..m /\ at[k] < at[c]
  BY <1>1, <1>2, <1>3
<1>6. \A k \in Q : b[k] \in 1..(m - 1)
  BY <1>4, <1>5
<1>7. b \in [Q -> 1..(m - 1)]
  BY <1>3, <1>6
<1>8. \A i, k \in Q : i < k => b[i] < b[k]
  BY <1>2, <1>5
<1>9. \A k \in Q : has[b[k]].class = q[k].class
  BY <1>1, <1>2, <1>5
<1> QED
  BY <1>1, <1>4, <1>7, <1>8, <1>9 DEF Embeds

LEMMA ExactSame ==
  ASSUME NEW p, NEW q, NEW has, Exact(p, has), Installed(q) = Installed(p),
         \A k \in Installed(p) : q[k].class = p[k].class /\ \A i \in 1..(k - 1) : q[i] = p[i]
  PROVE  Exact(q, has)
<1>1. \A n \in 1..Len(has) : Around(has[n], p)
  BY DEF Exact
<1>2. \A n \in 1..Len(has) : Around(has[n], q)
  BY <1>1 DEF Around
<1> QED
  BY <1>2 DEF Exact

LEMMA InstalledIs ==
  ASSUME NEW p
  PROVE  \A k : k \in Installed(p) <=> k \in 1..Len(p) /\ Handling(p[k])
BY DEF Installed

LEMMA ExactPush ==
  ASSUME NEW p \in Seq(Construct), NEW q \in Seq(Construct), NEW has \in Seq(Handler),
         NEW h \in Handler, Exact(p, has), h.path = q, Len(q) = Len(p) + 1,
         \A i \in 1..Len(p) : q[i] = p[i], Handling(q[Len(q)]), h.class = q[Len(q)].class
  PROVE  Exact(q, Append(has, h))
<1>1. PICK c, l, t : c = Len(p) + 1 /\ l = Len(has) /\ t = Append(has, h)
  OBVIOUS
<1>2. c \in Nat /\ l \in Nat /\ Len(p) \in Nat
  BY <1>1
<1>3. Len(t) = l + 1 /\ t[l + 1] = h /\ \A i \in 1..l : t[i] = has[i]
  BY <1>1, AppendFacts
<1>4. \A k \in 1..c : k \in 1..Len(p) \/ k = c
  BY <1>1, <1>2
<1>5. \A k : k \in Installed(q) <=> k \in Installed(p) \/ k = c
  BY <1>1, <1>2, <1>4, InstalledIs
<1>6. \A k \in Installed(p) : k \in 1..Len(p) /\ k < c
  BY <1>1, <1>2, InstalledIs
<1>7. ASSUME NEW n \in 1..l PROVE Around(has[n], q) /\ Len(has[n].path) < c
  <2>1. PICK k : k = Len(has[n].path)
    OBVIOUS
  <2>2. /\ k \in Installed(p) /\ p[k].class = has[n].class
        /\ \A i \in 1..(k - 1) : has[n].path[i] = p[i]
    BY <1>1, <1>7, <2>1 DEF Exact, Around
  <2>3. k \in 1..Len(p) /\ \A i \in 1..(k - 1) : i \in 1..Len(p)
    BY <1>2, <1>6, <2>2
  <2> QED
    BY <1>5, <1>6, <2>1, <2>2, <2>3 DEF Around
<1>8. Around(h, q)
  BY <1>1, <1>5 DEF Around
<1>9. \A n \in 1..(l + 1) : n \in 1..l \/ n = l + 1
  BY <1>2
<1>10. \A n \in 1..(l + 1) : Around(t[n], q)
  BY <1>3, <1>7, <1>8, <1>9
<1>11. ASSUME NEW m \in 1..(l + 1), NEW n \in 1..(l + 1), m < n
       PROVE  Len(t[m].path) < Len(t[n].path)
  <2>1. m \in 1..l
    BY <1>2, <1>11
  <2>2. CASE n \in 1..l
    BY <1>1, <1>3, <1>11, <2>1, <2>2 DEF Exact
  <2>3. CASE n = l + 1
    BY <1>1, <1>3, <1>7, <2>1, <2>3
  <2> QED
    BY <1>9, <2>2, <2>3
<1>12. ASSUME NEW k \in Installed(q) PROVE \E n \in 1..(l + 1) : Len(t[n].path) = k
  <2>1. CASE k = c
    <3>1. l + 1 \in 1..(l + 1)
      BY <1>2
    <3> QED
      BY <1>1, <1>3, <2>1, <3>1
  <2>2. CASE k # c
    <3>1. PICK n \in 1..l : Len(has[n].path) = k
      BY <1>1, <1>5, <2>2 DEF Exact
    <3>2. n \in 1..(l + 1)
      BY <1>2, <3>1
    <3> QED
      BY <1>3, <3>1, <3>2
  <2> QED
    BY <2>1, <2>2
<1> QED
  BY <1>1, <1>3, <1>10, <1>11, <1>12 DEF Exact

LEMMA ExactPop ==
  ASSUME NEW p \in Seq(Construct), NEW q \in Seq(Construct), NEW has \in Seq(Handler),
         Exact(p, has), Len(p) \in Installed(p), Installed(q) = Installed(p) \ {Len(p)},
         \A i \in 1..(Len(p) - 1) : q[i] = p[i]
  PROVE  has # <<>> /\ Exact(q, Front(has))
<1>1. PICK c, l : c = Len(p) /\ l = Len(has)
  OBVIOUS
<1>2. c \in Nat /\ l \in Nat
  BY <1>1
<1>3. \A k \in Installed(p) : k \in 1..c
  BY <1>1, InstalledIs
<1>4. PICK n \in 1..l : Len(has[n].path) = c
  BY <1>1 DEF Exact
<1>5. \A m \in 1..l : Len(has[m].path) \in 1..c /\ Len(has[m].path) \in Installed(p)
  BY <1>1, <1>3 DEF Exact, Around
<1>6. n = l
  <2>1. SUFFICES ASSUME n # l PROVE FALSE
    OBVIOUS
  <2>2. n < l /\ l \in 1..l
    BY <1>2, <2>1
  <2>3. c < Len(has[l].path)
    BY <1>1, <1>4, <2>2 DEF Exact
  <2> QED
    BY <1>2, <1>5, <2>2, <2>3
<1>7. has # <<>>
  <2>1. l >= 1
    BY <1>2, <1>4
  <2> QED
    BY <1>1, <2>1
<1>8. PICK t : t = Front(has)
  OBVIOUS
<1>9. Len(t) = l - 1 /\ \A i \in 1..(l - 1) : t[i] = has[i] /\ i \in 1..l /\ i < l
  <2>1. Len(t) = l - 1 /\ \A i \in 1..(l - 1) : t[i] = has[i]
    BY <1>1, <1>7, <1>8, FrontFacts
  <2> QED
    BY <1>2, <2>1
<1>10. ASSUME NEW m \in 1..(l - 1) PROVE Around(t[m], q)
  <2>1. PICK k : k = Len(has[m].path)
    OBVIOUS
  <2>2. /\ k \in Installed(p) /\ p[k].class = has[m].class
        /\ \A i \in 1..(k - 1) : has[m].path[i] = p[i]
    BY <1>1, <1>9, <2>1 DEF Exact, Around
  <2>3. k < c
    BY <1>1, <1>4, <1>6, <1>9, <2>1 DEF Exact
  <2>4. k \in 1..(c - 1) /\ \A i \in 1..(k - 1) : i \in 1..(c - 1)
    BY <1>2, <1>3, <2>2, <2>3
  <2>5. k \in Installed(q)
    BY <1>1, <1>2, <2>2, <2>3, <2>4
  <2> QED
    BY <1>1, <1>9, <2>1, <2>2, <2>4, <2>5 DEF Around
<1>11. ASSUME NEW m \in 1..(l - 1), NEW i \in 1..(l - 1), m < i
       PROVE  Len(t[m].path) < Len(t[i].path)
  BY <1>1, <1>9, <1>11 DEF Exact
<1>12. ASSUME NEW k \in Installed(q) PROVE \E m \in 1..(l - 1) : Len(t[m].path) = k
  <2>1. k \in Installed(p) /\ k # c
    BY <1>1
  <2>2. PICK m \in 1..l : Len(has[m].path) = k
    BY <1>1, <2>1 DEF Exact
  <2>3. m # l
    BY <1>4, <1>6, <2>1, <2>2
  <2>4. m \in 1..(l - 1)
    BY <1>2, <2>3
  <2> QED
    BY <1>9, <2>2, <2>4
<1> QED
  BY <1>7, <1>8, <1>9, <1>10, <1>11, <1>12 DEF Exact

(* The handlers up to one that is jumped to are those of its path. *)
LEMMA ExactLanding ==
  ASSUME NEW p \in Seq(Construct), NEW q \in Seq(Construct), NEW has \in Seq(Handler),
         Exact(p, has), NEW n \in 1..Len(has), Len(q) = Len(has[n].path),
         \A i \in 1..(Len(q) - 1) : q[i] = has[n].path[i],
         Handling(q[Len(q)]), q[Len(q)].class = has[n].class
  PROVE  Exact(q, SubSeq(has, 1, n))
<1>1. PICK c, l, t : c = Len(q) /\ l = Len(has) /\ t = SubSeq(has, 1, n)
  OBVIOUS
<1>2. c \in Nat /\ l \in Nat /\ n \in 0..l /\ n \in Nat
  BY <1>1
<1>3. Len(t) = n /\ \A i \in 1..n : t[i] = has[i] /\ i \in 1..l
  <2>1. Len(t) = n /\ \A i \in 1..n : t[i] = has[i]
    BY <1>1, <1>2, PrefixFacts
  <2> QED
    BY <1>2, <2>1
<1>4. /\ c \in Installed(p) /\ p[c].class = has[n].class
      /\ \A i \in 1..(c - 1) : has[n].path[i] = p[i] /\ q[i] = p[i]
  BY <1>1 DEF Exact, Around
<1>5. c \in 1..Len(p) /\ Len(p) \in Nat
  BY <1>4, InstalledIs
<1>6. c \in Installed(q)
  <2>1. c \in 1..Len(q) /\ Handling(q[c])
    BY <1>1, <1>2, <1>5
  <2> QED
    BY <2>1, InstalledIs
<1>7. \A k \in 1..(c - 1) : k \in Installed(q) <=> k \in Installed(p)
  <2> SUFFICES ASSUME NEW k \in 1..(c - 1) PROVE k \in Installed(q) <=> k \in Installed(p)
    OBVIOUS
  <2>1. q[k] = p[k]
    BY <1>4
  <2>2. k \in 1..Len(p) /\ k \in 1..Len(q)
    BY <1>1, <1>2, <1>5
  <2> QED
    BY <2>1, <2>2, InstalledIs
<1>8. \A m \in 1..n : /\ Len(has[m].path) \in Installed(p) /\ Len(has[m].path) \in 1..Len(p)
                      /\ m = n \/ Len(has[m].path) < c
  <2> SUFFICES ASSUME NEW m \in 1..n
        PROVE  /\ Len(has[m].path) \in Installed(p) /\ Len(has[m].path) \in 1..Len(p)
               /\ m = n \/ Len(has[m].path) < c
    OBVIOUS
  <2>1. Len(has[m].path) \in Installed(p)
    BY <1>1, <1>3 DEF Exact, Around
  <2>2. m = n \/ m < n
    BY <1>2
  <2>3. m < n => Len(has[m].path) < c
    BY <1>1, <1>3 DEF Exact
  <2> QED
    BY <2>1, <2>2, <2>3, InstalledIs
<1>9. ASSUME NEW m \in 1..n PROVE Around(t[m], q)
  <2>1. CASE m = n
    BY <1>1, <1>3, <1>6, <2>1 DEF Around
  <2>2. CASE m # n
    <3>1. PICK k : k = Len(has[m].path)
      OBVIOUS
    <3>2. k \in Installed(p) /\ k \in 1..(c - 1)
      BY <1>2, <1>8, <2>2, <3>1
    <3>3. k \in Installed(q) /\ q[k] = p[k]
      BY <1>4, <1>7, <3>2
    <3>4. p[k].class = has[m].class /\ \A i \in 1..(k - 1) : has[m].path[i] = p[i]
      BY <1>1, <1>3, <3>1 DEF Exact, Around
    <3>5. \A i \in 1..(k - 1) : i \in 1..(c - 1)
      BY <1>2, <3>2
    <3> QED
      BY <1>3, <1>4, <3>1, <3>3, <3>4, <3>5 DEF Around
  <2> QED
    BY <2>1, <2>2
<1>10. ASSUME NEW m \in 1..n, NEW i \in 1..n, m < i PROVE Len(t[m].path) < Len(t[i].path)
  BY <1>1, <1>3, <1>10 DEF Exact
<1>11. ASSUME NEW k \in Installed(q) PROVE \E m \in 1..n : Len(t[m].path) = k
  <2>1. CASE k = c
    <3>1. n \in 1..n
      BY <1>2
    <3> QED
      BY <1>1, <1>3, <2>1, <3>1
  <2>2. CASE k # c
    <3>1. k \in 1..(c - 1) /\ k < c
      BY <1>1, <1>2, <2>2, InstalledIs
    <3>2. k \in Installed(p)
      BY <1>7, <3>1
    <3>3. PICK m \in 1..l : Len(has[m].path) = k
      BY <1>1, <3>2 DEF Exact
    <3>4. m <= n
      <4>1. SUFFICES ASSUME n < m PROVE FALSE
        BY <1>2
      <4>2. c < k
        BY <1>1, <3>3, <4>1 DEF Exact
      <4> QED
        BY <1>2, <3>1, <4>2
    <3>5. m \in 1..n
      BY <1>2, <3>4
    <3> QED
      BY <1>3, <3>3, <3>5
  <2> QED
    BY <2>1, <2>2
<1> QED
  BY <1>1, <1>3, <1>9, <1>10, <1>11 DEF Exact

(* the path with one more construct on *)
LEMMA InstalledNext ==
  ASSUME NEW p \in Seq(Construct), NEW q \in Seq(Construct), Len(q) = Len(p) + 1,
         \A i \in 1..Len(p) : q[i] = p[i]
  PROVE  /\ Handling(q[Len(q)]) => Installed(q) = Installed(p) \cup {Len(q)}
         /\ ~Handling(q[Len(q)]) => Installed(q) = Installed(p)
         /\ \A k \in Installed(p) : k \in 1..Len(p) /\ k < Len(q) /\ q[k] = p[k]
                                    /\ \A i \in 1..(k - 1) : q[i] = p[i]
         /\ Installed(p) \subseteq Nat
<1>1. PICK n : n = Len(p)
  OBVIOUS
<1>2. n \in Nat /\ Len(q) = n + 1
  BY <1>1
<1>3. \A k : k \in 1..(n + 1) <=> k \in 1..n \/ k = n + 1
  BY <1>2
<1>4. \A k : k \in Installed(q) <=>
               \/ k \in Installed(p)
               \/ k = n + 1 /\ Handling(q[n + 1])
  BY <1>1, <1>2, <1>3, InstalledIs
<1>5. \A k \in Installed(p) : k \in 1..n
  BY <1>1, InstalledIs
<1>6. \A k \in 1..n : k < n + 1 /\ q[k] = p[k] /\ \A i \in 1..(k - 1) : i \in 1..n
  BY <1>1, <1>2
<1>7. Installed(p) \subseteq Nat
  BY <1>2, <1>5
<1> QED
  BY <1>1, <1>2, <1>4, <1>5, <1>6, <1>7

LEMMA RootedPrefix ==
  ASSUME NEW has \in Seq(Handler), NEW so, Rooted(has, so), NEW m \in 0..Len(has)
  PROVE  Rooted(SubSeq(has, 1, m), so)
<1>1. PICK t : t = SubSeq(has, 1, m)
  OBVIOUS
<1>2. Len(t) = m /\ m \in Nat /\ Len(has) \in Nat /\ \A i \in 1..m : t[i] = has[i]
  BY <1>1, PrefixFacts
<1>3. ASSUME NEW n \in 1..m PROVE Pushed(t[n]) /\ (so => Embeds(Front(t[n].path), t, n - 1))
  <2>1. n \in 1..Len(has) /\ n - 1 \in Nat /\ n - 1 <= n - 1 /\ t[n] = has[n]
        /\ \A i \in 1..(n - 1) : i \in 1..m
    BY <1>2
  <2>2. Pushed(has[n]) /\ (so => Embeds(Front(has[n].path), has, n - 1))
    BY <2>1 DEF Rooted
  <2>3. \A i \in 1..(n - 1) : t[i].class = has[i].class
    BY <1>2, <2>1
  <2>4. so => Embeds(Front(has[n].path), t, n - 1)
    <3>1. SUFFICES ASSUME so PROVE Embeds(Front(has[n].path), t, n - 1)
      OBVIOUS
    <3>2. PICK p, k : p = Front(has[n].path) /\ k = n - 1
      OBVIOUS
    <3>3. /\ Embeds(p, has, k) /\ k \in Nat /\ k <= k
          /\ \A i \in 1..k : t[i].class = has[i].class
      BY <2>1, <2>2, <2>3, <3>1, <3>2
    <3>4. Embeds(p, t, k)
      BY <3>3, EmbedsSame
    <3> QED
      BY <3>2, <3>4
  <2> QED
    BY <2>1, <2>2, <2>4
<1> QED
  BY <1>1, <1>2, <1>3 DEF Rooted

LEMMA RootedPush ==
  ASSUME NEW has \in Seq(Handler), NEW h \in Handler, NEW so, Rooted(has, so), Pushed(h),
         so => Embeds(Front(h.path), has, Len(has))
  PROVE  Rooted(Append(has, h), so)
<1>1. PICK t, l : t = Append(has, h) /\ l = Len(has)
  OBVIOUS
<1>2. l \in Nat /\ Len(t) = l + 1 /\ t[l + 1] = h /\ \A i \in 1..l : t[i] = has[i]
  BY <1>1, AppendFacts
<1>3. ASSUME NEW n \in 1..(l + 1) PROVE Pushed(t[n]) /\ (so => Embeds(Front(t[n].path), t, n - 1))
  <2>1. n - 1 \in Nat /\ n - 1 <= n - 1 /\ \A i \in 1..(n - 1) : i \in 1..l
    BY <1>2
  <2>2. \A i \in 1..(n - 1) : t[i].class = has[i].class
    BY <1>2, <2>1
  <2>3. Pushed(t[n]) /\ (so => Embeds(Front(t[n].path), has, n - 1))
    <3>1. CASE n \in 1..l
      BY <1>1, <1>2, <3>1 DEF Rooted
    <3>2. CASE n = l + 1
      <4>1. n - 1 = l
        BY <1>2, <3>2
      <4> QED
        BY <1>1, <1>2, <3>2, <4>1
    <3> QED
      BY <1>2, <3>1, <3>2
  <2>4. PICK p, m : p = Front(t[n].path) /\ m = n - 1
    OBVIOUS
  <2>5. /\ so => Embeds(p, has, m)
        /\ m \in Nat /\ m <= m /\ \A i \in 1..m : t[i].class = has[i].class
    BY <2>1, <2>2, <2>3, <2>4
  <2>6. so => Embeds(p, t, m)
    BY <2>5, EmbedsSame
  <2> QED
    BY <2>3, <2>4, <2>6
<1> QED
  BY <1>1, <1>2, <1>3 DEF Rooted
-----------------------------------------------------------------------------
(* Frames *)

LEMMA SeqGrows ==
  ASSUME NEW A, NEW B, A \subseteq B, NEW s \in Seq(A)
  PROVE  s \in Seq(B)
OBVIOUS

LEMMA WholeLater ==
  ASSUME NEW f, NEW m1, NEW m2, m1 => m2, Whole(f, m1)
  PROVE  Whole(f, m2)
BY DEF Whole, Half

LEMMA GoodTop ==
  ASSUME NEW fs, NEW m1, NEW m2, Good(fs, m1), m1 => m2, fs # <<>>,
         NEW T, NEW g \in FrameType(T), Whole(g, m2)
  PROVE  Good([fs EXCEPT ![Len(fs)] = g], m2)
<1>b. PICK R : fs \in Seq(FrameType(R))
  BY DEF Good
<1>a. PICK S : S = R \cup T
  OBVIOUS
<1>1. fs \in Seq(FrameType(S)) /\ g \in FrameType(S) /\ Len(fs) \in Nat /\ Len(fs) >= 1
  <2>1. FrameType(R) \subseteq FrameType(S) /\ FrameType(T) \subseteq FrameType(S)
    BY <1>a DEF FrameType
  <2>2. fs \in Seq(FrameType(S)) /\ g \in FrameType(S)
    BY <1>b, <2>1, SeqGrows
  <2> QED
    BY <2>2, EmptySeq, LenProperties
<1>2. PICK t : t = [fs EXCEPT ![Len(fs)] = g]
  OBVIOUS
<1>3. /\ t \in Seq(FrameType(S)) /\ Len(t) = Len(fs) /\ t[Len(fs)] = g
      /\ \A i \in 1..Len(fs) : i # Len(fs) => t[i] = fs[i]
  BY <1>1, <1>2, LastReplaced
<1>4. ASSUME NEW i \in 1..Len(fs) PROVE Whole(t[i], m2)
  <2>1. CASE i = Len(fs)
    BY <1>3, <2>1
  <2>2. CASE i # Len(fs)
    <3>1. Whole(fs[i], m1) /\ t[i] = fs[i]
      BY <1>3, <2>2 DEF Good
    <3> QED
      BY <3>1, WholeLater
  <2> QED
    BY <2>1, <2>2
<1> QED
  BY <1>2, <1>3, <1>4 DEF Good

LEMMA GoodAppend ==
  ASSUME NEW fs, NEW m, Good(fs, m), NEW T, NEW g \in FrameType(T), Whole(g, m)
  PROVE  Good(Append(fs, g), m)
<1>b. PICK R : fs \in Seq(FrameType(R))
  BY DEF Good
<1>a. PICK S : S = R \cup T
  OBVIOUS
<1>1. fs \in Seq(FrameType(S)) /\ g \in FrameType(S) /\ Len(fs) \in Nat
  <2>1. FrameType(R) \subseteq FrameType(S) /\ FrameType(T) \subseteq FrameType(S)
    BY <1>a DEF FrameType
  <2> QED
    BY <1>b, <2>1, SeqGrows
<1>2. PICK t : t = Append(fs, g)
  OBVIOUS
<1>3. /\ t \in Seq(FrameType(S)) /\ Len(t) = Len(fs) + 1 /\ t[Len(fs) + 1] = g
      /\ \A i \in 1..Len(fs) : t[i] = fs[i]
  BY <1>1, <1>2, AppendFacts
<1>4. \A i \in 1..Len(t) : i \in 1..Len(fs) \/ i = Len(fs) + 1
  BY <1>1, <1>3
<1>5. \A i \in 1..Len(t) : Whole(t[i], m)
  BY <1>3, <1>4 DEF Good
<1> QED
  BY <1>2, <1>3, <1>5 DEF Good

LEMMA GoodPrefix ==
  ASSUME NEW S, NEW fs \in Seq(FrameType(S)), NEW m, NEW k \in 0..Len(fs),
         \A j \in 1..k : Whole(fs[j], m)
  PROVE  Good(SubSeq(fs, 1, k), m)
<1>1. PICK t : t = SubSeq(fs, 1, k)
  OBVIOUS
<1>2. t \in Seq(FrameType(S)) /\ Len(t) = k /\ \A i \in 1..k : t[i] = fs[i]
  BY <1>1, PrefixFacts
<1> QED
  BY <1>1, <1>2 DEF Good

LEMMA LandingGood ==
  ASSUME NEW S, NEW fs \in Seq(FrameType(S)), NEW mis, NEW j \in 1..Len(fs), Half(fs[j], mis),
         \A i \in 1..(j - 1) : Whole(fs[i], mis), NEW n \in 1..Len(fs[j].handlers),
         NEW phase \in {"landed", "raised"}, NEW v \in Value
  PROVE  Good(Landing(fs, j, n, phase, v), mis) /\ Landing(fs, j, n, phase, v) # <<>>
<1>1. PICK f, has, h : f = fs[j] /\ has = f.handlers /\ h = has[n]
  OBVIOUS
<1>2. f \in FrameType(S) /\ has \in Seq(Handler) /\ h \in Handler /\ f.path \in Seq(Construct)
      /\ h.path \in Seq(Construct) /\ n \in 1..Len(has) /\ Len(has) \in Nat
  <2>1. f \in FrameType(S)
    BY <1>1
  <2>2. has \in Seq(Handler) /\ f.path \in Seq(Construct) /\ n \in 1..Len(has)
    BY <1>1, <2>1 DEF FrameType
  <2>3. h \in Handler
    BY <1>1, <2>2
  <2> QED
    BY <2>1, <2>2, <2>3 DEF Handler
<1>3. Rooted(has, ~f.left) /\ (~mis => Exact(f.path, has))
  BY <1>1 DEF Half
<1>4. PICK p, c, d : p = Front(h.path) /\ c = Last(h.path)
                     /\ d = [c EXCEPT !.phase = phase, !.value = v]
  OBVIOUS
<1>5. /\ h.path # <<>> /\ c \in TryType /\ c.class = h.class
      /\ ~f.left => Embeds(p, has, n - 1)
  BY <1>1, <1>2, <1>3, <1>4 DEF Rooted, Pushed, Last
<1>6. d \in TryType /\ d.class = h.class /\ d.kind = "try" /\ d.phase = phase
  BY <1>4, <1>5 DEF TryType, Phases
<1>7. Handling(d) /\ d \in Construct
  BY <1>6 DEF Handling, Construct
<1>8. PICK q, l : q = Append(p, d) /\ l = Len(h.path)
  OBVIOUS
<1>9. /\ p \in Seq(Construct) /\ Len(p) = l - 1 /\ l \in Nat /\ l >= 1
      /\ \A i \in 1..(l - 1) : p[i] = h.path[i]
  BY <1>2, <1>4, <1>5, <1>8, FrontFacts
<1>10. /\ q \in Seq(Construct) /\ Len(q) = Len(p) + 1 /\ q[Len(p) + 1] = d
       /\ \A i \in 1..Len(p) : q[i] = p[i]
  BY <1>7, <1>8, <1>9, AppendFacts
<1>11. Len(q) = l /\ q[Len(q)] = d /\ \A i \in 1..(l - 1) : q[i] = h.path[i]
  BY <1>9, <1>10
<1>12. PICK has2 : has2 = SubSeq(has, 1, n)
  OBVIOUS
<1>13. /\ has2 \in Seq(Handler) /\ Len(has2) = n /\ n \in 0..Len(has) /\ n \in Nat
       /\ \A i \in 1..n : has2[i] = has[i]
  <2>1. n \in 0..Len(has) /\ n \in Nat
    BY <1>2
  <2> QED
    BY <1>2, <1>12, <2>1, PrefixFacts
<1>14. ~f.left => Embeds(q, has2, n)
  <2>a. SUFFICES ASSUME ~f.left PROVE Embeds(q, has2, n)
    OBVIOUS
  <2>1. PICK m : m = n - 1
    OBVIOUS
  <2>2. m \in Nat /\ m + 1 = n /\ \A i \in 1..m : i \in 1..n
    BY <1>2, <2>1
  <2>3. Installed(q) = Installed(p) \cup {l} /\ Installed(p) \subseteq Nat
        /\ \A k \in Installed(p) : k < l /\ q[k].class = p[k].class
    <3>1. p \in Seq(Construct) /\ q \in Seq(Construct) /\ Len(q) = Len(p) + 1
          /\ (\A i \in 1..Len(p) : q[i] = p[i]) /\ Handling(q[Len(q)])
      BY <1>7, <1>9, <1>10, <1>11
    <3>2. /\ Installed(q) = Installed(p) \cup {Len(q)} /\ Installed(p) \subseteq Nat
          /\ \A k \in Installed(p) : k < Len(q) /\ q[k] = p[k]
      BY <3>1, InstalledNext
    <3> QED
      BY <1>11, <3>2
  <2>4. has2[m + 1].class = q[l].class
    BY <1>1, <1>2, <1>6, <1>11, <1>13, <2>2
  <2>5. \A i \in 1..m : has2[i].class = has[i].class
    BY <1>13, <2>2
  <2>6. Embeds(p, has, m)
    BY <1>5, <2>1, <2>a
  <2> QED
    BY SMTT(30), <1>9, <2>2, <2>3, <2>4, <2>5, <2>6, EmbedsPush
<1>15. Rooted(has2, ~f.left)
  BY <1>2, <1>3, <1>12, <1>13, RootedPrefix
<1>16. ~mis => Exact(q, has2)
  <2>1. Handling(q[Len(q)]) /\ q[Len(q)].class = has[n].class
    BY <1>1, <1>6, <1>7, <1>11
  <2>2. Len(q) = Len(has[n].path) /\ \A i \in 1..(Len(q) - 1) : q[i] = has[n].path[i]
    BY <1>1, <1>8, <1>11
  <2> QED
    BY <1>2, <1>3, <1>10, <1>12, <2>1, <2>2, ExactLanding
<1>17. PICK g : g = [f EXCEPT !.handlers = has2, !.path = q]
  OBVIOUS
<1>18. g \in FrameType(S) /\ g.handlers = has2 /\ g.path = q /\ g.left = f.left
  BY <1>2, <1>10, <1>13, <1>17 DEF FrameType
<1>19. Whole(g, mis)
  BY <1>13, <1>14, <1>15, <1>16, <1>18 DEF Whole, Half
<1>20. Landing(fs, j, n, phase, v) = Append(SubSeq(fs, 1, j - 1), g)
  BY <1>1, <1>4, <1>8, <1>12, <1>17 DEF Landing, InstalledAt
<1>21. Good(SubSeq(fs, 1, j - 1), mis)
  <2>1. j - 1 \in 0..Len(fs)
    OBVIOUS
  <2> QED
    BY <2>1, GoodPrefix
<1>22. Good(Append(SubSeq(fs, 1, j - 1), g), mis)
  BY <1>18, <1>19, <1>21, GoodAppend
<1>23. Append(SubSeq(fs, 1, j - 1), g) # <<>>
  <2>1. SubSeq(fs, 1, j - 1) \in Seq(FrameType(S))
    OBVIOUS
  <2> QED
    BY <1>18, <2>1, AppendFacts, EmptySeq
<1> QED
  BY <1>20, <1>22, <1>23

LEMMA LeftGood ==
  ASSUME NEW fs, NEW mis, Throwing(fs, mis)
  PROVE  Good(Left(fs), mis)
<1>b. PICK S : fs \in Seq(FrameType(S))
  BY DEF Throwing
<1>1. Len(fs) \in Nat
  BY <1>b
<1>2. ASSUME NEW j \in 1..Len(fs)
      PROVE  [fs[j] EXCEPT !.left = TRUE] \in FrameType(S) /\ Whole([fs[j] EXCEPT !.left = TRUE], mis)
  <2>1. PICK g : g = [fs[j] EXCEPT !.left = TRUE]
    OBVIOUS
  <2>2. fs[j] \in FrameType(S)
    BY <1>b
  <2>3. g \in FrameType(S) /\ g.left /\ g.path = fs[j].path /\ g.handlers = fs[j].handlers
    BY <2>1, <2>2 DEF FrameType
  <2>4. Half(fs[j], mis)
    <3>1. j = Len(fs) \/ j \in 1..(Len(fs) - 1)
      BY <1>1
    <3> QED
      BY <3>1 DEF Throwing, Whole
  <2> QED
    BY <2>1, <2>3, <2>4 DEF Whole, Half, Rooted
<1>3. PICK t : t = Left(fs)
  OBVIOUS
<1>4. t = [j \in 1..Len(fs) |-> [fs[j] EXCEPT !.left = TRUE]]
  BY <1>3 DEF Left
<1>5. t \in Seq(FrameType(S)) /\ Len(t) = Len(fs)
  BY <1>1, <1>2, <1>4
<1>6. \A j \in 1..Len(fs) : Whole(t[j], mis)
  BY <1>2, <1>4
<1> QED
  BY <1>3, <1>5, <1>6 DEF Good

LEMMA GoodNone ==
  ASSUME NEW m
  PROVE  Good(<<>>, m)
<1>1. <<>> \in Seq(FrameType({})) /\ Len(<<>>) = 0
  OBVIOUS
<1>2. 1..Len(<<>>) = {}
  BY <1>1
<1> QED
  BY <1>1, <1>2 DEF Good

(* Wherever an exception ends up, the handlers there are those of the code. *)
LEMMA PropagateGood ==
  ASSUME NEW fs, NEW mis, NEW v, NEW st, Throwing(fs, mis), Propagate(fs, v, st)
  PROVE  Good(frames', mis) /\ (status' = "running" => frames' # <<>>)
<1>b. PICK S : fs \in Seq(FrameType(S))
  BY DEF Throwing
<1>1. /\ fs \in Seq(FrameType(S)) /\ fs # <<>> /\ Len(fs) \in Nat /\ MaxHandlers \in Nat
  BY <1>b, ExceptionsAssumption DEF Throwing
<1>2. CASE v \notin {Instance(c) : c \in Class}
  <2>1. frames' = Left(fs) /\ status' = "prompt"
    BY <1>2 DEF Propagate
  <2> QED
    BY <2>1, LeftGood
<1>3. CASE v \in {Instance(c) : c \in Class} /\ Takers(fs, v) = {}
  <2>1. frames' = <<>> /\ status' = "prompt"
    BY <1>3 DEF Propagate
  <2> QED
    BY <2>1, GoodNone
<1>4. CASE v \in {Instance(c) : c \in Class} /\ Takers(fs, v) # {}
  <2>1. PICK t : t = Innermost(Takers(fs, v))
    OBVIOUS
  <2>2. PICK h : h = fs[t[1]].handlers[t[2]]
    OBVIOUS
  <2>3. t \in Takers(fs, v)
    <3>1. Takers(fs, v) \subseteq (1..Len(fs)) \X (1..MaxHandlers)
      BY DEF Takers
    <3> QED
      BY <1>1, <1>4, <2>1, <3>1, InnermostIs
  <2>4. t[1] \in 1..Len(fs) /\ t[2] \in 1..Len(fs[t[1]].handlers)
    <3>1. t \in (1..Len(fs)) \X (1..MaxHandlers) /\ t[2] <= Len(fs[t[1]].handlers)
      BY <2>3 DEF Takers
    <3>2. t[1] \in 1..Len(fs) /\ t[2] \in 1..MaxHandlers
      BY <3>1
    <3>3. fs[t[1]].handlers \in Seq(Handler)
      <4>1. fs[t[1]] \in FrameType(S)
        BY <1>1, <3>2
      <4> QED
        BY <4>1 DEF FrameType
    <3> QED
      BY <1>1, <3>1, <3>2, <3>3
  <2>5. v \in Value
    BY <1>4 DEF Value, Thrown
  <2>6. Half(fs[t[1]], mis) /\ \A i \in 1..(t[1] - 1) : Whole(fs[i], mis)
    <3>1. t[1] = Len(fs) \/ t[1] \in 1..(Len(fs) - 1)
      BY <1>1, <2>4
    <3>2. \A i \in 1..(t[1] - 1) : i \in 1..(Len(fs) - 1)
      BY <1>1, <2>4
    <3> QED
      BY <3>1, <3>2 DEF Throwing, Whole
  <2>7. \A phase \in {"landed", "raised"} :
          /\ Good(Landing(fs, t[1], t[2], phase, v), mis)
          /\ Landing(fs, t[1], t[2], phase, v) # <<>>
    BY <1>1, <2>4, <2>5, <2>6, LandingGood
  <2>8. \/ frames' = <<>> /\ status' = "stray"
        \/ \E phase \in {"landed", "raised"} : frames' = Landing(fs, t[1], t[2], phase, v)
    BY <1>4, <2>1, <2>2 DEF Propagate, Stray
  <2> QED
    BY <2>7, <2>8, GoodNone
<1> QED
  BY <1>2, <1>3, <1>4

-----------------------------------------------------------------------------
(* The steps *)

Kept(m) == Good(frames', m) /\ (status' = "running" => frames' # <<>>)

LEMMA TopFacts ==
  ASSUME HInv, status = "running"
  PROVE  /\ Len(frames) \in Nat /\ Len(frames) >= 1 /\ frames # <<>>
         /\ F = frames[Len(frames)]
         /\ \E S : frames \in Seq(FrameType(S)) /\ F \in FrameType(S)
         /\ F.path \in Seq(Construct) /\ F.handlers \in Seq(Handler)
         /\ Len(F.path) \in Nat /\ Len(F.handlers) \in Nat
         /\ Good(frames, misled) /\ Whole(F, misled)
<1>a. PICK S : frames \in Seq(FrameType(S))
  BY DEF HInv, Good
<1>1. frames \in Seq(FrameType(S)) /\ frames # <<>> /\ Good(frames, misled)
  BY <1>a DEF HInv
<1>2. Len(frames) \in Nat /\ Len(frames) >= 1
  BY <1>1, EmptySeq, LenProperties
<1>3. F = frames[Len(frames)] /\ F \in FrameType(S)
  BY <1>1, <1>2 DEF F
<1>4. F.path \in Seq(Construct) /\ F.handlers \in Seq(Handler)
  BY <1>3 DEF FrameType
<1>5. Whole(F, misled)
  BY <1>1, <1>2, <1>3 DEF Good
<1> QED
  BY <1>1, <1>2, <1>3, <1>4, <1>5

(* What of the top of a path is in sight of its handlers. *)
LEMMA InstalledBelow ==
  ASSUME NEW p \in Seq(Construct), NEW q \in Seq(Construct), NEW m \in Nat,
         m <= Len(p), m <= Len(q), \A i \in 1..m : q[i] = p[i],
         \A i \in (m + 1)..Len(q) : ~Handling(q[i])
  PROVE  /\ Installed(q) = {k \in Installed(p) : k <= m}
         /\ \A k \in Installed(q) : /\ q[k].class = p[k].class
                                    /\ \A i \in 1..(k - 1) : q[i] = p[i]
<1>1. Len(p) \in Nat /\ Len(q) \in Nat
  OBVIOUS
<1>2. ASSUME NEW k \in Installed(q) PROVE k \in 1..m
  <2>1. k \in 1..Len(q) /\ Handling(q[k])
    BY InstalledIs
  <2>2. k \notin (m + 1)..Len(q)
    BY <2>1
  <2> QED
    BY <1>1, <2>1, <2>2
<1>3. \A k \in 1..m : k \in 1..Len(p) /\ k \in 1..Len(q) /\ q[k] = p[k]
  BY <1>1
<1>4. \A k \in 1..m : k \in Installed(q) <=> k \in Installed(p)
  BY <1>3, InstalledIs
<1>5. \A k \in Installed(p) : k <= m => k \in 1..m
  BY InstalledIs
<1>6. \A k \in 1..m : k <= m /\ \A i \in 1..(k - 1) : i \in 1..m
  OBVIOUS
<1>7. Installed(q) = {k \in Installed(p) : k <= m}
  BY <1>2, <1>4, <1>5, <1>6
<1> QED
  BY <1>2, <1>3, <1>6, <1>7

(* no handling construct goes *)
LEMMA InstalledStays ==
  ASSUME NEW p \in Seq(Construct), NEW q \in Seq(Construct), NEW m \in Nat,
         m <= Len(p), m <= Len(q), \A i \in 1..m : q[i] = p[i],
         \A i \in (m + 1)..Len(q) : ~Handling(q[i]),
         \A i \in (m + 1)..Len(p) : ~Handling(p[i])
  PROVE  /\ Installed(q) = Installed(p)
         /\ \A k \in Installed(q) : /\ q[k].class = p[k].class
                                    /\ \A i \in 1..(k - 1) : q[i] = p[i]
<1>1. Installed(p) = {k \in Installed(p) : k <= m}
  BY InstalledBelow
<1> QED
  BY <1>1, InstalledBelow

(* the last one goes, and it was handling *)
LEMMA InstalledGoes ==
  ASSUME NEW p \in Seq(Construct), NEW q \in Seq(Construct), p # <<>>, Handling(p[Len(p)]),
         Len(p) - 1 <= Len(q), \A i \in 1..(Len(p) - 1) : q[i] = p[i],
         \A i \in Len(p)..Len(q) : ~Handling(q[i])
  PROVE  /\ Len(p) \in Installed(p) /\ Installed(q) = Installed(p) \ {Len(p)}
         /\ \A k \in Installed(q) : k < Len(p) /\ q[k].class = p[k].class
<1>1. Len(p) \in Nat /\ Len(p) >= 1 /\ Len(q) \in Nat
  BY EmptySeq, LenProperties
<1>2. PICK m : m = Len(p) - 1
  OBVIOUS
<1>3. m \in Nat /\ m <= Len(p) /\ m <= Len(q) /\ m + 1 = Len(p)
  BY <1>1, <1>2
<1>4. /\ Installed(q) = {k \in Installed(p) : k <= m}
      /\ \A k \in Installed(q) : q[k].class = p[k].class
  <2>1. \A i \in 1..m : q[i] = p[i]
    BY <1>2
  <2>2. \A i \in (m + 1)..Len(q) : ~Handling(q[i])
    BY <1>3
  <2> QED
    BY <1>3, <2>1, <2>2, InstalledBelow
<1>5. Len(p) \in Installed(p) /\ \A k \in Installed(p) : k \in 1..Len(p)
  BY <1>1, InstalledIs
<1>6. \A k \in 1..Len(p) : (k <= m <=> k # Len(p)) /\ (k <= m => k < Len(p))
  BY <1>1, <1>3
<1> QED
  BY <1>4, <1>5, <1>6

LEMMA TopBecomes ==
  ASSUME HInv, status = "running", NEW m, misled => m, NEW S, NEW g \in FrameType(S), Whole(g, m),
         frames' = [frames EXCEPT ![Len(frames)] = g]
  PROVE  Kept(m)
<1>a. PICK T : frames \in Seq(FrameType(T))
  BY TopFacts
<1>b. PICK R : R = S \cup T
  OBVIOUS
<1>1. /\ frames \in Seq(FrameType(R)) /\ g \in FrameType(R)
      /\ frames # <<>> /\ Len(frames) >= 1 /\ Good(frames, misled)
  <2>1. FrameType(S) \subseteq FrameType(R) /\ FrameType(T) \subseteq FrameType(R)
    BY <1>b DEF FrameType
  <2> QED
    BY <1>a, <2>1, SeqGrows, TopFacts
<1>2. Good(frames', m)
  BY <1>1, GoodTop
<1>3. Len(frames') = Len(frames)
  BY <1>1, LastReplaced
<1>4. frames' # <<>>
  BY <1>1, <1>3
<1> QED
  BY <1>2, <1>4 DEF Kept

(* a step that leaves the handlers alone *)
LEMMA PathChanges ==
  ASSUME HInv, status = "running", NEW m, misled => m, NEW q \in Seq(Construct),
         frames' = [frames EXCEPT ![Len(frames)].path = q],
         Installed(q) \subseteq Installed(F.path),
         \A k \in Installed(q) : q[k].class = F.path[k].class,
         ~m => Installed(q) = Installed(F.path)
               /\ \A k \in Installed(q) : \A i \in 1..(k - 1) : q[i] = F.path[i]
  PROVE  Kept(m)
<1>1. PICK f, p, has : f = F /\ p = f.path /\ has = f.handlers
  OBVIOUS
<1>a. PICK S : frames \in Seq(FrameType(S)) /\ F \in FrameType(S)
  BY TopFacts
<1>2. /\ f = frames[Len(frames)] /\ f \in FrameType(S) /\ has \in Seq(Handler) /\ Len(has) \in Nat
      /\ Whole(f, misled) /\ Len(frames) >= 1 /\ frames \in Seq(FrameType(S))
  BY <1>a, <1>1, TopFacts
<1>3. PICK g : g = [f EXCEPT !.path = q]
  OBVIOUS
<1>4. g \in FrameType(S) /\ g.path = q /\ g.handlers = has /\ g.left = f.left
  BY <1>1, <1>2, <1>3 DEF FrameType
<1>5. ~f.left => Embeds(q, has, Len(has))
  <2>1. SUFFICES ASSUME ~f.left PROVE Embeds(q, has, Len(has))
    OBVIOUS
  <2>2. Embeds(p, has, Len(has))
    BY <1>1, <1>2, <2>1 DEF Whole
  <2>3. PICK l : l = Len(has)
    OBVIOUS
  <2>4. l \in Nat /\ l <= l
    BY <1>2, <2>3
  <2> QED
    BY <1>1, <2>2, <2>3, <2>4, EmbedsSame
<1>6. ~m => Exact(q, has)
  <2>1. ~m => Exact(p, has)
    BY <1>1, <1>2 DEF Whole, Half
  <2> QED
    BY <1>1, <2>1, ExactSame
<1>7. Whole(g, m)
  BY <1>1, <1>2, <1>4, <1>5, <1>6 DEF Whole, Half
<1>8. frames' = [frames EXCEPT ![Len(frames)] = g]
  BY <1>2, <1>3
<1> QED
  BY <1>4, <1>7, <1>8, TopBecomes

(* a step that takes the handler of the construct off, with the construct *)
LEMMA HandlerGoes ==
  ASSUME HInv, status = "running", NEW m, misled => m, NEW q \in Seq(Construct),
         F.path # <<>>, Handling(F.path[Len(F.path)]), Len(F.path) - 1 <= Len(q),
         \A i \in 1..(Len(F.path) - 1) : q[i] = F.path[i],
         \A i \in Len(F.path)..Len(q) : ~Handling(q[i]),
         NEW g, g = [F EXCEPT !.handlers = Front(@), !.path = q],
         F.handlers # <<>> \/ ~m \/ ~F.left
  PROVE  /\ \E S : g \in FrameType(S)
         /\ Whole(g, m) /\ F.handlers # <<>>
<1>1. PICK f, p, has : f = F /\ p = f.path /\ has = f.handlers
  OBVIOUS
<1>a. PICK S : F \in FrameType(S)
  BY TopFacts
<1>2. /\ f \in FrameType(S) /\ has \in Seq(Handler) /\ p \in Seq(Construct) /\ Whole(f, misled)
  BY <1>a, <1>1, TopFacts
<1>3. /\ Len(p) \in Installed(p) /\ Installed(q) = Installed(p) \ {Len(p)}
      /\ \A k \in Installed(q) : k < Len(p) /\ q[k].class = p[k].class
  BY <1>1, <1>2, InstalledGoes
<1>4. ~m => has # <<>> /\ Exact(q, Front(has))
  <2>1. ~m => Exact(p, has)
    BY <1>1, <1>2 DEF Whole, Half
  <2> QED
    BY <1>1, <1>2, <1>3, <2>1, ExactPop
<1>5. PICK l : l = Len(has)
  OBVIOUS
<1>6. ~f.left => l >= 1 /\ Embeds(q, has, l - 1)
  <2>1. SUFFICES ASSUME ~f.left PROVE l >= 1 /\ Embeds(q, has, l - 1)
    OBVIOUS
  <2>2. Embeds(p, has, l) /\ l \in Nat
    BY <1>1, <1>2, <1>5, <2>1 DEF Whole
  <2> QED
    BY <1>3, <2>2, EmbedsPop
<1>7. has # <<>>
  <2>1. l >= 1 => has # <<>>
    BY <1>5
  <2> QED
    BY <1>1, <1>4, <1>6, <2>1
<1>8. PICK t : t = Front(has)
  OBVIOUS
<1>9. /\ t \in Seq(Handler) /\ Len(t) = l - 1 /\ l \in Nat /\ l >= 1
      /\ \A i \in 1..(l - 1) : t[i] = has[i]
      /\ t = SubSeq(has, 1, l - 1)
  BY <1>2, <1>5, <1>7, <1>8, FrontFacts
<1>10. Rooted(t, ~f.left)
  <2>1. Rooted(has, ~f.left) /\ l - 1 \in 0..Len(has)
    BY <1>1, <1>2, <1>5, <1>9 DEF Whole, Half
  <2> QED
    BY <1>2, <1>9, <2>1, RootedPrefix
<1>11. ~f.left => Embeds(q, t, Len(t))
  <2>1. SUFFICES ASSUME ~f.left PROVE Embeds(q, t, Len(t))
    OBVIOUS
  <2>2. PICK k : k = l - 1
    OBVIOUS
  <2>3. k \in Nat /\ k <= k /\ Len(t) = k /\ \A i \in 1..k : t[i].class = has[i].class
    BY <1>9, <2>2
  <2>4. Embeds(q, has, k)
    BY <1>6, <2>1, <2>2
  <2> QED
    BY <2>3, <2>4, EmbedsSame
<1>12. g \in FrameType(S) /\ g.path = q /\ g.handlers = t /\ g.left = f.left
  BY <1>1, <1>2, <1>8, <1>9 DEF FrameType
<1> QED
  BY <1>1, <1>4, <1>7, <1>8, <1>10, <1>11, <1>12 DEF Whole, Half


(* the same, when a line may have left the frame with no handler *)
LEMMA HandlerTaken ==
  ASSUME HInv, status = "running", NEW m, misled => m, NEW q \in Seq(Construct),
         F.path # <<>>, Handling(F.path[Len(F.path)]), Len(F.path) - 1 <= Len(q),
         \A i \in 1..(Len(F.path) - 1) : q[i] = F.path[i],
         \A i \in Len(F.path)..Len(q) : ~Handling(q[i]),
         NEW g, g = [F EXCEPT !.handlers = Front(@), !.path = q]
  PROVE  /\ \E S : g \in FrameType(S)
         /\ Whole(g, m)
         /\ g.path = q /\ g.handlers = Front(F.handlers) /\ g.left = F.left
<1>1. PICK f, has : f = F /\ has = f.handlers
  OBVIOUS
<1>a. PICK S : F \in FrameType(S)
  BY TopFacts
<1>2. f \in FrameType(S) /\ has \in Seq(Handler) /\ Whole(f, misled)
  BY <1>a, <1>1, TopFacts
<1>3. Front(has) \in Seq(Handler)
  BY <1>2 DEF Front
<1>4. g \in FrameType(S) /\ g.path = q /\ g.handlers = Front(has) /\ g.left = f.left
  BY <1>1, <1>2, <1>3 DEF FrameType
<1>5. CASE has # <<>> \/ ~m \/ ~f.left
  <2>1. F.handlers # <<>> \/ ~m \/ ~F.left
    BY <1>1, <1>5
  <2>2. Whole(g, m)
    BY <2>1, HandlerGoes
  <2> QED
    BY <1>1, <1>4, <2>2
<1>6. CASE has = <<>> /\ m /\ f.left
  <2>1. Len(Front(has)) = 0
    BY <1>6, EmptySeq DEF Front
  <2>2. Rooted(g.handlers, ~g.left)
    BY <1>4, <2>1 DEF Rooted
  <2> QED
    BY <1>1, <1>4, <1>6, <2>2 DEF Whole, Half
<1> QED
  BY <1>5, <1>6
LEMMA BlockTypes == Block \in Construct /\ Loop \in Construct /\ ~Handling(Block) /\ ~Handling(Loop)
<1>1. <<>> \in Seq(BOOLEAN)
  OBVIOUS
<1> QED
  BY <1>1 DEF Block, Loop, Construct, Handling

LEMMA BeginStep ==
  ASSUME HInv, NEW m, misled => m, BeginBlock \/ BeginLoop
  PROVE  Kept(m)
<1>1. PICK c \in {Block, Loop} :
        status = "running" /\ frames' = [frames EXCEPT ![Len(frames)].path = Append(F.path, c)]
  BY DEF BeginBlock, BeginLoop, Running, Goto
<1>2. PICK p, q : p = F.path /\ q = Append(p, c)
  OBVIOUS
<1>3. p \in Seq(Construct) /\ c \in Construct /\ ~Handling(c)
  BY <1>1, <1>2, TopFacts, BlockTypes
<1>4. /\ q \in Seq(Construct) /\ Len(q) = Len(p) + 1 /\ \A i \in 1..Len(p) : q[i] = p[i]
      /\ ~Handling(q[Len(q)])
  BY <1>2, <1>3, AppendFacts
<1>5. Installed(q) = Installed(p) /\ \A k \in Installed(p) : q[k] = p[k] /\ \A i \in 1..(k - 1) : q[i] = p[i]
  BY <1>3, <1>4, InstalledNext
<1>6. frames' = [frames EXCEPT ![Len(frames)].path = q]
  BY <1>1, <1>2
<1>7. /\ Installed(q) \subseteq Installed(F.path)
      /\ \A k \in Installed(q) : q[k].class = F.path[k].class
      /\ ~m => Installed(q) = Installed(F.path)
               /\ \A k \in Installed(q) : \A i \in 1..(k - 1) : q[i] = F.path[i]
  BY <1>2, <1>5
<1> QED
  BY <1>1, <1>4, <1>6, <1>7, PathChanges

(* a step that leaves the first n constructs alone, and no other handler *)
LEMMA PathKeeps ==
  ASSUME HInv, status = "running", NEW m, misled => m, NEW q \in Seq(Construct),
         frames' = [frames EXCEPT ![Len(frames)].path = q],
         NEW n \in Nat, n <= Len(F.path), n <= Len(q),
         \A i \in 1..n : q[i] = F.path[i],
         \A i \in (n + 1)..Len(q) : ~Handling(q[i]),
         m \/ \A i \in (n + 1)..Len(F.path) : ~Handling(F.path[i])
  PROVE  Kept(m)
<1>1. PICK p : p = F.path
  OBVIOUS
<1>2. p \in Seq(Construct)
  BY <1>1, TopFacts
<1>3. /\ Installed(q) \subseteq Installed(p)
      /\ \A k \in Installed(q) : /\ q[k].class = p[k].class
                                 /\ \A i \in 1..(k - 1) : q[i] = p[i]
  BY <1>1, <1>2, InstalledBelow
<1>4. ~m => Installed(q) = Installed(p)
  <2>1. SUFFICES ASSUME ~m PROVE Installed(q) = Installed(p)
    OBVIOUS
  <2>2. \A i \in (n + 1)..Len(p) : ~Handling(p[i])
    BY <1>1, <2>1
  <2> QED
    BY <1>1, <1>2, <2>2, InstalledStays
<1> QED
  BY <1>1, <1>3, <1>4, PathChanges

LEMMA FrontKeeps ==
  ASSUME HInv, status = "running", NEW m, misled => m, F.path # <<>>,
         frames' = [frames EXCEPT ![Len(frames)].path = Front(F.path)],
         m \/ ~Handling(F.path[Len(F.path)])
  PROVE  Kept(m)
<1>1. PICK p, q, n : p = F.path /\ q = Front(p) /\ n = Len(p) - 1
  OBVIOUS
<1>2. p \in Seq(Construct)
  BY <1>1, TopFacts
<1>3. /\ q \in Seq(Construct) /\ n \in Nat /\ n <= Len(p) /\ n <= Len(q) /\ n + 1 = Len(p)
      /\ Len(q) = n /\ \A i \in 1..n : q[i] = p[i]
  BY <1>1, <1>2, FrontFacts
<1>4. \A i \in (n + 1)..Len(q) : ~Handling(q[i])
  BY <1>3
<1>5. m \/ \A i \in (n + 1)..Len(p) : ~Handling(p[i])
  BY <1>1, <1>3
<1>6. frames' = [frames EXCEPT ![Len(frames)].path = q]
  BY <1>1
<1> QED
  BY <1>1, <1>3, <1>4, <1>5, <1>6, PathKeeps

LEMMA EndStep ==
  ASSUME HInv, NEW m, misled => m, EndBlock \/ EndLoop \/ Resume \/ EndFinally,
         EndFinally /\ In("raised") => m
  PROVE  Kept(m)
<1>1. /\ status = "running" /\ F.path # <<>>
      /\ frames' = [frames EXCEPT ![Len(frames)].path = Front(F.path)]
  BY DEF EndBlock, EndLoop, Resume, EndFinally, InTry, InBlock, In, Running, Goto
<1>2. m \/ ~Handling(F.path[Len(F.path)])
  BY DEF EndBlock, EndLoop, Resume, EndFinally, InTry, InBlock, In, Handling, Top, Last
<1> QED
  BY <1>1, <1>2, FrontKeeps

(* The last construct of a path becomes another that has no handler. *)
LEMMA LastChanged ==
  ASSUME NEW p \in Seq(Construct), p # <<>>, NEW c \in Construct, ~Handling(c),
         NEW q \in Seq(Construct), Len(q) = Len(p), q[Len(p)] = c,
         \A i \in 1..Len(p) : i # Len(p) => q[i] = p[i]
  PROVE  /\ Len(p) - 1 \in Nat
         /\ Len(p) - 1 <= Len(p) /\ Len(p) - 1 <= Len(q)
         /\ \A i \in 1..(Len(p) - 1) : q[i] = p[i]
         /\ \A i \in Len(p)..Len(q) : ~Handling(q[i])
<1>1. Len(p) \in Nat /\ Len(p) >= 1
  BY EmptySeq, LenProperties
<1>3. \A i \in Len(p)..Len(q) : i = Len(p)
  BY <1>1
<1>4. \A i \in Len(p)..Len(q) : ~Handling(q[i])
  BY <1>3
<1>5. \A i \in 1..(Len(p) - 1) : i \in 1..Len(p) /\ i # Len(p)
  BY <1>1
<1> QED
  BY <1>1, <1>4, <1>5

LEMMA LastBecomes ==
  ASSUME NEW p \in Seq(Construct), p # <<>>, NEW c \in Construct, ~Handling(c)
  PROVE  LET q == [p EXCEPT ![Len(p)] = c] IN
         /\ q \in Seq(Construct) /\ Len(q) = Len(p) /\ Len(p) - 1 \in Nat
         /\ Len(p) - 1 <= Len(p) /\ Len(p) - 1 <= Len(q)
         /\ \A i \in 1..(Len(p) - 1) : q[i] = p[i]
         /\ \A i \in Len(p)..Len(q) : ~Handling(q[i])
<1>1. Len(p) \in Nat /\ Len(p) >= 1
  BY EmptySeq, LenProperties
<1>2. PICK q : q = [p EXCEPT ![Len(p)] = c]
  OBVIOUS
<1>3. q \in Seq(Construct) /\ Len(q) = Len(p) /\ q[Len(p)] = c
      /\ \A i \in 1..Len(p) : i # Len(p) => q[i] = p[i]
  BY <1>1, <1>2, LastReplaced
<1>4. /\ Len(p) - 1 \in Nat
      /\ Len(p) - 1 <= Len(p) /\ Len(p) - 1 <= Len(q)
      /\ \A i \in 1..(Len(p) - 1) : q[i] = p[i]
      /\ \A i \in Len(p)..Len(q) : ~Handling(q[i])
  BY <1>3, LastChanged
<1> QED
  BY <1>2, <1>3, <1>4

LEMMA DeclareLocalStep ==
  ASSUME HInv, NEW m, misled => m, NEW captured \in BOOLEAN, DeclareLocal(captured)
  PROVE  Kept(m)
<1>1. PICK p, c, d, q, n : /\ p = F.path /\ c = p[Len(p)] /\ n = Len(p) - 1
                           /\ d = [c EXCEPT !.locals = Append(c.locals, captured)]
                           /\ q = [p EXCEPT ![Len(p)] = d]
  OBVIOUS
<1>2. /\ status = "running" /\ p # <<>> /\ c.kind = "block"
      /\ frames' = [frames EXCEPT ![Len(frames)].path =
                      [p EXCEPT ![Len(p)].locals = Append(@, captured)]]
  BY <1>1 DEF DeclareLocal, InBlock, Running, Goto, Top, Last
<1>3. p \in Seq(Construct) /\ Len(p) \in Nat /\ Len(p) >= 1 /\ c \in Construct
  <2>1. p \in Seq(Construct)
    BY <1>1, <1>2, TopFacts
  <2>2. Len(p) \in Nat /\ Len(p) >= 1
    BY <1>2, <2>1, EmptySeq, LenProperties
  <2> QED
    BY <1>1, <2>1, <2>2
<1>4. c \in [kind : {"block", "loop"}, locals : Seq(BOOLEAN)]
  BY <1>2, <1>3 DEF Construct, TryType
<1>5. Append(c.locals, captured) \in Seq(BOOLEAN)
  BY <1>4, AppendFacts
<1>6. d \in Construct /\ ~Handling(d) /\ ~Handling(c)
  <2>1. d \in [kind : {"block", "loop"}, locals : Seq(BOOLEAN)] /\ d.kind = "block"
    BY <1>1, <1>2, <1>4, <1>5
  <2> QED
    BY <1>2, <2>1 DEF Construct, Handling
<1>7. /\ q \in Seq(Construct) /\ Len(q) = Len(p) /\ n \in Nat /\ n <= Len(p) /\ n <= Len(q)
      /\ n + 1 = Len(p) /\ \A i \in 1..n : q[i] = p[i]
      /\ \A i \in (n + 1)..Len(q) : ~Handling(q[i])
  <2>1. /\ q \in Seq(Construct) /\ Len(q) = Len(p)
        /\ \A i \in 1..(Len(p) - 1) : q[i] = p[i]
        /\ \A i \in Len(p)..Len(q) : ~Handling(q[i])
    <3>1. q = [p EXCEPT ![Len(p)] = d] /\ p # <<>>
      BY <1>1, <1>2
    <3>2. p \in Seq(Construct) /\ d \in Construct /\ ~Handling(d)
      BY <1>3, <1>6
    <3> QED
      BY <3>1, <3>2, LastBecomes
  <2>2. n \in Nat /\ n + 1 = Len(p) /\ n <= Len(p)
    BY <1>1, <1>3
  <2> QED
    BY <1>1, <2>1, <2>2
<1>8. \A i \in (n + 1)..Len(p) : ~Handling(p[i])
  BY <1>1, <1>3, <1>6, <1>7
<1>9. frames' = [frames EXCEPT ![Len(frames)].path = q]
  <2>1. q = [p EXCEPT ![Len(p)].locals = Append(@, captured)]
    BY <1>1
  <2> QED
    BY <1>2, <2>1
<1> QED
  <2>1. m \/ \A i \in (n + 1)..Len(F.path) : ~Handling(F.path[i])
    BY <1>1, <1>8
  <2>2. n <= Len(F.path) /\ \A i \in 1..n : q[i] = F.path[i]
    BY <1>1, <1>7
  <2> QED
    BY <1>2, <1>7, <1>9, <2>1, <2>2, PathKeeps

LEMMA LeaveLoopStep ==
  ASSUME ~Leaving, HInv, NEW m, misled => m, NEW again \in BOOLEAN, LeaveLoop(again)
  PROVE  Kept(m)
<1>1. PICK k \in 1..Len(F.path) :
        /\ status = "running" /\ F.path[k].kind = "loop"
        /\ \A i \in (k + 1)..Len(F.path) : ~Handling(F.path[i])
        /\ frames' = [frames EXCEPT ![Len(frames)].path = SubSeq(F.path, 1, IF again THEN k ELSE k - 1)]
  BY DEF LeaveLoop, Running, Goto
<1>2. PICK p, n, q : p = F.path /\ n = (IF again THEN k ELSE k - 1) /\ q = SubSeq(p, 1, n)
  OBVIOUS
<1>3. p \in Seq(Construct) /\ Len(p) \in Nat /\ k \in 1..Len(p)
  BY <1>1, <1>2, TopFacts
<1>4. n \in Nat /\ n <= Len(p) /\ n \in 0..Len(p) /\ (n = k \/ n + 1 = k)
  BY <1>1, <1>2, <1>3
<1>5. q \in Seq(Construct) /\ Len(q) = n /\ \A i \in 1..n : q[i] = p[i]
  BY <1>2, <1>3, <1>4, PrefixFacts
<1>6. n <= Len(q) /\ \A i \in (n + 1)..Len(q) : ~Handling(q[i])
  BY <1>4, <1>5
<1>7. ~Handling(p[k]) /\ \A i \in (k + 1)..Len(p) : ~Handling(p[i])
  BY <1>1, <1>2 DEF Handling
<1>8. \A i \in (n + 1)..Len(p) : i = k \/ i \in (k + 1)..Len(p)
  BY <1>3, <1>4
<1>9. \A i \in (n + 1)..Len(p) : ~Handling(p[i])
  BY <1>7, <1>8
<1>10. frames' = [frames EXCEPT ![Len(frames)].path = q]
  BY <1>1, <1>2
<1> QED
  <2>1. m \/ \A i \in (n + 1)..Len(F.path) : ~Handling(F.path[i])
    BY <1>2, <1>9
  <2>2. n <= Len(F.path) /\ \A i \in 1..n : q[i] = F.path[i]
    BY <1>2, <1>4, <1>5
  <2> QED
    BY <1>1, <1>4, <1>5, <1>6, <1>10, <2>1, <2>2, PathKeeps

LEMMA NoHandlers ==
  ASSUME NEW p, Installed(p) = {}, NEW left
  PROVE  Rooted(<<>>, ~left) /\ Exact(p, <<>>) /\ Embeds(p, <<>>, Len(<<>>))
<1>1. Len(<<>>) = 0 /\ 1..0 = {}
  OBVIOUS
<1>2. Rooted(<<>>, ~left) /\ Exact(p, <<>>)
  BY <1>1 DEF Rooted, Exact
<1>3. Embeds(p, <<>>, 0)
  <2>1. PICK at : at = [k \in {} |-> 0]
    OBVIOUS
  <2>2. at \in [{} -> 1..0]
    BY <2>1
  <2> QED
    BY <2>2 DEF Embeds
<1> QED
  BY <1>1, <1>2, <1>3

LEMMA NewFrame ==
  ASSUME NEW fs, NEW m, Good(fs, m), NEW slots, NEW line \in BOOLEAN,
         NEW p \in Seq(Construct), Installed(p) = {}
  PROVE  Good(Append(fs, Frame(slots, p, line)), m) /\ Append(fs, Frame(slots, p, line)) # <<>>
<1>1. PICK g : g = Frame(slots, p, line)
  OBVIOUS
<1>2. <<>> \in Seq(Handler)
  OBVIOUS
<1>3. g \in FrameType({slots}) /\ g.path = p /\ g.handlers = <<>>
  BY <1>1, <1>2 DEF Frame, FrameType
<1>4. Whole(g, m)
  BY <1>3, NoHandlers DEF Whole, Half
<1>5. Good(Append(fs, g), m)
  BY <1>3, <1>4, GoodAppend
<1>6. Append(fs, g) # <<>>
  <2>1. PICK S : fs \in Seq(S)
    BY DEF Good
  <2>2. PICK R : R = S \cup {g}
    OBVIOUS
  <2>3. fs \in Seq(R) /\ g \in R
    BY <2>1, <2>2, SeqGrows
  <2> QED
    BY <2>3, AppendFacts, EmptySeq
<1> QED
  BY <1>1, <1>5, <1>6

LEMMA CallStep ==
  ASSUME HInv, NEW m, misled => m, NewLine \/ Call
  PROVE  Kept(m)
<1>1. \/ frames' = <<>> /\ status' # "running"
      \/ \E slots : \E line \in BOOLEAN, p \in {<<>>, <<Block>>} :
           frames' = Append(frames, Frame(slots, p, line))
  BY DEF NewLine, Call, Stray, ResetStack
<1>2. CASE frames' = <<>> /\ status' # "running"
  BY <1>2, GoodNone DEF Kept
<1>3. CASE \E slots : \E line \in BOOLEAN, p \in {<<>>, <<Block>>} :
           frames' = Append(frames, Frame(slots, p, line))
  <2>a. PICK slots : \E line \in BOOLEAN, p \in {<<>>, <<Block>>} :
                      frames' = Append(frames, Frame(slots, p, line))
    BY <1>3
  <2>1. PICK line \in BOOLEAN, p \in {<<>>, <<Block>>} : frames' = Append(frames, Frame(slots, p, line))
    BY <2>a
  <2>2. p \in Seq(Construct) /\ Installed(p) = {}
    <3>1. CASE p = <<>>
      BY <3>1 DEF Installed
    <3>2. CASE p = <<Block>>
      <4>1. p \in Seq(Construct) /\ Len(p) = 1 /\ p[1] = Block
        BY <3>2, BlockTypes
      <4> QED
        BY <4>1, BlockTypes DEF Installed
    <3> QED
      BY <3>1, <3>2
  <2>3. Good(frames, m)
    <3>1. Good(frames, misled)
      BY DEF HInv
    <3> QED
      BY <3>1, WholeLater DEF Good
  <2> QED
    BY <2>1, <2>2, <2>3, NewFrame DEF Kept
<1> QED
  BY <1>1, <1>2, <1>3

LEMMA ReturnStep ==
  ASSUME HInv, NEW m, misled => m, Return
  PROVE  Kept(m)
<1>1. /\ status = "running" /\ frames' = Front(frames)
      /\ Len(frames) = 1 => status' = "prompt"
  BY DEF Return, Running
<1>2. PICK S : frames \in Seq(FrameType(S))
  BY <1>1, TopFacts
<1>3. Len(frames) \in Nat /\ Len(frames) >= 1 /\ frames # <<>> /\ Good(frames, misled)
  BY <1>1, TopFacts
<1>4. PICK t, k : t = Front(frames) /\ k = Len(frames) - 1
  OBVIOUS
<1>5. t = SubSeq(frames, 1, k) /\ Len(t) = k /\ k \in 0..Len(frames) /\ t \in Seq(FrameType(S))
  BY <1>2, <1>3, <1>4, FrontFacts
<1>6. \A j \in 1..k : Whole(frames[j], m)
  <2>1. \A j \in 1..k : j \in 1..Len(frames)
    BY <1>3, <1>4
  <2> QED
    BY <1>3, <2>1, WholeLater DEF Good
<1>7. Good(t, m)
  BY <1>2, <1>5, <1>6, GoodPrefix
<1>8. Len(frames) # 1 => t # <<>>
  <2>1. Len(frames) # 1 => Len(t) >= 1
    BY <1>3, <1>4, <1>5
  <2> QED
    BY <2>1, EmptySeq
<1> QED
  BY <1>1, <1>4, <1>7, <1>8 DEF Kept

LEMMA ThrowStep ==
  ASSUME HInv, NEW m, misled => m, NEW v, Throw(v)
  PROVE  Kept(m)
<1>1. status = "running" /\ Propagate(frames, v, Append(stack, v))
  BY DEF Throw, Running
<1>2. /\ Len(frames) \in Nat /\ Len(frames) >= 1 /\ frames # <<>> /\ Good(frames, misled)
      /\ \E S : frames \in Seq(FrameType(S))
  BY <1>1, TopFacts
<1>3. \A j \in 1..Len(frames) : Whole(frames[j], m)
  BY <1>2, WholeLater DEF Good
<1>4. Len(frames) \in 1..Len(frames) /\ \A j \in 1..(Len(frames) - 1) : j \in 1..Len(frames)
  BY <1>2
<1>5. Throwing(frames, m)
  BY <1>2, <1>3, <1>4 DEF Throwing, Whole
<1> QED
  BY <1>1, <1>5, PropagateGood DEF Kept

LEMMA BeginTryStep ==
  ASSUME HInv, NEW m, misled => m, NEW c \in Class, NEW kind \in Kinds, BeginTry(c, kind)
  PROVE  Kept(m)
<1>1. PICK t, f, p, has, q, h : /\ t = Try(c, kind) /\ f = F /\ p = f.path /\ has = f.handlers
                                /\ q = Append(p, t)
                                /\ h = [class |-> c, catch |-> kind.catch,
                                        final |-> kind.final, path |-> q]
  OBVIOUS
<1>2. /\ status = "running"
      /\ \/ frames' = [frames EXCEPT ![Len(frames)].handlers = Append(@, h),
                                     ![Len(frames)].path = Append(@, t)]
         \/ frames' = <<>> /\ status' = "stray"
  BY <1>1 DEF BeginTry, Running, Stray
<1>3. CASE frames' = <<>> /\ status' = "stray"
  BY <1>3, GoodNone DEF Kept
<1>4. CASE frames' = [frames EXCEPT ![Len(frames)].handlers = Append(@, h),
                                    ![Len(frames)].path = Append(@, t)]
  <2>1. PICK S : frames \in Seq(FrameType(S)) /\ f \in FrameType(S)
    BY <1>1, <1>2, TopFacts
  <2>2. /\ p \in Seq(Construct) /\ has \in Seq(Handler) /\ Len(p) \in Nat /\ Len(has) \in Nat
        /\ Whole(f, misled) /\ f = frames[Len(frames)] /\ Len(frames) >= 1 /\ Len(frames) \in Nat
    BY <1>1, <1>2, TopFacts
  <2>3. t \in TryType /\ t \in Construct /\ Handling(t) /\ t.class = c /\ t.phase = "body" /\ t.locals = <<>>
    <3>1. kind.named \in BOOLEAN /\ kind.final \in BOOLEAN /\ <<>> \in Seq(BOOLEAN)
      BY ExceptionsAssumption
    <3> QED
      BY <1>1, <3>1 DEF Try, TryType, Phases, Value, Thrown, Construct, Handling
  <2>4. /\ q \in Seq(Construct) /\ Len(q) = Len(p) + 1 /\ q[Len(p) + 1] = t
        /\ \A i \in 1..Len(p) : q[i] = p[i]
    BY <1>1, <2>2, <2>3, AppendFacts
  <2>5. h \in Handler /\ h.path = q /\ h.class = c
    BY <1>1, <2>4, ExceptionsAssumption DEF Handler
  <2>6. PICK has2 : has2 = Append(has, h)
    OBVIOUS
  <2>7. /\ has2 \in Seq(Handler) /\ Len(has2) = Len(has) + 1 /\ has2[Len(has) + 1] = h
        /\ \A i \in 1..Len(has) : has2[i] = has[i]
    BY <2>2, <2>5, <2>6, AppendFacts
  <2>8. q # <<>> /\ Len(q) = Len(p) + 1 /\ q[Len(q)] = t /\ Handling(q[Len(q)]) /\ q[Len(q)].class = c
    BY <2>2, <2>3, <2>4
  <2>9. Front(q) = p
    BY <1>1, <2>2, <2>3, FrontOfAppend
  <2>10. Half(f, misled)
    BY <2>2 DEF Whole
  <2>11. Pushed(h)
    BY <2>3, <2>5, <2>8 DEF Pushed
  <2>12. Rooted(has2, ~f.left)
    <3>1. Rooted(has, ~f.left)
      BY <1>1, <2>10 DEF Half
    <3>2. ~f.left => Embeds(Front(h.path), has, Len(has))
      BY <1>1, <2>2, <2>5, <2>9 DEF Whole
    <3> QED
      BY <2>2, <2>5, <2>6, <2>11, <3>1, <3>2, RootedPush
  <2>13. ~f.left => Embeds(q, has2, Len(has2))
    <3>1. SUFFICES ASSUME ~f.left PROVE Embeds(q, has2, Len(has2))
      OBVIOUS
    <3>2. PICK l, k : l = Len(has) /\ k = Len(q)
      OBVIOUS
    <3>3. l \in Nat /\ k \in Nat /\ Embeds(p, has, l) /\ Len(has2) = l + 1
      <4>1. Embeds(p, has, l)
        BY <1>1, <2>2, <3>1, <3>2 DEF Whole
      <4>2. l \in Nat /\ k \in Nat /\ Len(has2) = l + 1
        BY <2>2, <2>7, <2>8, <3>2
      <4> QED
        BY <4>1, <4>2
    <3>4. Installed(q) = Installed(p) \cup {k} /\ Installed(p) \subseteq Nat
          /\ \A i \in Installed(p) : i < k /\ q[i].class = p[i].class
      BY <2>2, <2>4, <2>8, <3>2, InstalledNext
    <3>5. has2[l + 1].class = q[k].class /\ \A i \in 1..l : has2[i].class = has[i].class
      BY <2>5, <2>7, <2>8, <3>2
    <3>6. Embeds(q, has2, l + 1)
      BY <3>3, <3>4, <3>5, EmbedsPush
    <3> QED
      BY <3>3, <3>6
  <2>14. ~m => Exact(q, has2)
    <3>1. ~m => Exact(p, has)
      BY <1>1, <2>10 DEF Half
    <3>2. h.class = q[Len(q)].class
      BY <2>5, <2>8
    <3> QED
      BY <2>2, <2>4, <2>5, <2>6, <2>8, <3>1, <3>2, ExactPush
  <2>15. PICK g : g = [f EXCEPT !.handlers = has2, !.path = q]
    OBVIOUS
  <2>16. g \in FrameType(S) /\ g.handlers = has2 /\ g.path = q /\ g.left = f.left
    BY <2>1, <2>4, <2>7, <2>15 DEF FrameType
  <2>17. Whole(g, m)
    BY <2>12, <2>13, <2>14, <2>16 DEF Whole, Half
  <2>18. frames' = [frames EXCEPT ![Len(frames)] = g]
    <3>1. g = [f EXCEPT !.handlers = Append(@, h), !.path = Append(@, t)]
      BY <1>1, <2>6, <2>15
    <3> QED
      BY <1>4, <2>1, <2>2, <3>1
  <2> QED
    BY <1>2, <2>16, <2>17, <2>18, TopBecomes
<1> QED
  BY <1>2, <1>3, <1>4

-----------------------------------------------------------------------------
(* The ends of try statements *)

(* the path that AfterTry leaves *)
LEMMA AfterTryIs ==
  ASSUME HInv, status = "running", F.path # <<>>, Top.kind = "try",
         NEW hs, NEW st, AfterTry(hs, st)
  PROVE  \E q \in Seq(Construct) :
           /\ frames' = [frames EXCEPT ![Len(frames)] = [F EXCEPT !.handlers = hs, !.path = q]]
           /\ Len(F.path) - 1 <= Len(q) /\ \A i \in 1..(Len(F.path) - 1) : q[i] = F.path[i]
           /\ \A i \in Len(F.path)..Len(q) : ~Handling(q[i])
           /\ Top.final => q = [F.path EXCEPT ![Len(F.path)] =
                                  [@ EXCEPT !.phase = "finally", !.locals = <<>>]]
           /\ ~Top.final => q = Front(F.path)
<1>a. PICK S : frames \in Seq(FrameType(S)) /\ F \in FrameType(S)
  BY TopFacts
<1>1. PICK p, c, d : /\ p = F.path /\ c = p[Len(p)]
                     /\ d = [c EXCEPT !.phase = "finally", !.locals = <<>>]
  OBVIOUS
<1>2. /\ p \in Seq(Construct) /\ Len(p) \in Nat /\ p # <<>> /\ F = frames[Len(frames)]
      /\ Len(frames) \in Nat /\ Len(frames) >= 1 /\ c = Top
  BY <1>1, TopFacts DEF Top, Last
<1>3. CASE Top.final
  <2>1. frames' = [frames EXCEPT ![Len(frames)].handlers = hs, ![Len(frames)].path[Len(p)] =
                      [@ EXCEPT !.phase = "finally", !.locals = <<>>]]
    BY <1>1, <1>3 DEF AfterTry
  <2>2. Len(p) >= 1
    BY <1>2, EmptySeq, LenProperties
  <2>3. c \in TryType
    <3>1. c \in Construct /\ c.kind = "try"
      BY <1>1, <1>2, <2>2
    <3> QED
      BY <3>1 DEF Construct
  <2>4. d \in TryType /\ d.phase = "finally"
    <3>1. <<>> \in Seq(BOOLEAN)
      OBVIOUS
    <3> QED
      BY <1>1, <2>3, <3>1 DEF TryType, Phases
  <2>5. d \in Construct /\ ~Handling(d)
    BY <2>4 DEF Construct, Handling
  <2>6. PICK q : q = [p EXCEPT ![Len(p)] = d]
    OBVIOUS
  <2>7. /\ q \in Seq(Construct) /\ Len(p) - 1 <= Len(q)
        /\ \A i \in 1..(Len(p) - 1) : q[i] = p[i]
        /\ \A i \in Len(p)..Len(q) : ~Handling(q[i])
    BY <1>2, <2>5, <2>6, LastBecomes
  <2>8. q = [p EXCEPT ![Len(p)] = [@ EXCEPT !.phase = "finally", !.locals = <<>>]]
    BY <1>1, <2>6
  <2>9. frames' = [frames EXCEPT ![Len(frames)] = [F EXCEPT !.handlers = hs, !.path = q]]
    <3>1. [F EXCEPT !.handlers = hs, !.path = q]
            = [F EXCEPT !.handlers = hs, !.path[Len(p)] = [@ EXCEPT !.phase = "finally", !.locals = <<>>]]
      BY <1>1, <1>a, <2>8 DEF FrameType
    <3> QED
      BY <1>2, <1>a, <2>1, <3>1
  <2> QED
    BY <1>1, <1>3, <2>7, <2>8, <2>9
<1>4. CASE ~Top.final
  <2>1. frames' = [frames EXCEPT ![Len(frames)].handlers = hs, ![Len(frames)].path = Front(@)]
    BY <1>4 DEF AfterTry
  <2>2. PICK q : q = Front(p)
    OBVIOUS
  <2>3. q \in Seq(Construct) /\ Len(q) = Len(p) - 1 /\ \A i \in 1..(Len(p) - 1) : q[i] = p[i]
    BY <1>2, <2>2, FrontFacts
  <2>4. Len(p) - 1 <= Len(q) /\ \A i \in Len(p)..Len(q) : ~Handling(q[i])
    BY <1>2, <2>3
  <2>5. frames' = [frames EXCEPT ![Len(frames)] = [F EXCEPT !.handlers = hs, !.path = q]]
    <3>1. [F EXCEPT !.handlers = hs, !.path = q] = [F EXCEPT !.handlers = hs, !.path = Front(@)]
      BY <1>1, <1>a, <2>2 DEF FrameType
    <3> QED
      BY <1>2, <1>a, <2>1, <3>1
  <2> QED
    BY <1>1, <1>4, <2>2, <2>3, <2>4, <2>5
<1> QED
  BY <1>3, <1>4

LEMMA EndTryStep ==
  ASSUME HInv, NEW m, misled => m, EndTry
  PROVE  Kept(m)
<1>1. /\ status = "running" /\ F.path # <<>> /\ Top.kind = "try" /\ Top.phase = "body"
      /\ AfterTry(Front(F.handlers), stack) \/ (frames' = <<>> /\ status' = "stray")
  BY DEF EndTry, InTry, In, Running, Stray
<1>2. CASE frames' = <<>> /\ status' = "stray"
  BY <1>2, GoodNone DEF Kept
<1>3. CASE AfterTry(Front(F.handlers), stack)
  <2>1. PICK q \in Seq(Construct) :
          /\ frames' = [frames EXCEPT ![Len(frames)] =
                          [F EXCEPT !.handlers = Front(F.handlers), !.path = q]]
          /\ Len(F.path) - 1 <= Len(q) /\ \A i \in 1..(Len(F.path) - 1) : q[i] = F.path[i]
          /\ \A i \in Len(F.path)..Len(q) : ~Handling(q[i])
    BY <1>1, <1>3, AfterTryIs
  <2>2. Handling(F.path[Len(F.path)])
    BY <1>1 DEF Top, Last, Handling
  <2>3. PICK g : g = [F EXCEPT !.handlers = Front(@), !.path = q]
    OBVIOUS
  <2>4. (\E S : g \in FrameType(S)) /\ Whole(g, m)
    BY <1>1, <2>1, <2>2, <2>3, HandlerTaken
  <2>5. frames' = [frames EXCEPT ![Len(frames)] = g]
    <3>1. \E S : F \in FrameType(S)
      BY <1>1, TopFacts
    <3>2. g = [F EXCEPT !.handlers = Front(F.handlers), !.path = q]
      BY <2>3, <3>1 DEF FrameType
    <3> QED
      BY <2>1, <3>2
  <2> QED
    BY <1>1, <2>4, <2>5, TopBecomes
<1> QED
  BY <1>1, <1>2, <1>3

LEMMA EndCatchStep ==
  ASSUME HInv, NEW m, misled => m, EndCatch
  PROVE  Kept(m)
<1>1. PICK st : /\ status = "running" /\ F.path # <<>> /\ Top.kind = "try" /\ Top.phase = "catch"
                /\ AfterTry(F.handlers, st)
  BY DEF EndCatch, InTry, In, Running
<1>2. PICK q \in Seq(Construct) :
        /\ frames' = [frames EXCEPT ![Len(frames)] =
                        [F EXCEPT !.handlers = F.handlers, !.path = q]]
        /\ Len(F.path) - 1 <= Len(q) /\ \A i \in 1..(Len(F.path) - 1) : q[i] = F.path[i]
        /\ \A i \in Len(F.path)..Len(q) : ~Handling(q[i])
  BY <1>1, AfterTryIs
<1>3. ~Handling(F.path[Len(F.path)])
  BY <1>1 DEF Top, Last, Handling
<1>4. PICK p, n : p = F.path /\ n = Len(p) - 1
  OBVIOUS
<1>5. p \in Seq(Construct) /\ Len(p) \in Nat /\ Len(p) >= 1
  <2>1. p \in Seq(Construct) /\ p # <<>>
    BY <1>1, <1>4, TopFacts
  <2> QED
    BY <2>1, EmptySeq, LenProperties
<1>6. n \in Nat /\ n + 1 = Len(p) /\ n <= Len(p) /\ n <= Len(q)
  BY <1>2, <1>4, <1>5
<1>7. \A i \in 1..n : q[i] = p[i]
  BY <1>2, <1>4
<1>8. \A i \in (n + 1)..Len(q) : ~Handling(q[i])
  BY <1>2, <1>4, <1>6
<1>9. m \/ \A i \in (n + 1)..Len(p) : ~Handling(p[i])
  BY <1>3, <1>4, <1>5, <1>6
<1>10. frames' = [frames EXCEPT ![Len(frames)].path = q]
  <2>1. \E S : F \in FrameType(S)
    BY <1>1, TopFacts
  <2>2. [F EXCEPT !.handlers = F.handlers, !.path = q] = [F EXCEPT !.path = q]
    BY <2>1 DEF FrameType
  <2>3. F = frames[Len(frames)]
    BY DEF F
  <2> QED
    BY <1>2, <2>2, <2>3
<1> QED
  BY <1>1, <1>4, <1>6, <1>7, <1>8, <1>9, <1>10, PathKeeps

(* the construct on top in another phase, without its handler *)
LEMMA PhaseChanges ==
  ASSUME HInv, status = "running", F.path # <<>>, Top.kind = "try",
         NEW d \in TryType, ~Handling(d), NEW q, q = [F.path EXCEPT ![Len(F.path)] = d]
  PROVE  /\ q \in Seq(Construct) /\ Len(F.path) - 1 <= Len(q)
         /\ \A i \in 1..(Len(F.path) - 1) : q[i] = F.path[i]
         /\ \A i \in Len(F.path)..Len(q) : ~Handling(q[i])
<1>1. F.path \in Seq(Construct) /\ d \in Construct
  BY TopFacts DEF Construct
<1> QED
  BY <1>1, LastBecomes

LEMMA TopIsTry ==
  ASSUME HInv, status = "running", F.path # <<>>, Top.kind = "try"
  PROVE  F.path[Len(F.path)] \in TryType /\ Top = F.path[Len(F.path)]
<1>1. F.path \in Seq(Construct) /\ Len(F.path) \in Nat
  BY TopFacts
<1>2. Len(F.path) >= 1
  BY <1>1, EmptySeq, LenProperties
<1>3. F.path[Len(F.path)] \in Construct /\ Top = F.path[Len(F.path)]
  BY <1>1, <1>2 DEF Top, Last
<1> QED
  BY <1>3 DEF Construct

(* the frame that enters a catch *)
LEMMA EnterCatchIs ==
  ASSUME HInv, NEW captured \in BOOLEAN, EnterCatch(captured),
         NEW d, d = [Top EXCEPT !.phase = "catch",
                                !.locals = IF Top.named THEN <<captured>> ELSE <<>>],
         NEW q, q = [F.path EXCEPT ![Len(F.path)] = d]
  PROVE  /\ d \in TryType /\ q \in Seq(Construct)
         /\ \E S : \E g \in FrameType(S) :
              /\ g.slots = F.slots /\ g.path = q /\ Whole(g, misled)
              /\ frames' = [frames EXCEPT ![Len(frames)] = g]
<1>1. /\ status = "running" /\ F.path # <<>> /\ Top.kind = "try" /\ Top.phase = "landed"
  BY DEF EnterCatch, In
<1>2. PICK p, c, ls : p = F.path /\ c = p[Len(p)] /\ ls = (IF Top.named THEN <<captured>> ELSE <<>>)
  OBVIOUS
<1>3. c \in TryType /\ Handling(c) /\ c = Top
  BY <1>1, <1>2, TopIsTry DEF Handling
<1>4. d \in TryType /\ ~Handling(d)
  <2>1. ls \in Seq(BOOLEAN)
    <3>1. <<captured>> \in Seq(BOOLEAN) /\ <<>> \in Seq(BOOLEAN)
      OBVIOUS
    <3>2. ls = <<captured>> \/ ls = <<>>
      BY <1>2
    <3> QED
      BY <3>1, <3>2
  <2>2. d \in TryType /\ d.phase = "catch"
    BY <1>2, <1>3, <2>1 DEF TryType, Phases
  <2> QED
    BY <2>2 DEF Handling
<1>5. /\ q \in Seq(Construct) /\ Len(F.path) - 1 <= Len(q)
      /\ \A i \in 1..(Len(F.path) - 1) : q[i] = F.path[i]
      /\ \A i \in Len(F.path)..Len(q) : ~Handling(q[i])
  BY <1>1, <1>4, PhaseChanges
<1>6. PICK g : g = [F EXCEPT !.handlers = Front(@), !.path = q]
  OBVIOUS
<1>7. (\E S : g \in FrameType(S)) /\ Whole(g, misled)
  <2>1. Handling(F.path[Len(F.path)])
    BY <1>2, <1>3
  <2> QED
    BY <1>1, <1>5, <1>6, <2>1, HandlerTaken
<1>8. g.slots = F.slots /\ g.path = q /\ frames' = [frames EXCEPT ![Len(frames)] = g]
  <2>1. frames' = [frames EXCEPT
          ![Len(frames)].handlers = Front(@),
          ![Len(frames)].path[Len(p)] = [@ EXCEPT !.phase = "catch", !.locals = ls]]
    BY <1>2 DEF EnterCatch
  <2>2. q = [p EXCEPT ![Len(p)] = [@ EXCEPT !.phase = "catch", !.locals = ls]]
    BY <1>2, <1>3
  <2>3. PICK S : frames \in Seq(FrameType(S)) /\ F \in FrameType(S) /\ F = frames[Len(frames)]
    BY <1>1, TopFacts
  <2>4. g = [F EXCEPT !.handlers = Front(@),
                      !.path[Len(p)] = [@ EXCEPT !.phase = "catch", !.locals = ls]]
    BY <1>2, <1>6, <2>2, <2>3 DEF FrameType
  <2>5. g.slots = F.slots /\ g.path = q
    BY <1>6, <2>3 DEF FrameType
  <2>6. frames' = [frames EXCEPT ![Len(frames)] = g]
    BY <2>1, <2>3, <2>4
  <2> QED
    BY <2>5, <2>6
<1> QED
  BY <1>4, <1>5, <1>7, <1>8

LEMMA EnterCatchStep ==
  ASSUME HInv, NEW m, misled => m, NEW captured \in BOOLEAN, EnterCatch(captured)
  PROVE  Kept(m)
<1>1. PICK d, q : /\ d = [Top EXCEPT !.phase = "catch",
                                     !.locals = IF Top.named THEN <<captured>> ELSE <<>>]
                  /\ q = [F.path EXCEPT ![Len(F.path)] = d]
  OBVIOUS
<1>2. PICK S : \E g \in FrameType(S) :
        Whole(g, misled) /\ frames' = [frames EXCEPT ![Len(frames)] = g]
  BY <1>1, EnterCatchIs
<1>3. PICK g \in FrameType(S) :
        Whole(g, misled) /\ frames' = [frames EXCEPT ![Len(frames)] = g]
  BY <1>2
<1>4. Whole(g, m)
  BY <1>3, WholeLater
<1>5. status = "running"
  BY DEF EnterCatch
<1> QED
  BY <1>3, <1>4, <1>5, TopBecomes

(* what Reraise throws on, and in which frames *)
ReraisedIn(fs, m) ==
  /\ Throwing(fs, m)
  /\ \/ stack' = <<>> /\ frames' = <<>> /\ open' = {} /\ status' = "stray"
     \/ Propagate(fs, stack[Len(stack) - 1], Front(stack))
  /\ \E S : \E g \in FrameType(S) :
       /\ fs = [frames EXCEPT ![Len(frames)] = g]
       /\ g.slots = F.slots
       /\ g.path = [F.path EXCEPT ![Len(F.path)] = [Top EXCEPT !.phase = "leaving"]]

LEMMA ReraiseIs ==
  ASSUME HInv, NEW m, misled => m, Reraise, In("finally") => m
  PROVE  \E fs : ReraisedIn(fs, m)
<1>1. /\ status = "running" /\ F.path # <<>> /\ Top.kind = "try"
      /\ Top.phase = "raised" \/ (Top.phase = "finally" /\ m)
  BY DEF Reraise, InTry, In, Running
<1>2. PICK p, c, d, q : /\ p = F.path /\ c = p[Len(p)]
                        /\ d = [c EXCEPT !.phase = "leaving"]
                        /\ q = [p EXCEPT ![Len(p)] = d]
  OBVIOUS
<1>3. c \in TryType /\ c = Top
  BY <1>1, <1>2, TopIsTry
<1>4. d \in TryType /\ ~Handling(d)
  <2>1. d \in TryType /\ d.phase = "leaving"
    BY <1>2, <1>3 DEF TryType, Phases
  <2> QED
    BY <2>1 DEF Handling
<1>5. /\ q \in Seq(Construct) /\ Len(F.path) - 1 <= Len(q)
      /\ \A i \in 1..(Len(F.path) - 1) : q[i] = F.path[i]
      /\ \A i \in Len(F.path)..Len(q) : ~Handling(q[i])
  BY <1>1, <1>2, <1>4, PhaseChanges
<1>6. PICK g : g = [F EXCEPT !.handlers = Front(@), !.path = q]
  OBVIOUS
<1>7. (\E S : g \in FrameType(S)) /\ Half(g, m)
  <2>1. CASE Top.phase = "raised"
    <3>1. Handling(F.path[Len(F.path)])
      BY <1>1, <1>2, <1>3, <2>1 DEF Handling
    <3> QED
      BY <1>1, <1>5, <1>6, <3>1, HandlerTaken DEF Whole
  <2>2. CASE Top.phase = "finally" /\ m
    <3>1. PICK S : F \in FrameType(S)
      BY <1>1, TopFacts
    <3>2. PICK has, k : has = F.handlers /\ k = Len(has) - 1
      OBVIOUS
    <3>3. has \in Seq(Handler) /\ Len(has) \in Nat /\ Rooted(has, ~F.left)
      BY <1>1, <3>2, TopFacts DEF Whole, Half
    <3>4. Front(has) \in Seq(Handler) /\ Rooted(Front(has), ~F.left)
      <4>1. CASE has = <<>>
        <5>1. Front(has) = <<>>
          BY <4>1 DEF Front
        <5> QED
          BY <3>3, <4>1, <5>1
      <4>2. CASE has # <<>>
        <5>1. Front(has) = SubSeq(has, 1, k) /\ k \in 0..Len(has)
          BY <3>2, <3>3, <4>2, FrontFacts
        <5>2. Front(has) \in Seq(Handler)
          BY <3>3, <4>2, FrontFacts
        <5> QED
          BY <3>3, <5>1, <5>2, RootedPrefix
      <4> QED
        BY <4>1, <4>2
    <3>5. g \in FrameType(S) /\ g.handlers = Front(has) /\ g.left = F.left
      BY <1>5, <1>6, <3>1, <3>2, <3>4 DEF FrameType
    <3> QED
      BY <2>2, <3>4, <3>5 DEF Half
  <2> QED
    BY <1>1, <2>1, <2>2
<1>8. PICK fs : fs = [frames EXCEPT ![Len(frames)] = g]
  OBVIOUS
<1>9. \/ stack' = <<>> /\ frames' = <<>> /\ open' = {} /\ status' = "stray"
      \/ Propagate(fs, stack[Len(stack) - 1], Front(stack))
  <2>1. PICK S : frames \in Seq(FrameType(S)) /\ F \in FrameType(S) /\ F = frames[Len(frames)]
    BY <1>1, TopFacts
  <2>2. q = [p EXCEPT ![Len(p)] = [@ EXCEPT !.phase = "leaving"]]
    BY <1>2
  <2>3. g = [F EXCEPT !.handlers = Front(@), !.path[Len(p)] = [@ EXCEPT !.phase = "leaving"]]
    BY <1>2, <1>6, <2>1, <2>2 DEF FrameType
  <2>4. fs = [frames EXCEPT
                ![Len(frames)].handlers = Front(@),
                ![Len(frames)].path[Len(F.path)] = [@ EXCEPT !.phase = "leaving"]]
    BY <1>2, <1>8, <2>1, <2>3
  <2> QED
    BY <2>4 DEF Reraise, Stray
<1>10. Throwing(fs, m)
  <2>1. PICK S : frames \in Seq(FrameType(S))
    BY <1>1, TopFacts
  <2>2. PICK T : g \in FrameType(T)
    BY <1>7
  <2>3. PICK R : R = S \cup T
    OBVIOUS
  <2>4. frames \in Seq(FrameType(R)) /\ g \in FrameType(R)
    <3>1. FrameType(S) \subseteq FrameType(R) /\ FrameType(T) \subseteq FrameType(R)
      BY <2>3 DEF FrameType
    <3> QED
      BY <2>1, <2>2, <3>1, SeqGrows
  <2>5. Len(frames) \in Nat /\ Len(frames) >= 1 /\ Good(frames, misled)
    BY <1>1, TopFacts
  <2>6. /\ fs \in Seq(FrameType(R)) /\ Len(fs) = Len(frames) /\ fs[Len(frames)] = g
        /\ \A i \in 1..Len(frames) : i # Len(frames) => fs[i] = frames[i]
    BY <1>8, <2>4, <2>5, LastReplaced
  <2>7. fs # <<>>
    BY <2>5, <2>6, EmptySeq
  <2>8. \A j \in 1..(Len(fs) - 1) : j \in 1..Len(frames) /\ j # Len(frames)
    BY <2>5, <2>6
  <2>9. \A j \in 1..Len(frames) : Whole(frames[j], m)
    BY <2>5, WholeLater DEF Good
  <2>10. \A j \in 1..(Len(fs) - 1) : Whole(fs[j], m)
    BY <2>6, <2>8, <2>9
  <2> QED
    BY <1>7, <2>6, <2>7, <2>10 DEF Throwing
<1>11. g.slots = F.slots /\ g.path = q
  <2>1. PICK S : F \in FrameType(S)
    BY <1>1, TopFacts
  <2> QED
    BY <1>6, <2>1 DEF FrameType
<1>12. q = [F.path EXCEPT ![Len(F.path)] = [Top EXCEPT !.phase = "leaving"]]
  BY <1>2, <1>3
<1> QED
  BY ZenonT(60), <1>7, <1>8, <1>9, <1>10, <1>11, <1>12 DEF ReraisedIn

LEMMA ReraiseStep ==
  ASSUME HInv, NEW m, misled => m, Reraise, In("finally") => m
  PROVE  Kept(m)
<1>1. PICK fs : ReraisedIn(fs, m)
  BY ReraiseIs
<1> QED
  BY <1>1, GoodNone, PropagateGood DEF ReraisedIn, Kept

-----------------------------------------------------------------------------
(* The theorems *)

LEMMA NextStep ==
  ASSUME ~Leaving, HInv, Next
  PROVE  HInv'
<1>1. PICK m : m = (misled \/ Misreads)
  OBVIOUS
<1>2. misled => m
  BY <1>1
<1>3. misled \in BOOLEAN
  BY DEF HInv
<1>4. Kept(m)
  <2>1. CASE Statements
    <3>1. EndFinally /\ In("raised") => m
      BY <1>1 DEF Misreads
    <3>2. ASSUME NEW captured \in BOOLEAN, DeclareLocal(captured) PROVE Kept(m)
      BY <1>2, <3>2, DeclareLocalStep
    <3>3. ASSUME NEW again \in BOOLEAN, LeaveLoop(again) PROVE Kept(m)
      BY <1>2, <3>3, LeaveLoopStep
    <3>4. CASE BeginBlock \/ BeginLoop
      BY <1>2, <3>4, BeginStep
    <3>5. CASE EndBlock \/ EndLoop
      BY <1>2, <3>1, <3>5, EndStep
    <3> QED
      BY <2>1, <3>2, <3>3, <3>4, <3>5 DEF Statements
  <2>2. CASE TryStatements
    <3>1. ASSUME NEW c \in Class, NEW kind \in Kinds, BeginTry(c, kind) PROVE Kept(m)
      BY <1>2, <3>1, BeginTryStep
    <3>2. ASSUME NEW captured \in BOOLEAN, EnterCatch(captured) PROVE Kept(m)
      BY <1>2, <3>2, EnterCatchStep
    <3>3. ASSUME NEW v \in Thrown, Throw(v) PROVE Kept(m)
      BY <1>2, <3>3, ThrowStep
    <3>4. CASE EndTry
      BY <1>2, <3>4, EndTryStep
    <3>5. CASE EndCatch
      BY <1>2, <3>5, EndCatchStep
    <3>6. CASE EndFinally
      BY <1>1, <1>2, <3>6, EndStep DEF Misreads
    <3>7. CASE Reraise
      BY <1>1, <1>2, <3>7, ReraiseStep DEF Misreads
    <3>8. CASE Resume
      <4>1. EndFinally /\ In("raised") => m
        BY <1>1 DEF Misreads
      <4> QED
        BY <1>2, <3>8, <4>1, EndStep
    <3> QED
      BY <2>2, <3>1, <3>2, <3>3, <3>4, <3>5, <3>6, <3>7, <3>8 DEF TryStatements
  <2>3. CASE Calls
    <3>1. CASE RuntimeError
      BY <3>1, GoodNone DEF RuntimeError, ResetStack, Kept
    <3> QED
      BY <1>2, <2>3, <3>1, CallStep, ReturnStep DEF Calls
  <2> QED
    BY <2>1, <2>2, <2>3 DEF Next
<1>5. misled' = ((stack' # <<>> \/ frames' # <<>> \/ open' # {}) /\ m)
  BY <1>1 DEF Next
<1>6. CASE frames' # <<>>
  <2>1. misled' = m /\ misled' \in BOOLEAN
    <3>1. m \in BOOLEAN
      BY <1>1, <1>3
    <3> QED
      BY <1>5, <1>6, <3>1
  <2>2. Good(frames', misled')
    BY <1>4, <2>1 DEF Kept
  <2> QED
    BY <1>4, <2>1, <2>2 DEF HInv, Kept, Good
<1>7. CASE frames' = <<>>
  <2>1. misled' \in BOOLEAN
    BY <1>5
  <2>2. Good(frames', misled')
    BY <1>7, GoodNone
  <2> QED
    BY <1>4, <2>1, <2>2 DEF HInv, Kept, Good
<1> QED
  BY <1>6, <1>7

(* The handlers of every frame are those of the try statements around its  *)
(* ip, and of every path that a handler holds: what the code of vm.c keeps *)
(* when no break and no continue leaves a try statement, for any number of *)
(* handlers, frames, exceptions and constructs.                            *)
THEOREM HandlersInvariant == ASSUME ~Leaving PROVE Spec => []HInv
<1>1. Init => HInv
  <2>1. Good(<<>>, FALSE)
    BY GoodNone
  <2> QED
    BY <2>1 DEF Init, HInv
<1>2. HInv /\ [Next]_vars => HInv'
  <2>1. HInv /\ UNCHANGED vars => HInv'
    <3>1. SUFFICES ASSUME HInv, UNCHANGED vars PROVE HInv'
      OBVIOUS
    <3>2. frames' = frames /\ misled' = misled /\ status' = status
      BY <3>1 DEF vars
    <3> QED
      BY <3>1, <3>2 DEF HInv, Good
  <2> QED
    BY <2>1, NextStep
<1> QED
  BY <1>1, <1>2, PTL DEF Spec

LEMMA ExactlyInstalled ==
  ASSUME NEW p, NEW has \in Seq(Handler), Exact(p, has)
  PROVE  \E at \in [Installed(p) -> 1..Len(has)] :
           /\ \A i, k \in Installed(p) : i < k => at[i] < at[k]
           /\ \A k \in Installed(p) : has[at[k]].class = p[k].class
           /\ \A n \in 1..Len(has) : \E k \in Installed(p) : at[k] = n
<1>1. PICK N, P : N = 1..Len(has) /\ P = Installed(p)
  OBVIOUS
<1>2. /\ \A n \in N : Len(has[n].path) \in P /\ has[n].class = p[Len(has[n].path)].class
      /\ \A m, n \in N : m < n => Len(has[m].path) < Len(has[n].path)
      /\ \A k \in P : \E n \in N : Len(has[n].path) = k
  BY <1>1 DEF Exact, Around
<1>3. PICK at : at = [k \in P |-> CHOOSE n \in N : Len(has[n].path) = k]
  OBVIOUS
<1>4. \A k \in P : at[k] \in N /\ Len(has[at[k]].path) = k
  BY <1>2, <1>3
<1>5. at \in [P -> N]
  BY <1>3, <1>4
<1>6. N \subseteq Nat /\ P \subseteq Nat
  BY <1>1 DEF Installed
<1>7. ASSUME NEW i \in P, NEW k \in P, i < k PROVE at[i] < at[k]
  <2>1. at[i] \in N /\ at[k] \in N /\ Len(has[at[i]].path) = i /\ Len(has[at[k]].path) = k
    BY <1>4
  <2>2. at[k] < at[i] => k < i
    BY <1>2, <2>1
  <2>3. at[k] = at[i] => k = i
    BY <2>1
  <2> QED
    <3>1. at[i] \in Nat /\ at[k] \in Nat /\ i \in Nat /\ k \in Nat
      BY <1>6, <2>1
    <3> QED
      BY <1>7, <2>2, <2>3, <3>1
<1>8. ASSUME NEW n \in N PROVE \E k \in P : at[k] = n
  <2>1. PICK k : k = Len(has[n].path)
    OBVIOUS
  <2>2. k \in P /\ at[k] \in N /\ Len(has[at[k]].path) = k
    BY <1>2, <1>4, <2>1
  <2>3. ~(at[k] < n) /\ ~(n < at[k])
    <3>1. at[k] < n => k < k
      BY <1>2, <2>1, <2>2
    <3>2. n < at[k] => k < k
      BY <1>2, <2>1, <2>2
    <3> QED
      BY <1>6, <2>2, <3>1, <3>2
  <2>4. at[k] \in Nat /\ n \in Nat
    BY <1>6, <2>2
  <2>5. at[k] = n
    BY <2>3, <2>4
  <2> QED
    BY <2>2, <2>5
<1>9. /\ \A i, k \in P : i < k => at[i] < at[k]
      /\ \A k \in P : has[at[k]].class = p[k].class
      /\ \A n \in N : \E k \in P : at[k] = n
  <2>1. \A k \in P : has[at[k]].class = p[k].class
    BY <1>2, <1>4
  <2> QED
    BY <1>7, <1>8, <2>1
<1> QED
  BY <1>1, <1>5, <1>9

LEMMA HInvInstalls == HInv => HandlersInstalled
<1>1. SUFFICES ASSUME HInv, NEW j \in 1..Len(frames), misled => ~frames[j].left
               PROVE  LET needed == Installed(frames[j].path)
                          has == frames[j].handlers IN
                      \E at \in [needed -> 1..Len(has)] :
                        /\ \A i, k \in needed : i < k => at[i] < at[k]
                        /\ \A k \in needed : has[at[k]].class = frames[j].path[k].class
                        /\ ~misled => \A n \in 1..Len(has) : \E k \in needed : at[k] = n
  BY DEF HandlersInstalled
<1>2. PICK p, has : p = frames[j].path /\ has = frames[j].handlers
  OBVIOUS
<1>3. PICK S : frames \in Seq(FrameType(S))
  BY <1>1 DEF HInv, Good
<1>4. has \in Seq(Handler)
  <2>1. frames[j] \in FrameType(S)
    BY <1>1, <1>3
  <2> QED
    BY <1>2, <2>1 DEF FrameType
<1>5. Whole(frames[j], misled)
  BY <1>1 DEF HInv, Good
<1>6. \E at \in [Installed(p) -> 1..Len(has)] :
         /\ \A i, k \in Installed(p) : i < k => at[i] < at[k]
         /\ \A k \in Installed(p) : has[at[k]].class = p[k].class
         /\ ~misled => \A n \in 1..Len(has) : \E k \in Installed(p) : at[k] = n
  <2>1. CASE misled
    <3>1. Embeds(p, has, Len(has))
      BY <1>1, <1>2, <1>5, <2>1 DEF Whole
    <3> QED
      BY <2>1, <3>1 DEF Embeds
  <2>2. CASE ~misled
    <3>1. Exact(p, has)
      BY <1>2, <1>5, <2>2 DEF Whole, Half
    <3> QED
      BY <1>4, <2>2, <3>1, ExactlyInstalled
  <2> QED
    BY <2>1, <2>2
<1> QED
  BY <1>2, <1>6

(* Every try statement around the ip of a frame has its handler there, in  *)
(* order and of its class: propagateException cuts none off that code      *)
(* still relies on.  While every finally block ended by its own flag there *)
(* are no others; after that others may stand between, and the frames that *)
(* a failed line left are not spoken of.                                   *)
THEOREM HandlersAreInstalled == ASSUME ~Leaving PROVE Spec => []HandlersInstalled
<1>1. Spec => []HInv
  BY HandlersInvariant
<1> QED
  BY <1>1, HInvInstalls, PTL

-----------------------------------------------------------------------------
(* What is recursive: Content, Counted and FlattenSeq *)

(* g joins the sequences of H to a, one after the other. *)
Joins(g, a, H, m) == g = [k \in 0..m |-> IF k = 0 THEN a ELSE g[k - 1] \o H[k]]

LEMMA JoinsExists ==
  ASSUME NEW a, NEW H, NEW m \in Nat
  PROVE  \E g : Joins(g, a, H, m)
<1>1. PICK S : S = {k \in Nat : ~\E g : Joins(g, a, H, k)}
  OBVIOUS
<1>2. ASSUME S # {} PROVE FALSE
  <2>1. PICK k \in S : \A j \in S : k <= j
    BY <1>1, <1>2, NaturalsHaveLeast
  <2>2. k \in Nat /\ ~\E g : Joins(g, a, H, k)
    BY <1>1, <2>1
  <2>3. CASE k = 0
    <3>1. PICK g : g = [i \in 0..0 |-> a]
      OBVIOUS
    <3>2. 0..0 = {0}
      OBVIOUS
    <3>3. g = [i \in 0..0 |-> IF i = 0 THEN a ELSE g[i - 1] \o H[i]]
      BY <3>1, <3>2
    <3> QED
      BY <2>2, <2>3, <3>3 DEF Joins
  <2>4. CASE k # 0
    <3>1. k - 1 \in Nat /\ k - 1 \notin S
      BY <2>1, <2>2, <2>4
    <3>2. PICK g : Joins(g, a, H, k - 1)
      BY <1>1, <3>1
    <3>3. PICK w : w = g[k - 1] \o H[k]
      OBVIOUS
    <3>4. PICK e : e = [i \in 0..k |-> IF i = k THEN w ELSE g[i]]
      OBVIOUS
    <3>5. ASSUME NEW i \in 0..k PROVE e[i] = IF i = 0 THEN a ELSE e[i - 1] \o H[i]
      <4>1. CASE i = k
        <5>1. i - 1 \in 0..k /\ i - 1 # k
          BY <2>2, <2>4, <4>1
        <5>2. e[i - 1] = g[k - 1] /\ e[i] = w
          BY <3>4, <4>1, <5>1
        <5> QED
          BY <2>4, <3>3, <4>1, <5>2
      <4>2. CASE i # k
        <5>1. i \in 0..(k - 1)
          BY <2>2, <4>2
        <5>2. e[i] = g[i] /\ g[i] = IF i = 0 THEN a ELSE g[i - 1] \o H[i]
          BY <3>2, <3>4, <4>2, <5>1 DEF Joins
        <5>3. i # 0 => i - 1 \in 0..k /\ i - 1 # k
          BY <2>2, <5>1
        <5>4. i # 0 => e[i - 1] = g[i - 1]
          BY <3>4, <5>3
        <5> QED
          BY <5>2, <5>4
      <4> QED
        BY <4>1, <4>2
    <3>6. Joins(e, a, H, k)
      BY <3>4, <3>5 DEF Joins
    <3> QED
      BY <2>2, <3>6
  <2> QED
    BY <2>3, <2>4
<1> QED
  BY <1>1, <1>2

Joined(g, a, H, m) == g[0] = a /\ \A k \in 1..m : g[k] = g[k - 1] \o H[k]

LEMMA JoinsIs ==
  ASSUME NEW g, NEW a, NEW H, NEW m \in Nat, Joins(g, a, H, m)
  PROVE  Joined(g, a, H, m)
<1>1. 0 \in 0..m /\ \A k \in 1..m : k \in 0..m /\ k # 0
  OBVIOUS
<1>2. \A k \in 0..m : g[k] = IF k = 0 THEN a ELSE g[k - 1] \o H[k]
  BY DEF Joins
<1> QED
  BY <1>1, <1>2 DEF Joined

LEMMA JoinsType ==
  ASSUME NEW V, NEW g, NEW a \in Seq(V), NEW H, NEW m \in Nat, Joins(g, a, H, m),
         \A k \in 1..m : H[k] \in Seq(V)
  PROVE  \A k \in 0..m : g[k] \in Seq(V)
<1>b. Joined(g, a, H, m)
  BY JoinsIs
<1>a. g[0] = a /\ \A k \in 1..m : g[k] = g[k - 1] \o H[k]
  BY <1>b DEF Joined
<1>1. PICK S : S = {k \in 0..m : g[k] \notin Seq(V)}
  OBVIOUS
<1>2. ASSUME S # {} PROVE FALSE
  <2>a. S \subseteq Nat
    BY <1>1
  <2>1. PICK k \in S : \A j \in S : k <= j
    BY <1>2, <2>a, NaturalsHaveLeast
  <2>2. k \in 0..m /\ g[k] \notin Seq(V)
    BY <1>1, <2>1
  <2>3. k # 0
    BY <1>a, <2>2
  <2>4. k \in 1..m /\ k - 1 \in 0..m /\ k - 1 \notin S
    BY <2>1, <2>2, <2>3
  <2>5. g[k - 1] \in Seq(V) /\ H[k] \in Seq(V)
    BY <1>1, <2>4
  <2>6. g[k - 1] \o H[k] \in Seq(V)
    BY <2>5, ConcatProperties
  <2> QED
    BY <1>a, <2>2, <2>4, <2>6
<1> QED
  BY <1>1, <1>2

Agree(H, H2, n) == \A k \in 1..n : H[k] = H2[k]

(* Where the sequences are the same, so is what they join to. *)
LEMMA JoinsSame ==
  ASSUME NEW g, NEW g2, NEW a, NEW H, NEW H2, NEW m \in Nat, NEW m2 \in Nat,
         Joins(g, a, H, m), Joins(g2, a, H2, m2), NEW n \in Nat, n <= m, n <= m2,
         Agree(H, H2, n)
  PROVE  g[n] = g2[n]
<1>a. /\ g[0] = a /\ \A k \in 1..m : g[k] = g[k - 1] \o H[k]
      /\ g2[0] = a /\ \A k \in 1..m2 : g2[k] = g2[k - 1] \o H2[k]
  <2>1. Joined(g, a, H, m) /\ Joined(g2, a, H2, m2)
    BY JoinsIs
  <2> QED
    BY <2>1 DEF Joined
<1>1. PICK S : S = {k \in 0..n : g[k] # g2[k]}
  OBVIOUS
<1>2. ASSUME S # {} PROVE FALSE
  <2>a. S \subseteq Nat
    BY <1>1
  <2>1. PICK k \in S : \A j \in S : k <= j
    BY <1>2, <2>a, NaturalsHaveLeast
  <2>2. k \in 0..n /\ g[k] # g2[k]
    BY <1>1, <2>1
  <2>3. k # 0
    BY <1>a, <2>2
  <2>4. k \in 1..m /\ k \in 1..m2 /\ k \in 1..n /\ k - 1 \in 0..n /\ k - 1 \notin S
    BY <2>1, <2>2, <2>3
  <2>5. g[k - 1] = g2[k - 1] /\ H[k] = H2[k]
    BY <1>1, <2>4 DEF Agree
  <2>6. g[k] = g[k - 1] \o H[k] /\ g2[k] = g2[k - 1] \o H2[k]
    BY <1>a, <2>4
  <2> QED
    BY <2>2, <2>5, <2>6
<1>3. n \in 0..n
  OBVIOUS
<1> QED
  BY <1>1, <1>2, <1>3

Pieces(p) == [k \in 1..Len(p) |-> Holds(p, k)]
Held(g, p) == g = [k \in 0..Len(p) |-> IF k = 0 THEN <<Callee>> ELSE g[k - 1] \o Holds(p, k)]

LEMMA HoldsTyped ==
  ASSUME NEW p \in Seq(Construct), NEW k \in 1..Len(p)
  PROVE  Holds(p, k) \in Seq(Value)
<1>1. PICK c : c = p[k]
  OBVIOUS
<1>2. c \in Construct /\ k \in Nat
  BY <1>1
<1>3. CASE c.kind # "try"
  <2>1. c.locals \in Seq(BOOLEAN)
    BY <1>2 DEF Construct, TryType
  <2>2. \A i \in 1..Len(c.locals) : LocalAt(k, i) \in Value
    BY <1>2, <2>1 DEF Value
  <2>3. Holds(p, k) = [i \in 1..Len(c.locals) |-> LocalAt(k, i)]
    BY <1>1, <1>3 DEF Holds
  <2>4. Len(c.locals) \in Nat
    BY <2>1
  <2>5. Holds(p, k) \in [1..Len(c.locals) -> Value]
    BY <2>2, <2>3
  <2> QED
    BY <2>4, <2>5, SeqIs
<1>4. CASE c.kind = "try"
  <2>1. c \in TryType
    BY <1>2, <1>4 DEF Construct
  <2>2. c.value \in Value /\ Flag(TRUE) \in Value /\ Flag(FALSE) \in Value
    <3>1. \A b \in BOOLEAN : Flag(b) \in Value
      BY DEF Value
    <3> QED
      BY <2>1, <3>1 DEF TryType
  <2>3. Holds(p, k) \in {<<c.value>>, <<Flag(FALSE)>>, <<c.value, Flag(TRUE)>>, <<>>}
    BY <1>1, <1>4 DEF Holds
  <2>4. \A u, v \in Value : <<>> \in Seq(Value) /\ <<u>> \in Seq(Value) /\ <<u, v>> \in Seq(Value)
    OBVIOUS
  <2> QED
    BY <2>2, <2>3, <2>4
<1> QED
  BY <1>3, <1>4

LEMMA ContentJoins ==
  ASSUME NEW p \in Seq(Construct)
  PROVE  \E g : Joins(g, <<Callee>>, Pieces(p), Len(p)) /\ Content(p) = g[Len(p)]
<1>1. Len(p) \in Nat
  OBVIOUS
<1>2. \A g : Held(g, p) <=> Joins(g, <<Callee>>, Pieces(p), Len(p))
  <2>1. SUFFICES ASSUME NEW g PROVE Held(g, p) <=> Joins(g, <<Callee>>, Pieces(p), Len(p))
    OBVIOUS
  <2>2. \A k \in 0..Len(p) : k # 0 => Pieces(p)[k] = Holds(p, k)
    BY <1>1 DEF Pieces
  <2>3. [k \in 0..Len(p) |-> IF k = 0 THEN <<Callee>> ELSE g[k - 1] \o Holds(p, k)]
          = [k \in 0..Len(p) |-> IF k = 0 THEN <<Callee>> ELSE g[k - 1] \o Pieces(p)[k]]
    BY <2>2
  <2> QED
    BY <2>3 DEF Held, Joins
<1>3. \E g : Held(g, p)
  BY <1>1, <1>2, JoinsExists
<1>4. Held(CHOOSE g : Held(g, p), p)
  BY <1>3
<1>5. Content(p) = (CHOOSE g : Held(g, p))[Len(p)]
  BY DEF Content, Held
<1> QED
  BY <1>2, <1>4, <1>5

LEMMA ContentTyped ==
  ASSUME NEW p \in Seq(Construct)
  PROVE  Content(p) \in Seq(Value)
<1>1. PICK g, H, m : Joins(g, <<Callee>>, H, m) /\ Content(p) = g[m] /\ H = Pieces(p) /\ m = Len(p)
  BY ContentJoins
<1>2. \A k \in 1..m : H[k] \in Seq(Value)
  BY <1>1, HoldsTyped DEF Pieces
<1>3. <<Callee>> \in Seq(Value) /\ m \in Nat
  BY <1>1 DEF Value
<1>4. \A k \in 0..m : g[k] \in Seq(Value)
  BY <1>1, <1>2, <1>3, JoinsType
<1> QED
  BY <1>1, <1>3, <1>4

LEMMA ContentNone == Content(<<>>) = <<Callee>>
<1>1. PICK p : p = <<>>
  OBVIOUS
<1>2. p \in Seq(Construct) /\ Len(p) = 0
  BY <1>1
<1>3. PICK g : Joins(g, <<Callee>>, Pieces(p), 0) /\ Content(p) = g[0]
  BY <1>2, ContentJoins
<1>4. Joined(g, <<Callee>>, Pieces(p), 0)
  BY <1>3, JoinsIs
<1> QED
  BY <1>1, <1>3, <1>4 DEF Joined

(* One construct more holds so much more. *)
LEMMA ContentNext ==
  ASSUME NEW p \in Seq(Construct), NEW q \in Seq(Construct), Len(q) = Len(p) + 1,
         \A i \in 1..Len(p) : q[i] = p[i]
  PROVE  Content(q) = Content(p) \o Holds(q, Len(q))
<1>1. PICK n, m : n = Len(p) /\ m = Len(q)
  OBVIOUS
<1>2. n \in Nat /\ m = n + 1 /\ m \in Nat /\ m \in 1..m /\ m - 1 = n /\ n \in 0..n /\ n <= m
  BY <1>1
<1>3. PICK g, H : Joins(g, <<Callee>>, H, n) /\ Content(p) = g[n] /\ H = Pieces(p)
  BY <1>1, ContentJoins
<1>4. PICK h, J : Joins(h, <<Callee>>, J, m) /\ Content(q) = h[m] /\ J = Pieces(q)
  BY <1>1, ContentJoins
<1>5. Agree(H, J, n)
  <2>1. ASSUME NEW k \in 1..n PROVE H[k] = J[k]
    <3>1. k \in 1..Len(p) /\ k \in 1..Len(q) /\ q[k] = p[k]
      BY <1>1, <1>2
    <3>2. Holds(p, k) = Holds(q, k)
      BY <3>1 DEF Holds
    <3> QED
      BY <1>3, <1>4, <3>1, <3>2 DEF Pieces
  <2> QED
    BY <2>1 DEF Agree
<1>6. g[n] = h[n]
  <2>1. PICK a : a = <<Callee>>
    OBVIOUS
  <2>2. Joins(g, a, H, n) /\ Joins(h, a, J, m) /\ n \in Nat /\ m \in Nat /\ n <= n /\ n <= m
    BY <1>2, <1>3, <1>4, <2>1
  <2> QED
    BY <1>5, <2>2, JoinsSame
<1>7. Joined(h, <<Callee>>, J, m)
  BY <1>2, <1>4, JoinsIs
<1>8. h[m] = h[n] \o J[m]
  <2>1. h[m] = h[m - 1] \o J[m]
    BY <1>2, <1>7 DEF Joined
  <2>2. m - 1 = n
    BY <1>2
  <2> QED
    BY <2>1, <2>2
<1>9. J[m] = Holds(q, Len(q))
  BY <1>1, <1>2, <1>4 DEF Pieces
<1> QED
  BY <1>3, <1>4, <1>6, <1>8, <1>9

(* The locals of a path, whether captured, behind the callee. *)
LocalsOf(p) == [k \in 1..Len(p) |-> p[k].locals]
Flags(p) == (CHOOSE g : Joins(g, <<FALSE>>, LocalsOf(p), Len(p)))[Len(p)]

LEMMA LocalsTyped ==
  ASSUME NEW p \in Seq(Construct)
  PROVE  LocalsOf(p) \in Seq(Seq(BOOLEAN)) /\ Len(LocalsOf(p)) = Len(p)
         /\ \A k \in 1..Len(p) : LocalsOf(p)[k] = p[k].locals /\ p[k].locals \in Seq(BOOLEAN)
<1>1. Len(p) \in Nat
  OBVIOUS
<1>2. \A k \in 1..Len(p) : p[k].locals \in Seq(BOOLEAN)
  <2>1. \A c \in Construct : c.locals \in Seq(BOOLEAN)
    BY DEF Construct, TryType
  <2> QED
    BY <2>1
<1>3. LocalsOf(p) \in [1..Len(p) -> Seq(BOOLEAN)]
  BY <1>2 DEF LocalsOf
<1>4. LocalsOf(p) \in Seq(Seq(BOOLEAN)) /\ Len(LocalsOf(p)) = Len(p)
  BY <1>1, <1>3, SeqIs
<1> QED
  BY <1>2, <1>4 DEF LocalsOf

LEMMA FlagsJoin ==
  ASSUME NEW p \in Seq(Construct)
  PROVE  \E g : Joins(g, <<FALSE>>, LocalsOf(p), Len(p)) /\ Flags(p) = g[Len(p)]
<1>1. Len(p) \in Nat
  OBVIOUS
<1>2. \E g : Joins(g, <<FALSE>>, LocalsOf(p), Len(p))
  BY <1>1, JoinsExists
<1> QED
  BY <1>2 DEF Flags

LEMMA FlagsTyped ==
  ASSUME NEW p \in Seq(Construct)
  PROVE  Flags(p) \in Seq(BOOLEAN)
<1>1. PICK g, H, m : Joins(g, <<FALSE>>, H, m) /\ Flags(p) = g[m] /\ H = LocalsOf(p) /\ m = Len(p)
  BY FlagsJoin
<1>2. \A k \in 1..m : H[k] \in Seq(BOOLEAN)
  BY <1>1, LocalsTyped
<1>3. <<FALSE>> \in Seq(BOOLEAN) /\ m \in Nat
  BY <1>1
<1>4. \A k \in 0..m : g[k] \in Seq(BOOLEAN)
  BY <1>1, <1>2, <1>3, JoinsType
<1> QED
  BY <1>1, <1>3, <1>4

LEMMA FlagsNone == Flags(<<>>) = <<FALSE>>
<1>1. PICK p : p = <<>>
  OBVIOUS
<1>2. p \in Seq(Construct) /\ Len(p) = 0
  BY <1>1
<1>3. PICK g : Joins(g, <<FALSE>>, LocalsOf(p), 0) /\ Flags(p) = g[0]
  BY <1>2, FlagsJoin
<1>4. Joined(g, <<FALSE>>, LocalsOf(p), 0)
  BY <1>3, JoinsIs
<1> QED
  BY <1>1, <1>3, <1>4 DEF Joined

Follows(h, m, g, n, t) == h[m] = g[n] \o t

LEMMA JoinsNext ==
  ASSUME NEW g, NEW h, NEW a, NEW H, NEW J, NEW n \in Nat, NEW m \in Nat, n < m, m <= n + 1,
         Joins(g, a, H, n), Joins(h, a, J, m), Agree(H, J, n)
  PROVE  Follows(h, m, g, n, J[m])
<1>1. g[n] = h[n]
  <2>1. n <= n /\ n <= m
    OBVIOUS
  <2> QED
    BY <2>1, JoinsSame
<1>2. Joined(h, a, J, m)
  BY JoinsIs
<1>3. m \in 1..m /\ m - 1 = n
  OBVIOUS
<1>4. h[m] = h[m - 1] \o J[m]
  BY <1>2, <1>3 DEF Joined
<1> QED
  BY <1>1, <1>3, <1>4 DEF Follows

LEMMA FlagsNext ==
  ASSUME NEW p \in Seq(Construct), NEW q \in Seq(Construct), Len(q) = Len(p) + 1,
         \A i \in 1..Len(p) : q[i] = p[i]
  PROVE  Flags(q) = Flags(p) \o q[Len(q)].locals
<1>1. PICK n, m, a : n = Len(p) /\ m = Len(q) /\ a = <<FALSE>>
  OBVIOUS
<1>2. n \in Nat /\ n < m /\ m <= n + 1 /\ m \in Nat /\ m \in 1..m
  BY <1>1
<1>3. PICK g, H : Joins(g, a, H, n) /\ Flags(p) = g[n] /\ H = LocalsOf(p)
  BY <1>1, FlagsJoin
<1>4. PICK h, J : Joins(h, a, J, m) /\ Flags(q) = h[m] /\ J = LocalsOf(q)
  BY <1>1, FlagsJoin
<1>5. Agree(H, J, n)
  <2>1. \A k \in 1..n : k \in 1..Len(p) /\ k \in 1..Len(q) /\ q[k] = p[k]
    BY <1>1, <1>2
  <2> QED
    BY <1>3, <1>4, <2>1, LocalsTyped DEF Agree
<1>6. h[m] = g[n] \o J[m]
  <2>1. Joins(g, a, H, n) /\ Joins(h, a, J, m) /\ n \in Nat /\ m \in Nat /\ n < m /\ m <= n + 1
    BY <1>2, <1>3, <1>4
  <2>2. Follows(h, m, g, n, J[m])
    BY <1>5, <2>1, JoinsNext
  <2> QED
    BY <2>2 DEF Follows
<1>7. J[m] = q[Len(q)].locals
  BY <1>1, <1>2, <1>4, LocalsTyped
<1> QED
  BY <1>3, <1>4, <1>6, <1>7

(* FlattenSeq of the community modules *)
Flattens(f, s) == f = [i \in 1..Len(s) |-> IF i = 1 THEN s[i] ELSE f[i - 1] \o s[i]]

LEMMA FlattenJoins ==
  ASSUME NEW V, NEW s \in Seq(Seq(V)), NEW g, Joins(g, <<>>, s, Len(s))
  PROVE  FlattenSeq(s) = g[Len(s)]
<1>1. PICK m : m = Len(s)
  OBVIOUS
<1>2. m \in Nat
  BY <1>1
<1>3. Joined(g, <<>>, s, m)
  BY <1>1, <1>2, JoinsIs
<1>4. g[0] = <<>> /\ \A k \in 1..m : g[k] = g[k - 1] \o s[k]
  BY <1>3 DEF Joined
<1>5. CASE m = 0
  <2>1. s = <<>>
    BY <1>1, <1>5, EmptySeq
  <2>2. FlattenSeq(s) = s
    BY <1>1, <1>5 DEF FlattenSeq
  <2> QED
    BY <1>1, <1>4, <1>5, <2>1, <2>2
<1>6. CASE m # 0
  <2>1. m \in 1..m /\ 1 \in 1..m
    BY <1>2, <1>6
  <2>2. g[1] = s[1]
    <3>1. s[1] \in Seq(V)
      BY <1>1, <2>1
    <3>2. <<>> \o s[1] = s[1]
      BY <3>1, ConcatEmptySeq
    <3>a. g[1] = g[1 - 1] \o s[1]
      BY <1>4, <2>1
    <3>b. 1 - 1 = 0
      OBVIOUS
    <3>3. g[1] = g[0] \o s[1]
      BY <3>a, <3>b
    <3> QED
      BY <1>4, <3>2, <3>3
  <2>3. PICK e : e = [i \in 1..m |-> g[i]]
    OBVIOUS
  <2>4. Flattens(e, s)
    <3>1. ASSUME NEW i \in 1..m PROVE e[i] = IF i = 1 THEN s[i] ELSE e[i - 1] \o s[i]
      <4>1. CASE i = 1
        BY <2>1, <2>2, <2>3, <4>1
      <4>2. CASE i # 1
        <5>1. i - 1 \in 1..m
          BY <1>2, <4>2
        <5>2. e[i - 1] = g[i - 1] /\ e[i] = g[i]
          BY <2>3, <5>1
        <5> QED
          BY <1>4, <4>2, <5>2
      <4> QED
        BY <4>1, <4>2
    <3> QED
      BY <1>1, <2>3, <3>1 DEF Flattens
  <2>5. PICK f : f = CHOOSE f1 : Flattens(f1, s)
    OBVIOUS
  <2>6. Flattens(f, s)
    BY <2>4, <2>5
  <2>7. FlattenSeq(s) = f[m]
    <3>1. FlattenSeq(s) = (CHOOSE f1 : Flattens(f1, s))[Len(s)]
      BY <1>1, <1>6 DEF FlattenSeq, Flattens
    <3> QED
      BY <1>1, <2>5, <3>1
  <2>8. PICK S : S = {i \in 1..m : f[i] # g[i]}
    OBVIOUS
  <2>9. ASSUME S # {} PROVE FALSE
    <3>1. S \subseteq Nat
      BY <2>8
    <3>2. PICK k \in S : \A j \in S : k <= j
      BY <2>9, <3>1, NaturalsHaveLeast
    <3>3. k \in 1..m /\ f[k] # g[k]
      BY <2>8, <3>2
    <3>4. f[k] = IF k = 1 THEN s[k] ELSE f[k - 1] \o s[k]
      BY <1>1, <2>6, <3>3 DEF Flattens
    <3>5. k # 1
      BY <2>2, <3>3, <3>4
    <3>6. k - 1 \in 1..m /\ k - 1 \notin S
      BY <1>2, <3>2, <3>3, <3>5
    <3>7. f[k - 1] = g[k - 1]
      BY <2>8, <3>6
    <3> QED
      BY <1>4, <3>3, <3>4, <3>5, <3>7
  <2> QED
    BY <1>1, <2>1, <2>7, <2>8, <2>9
<1> QED
  BY <1>5, <1>6

Shifted(K, n, H, k) == \A i \in 1..n : K[i] = H[k + i]

LEMMA JoinsAfter ==
  ASSUME NEW V, NEW g, NEW f, NEW a \in Seq(V), NEW H, NEW K, NEW n \in Nat, NEW m \in Nat, NEW k \in Nat,
         n + k <= m, Joins(g, a, H, m), Joins(f, <<>>, K, n),
         \A i \in 1..m : H[i] \in Seq(V), Shifted(K, n, H, k)
  PROVE  Follows(g, k + n, g, k, f[n])
<1>1. Joined(g, a, H, m) /\ Joined(f, <<>>, K, n)
  BY JoinsIs
<1>2. /\ f[0] = <<>> /\ \A i \in 1..m : g[i] = g[i - 1] \o H[i]
      /\ \A i \in 1..n : f[i] = f[i - 1] \o K[i]
  BY <1>1 DEF Joined
<1>3. \A i \in 0..m : g[i] \in Seq(V)
  BY JoinsType
<1>4. \A i \in 1..n : k + i \in 1..m
  OBVIOUS
<1>5. \A i \in 1..n : K[i] \in Seq(V) /\ K[i] = H[k + i]
  BY <1>4 DEF Shifted
<1>6. \A i \in 0..n : f[i] \in Seq(V)
  <2>1. <<>> \in Seq(V)
    OBVIOUS
  <2> QED
    BY <1>5, <2>1, JoinsType
<1>7. PICK S : S = {i \in 0..n : ~Follows(g, k + i, g, k, f[i])}
  OBVIOUS
<1>8. ASSUME S # {} PROVE FALSE
  <2>1. S \subseteq Nat
    BY <1>7
  <2>2. PICK i \in S : \A j \in S : i <= j
    BY <1>8, <2>1, NaturalsHaveLeast
  <2>3. i \in 0..n /\ g[k + i] # g[k] \o f[i] /\ k \in 0..m
    <3>1. i \in 0..n /\ ~Follows(g, k + i, g, k, f[i])
      BY <1>7, <2>2
    <3>2. k \in 0..m
      OBVIOUS
    <3> QED
      BY <3>1, <3>2 DEF Follows
  <2>4. CASE i = 0
    <3>1. g[k] \o <<>> = g[k] /\ k + 0 = k
      BY <1>3, <2>3, ConcatEmptySeq
    <3> QED
      BY <1>2, <2>3, <2>4, <3>1
  <2>5. CASE i # 0
    <3>1. i \in 1..n /\ i - 1 \in 0..n /\ i - 1 \notin S /\ k + i \in 1..m /\ (k + i) - 1 = k + (i - 1)
      BY <2>2, <2>3, <2>5
    <3>2. g[k + (i - 1)] = g[k] \o f[i - 1]
      BY <1>7, <3>1 DEF Follows
    <3>3. g[k + i] = g[(k + i) - 1] \o H[k + i] /\ f[i] = f[i - 1] \o K[i] /\ K[i] = H[k + i]
      BY <1>2, <1>5, <3>1
    <3>4. g[k + i] = (g[k] \o f[i - 1]) \o K[i]
      BY <3>1, <3>2, <3>3
    <3>5. g[k] \in Seq(V) /\ f[i - 1] \in Seq(V) /\ K[i] \in Seq(V)
      BY <1>3, <1>5, <1>6, <2>3, <3>1
    <3>6. (g[k] \o f[i - 1]) \o K[i] = g[k] \o (f[i - 1] \o K[i])
      <4>1. PICK x, y, z : x = g[k] /\ y = f[i - 1] /\ z = K[i]
        OBVIOUS
      <4>2. x \in Seq(V) /\ y \in Seq(V) /\ z \in Seq(V)
        BY <3>5, <4>1
      <4>3. (x \o y) \o z = x \o (y \o z)
        BY SMTT(30), <4>2, ConcatAssociative
      <4> QED
        BY <4>1, <4>3
    <3> QED
      BY <2>3, <3>3, <3>4, <3>6
  <2> QED
    BY <2>4, <2>5
<1>9. n \in 0..n
  OBVIOUS
<1> QED
  BY <1>7, <1>8, <1>9

(* what a break drops *)
Dropped(p, k) == FlattenSeq([i \in 1..(Len(p) - k) |-> p[k + i].locals])

LEMMA FlagsDropped ==
  ASSUME NEW p \in Seq(Construct), NEW k \in 0..Len(p)
  PROVE  /\ Dropped(p, k) \in Seq(BOOLEAN)
         /\ Flags(p) = Flags(SubSeq(p, 1, k)) \o Dropped(p, k)
<1>1. PICK q, m, n, a, B : q = SubSeq(p, 1, k) /\ m = Len(p) /\ n = m - k /\ a = <<FALSE>> /\ B = BOOLEAN
  OBVIOUS
<1>2. m \in Nat /\ n \in Nat /\ k \in Nat /\ n + k <= m /\ k + n = m /\ k <= m
  BY <1>1
<1>3. q \in Seq(Construct) /\ Len(q) = k /\ \A i \in 1..k : q[i] = p[i]
  BY <1>1, PrefixFacts
<1>4. PICK K : K = [i \in 1..n |-> p[k + i].locals]
  OBVIOUS
<1>5. PICK g, H : Joins(g, a, H, m) /\ Flags(p) = g[m] /\ H = LocalsOf(p)
  BY <1>1, FlagsJoin
<1>6. PICK h, J : Joins(h, a, J, k) /\ Flags(q) = h[k] /\ J = LocalsOf(q)
  BY <1>1, <1>3, FlagsJoin
<1>7. PICK f : Joins(f, <<>>, K, n)
  BY <1>2, JoinsExists
<1>8. \A i \in 1..m : H[i] = p[i].locals /\ H[i] \in Seq(B)
  BY <1>1, <1>5, LocalsTyped
<1>9. \A i \in 1..n : k + i \in 1..m
  BY <1>2
<1>10. \A i \in 1..n : K[i] = H[k + i] /\ K[i] \in Seq(B)
  BY <1>4, <1>8, <1>9
<1>11. a \in Seq(B)
  BY <1>1
<1>12. g[k + n] = g[k] \o f[n]
  <2>1. \A i \in 1..m : H[i] \in Seq(B)
    BY <1>8
  <2>2. Shifted(K, n, H, k)
    BY <1>10 DEF Shifted
  <2>3. Joins(g, a, H, m)
    BY <1>5
  <2> QED
    <3>1. Follows(g, k + n, g, k, f[n])
      BY <1>2, <1>7, <1>11, <2>1, <2>2, <2>3, JoinsAfter
    <3> QED
      BY <3>1 DEF Follows
<1>13. g[k] = h[k]
  <2>1. Agree(J, H, k)
    <3>1. \A i \in 1..k : i \in 1..m /\ q[i] = p[i]
      BY <1>2, <1>3
    <3>2. \A i \in 1..k : J[i] = q[i].locals
      BY <1>3, <1>6, LocalsTyped
    <3> QED
      BY <1>8, <3>1, <3>2 DEF Agree
  <2>2. Joins(h, a, J, k) /\ Joins(g, a, H, m) /\ k <= k
    BY <1>2, <1>5, <1>6
  <2>3. h[k] = g[k]
    BY <1>2, <2>1, <2>2, JoinsSame
  <2> QED
    BY <2>3
<1>14. K \in Seq(Seq(B)) /\ Len(K) = n
  <2>1. K \in [1..n -> Seq(B)]
    BY <1>4, <1>10
  <2> QED
    BY <1>2, <2>1, SeqIs
<1>15. FlattenSeq(K) = f[n]
  <2>1. Joins(f, <<>>, K, Len(K))
    BY <1>7, <1>14
  <2> QED
    BY <1>14, <2>1, FlattenJoins
<1>16. f[n] \in Seq(B)
  <2>1. <<>> \in Seq(B) /\ n \in 0..n
    BY <1>2
  <2>2. \A i \in 1..n : K[i] \in Seq(B)
    BY <1>10
  <2> QED
    BY <1>2, <1>7, <2>1, <2>2, JoinsType
<1>17. Dropped(p, k) = FlattenSeq(K)
  BY <1>1, <1>4 DEF Dropped
<1> QED
  BY <1>1, <1>2, <1>5, <1>6, <1>12, <1>13, <1>15, <1>16, <1>17

Counts(n, p) == n = [k \in 0..Len(p) |-> IF k = 0 THEN 1 ELSE n[k - 1] + Len(p[k].locals)]

LEMMA CountedIs ==
  ASSUME NEW p \in Seq(Construct)
  PROVE  Counted(p) = Len(Flags(p))
<1>1. PICK g, H, m : Joins(g, <<FALSE>>, H, m) /\ Flags(p) = g[m] /\ H = LocalsOf(p) /\ m = Len(p)
  BY FlagsJoin
<1>2. m \in Nat
  BY <1>1
<1>3. Joined(g, <<FALSE>>, H, m)
  BY <1>1, <1>2, JoinsIs
<1>4. g[0] = <<FALSE>> /\ \A k \in 1..m : g[k] = g[k - 1] \o H[k]
  BY <1>3 DEF Joined
<1>5. \A k \in 1..m : H[k] = p[k].locals /\ H[k] \in Seq(BOOLEAN)
  BY <1>1, LocalsTyped
<1>6. \A k \in 0..m : g[k] \in Seq(BOOLEAN)
  <2>1. <<FALSE>> \in Seq(BOOLEAN)
    OBVIOUS
  <2>2. \A k \in 1..m : H[k] \in Seq(BOOLEAN)
    BY <1>5
  <2> QED
    BY <1>1, <1>2, <2>1, <2>2, JoinsType
<1>7. \A k \in 1..m : Len(g[k]) = Len(g[k - 1]) + Len(p[k].locals)
  <2>1. ASSUME NEW k \in 1..m PROVE Len(g[k]) = Len(g[k - 1]) + Len(p[k].locals)
    <3>1. k - 1 \in 0..m
      BY <1>2
    <3>2. PICK s, t : s = g[k - 1] /\ t = H[k]
      OBVIOUS
    <3>3. s \in Seq(BOOLEAN) /\ t \in Seq(BOOLEAN) /\ g[k] = s \o t /\ t = p[k].locals
      BY <1>4, <1>5, <1>6, <3>1, <3>2
    <3>4. Len(s \o t) = Len(s) + Len(t)
      BY <3>3, ConcatProperties
    <3> QED
      BY <3>2, <3>3, <3>4
  <2> QED
    BY <2>1
<1>8. PICK e : e = [k \in 0..m |-> Len(g[k])]
  OBVIOUS
<1>9. Counts(e, p)
  <2>1. ASSUME NEW k \in 0..m PROVE e[k] = IF k = 0 THEN 1 ELSE e[k - 1] + Len(p[k].locals)
    <3>1. CASE k = 0
      BY <1>4, <1>8, <3>1
    <3>2. CASE k # 0
      <4>1. k \in 1..m /\ k - 1 \in 0..m
        BY <1>2, <3>2
      <4>2. e[k - 1] = Len(g[k - 1]) /\ e[k] = Len(g[k])
        BY <1>8, <4>1
      <4> QED
        BY <1>7, <3>2, <4>1, <4>2
    <3> QED
      BY <3>1, <3>2
  <2> QED
    BY <1>1, <1>8, <2>1 DEF Counts
<1>10. PICK n : n = CHOOSE n1 : Counts(n1, p)
  OBVIOUS
<1>11. Counts(n, p)
  BY <1>9, <1>10
<1>12. Counted(p) = n[m]
  <2>1. Counted(p) = (CHOOSE n1 : Counts(n1, p))[Len(p)]
    BY DEF Counted, Counts
  <2> QED
    BY <1>1, <1>10, <2>1
<1>13. PICK S : S = {i \in 0..m : n[i] # e[i]}
  OBVIOUS
<1>14. ASSUME S # {} PROVE FALSE
  <2>1. S \subseteq Nat
    BY <1>13
  <2>2. PICK k \in S : \A j \in S : k <= j
    BY <1>14, <2>1, NaturalsHaveLeast
  <2>3. k \in 0..m /\ n[k] # e[k]
    BY <1>13, <2>2
  <2>4. /\ n[k] = IF k = 0 THEN 1 ELSE n[k - 1] + Len(p[k].locals)
        /\ e[k] = IF k = 0 THEN 1 ELSE e[k - 1] + Len(p[k].locals)
    BY <1>1, <1>9, <1>11, <2>3 DEF Counts
  <2>5. k # 0
    BY <2>3, <2>4
  <2>6. k - 1 \in 0..m /\ k - 1 \notin S
    BY <1>2, <2>2, <2>3, <2>5
  <2>7. n[k - 1] = e[k - 1]
    BY <1>13, <2>6
  <2> QED
    BY <2>3, <2>4, <2>5, <2>7
<1>15. m \in 0..m
  BY <1>2
<1> QED
  BY <1>1, <1>8, <1>12, <1>13, <1>14, <1>15

-----------------------------------------------------------------------------
(* What a path holds, and what a prefix of it holds *)

Begins(s, t) == Len(s) <= Len(t) /\ \A i \in 1..Len(s) : t[i] = s[i]

(* Only the last construct has just caught an exception or is being left,  *)
(* and only a catch with a name has locals of its own.                     *)
Tidy(p) ==
  \A k \in 1..Len(p) : p[k].kind = "try" =>
    /\ p[k].phase \in {"landed", "leaving"} => k = Len(p)
    /\ Len(p[k].locals) = IF p[k].phase = "catch" /\ p[k].named THEN 1 ELSE 0

Ahead(q, p) ==
  /\ Begins(Content(q), Content(p))
  /\ Len(Content(q)) + Len(Flags(p)) <= Len(Content(p)) + Len(Flags(q))

LEMMA ContentLen ==
  ASSUME NEW p \in Seq(Construct)
  PROVE  Len(Content(p)) \in Nat /\ Len(Flags(p)) \in Nat
BY ContentTyped, FlagsTyped

LEMMA HoldsLen ==
  ASSUME NEW p \in Seq(Construct), NEW k \in 1..Len(p), Tidy(p)
  PROVE  /\ Len(Holds(p, k)) \in Nat /\ Len(p[k].locals) \in Nat
         /\ Len(p[k].locals) <= Len(Holds(p, k))
<1>1. Len(Holds(p, k)) \in Nat
  BY HoldsTyped
<1>2. Len(p[k].locals) \in Nat
  BY LocalsTyped
<1>3. CASE p[k].kind # "try"
  <2>1. Holds(p, k) = [i \in 1..Len(p[k].locals) |-> LocalAt(k, i)]
    BY <1>3 DEF Holds
  <2>2. Len(Holds(p, k)) = Len(p[k].locals)
    BY <1>2, <2>1
  <2> QED
    BY <1>1, <1>2, <2>2
<1>4. CASE p[k].kind = "try"
  <2>1. Len(p[k].locals) = IF p[k].phase = "catch" /\ p[k].named THEN 1 ELSE 0
    BY <1>4 DEF Tidy
  <2>2. CASE p[k].phase = "catch" /\ p[k].named
    <3>1. Holds(p, k) = <<p[k].value>>
      BY <1>4, <2>2 DEF Holds
    <3>2. Len(Holds(p, k)) = 1 /\ Len(p[k].locals) = 1
      BY <2>1, <2>2, <3>1
    <3> QED
      BY <3>2
  <2>3. CASE ~(p[k].phase = "catch" /\ p[k].named)
    <3>1. Len(p[k].locals) = 0
      BY <2>1, <2>3
    <3> QED
      BY <1>1, <3>1
  <2> QED
    BY <2>2, <2>3
<1> QED
  BY <1>3, <1>4

LEMMA AheadSame ==
  ASSUME NEW p \in Seq(Construct)
  PROVE  Ahead(p, p)
BY ContentLen DEF Ahead, Begins

LEMMA AheadThen ==
  ASSUME NEW p \in Seq(Construct), NEW q \in Seq(Construct), NEW r \in Seq(Construct),
         Ahead(p, q), Ahead(q, r)
  PROVE  Ahead(p, r)
<1>1. PICK P, Q, R, a, b, c : /\ P = Content(p) /\ Q = Content(q) /\ R = Content(r)
                              /\ a = Len(Flags(p)) /\ b = Len(Flags(q)) /\ c = Len(Flags(r))
  OBVIOUS
<1>2. Len(P) \in Nat /\ Len(Q) \in Nat /\ Len(R) \in Nat /\ a \in Nat /\ b \in Nat /\ c \in Nat
  BY <1>1, ContentLen
<1>3. /\ Begins(P, Q) /\ Len(P) + b <= Len(Q) + a
      /\ Begins(Q, R) /\ Len(Q) + c <= Len(R) + b
  BY <1>1 DEF Ahead
<1>4. Begins(P, R)
  BY <1>2, <1>3 DEF Begins
<1>5. Len(P) + c <= Len(R) + a
  BY <1>2, <1>3
<1> QED
  BY <1>1, <1>4, <1>5 DEF Ahead

(* Every construct holds its locals at least. *)
LEMMA AheadNext ==
  ASSUME NEW p \in Seq(Construct), NEW q \in Seq(Construct), Len(q) = Len(p) + 1,
         \A i \in 1..Len(p) : q[i] = p[i],
         Len(q[Len(q)].locals) <= Len(Holds(q, Len(q)))
  PROVE  Ahead(p, q)
<1>1. PICK P, Q, h, a, b, l : /\ P = Content(p) /\ Q = Content(q) /\ h = Holds(q, Len(q))
                              /\ a = Flags(p) /\ b = Flags(q) /\ l = q[Len(q)].locals
  OBVIOUS
<1>2. Len(q) \in 1..Len(q)
  OBVIOUS
<1>3. P \in Seq(Value) /\ h \in Seq(Value) /\ a \in Seq(BOOLEAN) /\ l \in Seq(BOOLEAN)
  BY <1>1, <1>2, ContentTyped, HoldsTyped, FlagsTyped, LocalsTyped
<1>4. Q = P \o h /\ b = a \o l
  BY <1>1, ContentNext, FlagsNext
<1>5. /\ Len(Q) = Len(P) + Len(h) /\ Len(P) \in Nat /\ Len(h) \in Nat
      /\ \A i \in 1..Len(P) : Q[i] = P[i]
  BY <1>3, <1>4
<1>6. Len(b) = Len(a) + Len(l) /\ Len(a) \in Nat /\ Len(l) \in Nat
  BY <1>3, <1>4
<1>7. Len(l) <= Len(h)
  BY <1>1
<1>8. Begins(P, Q)
  BY <1>5 DEF Begins
<1>9. Len(P) + Len(b) <= Len(Q) + Len(a)
  BY <1>5, <1>6, <1>7
<1> QED
  BY <1>1, <1>8, <1>9 DEF Ahead

LEMMA PrefixAhead ==
  ASSUME NEW p \in Seq(Construct), Tidy(p), NEW k \in 0..Len(p)
  PROVE  Ahead(SubSeq(p, 1, k), p)
<1>1. PICK q, m : q = SubSeq(p, 1, k) /\ m = Len(p)
  OBVIOUS
<1>2. q \in Seq(Construct) /\ Len(q) = k /\ m \in Nat /\ k \in Nat /\ k <= m
  BY <1>1, PrefixFacts
<1>3. PICK S : S = {n \in k..m : ~Ahead(q, SubSeq(p, 1, n))}
  OBVIOUS
<1>4. ASSUME S # {} PROVE FALSE
  <2>1. S \subseteq Nat
    BY <1>2, <1>3
  <2>2. PICK n \in S : \A j \in S : n <= j
    BY <1>4, <2>1, NaturalsHaveLeast
  <2>3. n \in k..m /\ ~Ahead(q, SubSeq(p, 1, n))
    BY <1>3, <2>2
  <2>4. n # k
    BY <1>1, <1>2, <2>3, AheadSame
  <2>5. n - 1 \in k..m /\ n - 1 \in 0..m /\ n \in 0..m /\ n \in 1..m /\ n - 1 \notin S
    BY <1>2, <2>2, <2>3, <2>4
  <2>6. PICK s, t : s = SubSeq(p, 1, n - 1) /\ t = SubSeq(p, 1, n)
    OBVIOUS
  <2>7. /\ s \in Seq(Construct) /\ Len(s) = n - 1 /\ \A i \in 1..(n - 1) : s[i] = p[i]
        /\ t \in Seq(Construct) /\ Len(t) = n /\ \A i \in 1..n : t[i] = p[i]
    BY <1>1, <2>5, <2>6, PrefixFacts
  <2>8. Ahead(q, s)
    BY <1>3, <2>5, <2>6
  <2>9. Len(t) = Len(s) + 1 /\ \A i \in 1..Len(s) : t[i] = s[i]
    BY <2>5, <2>7
  <2>10. Len(t[Len(t)].locals) <= Len(Holds(t, Len(t)))
    <3>1. t[n] = p[n] /\ Len(t) = n /\ n \in 1..Len(p)
      BY <1>1, <2>5, <2>7
    <3>2. Holds(t, n) = Holds(p, n)
      BY <3>1 DEF Holds
    <3> QED
      BY <3>1, <3>2, HoldsLen
  <2>11. Ahead(s, t)
    BY <2>7, <2>9, <2>10, AheadNext
  <2> QED
    BY <1>2, <2>3, <2>6, <2>7, <2>8, <2>11, AheadThen
<1>5. m \in k..m
  BY <1>2
<1>6. SubSeq(p, 1, m) = p
  BY <1>1, SubSeqFull
<1> QED
  BY <1>1, <1>3, <1>4, <1>5, <1>6

LEMMA ContentHolds ==
  ASSUME NEW p \in Seq(Construct), Tidy(p)
  PROVE  /\ Len(Flags(p)) <= Len(Content(p)) /\ 1 <= Len(Flags(p))
         /\ Content(p)[1] = Callee
<1>1. SubSeq(p, 1, 0) = <<>> /\ 0 \in 0..Len(p)
  OBVIOUS
<1>2. Ahead(<<>>, p)
  BY <1>1, PrefixAhead
<1>3. Content(<<>>) = <<Callee>> /\ Flags(<<>>) = <<FALSE>>
  BY ContentNone, FlagsNone
<1>4. Begins(<<Callee>>, Content(p)) /\ 1 + Len(Flags(p)) <= Len(Content(p)) + 1
  BY <1>2, <1>3 DEF Ahead
<1>5. Len(Content(p)) \in Nat /\ Len(Flags(p)) \in Nat
  BY ContentLen
<1>6. 1 <= Len(Flags(p))
  <2>1. Flags(p) = <<FALSE>> \o Dropped(p, 0) /\ Dropped(p, 0) \in Seq(BOOLEAN)
    BY <1>1, <1>3, FlagsDropped
  <2>2. Len(<<FALSE>> \o Dropped(p, 0)) = 1 + Len(Dropped(p, 0)) /\ Len(Dropped(p, 0)) \in Nat
    BY <2>1
  <2> QED
    BY <2>1, <2>2
<1>7. Content(p)[1] = Callee
  BY <1>4 DEF Begins
<1> QED
  BY <1>4, <1>5, <1>6, <1>7

-----------------------------------------------------------------------------
(* The values of the frames *)

Over(c) == c.kind = "try" /\ c.phase \in {"landed", "leaving"}
NamedAt(c) == c.kind = "try" /\ c.named /\ c.phase = "catch"

(* the stack that a path needs: the code in front of a construct that is   *)
(* being left pops once more *)
Needs(p) ==
  Len(Content(p)) + (IF p # <<>> /\ p[Len(p)].kind = "try" /\ p[Len(p)].phase = "leaving" THEN 1 ELSE 0)

Place(s, p, k) == s + Len(Flags(SubSeq(p, 1, k - 1)))
Caught(st, s, p) ==
  \A k \in 1..Len(p) : NamedAt(p[k]) =>
    st[Place(s, p, k)] = p[k].value /\ p[k].value = Instance(p[k].class)
Placed(st, s, p) == \A i \in 1..Len(Content(p)) : st[s + i - 1] = Content(p)[i]

(* A frame whose values end below the slot top; x is whether it may hold   *)
(* values that its code does not count on. *)
Stands(st, f, top, x) ==
  /\ f.slots \in Nat \ {0} /\ f.path \in Seq(Construct) /\ Tidy(f.path)
  /\ f.slots + Needs(f.path) <= top
  /\ Caught(st, f.slots, f.path)
  /\ x \/ Placed(st, f.slots, f.path)

Above(fs, j, top) == IF j = Len(fs) THEN top ELSE fs[j + 1].slots
Covered(st, fs, top, X) ==
  /\ st \in Seq(Value) /\ (\E R : fs \in Seq(R))
  /\ top \in Nat /\ top >= 1 /\ top <= Len(st) + 1
  /\ \A j \in 1..Len(fs) : Stands(st, fs[j], Above(fs, j, top), j \in X)

Same(s, t, n) == \A i \in 1..n : t[i] = s[i]

LEMMA NeedsFacts ==
  ASSUME NEW p \in Seq(Construct), Tidy(p)
  PROVE  /\ Needs(p) \in Nat /\ Len(Content(p)) \in Nat
         /\ 1 <= Len(Content(p)) /\ Len(Content(p)) <= Needs(p)
         /\ Len(Flags(p)) \in Nat /\ 1 <= Len(Flags(p)) /\ Len(Flags(p)) <= Len(Content(p))
<1>1. PICK a, b : a = Len(Content(p)) /\ b = Len(Flags(p))
  OBVIOUS
<1>2. a \in Nat /\ b \in Nat /\ 1 <= b /\ b <= a
  BY <1>1, ContentLen, ContentHolds
<1>3. Needs(p) = a \/ Needs(p) = a + 1
  BY <1>1, <1>2 DEF Needs
<1> QED
  BY <1>1, <1>2, <1>3

(* where a name is, is within what the path holds up to its catch *)
LEMMA PlaceIs ==
  ASSUME NEW s \in Nat \ {0}, NEW p \in Seq(Construct), Tidy(p), NEW k \in 1..Len(p), NamedAt(p[k])
  PROVE  /\ Place(s, p, k) \in Nat /\ s < Place(s, p, k)
         /\ Place(s, p, k) <= s + Len(Content(p)) - 1
<1>1. PICK q, r, m : q = SubSeq(p, 1, k - 1) /\ r = SubSeq(p, 1, k) /\ m = Len(p)
  OBVIOUS
<1>2. m \in Nat /\ k \in Nat /\ k >= 1 /\ k <= m /\ k - 1 \in 0..m /\ k \in 0..m
  BY <1>1
<1>3. /\ q \in Seq(Construct) /\ Len(q) = k - 1 /\ \A i \in 1..(k - 1) : q[i] = p[i]
      /\ r \in Seq(Construct) /\ Len(r) = k /\ \A i \in 1..k : r[i] = p[i]
  BY <1>1, <1>2, PrefixFacts
<1>4. Tidy(q)
  <2>1. ASSUME NEW i \in 1..Len(q), q[i].kind = "try"
        PROVE  /\ q[i].phase \in {"landed", "leaving"} => i = Len(q)
               /\ Len(q[i].locals) = IF q[i].phase = "catch" /\ q[i].named THEN 1 ELSE 0
    <3>1. i \in 1..m /\ q[i] = p[i] /\ i # m
      BY <1>2, <1>3
    <3> QED
      BY <1>1, <2>1, <3>1 DEF Tidy
  <2> QED
    BY <2>1 DEF Tidy
<1>5. Len(Flags(q)) \in Nat /\ 1 <= Len(Flags(q)) /\ Len(Flags(q)) <= Len(Content(q)) /\ Len(Content(q)) \in Nat
  BY <1>3, <1>4, NeedsFacts
<1>6. Len(Content(r)) = Len(Content(q)) + 1
  <2>1. Content(r) = Content(q) \o Holds(r, Len(r))
    <3>1. Len(r) = Len(q) + 1 /\ \A i \in 1..Len(q) : r[i] = q[i]
      BY <1>2, <1>3
    <3> QED
      BY <1>3, <3>1, ContentNext
  <2>2. Holds(r, Len(r)) = <<p[k].value>>
    <3>1. Len(r) = k /\ r[k] = p[k]
      BY <1>2, <1>3
    <3> QED
      BY <3>1 DEF Holds, NamedAt
  <2>3. Content(q) \in Seq(Value) /\ Holds(r, Len(r)) \in Seq(Value) /\ Len(Holds(r, Len(r))) = 1
    <3>1. Len(r) \in 1..Len(r)
      BY <1>2, <1>3
    <3> QED
      BY <1>3, <2>2, <3>1, ContentTyped, HoldsTyped
  <2>4. PICK a, b : a = Content(q) /\ b = Holds(r, Len(r))
    OBVIOUS
  <2>5. Len(a \o b) = Len(a) + Len(b)
    BY <2>3, <2>4
  <2> QED
    BY <2>1, <2>3, <2>4, <2>5
<1>7. Len(Content(r)) <= Len(Content(p))
  BY <1>1, <1>2, PrefixAhead DEF Ahead, Begins
<1>8. Place(s, p, k) = s + Len(Flags(q))
  BY <1>1 DEF Place
<1>9. Len(Content(p)) \in Nat
  BY ContentLen
<1> QED
  BY <1>5, <1>6, <1>7, <1>8, <1>9

(* Names stay where they are as long as what the path holds does. *)
LEMMA NamesStay ==
  ASSUME NEW s \in Nat \ {0}, NEW p \in Seq(Construct), NEW q \in Seq(Construct), Tidy(q),
         NEW st, NEW t, Caught(st, s, p), NEW n \in Nat, Same(st, t, n), s + Len(Content(q)) - 1 <= n,
         \A k \in 1..Len(q) : NamedAt(q[k]) => k <= Len(p) /\ \A i \in 1..k : q[i] = p[i]
  PROVE  Caught(t, s, q)
<1>1. SUFFICES ASSUME NEW k \in 1..Len(q), NamedAt(q[k])
               PROVE  t[Place(s, q, k)] = q[k].value /\ q[k].value = Instance(q[k].class)
  BY DEF Caught
<1>2. k <= Len(p) /\ (\A i \in 1..k : q[i] = p[i]) /\ k \in Nat /\ k >= 1 /\ k \in 1..Len(p) /\ k \in 1..k
  BY <1>1
<1>3. SubSeq(q, 1, k - 1) = SubSeq(p, 1, k - 1)
  <2>1. PICK a, b : a = SubSeq(q, 1, k - 1) /\ b = SubSeq(p, 1, k - 1)
    OBVIOUS
  <2>2. k - 1 \in 0..Len(p) /\ k - 1 \in 0..Len(q)
    BY <1>2
  <2>3. /\ a \in Seq(Construct) /\ Len(a) = k - 1 /\ \A i \in 1..(k - 1) : a[i] = q[i]
        /\ b \in Seq(Construct) /\ Len(b) = k - 1 /\ \A i \in 1..(k - 1) : b[i] = p[i]
    BY <2>1, <2>2, PrefixFacts
  <2>4. \A i \in 1..(k - 1) : i \in 1..k
    BY <1>2
  <2>5. \A i \in 1..Len(a) : a[i] = b[i]
    BY <1>2, <2>3, <2>4
  <2>6. a = b
    BY <2>3, <2>5, Sames
  <2> QED
    BY <2>1, <2>6
<1>4. Place(s, q, k) = Place(s, p, k) /\ q[k] = p[k]
  BY <1>2, <1>3 DEF Place
<1>5. st[Place(s, q, k)] = q[k].value /\ q[k].value = Instance(q[k].class)
  BY <1>1, <1>2, <1>4 DEF Caught
<1>6. Place(s, q, k) \in 1..n
  <2>1. Place(s, q, k) \in Nat /\ s < Place(s, q, k) /\ Place(s, q, k) <= s + Len(Content(q)) - 1
    BY <1>1, PlaceIs
  <2>2. Len(Content(q)) \in Nat
    BY ContentLen
  <2> QED
    BY <2>1, <2>2
<1> QED
  BY <1>5, <1>6 DEF Same

(* The slots of a frame lie above what the frames below it hold. *)
LEMMA Rising ==
  ASSUME NEW st, NEW fs, NEW top, NEW X, Covered(st, fs, top, X)
  PROVE  /\ Len(fs) \in Nat
         /\ \A j \in 1..Len(fs) : /\ Above(fs, j, top) \in Nat
                                  /\ fs[j].slots \in Nat /\ 1 <= fs[j].slots
                                  /\ fs[j].slots < Above(fs, j, top) /\ Above(fs, j, top) <= top
<1>1. PICK m : m = Len(fs)
  OBVIOUS
<1>2. m \in Nat /\ top \in Nat
  <2>1. PICK R : fs \in Seq(R)
    BY DEF Covered
  <2> QED
    BY <1>1, <2>1 DEF Covered
<1>3. \A j \in 1..m : Above(fs, j, top) = IF j = m THEN top ELSE fs[j + 1].slots
  BY <1>1 DEF Above
<1>4. \A j \in 1..m : /\ fs[j].slots \in Nat /\ 1 <= fs[j].slots
                      /\ Above(fs, j, top) \in Nat /\ fs[j].slots < Above(fs, j, top)
  <2>1. SUFFICES ASSUME NEW j \in 1..m
                 PROVE  /\ fs[j].slots \in Nat /\ 1 <= fs[j].slots
                        /\ Above(fs, j, top) \in Nat /\ fs[j].slots < Above(fs, j, top)
    OBVIOUS
  <2>2. \A i \in 1..m : fs[i].slots \in Nat \ {0}
    BY <1>1 DEF Covered, Stands
  <2>3. Above(fs, j, top) \in Nat
    <3>1. j # m => j + 1 \in 1..m
      BY <1>2
    <3> QED
      BY <1>2, <1>3, <2>2, <3>1
  <2>4. fs[j].path \in Seq(Construct) /\ Tidy(fs[j].path) /\ fs[j].slots + Needs(fs[j].path) <= Above(fs, j, top)
    BY <1>1 DEF Covered, Stands
  <2>5. Needs(fs[j].path) \in Nat /\ 1 <= Needs(fs[j].path)
    BY <2>4, NeedsFacts
  <2>6. fs[j].slots \in Nat /\ 1 <= fs[j].slots
    BY <2>2
  <2> QED
    BY <2>3, <2>4, <2>5, <2>6
<1>5. PICK S : S = {i \in 0..(m - 1) : Above(fs, m - i, top) > top}
  OBVIOUS
<1>6. ASSUME S # {} PROVE FALSE
  <2>1. S \subseteq Nat
    BY <1>2, <1>5
  <2>2. PICK i \in S : \A k \in S : i <= k
    BY <1>6, <2>1, NaturalsHaveLeast
  <2>3. i \in 0..(m - 1) /\ Above(fs, m - i, top) > top
    BY <1>5, <2>2
  <2>4. i # 0
    BY <1>2, <1>3, <2>3
  <2>5. i - 1 \in 0..(m - 1) /\ i - 1 \notin S /\ m - (i - 1) = (m - i) + 1
    BY <1>2, <2>2, <2>3, <2>4
  <2>6. m - i \in 1..m /\ m - i # m /\ (m - i) + 1 \in 1..m
    BY <1>2, <2>3, <2>4
  <2>7. Above(fs, (m - i) + 1, top) <= top
    BY <1>2, <1>4, <1>5, <2>5, <2>6
  <2>8. Above(fs, m - i, top) = fs[(m - i) + 1].slots
    BY <1>3, <2>6
  <2>9. fs[(m - i) + 1].slots < Above(fs, (m - i) + 1, top) /\ fs[(m - i) + 1].slots \in Nat
        /\ Above(fs, (m - i) + 1, top) \in Nat
    BY <1>4, <2>6
  <2> QED
    BY <1>2, <2>3, <2>7, <2>8, <2>9
<1>7. \A j \in 1..m : Above(fs, j, top) <= top
  <2>1. SUFFICES ASSUME NEW j \in 1..m PROVE Above(fs, j, top) <= top
    OBVIOUS
  <2>2. PICK i : i = m - j
    OBVIOUS
  <2>3. i \in 0..(m - 1) /\ m - i = j
    BY <1>2, <2>2
  <2>4. ~(Above(fs, m - i, top) > top)
    BY <1>5, <1>6, <2>3
  <2> QED
    BY <1>2, <1>4, <2>3, <2>4
<1> QED
  BY <1>1, <1>2, <1>4, <1>7

(* the frames up to number k *)
LEMMA CoveredPrefix ==
  ASSUME NEW st, NEW fs, NEW top, NEW X, Covered(st, fs, top, X), NEW k \in 1..Len(fs)
  PROVE  /\ Covered(st, SubSeq(fs, 1, k - 1), fs[k].slots, X)
         /\ Len(SubSeq(fs, 1, k - 1)) = k - 1
<1>1. PICK R : fs \in Seq(R)
  BY DEF Covered
<1>2. PICK t, m, n : t = SubSeq(fs, 1, k - 1) /\ m = Len(fs) /\ n = k - 1
  OBVIOUS
<1>3. m \in Nat /\ k \in Nat /\ 1 <= k /\ k <= m /\ n \in 0..m /\ n + 1 = k
  BY <1>1, <1>2
<1>4. t \in Seq(R) /\ Len(t) = n /\ \A i \in 1..n : t[i] = fs[i]
  BY <1>1, <1>2, <1>3, PrefixFacts
<1>5. /\ fs[k].slots \in Nat /\ 1 <= fs[k].slots
      /\ fs[k].slots < Above(fs, k, top) /\ Above(fs, k, top) <= top /\ Above(fs, k, top) \in Nat
  BY Rising
<1>6. top \in Nat /\ top <= Len(st) + 1 /\ st \in Seq(Value) /\ Len(st) \in Nat
  BY DEF Covered
<1>7. ASSUME NEW j \in 1..n
      PROVE  Stands(st, t[j], Above(t, j, fs[k].slots), j \in X)
  <2>1. j \in 1..m /\ j # m /\ t[j] = fs[j] /\ j \in Nat
    BY <1>3, <1>4
  <2>2. Above(t, j, fs[k].slots) = Above(fs, j, top)
    <3>1. CASE j = n
      <4>1. j + 1 = k
        BY <1>3, <3>1
      <4> QED
        BY <1>2, <1>4, <2>1, <3>1, <4>1 DEF Above
    <3>2. CASE j # n
      <4>1. j + 1 \in 1..n
        BY <1>3, <3>2
      <4>2. t[j + 1] = fs[j + 1]
        BY <1>4, <4>1
      <4> QED
        BY <1>2, <1>4, <2>1, <3>2, <4>2 DEF Above
    <3> QED
      BY <3>1, <3>2
  <2>3. Stands(st, fs[j], Above(fs, j, top), j \in X)
    BY <1>2, <2>1 DEF Covered
  <2> QED
    BY <2>1, <2>2, <2>3
<1>8. fs[k].slots <= Len(st) + 1
  BY <1>5, <1>6
<1> QED
  BY <1>2, <1>4, <1>5, <1>6, <1>7, <1>8 DEF Covered

(* What a frame holds does not go by the values above it. *)
LEMMA StandsStays ==
  ASSUME NEW st, NEW t, NEW f, NEW top \in Nat, NEW top2 \in Nat, NEW x, Stands(st, f, top, x),
         NEW n \in Nat, Same(st, t, n), top <= n + 1, top <= top2
  PROVE  Stands(t, f, top2, x)
<1>1. PICK s, p, c : s = f.slots /\ p = f.path /\ c = Content(p)
  OBVIOUS
<1>2. s \in Nat \ {0} /\ p \in Seq(Construct) /\ Tidy(p) /\ s + Needs(p) <= top
      /\ Caught(st, s, p) /\ (x \/ Placed(st, s, p))
  BY <1>1 DEF Stands
<1>3. Needs(p) \in Nat /\ Len(c) \in Nat /\ Len(c) <= Needs(p)
  BY <1>1, <1>2, NeedsFacts
<1>4. s + Len(c) - 1 <= n /\ s + Needs(p) <= top2
  BY <1>2, <1>3
<1>5. Caught(t, s, p)
  <2>1. \A k \in 1..Len(p) : NamedAt(p[k]) => k <= Len(p) /\ \A i \in 1..k : p[i] = p[i]
    BY <1>2
  <2>2. s + Len(Content(p)) - 1 <= n
    BY <1>1, <1>4
  <2> QED
    BY <1>2, <2>1, <2>2, NamesStay
<1>6. Placed(st, s, p) => Placed(t, s, p)
  <2>1. SUFFICES ASSUME Placed(st, s, p), NEW i \in 1..Len(c) PROVE t[s + i - 1] = c[i]
    BY <1>1 DEF Placed
  <2>2. s + i - 1 \in 1..n
    BY <1>2, <1>3, <1>4
  <2>3. st[s + i - 1] = c[i]
    BY <1>1, <2>1 DEF Placed
  <2> QED
    BY <2>2, <2>3 DEF Same
<1> QED
  BY <1>1, <1>2, <1>4, <1>5, <1>6 DEF Stands

(* the same frames on a stack that is another above them *)
LEMMA CoveredStack ==
  ASSUME NEW st, NEW fs, NEW top, NEW X, Covered(st, fs, top, X),
         NEW t \in Seq(Value), NEW n \in Nat, Same(st, t, n), top <= n + 1,
         NEW top2 \in Nat, top <= top2, top2 <= Len(t) + 1
  PROVE  Covered(t, fs, top2, X)
<1>1. top \in Nat /\ top >= 1 /\ (\E R : fs \in Seq(R))
  BY DEF Covered
<1>2. ASSUME NEW j \in 1..Len(fs) PROVE Stands(t, fs[j], Above(fs, j, top2), j \in X)
  <2>1. PICK a, b, x : a = Above(fs, j, top) /\ b = Above(fs, j, top2) /\ x = (j \in X)
    OBVIOUS
  <2>2. a \in Nat /\ a <= top
    BY <2>1, Rising
  <2>3. b = a \/ (a = top /\ b = top2)
    BY <2>1 DEF Above
  <2>4. b \in Nat /\ a <= b /\ a <= n + 1
    BY <1>1, <2>2, <2>3
  <2>5. Stands(st, fs[j], a, x)
    BY <2>1 DEF Covered
  <2>6. Stands(t, fs[j], b, x)
    BY <2>2, <2>4, <2>5, StandsStays
  <2> QED
    BY <2>1, <2>6
<1>3. top2 >= 1
  BY <1>1
<1> QED
  BY <1>1, <1>2, <1>3 DEF Covered

(* one frame more *)
LEMMA CoveredPush ==
  ASSUME NEW st, NEW fs, NEW top, NEW X, Covered(st, fs, top, X),
         NEW g, g.slots = top, NEW top2 \in Nat, top2 <= Len(st) + 1,
         Stands(st, g, top2, Len(fs) + 1 \in X)
  PROVE  Covered(st, Append(fs, g), top2, X)
<1>1. PICK R : fs \in Seq(R)
  BY DEF Covered
<1>2. PICK Q, t, m : Q = R \cup {g} /\ t = Append(fs, g) /\ m = Len(fs)
  OBVIOUS
<1>3. fs \in Seq(Q) /\ g \in Q
  BY <1>1, <1>2, SeqGrows
<1>4. t \in Seq(Q) /\ Len(t) = m + 1 /\ m \in Nat /\ (\A i \in 1..m : t[i] = fs[i]) /\ t[m + 1] = g
  BY <1>2, <1>3, AppendFacts
<1>5. ASSUME NEW j \in 1..(m + 1) PROVE Stands(st, t[j], Above(t, j, top2), j \in X)
  <2>1. CASE j = m + 1
    <3>1. Above(t, j, top2) = top2
      BY <1>4, <2>1 DEF Above
    <3> QED
      BY <1>2, <1>4, <2>1, <3>1
  <2>2. CASE j # m + 1
    <3>1. j \in 1..m
      BY <1>4, <2>2
    <3>2. Above(t, j, top2) = Above(fs, j, top)
      <4>1. CASE j = m
        BY <1>2, <1>4, <4>1 DEF Above
      <4>2. CASE j # m
        <5>1. j + 1 \in 1..m
          BY <1>4, <3>1, <4>2
        <5> QED
          BY <1>2, <1>4, <2>2, <4>2, <5>1 DEF Above
      <4> QED
        BY <4>1, <4>2
    <3>3. Stands(st, fs[j], Above(fs, j, top), j \in X)
      BY <1>2, <3>1 DEF Covered
    <3> QED
      BY <1>4, <3>1, <3>2, <3>3
  <2> QED
    BY <2>1, <2>2
<1>6. st \in Seq(Value) /\ top2 >= 1
  <2>1. top \in Nat /\ top >= 1 /\ st \in Seq(Value)
    BY DEF Covered
  <2>2. g.path \in Seq(Construct) /\ Tidy(g.path) /\ top + Needs(g.path) <= top2
    BY DEF Stands
  <2>3. Needs(g.path) \in Nat
    BY <2>2, NeedsFacts
  <2> QED
    BY <2>1, <2>2, <2>3
<1> QED
  BY <1>2, <1>4, <1>5, <1>6 DEF Covered

LEMMA CoveredLeft ==
  ASSUME NEW st, NEW fs, NEW top, NEW X, Covered(st, fs, top, X),
         NEW S, fs \in Seq(FrameType(S))
  PROVE  Covered(st, Left(fs), top, X)
<1>1. PICK t, m : t = Left(fs) /\ m = Len(fs)
  OBVIOUS
<1>2. m \in Nat
  BY <1>1
<1>3. t = [j \in 1..m |-> [fs[j] EXCEPT !.left = TRUE]]
  BY <1>1 DEF Left
<1>4. ASSUME NEW j \in 1..m
      PROVE  t[j] \in FrameType(S) /\ t[j].slots = fs[j].slots /\ t[j].path = fs[j].path
  <2>1. fs[j] \in FrameType(S) /\ t[j] = [fs[j] EXCEPT !.left = TRUE]
    BY <1>1, <1>3
  <2> QED
    BY <2>1 DEF FrameType
<1>5. t \in Seq(FrameType(S)) /\ Len(t) = m
  BY <1>2, <1>3, <1>4
<1>6. ASSUME NEW j \in 1..m PROVE Stands(st, t[j], Above(t, j, top), j \in X)
  <2>1. Above(t, j, top) = Above(fs, j, top)
    <3>1. j # m => j + 1 \in 1..m
      BY <1>2
    <3> QED
      BY <1>1, <1>4, <1>5, <3>1 DEF Above
  <2>2. Stands(st, fs[j], Above(fs, j, top), j \in X)
    BY <1>1 DEF Covered
  <2> QED
    BY <1>4, <2>1, <2>2 DEF Stands
<1> QED
  BY <1>1, <1>5, <1>6 DEF Covered

Settled(p) == \A i \in 1..Len(p) : ~Over(p[i])

LEMMA SettledPrefix ==
  ASSUME NEW p \in Seq(Construct), Tidy(p), NEW k \in 0..Len(p), k < Len(p) \/ Settled(p)
  PROVE  /\ SubSeq(p, 1, k) \in Seq(Construct) /\ Len(SubSeq(p, 1, k)) = k
         /\ \A i \in 1..k : SubSeq(p, 1, k)[i] = p[i]
         /\ Tidy(SubSeq(p, 1, k)) /\ Settled(SubSeq(p, 1, k))
<1>1. PICK r, m : r = SubSeq(p, 1, k) /\ m = Len(p)
  OBVIOUS
<1>2. r \in Seq(Construct) /\ Len(r) = k /\ \A i \in 1..k : r[i] = p[i]
  BY <1>1, PrefixFacts
<1>3. ASSUME NEW i \in 1..k PROVE ~Over(p[i])
  <2>1. i \in 1..m /\ (k < m => i # m)
    BY <1>1
  <2>2. i # m => ~Over(p[i])
    BY <1>1, <2>1 DEF Tidy, Over
  <2>3. Settled(p) => ~Over(p[i])
    BY <1>1, <2>1 DEF Settled
  <2> QED
    BY <1>1, <2>1, <2>2, <2>3
<1>4. Settled(r)
  BY <1>2, <1>3 DEF Settled
<1>5. Tidy(r)
  <2>1. ASSUME NEW i \in 1..Len(r), r[i].kind = "try"
        PROVE  /\ r[i].phase \notin {"landed", "leaving"}
               /\ Len(r[i].locals) = IF r[i].phase = "catch" /\ r[i].named THEN 1 ELSE 0
    <3>1. i \in 1..m /\ r[i] = p[i] /\ ~Over(r[i])
      BY <1>1, <1>2, <1>3
    <3> QED
      BY <1>1, <2>1, <3>1 DEF Tidy, Over
  <2> QED
    BY <2>1 DEF Tidy
<1> QED
  BY <1>1, <1>2, <1>4, <1>5

LEMMA SettledNeeds ==
  ASSUME NEW p \in Seq(Construct), p # <<>> => ~(p[Len(p)].kind = "try" /\ p[Len(p)].phase = "leaving")
  PROVE  Needs(p) = Len(Content(p))
BY ContentLen DEF Needs

LEMMA SettledLast ==
  ASSUME NEW p \in Seq(Construct), Settled(p)
  PROVE  p # <<>> => ~(p[Len(p)].kind = "try" /\ p[Len(p)].phase = "leaving")
<1>1. p # <<>> => Len(p) \in 1..Len(p)
  BY EmptySeq
<1> QED
  BY <1>1 DEF Settled, Over

(* A frame that goes back on its path holds less. *)
LEMMA StandsBack ==
  ASSUME NEW st, NEW t, NEW f, NEW top \in Nat, NEW x, Stands(st, f, top, x),
         NEW k \in 0..Len(f.path), k < Len(f.path) \/ Settled(f.path),
         NEW g, g.slots = f.slots, g.path = SubSeq(f.path, 1, k),
         NEW n \in Nat, Same(st, t, n), f.slots + Len(Content(g.path)) <= n + 1,
         NEW top2 \in Nat, f.slots + Len(Content(g.path)) <= top2
  PROVE  Stands(t, g, top2, x)
<1>1. PICK s, p, r : s = f.slots /\ p = f.path /\ r = g.path
  OBVIOUS
<1>2. s \in Nat \ {0} /\ p \in Seq(Construct) /\ Tidy(p)
      /\ Caught(st, s, p) /\ (x \/ Placed(st, s, p))
  BY <1>1 DEF Stands
<1>3. /\ r \in Seq(Construct) /\ Len(r) = k /\ (\A i \in 1..k : r[i] = p[i]) /\ Tidy(r) /\ Settled(r)
      /\ k \in 0..Len(p) /\ r = SubSeq(p, 1, k)
  BY <1>1, <1>2, SettledPrefix
<1>4. Needs(r) = Len(Content(r)) /\ Len(Content(r)) \in Nat
  BY <1>3, SettledNeeds, SettledLast, ContentLen
<1>5. s + Needs(r) <= top2 /\ s + Len(Content(r)) - 1 <= n
  BY <1>1, <1>2, <1>4
<1>6. Caught(t, s, r)
  <2>1. \A i \in 1..Len(r) : NamedAt(r[i]) => i <= Len(p) /\ \A j \in 1..i : r[j] = p[j]
    <3>1. \A i \in 1..k : i <= Len(p) /\ \A j \in 1..i : j \in 1..k
      BY <1>2, <1>3
    <3> QED
      BY <1>3, <3>1
  <2> QED
    BY <1>2, <1>3, <1>5, <2>1, NamesStay
<1>7. Placed(st, s, p) => Placed(t, s, r)
  <2>1. SUFFICES ASSUME Placed(st, s, p), NEW i \in 1..Len(Content(r)) PROVE t[s + i - 1] = Content(r)[i]
    BY DEF Placed
  <2>2. Begins(Content(r), Content(p))
    BY <1>2, <1>3, PrefixAhead DEF Ahead
  <2>3. i \in 1..Len(Content(p)) /\ Content(p)[i] = Content(r)[i]
    <3>1. Len(Content(p)) \in Nat
      BY <1>2, ContentLen
    <3> QED
      BY <1>4, <2>2, <3>1 DEF Begins
  <2>4. st[s + i - 1] = Content(p)[i]
    BY <2>1, <2>3 DEF Placed
  <2>5. s + i - 1 \in 1..n
    BY <1>2, <1>4, <1>5
  <2> QED
    BY <2>3, <2>4, <2>5 DEF Same
<1> QED
  BY <1>1, <1>2, <1>3, <1>5, <1>6, <1>7 DEF Stands

(* what the last construct of a path holds, on a stack t *)
OnTop(t, s, r, h) == \A i \in 1..Len(h) : t[s + Len(Content(r)) + i - 1] = h[i]

(* A frame that enters a construct, in place of those from number k + 1 on. *)
LEMMA StandsNext ==
  ASSUME NEW st, NEW t, NEW f, NEW top \in Nat, NEW x, Stands(st, f, top, x),
         NEW k \in 0..Len(f.path), k < Len(f.path) \/ Settled(f.path),
         NEW r, r = SubSeq(f.path, 1, k),
         NEW d \in Construct,
         d.kind = "try" => ~NamedAt(d) /\ Len(d.locals) = 0,
         NEW e \in {0, 1}, d.kind = "try" /\ d.phase = "leaving" => e = 1,
         NEW g, g.slots = f.slots, g.path = Append(r, d),
         NEW h, h = Holds(g.path, k + 1),
         NEW n \in Nat, Same(st, t, n), f.slots + Len(Content(r)) <= n + 1,
         NEW top2 \in Nat, f.slots + Len(Content(r)) + Len(h) + e <= top2,
         x \/ OnTop(t, f.slots, r, h)
  PROVE  Stands(t, g, top2, x)
<1>1. PICK s, p, q : s = f.slots /\ p = f.path /\ q = g.path
  OBVIOUS
<1>2. s \in Nat \ {0} /\ p \in Seq(Construct) /\ Tidy(p)
      /\ Caught(st, s, p) /\ (x \/ Placed(st, s, p))
  BY <1>1 DEF Stands
<1>3. /\ r \in Seq(Construct) /\ Len(r) = k /\ (\A i \in 1..k : r[i] = p[i]) /\ Tidy(r) /\ Settled(r)
      /\ k \in Nat /\ k <= Len(p)
  BY SMTT(30), <1>1, <1>2, SettledPrefix
<1>4. /\ q \in Seq(Construct) /\ Len(q) = k + 1 /\ q[k + 1] = d /\ \A i \in 1..k : q[i] = r[i]
  BY SMTT(30), <1>1, <1>3, AppendFacts
<1>5. PICK C, a, b : C = Content(r) /\ a = Len(C) /\ b = Len(h)
  OBVIOUS
<1>6. /\ C \in Seq(Value) /\ h \in Seq(Value) /\ a \in Nat /\ b \in Nat
      /\ Content(q) = C \o h
  <2>1. Len(q) = Len(r) + 1 /\ (\A i \in 1..Len(r) : q[i] = r[i]) /\ k + 1 \in 1..Len(q) /\ Len(q) = k + 1
    BY <1>3, <1>4
  <2>2. Content(q) = Content(r) \o Holds(q, Len(q))
    BY <1>3, <1>4, <2>1, ContentNext
  <2>3. Holds(q, k + 1) \in Seq(Value) /\ Content(r) \in Seq(Value)
    BY <1>3, <1>4, <2>1, HoldsTyped, ContentTyped
  <2>4. h = Holds(q, k + 1)
    BY <1>1
  <2>5. h \in Seq(Value) /\ C \in Seq(Value) /\ Content(q) = C \o h
    BY <1>5, <2>1, <2>2, <2>3, <2>4
  <2>6. a \in Nat /\ b \in Nat
    BY <1>5, <2>5
  <2> QED
    BY <2>5, <2>6
<1>7. /\ Len(Content(q)) = a + b /\ \A i \in 1..a : Content(q)[i] = C[i]
      /\ \A i \in 1..b : Content(q)[a + i] = h[i]
  BY <1>5, <1>6
<1>e. s + a <= n + 1 /\ s + a + b + e <= top2
  BY <1>1, <1>5
<1>8. Needs(q) = a + b \/ (Needs(q) = a + b + 1 /\ e = 1)
  <2>1. CASE d.kind = "try" /\ d.phase = "leaving"
    <3>1. q # <<>> /\ q[Len(q)] = d /\ e = 1
      BY <1>3, <1>4, <2>1
    <3> QED
      BY <1>7, <2>1, <3>1 DEF Needs
  <2>2. CASE ~(d.kind = "try" /\ d.phase = "leaving")
    <3>1. q # <<>> => ~(q[Len(q)].kind = "try" /\ q[Len(q)].phase = "leaving")
      BY <1>4, <2>2
    <3> QED
      BY <1>4, <1>7, <3>1, SettledNeeds
  <2> QED
    BY <2>1, <2>2
<1>9. Tidy(q)
  <2>1. ASSUME NEW i \in 1..Len(q), q[i].kind = "try"
        PROVE  /\ q[i].phase \in {"landed", "leaving"} => i = Len(q)
               /\ Len(q[i].locals) = IF q[i].phase = "catch" /\ q[i].named THEN 1 ELSE 0
    <3>1. CASE i = k + 1
      BY <1>4, <2>1, <3>1 DEF NamedAt
    <3>2. CASE i # k + 1
      <4>1. i \in 1..Len(r) /\ q[i] = r[i] /\ ~Over(r[i])
        BY SMTT(30), <1>3, <1>4, <3>2 DEF Settled
      <4> QED
        BY <1>3, <2>1, <4>1 DEF Tidy, Over
    <3> QED
      BY <3>1, <3>2
  <2> QED
    BY <2>1 DEF Tidy
<1>10. Caught(t, s, r)
  <2>1. \A i \in 1..Len(r) : NamedAt(r[i]) => i <= Len(p) /\ \A j \in 1..i : r[j] = p[j]
    <3>1. \A i \in 1..k : i <= Len(p) /\ \A j \in 1..i : j \in 1..k
      <4>1. Len(p) \in Nat /\ k \in Nat /\ k <= Len(p)
        BY <1>2, <1>3
      <4> QED
        BY <4>1
    <3> QED
      BY <1>3, <3>1
  <2>2. s + Len(Content(r)) - 1 <= n
    BY SMTT(30), <1>1, <1>2, <1>5, <1>6
  <2> QED
    BY <1>2, <1>3, <2>1, <2>2, NamesStay
<1>11. Caught(t, s, q)
  <2>1. SUFFICES ASSUME NEW i \in 1..Len(q), NamedAt(q[i])
                 PROVE  t[Place(s, q, i)] = q[i].value /\ q[i].value = Instance(q[i].class)
    BY DEF Caught
  <2>2. i # k + 1
    BY <1>4, <2>1 DEF NamedAt
  <2>3. i \in 1..k /\ q[i] = r[i]
    BY <1>3, <1>4, <2>2
  <2>4. SubSeq(q, 1, i - 1) = SubSeq(r, 1, i - 1)
    <3>1. PICK u, v : u = SubSeq(q, 1, i - 1) /\ v = SubSeq(r, 1, i - 1)
      OBVIOUS
    <3>2. i - 1 \in 0..Len(q) /\ i - 1 \in 0..Len(r)
      BY <1>3, <1>4, <2>3
    <3>3. /\ u \in Seq(Construct) /\ Len(u) = i - 1 /\ \A j \in 1..(i - 1) : u[j] = q[j]
          /\ v \in Seq(Construct) /\ Len(v) = i - 1 /\ \A j \in 1..(i - 1) : v[j] = r[j]
      BY SMTT(30), <1>3, <1>4, <3>1, <3>2, PrefixFacts
    <3>4. \A j \in 1..(i - 1) : j \in 1..k
      BY <1>3, <2>3
    <3>5. \A j \in 1..Len(u) : u[j] = v[j]
      BY <1>4, <3>3, <3>4
    <3>6. u = v
      BY <3>3, <3>5, Sames
    <3> QED
      BY <3>1, <3>6
  <2>5. Place(s, q, i) = Place(s, r, i)
    BY <2>4 DEF Place
  <2>6. i \in 1..Len(r)
    BY <1>3, <2>3
  <2> QED
    BY <1>10, <2>1, <2>3, <2>5, <2>6 DEF Caught
<1>12. x \/ Placed(t, s, q)
  <2>1. SUFFICES ASSUME ~x, NEW i \in 1..(a + b) PROVE t[s + i - 1] = Content(q)[i]
    BY <1>7 DEF Placed
  <2>2. CASE i <= a
    <3>1. i \in 1..a
      BY <1>6, <2>2
    <3>2. Begins(C, Content(p))
      BY <1>1, <1>2, <1>5, PrefixAhead DEF Ahead
    <3>3. i \in 1..Len(Content(p)) /\ Content(p)[i] = C[i]
      <4>1. Len(Content(p)) \in Nat
        BY <1>2, ContentLen
      <4> QED
        BY <1>5, <1>6, <3>1, <3>2, <4>1 DEF Begins
    <3>4. st[s + i - 1] = Content(p)[i]
      BY <1>2, <2>1, <3>3 DEF Placed
    <3>5. s + i - 1 \in 1..n
      BY <1>2, <1>6, <1>e, <3>1
    <3>6. t[s + i - 1] = st[s + i - 1]
      BY <3>5 DEF Same
    <3> QED
      BY <1>7, <3>1, <3>3, <3>4, <3>6
  <2>3. CASE i > a
    <3>1. PICK j : j = i - a
      OBVIOUS
    <3>2. j \in 1..b /\ a + j = i /\ s + a + j - 1 = s + i - 1
      BY <1>2, <1>6, <2>3, <3>1
    <3>3. t[s + a + j - 1] = h[j]
      BY <1>1, <1>5, <2>1, <3>2 DEF OnTop
    <3> QED
      BY <1>7, <3>2, <3>3
  <2>4. i <= a \/ i > a
    BY <1>6, <2>1
  <2> QED
    BY <2>2, <2>3, <2>4
<1>13. s + Needs(q) <= top2
  <2>1. PICK w : w = Needs(q)
    OBVIOUS
  <2>2. w \in Nat /\ (w = a + b \/ (w = a + b + 1 /\ e = 1))
    BY <1>6, <1>8, <2>1
  <2>3. s \in Nat /\ a \in Nat /\ b \in Nat /\ top2 \in Nat /\ s + a + b + e <= top2
    BY <1>2, <1>6, <1>e
  <2>4. s + w <= top2
    BY <2>2, <2>3
  <2> QED
    BY <2>1, <2>4
<1> QED
  BY <1>1, <1>2, <1>4, <1>9, <1>11, <1>12, <1>13 DEF Stands

-----------------------------------------------------------------------------
(* The invariant of the values, and what keeps it *)

(* An exception that has just landed, in the last frame, is on top of the  *)
(* stack and of the class of its catch.                                    *)
HasLanded(p) == \E k \in 1..Len(p) : p[k].kind = "try" /\ p[k].phase = "landed"
Lands(st, fs, stat) ==
  \A j \in 1..Len(fs) : HasLanded(fs[j].path) =>
    /\ j = Len(fs) /\ stat = "running"
    /\ LET c == fs[j].path[Len(fs[j].path)] IN
       st[Len(st)] = c.value /\ c.value = Instance(c.class)

(* What Shifts says of a frame f whose values end below the slot top, and  *)
(* that it says it of no frame of fs but those in X.                       *)
Loose(f, top) ==
  \/ top - f.slots > Len(Content(f.path))
  \/ \E k, i \in 1..Len(f.path) :
       /\ f.path[k].kind = "try" /\ f.path[k].phase \in {"finally", "raised"}
       /\ k < i /\ f.path[i].locals # <<>>
Snug(st, fs, X) ==
  \A j \in 1..Len(fs) : j \notin X => ~Loose(fs[j], Above(fs, j, Len(st) + 1))

(* Each frame has the values that its code counts on (Covered), those that *)
(* are not shifted no others (Snug); and a finally block takes another     *)
(* value for its flag only when a frame was shifted.                       *)
CInv ==
  /\ shifted \subseteq 0..Len(frames) /\ (shifted # {} => 0 \in shifted)
  /\ misled => 0 \in shifted
  /\ Snug(stack, frames, shifted)
  /\ ~misled => /\ Covered(stack, frames, Len(stack) + 1, shifted)
                /\ Lands(stack, frames, status)

Ready == HInv /\ CInv /\ ~misled
Kind(X) == shifted \subseteq X /\ Snug(stack', frames', X)
Covers(X) ==
  /\ Covered(stack', frames', Len(stack') + 1, X)
  /\ Lands(stack', frames', status')

LEMMA ReadyFacts ==
  ASSUME Ready, status = "running"
  PROVE  /\ stack \in Seq(Value) /\ Len(stack) \in Nat /\ Len(stack) >= 1
         /\ Len(frames) \in Nat /\ Len(frames) >= 1 /\ Len(frames) \in 1..Len(frames)
         /\ F = frames[Len(frames)]
         /\ Covered(stack, frames, Len(stack) + 1, shifted) /\ Lands(stack, frames, status)
         /\ Stands(stack, F, Len(stack) + 1, Len(frames) \in shifted)
         /\ F.slots \in Nat /\ 1 <= F.slots /\ F.path \in Seq(Construct) /\ Tidy(F.path)
         /\ Len(F.path) \in Nat
         /\ F.slots + Needs(F.path) <= Len(stack) + 1
         /\ Len(Content(F.path)) \in Nat /\ 1 <= Len(Content(F.path))
         /\ F.slots + Len(Content(F.path)) <= Len(stack) + 1
<1>1. HInv /\ CInv /\ ~misled
  BY DEF Ready
<1>2. Len(frames) \in Nat /\ Len(frames) >= 1 /\ F = frames[Len(frames)] /\ Len(F.path) \in Nat
  BY <1>1, TopFacts
<1>3. Covered(stack, frames, Len(stack) + 1, shifted) /\ Lands(stack, frames, status)
  BY <1>1 DEF CInv
<1>4. stack \in Seq(Value) /\ Len(stack) \in Nat
  BY <1>3 DEF Covered
<1>5. Len(frames) \in 1..Len(frames)
  BY <1>2
<1>6. Stands(stack, F, Len(stack) + 1, Len(frames) \in shifted)
  <2>1. Above(frames, Len(frames), Len(stack) + 1) = Len(stack) + 1
    BY DEF Above
  <2>2. Stands(stack, frames[Len(frames)], Above(frames, Len(frames), Len(stack) + 1), Len(frames) \in shifted)
    BY <1>3, <1>5 DEF Covered
  <2> QED
    BY <1>2, <2>1, <2>2
<1>7. /\ F.slots \in Nat /\ 1 <= F.slots /\ F.path \in Seq(Construct) /\ Tidy(F.path)
      /\ F.slots + Needs(F.path) <= Len(stack) + 1
  BY <1>6 DEF Stands
<1>8. /\ Len(Content(F.path)) \in Nat /\ 1 <= Len(Content(F.path))
      /\ Len(Content(F.path)) <= Needs(F.path) /\ Needs(F.path) \in Nat
  BY <1>7, NeedsFacts
<1>9. F.slots + Len(Content(F.path)) <= Len(stack) + 1 /\ Len(stack) >= 1
  BY <1>4, <1>7, <1>8
<1> QED
  BY <1>2, <1>3, <1>4, <1>5, <1>6, <1>7, <1>8, <1>9

(* where statements begin and end, no construct has just landed *)
LEMMA RunningFacts ==
  ASSUME Ready, Running
  PROVE  status = "running" /\ Settled(F.path) /\ \A j \in 1..Len(frames) : ~HasLanded(frames[j].path)
<1>1. status = "running" /\ ~In("landed") /\ ~In("leaving")
  BY DEF Running
<1>2. PICK p : p = F.path
  OBVIOUS
<1>3. p \in Seq(Construct) /\ Tidy(p) /\ Lands(stack, frames, status) /\ F = frames[Len(frames)]
  BY <1>1, <1>2, ReadyFacts
<1>4. ASSUME NEW i \in 1..Len(p) PROVE ~Over(p[i])
  <2>1. Over(p[i]) => i = Len(p)
    BY <1>3 DEF Tidy, Over
  <2>2. i = Len(p) => p # <<>> /\ Top = p[i]
    <3>1. p = <<>> => Len(p) = 0
      OBVIOUS
    <3> QED
      BY <1>2, <1>3, <3>1 DEF Top, Last
  <2>3. i = Len(p) => ~Over(p[i])
    BY <1>1, <1>2, <2>2 DEF In, Over
  <2> QED
    BY <2>1, <2>3
<1>5. Settled(p)
  BY <1>4 DEF Settled
<1>6. ~HasLanded(p)
  BY <1>5 DEF Settled, HasLanded, Over
<1>7. \A j \in 1..Len(frames) : ~HasLanded(frames[j].path)
  BY <1>2, <1>3, <1>6 DEF Lands
<1> QED
  BY <1>1, <1>2, <1>5, <1>7

LEMMA StandsWeaker ==
  ASSUME NEW st, NEW f, NEW top, NEW x, NEW y, Stands(st, f, top, x), x => y
  PROVE  Stands(st, f, top, y)
BY DEF Stands

LEMMA CoveredWeaker ==
  ASSUME NEW st, NEW fs, NEW top, NEW X, NEW Y, Covered(st, fs, top, X),
         \A j \in 1..Len(fs) : j \in X => j \in Y
  PROVE  Covered(st, fs, top, Y)
<1>1. ASSUME NEW j \in 1..Len(fs) PROVE Stands(st, fs[j], Above(fs, j, top), j \in Y)
  <2>1. PICK f, a, x, y : f = fs[j] /\ a = Above(fs, j, top) /\ x = (j \in X) /\ y = (j \in Y)
    OBVIOUS
  <2>2. Stands(st, f, a, x) /\ (x => y)
    BY <2>1 DEF Covered
  <2>3. Stands(st, f, a, y)
    BY <2>2, StandsWeaker
  <2> QED
    BY <2>1, <2>3
<1> QED
  BY <1>1 DEF Covered

LEMMA TopReplaced ==
  ASSUME NEW S, NEW s \in Seq(S), Len(s) >= 1, NEW v \in S
  PROVE  [s EXCEPT ![Len(s)] = v] = Append(SubSeq(s, 1, Len(s) - 1), v)
<1>1. PICK a, b, m : /\ a = [s EXCEPT ![Len(s)] = v] /\ m = Len(s) - 1
                     /\ b = Append(SubSeq(s, 1, m), v)
  OBVIOUS
<1>2. m \in 0..Len(s) /\ m + 1 = Len(s)
  BY <1>1
<1>3. /\ a \in Seq(S) /\ Len(a) = Len(s) /\ a[Len(s)] = v
      /\ \A i \in 1..Len(s) : i # Len(s) => a[i] = s[i]
  BY <1>1, LastReplaced
<1>4. SubSeq(s, 1, m) \in Seq(S) /\ Len(SubSeq(s, 1, m)) = m /\ \A i \in 1..m : SubSeq(s, 1, m)[i] = s[i]
  BY <1>2, PrefixFacts
<1>5. /\ b \in Seq(S) /\ Len(b) = m + 1 /\ b[m + 1] = v
      /\ \A i \in 1..m : b[i] = SubSeq(s, 1, m)[i]
  BY <1>1, <1>4, AppendFacts
<1>6. ASSUME NEW i \in 1..Len(a) PROVE a[i] = b[i]
  <2>1. CASE i = Len(s)
    BY <1>2, <1>3, <1>5, <2>1
  <2>2. CASE i # Len(s)
    <3>1. i \in 1..m
      BY <1>2, <1>3, <2>2
    <3> QED
      BY <1>3, <1>4, <1>5, <2>2, <3>1
  <2> QED
    BY <2>1, <2>2
<1>7. a = b
  BY <1>2, <1>3, <1>5, <1>6, Sames
<1> QED
  BY <1>1, <1>7

(* frame k becomes g, and those above it are gone *)
LEMMA CutCovers ==
  ASSUME NEW st, NEW fs, NEW top, NEW X, Covered(st, fs, top, X), NEW k \in 1..Len(fs),
         NEW g, g.slots = fs[k].slots,
         NEW t \in Seq(Value), NEW n \in Nat, Same(st, t, n), g.slots <= n + 1,
         Stands(t, g, Len(t) + 1, k \in X)
  PROVE  Covered(t, Append(SubSeq(fs, 1, k - 1), g), Len(t) + 1, X)
<1>1. PICK us, s : us = SubSeq(fs, 1, k - 1) /\ s = fs[k].slots
  OBVIOUS
<1>2. Covered(st, us, s, X) /\ Len(us) = k - 1
  BY <1>1, CoveredPrefix
<1>3. s \in Nat /\ Len(t) \in Nat /\ s <= Len(t) + 1 /\ s <= n + 1
  <2>1. s \in Nat /\ s + Needs(g.path) <= Len(t) + 1 /\ g.path \in Seq(Construct) /\ Tidy(g.path)
    BY <1>1 DEF Stands
  <2>2. Needs(g.path) \in Nat
    BY <2>1, NeedsFacts
  <2> QED
    BY <1>1, <2>1, <2>2
<1>4. Covered(t, us, s, X)
  BY <1>2, <1>3, CoveredStack
<1>5. Len(us) + 1 = k
  <2>1. k \in Nat
    OBVIOUS
  <2> QED
    BY <1>2, <2>1
<1>6. Stands(t, g, Len(t) + 1, Len(us) + 1 \in X)
  BY <1>5
<1>7. Covered(t, Append(us, g), Len(t) + 1, X)
  <2>1. Len(t) + 1 \in Nat /\ Len(t) + 1 <= Len(t) + 1 /\ g.slots = s
    BY <1>1, <1>3
  <2> QED
    BY <1>4, <1>6, <2>1, CoveredPush
<1> QED
  BY <1>1, <1>7

(* a step of the frame on top *)
LEMMA TopStep ==
  ASSUME Ready, status = "running", NEW X, Kind(X), NEW S, NEW g \in FrameType(S),
         g.slots = F.slots, frames' = [frames EXCEPT ![Len(frames)] = g],
         stack' \in Seq(Value), NEW n \in Nat, Same(stack, stack', n), F.slots <= n + 1,
         Stands(stack', g, Len(stack') + 1, Len(frames) \in X), ~HasLanded(g.path)
  PROVE  Covers(X)
<1>1. PICK L, fs, t : L = Len(frames) /\ fs = frames /\ t = stack'
  OBVIOUS
<1>2. /\ L \in Nat /\ L >= 1 /\ L \in 1..Len(fs) /\ F = fs[L]
      /\ Covered(stack, fs, Len(stack) + 1, shifted) /\ Lands(stack, fs, status)
  BY <1>1, ReadyFacts
<1>3. Covered(stack, fs, Len(stack) + 1, X)
  <2>1. \A j \in 1..Len(fs) : j \in shifted => j \in X
    BY DEF Kind
  <2> QED
    BY <1>2, <2>1, CoveredWeaker
<1>4. Covered(t, Append(SubSeq(fs, 1, L - 1), g), Len(t) + 1, X)
  <2>1. g.slots = fs[L].slots /\ g.slots <= n + 1 /\ t \in Seq(Value) /\ Same(stack, t, n)
        /\ Stands(t, g, Len(t) + 1, L \in X)
    BY <1>1, <1>2
  <2> QED
    BY <1>2, <1>3, <2>1, CutCovers
<1>5. PICK T : fs \in Seq(FrameType(T))
  BY <1>1, TopFacts DEF Ready
<1>6. PICK R : R = S \cup T
  OBVIOUS
<1>7. fs \in Seq(FrameType(R)) /\ g \in FrameType(R)
  <2>1. FrameType(S) \subseteq FrameType(R) /\ FrameType(T) \subseteq FrameType(R)
    BY <1>6 DEF FrameType
  <2> QED
    BY <1>5, <2>1, SeqGrows
<1>8. frames' = Append(SubSeq(fs, 1, L - 1), g)
  BY <1>1, <1>2, <1>7, TopReplaced
<1>9. /\ Len(frames') = L /\ frames'[L] = g /\ \A j \in 1..L : j # L => frames'[j] = fs[j]
  BY <1>1, <1>2, <1>7, LastReplaced
<1>10. ASSUME NEW j \in 1..L PROVE ~HasLanded(frames'[j].path)
  <2>1. j # L => ~HasLanded(fs[j].path)
    BY <1>1, <1>2 DEF Lands
  <2> QED
    BY <1>9, <2>1
<1>11. Lands(stack', frames', status')
  BY <1>9, <1>10 DEF Lands
<1> QED
  BY <1>1, <1>4, <1>8, <1>11 DEF Covers

LEMMA NotLanded ==
  ASSUME NEW p, Settled(p)
  PROVE  ~HasLanded(p)
BY DEF Settled, HasLanded, Over

(* The frame on top goes back to the first k of its constructs, and its    *)
(* code has popped what the others held. *)
LEMMA BackStep ==
  ASSUME Ready, status = "running", NEW X, Kind(X), NEW S, NEW g \in FrameType(S),
         g.slots = F.slots, frames' = [frames EXCEPT ![Len(frames)] = g],
         NEW k \in 0..Len(F.path), k < Len(F.path) \/ Settled(F.path),
         g.path = SubSeq(F.path, 1, k),
         stack' \in Seq(Value), Same(stack, stack', Len(stack')),
         F.slots + Len(Content(g.path)) <= Len(stack') + 1
  PROVE  Covers(X)
<1>1. PICK n, x, y, top, top2 : /\ n = Len(stack') /\ x = (Len(frames) \in shifted) /\ y = (Len(frames) \in X)
                                /\ top = Len(stack) + 1 /\ top2 = Len(stack') + 1
  OBVIOUS
<1>2. n \in Nat /\ top2 \in Nat
  BY <1>1
<1>3. /\ Stands(stack, F, top, x) /\ F.slots \in Nat /\ F.path \in Seq(Construct) /\ Tidy(F.path)
      /\ top \in Nat
  BY <1>1, ReadyFacts
<1>4. Stands(stack, F, top, y)
  <2>1. x => y
    BY <1>1 DEF Kind
  <2> QED
    BY <1>3, <2>1, StandsWeaker
<1>5. g.path \in Seq(Construct) /\ Settled(g.path)
  BY <1>3, SettledPrefix
<1>6. Len(Content(g.path)) \in Nat
  BY <1>5, ContentLen
<1>7. Same(stack, stack', n) /\ F.slots + Len(Content(g.path)) <= n + 1 /\ F.slots + Len(Content(g.path)) <= top2
  BY <1>1
<1>8. Stands(stack', g, top2, y)
  BY <1>2, <1>3, <1>4, <1>7, StandsBack
<1>9. F.slots <= n + 1
  BY <1>2, <1>3, <1>6, <1>7
<1> QED
  BY <1>1, <1>2, <1>5, <1>7, <1>8, <1>9, NotLanded, TopStep

LastIs(t, h) == \A i \in 1..Len(h) : t[Len(t) - Len(h) + i] = h[i]

(* a frame that holds no more than its code counts on *)
LEMMA SnugTop ==
  ASSUME NEW s \in Nat, NEW r, NEW t, NEW h, Len(Content(r)) \in Nat, Len(h) \in Nat, Len(t) \in Nat,
         s + Len(Content(r)) + Len(h) <= Len(t) + 1,
         Len(t) + 1 <= s + Len(Content(r)) + Len(h), LastIs(t, h)
  PROVE  OnTop(t, s, r, h)
<1>1. PICK a, b, c : a = Len(Content(r)) /\ b = Len(h) /\ c = Len(t)
  OBVIOUS
<1>2. a \in Nat /\ b \in Nat /\ c \in Nat /\ s + a + b <= c + 1 /\ c + 1 <= s + a + b
  BY <1>1
<1>3. ASSUME NEW i \in 1..b PROVE t[s + a + i - 1] = h[i]
  <2>1. c - b + i = s + a + i - 1
    BY <1>2
  <2>2. t[c - b + i] = h[i]
    BY <1>1 DEF LastIs
  <2> QED
    BY <2>1, <2>2
<1> QED
  BY <1>1, <1>3 DEF OnTop

(* The frame on top enters a construct, in place of those from number      *)
(* k + 1 on, and what it holds is on top of the stack. *)
LEMMA EnterStep ==
  ASSUME Ready, status = "running", NEW X, Kind(X), NEW S, NEW g \in FrameType(S),
         g.slots = F.slots, frames' = [frames EXCEPT ![Len(frames)] = g],
         NEW k \in 0..Len(F.path), k < Len(F.path) \/ Settled(F.path),
         NEW r, r = SubSeq(F.path, 1, k), NEW d \in Construct,
         d.kind = "try" => ~NamedAt(d) /\ Len(d.locals) = 0 /\ ~Over(d),
         g.path = Append(r, d), NEW h, h = Holds(g.path, k + 1),
         stack' \in Seq(Value), NEW n \in Nat, Same(stack, stack', n),
         F.slots + Len(Content(r)) <= n + 1,
         F.slots + Len(Content(r)) + Len(h) <= Len(stack') + 1,
         Len(frames) \in X \/ LastIs(stack', h)
  PROVE  Covers(X)
<1>1. PICK x, y, top, top2, s : /\ x = (Len(frames) \in shifted) /\ y = (Len(frames) \in X)
                                /\ top = Len(stack) + 1 /\ top2 = Len(stack') + 1 /\ s = F.slots
  OBVIOUS
<1>2. top2 \in Nat /\ Len(stack') \in Nat
  BY SMTT(30), <1>1
<1>3. /\ Stands(stack, F, top, x) /\ s \in Nat /\ F.path \in Seq(Construct) /\ Tidy(F.path)
      /\ top \in Nat /\ Len(frames) \in Nat /\ Len(frames) >= 1
  BY <1>1, ReadyFacts
<1>4. Stands(stack, F, top, y)
  <2>1. x => y
    BY <1>1 DEF Kind
  <2> QED
    BY <1>3, <2>1, StandsWeaker
<1>5. /\ r \in Seq(Construct) /\ Len(r) = k /\ Settled(r) /\ k \in Nat
      /\ Len(Content(r)) \in Nat
  <2>1. PICK p : p = F.path
    OBVIOUS
  <2>2. p \in Seq(Construct) /\ Tidy(p) /\ k \in 0..Len(p) /\ (k < Len(p) \/ Settled(p))
    BY <1>3, <2>1
  <2>3. r = SubSeq(p, 1, k)
    BY <2>1
  <2>4. r \in Seq(Construct) /\ Len(r) = k /\ Settled(r)
    BY <2>2, <2>3, SettledPrefix
  <2>5. k \in Nat
    BY <2>2
  <2>6. Len(Content(r)) \in Nat
    BY <2>4, ContentLen
  <2> QED
    BY <2>4, <2>5, <2>6
<1>6. PICK q : q = g.path
  OBVIOUS
<1>7. /\ q \in Seq(Construct) /\ Len(q) = k + 1 /\ q[k + 1] = d /\ \A i \in 1..k : q[i] = r[i]
      /\ k + 1 \in 1..Len(q)
  BY SMTT(30), <1>5, <1>6, AppendFacts
<1>8. h \in Seq(Value) /\ Len(h) \in Nat
  <2>1. h = Holds(q, k + 1)
    BY <1>6
  <2>2. Holds(q, k + 1) \in Seq(Value)
    BY <1>7, HoldsTyped
  <2> QED
    BY <2>1, <2>2
<1>9. y \/ OnTop(stack', s, r, h)
  <2>1. SUFFICES ASSUME ~y PROVE OnTop(stack', s, r, h)
    OBVIOUS
  <2>2. Len(frames') = Len(frames) /\ frames'[Len(frames)] = g
    <3>1. PICK T : frames \in Seq(FrameType(T))
      BY TopFacts DEF Ready
    <3>2. PICK R : R = S \cup T
      OBVIOUS
    <3>3. FrameType(S) \subseteq FrameType(R) /\ FrameType(T) \subseteq FrameType(R)
      BY <3>2 DEF FrameType
    <3>4. frames \in Seq(FrameType(R)) /\ g \in FrameType(R)
      BY <3>1, <3>3, SeqGrows
    <3> QED
      BY <1>3, <3>4, LastReplaced
  <2>3. ~Loose(g, top2)
    <3>1. Len(frames) \in 1..Len(frames') /\ Len(frames) \notin X
      <4>1. Len(frames) \in 1..Len(frames')
        BY <1>3, <2>2
      <4> QED
        BY <1>1, <2>1, <4>1
    <3>2. ~Loose(frames'[Len(frames)], Above(frames', Len(frames), Len(stack') + 1))
      BY <3>1 DEF Kind, Snug
    <3>3. Above(frames', Len(frames), Len(stack') + 1) = top2
      BY <1>1, <2>2 DEF Above
    <3> QED
      BY <2>2, <3>2, <3>3
  <2>4. Len(Content(q)) = Len(Content(r)) + Len(h)
    <3>1. Content(q) = Content(r) \o Holds(q, Len(q))
      BY <1>5, <1>7, ContentNext
    <3>2. Holds(q, Len(q)) = h
      BY <1>6, <1>7
    <3>3. PICK u : u = Content(r)
      OBVIOUS
    <3>4. u \in Seq(Value) /\ Content(q) = u \o h
      BY <1>5, <3>1, <3>2, <3>3, ContentTyped
    <3>5. Len(u \o h) = Len(u) + Len(h)
      BY <1>8, <3>4
    <3> QED
      BY <3>3, <3>4, <3>5
  <2>5. top2 <= s + Len(Content(r)) + Len(h)
    <3>1. ~(top2 - s > Len(Content(q)))
      BY <1>1, <1>6, <2>3 DEF Loose
    <3> QED
      BY <1>2, <1>3, <1>5, <1>8, <2>4, <3>1
  <2>6. LastIs(stack', h)
    BY <1>1, <2>1
  <2>7. s + Len(Content(r)) + Len(h) <= Len(stack') + 1 /\ Len(stack') + 1 <= s + Len(Content(r)) + Len(h)
    BY <1>1, <2>5
  <2> QED
    BY <1>2, <1>3, <1>5, <1>8, <2>6, <2>7, SnugTop
<1>10. Stands(stack', g, top2, y)
  <2>1. /\ d.kind = "try" => ~NamedAt(d) /\ Len(d.locals) = 0
        /\ d.kind = "try" /\ d.phase = "leaving" => 0 = 1
    BY DEF Over
  <2>2. F.slots + Len(Content(r)) + Len(h) + 0 <= top2 /\ (y \/ OnTop(stack', F.slots, r, h))
    <3>1. F.slots + Len(Content(r)) + Len(h) <= top2
      BY <1>1
    <3>2. F.slots \in Nat
      BY <1>1, <1>3
    <3> QED
      BY <1>1, <1>5, <1>8, <1>9, <3>1, <3>2
  <2> QED
    BY <1>2, <1>3, <1>4, <2>1, <2>2, StandsNext
<1>11. ~HasLanded(q)
  <2>1. ASSUME NEW i \in 1..Len(q) PROVE ~(q[i].kind = "try" /\ q[i].phase = "landed")
    <3>1. CASE i = k + 1
      BY <1>7, <3>1 DEF Over
    <3>2. CASE i # k + 1
      <4>1. i \in 1..k
        BY <1>5, <1>7, <3>2
      <4> QED
        BY <1>5, <1>7, <4>1 DEF Settled, Over
    <3> QED
      BY <3>1, <3>2
  <2> QED
    BY <2>1 DEF HasLanded
<1>12. F.slots <= n + 1
  BY <1>1, <1>3, <1>5
<1> QED
  BY <1>1, <1>2, <1>6, <1>10, <1>11, <1>12, TopStep

(* the frame on top with another path *)
LEMMA PathIs ==
  ASSUME HInv, status = "running", NEW q \in Seq(Construct),
         frames' = [frames EXCEPT ![Len(frames)].path = q]
  PROVE  \E S : \E g \in FrameType(S) :
           g.slots = F.slots /\ g.path = q /\ frames' = [frames EXCEPT ![Len(frames)] = g]
<1>1. PICK S : F \in FrameType(S) /\ F = frames[Len(frames)]
  BY TopFacts
<1>2. PICK g : g = [F EXCEPT !.path = q]
  OBVIOUS
<1>3. g \in FrameType(S) /\ g.slots = F.slots /\ g.path = q
  BY <1>1, <1>2 DEF FrameType
<1>4. frames' = [frames EXCEPT ![Len(frames)] = g]
  BY <1>1, <1>2
<1> QED
  BY <1>3, <1>4

LEMMA Popped ==
  ASSUME NEW V, NEW s \in Seq(V), NEW n \in Nat, n <= Len(s)
  PROVE  LET t == SubSeq(s, 1, Len(s) - n) IN
         t \in Seq(V) /\ Len(t) = Len(s) - n /\ Len(t) \in Nat /\ Same(s, t, Len(t))
<1>1. PICK m : m = Len(s) - n
  OBVIOUS
<1>2. m \in 0..Len(s)
  BY <1>1
<1>3. SubSeq(s, 1, m) \in Seq(V) /\ Len(SubSeq(s, 1, m)) = m /\ \A i \in 1..m : SubSeq(s, 1, m)[i] = s[i]
  BY <1>2, PrefixFacts
<1> QED
  BY <1>1, <1>2, <1>3 DEF Same

LEMMA NoneCovers ==
  ASSUME NEW X, stack' \in Seq(Value), frames' = <<>>
  PROVE  Covers(X)
<1>1. PICK fs : fs = <<>>
  OBVIOUS
<1>2. Len(fs) = 0 /\ 1..Len(fs) = {} /\ fs \in Seq({})
  BY <1>1
<1>3. Len(stack') \in Nat
  OBVIOUS
<1>4. Len(stack') + 1 \in Nat /\ Len(stack') + 1 >= 1 /\ Len(stack') + 1 <= Len(stack') + 1
  BY <1>3
<1>5. Covered(stack', fs, Len(stack') + 1, X) /\ Lands(stack', fs, status')
  BY <1>2, <1>4 DEF Covered, Lands
<1> QED
  BY <1>1, <1>5 DEF Covers

(* the code in front of the first k constructs has popped n values *)
LEMMA PathBack ==
  ASSUME Ready, status = "running", NEW X, Kind(X),
         NEW k \in 0..Len(F.path), k < Len(F.path) \/ Settled(F.path),
         frames' = [frames EXCEPT ![Len(frames)].path = SubSeq(F.path, 1, k)],
         NEW n \in Nat, stack' = SubSeq(stack, 1, Len(stack) - n),
         F.slots + Len(Content(SubSeq(F.path, 1, k))) + n <= Len(stack) + 1
  PROVE  Covers(X)
<1>1. PICK q, p : p = F.path /\ q = SubSeq(F.path, 1, k)
  OBVIOUS
<1>2. /\ p \in Seq(Construct) /\ Tidy(p) /\ stack \in Seq(Value) /\ Len(stack) \in Nat
      /\ F.slots \in Nat /\ 1 <= F.slots
  BY <1>1, ReadyFacts
<1>3. q \in Seq(Construct) /\ Len(Content(q)) \in Nat /\ 1 <= Len(Content(q))
  <2>1. q \in Seq(Construct) /\ Tidy(q)
    BY <1>1, <1>2, SettledPrefix
  <2> QED
    BY <2>1, NeedsFacts
<1>4. PICK S : \E g \in FrameType(S) :
           g.slots = F.slots /\ g.path = q /\ frames' = [frames EXCEPT ![Len(frames)] = g]
  BY <1>1, <1>3, PathIs DEF Ready
<1>5. PICK g \in FrameType(S) :
           g.slots = F.slots /\ g.path = q /\ frames' = [frames EXCEPT ![Len(frames)] = g]
  BY <1>4
<1>6. F.slots + Len(Content(q)) + n <= Len(stack) + 1
  BY <1>1
<1>7. n <= Len(stack)
  BY <1>2, <1>3, <1>6
<1>8. stack' \in Seq(Value) /\ Len(stack') = Len(stack) - n /\ Same(stack, stack', Len(stack'))
  BY <1>2, <1>7, Popped
<1>9. F.slots + Len(Content(g.path)) <= Len(stack') + 1
  <2>1. F.slots + Len(Content(q)) <= Len(stack') + 1
    <3>1. PICK u, v, b, c : u = F.slots /\ v = Len(Content(q)) /\ b = Len(stack) /\ c = Len(stack')
      OBVIOUS
    <3>2. u \in Nat /\ v \in Nat /\ b \in Nat
      BY <1>2, <1>3, <3>1
    <3>3. u + v + n <= b + 1 /\ c = b - n
      BY <1>6, <1>8, <3>1
    <3>4. u + v <= c + 1
      BY <3>2, <3>3
    <3> QED
      BY <3>1, <3>4
  <2> QED
    BY <1>5, <2>1
<1>10. g.path = SubSeq(F.path, 1, k)
  BY <1>1, <1>5
<1> QED
  BY <1>5, <1>8, <1>9, <1>10, BackStep

LEMMA FrontContent ==
  ASSUME NEW p \in Seq(Construct), p # <<>>
  PROVE  /\ Front(p) = SubSeq(p, 1, Len(p) - 1) /\ Len(p) - 1 \in 0..Len(p) /\ Len(p) - 1 < Len(p)
         /\ Front(p) \in Seq(Construct) /\ Len(p) \in 1..Len(p)
         /\ Content(p) = Content(Front(p)) \o Holds(p, Len(p))
         /\ Content(Front(p)) \in Seq(Value) /\ Holds(p, Len(p)) \in Seq(Value)
         /\ Len(Content(p)) = Len(Content(Front(p))) + Len(Holds(p, Len(p)))
         /\ Len(Content(Front(p))) \in Nat /\ Len(Holds(p, Len(p))) \in Nat
<1>1. PICK r, m : r = Front(p) /\ m = Len(p)
  OBVIOUS
<1>2. /\ r \in Seq(Construct) /\ Len(r) = m - 1 /\ m \in Nat /\ m >= 1
      /\ (\A i \in 1..(m - 1) : r[i] = p[i]) /\ r = SubSeq(p, 1, m - 1)
  BY <1>1, FrontFacts
<1>3. m \in 1..m /\ m - 1 \in 0..m /\ m - 1 < m /\ Len(p) = Len(r) + 1 /\ \A i \in 1..Len(r) : p[i] = r[i]
  BY <1>1, <1>2
<1>4. Content(p) = Content(r) \o Holds(p, Len(p))
  BY <1>2, <1>3, ContentNext
<1>5. Content(r) \in Seq(Value) /\ Holds(p, Len(p)) \in Seq(Value)
  BY <1>1, <1>2, <1>3, ContentTyped, HoldsTyped
<1>6. PICK a, b : a = Content(r) /\ b = Holds(p, Len(p))
  OBVIOUS
<1>7. Len(a \o b) = Len(a) + Len(b) /\ Len(a) \in Nat /\ Len(b) \in Nat
  BY <1>5, <1>6
<1> QED
  BY <1>1, <1>2, <1>3, <1>4, <1>5, <1>6, <1>7

(* The construct on top ends, and its code has popped what it held. *)
LEMMA FrontStep ==
  ASSUME Ready, status = "running", NEW X, Kind(X), F.path # <<>>,
         frames' = [frames EXCEPT ![Len(frames)].path = Front(F.path)],
         NEW n \in Nat, stack' = SubSeq(stack, 1, Len(stack) - n),
         Len(Content(Front(F.path))) + n <= Needs(F.path)
  PROVE  Covers(X)
<1>1. PICK p, k : p = F.path /\ k = Len(F.path) - 1
  OBVIOUS
<1>2. p \in Seq(Construct) /\ F.slots \in Nat /\ Len(stack) \in Nat /\ F.slots + Needs(p) <= Len(stack) + 1
      /\ Needs(p) \in Nat
  BY <1>1, ReadyFacts, NeedsFacts
<1>3. /\ Front(p) = SubSeq(p, 1, k) /\ k \in 0..Len(p) /\ k < Len(p)
      /\ Len(Content(Front(p))) \in Nat
  BY <1>1, <1>2, FrontContent
<1>4. F.slots + Len(Content(SubSeq(F.path, 1, k))) + n <= Len(stack) + 1
  <2>1. Len(Content(Front(p))) + n <= Needs(p)
    BY <1>1
  <2>2. F.slots + Len(Content(Front(p))) + n <= Len(stack) + 1
    BY SMTT(30), <1>2, <1>3, <2>1
  <2> QED
    BY <1>1, <1>3, <2>2
<1>5. k \in 0..Len(F.path) /\ k < Len(F.path) /\ Front(F.path) = SubSeq(F.path, 1, k)
  BY <1>1, <1>3
<1>6. frames' = [frames EXCEPT ![Len(frames)].path = SubSeq(F.path, 1, k)]
  BY <1>5
<1> QED
  BY <1>4, <1>5, <1>6, PathBack

LEMMA TopIs ==
  ASSUME Ready, status = "running", F.path # <<>>
  PROVE  /\ Top = F.path[Len(F.path)] /\ Top \in Construct /\ Len(F.path) \in 1..Len(F.path)
         /\ Len(Content(F.path)) \in Nat
         /\ Len(Content(F.path)) = Len(Content(Front(F.path))) + Len(Holds(F.path, Len(F.path)))
         /\ Len(Content(Front(F.path))) \in Nat /\ Len(Holds(F.path, Len(F.path))) \in Nat
         /\ Len(Content(F.path)) <= Needs(F.path)
<1>1. PICK p : p = F.path
  OBVIOUS
<1>2. p \in Seq(Construct) /\ Tidy(p)
  BY <1>1, ReadyFacts
<1>3. /\ Len(p) \in 1..Len(p) /\ Len(Content(p)) = Len(Content(Front(p))) + Len(Holds(p, Len(p)))
      /\ Len(Content(Front(p))) \in Nat /\ Len(Holds(p, Len(p))) \in Nat
  BY <1>1, <1>2, FrontContent
<1>4. Top = p[Len(p)]
  BY <1>1 DEF Top, Last
<1>5. p[Len(p)] \in Construct
  BY <1>2, <1>3
<1>6. Len(Content(p)) <= Needs(p) /\ Len(Content(p)) \in Nat
  BY <1>2, NeedsFacts
<1> QED
  BY <1>1, <1>3, <1>4, <1>5, <1>6

LEMMA FrontIsPopped ==
  ASSUME NEW s
  PROVE  Front(s) = SubSeq(s, 1, Len(s) - 1)
BY DEF Front

LEMMA EndBlockCovers ==
  ASSUME Ready, NEW X, Kind(X), EndBlock
  PROVE  Covers(X)
<1>1. /\ Running /\ status = "running" /\ F.path # <<>> /\ Top.kind = "block"
      /\ frames' = [frames EXCEPT ![Len(frames)].path = Front(F.path)]
      /\ stack' = SubSeq(stack, 1, Len(stack) - Len(Top.locals))
  BY DEF EndBlock, InBlock, Running, Drop, Goto
<1>2. /\ Top \in Construct /\ Top = F.path[Len(F.path)]
      /\ Len(Content(F.path)) = Len(Content(Front(F.path))) + Len(Holds(F.path, Len(F.path)))
      /\ Len(Content(F.path)) <= Needs(F.path)
  BY <1>1, TopIs
<1>3. Len(Top.locals) \in Nat
  BY <1>1, <1>2 DEF Construct, TryType
<1>4. Len(Holds(F.path, Len(F.path))) = Len(Top.locals)
  <2>1. Holds(F.path, Len(F.path)) = [i \in 1..Len(Top.locals) |-> LocalAt(Len(F.path), i)]
    BY <1>1, <1>2 DEF Holds
  <2> QED
    BY <1>3, <2>1
<1>5. Len(Content(Front(F.path))) + Len(Top.locals) <= Needs(F.path)
  BY <1>2, <1>4
<1> QED
  BY <1>1, <1>3, <1>5, FrontStep

LEMMA EndLoopCovers ==
  ASSUME Ready, NEW X, Kind(X), EndLoop
  PROVE  Covers(X)
<1>1. /\ Running /\ status = "running" /\ F.path # <<>>
      /\ frames' = [frames EXCEPT ![Len(frames)].path = Front(F.path)]
      /\ stack' = stack
  BY DEF EndLoop, Running, Goto
<1>2. /\ Len(Content(F.path)) = Len(Content(Front(F.path))) + Len(Holds(F.path, Len(F.path)))
      /\ Len(Content(Front(F.path))) \in Nat /\ Len(Holds(F.path, Len(F.path))) \in Nat
      /\ Len(Content(F.path)) <= Needs(F.path) /\ Len(Content(F.path)) \in Nat
  BY <1>1, TopIs
<1>3. Needs(F.path) \in Nat /\ stack \in Seq(Value)
  <2>1. F.path \in Seq(Construct) /\ Tidy(F.path) /\ stack \in Seq(Value)
    BY <1>1, ReadyFacts
  <2> QED
    BY <2>1, NeedsFacts
<1>4. Len(Content(Front(F.path))) + 0 <= Needs(F.path)
  BY <1>2, <1>3
<1>5. stack' = SubSeq(stack, 1, Len(stack) - 0)
  BY <1>1, <1>3, SubSeqFull
<1> QED
  BY <1>1, <1>4, <1>5, FrontStep

(* the end of a finally block, by its own flag or by that of an exception  *)
(* that a line has left *)
LEMMA EndFinallyCovers ==
  ASSUME Ready, NEW X, Kind(X), Resume \/ EndFinally, ~In("raised")
  PROVE  Covers(X)
<1>1. /\ status = "running" /\ F.path # <<>> /\ Top.kind = "try" /\ Top.phase \in {"finally", "leaving"}
      /\ frames' = [frames EXCEPT ![Len(frames)].path = Front(F.path)]
      /\ stack' = Front(stack)
  BY DEF EndFinally, Resume, InTry, In, Running, Goto
<1>2. /\ Top = F.path[Len(F.path)]
      /\ Len(Content(F.path)) = Len(Content(Front(F.path))) + Len(Holds(F.path, Len(F.path)))
      /\ Len(Content(Front(F.path))) \in Nat /\ Len(Content(F.path)) \in Nat
  BY <1>1, TopIs
<1>3. stack' = SubSeq(stack, 1, Len(stack) - 1)
  BY <1>1, FrontIsPopped
<1>4. Len(Content(Front(F.path))) + 1 <= Needs(F.path)
  <2>1. CASE Top.phase = "finally"
    <3>1. Holds(F.path, Len(F.path)) = <<Flag(FALSE)>>
      BY <1>1, <1>2, <2>1 DEF Holds
    <3>2. Len(Holds(F.path, Len(F.path))) = 1
      BY <3>1
    <3>3. Len(Content(F.path)) <= Needs(F.path)
      BY <1>1, TopIs
    <3> QED
      BY <1>2, <3>2, <3>3
  <2>2. CASE Top.phase = "leaving"
    <3>1. Holds(F.path, Len(F.path)) = <<>>
      BY <1>1, <1>2, <2>2 DEF Holds
    <3>2. Len(Holds(F.path, Len(F.path))) = 0
      BY <3>1
    <3>3. Needs(F.path) = Len(Content(F.path)) + 1
      BY <1>1, <1>2, <2>2 DEF Needs
    <3> QED
      BY <1>2, <3>2, <3>3
  <2> QED
    BY <1>1, <2>1, <2>2
<1> QED
  BY <1>1, <1>3, <1>4, FrontStep

(* what a construct pushes on entry, on top of the stack *)
LEMMA PathEnter ==
  ASSUME Ready, status = "running", NEW X, Kind(X),
         NEW k \in 0..Len(F.path), k < Len(F.path) \/ Settled(F.path),
         NEW r, r = SubSeq(F.path, 1, k), NEW d \in Construct,
         d.kind = "try" => ~NamedAt(d) /\ Len(d.locals) = 0 /\ ~Over(d),
         NEW q, q = Append(r, d), NEW S, NEW g \in FrameType(S), g.slots = F.slots, g.path = q,
         frames' = [frames EXCEPT ![Len(frames)] = g],
         NEW h, h = Holds(q, k + 1), stack' \in Seq(Value),
         NEW n \in Nat, n <= Len(stack), Same(stack, stack', n),
         F.slots + Len(Content(r)) <= n + 1, n + Len(h) <= Len(stack'),
         Len(frames) \in X \/ LastIs(stack', h)
  PROVE  Covers(X)
<1>1. F.path \in Seq(Construct) /\ Tidy(F.path) /\ F.slots \in Nat
  BY ReadyFacts
<1>2. r \in Seq(Construct) /\ Len(r) = k /\ Len(Content(r)) \in Nat
  BY <1>1, SettledPrefix, ContentLen
<1>3. Len(h) \in Nat
  <2>1. q \in Seq(Construct) /\ Len(q) = k + 1
    BY SMTT(30), <1>2, AppendFacts
  <2>2. k + 1 \in 1..Len(q)
    BY <2>1
  <2>3. Holds(q, k + 1) \in Seq(Value)
    BY <2>1, <2>2, HoldsTyped
  <2> QED
    BY <2>3
<1>4. F.slots + Len(Content(r)) + Len(h) <= Len(stack') + 1
  BY <1>1, <1>2, <1>3
<1>5. h = Holds(g.path, k + 1) /\ g.path = Append(r, d)
  OBVIOUS
<1> QED
  BY <1>4, <1>5, EnterStep

LEMMA BeginCovers ==
  ASSUME Ready, NEW X, Kind(X), Running, stack' = stack, NEW d \in Construct,
         d.locals = <<>>, d.kind = "try" => d.phase = "body",
         NEW S, NEW g \in FrameType(S), g.slots = F.slots, g.path = Append(F.path, d),
         frames' = [frames EXCEPT ![Len(frames)] = g]
  PROVE  Covers(X)
<1>1. status = "running" /\ Settled(F.path)
  BY RunningFacts
<1>2. /\ F.path \in Seq(Construct) /\ Len(F.path) \in Nat /\ stack \in Seq(Value) /\ Len(stack) \in Nat
      /\ F.slots + Len(Content(F.path)) <= Len(stack) + 1
  BY <1>1, ReadyFacts
<1>3. PICK k, r, q, h, n : /\ k = Len(F.path) /\ r = SubSeq(F.path, 1, k) /\ q = g.path
                           /\ h = Holds(q, k + 1) /\ n = Len(stack)
  OBVIOUS
<1>4. r = F.path /\ k \in 0..Len(F.path)
  BY <1>2, <1>3, SubSeqFull
<1>5. h = <<>> /\ Len(h) = 0
  <2>1. q[k + 1] = d
    BY <1>2, <1>3, AppendFacts
  <2>2. Holds(q, k + 1) = <<>>
    <3>1. CASE d.kind = "try"
      BY <2>1, <3>1 DEF Holds
    <3>2. CASE d.kind # "try"
      <4>1. Holds(q, k + 1) = [i \in 1..Len(<<>>) |-> LocalAt(k + 1, i)]
        BY <2>1, <3>2 DEF Holds
      <4>2. 1..Len(<<>>) = {}
        OBVIOUS
      <4>3. \A f : f = [i \in {} |-> LocalAt(k + 1, i)] => f = <<>>
        OBVIOUS
      <4> QED
        BY <4>1, <4>2, <4>3
    <3> QED
      BY <3>1, <3>2
  <2> QED
    BY <1>3, <2>2
<1>6. d.kind = "try" => ~NamedAt(d) /\ Len(d.locals) = 0 /\ ~Over(d)
  BY DEF NamedAt, Over
<1>7. q = Append(r, d) /\ g.path = q
  BY <1>3, <1>4
<1>8. /\ stack' \in Seq(Value) /\ n \in Nat /\ n <= Len(stack) /\ Same(stack, stack', n)
      /\ F.slots + Len(Content(r)) <= n + 1
  <2>1. Same(stack, stack', n)
    BY DEF Same
  <2>2. n = Len(stack) /\ n \in Nat /\ n <= Len(stack) /\ stack' \in Seq(Value)
    BY <1>2, <1>3
  <2>3. F.slots + Len(Content(r)) <= n + 1
    BY <1>2, <1>4, <2>2
  <2> QED
    BY <2>1, <2>2, <2>3
<1>9. n + Len(h) <= Len(stack') /\ LastIs(stack', h)
  BY <1>2, <1>3, <1>5 DEF LastIs
<1> QED
  BY <1>1, <1>3, <1>4, <1>6, <1>7, <1>8, <1>9, PathEnter

LEMMA BeginBlockCovers ==
  ASSUME Ready, NEW X, Kind(X), BeginBlock \/ BeginLoop
  PROVE  Covers(X)
<1>1. PICK d \in {Block, Loop} : Running /\ stack' = stack /\ Goto(Append(F.path, d))
  BY DEF BeginBlock, BeginLoop
<1>2. status = "running" /\ d \in Construct /\ d.locals = <<>> /\ d.kind # "try"
  BY <1>1, BlockTypes DEF Running, Block, Loop
<1>3. F.path \in Seq(Construct)
  BY <1>2, ReadyFacts
<1>4. PICK q : q = Append(F.path, d)
  OBVIOUS
<1>5. q \in Seq(Construct) /\ frames' = [frames EXCEPT ![Len(frames)].path = q]
  BY <1>1, <1>2, <1>3, <1>4, AppendFacts DEF Goto
<1>6. PICK S : \E g \in FrameType(S) :
        g.slots = F.slots /\ g.path = q /\ frames' = [frames EXCEPT ![Len(frames)] = g]
  BY <1>2, <1>5, PathIs DEF Ready
<1>7. PICK g \in FrameType(S) :
        g.slots = F.slots /\ g.path = q /\ frames' = [frames EXCEPT ![Len(frames)] = g]
  BY <1>6
<1>8. g.path = Append(F.path, d)
  BY <1>4, <1>7
<1>9. d.kind = "try" => d.phase = "body"
  BY <1>2
<1> QED
  BY <1>1, <1>2, <1>7, <1>8, <1>9, BeginCovers

LEMMA BeginTryCovers ==
  ASSUME Ready, NEW X, Kind(X), NEW c \in Class, NEW kind \in Kinds, BeginTry(c, kind)
  PROVE  Covers(X)
<1>a. CASE stack' = <<>> /\ frames' = <<>>
  <2>1. <<>> \in Seq(Value)
    OBVIOUS
  <2> QED
    BY <1>a, <2>1, NoneCovers
<1>1. PICK t, h, q : /\ t = Try(c, kind) /\ q = Append(F.path, t)
                     /\ h = [class |-> c, catch |-> kind.catch, final |-> kind.final, path |-> q]
  OBVIOUS
<1>b. SUFFICES ASSUME ~(stack' = <<>> /\ frames' = <<>>) PROVE Covers(X)
  BY <1>a
<1>2. /\ status = "running" /\ Running /\ stack' = stack
      /\ frames' = [frames EXCEPT ![Len(frames)].handlers = Append(@, h),
                                  ![Len(frames)].path = Append(@, t)]
  BY <1>1, <1>b DEF BeginTry, Running, Stray
<1>3. PICK S : frames \in Seq(FrameType(S)) /\ F \in FrameType(S)
  BY <1>2, TopFacts DEF Ready
<1>4. F = frames[Len(frames)] /\ F.path \in Seq(Construct) /\ F.handlers \in Seq(Handler)
  BY <1>2, TopFacts DEF Ready
<1>5. t \in TryType /\ t \in Construct /\ t.phase = "body" /\ t.locals = <<>>
  <2>1. kind.named \in BOOLEAN /\ kind.final \in BOOLEAN /\ <<>> \in Seq(BOOLEAN)
    BY ExceptionsAssumption
  <2> QED
    BY <1>1, <2>1 DEF Try, TryType, Phases, Value, Thrown, Construct
<1>6. q \in Seq(Construct)
  BY <1>1, <1>4, <1>5, AppendFacts
<1>7. h \in Handler
  BY <1>1, <1>6, ExceptionsAssumption DEF Handler
<1>8. PICK g : g = [F EXCEPT !.handlers = Append(@, h), !.path = q]
  OBVIOUS
<1>9. g \in FrameType(S) /\ g.slots = F.slots /\ g.path = q
  <2>1. Append(F.handlers, h) \in Seq(Handler)
    BY <1>4, <1>7, AppendFacts
  <2> QED
    BY <1>3, <1>6, <1>8, <2>1 DEF FrameType
<1>10. frames' = [frames EXCEPT ![Len(frames)] = g]
  <2>1. g = [F EXCEPT !.handlers = Append(@, h), !.path = Append(@, t)]
    BY <1>1, <1>8
  <2> QED
    BY <1>2, <1>3, <1>4, <2>1
<1>11. g.path = Append(F.path, t)
  BY <1>1, <1>9
<1> QED
  BY <1>2, <1>5, <1>9, <1>10, <1>11, BeginCovers

(* What a frame that is not shifted holds is what its code counts on. *)
LEMMA InPlace ==
  ASSUME Ready, status = "running", Len(frames) \notin shifted
  PROVE  /\ Len(stack) + 1 <= F.slots + Len(Content(F.path))
         /\ Placed(stack, F.slots, F.path)
         /\ \A k, i \in 1..Len(F.path) :
              F.path[k].kind = "try" /\ F.path[k].phase \in {"finally", "raised"} /\ k < i
                => F.path[i].locals = <<>>
<1>1. /\ Len(frames) \in 1..Len(frames) /\ F = frames[Len(frames)] /\ F.slots \in Nat
      /\ Len(Content(F.path)) \in Nat /\ Len(stack) \in Nat
      /\ Stands(stack, F, Len(stack) + 1, Len(frames) \in shifted)
  BY ReadyFacts
<1>2. Above(frames, Len(frames), Len(stack) + 1) = Len(stack) + 1
  BY DEF Above
<1>3. ~Loose(F, Len(stack) + 1)
  BY <1>1, <1>2 DEF Ready, CInv, Snug
<1>4. PICK f, a : f = F /\ a = Len(stack) + 1
  OBVIOUS
<1>5. Len(stack) + 1 <= F.slots + Len(Content(F.path))
  <2>1. ~(a - f.slots > Len(Content(f.path)))
    <3>1. ~Loose(f, a)
      BY <1>3, <1>4
    <3> QED
      BY <3>1 DEF Loose
  <2>2. PICK u, v, b : u = f.slots /\ v = Len(Content(f.path)) /\ b = Len(stack)
    OBVIOUS
  <2>3. u \in Nat /\ v \in Nat /\ b \in Nat /\ a = b + 1 /\ ~(a - u > v)
    BY <1>1, <1>4, <2>1, <2>2
  <2>4. b + 1 <= u + v
    BY <2>3
  <2> QED
    BY <1>4, <2>2, <2>4
<1>6. Placed(stack, F.slots, F.path)
  BY <1>1 DEF Stands
<1>7. ASSUME NEW k \in 1..Len(F.path), NEW i \in 1..Len(F.path), F.path[k].kind = "try",
             F.path[k].phase \in {"finally", "raised"}, k < i
      PROVE  F.path[i].locals = <<>>
  BY <1>3, <1>7 DEF Loose
<1>8. \A k, i \in 1..Len(F.path) :
        F.path[k].kind = "try" /\ F.path[k].phase \in {"finally", "raised"} /\ k < i
          => F.path[i].locals = <<>>
  BY <1>7
<1> QED
  BY <1>5, <1>6, <1>8

(* the top of the stack is what the construct on top holds *)
LEMMA HeldOnTop ==
  ASSUME Ready, status = "running", Len(frames) \notin shifted, F.path # <<>>
  PROVE  LastIs(stack, Holds(F.path, Len(F.path)))
<1>1. PICK p, C, r, h, s : /\ p = F.path /\ C = Content(p) /\ r = Content(Front(p)) /\ h = Holds(p, Len(p))
                           /\ s = F.slots
  OBVIOUS
<1>2. p \in Seq(Construct) /\ s \in Nat /\ Len(stack) \in Nat /\ s + Len(C) <= Len(stack) + 1
  BY <1>1, ReadyFacts
<1>3. /\ C = r \o h /\ r \in Seq(Value) /\ h \in Seq(Value) /\ Len(C) = Len(r) + Len(h)
      /\ Len(r) \in Nat /\ Len(h) \in Nat
  BY <1>1, <1>2, FrontContent
<1>4. Len(stack) + 1 <= s + Len(C) /\ Placed(stack, s, p)
  BY <1>1, InPlace
<1>5. ASSUME NEW i \in 1..Len(h) PROVE stack[Len(stack) - Len(h) + i] = h[i]
  <2>1. Len(r) + i \in 1..Len(C) /\ Len(stack) - Len(h) + i = s + (Len(r) + i) - 1
    <3>1. PICK a, b, d, e : a = Len(r) /\ b = Len(h) /\ d = Len(C) /\ e = Len(stack)
      OBVIOUS
    <3>2. /\ a \in Nat /\ b \in Nat /\ d = a + b /\ e \in Nat /\ i \in 1..b
          /\ s + d <= e + 1 /\ e + 1 <= s + d
      BY <1>2, <1>3, <1>4, <3>1
    <3>3. a + i \in 1..d /\ e - b + i = s + (a + i) - 1
      BY <1>2, <3>2
    <3> QED
      BY <3>1, <3>3
  <2>2. C[Len(r) + i] = h[i]
    BY <1>3
  <2>3. stack[s + (Len(r) + i) - 1] = C[Len(r) + i]
    BY <1>1, <1>4, <2>1 DEF Placed
  <2> QED
    BY <2>1, <2>2, <2>3
<1> QED
  BY <1>1, <1>5 DEF LastIs

LEMMA DeclareLocalCovers ==
  ASSUME Ready, NEW X, Kind(X), NEW captured \in BOOLEAN, DeclareLocal(captured)
  PROVE  Covers(X)
<1>1. PICK p, m, c, l, d, q, v : /\ p = F.path /\ m = Len(p) /\ c = p[m] /\ l = Len(c.locals)
                                 /\ d = [c EXCEPT !.locals = Append(@, captured)]
                                 /\ q = [p EXCEPT ![m] = d] /\ v = LocalAt(m, l + 1)
  OBVIOUS
<1>2. /\ Running /\ status = "running" /\ p # <<>> /\ Top.kind = "block" /\ Top = Last(p)
  BY <1>1 DEF DeclareLocal, InBlock, Running, Top
<1>3. /\ Top = c /\ c \in Construct /\ m \in 1..m /\ Len(Content(p)) \in Nat
      /\ Len(Content(p)) = Len(Content(Front(p))) + Len(Holds(p, m))
      /\ Len(Content(Front(p))) \in Nat
  BY <1>1, <1>2, TopIs
<1>4. c.kind = "block" /\ c.locals \in Seq(BOOLEAN) /\ l \in Nat
  BY <1>1, <1>2, <1>3 DEF Construct, TryType
<1>5. d \in Construct /\ d.kind = "block" /\ Len(d.locals) = l + 1
  <2>1. Append(c.locals, captured) \in Seq(BOOLEAN) /\ Len(Append(c.locals, captured)) = l + 1
    BY <1>1, <1>4, AppendFacts
  <2>2. c \in [kind : {"block", "loop"}, locals : Seq(BOOLEAN)]
    BY <1>3, <1>4 DEF Construct, TryType
  <2> QED
    BY <1>1, <1>4, <2>1, <2>2 DEF Construct
<1>6. /\ stack' = Append(stack, v)
      /\ frames' = [frames EXCEPT ![Len(frames)].path = q]
  <2>1. q = [p EXCEPT ![m].locals = Append(@, captured)]
    BY <1>1
  <2> QED
    BY <1>1, <1>2, <1>3, <2>1 DEF DeclareLocal, Goto
<1>7. /\ p \in Seq(Construct) /\ m \in Nat /\ stack \in Seq(Value) /\ Len(stack) \in Nat
      /\ F.slots \in Nat /\ F.slots + Len(Content(p)) <= Len(stack) + 1 /\ 1 <= F.slots
  BY <1>1, <1>2, ReadyFacts
<1>8. v \in Value
  <2>1. l + 1 \in Nat
    BY <1>4
  <2> QED
    BY <1>1, <1>7, <2>1 DEF Value
<1>9. PICK k, r : k = m - 1 /\ r = SubSeq(p, 1, k)
  OBVIOUS
<1>10. r = Front(p) /\ k \in 0..Len(p) /\ k < Len(p) /\ k + 1 = m
  <2>1. Front(p) = SubSeq(p, 1, Len(p) - 1) /\ Len(p) - 1 \in 0..Len(p) /\ Len(p) - 1 < Len(p)
    BY <1>2, <1>7, FrontContent
  <2> QED
    BY <1>1, <1>7, <1>9, <2>1
<1>11. q = Append(r, d) /\ q \in Seq(Construct) /\ q[m] = d
  <2>1. Len(p) >= 1
    BY <1>1, <1>3, <1>7
  <2>2. [p EXCEPT ![Len(p)] = d] = Append(SubSeq(p, 1, Len(p) - 1), d)
    BY <1>5, <1>7, <2>1, TopReplaced
  <2>3. [p EXCEPT ![Len(p)] = d] \in Seq(Construct) /\ [p EXCEPT ![Len(p)] = d][Len(p)] = d
    BY <1>5, <1>7, <2>1, LastReplaced
  <2> QED
    BY <1>1, <1>9, <2>2, <2>3
<1>12. PICK h, n : h = Holds(q, k + 1) /\ n = Len(stack) - l
  OBVIOUS
<1>13. h = [i \in 1..(l + 1) |-> LocalAt(m, i)] /\ Len(h) = l + 1
  <2>1. h = [i \in 1..Len(d.locals) |-> LocalAt(m, i)]
    BY <1>5, <1>10, <1>11, <1>12 DEF Holds
  <2>2. h = [i \in 1..(l + 1) |-> LocalAt(m, i)]
    BY <1>5, <2>1
  <2> QED
    BY <1>4, <2>2
<1>14. Holds(p, m) = [i \in 1..l |-> LocalAt(m, i)] /\ Len(Holds(p, m)) = l
  <2>1. Holds(p, m) = [i \in 1..l |-> LocalAt(m, i)]
    BY <1>1, <1>4 DEF Holds
  <2> QED
    BY <1>4, <2>1
<1>16. Len(Content(r)) \in Nat
  BY <1>3, <1>10
<1>15. F.slots + Len(Content(r)) + l <= Len(stack) + 1
  <2>1. Len(Content(p)) = Len(Content(r)) + l
    BY <1>3, <1>10, <1>14
  <2> QED
    BY <1>4, <1>7, <1>16, <2>1
<1>17. n \in Nat /\ n <= Len(stack) /\ F.slots + Len(Content(r)) <= n + 1
  <2>1. PICK u, w, b : u = F.slots /\ w = Len(Content(r)) /\ b = Len(stack)
    OBVIOUS
  <2>2. u \in Nat /\ 1 <= u /\ w \in Nat /\ b \in Nat /\ u + w + l <= b + 1
    BY <1>7, <1>15, <1>16, <2>1
  <2>3. b - l \in Nat /\ b - l <= b /\ u + w <= (b - l) + 1
    BY <1>4, <2>2
  <2> QED
    BY <1>12, <2>1, <2>3
<1>18. /\ stack' \in Seq(Value) /\ Len(stack') = Len(stack) + 1
       /\ \A i \in 1..Len(stack) : stack'[i] = stack[i] /\ stack'[Len(stack) + 1] = v
  BY <1>6, <1>7, <1>8, AppendFacts
<1>19. Same(stack, stack', n)
  <2>1. \A i \in 1..n : i \in 1..Len(stack)
    BY <1>7, <1>17
  <2> QED
    BY <1>18, <2>1 DEF Same
<1>20. n + Len(h) <= Len(stack')
  BY <1>4, <1>7, <1>12, <1>13, <1>18
<1>21. Len(frames) \in X \/ LastIs(stack', h)
  <2>1. SUFFICES ASSUME Len(frames) \notin X PROVE LastIs(stack', h)
    OBVIOUS
  <2>2. Len(frames) \notin shifted
    BY <2>1 DEF Kind
  <2>3. LastIs(stack, Holds(p, m))
    BY <1>1, <1>2, <2>2, HeldOnTop
  <2>4. ASSUME NEW i \in 1..(l + 1) PROVE stack'[Len(stack') - (l + 1) + i] = LocalAt(m, i)
    <3>1. CASE i = l + 1
      <4>1. Len(stack') - (l + 1) + i = Len(stack) + 1
        BY <1>4, <1>7, <1>18, <3>1
      <4>2. Len(stack) >= 1
        BY <1>2, ReadyFacts
      <4>3. stack'[Len(stack) + 1] = v
        BY <1>6, <1>7, <1>8, AppendFacts
      <4> QED
        BY <1>1, <3>1, <4>1, <4>3
    <3>2. CASE i # l + 1
      <4>1. i \in 1..l
        BY <1>4, <3>2
      <4>2. stack[Len(stack) - l + i] = LocalAt(m, i)
        BY <1>14, <2>3, <4>1 DEF LastIs
      <4>3. Len(stack) - l + i \in 1..Len(stack) /\ Len(stack') - (l + 1) + i = Len(stack) - l + i
        BY <1>4, <1>7, <1>12, <1>17, <1>18, <4>1
      <4> QED
        BY <1>18, <4>2, <4>3
    <3> QED
      BY <3>1, <3>2
  <2> QED
    BY <1>13, <2>4 DEF LastIs
<1>22. PICK S : \E g \in FrameType(S) :
         g.slots = F.slots /\ g.path = q /\ frames' = [frames EXCEPT ![Len(frames)] = g]
  BY <1>2, <1>6, <1>11, PathIs DEF Ready
<1>23. PICK g \in FrameType(S) :
         g.slots = F.slots /\ g.path = q /\ frames' = [frames EXCEPT ![Len(frames)] = g]
  BY <1>22
<1>24. /\ k \in 0..Len(F.path) /\ k < Len(F.path) /\ r = SubSeq(F.path, 1, k)
       /\ d.kind = "try" => ~NamedAt(d) /\ Len(d.locals) = 0 /\ ~Over(d)
  BY <1>1, <1>5, <1>9, <1>10
<1> QED
  BY <1>2, <1>5, <1>11, <1>12, <1>17, <1>18, <1>19, <1>20, <1>21, <1>23, <1>24, PathEnter

(* What a break pops is what the paths differ by, or less. *)
LEMMA LoopBack ==
  ASSUME NEW p \in Seq(Construct), Tidy(p), NEW k \in 1..Len(p), NEW m \in {k, k - 1}
  PROVE  /\ Dropped(p, k) \in Seq(BOOLEAN) /\ m \in 0..Len(p)
         /\ Len(Content(SubSeq(p, 1, m))) \in Nat
         /\ Len(Content(SubSeq(p, 1, m))) + Len(Dropped(p, k)) <= Len(Content(p))
<1>1. PICK q, r, D : q = SubSeq(p, 1, k) /\ r = SubSeq(p, 1, k - 1) /\ D = Dropped(p, k)
  OBVIOUS
<1>2. k \in 0..Len(p) /\ k - 1 \in 0..Len(p) /\ k \in Nat
  OBVIOUS
<1>3. D \in Seq(BOOLEAN) /\ Flags(p) = Flags(q) \o D
  BY <1>1, <1>2, FlagsDropped
<1>4. /\ q \in Seq(Construct) /\ Len(q) = k /\ \A i \in 1..k : q[i] = p[i]
      /\ r \in Seq(Construct) /\ Len(r) = k - 1 /\ \A i \in 1..(k - 1) : r[i] = p[i]
  BY <1>1, <1>2, PrefixFacts
<1>5. Flags(q) = Flags(r) \o q[Len(q)].locals
  <2>1. Len(q) = Len(r) + 1 /\ \A i \in 1..Len(r) : q[i] = r[i]
    BY <1>2, <1>4
  <2> QED
    BY <1>4, <2>1, FlagsNext
<1>6. q[Len(q)].locals \in Seq(BOOLEAN)
  <2>1. Len(q) \in 1..Len(q)
    BY <1>2, <1>4
  <2> QED
    BY <1>4, <2>1, LocalsTyped
<1>7. Flags(p) \in Seq(BOOLEAN) /\ Flags(q) \in Seq(BOOLEAN) /\ Flags(r) \in Seq(BOOLEAN)
  BY <1>4, FlagsTyped
<1>8. PICK fp, fq, fr, l : fp = Flags(p) /\ fq = Flags(q) /\ fr = Flags(r) /\ l = q[Len(q)].locals
  OBVIOUS
<1>9. Len(fp) = Len(fq) + Len(D) /\ Len(fq) = Len(fr) + Len(l)
  <2>1. fp = fq \o D /\ fq = fr \o l /\ fq \in Seq(BOOLEAN) /\ fr \in Seq(BOOLEAN) /\ l \in Seq(BOOLEAN)
    BY <1>3, <1>5, <1>6, <1>7, <1>8
  <2>2. Len(fq \o D) = Len(fq) + Len(D)
    BY <1>3, <2>1
  <2>3. Len(fr \o l) = Len(fr) + Len(l)
    BY <2>1
  <2> QED
    BY <2>1, <2>2, <2>3
<1>10. Ahead(q, p) /\ Ahead(r, p)
  BY <1>1, <1>2, PrefixAhead
<1>11. PICK cp, cq, cr : cp = Len(Content(p)) /\ cq = Len(Content(q)) /\ cr = Len(Content(r))
  OBVIOUS
<1>12. cp \in Nat /\ cq \in Nat /\ cr \in Nat
  BY <1>4, <1>11, ContentLen
<1>13. cq + Len(fp) <= cp + Len(fq) /\ cr + Len(fp) <= cp + Len(fr)
  BY <1>8, <1>10, <1>11 DEF Ahead
<1>14. Len(D) \in Nat /\ Len(l) \in Nat /\ Len(fp) \in Nat /\ Len(fq) \in Nat /\ Len(fr) \in Nat
  BY <1>3, <1>6, <1>7, <1>8
<1>15. cq + Len(D) <= cp /\ cr + Len(D) <= cp
  BY <1>9, <1>12, <1>13, <1>14
<1> QED
  BY <1>1, <1>2, <1>3, <1>11, <1>12, <1>15

LEMMA LeaveLoopCovers ==
  ASSUME Ready, NEW X, Kind(X), NEW again \in BOOLEAN, LeaveLoop(again)
  PROVE  Covers(X)
<1>1. PICK k \in 1..Len(F.path) :
        /\ Drop(Dropped(F.path, k))
        /\ Goto(SubSeq(F.path, 1, IF again THEN k ELSE k - 1))
  BY DEF LeaveLoop, Dropped
<1>2. Running
  BY DEF LeaveLoop
<1>3. status = "running" /\ Settled(F.path)
  BY <1>2, RunningFacts
<1>4. PICK m, n, p : m = (IF again THEN k ELSE k - 1) /\ n = Len(Dropped(F.path, k)) /\ p = F.path
  OBVIOUS
<1>5. /\ p \in Seq(Construct) /\ Tidy(p) /\ F.slots \in Nat /\ Len(stack) \in Nat
      /\ F.slots + Len(Content(p)) <= Len(stack) + 1 /\ Len(Content(p)) \in Nat
  BY <1>3, <1>4, ReadyFacts
<1>6. m \in {k, k - 1} /\ k \in 1..Len(p)
  BY <1>4
<1>7. /\ Dropped(p, k) \in Seq(BOOLEAN) /\ m \in 0..Len(p) /\ Len(Content(SubSeq(p, 1, m))) \in Nat
      /\ Len(Content(SubSeq(p, 1, m))) + Len(Dropped(p, k)) <= Len(Content(p))
  BY <1>5, <1>6, LoopBack
<1>8. n \in Nat
  BY <1>4, <1>7
<1>9. F.slots + Len(Content(SubSeq(F.path, 1, m))) + n <= Len(stack) + 1
  <2>1. PICK a, b : a = Len(Content(SubSeq(p, 1, m))) /\ b = Len(Content(p))
    OBVIOUS
  <2>2. a + n <= b /\ F.slots + b <= Len(stack) + 1 /\ a \in Nat /\ b \in Nat
    BY <1>4, <1>5, <1>7, <2>1
  <2>3. F.slots + a + n <= Len(stack) + 1
    BY <1>5, <1>8, <2>2
  <2> QED
    BY <1>4, <2>1, <2>3
<1>10. stack' = SubSeq(stack, 1, Len(stack) - n)
  BY <1>1, <1>4 DEF Drop
<1>11. frames' = [frames EXCEPT ![Len(frames)].path = SubSeq(F.path, 1, m)]
  BY <1>1, <1>4 DEF Goto
<1>12. m \in 0..Len(F.path)
  BY <1>4, <1>7
<1> QED
  BY <1>3, <1>8, <1>9, <1>10, <1>11, <1>12, PathBack

LEMMA FlagValues == \A b \in BOOLEAN : Flag(b) \in Value
<1>1. ASSUME NEW b \in BOOLEAN PROVE Flag(b) \in Value
  <2>1. Flag(b) \in {Flag(a) : a \in BOOLEAN}
    OBVIOUS
  <2> QED
    BY <2>1 DEF Value
<1> QED
  BY <1>1

LEMMA LastPushed ==
  ASSUME NEW V, NEW s \in Seq(V), NEW v \in V
  PROVE  LastIs(Append(s, v), <<v>>)
<1>1. PICK t, h : t = Append(s, v) /\ h = <<v>>
  OBVIOUS
<1>2. Len(t) = Len(s) + 1 /\ Len(s) \in Nat /\ t[Len(s) + 1] = v
  BY <1>1, AppendFacts
<1>3. Len(h) = 1 /\ h[1] = v
  BY <1>1
<1>4. ASSUME NEW i \in 1..Len(h) PROVE t[Len(t) - Len(h) + i] = h[i]
  <2>1. i = 1
    BY <1>3
  <2>2. Len(t) - Len(h) + i = Len(s) + 1
    BY <1>2, <1>3, <2>1
  <2> QED
    BY <1>2, <1>3, <2>1, <2>2
<1> QED
  BY <1>1, <1>4 DEF LastIs

(* the end of a try or of a catch, which pops what the catch held *)
LEMMA AfterTryCovers ==
  ASSUME Ready, NEW X, Kind(X), status = "running", F.path # <<>>, Top.kind = "try",
         NEW hs \in Seq(Handler), NEW n \in Nat, n <= Len(Holds(F.path, Len(F.path))),
         NEW st, st = SubSeq(stack, 1, Len(stack) - n), AfterTry(hs, st)
  PROVE  Covers(X)
<1>1. PICK p, m, k, c, r, s : /\ p = F.path /\ m = Len(p) /\ k = m - 1 /\ c = p[m] /\ r = SubSeq(p, 1, k)
                              /\ s = F.slots
  OBVIOUS
<1>2. /\ p \in Seq(Construct) /\ m \in Nat /\ stack \in Seq(Value) /\ Len(stack) \in Nat
      /\ s \in Nat /\ 1 <= s /\ s + Len(Content(p)) <= Len(stack) + 1
  BY <1>1, ReadyFacts
<1>3. /\ r = Front(p) /\ k \in 0..m /\ k < m /\ k + 1 = m /\ m >= 1
      /\ Len(Content(p)) = Len(Content(r)) + Len(Holds(p, m))
      /\ Len(Content(r)) \in Nat /\ Len(Holds(p, m)) \in Nat
  <2>1. /\ Front(p) = SubSeq(p, 1, Len(p) - 1) /\ Len(p) - 1 \in 0..Len(p) /\ Len(p) - 1 < Len(p)
        /\ Len(Content(p)) = Len(Content(Front(p))) + Len(Holds(p, Len(p)))
        /\ Len(Content(Front(p))) \in Nat /\ Len(Holds(p, Len(p))) \in Nat
    BY <1>1, <1>2, FrontContent
  <2> QED
    BY <1>1, <1>2, <2>1
<1>4. n <= Len(stack) /\ s + Len(Content(r)) + n <= Len(stack) + 1
  <2>1. PICK a, b, e : a = Len(Content(r)) /\ b = Len(Holds(p, m)) /\ e = Len(stack)
    OBVIOUS
  <2>2. s + (a + b) <= e + 1 /\ n <= b /\ a \in Nat /\ b \in Nat /\ e \in Nat
    BY <1>1, <1>2, <1>3, <2>1
  <2>3. n <= e /\ s + a + n <= e + 1
    BY <1>2, <2>2
  <2> QED
    BY <2>1, <2>3
<1>5. st \in Seq(Value) /\ Len(st) = Len(stack) - n /\ Len(st) \in Nat /\ Same(stack, st, Len(st))
  BY <1>2, <1>4, Popped
<1>6. s + Len(Content(r)) <= Len(st) + 1
  <2>1. PICK a, b, e : a = Len(Content(r)) /\ b = Len(st) /\ e = Len(stack)
    OBVIOUS
  <2>2. a \in Nat /\ e \in Nat /\ b = e - n /\ s + a + n <= e + 1
    BY <1>2, <1>3, <1>4, <1>5, <2>1
  <2>3. s + a <= b + 1
    BY <1>2, <2>2
  <2> QED
    BY <2>1, <2>3
<1>7. PICK q \in Seq(Construct) :
        /\ frames' = [frames EXCEPT ![Len(frames)] = [F EXCEPT !.handlers = hs, !.path = q]]
        /\ Top.final => q = [p EXCEPT ![m] = [@ EXCEPT !.phase = "finally", !.locals = <<>>]]
        /\ ~Top.final => q = Front(p)
  <2>1. HInv
    BY DEF Ready
  <2> QED
    BY <1>1, <2>1, AfterTryIs
<1>8. PICK S : F \in FrameType(S)
  BY TopFacts DEF Ready
<1>9. PICK g : g = [F EXCEPT !.handlers = hs, !.path = q]
  OBVIOUS
<1>10. g \in FrameType(S) /\ g.slots = F.slots /\ g.path = q
  BY <1>8, <1>9 DEF FrameType
<1>11. frames' = [frames EXCEPT ![Len(frames)] = g]
  BY <1>7, <1>9
<1>12. CASE ~Top.final
  <2>1. stack' = st
    BY <1>12 DEF AfterTry
  <2>2. g.path = SubSeq(F.path, 1, k) /\ k \in 0..Len(F.path) /\ k < Len(F.path)
    BY <1>1, <1>3, <1>7, <1>10, <1>12
  <2>3. stack' \in Seq(Value) /\ Same(stack, stack', Len(stack'))
    BY <1>5, <2>1
  <2>4. F.slots + Len(Content(g.path)) <= Len(stack') + 1
    BY <1>1, <1>6, <2>1, <2>2
  <2> QED
    BY <1>10, <1>11, <2>2, <2>3, <2>4, BackStep
<1>13. CASE Top.final
  <2>1. stack' = Append(st, Flag(FALSE))
    BY <1>13 DEF AfterTry, Calm
  <2>2. PICK d, h : d = [c EXCEPT !.phase = "finally", !.locals = <<>>] /\ h = Holds(q, k + 1)
    OBVIOUS
  <2>3. c \in TryType
    BY <1>1, TopIsTry DEF Ready
  <2>4. d \in TryType /\ d.phase = "finally" /\ d.locals = <<>> /\ d.kind = "try"
    <3>1. <<>> \in Seq(BOOLEAN)
      OBVIOUS
    <3> QED
      BY <2>2, <2>3, <3>1 DEF TryType, Phases
  <2>5. d \in Construct
    BY <2>4 DEF Construct
  <2>6. q = [p EXCEPT ![m] = d]
    BY <1>1, <1>7, <1>13, <2>2
  <2>7. q = Append(r, d) /\ q[m] = d
    <3>a. Len(p) >= 1
      BY <1>1, <1>3
    <3>1. [p EXCEPT ![Len(p)] = d] = Append(SubSeq(p, 1, Len(p) - 1), d)
      BY <1>2, <2>5, <3>a, TopReplaced
    <3>2. [p EXCEPT ![Len(p)] = d][Len(p)] = d
      BY SMTT(30), <1>1, <1>2, <1>3, <2>5, LastReplaced
    <3> QED
      BY <1>1, <2>6, <3>1, <3>2
  <2>8. h = <<Flag(FALSE)>>
    BY <1>3, <2>2, <2>4, <2>7 DEF Holds
  <2>9. Flag(FALSE) \in Value
    BY FlagValues
  <2>10. /\ stack' \in Seq(Value) /\ Len(stack') = Len(st) + 1 /\ \A i \in 1..Len(st) : stack'[i] = st[i]
    <3>1. PICK u, v : u = st /\ v = Flag(FALSE)
      OBVIOUS
    <3>2. u \in Seq(Value) /\ v \in Value /\ stack' = Append(u, v)
      BY <1>5, <2>1, <2>9, <3>1
    <3>3. /\ stack' \in Seq(Value) /\ Len(stack') = Len(u) + 1
          /\ \A i \in 1..Len(u) : stack'[i] = u[i]
      BY <3>2, AppendFacts
    <3> QED
      BY <3>1, <3>3
  <2>11. LastIs(stack', h)
    BY <1>5, <2>1, <2>8, <2>9, LastPushed
  <2>12. Same(stack, stack', Len(st))
    BY <1>5, <2>10 DEF Same
  <2>13. Len(st) \in Nat /\ Len(st) <= Len(stack) /\ F.slots + Len(Content(r)) <= Len(st) + 1
    BY <1>1, <1>2, <1>5, <1>6
  <2>14. Len(st) + Len(h) <= Len(stack')
    <3>1. Len(h) = 1
      BY <2>8
    <3> QED
      BY <1>5, <2>10, <3>1
  <2>15. d.kind = "try" => ~NamedAt(d) /\ Len(d.locals) = 0 /\ ~Over(d)
    BY <2>4 DEF NamedAt, Over
  <2>16. k \in 0..Len(F.path) /\ k < Len(F.path) /\ r = SubSeq(F.path, 1, k)
    BY <1>1, <1>3
  <2> QED
    BY <1>10, <1>11, <2>2, <2>5, <2>7, <2>10, <2>11, <2>12, <2>13, <2>14, <2>15, <2>16, PathEnter
<1> QED
  BY <1>12, <1>13

LEMMA EndTryCovers ==
  ASSUME Ready, NEW X, Kind(X), EndTry
  PROVE  Covers(X)
<1>1. /\ status = "running" /\ F.path # <<>> /\ Top.kind = "try"
      /\ AfterTry(Front(F.handlers), stack) \/ (stack' = <<>> /\ frames' = <<>>)
  BY DEF EndTry, InTry, In, Running, Stray
<1>2. CASE stack' = <<>> /\ frames' = <<>>
  <2>1. <<>> \in Seq(Value)
    OBVIOUS
  <2> QED
    BY <1>2, <2>1, NoneCovers
<1>3. CASE AfterTry(Front(F.handlers), stack)
  <2>1. stack \in Seq(Value) /\ F.path \in Seq(Construct)
    BY <1>1, ReadyFacts
  <2>2. stack = SubSeq(stack, 1, Len(stack) - 0)
    BY <2>1, SubSeqFull
  <2>3. Front(F.handlers) \in Seq(Handler)
    <3>1. F.handlers \in Seq(Handler)
      BY <1>1, TopFacts DEF Ready
    <3>2. CASE F.handlers = <<>>
      <4>1. Front(F.handlers) = <<>>
        BY <3>2 DEF Front
      <4> QED
        BY <4>1
    <3>3. CASE F.handlers # <<>>
      BY <3>1, <3>3, FrontFacts
    <3> QED
      BY <3>2, <3>3
  <2>4. 0 <= Len(Holds(F.path, Len(F.path)))
    BY <1>1, <2>1, FrontContent
  <2> QED
    BY <1>1, <1>3, <2>2, <2>3, <2>4, AfterTryCovers
<1> QED
  BY <1>1, <1>2, <1>3

LEMMA EndCatchCovers ==
  ASSUME Ready, NEW X, Kind(X), EndCatch
  PROVE  Covers(X)
<1>1. PICK n : n = Len(Top.locals)
  OBVIOUS
<1>2. /\ status = "running" /\ F.path # <<>> /\ Top.kind = "try"
      /\ AfterTry(F.handlers, SubSeq(stack, 1, Len(stack) - n))
  BY <1>1 DEF EndCatch, InTry, In, Running
<1>3. F.path \in Seq(Construct) /\ Tidy(F.path) /\ F.handlers \in Seq(Handler)
  BY <1>2, ReadyFacts, TopFacts DEF Ready
<1>4. Top = F.path[Len(F.path)] /\ Len(F.path) \in 1..Len(F.path)
  BY <1>2, TopIs
<1>5. n \in Nat /\ n <= Len(Holds(F.path, Len(F.path)))
  BY <1>1, <1>3, <1>4, HoldsLen
<1> QED
  BY <1>2, <1>3, <1>5, AfterTryCovers

(* Without finally blocks a path holds what the compiler counts. *)
LEMMA CountsHeld ==
  ASSUME NEW p \in Seq(Construct), Tidy(p), Settled(p),
         \A k \in 1..Len(p) : ~(p[k].kind = "try" /\ p[k].phase \in {"finally", "raised"})
  PROVE  Len(Content(p)) = Len(Flags(p))
<1>1. PICK m, S : m = Len(p) /\ S = {n \in 0..m : Len(Content(SubSeq(p, 1, n))) # Len(Flags(SubSeq(p, 1, n)))}
  OBVIOUS
<1>2. m \in Nat /\ m \in 0..m /\ SubSeq(p, 1, m) = p
  BY <1>1, SubSeqFull
<1>3. ASSUME S # {} PROVE FALSE
  <2>1. S \subseteq Nat
    BY <1>1
  <2>2. PICK n \in S : \A j \in S : n <= j
    BY <1>3, <2>1, NaturalsHaveLeast
  <2>3. n \in 0..m /\ Len(Content(SubSeq(p, 1, n))) # Len(Flags(SubSeq(p, 1, n)))
    BY <1>1, <2>2
  <2>4. n # 0
    <3>1. SubSeq(p, 1, 0) = <<>>
      OBVIOUS
    <3>2. Len(<<Callee>>) = Len(<<FALSE>>)
      OBVIOUS
    <3>3. n = 0 => Content(SubSeq(p, 1, n)) = <<Callee>> /\ Flags(SubSeq(p, 1, n)) = <<FALSE>>
      BY <3>1, ContentNone, FlagsNone
    <3> QED
      BY <2>3, <3>2, <3>3
  <2>5. n - 1 \in 0..m /\ n \in 1..m /\ n \in 0..m /\ n - 1 \notin S
    BY <1>2, <2>2, <2>3, <2>4
  <2>6. PICK s, t : s = SubSeq(p, 1, n - 1) /\ t = SubSeq(p, 1, n)
    OBVIOUS
  <2>7. /\ s \in Seq(Construct) /\ Len(s) = n - 1 /\ \A i \in 1..(n - 1) : s[i] = p[i]
        /\ t \in Seq(Construct) /\ Len(t) = n /\ \A i \in 1..n : t[i] = p[i]
    BY <1>1, <2>5, <2>6, PrefixFacts
  <2>8. Len(t) = Len(s) + 1 /\ (\A i \in 1..Len(s) : t[i] = s[i]) /\ t[n] = p[n] /\ n \in 1..Len(t)
    BY <2>5, <2>7
  <2>9. Len(Holds(t, n)) = Len(p[n].locals) /\ Len(p[n].locals) \in Nat
    <3>1. PICK c : c = p[n]
      OBVIOUS
    <3>a. n \in 1..Len(p)
      BY <1>1, <2>5
    <3>b. p[n].locals \in Seq(BOOLEAN)
      BY <3>a, LocalsTyped
    <3>2. c \in Construct /\ c.locals \in Seq(BOOLEAN) /\ t[n] = c
      BY <2>8, <3>1, <3>a, <3>b
    <3>3. CASE c.kind # "try"
      <4>1. Holds(t, n) = [i \in 1..Len(c.locals) |-> LocalAt(n, i)]
        BY <3>2, <3>3 DEF Holds
      <4>2. Len(c.locals) \in Nat
        BY <3>2
      <4>3. Len(Holds(t, n)) = Len(c.locals)
        BY <4>1, <4>2
      <4> QED
        BY <3>1, <4>2, <4>3
    <3>4. CASE c.kind = "try"
      <4>1. Len(c.locals) = IF c.phase = "catch" /\ c.named THEN 1 ELSE 0
        BY <1>1, <2>5, <3>1, <3>4 DEF Tidy
      <4>2. c.phase \notin {"landed", "leaving", "finally", "raised"}
        BY <1>1, <2>5, <3>1, <3>4 DEF Settled, Over
      <4>3. CASE c.phase = "catch" /\ c.named
        <5>1. Holds(t, n) = <<c.value>>
          BY <3>2, <3>4, <4>3 DEF Holds
        <5>2. Len(Holds(t, n)) = 1
          BY <5>1
        <5> QED
          BY <3>1, <4>1, <4>3, <5>2
      <4>4. CASE ~(c.phase = "catch" /\ c.named)
        <5>1. Holds(t, n) = <<>>
          BY <3>2, <3>4, <4>2, <4>4 DEF Holds
        <5>2. Len(Holds(t, n)) = 0
          BY <5>1
        <5> QED
          BY <3>1, <4>1, <4>4, <5>2
      <4> QED
        BY <4>3, <4>4
    <3> QED
      BY <3>3, <3>4
  <2>10. Content(t) = Content(s) \o Holds(t, n) /\ Flags(t) = Flags(s) \o p[n].locals
    BY <2>7, <2>8, ContentNext, FlagsNext
  <2>11. Len(Content(s)) = Len(Flags(s))
    BY <1>1, <2>5, <2>6
  <2>12. PICK a, b, f, l : a = Content(s) /\ b = Holds(t, n) /\ f = Flags(s) /\ l = p[n].locals
    OBVIOUS
  <2>13. a \in Seq(Value) /\ b \in Seq(Value) /\ f \in Seq(BOOLEAN) /\ l \in Seq(BOOLEAN)
    BY <1>1, <2>5, <2>7, <2>8, <2>12, ContentTyped, HoldsTyped, FlagsTyped, LocalsTyped
  <2>14. Len(a \o b) = Len(a) + Len(b) /\ Len(f \o l) = Len(f) + Len(l)
    BY <2>13
  <2>15. Len(a \o b) = Len(f \o l)
    BY <2>9, <2>11, <2>12, <2>14
  <2> QED
    BY <2>3, <2>6, <2>10, <2>12, <2>15
<1> QED
  BY <1>1, <1>2, <1>3

(* Where the name of a catch in r goes to is above the names in r. *)
LEMMA PlacesBelow ==
  ASSUME NEW r \in Seq(Construct), Tidy(r), NEW k \in 1..Len(r), NamedAt(r[k])
  PROVE  Len(Flags(SubSeq(r, 1, k - 1))) < Len(Flags(r))
<1>1. PICK a, b, D : a = SubSeq(r, 1, k - 1) /\ b = SubSeq(r, 1, k) /\ D = Dropped(r, k)
  OBVIOUS
<1>2. k \in 0..Len(r) /\ k - 1 \in 0..Len(r) /\ k \in Nat /\ k \in 1..k
  OBVIOUS
<1>3. /\ a \in Seq(Construct) /\ Len(a) = k - 1 /\ \A i \in 1..(k - 1) : a[i] = r[i]
      /\ b \in Seq(Construct) /\ Len(b) = k /\ \A i \in 1..k : b[i] = r[i]
  BY <1>1, <1>2, PrefixFacts
<1>4. D \in Seq(BOOLEAN) /\ Flags(r) = Flags(b) \o D
  BY <1>1, <1>2, FlagsDropped
<1>5. Flags(b) = Flags(a) \o r[k].locals
  <2>1. Len(b) = Len(a) + 1 /\ (\A i \in 1..Len(a) : b[i] = a[i]) /\ b[Len(b)] = r[k]
    BY SMTT(30), <1>2, <1>3
  <2>2. Flags(b) = Flags(a) \o b[Len(b)].locals
    BY <1>3, <2>1, FlagsNext
  <2> QED
    BY <2>1, <2>2
<1>6. PICK f, g, h, l : f = Flags(a) /\ g = Flags(b) /\ h = Flags(r) /\ l = r[k].locals
  OBVIOUS
<1>7. f \in Seq(BOOLEAN) /\ g \in Seq(BOOLEAN) /\ l \in Seq(BOOLEAN)
  BY <1>3, <1>6, FlagsTyped, LocalsTyped
<1>8. Len(l) = 1
  BY <1>6 DEF Tidy, NamedAt
<1>9. Len(f \o l) = Len(f) + Len(l) /\ Len(g \o D) = Len(g) + Len(D)
  BY <1>4, <1>7
<1>10. Len(f) < Len(h)
  <2>1. Len(g) = Len(f) + 1 /\ Len(h) = Len(g) + Len(D)
    BY <1>4, <1>5, <1>6, <1>8, <1>9
  <2>2. Len(f) \in Nat /\ Len(D) \in Nat
    BY <1>4, <1>7
  <2> QED
    BY <2>1, <2>2
<1> QED
  BY <1>1, <1>6, <1>10

(* the exception that a catch is entered with *)
LEMMA LandedOnTop ==
  ASSUME Ready, status = "running", F.path # <<>>, Top.kind = "try", Top.phase = "landed"
  PROVE  Last(stack) = Top.value /\ Top.value = Instance(Top.class)
<1>1. /\ Len(frames) \in 1..Len(frames) /\ F = frames[Len(frames)] /\ Lands(stack, frames, status)
  BY ReadyFacts
<1>2. Top = F.path[Len(F.path)] /\ Len(F.path) \in 1..Len(F.path)
  BY TopIs
<1>3. HasLanded(frames[Len(frames)].path)
  BY <1>1, <1>2 DEF HasLanded
<1>4. /\ stack[Len(stack)] = F.path[Len(F.path)].value
      /\ F.path[Len(F.path)].value = Instance(F.path[Len(F.path)].class)
  BY <1>1, <1>3 DEF Lands
<1> QED
  BY <1>2, <1>4 DEF Last

LEMMA ReplacedTop ==
  ASSUME HInv, status = "running", NEW S, NEW g \in FrameType(S),
         frames' = [frames EXCEPT ![Len(frames)] = g]
  PROVE  /\ Len(frames') = Len(frames) /\ frames'[Len(frames)] = g /\ Len(frames) \in 1..Len(frames')
         /\ \A j \in 1..Len(frames) : j # Len(frames) => frames'[j] = frames[j]
<1>1. PICK T : frames \in Seq(FrameType(T))
  BY TopFacts
<1>2. PICK R : R = S \cup T
  OBVIOUS
<1>3. FrameType(S) \subseteq FrameType(R) /\ FrameType(T) \subseteq FrameType(R)
  BY <1>2 DEF FrameType
<1>4. frames \in Seq(FrameType(R)) /\ g \in FrameType(R) /\ Len(frames) >= 1 /\ Len(frames) \in Nat
  BY <1>1, <1>3, SeqGrows, TopFacts
<1>5. /\ Len(frames') = Len(frames) /\ frames'[Len(frames)] = g
      /\ \A j \in 1..Len(frames) : j # Len(frames) => frames'[j] = frames[j]
  BY <1>4, LastReplaced
<1>6. Len(frames) \in 1..Len(frames)
  BY <1>4
<1>7. Len(frames) \in 1..Len(frames')
  BY <1>5, <1>6
<1> QED
  BY <1>5, <1>7

LEMMA EnterCatchCovers ==
  ASSUME Ready, NEW X, Kind(X), NEW captured \in BOOLEAN, EnterCatch(captured)
  PROVE  Covers(X)
<1>1. /\ status = "running" /\ F.path # <<>> /\ Top.kind = "try" /\ Top.phase = "landed"
  BY DEF EnterCatch, In
<1>2. PICK p, m, k, r, s, c, d, q, v :
        /\ p = F.path /\ m = Len(p) /\ k = m - 1 /\ r = SubSeq(p, 1, k) /\ s = F.slots /\ c = Top
        /\ d = [c EXCEPT !.phase = "catch", !.locals = IF c.named THEN <<captured>> ELSE <<>>]
        /\ q = [p EXCEPT ![m] = d] /\ v = c.value
  OBVIOUS
<1>3. /\ p \in Seq(Construct) /\ Tidy(p) /\ m \in Nat /\ stack \in Seq(Value) /\ Len(stack) \in Nat
      /\ s \in Nat /\ 1 <= s /\ s + Len(Content(p)) <= Len(stack) + 1 /\ s \in Nat \ {0}
  <2>1. /\ F.path \in Seq(Construct) /\ Tidy(F.path) /\ Len(F.path) \in Nat
        /\ F.slots + Len(Content(F.path)) <= Len(stack) + 1 /\ F.slots \in Nat /\ 1 <= F.slots
        /\ stack \in Seq(Value) /\ Len(stack) \in Nat
    BY <1>1, ReadyFacts
  <2> QED
    BY <1>2, <2>1
<1>4. /\ r = Front(p) /\ k \in 0..m /\ k < m /\ k + 1 = m /\ m \in 1..m /\ m >= 1
      /\ Content(p) = Content(r) \o Holds(p, m)
      /\ Content(r) \in Seq(Value) /\ Len(Content(r)) \in Nat
  <2>1. /\ Front(p) = SubSeq(p, 1, Len(p) - 1) /\ Len(p) - 1 \in 0..Len(p) /\ Len(p) - 1 < Len(p)
        /\ Content(p) = Content(Front(p)) \o Holds(p, Len(p)) /\ Len(p) \in 1..Len(p)
        /\ Content(Front(p)) \in Seq(Value) /\ Len(Content(Front(p))) \in Nat
    BY <1>1, <1>2, <1>3, FrontContent
  <2> QED
    BY <1>2, <1>3, <2>1
<1>5. r \in Seq(Construct) /\ Len(r) = k /\ (\A i \in 1..k : r[i] = p[i]) /\ Tidy(r) /\ Settled(r)
  <2>1. k \in 0..Len(p) /\ k < Len(p) /\ r = SubSeq(p, 1, k)
    BY <1>2, <1>4
  <2> QED
    BY <1>3, <2>1, SettledPrefix
<1>6. c = p[m] /\ c \in TryType
  BY <1>1, <1>2, TopIsTry DEF Ready
<1>7. PICK S : /\ d \in TryType /\ q \in Seq(Construct)
               /\ \E g \in FrameType(S) :
                    /\ g.slots = F.slots /\ g.path = q
                    /\ frames' = [frames EXCEPT ![Len(frames)] = g]
  <2>1. HInv
    BY DEF Ready
  <2>2. d = [Top EXCEPT !.phase = "catch", !.locals = IF Top.named THEN <<captured>> ELSE <<>>]
    BY <1>2
  <2>3. q = [F.path EXCEPT ![Len(F.path)] = d]
    BY <1>2
  <2> QED
    BY ZenonT(60), <2>1, <2>2, <2>3, EnterCatchIs
<1>8. PICK g \in FrameType(S) :
        g.slots = F.slots /\ g.path = q /\ frames' = [frames EXCEPT ![Len(frames)] = g]
  BY <1>7
<1>9. d \in Construct /\ d.phase = "catch" /\ d.kind = "try" /\ d.named = c.named /\ d.value = v
      /\ d.class = c.class /\ d.locals = IF c.named THEN <<captured>> ELSE <<>>
  BY <1>2, <1>6, <1>7 DEF Construct, TryType
<1>10. q = Append(r, d) /\ q[m] = d /\ Len(q) = m /\ \A i \in 1..k : q[i] = r[i]
  <2>1. m = Len(p) /\ Len(p) >= 1 /\ k = Len(p) - 1
    BY <1>2, <1>4
  <2>2. [p EXCEPT ![Len(p)] = d] = Append(SubSeq(p, 1, Len(p) - 1), d)
    BY <1>3, <1>9, <2>1, TopReplaced
  <2>3. q = Append(r, d)
    BY <1>2, <2>1, <2>2
  <2>4. /\ Len(Append(r, d)) = Len(r) + 1 /\ Append(r, d)[Len(r) + 1] = d
        /\ \A i \in 1..Len(r) : Append(r, d)[i] = r[i]
    BY <1>5, <1>9, AppendFacts
  <2> QED
    BY <1>4, <1>5, <2>3, <2>4
<1>11. Holds(p, m) = <<v>>
  BY <1>1, <1>2, <1>6 DEF Holds
<1>12. CASE ~c.named
  <2>1. stack' = stack
    BY <1>2, <1>12 DEF EnterCatch
  <2>2. PICK h, n : h = Holds(q, k + 1) /\ n = Len(stack)
    OBVIOUS
  <2>3. h = <<>> /\ Len(h) = 0
    BY <1>4, <1>9, <1>10, <1>12, <2>2 DEF Holds
  <2>4. d.kind = "try" => ~NamedAt(d) /\ Len(d.locals) = 0 /\ ~Over(d)
    BY <1>9, <1>12 DEF NamedAt, Over
  <2>5. n \in Nat /\ n <= Len(stack) /\ n + Len(h) <= Len(stack')
    BY <1>3, <2>1, <2>2, <2>3
  <2>6. F.slots + Len(Content(r)) <= n + 1
    <3>1. Len(Content(r)) <= Len(Content(p))
      <4>1. Ahead(r, p)
        BY <1>2, <1>3, <1>4, PrefixAhead
      <4> QED
        BY <4>1 DEF Ahead, Begins
    <3>2. Len(Content(p)) \in Nat
      BY <1>3, ContentLen
    <3> QED
      BY <1>2, <1>3, <1>4, <2>2, <3>1, <3>2
  <2>7. Same(stack, stack', n) /\ LastIs(stack', h) /\ stack' \in Seq(Value)
    BY <1>3, <2>1, <2>3 DEF Same, LastIs
  <2>8. k \in 0..Len(F.path) /\ k < Len(F.path) /\ r = SubSeq(F.path, 1, k)
    BY <1>2, <1>4
  <2> QED
    BY <1>1, <1>8, <1>9, <1>10, <2>2, <2>4, <2>5, <2>6, <2>7, <2>8, PathEnter
<1>13. CASE c.named
  <2>1. PICK P, t, x, y, n : /\ P = F.slots + Len(Flags(r)) /\ t = [stack EXCEPT ![P] = v]
                             /\ x = (Len(frames) \in shifted) /\ y = (Len(frames) \in X) /\ n = P - 1
    OBVIOUS
  <2>2. /\ Len(Flags(r)) \in Nat /\ 1 <= Len(Flags(r)) /\ Len(Flags(r)) <= Len(Content(r))
    BY <1>5, NeedsFacts
  <2>3. PICK a : a = Len(Content(r))
    OBVIOUS
  <2>4. Len(Content(p)) = a + 1 /\ a \in Nat /\ s + a <= Len(stack)
    <3>1. Len(Content(r) \o <<v>>) = Len(Content(r)) + 1
      BY <1>4
    <3>2. Len(Content(p)) = a + 1
      BY <1>4, <1>11, <2>3, <3>1
    <3> QED
      BY <1>3, <1>4, <2>3, <3>2
  <2>5. P \in Nat /\ s < P /\ P <= s + a /\ P \in 1..Len(stack) /\ n \in Nat /\ n + 1 = P
    <3>1. PICK f : f = Len(Flags(r))
      OBVIOUS
    <3>2. f \in Nat /\ 1 <= f /\ f <= a /\ P = s + f
      BY <1>2, <2>1, <2>2, <2>3, <3>1
    <3> QED
      BY SMTT(30), <1>3, <2>1, <2>4, <3>2
  <2>6. stack' = t
    <3>1. stack' = [stack EXCEPT ![F.slots + Counted(p)] = Last(stack)]
      BY <1>2, <1>13 DEF EnterCatch, NamedSlot
    <3>2. Counted(p) = Len(Flags(r))
      <4>1. Counted(p) = Len(Flags(p))
        BY <1>3, CountedIs
      <4>2. Flags(p) = Flags(r) \o c.locals
        <5>1. Len(p) = Len(r) + 1 /\ (\A i \in 1..Len(r) : p[i] = r[i]) /\ p[Len(p)] = c
          BY <1>2, <1>4, <1>5, <1>6
        <5>2. Flags(p) = Flags(r) \o p[Len(p)].locals
          BY <1>3, <1>5, <5>1, FlagsNext
        <5> QED
          BY <5>1, <5>2
      <4>3. c.locals = <<>>
        <5>1. m \in 1..Len(p) /\ p[m] = c /\ c.kind = "try" /\ c.phase = "landed"
          BY <1>1, <1>2, <1>4, <1>6
        <5>2. Len(c.locals) = 0
          BY <1>3, <5>1 DEF Tidy
        <5>3. c.locals \in Seq(BOOLEAN)
          BY <1>3, <5>1, LocalsTyped
        <5> QED
          BY <5>2, <5>3, EmptySeq
      <4>4. Flags(r) \in Seq(BOOLEAN)
        BY <1>5, FlagsTyped
      <4>5. Flags(r) \o <<>> = Flags(r)
        BY <4>4, ConcatEmptySeq
      <4> QED
        BY <4>1, <4>2, <4>3, <4>5
    <3>3. Last(stack) = v
      BY <1>1, LandedOnTop, <1>2
    <3> QED
      BY <2>1, <3>1, <3>2, <3>3
  <2>7. /\ t \in Seq(Value) /\ Len(t) = Len(stack) /\ t[P] = v /\ \A i \in 1..Len(stack) : i # P => t[i] = stack[i]
    <3>1. v \in Value
      BY <1>2, <1>6 DEF TryType
    <3> QED
      BY <1>3, <2>1, <2>5, <3>1
  <2>8. Same(stack, t, n)
    <3>1. \A i \in 1..n : i \in 1..Len(stack) /\ i # P
      BY <1>3, <2>5
    <3> QED
      BY <2>7, <3>1 DEF Same
  <2>9. Tidy(q)
    <3>1. ASSUME NEW i \in 1..Len(q), q[i].kind = "try"
          PROVE  /\ q[i].phase \in {"landed", "leaving"} => i = Len(q)
                 /\ Len(q[i].locals) = IF q[i].phase = "catch" /\ q[i].named THEN 1 ELSE 0
      <4>1. CASE i = m
        <5>1. d.named => Len(d.locals) = 1
          BY <1>9, <1>13
        <5> QED
          BY <1>9, <1>10, <1>13, <4>1, <5>1
      <4>2. CASE i # m
        <5>1. i \in 1..k /\ q[i] = r[i]
          BY <1>4, <1>10, <3>1, <4>2
        <5>2. i \in 1..Len(r) /\ r[i].kind = "try" /\ ~Over(r[i])
          BY <1>5, <3>1, <5>1 DEF Settled
        <5> QED
          BY <1>5, <5>1, <5>2 DEF Tidy, Over
      <4> QED
        BY <4>1, <4>2
    <3> QED
      BY <3>1 DEF Tidy
  <2>10. Content(q) = Content(p)
    <3>1. Len(q) = Len(r) + 1 /\ \A i \in 1..Len(r) : q[i] = r[i]
      BY <1>4, <1>5, <1>10
    <3>2. Content(q) = Content(r) \o Holds(q, Len(q))
      BY <1>5, <1>7, <3>1, ContentNext
    <3>3. Holds(q, Len(q)) = <<v>>
      BY <1>9, <1>10, <1>13 DEF Holds
    <3> QED
      BY <1>4, <1>11, <3>2, <3>3
  <2>11. s + Needs(q) <= Len(t) + 1
    <3>1. Needs(q) = Len(Content(q))
      <4>1. q # <<>> => ~(q[Len(q)].kind = "try" /\ q[Len(q)].phase = "leaving")
        BY <1>9, <1>10
      <4> QED
        BY <1>7, <4>1, SettledNeeds
    <3> QED
      BY <1>3, <2>7, <2>10, <3>1
  <2>12. Caught(t, s, q)
    <3>1. ASSUME NEW i \in 1..Len(q), NamedAt(q[i])
          PROVE  t[Place(s, q, i)] = q[i].value /\ q[i].value = Instance(q[i].class)
      <4>1. CASE i = m
        <5>1. SubSeq(q, 1, m - 1) = r
          <6>1. q \in Seq(Construct) /\ k \in 0..Len(q)
            BY <1>4, <1>7, <1>10
          <6>2. PICK u : u = SubSeq(q, 1, k)
            OBVIOUS
          <6>3. u \in Seq(Construct) /\ Len(u) = k /\ \A j \in 1..k : u[j] = q[j]
            BY <6>1, <6>2, PrefixFacts
          <6>4. u = r
            BY <1>5, <1>10, <6>3, Sames
          <6> QED
            BY <1>2, <6>2, <6>4
        <5>2. Place(s, q, i) = P
          BY <1>2, <2>1, <4>1, <5>1 DEF Place
        <5>3. q[i].value = v /\ q[i].class = c.class
          BY <1>9, <1>10, <4>1
        <5>4. v = Instance(c.class)
          BY <1>1, <1>2, LandedOnTop
        <5> QED
          BY <2>7, <5>2, <5>3, <5>4
      <4>2. CASE i # m
        <5>1. i \in 1..k /\ q[i] = r[i] /\ r[i] = p[i] /\ i \in 1..Len(r) /\ i \in 1..Len(p) /\ i - 1 \in 0..k
          BY SMTT(30), <1>2, <1>4, <1>5, <1>10, <4>2
        <5>2. SubSeq(q, 1, i - 1) = SubSeq(r, 1, i - 1) /\ SubSeq(p, 1, i - 1) = SubSeq(r, 1, i - 1)
          <6>1. i - 1 \in 0..Len(q) /\ i - 1 \in 0..Len(r) /\ i - 1 \in 0..Len(p) /\ k <= Len(q)
            BY <1>2, <1>4, <1>5, <1>10, <5>1
          <6>2. PICK u, w, z : u = SubSeq(q, 1, i - 1) /\ w = SubSeq(r, 1, i - 1) /\ z = SubSeq(p, 1, i - 1)
            OBVIOUS
          <6>3. /\ u \in Seq(Construct) /\ Len(u) = i - 1 /\ \A j \in 1..(i - 1) : u[j] = q[j]
                /\ w \in Seq(Construct) /\ Len(w) = i - 1 /\ \A j \in 1..(i - 1) : w[j] = r[j]
                /\ z \in Seq(Construct) /\ Len(z) = i - 1 /\ \A j \in 1..(i - 1) : z[j] = p[j]
            BY SMTT(30), <1>3, <1>5, <1>7, <6>1, <6>2, PrefixFacts
          <6>4. \A j \in 1..(i - 1) : j \in 1..k
            <7>1. k \in Nat /\ i \in 1..k
              BY <1>4, <5>1
            <7> QED
              BY <7>1
          <6>5. \A j \in 1..(i - 1) : q[j] = r[j] /\ p[j] = r[j]
            BY <1>5, <1>10, <6>4
          <6>6. u = w /\ z = w
            <7>1. (\A j \in 1..Len(u) : u[j] = w[j]) /\ (\A j \in 1..Len(z) : z[j] = w[j])
              BY <6>3, <6>5
            <7>2. Len(u) = Len(w) /\ Len(z) = Len(w)
              BY <6>3
            <7> QED
              BY <6>3, <7>1, <7>2, Sames
          <6> QED
            BY <6>2, <6>6
        <5>3. Place(s, q, i) = Place(s, p, i) /\ Place(s, q, i) = s + Len(Flags(SubSeq(r, 1, i - 1)))
          BY <5>2 DEF Place
        <5>4. NamedAt(p[i])
          BY <3>1, <5>1
        <5>5. stack[Place(s, p, i)] = p[i].value /\ p[i].value = Instance(p[i].class)
          <6>1. Caught(stack, s, p)
            BY <1>1, <1>2, ReadyFacts DEF Stands
          <6> QED
            BY <5>1, <5>4, <6>1 DEF Caught
        <5>6. Place(s, q, i) \in 1..n
          <6>1. Len(Flags(SubSeq(r, 1, i - 1))) < Len(Flags(r))
            BY <1>5, <3>1, <5>1, PlacesBelow
          <6>2. SubSeq(r, 1, i - 1) \in Seq(Construct)
            <7>1. i - 1 \in 0..Len(r)
              BY <1>5, <5>1
            <7> QED
              BY <1>5, <7>1, PrefixFacts
          <6>3. PICK f, e : f = Len(Flags(SubSeq(r, 1, i - 1))) /\ e = Len(Flags(r))
            OBVIOUS
          <6>4. f \in Nat /\ e \in Nat /\ f < e /\ P = s + e
            BY <1>2, <1>5, <2>1, <6>1, <6>2, <6>3, ContentLen
          <6>5. s + f \in 1..n
            BY <1>3, <2>1, <6>4
          <6> QED
            BY <5>3, <6>3, <6>5
        <5> QED
          BY <2>8, <5>1, <5>3, <5>5, <5>6 DEF Same
      <4> QED
        BY <4>1, <4>2
    <3> QED
      BY <3>1 DEF Caught
  <2>13. y \/ Placed(t, s, q)
    <3>1. SUFFICES ASSUME ~y PROVE Placed(t, s, q)
      OBVIOUS
    <3>2. Placed(stack, s, p)
      <4>1. Len(frames) \notin shifted
        BY <2>1, <3>1 DEF Kind
      <4> QED
        BY <1>1, <1>2, <4>1, InPlace
    <3>3. Len(frames') = Len(frames) /\ frames'[Len(frames)] = g /\ Len(frames) \in 1..Len(frames')
      BY <1>1, <1>8, ReplacedTop DEF Ready
    <3>4. ~Loose(g, Len(t) + 1)
      <4>1. ~Loose(frames'[Len(frames)], Above(frames', Len(frames), Len(stack') + 1))
        BY <2>1, <3>1, <3>3 DEF Kind, Snug
      <4>2. Above(frames', Len(frames), Len(stack') + 1) = Len(stack') + 1
        BY <3>3 DEF Above
      <4> QED
        BY <2>6, <3>3, <4>1, <4>2
    <3>5. Len(stack) <= s + a
      <4>1. PICK e, u, w : e = Len(t) + 1 /\ u = g.slots /\ w = Len(Content(g.path))
        OBVIOUS
      <4>2. ~(e - u > w)
        BY <3>4, <4>1 DEF Loose
      <4>3. u = s /\ w = a + 1 /\ e = Len(stack) + 1
        BY <1>2, <1>8, <2>4, <2>7, <2>10, <4>1
      <4> QED
        BY <1>3, <2>4, <4>2, <4>3
    <3>6. \A i \in 1..Len(r) : ~(r[i].kind = "try" /\ r[i].phase \in {"finally", "raised"})
      <4>1. SUFFICES ASSUME NEW i \in 1..Len(r), r[i].kind = "try", r[i].phase \in {"finally", "raised"}
                     PROVE  FALSE
        OBVIOUS
      <4>2. i \in 1..Len(q) /\ m \in 1..Len(q) /\ i < m /\ q[i] = r[i]
        BY <1>4, <1>5, <1>10, <4>1
      <4>3. q[m].locals = <<captured>>
        BY <1>9, <1>10, <1>13
      <4>4. <<captured>> # <<>>
        OBVIOUS
      <4>5. Loose(g, Len(t) + 1)
        <5>1. \E j, l \in 1..Len(g.path) :
                /\ g.path[j].kind = "try" /\ g.path[j].phase \in {"finally", "raised"}
                /\ j < l /\ g.path[l].locals # <<>>
          BY <1>8, <4>1, <4>2, <4>3, <4>4
        <5> QED
          BY <5>1 DEF Loose
      <4> QED
        BY <3>4, <4>5
    <3>7. Len(Flags(r)) = a
      BY <1>5, <2>3, <3>6, CountsHeld
    <3>8. P = Len(stack)
      <4>1. P = s + a
        BY <1>2, <2>1, <3>7
      <4> QED
        BY <1>3, <2>4, <3>5, <4>1
    <3>9. t = stack
      <4>1. stack[P] = v
        <5>1. Last(stack) = v
          BY <1>1, <1>2, LandedOnTop
        <5> QED
          BY <3>8, <5>1 DEF Last
      <4>2. \A i \in 1..Len(stack) : t[i] = stack[i]
        BY <2>7, <4>1
      <4> QED
        BY <1>3, <2>7, <4>2, Sames
    <3> QED
      BY <2>10, <3>2, <3>9 DEF Placed
  <2>14. Stands(t, g, Len(t) + 1, y)
    BY <1>2, <1>3, <1>7, <1>8, <2>9, <2>11, <2>12, <2>13 DEF Stands
  <2>15. ~HasLanded(q)
    <3>1. ASSUME NEW i \in 1..Len(q) PROVE ~(q[i].kind = "try" /\ q[i].phase = "landed")
      <4>1. CASE i = m
        BY <1>9, <1>10, <4>1
      <4>2. CASE i # m
        <5>1. i \in 1..k /\ q[i] = r[i] /\ i \in 1..Len(r)
          BY <1>4, <1>5, <1>10, <4>2
        <5> QED
          BY <1>5, <5>1 DEF Settled, Over
      <4> QED
        BY <4>1, <4>2
    <3> QED
      BY <3>1 DEF HasLanded
  <2>16. F.slots <= n + 1
    BY <1>2, <1>3, <2>5
  <2>17. Stands(stack', g, Len(stack') + 1, Len(frames) \in X)
    BY <2>1, <2>6, <2>14
  <2>18. stack' \in Seq(Value) /\ Same(stack, stack', n) /\ n \in Nat /\ ~HasLanded(g.path)
    BY <1>8, <2>5, <2>6, <2>7, <2>8, <2>15
  <2> QED
    BY <1>1, <1>8, <2>16, <2>17, <2>18, TopStep
<1> QED
  BY <1>12, <1>13

LEMMA EmptyCovers ==
  ASSUME NEW X, stack' = <<>>, frames' = <<>>
  PROVE  Covers(X)
<1>1. <<>> \in Seq(Value)
  OBVIOUS
<1> QED
  BY <1>1, NoneCovers

(* what a frame holds when it is called *)
LEMMA NewContent ==
  ASSUME NEW p \in {<<>>, <<Block>>}
  PROVE  /\ p \in Seq(Construct) /\ Tidy(p) /\ Settled(p) /\ Content(p) = <<Callee>> /\ Needs(p) = 1
         /\ \A k \in 1..Len(p) : p[k].kind # "try"
<1>1. CASE p = <<>>
  <2>1. Content(p) = <<Callee>> /\ Len(Content(p)) = 1
    BY <1>1, ContentNone
  <2>2. p \in Seq(Construct) /\ 1..Len(p) = {}
    BY <1>1
  <2> QED
    BY <1>1, <2>1, <2>2 DEF Tidy, Settled, Needs
<1>2. CASE p = <<Block>>
  <2>1. Len(p) = 1 /\ p[1] = Block /\ p \in Seq(Construct)
    BY <1>2, BlockTypes
  <2>2. \A k \in 1..Len(p) : p[k].kind # "try"
    BY <2>1 DEF Block
  <2>3. PICK q : q = <<>>
    OBVIOUS
  <2>4. q \in Seq(Construct) /\ Len(p) = Len(q) + 1 /\ \A i \in 1..Len(q) : p[i] = q[i]
    BY <2>1, <2>3
  <2>5. Content(p) = Content(q) \o Holds(p, Len(p))
    BY <2>1, <2>4, ContentNext
  <2>6. Holds(p, Len(p)) = <<>>
    <3>1. Holds(p, 1) = [i \in 1..Len(<<>>) |-> LocalAt(1, i)]
      BY <2>1 DEF Holds, Block
    <3>2. 1..Len(<<>>) = {}
      OBVIOUS
    <3>3. \A f : f = [i \in {} |-> LocalAt(1, i)] => f = <<>>
      OBVIOUS
    <3> QED
      BY <2>1, <3>1, <3>2, <3>3
  <2>7. Content(p) = <<Callee>>
    <3>1. <<Callee>> \o <<>> = <<Callee>>
      OBVIOUS
    <3> QED
      BY <2>3, <2>5, <2>6, <3>1, ContentNone
  <2>8. Len(Content(p)) = 1
    BY <2>7
  <2>9. Needs(p) = 1
    BY <2>1, <2>2, <2>8 DEF Needs
  <2>10. Tidy(p) /\ Settled(p)
    BY <2>2 DEF Tidy, Settled, Over
  <2> QED
    BY <2>1, <2>2, <2>7, <2>9, <2>10
<1> QED
  BY <1>1, <1>2

LEMMA CallCovers ==
  ASSUME Ready, NEW X, Kind(X), NewLine \/ Call
  PROVE  Covers(X)
<1>1. CASE stack' = <<>> /\ frames' = <<>>
  BY <1>1, EmptyCovers
<1>2. SUFFICES ASSUME ~(stack' = <<>> /\ frames' = <<>>) PROVE Covers(X)
  BY <1>1
<1>3. PICK p \in {<<>>, <<Block>>}, line \in BOOLEAN :
        /\ stack' = Append(stack, Callee)
        /\ frames' = Append(frames, Frame(Len(stack) + 1, p, line))
  BY <1>2 DEF NewLine, Call, Stray, ResetStack
<1>4. PICK g, L, fs, t, top : /\ g = Frame(Len(stack) + 1, p, line) /\ L = Len(frames) /\ fs = frames
                              /\ t = stack' /\ top = Len(stack) + 1
  OBVIOUS
<1>5. /\ Covered(stack, fs, top, shifted) /\ Lands(stack, fs, status)
  BY <1>4 DEF Ready, CInv
<1>6. stack \in Seq(Value) /\ Len(stack) \in Nat /\ top \in Nat
  BY <1>4, <1>5 DEF Covered
<1>7. Covered(stack, fs, top, X)
  <2>1. \A j \in 1..Len(fs) : j \in shifted => j \in X
    BY DEF Kind
  <2> QED
    BY <1>5, <2>1, CoveredWeaker
<1>8. /\ t \in Seq(Value) /\ Len(t) = Len(stack) + 1 /\ t[Len(stack) + 1] = Callee
      /\ \A i \in 1..Len(stack) : t[i] = stack[i]
  <2>1. Callee \in Value
    BY DEF Value
  <2>2. t = Append(stack, Callee)
    BY <1>3, <1>4
  <2> QED
    BY <1>6, <2>1, <2>2, AppendFacts
<1>9. Same(stack, t, Len(stack))
  BY <1>8 DEF Same
<1>10. Covered(t, fs, top, X)
  <2>1. top <= Len(stack) + 1 /\ top <= top /\ top <= Len(t) + 1
    BY <1>4, <1>6, <1>8
  <2> QED
    BY <1>6, <1>7, <1>8, <1>9, <2>1, CoveredStack
<1>11. g.slots = top /\ g.path = p
  BY <1>4 DEF Frame
<1>12. Stands(t, g, Len(t) + 1, Len(fs) + 1 \in X)
  <2>1. /\ p \in Seq(Construct) /\ Tidy(p) /\ Content(p) = <<Callee>> /\ Needs(p) = 1
        /\ \A k \in 1..Len(p) : p[k].kind # "try"
    BY NewContent
  <2>2. top \in Nat \ {0} /\ top + Needs(p) <= Len(t) + 1
    BY <1>4, <1>6, <1>8, <2>1
  <2>3. Caught(t, top, p)
    BY <2>1 DEF Caught, NamedAt
  <2>4. Placed(t, top, p)
    <3>1. ASSUME NEW i \in 1..Len(Content(p)) PROVE t[top + i - 1] = Content(p)[i]
      <4>1. i = 1
        BY <2>1
      <4>2. top + i - 1 = Len(stack) + 1
        BY <1>4, <1>6, <4>1
      <4> QED
        BY <1>8, <2>1, <4>1, <4>2
    <3> QED
      BY <3>1 DEF Placed
  <2> QED
    BY <1>11, <2>1, <2>2, <2>3, <2>4 DEF Stands
<1>13. Covered(t, Append(fs, g), Len(t) + 1, X)
  <2>1. Len(t) + 1 \in Nat /\ Len(t) + 1 <= Len(t) + 1
    BY <1>6, <1>8
  <2> QED
    BY <1>10, <1>11, <1>12, <2>1, CoveredPush
<1>14. \A j \in 1..L : ~HasLanded(fs[j].path)
  <2>1. CASE Running
    BY <1>4, <2>1, RunningFacts
  <2>2. CASE ~Running
    <3>1. status # "running"
      BY <2>2 DEF NewLine, Call
    <3> QED
      BY <1>4, <1>5, <3>1 DEF Lands
  <2> QED
    BY <2>1, <2>2
<1>15. Lands(stack', frames', status')
  <2>1. PICK R : fs \in Seq(R)
    BY <1>5 DEF Covered
  <2>2. PICK V : V = R \cup {g}
    OBVIOUS
  <2>3. fs \in Seq(V) /\ g \in V
    BY <2>1, <2>2, SeqGrows
  <2>4. frames' = Append(fs, g)
    BY <1>3, <1>4
  <2>5. /\ Len(frames') = L + 1 /\ L \in Nat /\ frames'[L + 1] = g
        /\ \A j \in 1..L : frames'[j] = fs[j]
    BY <1>4, <2>3, <2>4, AppendFacts
  <2>6. ~HasLanded(g.path)
    BY <1>11, NewContent DEF HasLanded
  <2>7. ASSUME NEW j \in 1..Len(frames') PROVE ~HasLanded(frames'[j].path)
    <3>1. CASE j = L + 1
      BY <2>5, <2>6, <3>1
    <3>2. CASE j # L + 1
      <4>1. j \in 1..L
        BY <2>5, <3>2
      <4> QED
        BY <1>14, <2>5, <4>1
    <3> QED
      BY <3>1, <3>2
  <2> QED
    BY <2>7 DEF Lands
<1> QED
  BY <1>3, <1>4, <1>13, <1>15 DEF Covers

LEMMA ReturnCovers ==
  ASSUME Ready, NEW X, Kind(X), Return
  PROVE  Covers(X)
<1>1. Running /\ status = "running" /\ frames' = Front(frames)
  BY DEF Return, Running
<1>2. PICK L, fs, t, s : L = Len(frames) /\ fs = frames /\ t = stack' /\ s = F.slots
  OBVIOUS
<1>3. /\ stack \in Seq(Value) /\ Len(stack) \in Nat /\ Len(stack) >= 1 /\ L \in Nat /\ L >= 1 /\ L \in 1..Len(fs)
      /\ Covered(stack, fs, Len(stack) + 1, shifted) /\ F = fs[L]
      /\ s \in Nat /\ 1 <= s
  BY <1>1, <1>2, ReadyFacts
<1>4. frames' = SubSeq(fs, 1, L - 1)
  BY <1>1, <1>2, FrontIsPopped
<1>5. CASE L = 1
  <2>1. stack' = Front(stack)
    BY <1>2, <1>5 DEF Return
  <2>2. stack' \in Seq(Value)
    <3>1. stack # <<>>
      BY <1>3, EmptySeq
    <3> QED
      BY <1>3, <2>1, <3>1, FrontFacts
  <2>3. frames' = <<>>
    BY <1>4, <1>5
  <2> QED
    BY <2>2, <2>3, NoneCovers
<1>6. CASE L # 1
  <2>1. PICK u, w : u = SubSeq(stack, 1, s - 1) /\ w = (IF F.line THEN <<Result>> ELSE <<>>)
    OBVIOUS
  <2>2. t = u \o w
    BY <1>2, <1>6, <2>1 DEF Return
  <2>3. s <= Len(stack)
    <3>1. s + Len(Content(F.path)) <= Len(stack) + 1 /\ 1 <= Len(Content(F.path)) /\ Len(Content(F.path)) \in Nat
      BY <1>1, <1>2, ReadyFacts
    <3> QED
      BY <1>3, <3>1
  <2>4. s - 1 \in 0..Len(stack) /\ s - 1 \in Nat
    BY <1>3, <2>3
  <2>5. u \in Seq(Value) /\ Len(u) = s - 1 /\ \A i \in 1..(s - 1) : u[i] = stack[i]
    BY <1>3, <2>1, <2>4, PrefixFacts
  <2>6. w \in Seq(Value)
    <3>1. <<Result>> \in Seq(Value) /\ <<>> \in Seq(Value)
      BY DEF Value
    <3> QED
      BY <2>1, <3>1
  <2>7. /\ t \in Seq(Value) /\ s - 1 <= Len(t) /\ \A i \in 1..(s - 1) : t[i] = stack[i]
    <3>1. u \o w \in Seq(Value) /\ Len(u \o w) = Len(u) + Len(w) /\ \A i \in 1..Len(u) : (u \o w)[i] = u[i]
      BY <2>5, <2>6
    <3> QED
      BY <2>2, <2>4, <2>5, <2>6, <3>1
  <2>8. Covered(stack, fs, Len(stack) + 1, X)
    <3>1. \A j \in 1..Len(fs) : j \in shifted => j \in X
      BY DEF Kind
    <3> QED
      BY <1>3, <3>1, CoveredWeaker
  <2>9. Covered(stack, SubSeq(fs, 1, L - 1), s, X) /\ Len(SubSeq(fs, 1, L - 1)) = L - 1
    <3>1. fs[L].slots = s
      BY <1>2, <1>3
    <3> QED
      BY <1>3, <2>8, <3>1, CoveredPrefix
  <2>10. Same(stack, t, s - 1)
    BY <2>7 DEF Same
  <2>11. Covered(t, SubSeq(fs, 1, L - 1), Len(t) + 1, X)
    <3>1. s <= (s - 1) + 1 /\ Len(t) + 1 \in Nat /\ s <= Len(t) + 1 /\ Len(t) + 1 <= Len(t) + 1
      BY <1>3, <2>7
    <3> QED
      BY <2>4, <2>7, <2>9, <2>10, <3>1, CoveredStack
  <2>12. Lands(stack', frames', status')
    <3>1. PICK R : fs \in Seq(R)
      BY <1>3 DEF Covered
    <3>2. L - 1 \in 0..Len(fs) /\ L = Len(fs)
      BY <1>2, <1>3
    <3>3. Len(frames') = L - 1 /\ \A j \in 1..(L - 1) : frames'[j] = fs[j]
      BY <1>4, <3>1, <3>2, PrefixFacts
    <3>4. \A j \in 1..(L - 1) : j \in 1..Len(frames)
      BY <1>2, <1>3
    <3>5. \A j \in 1..Len(frames') : ~HasLanded(frames'[j].path)
      BY <1>1, <1>2, <3>3, <3>4, RunningFacts
    <3> QED
      BY <3>5 DEF Lands
  <2> QED
    BY <1>2, <1>4, <2>11, <2>12 DEF Covers
<1> QED
  BY <1>5, <1>6

-----------------------------------------------------------------------------
(* Where an exception lands, its frame holds what the code there counts on *)

(* The frame that landing in handler n of frame j makes the last: the front *)
(* of its path, and the try statement in its new phase.                    *)
LandsAs(S, fs, j, n, phase, v) ==
  \E k \in 0..(Len(fs[j].path) - 1), d \in TryType, g \in FrameType(S) :
    /\ d.phase = phase /\ d.value = v /\ d.class = fs[j].handlers[n].class /\ d.locals = <<>>
    /\ g.slots = fs[j].slots /\ g.path = Append(SubSeq(fs[j].path, 1, k), d)
    /\ Landing(fs, j, n, phase, v) = Append(SubSeq(fs, 1, j - 1), g)

(* the frame that an exception lands in: it goes back to a try statement   *)
LEMMA LandingIs ==
  ASSUME NEW S, NEW fs \in Seq(FrameType(S)), NEW j \in 1..Len(fs), Half(fs[j], FALSE),
         NEW n \in 1..Len(fs[j].handlers),
         NEW phase \in {"landed", "raised"}, NEW v \in Value
  PROVE  LandsAs(S, fs, j, n, phase, v)
<1>1. PICK f, has, h : f = fs[j] /\ has = f.handlers /\ h = has[n]
  OBVIOUS
<1>2. f \in FrameType(S) /\ has \in Seq(Handler) /\ h \in Handler /\ f.path \in Seq(Construct)
      /\ h.path \in Seq(Construct) /\ n \in 1..Len(has) /\ Len(has) \in Nat
  <2>1. f \in FrameType(S)
    BY <1>1
  <2>2. has \in Seq(Handler) /\ f.path \in Seq(Construct) /\ n \in 1..Len(has)
    BY <1>1, <2>1 DEF FrameType
  <2>3. h \in Handler
    BY <1>1, <2>2
  <2> QED
    BY <2>1, <2>2, <2>3 DEF Handler
<1>3. Pushed(h) /\ Around(h, f.path)
  BY <1>1, <1>2 DEF Half, Rooted, Exact
<1>4. PICK k, p, c, d, q : /\ k = Len(h.path) - 1 /\ p = Front(h.path) /\ c = Last(h.path)
                           /\ d = [c EXCEPT !.phase = phase, !.value = v] /\ q = Append(p, d)
  OBVIOUS
<1>5. h.path # <<>> /\ c \in TryType /\ c.class = h.class /\ c.locals = <<>>
  BY <1>3, <1>4 DEF Pushed, Last
<1>6. d \in TryType /\ d.class = h.class /\ d.phase = phase /\ d.value = v /\ d.locals = <<>>
  BY <1>4, <1>5 DEF TryType, Phases
<1>7. /\ p \in Seq(Construct) /\ Len(p) = k /\ k \in Nat /\ k + 1 = Len(h.path)
      /\ \A i \in 1..k : p[i] = h.path[i]
  <2>1. /\ Front(h.path) \in Seq(Construct) /\ Len(Front(h.path)) = Len(h.path) - 1
        /\ Len(h.path) \in Nat /\ Len(h.path) >= 1
        /\ \A i \in 1..(Len(h.path) - 1) : Front(h.path)[i] = h.path[i]
    BY <1>2, <1>5, FrontFacts
  <2> QED
    BY <1>4, <2>1
<1>8. k + 1 \in 1..Len(f.path) /\ k \in 0..Len(f.path) /\ k \in 0..(Len(f.path) - 1)
  <2>1. k + 1 \in Installed(f.path)
    BY <1>3, <1>7 DEF Around
  <2>2. k + 1 \in 1..Len(f.path) /\ Len(f.path) \in Nat
    BY <1>2, <2>1, InstalledIs
  <2> QED
    BY <1>7, <2>2
<1>9. SubSeq(f.path, 1, k) = p
  <2>1. PICK u : u = SubSeq(f.path, 1, k)
    OBVIOUS
  <2>2. u \in Seq(Construct) /\ Len(u) = k /\ \A i \in 1..k : u[i] = f.path[i]
    BY <1>2, <1>8, <2>1, PrefixFacts
  <2>3. \A i \in 1..k : h.path[i] = f.path[i]
    BY <1>3, <1>4 DEF Around
  <2>4. \A i \in 1..Len(u) : u[i] = p[i]
    BY <1>7, <2>2, <2>3
  <2>5. u = p
    BY <1>7, <2>2, <2>4, Sames
  <2> QED
    BY <2>1, <2>5
<1>10. q \in Seq(Construct)
  BY <1>4, <1>6, <1>7, AppendFacts DEF Construct
<1>11. PICK has2 : has2 = SubSeq(has, 1, n)
  OBVIOUS
<1>12. has2 \in Seq(Handler)
  <2>1. n \in 0..Len(has)
    BY <1>2
  <2> QED
    BY <1>2, <1>11, <2>1, PrefixFacts
<1>13. PICK g : g = [f EXCEPT !.handlers = has2, !.path = q]
  OBVIOUS
<1>14. g \in FrameType(S) /\ g.slots = f.slots /\ g.path = q
  BY <1>2, <1>10, <1>12, <1>13 DEF FrameType
<1>15. Landing(fs, j, n, phase, v) = Append(SubSeq(fs, 1, j - 1), g)
  BY <1>1, <1>4, <1>11, <1>13 DEF Landing, InstalledAt
<1> QED
  BY <1>1, <1>4, <1>6, <1>8, <1>9, <1>14, <1>15 DEF LandsAs

(* the stack st and the frames fs when an exception v is on top, and the   *)
(* frames hold what is below it *)
Flying(st, fs, v, X) ==
  /\ Throwing(fs, FALSE) /\ Covered(st, fs, Len(st) + 1, X)
  /\ Len(st) >= 1 /\ st[Len(st)] = v
  /\ \A j \in 1..Len(fs) : /\ fs[j].slots + Len(Content(fs[j].path)) <= Len(st)
                           /\ ~HasLanded(fs[j].path)

(* what landing leaves on the stack *)
Landed(st, v, c, phase) ==
  \/ phase = "landed" /\ stack' = st /\ v = Instance(c) /\ status' = "running"
  \/ phase = "raised" /\ stack' = Append(st, Flag(TRUE))

LEMMA LandedStack ==
  ASSUME NEW st \in Seq(Value), NEW v \in Value, Len(st) >= 1, st[Len(st)] = v,
         NEW c, NEW phase, Landed(st, v, c, phase),
         NEW h, h = IF phase = "landed" THEN <<v>> ELSE <<v, Flag(TRUE)>>
  PROVE  /\ stack' \in Seq(Value) /\ Len(h) \in Nat /\ Len(stack') + 1 = Len(st) + Len(h)
         /\ Same(st, stack', Len(st)) /\ LastIs(stack', h) /\ Len(st) \in Nat
<1>1. PICK w, z, n : w = Flag(TRUE) /\ z = stack' /\ n = Len(st)
  OBVIOUS
<1>a. Flag(TRUE) \in Value
  BY FlagValues
<1>b. n \in Nat /\ n >= 1 /\ st[n] = v
  BY <1>1
<1>2. w \in Value /\ n \in Nat /\ n >= 1 /\ st[n] = v
  BY <1>1, <1>a, <1>b, Zenon
<1>3. CASE phase = "landed"
  <2>1. z = st /\ h = <<v>> /\ Len(h) = 1 /\ h[1] = v
    BY <1>1, <1>3 DEF Landed
  <2>2. ASSUME NEW i \in 1..Len(h) PROVE z[Len(z) - Len(h) + i] = h[i]
    <3>1. i = 1 /\ Len(z) - Len(h) + i = n
      BY <1>1, <1>2, <2>1, <2>2
    <3> QED
      BY <1>2, <2>1, <3>1
  <2>3. Same(st, z, n) /\ LastIs(z, h)
    BY <2>1, <2>2 DEF Same, LastIs
  <2> QED
    BY <1>1, <1>2, <2>1, <2>3
<1>4. CASE phase # "landed"
  <2>1. z = Append(st, w) /\ h = <<v, w>> /\ Len(h) = 2 /\ h[1] = v /\ h[2] = w
    BY <1>1, <1>4 DEF Landed
  <2>2. z \in Seq(Value) /\ Len(z) = n + 1 /\ z[n + 1] = w /\ \A i \in 1..n : z[i] = st[i]
    <3>1. /\ Append(st, w) \in Seq(Value) /\ Len(Append(st, w)) = Len(st) + 1
          /\ Append(st, w)[Len(st) + 1] = w /\ \A i \in 1..Len(st) : Append(st, w)[i] = st[i]
      BY <1>2, AppendFacts
    <3> QED
      BY <1>1, <2>1, <3>1
  <2>3. ASSUME NEW i \in 1..Len(h) PROVE z[Len(z) - Len(h) + i] = h[i]
    <3>1. i = 1 \/ i = 2
      BY <2>1
    <3>2. i = 1 => Len(z) - Len(h) + i = n
      BY <1>2, <2>1, <2>2
    <3>3. i = 2 => Len(z) - Len(h) + i = n + 1
      BY <1>2, <2>1, <2>2
    <3>4. n \in 1..n
      BY <1>2
    <3> QED
      BY <1>2, <2>1, <2>2, <3>1, <3>2, <3>3, <3>4
  <2>4. Same(st, z, n) /\ LastIs(z, h)
    BY <2>2, <2>3 DEF Same, LastIs
  <2>5. Len(z) + 1 = n + Len(h)
    BY <1>2, <2>1, <2>2
  <2>6. z \in Seq(Value) /\ Len(h) \in Nat
    BY <2>1, <2>2
  <2> QED
    BY <1>1, <1>2, <2>4, <2>5, <2>6
<1> QED
  BY <1>3, <1>4

LEMMA LandingCovers ==
  ASSUME NEW X, Snug(stack', frames', X), NEW st, NEW fs, NEW v, Flying(st, fs, v, X),
         NEW S, fs \in Seq(FrameType(S)), NEW j \in 1..Len(fs),
         NEW n \in 1..Len(fs[j].handlers), NEW phase \in {"landed", "raised"},
         frames' = Landing(fs, j, n, phase, v), Landed(st, v, fs[j].handlers[n].class, phase)
  PROVE  Covers(X)
<1>1. PICK f, p, s, top, b, t : /\ f = fs[j] /\ p = f.path /\ s = f.slots /\ t = stack'
                                /\ top = Above(fs, j, Len(st) + 1) /\ b = Len(st)
  OBVIOUS
<1>2. /\ Covered(st, fs, Len(st) + 1, X) /\ st \in Seq(Value) /\ b \in Nat /\ b >= 1 /\ st[b] = v
      /\ Len(fs) \in Nat /\ s + Len(Content(p)) <= b /\ b \in 1..Len(st)
  <2>1. Covered(st, fs, Len(st) + 1, X) /\ st \in Seq(Value) /\ Len(st) >= 1 /\ st[Len(st)] = v
    BY DEF Flying, Covered
  <2>2. fs[j].slots + Len(Content(fs[j].path)) <= Len(st)
    BY DEF Flying
  <2> QED
    BY <1>1, <2>1, <2>2
<1>3. v \in Value
  BY <1>2
<1>4. Half(f, FALSE)
  <2>1. j = Len(fs) \/ j \in 1..(Len(fs) - 1)
    BY <1>2
  <2> QED
    BY <1>1, <2>1 DEF Flying, Throwing, Whole
<1>5. PICK k \in 0..(Len(p) - 1), d \in TryType, g \in FrameType(S) :
           /\ d.phase = phase /\ d.value = v /\ d.class = fs[j].handlers[n].class /\ d.locals = <<>>
           /\ g.slots = s /\ g.path = Append(SubSeq(p, 1, k), d)
           /\ Landing(fs, j, n, phase, v) = Append(SubSeq(fs, 1, j - 1), g)
  <2>1. Half(fs[j], FALSE)
    BY <1>1, <1>4
  <2>2. LandsAs(S, fs, j, n, phase, v)
    BY <1>3, <2>1, LandingIs
  <2> QED
    BY <1>1, <2>2 DEF LandsAs
<1>6. PICK r, q, h : /\ r = SubSeq(p, 1, k) /\ q = g.path
                     /\ h = IF phase = "landed" THEN <<v>> ELSE <<v, Flag(TRUE)>>
  OBVIOUS
<1>7. /\ t \in Seq(Value) /\ Len(h) \in Nat /\ Len(t) + 1 = b + Len(h) /\ Same(st, t, b)
      /\ LastIs(t, h)
  <2>1. Len(st) >= 1 /\ st[Len(st)] = v
    BY <1>1, <1>2
  <2>2. /\ stack' \in Seq(Value) /\ Len(h) \in Nat /\ Len(stack') + 1 = Len(st) + Len(h)
        /\ Same(st, stack', Len(st)) /\ LastIs(stack', h)
    BY <1>2, <1>3, <1>6, <2>1, LandedStack
  <2> QED
    BY <1>1, <2>2
<1>8. /\ Stands(st, f, top, j \in X) /\ top \in Nat /\ s \in Nat /\ 1 <= s
      /\ p \in Seq(Construct) /\ Tidy(p)
  <2>1. Stands(st, f, top, j \in X)
    BY <1>1, <1>2 DEF Covered
  <2>2. top \in Nat
    BY <1>1, <1>2, Rising
  <2> QED
    BY <1>1, <2>1, <2>2 DEF Stands
<1>9. k \in 0..Len(p) /\ k < Len(p) /\ k \in Nat
  <2>1. Len(p) \in Nat
    BY <1>8
  <2> QED
    BY <1>5, <2>1
<1>10. r \in Seq(Construct) /\ Len(r) = k /\ Settled(r) /\ Len(Content(r)) \in Nat
  BY <1>6, <1>8, <1>9, SettledPrefix, ContentLen
<1>11. Len(Content(r)) <= Len(Content(p))
  <2>1. Ahead(r, p)
    BY <1>6, <1>8, <1>9, PrefixAhead
  <2> QED
    BY <2>1 DEF Ahead, Begins
<1>12. PICK a : a = Len(Content(r))
  OBVIOUS
<1>13. a \in Nat /\ s + a <= b
  <2>1. Len(Content(p)) \in Nat
    BY <1>8, ContentLen
  <2> QED
    BY <1>2, <1>8, <1>10, <1>11, <1>12, <2>1
<1>14. d \in Construct /\ d.kind = "try" /\ q = Append(r, d)
  BY <1>5, <1>6 DEF Construct, TryType
<1>15. /\ q \in Seq(Construct) /\ Len(q) = k + 1 /\ q[k + 1] = d /\ \A i \in 1..k : q[i] = r[i]
       /\ k + 1 \in 1..Len(q)
  <2>1. /\ Append(r, d) \in Seq(Construct) /\ Len(Append(r, d)) = Len(r) + 1
        /\ Append(r, d)[Len(r) + 1] = d /\ \A i \in 1..Len(r) : Append(r, d)[i] = r[i]
    BY <1>10, <1>14, AppendFacts
  <2>2. q \in Seq(Construct) /\ Len(q) = k + 1 /\ q[k + 1] = d /\ \A i \in 1..k : q[i] = r[i]
    BY <1>10, <1>14, <2>1
  <2> QED
    BY <1>9, <2>2
<1>16. h = Holds(q, k + 1)
  BY <1>5, <1>6, <1>14, <1>15 DEF Holds
<1>17. Len(Content(q)) = a + Len(h)
  <2>1. Content(q) = Content(r) \o Holds(q, Len(q))
    <3>1. Len(q) = Len(r) + 1 /\ \A i \in 1..Len(r) : q[i] = r[i]
      BY <1>10, <1>15
    <3> QED
      BY <1>10, <1>15, <3>1, ContentNext
  <2>2. Holds(q, Len(q)) = h
    BY <1>15, <1>16
  <2>3. PICK u : u = Content(r)
    OBVIOUS
  <2>4. u \in Seq(Value) /\ Content(q) = u \o h /\ h \in Seq(Value)
    BY <1>10, <1>15, <2>1, <2>2, <2>3, ContentTyped, HoldsTyped
  <2>5. Len(u \o h) = Len(u) + Len(h)
    BY <2>4
  <2> QED
    BY <1>12, <2>3, <2>4, <2>5
<1>18. frames' = Append(SubSeq(fs, 1, j - 1), g)
  BY <1>5
<1>19. /\ Len(frames') = j /\ frames'[j] = g /\ j \in 1..Len(frames')
       /\ \A i \in 1..(j - 1) : frames'[i] = fs[i]
  <2>1. PICK us : us = SubSeq(fs, 1, j - 1)
    OBVIOUS
  <2>2. j - 1 \in 0..Len(fs) /\ j \in Nat /\ j >= 1
    BY <1>2
  <2>3. us \in Seq(FrameType(S)) /\ Len(us) = j - 1 /\ \A i \in 1..(j - 1) : us[i] = fs[i]
    BY <2>1, <2>2, PrefixFacts
  <2>4. /\ Len(Append(us, g)) = Len(us) + 1 /\ Append(us, g)[Len(us) + 1] = g
        /\ \A i \in 1..Len(us) : Append(us, g)[i] = us[i]
    BY <2>3, AppendFacts
  <2>5. Len(us) + 1 = j /\ frames' = Append(us, g)
    BY <1>18, <2>1, <2>2, <2>3
  <2>6. Len(frames') = j /\ frames'[j] = g /\ \A i \in 1..(j - 1) : frames'[i] = fs[i]
    BY <2>3, <2>4, <2>5
  <2> QED
    BY <2>2, <2>6
<1>20. j \in X \/ OnTop(t, s, r, h)
  <2>1. SUFFICES ASSUME j \notin X PROVE OnTop(t, s, r, h)
    OBVIOUS
  <2>2. ~Loose(g, Len(t) + 1)
    <3>1. ~Loose(frames'[j], Above(frames', j, Len(stack') + 1))
      BY <1>19, <2>1 DEF Snug
    <3>2. Above(frames', j, Len(stack') + 1) = Len(stack') + 1
      BY <1>19 DEF Above
    <3> QED
      BY <1>1, <1>19, <3>1, <3>2
  <2>3. PICK e, u, w : e = Len(t) + 1 /\ u = g.slots /\ w = Len(Content(g.path))
    OBVIOUS
  <2>4. ~(e - u > w)
    BY <2>2, <2>3 DEF Loose
  <2>5. u = s /\ w = a + Len(h) /\ e = b + Len(h)
    BY <1>5, <1>6, <1>7, <1>17, <2>3
  <2>6. b <= s + a
    BY <1>2, <1>7, <1>8, <1>13, <2>4, <2>5
  <2>7. PICK l, m : l = Len(h) /\ m = Len(t)
    OBVIOUS
  <2>8. l \in Nat /\ m \in Nat /\ m + 1 = b + l
    BY <1>7, <2>7
  <2>9. s + a + l <= m + 1 /\ m + 1 <= s + a + l
    BY <1>2, <1>8, <1>13, <2>6, <2>8
  <2>10. /\ s + Len(Content(r)) + Len(h) <= Len(t) + 1 /\ Len(t) + 1 <= s + Len(Content(r)) + Len(h)
         /\ Len(t) \in Nat
    BY <1>12, <2>7, <2>8, <2>9
  <2> QED
    BY <1>7, <1>8, <1>10, <2>10, SnugTop
<1>21. Stands(t, g, Len(t) + 1, j \in X)
  <2>1. /\ d.kind = "try" => ~NamedAt(d) /\ Len(d.locals) = 0
        /\ d.kind = "try" /\ d.phase = "leaving" => 0 = 1
    BY <1>5 DEF NamedAt
  <2>2. Len(t) + 1 \in Nat /\ s + Len(Content(r)) + Len(h) + 0 <= Len(t) + 1 /\ s + Len(Content(r)) <= b + 1
    <3>1. PICK l, m : l = Len(h) /\ m = Len(t)
      OBVIOUS
    <3>2. l \in Nat /\ m \in Nat /\ m + 1 = b + l
      BY <1>7, <3>1
    <3>3. m + 1 \in Nat /\ s + a + l + 0 <= m + 1 /\ s + a <= b + 1
      BY <1>2, <1>8, <1>13, <3>2
    <3> QED
      BY <1>12, <3>1, <3>3
  <2>3. /\ g.slots = f.slots /\ g.path = Append(r, d) /\ h = Holds(g.path, k + 1)
        /\ r = SubSeq(f.path, 1, k) /\ k \in 0..Len(f.path) /\ k < Len(f.path)
    BY <1>1, <1>5, <1>6, <1>9, <1>14, <1>16
  <2>4. /\ f.slots + Len(Content(r)) + Len(h) + 0 <= Len(t) + 1 /\ f.slots + Len(Content(r)) <= b + 1
        /\ j \in X \/ OnTop(t, f.slots, r, h)
    BY <1>1, <1>20, <2>2
  <2>5. PICK x : x = (j \in X)
    OBVIOUS
  <2>6. Stands(st, f, top, x) /\ (x \/ OnTop(t, f.slots, r, h))
    BY <1>8, <2>4, <2>5
  <2>7. 0 \in {0, 1}
    OBVIOUS
  <2>8. Stands(t, g, Len(t) + 1, x)
    BY <1>2, <1>7, <1>8, <1>14, <2>1, <2>2, <2>3, <2>4, <2>6, <2>7, StandsNext
  <2> QED
    BY <2>5, <2>8
<1>22. Covered(t, Append(SubSeq(fs, 1, j - 1), g), Len(t) + 1, X)
  <2>1. g.slots = fs[j].slots /\ g.slots <= b + 1
    BY <1>1, <1>2, <1>5, <1>8, <1>13
  <2> QED
    BY <1>2, <1>7, <1>21, <2>1, CutCovers
<1>23. Lands(stack', frames', status')
  <2>1. ASSUME NEW i \in 1..Len(frames'), HasLanded(frames'[i].path)
        PROVE  /\ i = Len(frames') /\ status' = "running"
               /\ stack'[Len(stack')] = frames'[i].path[Len(frames'[i].path)].value
               /\ frames'[i].path[Len(frames'[i].path)].value
                    = Instance(frames'[i].path[Len(frames'[i].path)].class)
    <3>1. i = j
      <4>1. SUFFICES ASSUME i # j PROVE FALSE
        OBVIOUS
      <4>2. i \in 1..(j - 1) /\ i \in 1..Len(fs)
        BY <1>2, <1>19, <4>1
      <4>3. ~HasLanded(fs[i].path)
        BY <4>2 DEF Flying
      <4> QED
        BY <1>19, <2>1, <4>2, <4>3
    <3>2. frames'[i].path = q /\ HasLanded(q)
      BY <1>6, <1>19, <2>1, <3>1
    <3>3. phase = "landed"
      <4>1. PICK l \in 1..Len(q) : q[l].kind = "try" /\ q[l].phase = "landed"
        BY <3>2 DEF HasLanded
      <4>2. l # k + 1 => l \in 1..k
        BY <1>9, <1>15
      <4>3. l = k + 1
        BY <1>10, <1>15, <4>1, <4>2 DEF Settled, Over
      <4> QED
        BY <1>5, <1>15, <4>1, <4>3
    <3>4. stack' = st /\ v = Instance(fs[j].handlers[n].class) /\ status' = "running"
      BY <3>3 DEF Landed
    <3>5. q[Len(q)].value = v /\ q[Len(q)].class = fs[j].handlers[n].class
      BY <1>5, <1>15
    <3> QED
      BY <1>1, <1>2, <1>19, <3>1, <3>2, <3>4, <3>5
  <2> QED
    BY <2>1 DEF Lands
<1> QED
  BY <1>1, <1>18, <1>22, <1>23 DEF Covers

LEMMA PropagateCovers ==
  ASSUME NEW X, Snug(stack', frames', X), NEW st, NEW fs, NEW v, Flying(st, fs, v, X),
         status = "running", Propagate(fs, v, st)
  PROVE  Covers(X)
<1>1. PICK S : fs \in Seq(FrameType(S))
  BY DEF Flying, Throwing
<1>2. /\ st \in Seq(Value) /\ Covered(st, fs, Len(st) + 1, X) /\ Len(fs) \in Nat /\ MaxHandlers \in Nat
  <2>1. st \in Seq(Value) /\ Covered(st, fs, Len(st) + 1, X)
    BY DEF Flying, Covered
  <2> QED
    BY <1>1, <2>1, ExceptionsAssumption
<1>3. CASE v \notin {Instance(c) : c \in Class}
  <2>1. stack' = st /\ frames' = Left(fs)
    BY <1>3 DEF Propagate
  <2>2. Covered(st, Left(fs), Len(st) + 1, X)
    BY <1>1, <1>2, CoveredLeft
  <2>3. Lands(st, Left(fs), status')
    <3>1. PICK L : L = Left(fs)
      OBVIOUS
    <3>2. Len(L) = Len(fs) /\ \A j \in 1..Len(fs) : L[j] = [fs[j] EXCEPT !.left = TRUE]
      BY <1>2, <3>1 DEF Left
    <3>3. \A j \in 1..Len(fs) : L[j].path = fs[j].path
      <4>1. ASSUME NEW j \in 1..Len(fs) PROVE L[j].path = fs[j].path
        <5>1. fs[j] \in FrameType(S)
          BY <1>1
        <5>2. [fs[j] EXCEPT !.left = TRUE].path = fs[j].path
          BY <5>1 DEF FrameType
        <5> QED
          BY <3>2, <5>2
      <4> QED
        BY <4>1
    <3>4. \A j \in 1..Len(L) : ~HasLanded(L[j].path)
      BY <3>2, <3>3 DEF Flying
    <3> QED
      BY <3>1, <3>4 DEF Lands
  <2> QED
    BY <2>1, <2>2, <2>3 DEF Covers
<1>4. CASE v \in {Instance(c) : c \in Class} /\ Takers(fs, v) = {}
  <2>1. stack' = st /\ frames' = <<>>
    BY <1>4 DEF Propagate
  <2> QED
    BY <1>2, <2>1, NoneCovers
<1>5. CASE v \in {Instance(c) : c \in Class} /\ Takers(fs, v) # {}
  <2>1. PICK t : t = Innermost(Takers(fs, v))
    OBVIOUS
  <2>2. PICK h : h = fs[t[1]].handlers[t[2]]
    OBVIOUS
  <2>3. t \in Takers(fs, v)
    <3>1. Takers(fs, v) \subseteq (1..Len(fs)) \X (1..MaxHandlers)
      BY DEF Takers
    <3> QED
      BY <1>2, <1>5, <2>1, <3>1, InnermostIs
  <2>4. t[1] \in 1..Len(fs) /\ t[2] \in 1..Len(fs[t[1]].handlers)
    <3>1. t \in (1..Len(fs)) \X (1..MaxHandlers) /\ t[2] <= Len(fs[t[1]].handlers)
      BY <2>3 DEF Takers
    <3>2. t[1] \in 1..Len(fs) /\ t[2] \in 1..MaxHandlers
      BY <3>1
    <3>3. fs[t[1]].handlers \in Seq(Handler)
      <4>1. fs[t[1]] \in FrameType(S)
        BY <1>1, <3>2
      <4> QED
        BY <4>1 DEF FrameType
    <3> QED
      BY <1>2, <3>1, <3>2, <3>3
  <2>5. CASE stack' = <<>> /\ frames' = <<>>
    BY <2>5, EmptyCovers
  <2>6. CASE ~(stack' = <<>> /\ frames' = <<>>)
    <3>1. PICK phase \in {"landed", "raised"} :
            /\ frames' = Landing(fs, t[1], t[2], phase, v)
            /\ Landed(st, v, h.class, phase)
      <4>1. /\ v = Instance(h.class) => h.catch
            /\ v = Instance(h.class) => /\ stack' = st /\ status' = status
                                        /\ frames' = Landing(fs, t[1], t[2], "landed", v)
            /\ v # Instance(h.class) => /\ stack' = Append(st, Flag(TRUE))
                                        /\ frames' = Landing(fs, t[1], t[2], "raised", v)
        BY <1>5, <2>1, <2>2, <2>6 DEF Propagate, Stray
      <4> QED
        BY <4>1 DEF Landed
    <3> QED
      BY <1>1, <2>2, <2>4, <3>1, LandingCovers
  <2> QED
    BY <2>5, <2>6
<1> QED
  BY <1>3, <1>4, <1>5

(* the frames below the one that runs end below the top of the stack, too  *)
LEMMA RunningHolds ==
  ASSUME Ready, Running, NEW j \in 1..Len(frames)
  PROVE  frames[j].slots + Len(Content(frames[j].path)) <= Len(stack) + 1
<1>1. /\ Covered(stack, frames, Len(stack) + 1, shifted) /\ Len(stack) \in Nat
  BY ReadyFacts DEF Running
<1>2. PICK f, top, a, b : /\ f = frames[j] /\ top = Above(frames, j, Len(stack) + 1)
                          /\ a = Len(Content(f.path)) /\ b = Needs(f.path)
  OBVIOUS
<1>3. Stands(stack, f, top, j \in shifted)
  BY <1>1, <1>2 DEF Covered
<1>4. top \in Nat /\ top <= Len(stack) + 1 /\ f.slots \in Nat
  BY <1>1, <1>2, Rising
<1>5. a \in Nat /\ b \in Nat /\ a <= b
  BY <1>2, <1>3, NeedsFacts DEF Stands
<1>6. f.slots + b <= top
  BY <1>2, <1>3 DEF Stands
<1>7. f.slots + a <= Len(stack) + 1
  BY <1>1, <1>4, <1>5, <1>6
<1> QED
  BY <1>2, <1>7

LEMMA ThrowFlies ==
  ASSUME Ready, NEW X, Kind(X), NEW v, Throw(v), v \in Thrown
  PROVE  /\ status = "running" /\ Flying(Append(stack, v), frames, v, X)
         /\ Propagate(frames, v, Append(stack, v))
<1>1. status = "running" /\ Running /\ Propagate(frames, v, Append(stack, v))
  BY DEF Throw, Running
<1>2. PICK st : st = Append(stack, v)
  OBVIOUS
<1>3. stack \in Seq(Value) /\ v \in Value /\ Len(stack) \in Nat
  BY <1>1, ReadyFacts DEF Value
<1>4. st \in Seq(Value) /\ Len(st) = Len(stack) + 1 /\ st[Len(st)] = v /\ Same(stack, st, Len(stack))
  <2>1. /\ st \in Seq(Value) /\ Len(st) = Len(stack) + 1 /\ st[Len(stack) + 1] = v
        /\ \A i \in 1..Len(stack) : st[i] = stack[i]
    BY <1>2, <1>3, AppendFacts
  <2> QED
    BY <2>1 DEF Same
<1>5. Throwing(frames, FALSE)
  <2>1. HInv /\ misled = FALSE
    BY DEF Ready, HInv
  <2>2. /\ Len(frames) \in Nat /\ Len(frames) >= 1 /\ frames # <<>> /\ Good(frames, FALSE)
        /\ \E S : frames \in Seq(FrameType(S))
    BY <1>1, <2>1, TopFacts
  <2>3. Len(frames) \in 1..Len(frames) /\ \A j \in 1..(Len(frames) - 1) : j \in 1..Len(frames)
    BY <2>2
  <2> QED
    BY <2>2, <2>3 DEF Throwing, Good, Whole
<1>6. Covered(st, frames, Len(st) + 1, X)
  <2>1. Covered(stack, frames, Len(stack) + 1, shifted)
    BY <1>1, ReadyFacts
  <2>2. Covered(stack, frames, Len(stack) + 1, X)
    BY <2>1, CoveredWeaker DEF Kind
  <2>3. /\ Len(stack) + 1 <= Len(stack) + 1 /\ Len(st) + 1 \in Nat /\ Len(stack) + 1 <= Len(st) + 1
        /\ Len(st) + 1 <= Len(st) + 1
    BY <1>3, <1>4
  <2> QED
    BY <1>3, <1>4, <2>2, <2>3, CoveredStack
<1>7. Flying(st, frames, v, X)
  <2>1. \A j \in 1..Len(frames) : frames[j].slots + Len(Content(frames[j].path)) <= Len(st)
    BY <1>1, <1>4, RunningHolds
  <2>2. \A j \in 1..Len(frames) : ~HasLanded(frames[j].path)
    BY <1>1, RunningFacts
  <2>3. Len(st) >= 1
    BY <1>3, <1>4
  <2> QED
    BY <1>4, <1>5, <1>6, <2>1, <2>2, <2>3 DEF Flying
<1> QED
  BY <1>1, <1>2, <1>7

LEMMA ThrowCovers ==
  ASSUME Ready, NEW X, Kind(X), NEW v, Throw(v), v \in Thrown
  PROVE  Covers(X)
BY ThrowFlies, PropagateCovers DEF Kind

(* No local is declared behind a finally block that runs. *)
Free(p) ==
  \A k, i \in 1..Len(p) :
    p[k].kind = "try" /\ p[k].phase \in {"finally", "raised"} /\ k < i => p[i].locals = <<>>

(* frames with the same locals in the same slots *)
Alike(fs, gs) ==
  /\ Len(gs) = Len(fs) /\ (fs = <<>> <=> gs = <<>>)
  /\ \A j \in 1..Len(fs) : gs[j].slots = fs[j].slots /\ Flags(gs[j].path) = Flags(fs[j].path)

(* the frames in which Reraise throws *)
Aflight(fs, X) ==
  /\ status = "running" /\ Flying(Front(stack), fs, stack[Len(stack) - 1], X)
  /\ Propagate(fs, stack[Len(stack) - 1], Front(stack))
  /\ Alike(frames, fs) /\ \A j \in 1..Len(frames) : Free(frames[j].path) => Free(fs[j].path)

LEMMA ReraiseFlies ==
  ASSUME Ready, NEW X, Kind(X), Reraise, ~In("finally"),
         ~(stack' = <<>> /\ frames' = <<>> /\ open' = {})
  PROVE  \E fs : Aflight(fs, X)
<1>1. /\ status = "running" /\ Running /\ F.path # <<>> /\ Top.kind = "try" /\ Top.phase = "raised"
  BY DEF Reraise, InTry, In, Running
<1>2. PICK fs : ReraisedIn(fs, FALSE)
  <2>1. HInv /\ misled = FALSE
    BY DEF Ready, HInv
  <2>2. \E fs : ReraisedIn(fs, FALSE)
    BY <2>1, ReraiseIs
  <2> QED
    BY <2>2
<1>5. PICK p, L, m, st, v, r, d : /\ p = F.path /\ L = Len(frames) /\ m = Len(p) /\ st = Front(stack)
                                  /\ v = stack[Len(stack) - 1] /\ r = SubSeq(p, 1, m - 1)
                                  /\ d = [Top EXCEPT !.phase = "leaving"]
  OBVIOUS
<1>6. Propagate(fs, v, st) /\ Throwing(fs, FALSE)
  BY <1>2, <1>5 DEF ReraisedIn
<1>b. PICK S : \E g \in FrameType(S) : /\ fs = [frames EXCEPT ![L] = g] /\ g.slots = F.slots
                                        /\ g.path = [p EXCEPT ![m] = d]
  BY <1>2, <1>5 DEF ReraisedIn
<1>7. PICK g \in FrameType(S) : /\ fs = [frames EXCEPT ![L] = g] /\ g.slots = F.slots
                                /\ g.path = [p EXCEPT ![m] = d]
  BY <1>b
<1>8. /\ stack \in Seq(Value) /\ Len(stack) \in Nat /\ L \in Nat /\ L >= 1 /\ L \in 1..Len(frames)
      /\ F = frames[L] /\ Covered(stack, frames, Len(stack) + 1, shifted)
      /\ Stands(stack, F, Len(stack) + 1, L \in shifted)
      /\ F.slots \in Nat /\ 1 <= F.slots /\ p \in Seq(Construct) /\ Tidy(p) /\ m \in Nat
      /\ F.slots + Len(Content(p)) <= Len(stack) + 1
  BY <1>1, <1>5, ReadyFacts
<1>9. /\ m \in 1..m /\ m - 1 \in 0..Len(p) /\ m - 1 < Len(p) /\ m >= 1 /\ p[m] = Top /\ p[m] \in TryType
      /\ Len(Content(p)) = Len(Content(r)) + Len(Holds(p, m)) /\ Len(Content(r)) \in Nat
  <2>1. HInv
    BY DEF Ready
  <2>2. p[m] \in TryType /\ Top = p[m]
    BY <1>1, <1>5, <2>1, TopIsTry
  <2>3. /\ Front(p) = SubSeq(p, 1, Len(p) - 1) /\ Len(p) - 1 \in 0..Len(p) /\ Len(p) - 1 < Len(p)
        /\ Len(p) \in 1..Len(p)
        /\ Len(Content(p)) = Len(Content(Front(p))) + Len(Holds(p, Len(p)))
        /\ Len(Content(Front(p))) \in Nat
    BY <1>1, <1>5, <1>8, FrontContent
  <2> QED
    BY <1>5, <2>2, <2>3
<1>10. Len(Holds(p, m)) = 2
  <2>1. Holds(p, m) = <<p[m].value, Flag(TRUE)>>
    BY <1>1, <1>9 DEF Holds
  <2> QED
    BY <2>1
<1>11. PICK s, a, b : s = F.slots /\ a = Len(Content(r)) /\ b = Len(stack) - 1
  OBVIOUS
<1>12. /\ s \in Nat /\ 1 <= s /\ a \in Nat /\ 1 <= a /\ b \in Nat /\ s + a <= b /\ b >= 1
       /\ Len(stack) = b + 1
  <2>1. r \in Seq(Construct) /\ Tidy(r)
    BY <1>5, <1>8, <1>9, SettledPrefix
  <2>2. 1 <= a
    BY <1>11, <2>1, NeedsFacts
  <2>3. s \in Nat /\ 1 <= s /\ a \in Nat /\ s + (a + 2) <= Len(stack) + 1
    BY <1>8, <1>9, <1>10, <1>11
  <2> QED
    BY SMTT(30), <1>8, <1>11, <2>2, <2>3
<1>13. /\ st \in Seq(Value) /\ Len(st) = b /\ st[Len(st)] = v /\ Same(stack, st, b)
  <2>1. stack # <<>>
    BY <1>8, <1>12
  <2>2. /\ st \in Seq(Value) /\ Len(st) = Len(stack) - 1
        /\ \A i \in 1..(Len(stack) - 1) : st[i] = stack[i]
    BY <1>5, <1>8, <2>1, FrontFacts
  <2>3. Len(st) = b /\ \A i \in 1..b : st[i] = stack[i]
    BY <1>11, <2>2
  <2>4. b \in 1..b
    BY <1>12
  <2> QED
    BY <1>5, <1>11, <2>2, <2>3, <2>4 DEF Same
<1>14. d \in TryType /\ d.phase = "leaving" /\ d.kind = "try" /\ d.locals = p[m].locals /\ d \in Construct
  BY <1>5, <1>9 DEF TryType, Phases, Construct
<1>15. ~NamedAt(d) /\ Len(d.locals) = 0
  <2>1. p[m].kind = "try" /\ p[m].phase = "raised"
    BY <1>1, <1>9
  <2>2. Len(p[m].locals) = 0
    BY <1>5, <1>8, <1>9, <2>1 DEF Tidy
  <2> QED
    BY <1>14, <2>2 DEF NamedAt
<1>16. g.path = Append(r, d)
  <2>1. Len(p) >= 1
    BY <1>5, <1>9
  <2> QED
    BY SMTT(30), <1>5, <1>7, <1>8, <1>14, <2>1, TopReplaced
<1>17. PICK q : q = g.path
  OBVIOUS
<1>18. q \in Seq(Construct) /\ Len(q) = m /\ q[m] = d
  <2>1. r \in Seq(Construct) /\ Len(r) = m - 1
    BY <1>5, <1>8, <1>9, SettledPrefix
  <2>2. /\ Append(r, d) \in Seq(Construct) /\ Len(Append(r, d)) = Len(r) + 1
        /\ Append(r, d)[Len(r) + 1] = d
    BY <1>14, <2>1, AppendFacts
  <2>3. Len(r) + 1 = m
    BY <1>9, <2>1
  <2> QED
    BY <1>16, <1>17, <2>2, <2>3
<1>19. Holds(q, m) = <<>>
  BY <1>14, <1>18 DEF Holds
<1>20. PICK x : x = (L \in X)
  OBVIOUS
<1>21. Stands(stack, F, Len(stack) + 1, x)
  <2>1. \A j \in 1..Len(frames) : j \in shifted => j \in X
    BY DEF Kind
  <2>2. Covered(stack, frames, Len(stack) + 1, shifted) /\ F = frames[L] /\ L \in 1..Len(frames)
    BY <1>8
  <2>3. Covered(stack, frames, Len(stack) + 1, X)
    BY <2>1, <2>2, CoveredWeaker
  <2>4. Above(frames, L, Len(stack) + 1) = Len(stack) + 1
    BY <1>5 DEF Above
  <2>5. Stands(stack, F, Len(stack) + 1, L \in X)
    BY <2>2, <2>3, <2>4 DEF Covered
  <2> QED
    BY <1>20, <2>5
<1>22. Stands(st, g, b + 1, x)
  <2>1. PICK k, h, n, top2 : k = m - 1 /\ h = <<>> /\ n = b /\ top2 = b + 1
    OBVIOUS
  <2>2. h = Holds(g.path, k + 1)
    <3>1. k + 1 = m
      BY <1>9, <2>1
    <3> QED
      BY <1>17, <1>19, <2>1, <3>1
  <2>3. /\ k \in 0..Len(F.path) /\ k < Len(F.path) /\ r = SubSeq(F.path, 1, k)
    BY <1>5, <1>9, <2>1
  <2>4. Len(h) = 0 /\ OnTop(st, F.slots, r, h)
    BY <2>1 DEF OnTop
  <2>5. /\ n \in Nat /\ top2 \in Nat /\ Same(stack, st, n) /\ F.slots + Len(Content(r)) <= n + 1
        /\ F.slots + Len(Content(r)) + Len(h) + 1 <= top2
    <3>1. n \in Nat /\ top2 \in Nat /\ s + a <= n + 1 /\ s + a + 0 + 1 <= top2
      BY <1>12, <2>1
    <3> QED
      BY <1>11, <1>13, <2>1, <2>4, <3>1
  <2>6. /\ d.kind = "try" => ~NamedAt(d) /\ Len(d.locals) = 0
        /\ d.kind = "try" /\ d.phase = "leaving" => 1 = 1
        /\ 1 \in {0, 1} /\ Len(stack) + 1 \in Nat /\ g.slots = F.slots /\ g.path = Append(r, d)
    <3>1. Len(stack) + 1 \in Nat
      BY <1>8
    <3>2. g.slots = F.slots
      BY <1>7
    <3> QED
      BY <1>15, <1>16, <3>1, <3>2
  <2>7. Stands(st, g, top2, x)
    BY <1>14, <1>21, <2>2, <2>3, <2>4, <2>5, <2>6, StandsNext
  <2> QED
    BY <2>1, <2>7
<1>23. PICK T : frames \in Seq(FrameType(T))
  BY <1>1, TopFacts DEF Ready
<1>24. PICK R : R = S \cup T
  OBVIOUS
<1>25. frames \in Seq(FrameType(R)) /\ g \in FrameType(R)
  <2>1. FrameType(S) \subseteq FrameType(R) /\ FrameType(T) \subseteq FrameType(R)
    BY <1>24 DEF FrameType
  <2> QED
    BY <1>7, <1>23, <2>1, SeqGrows
<1>26. fs = Append(SubSeq(frames, 1, L - 1), g)
  <2>1. Len(frames) >= 1
    BY <1>5, <1>8
  <2>2. [frames EXCEPT ![Len(frames)] = g] = Append(SubSeq(frames, 1, Len(frames) - 1), g)
    BY <1>25, <2>1, TopReplaced
  <2>3. fs = [frames EXCEPT ![L] = g]
    BY <1>7
  <2> QED
    BY <1>5, <2>2, <2>3
<1>27. /\ Len(fs) = L /\ fs[L] = g /\ \A j \in 1..L : j # L => fs[j] = frames[j]
  BY <1>5, <1>7, <1>8, <1>25, LastReplaced
<1>28. Covered(st, fs, Len(st) + 1, X)
  <2>1. \A j \in 1..Len(frames) : j \in shifted => j \in X
    BY DEF Kind
  <2>2. Covered(stack, frames, Len(stack) + 1, X)
    BY <1>8, <2>1, CoveredWeaker
  <2>3. g.slots = frames[L].slots /\ b \in Nat /\ g.slots <= b + 1
    BY <1>7, <1>8, <1>11, <1>12
  <2>4. Stands(st, g, Len(st) + 1, L \in X)
    BY <1>13, <1>20, <1>22
  <2>5. Covered(st, Append(SubSeq(frames, 1, L - 1), g), Len(st) + 1, X)
    BY <1>8, <1>13, <2>2, <2>3, <2>4, CutCovers
  <2> QED
    BY <1>26, <2>5
<1>29. ASSUME NEW j \in 1..Len(fs)
       PROVE  fs[j].slots + Len(Content(fs[j].path)) <= Len(st) /\ ~HasLanded(fs[j].path)
  <2>1. CASE j = L
    <3>1. Tidy(q)
      BY <1>17, <1>22 DEF Stands
    <3>2. ~HasLanded(q)
      BY <1>14, <1>18, <3>1 DEF HasLanded, Tidy
    <3>3. Len(Content(q)) = a
      <4>1. r \in Seq(Construct) /\ Len(r) = m - 1
        BY <1>5, <1>8, <1>9, SettledPrefix
      <4>2. Len(q) = Len(r) + 1 /\ \A i \in 1..Len(r) : q[i] = r[i]
        <5>1. /\ Len(Append(r, d)) = Len(r) + 1 /\ \A i \in 1..Len(r) : Append(r, d)[i] = r[i]
          BY <1>14, <4>1, AppendFacts
        <5> QED
          BY <1>16, <1>17, <5>1
      <4>3. Content(q) = Content(r) \o Holds(q, Len(q))
        BY <1>18, <4>1, <4>2, ContentNext
      <4>4. PICK u : u = Content(r)
        OBVIOUS
      <4>5. u \in Seq(Value) /\ Content(q) = u \o <<>>
        BY <1>18, <1>19, <4>1, <4>3, <4>4, ContentTyped
      <4>6. u \o <<>> = u
        BY <4>5
      <4> QED
        BY <1>11, <4>4, <4>5, <4>6
    <3>4. fs[j].slots = s /\ fs[j].path = q
      BY <1>7, <1>11, <1>17, <1>27, <2>1
    <3> QED
      BY <1>12, <1>13, <3>2, <3>3, <3>4
  <2>2. CASE j # L
    <3>1. j \in 1..(L - 1) /\ j + 1 \in 1..Len(fs) /\ j # Len(fs)
      BY <1>8, <1>27, <2>2
    <3>2. PICK f, e, c, w : /\ f = fs[j] /\ e = fs[j + 1].slots /\ c = Len(Content(f.path))
                            /\ w = Needs(f.path)
      OBVIOUS
    <3>3. e \in Nat /\ e <= Len(st)
      <4>1. PICK k, top : k = j + 1 /\ top = Len(st) + 1
        OBVIOUS
      <4>2. Covered(st, fs, top, X) /\ k \in 1..Len(fs)
        BY <1>28, <3>1, <4>1
      <4>3. PICK y : y = Above(fs, k, top)
        OBVIOUS
      <4>4. y \in Nat /\ e \in Nat /\ e < y /\ y <= top
        BY <3>2, <4>1, <4>2, <4>3, Rising
      <4> QED
        BY <1>12, <1>13, <4>1, <4>4
    <3>4. Stands(st, f, e, j \in X)
      BY <1>28, <3>1, <3>2 DEF Covered, Above
    <3>5. f.slots \in Nat /\ f.path \in Seq(Construct) /\ Tidy(f.path) /\ f.slots + w <= e
      BY <3>2, <3>4 DEF Stands
    <3>6. w \in Nat /\ c \in Nat /\ c <= w
      BY <3>2, <3>5, NeedsFacts
    <3>7. f.slots + c <= Len(st)
      BY <1>12, <1>13, <3>3, <3>5, <3>6
    <3>8. ~HasLanded(f.path)
      BY <1>1, <1>5, <1>8, <1>27, <2>2, <3>2, RunningFacts
    <3> QED
      BY <3>2, <3>7, <3>8
  <2> QED
    BY <2>1, <2>2
<1>30. Flying(st, fs, v, X)
  BY <1>6, <1>12, <1>13, <1>28, <1>29 DEF Flying
<1>31. r \in Seq(Construct) /\ Len(r) = m - 1 /\ \A i \in 1..(m - 1) : r[i] = p[i]
  BY SMTT(30), <1>5, <1>8, <1>9, SettledPrefix
<1>32. Len(q) = m /\ q[m] = d /\ \A i \in 1..(m - 1) : q[i] = p[i]
  <2>1. \A i \in 1..Len(r) : Append(r, d)[i] = r[i]
    BY <1>14, <1>31, AppendFacts
  <2> QED
    BY <1>16, <1>17, <1>18, <1>31, <2>1
<1>33. Flags(q) = Flags(p)
  <2>1. Len(p) = Len(r) + 1 /\ Len(q) = Len(r) + 1
    BY <1>5, <1>9, <1>31, <1>32
  <2>2. (\A i \in 1..Len(r) : p[i] = r[i]) /\ \A i \in 1..Len(r) : q[i] = r[i]
    BY <1>31, <1>32
  <2>3. Flags(q) = Flags(r) \o q[Len(q)].locals /\ Flags(p) = Flags(r) \o p[Len(p)].locals
    BY <1>8, <1>18, <1>31, <2>1, <2>2, FlagsNext
  <2>4. q[Len(q)].locals = d.locals
    BY <1>32
  <2>5. p[Len(p)].locals = d.locals
    BY <1>5, <1>14
  <2> QED
    BY <2>3, <2>4, <2>5
<1>34. Alike(frames, fs)
  <2>1. frames # <<>> /\ fs # <<>>
    BY <1>5, <1>8, <1>27
  <2>2. \A j \in 1..L : fs[j].slots = frames[j].slots /\ Flags(fs[j].path) = Flags(frames[j].path)
    BY <1>5, <1>7, <1>8, <1>17, <1>27, <1>33
  <2> QED
    BY <1>5, <1>27, <2>1, <2>2 DEF Alike
<1>35. ASSUME NEW j \in 1..L, Free(frames[j].path) PROVE Free(fs[j].path)
  <2>1. CASE j # L
    BY <1>27, <1>35, <2>1
  <2>2. CASE j = L
    <3>1. Free(p)
      BY <1>5, <1>8, <1>35, <2>2
    <3>2. ASSUME NEW k \in 1..m, NEW i \in 1..m, q[k].kind = "try",
                 q[k].phase \in {"finally", "raised"}, k < i
          PROVE  q[i].locals = <<>>
      <4>1. k \in 1..(m - 1)
        BY <1>9, <3>2
      <4>2. q[i].locals = p[i].locals
        <5>1. CASE i = m
          BY <1>14, <1>32, <5>1
        <5>2. CASE i # m
          <6>1. i \in 1..(m - 1)
            BY <1>9, <5>2
          <6> QED
            BY <1>32, <6>1
        <5> QED
          BY <5>1, <5>2
      <4>3. p[k].kind = "try" /\ p[k].phase \in {"finally", "raised"}
        BY <1>32, <3>2, <4>1
      <4> QED
        BY <1>5, <3>1, <3>2, <4>2, <4>3 DEF Free
    <3>3. Free(q)
      BY <1>32, <3>2 DEF Free
    <3> QED
      BY <1>17, <1>27, <2>2, <3>3
  <2> QED
    BY <2>1, <2>2
<1> QED
  BY <1>1, <1>5, <1>6, <1>30, <1>34, <1>35 DEF Aflight

LEMMA ReraiseCovers ==
  ASSUME Ready, NEW X, Kind(X), Reraise, ~In("finally")
  PROVE  Covers(X)
<1>1. CASE stack' = <<>> /\ frames' = <<>>
  BY <1>1, EmptyCovers
<1>2. CASE ~(stack' = <<>> /\ frames' = <<>>)
  <2>1. PICK fs : Aflight(fs, X)
    BY <1>2, ReraiseFlies
  <2>2. PICK st, v : st = Front(stack) /\ v = stack[Len(stack) - 1]
    OBVIOUS
  <2>3. Flying(st, fs, v, X) /\ Propagate(fs, v, st) /\ status = "running"
    BY <2>1, <2>2 DEF Aflight
  <2> QED
    BY <2>3, PropagateCovers DEF Kind
<1> QED
  BY <1>1, <1>2

-----------------------------------------------------------------------------
(* Every step keeps them *)

LEMMA StepCovers ==
  ASSUME ~Leaving, Ready, NEW X, Kind(X), Next, ~Misreads
  PROVE  Covers(X)
<1>1. CASE Statements
  <2>1. ASSUME NEW captured \in BOOLEAN, DeclareLocal(captured) PROVE Covers(X)
    BY <2>1, DeclareLocalCovers
  <2>2. ASSUME NEW again \in BOOLEAN, LeaveLoop(again) PROVE Covers(X)
    BY <2>2, LeaveLoopCovers
  <2>3. CASE BeginBlock \/ BeginLoop
    BY <2>3, BeginBlockCovers
  <2>4. CASE EndBlock
    BY <2>4, EndBlockCovers
  <2>5. CASE EndLoop
    BY <2>5, EndLoopCovers
  <2> QED
    BY <1>1, <2>1, <2>2, <2>3, <2>4, <2>5 DEF Statements
<1>2. CASE TryStatements
  <2>1. ASSUME NEW c \in Class, NEW kind \in Kinds, BeginTry(c, kind) PROVE Covers(X)
    BY <2>1, BeginTryCovers
  <2>2. ASSUME NEW captured \in BOOLEAN, EnterCatch(captured) PROVE Covers(X)
    BY <2>2, EnterCatchCovers
  <2>3. ASSUME NEW v \in Thrown, Throw(v) PROVE Covers(X)
    BY <2>3, ThrowCovers
  <2>4. CASE EndTry
    BY <2>4, EndTryCovers
  <2>5. CASE EndCatch
    BY <2>5, EndCatchCovers
  <2>6. CASE EndFinally
    <3>1. ~In("raised")
      BY <2>6 DEF Misreads
    <3> QED
      BY <2>6, <3>1, EndFinallyCovers
  <2>7. CASE Reraise
    <3>1. ~In("finally")
      BY <2>7 DEF Misreads
    <3> QED
      BY <2>7, <3>1, ReraiseCovers
  <2>8. CASE Resume
    <3>1. ~In("raised")
      BY <2>8 DEF Resume, In
    <3> QED
      BY <2>8, <3>1, EndFinallyCovers
  <2> QED
    BY <1>2, <2>1, <2>2, <2>3, <2>4, <2>5, <2>6, <2>7, <2>8 DEF TryStatements
<1>3. CASE Calls
  <2>1. CASE NewLine \/ Call
    BY <2>1, CallCovers
  <2>2. CASE Return
    BY <2>2, ReturnCovers
  <2>3. CASE RuntimeError
    BY <2>3, EmptyCovers DEF RuntimeError, ResetStack
  <2> QED
    BY <1>3, <2>1, <2>2, <2>3 DEF Calls
<1> QED
  BY <1>1, <1>2, <1>3 DEF Next

(* where no frame is shifted, the flag on top is the one of the block that *)
(* ends                                                                    *)
LEMMA MisreadShifted ==
  ASSUME Ready, Misreads
  PROVE  0 \in shifted
<1>1. /\ status = "running" /\ F.path # <<>> /\ Top.kind = "try"
      /\ \/ Top.phase = "raised" /\ Falsey(Last(stack))
         \/ Top.phase = "finally" /\ ~Falsey(Last(stack))
  BY DEF Misreads, EndFinally, Reraise, InTry, In, Running
<1>2. Len(frames) \in shifted
  <2>1. SUFFICES ASSUME Len(frames) \notin shifted PROVE FALSE
    OBVIOUS
  <2>2. PICK h : h = Holds(F.path, Len(F.path))
    OBVIOUS
  <2>3. LastIs(stack, h) /\ Len(stack) \in Nat /\ Top = F.path[Len(F.path)]
    BY <1>1, <2>1, <2>2, HeldOnTop, ReadyFacts, TopIs
  <2>4. CASE Top.phase = "raised"
    <3>1. h = <<Top.value, Flag(TRUE)>>
      BY <1>1, <2>2, <2>3, <2>4 DEF Holds
    <3>2. Len(h) = 2 /\ h[2] = Flag(TRUE) /\ 2 \in 1..2
      BY <3>1
    <3>3. stack[Len(stack) - 2 + 2] = Flag(TRUE)
      BY <2>3, <3>2 DEF LastIs
    <3>4. Len(stack) - 2 + 2 = Len(stack)
      BY <2>3
    <3>5. Last(stack) = Flag(TRUE)
      BY <3>3, <3>4 DEF Last
    <3>6. Flag(TRUE) # Flag(FALSE)
      BY DEF Flag
    <3> QED
      BY <1>1, <2>4, <3>5, <3>6 DEF Falsey
  <2>5. CASE Top.phase = "finally"
    <3>1. h = <<Flag(FALSE)>>
      BY <1>1, <2>2, <2>3, <2>5 DEF Holds
    <3>2. Len(h) = 1 /\ h[1] = Flag(FALSE) /\ 1 \in 1..1
      BY <3>1
    <3>3. stack[Len(stack) - 1 + 1] = Flag(FALSE)
      BY <2>3, <3>2 DEF LastIs
    <3>4. Len(stack) - 1 + 1 = Len(stack)
      BY <2>3
    <3>5. Last(stack) = Flag(FALSE)
      BY <3>3, <3>4 DEF Last
    <3> QED
      BY <1>1, <2>5, <3>5 DEF Falsey
  <2> QED
    BY <1>1, <2>4, <2>5
<1> QED
  BY <1>2 DEF Ready, CInv

LooseShifts ==
  \A j \in 1..Len(frames) : Shifts(j) <=> Loose(frames[j], Above(frames, j, Len(stack) + 1))

LEMMA ShiftsIsLoose == LooseShifts
  BY DEF LooseShifts, Shifts, Loose, Height, Above

LEMMA CInvStep ==
  ASSUME ~Leaving, HInv, CInv, Next
  PROVE  CInv'
<1>1. HInv'
  BY NextStep
<1>2. Len(frames') \in Nat
  BY <1>1 DEF HInv, Good
<1>3. PICK kept, X : kept = (stack' # <<>> \/ frames' # <<>> \/ open' # {}) /\ X = shifted \cup shifted'
  OBVIOUS
<1>4. /\ shifted' = {j \in 0..Len(frames') :
                       \/ j \in shifted /\ kept
                       \/ \E i \in 1..Len(frames') : i \notin shifted /\ j \in {0, i} /\ Shifts(i)'}
      /\ misled' = (kept /\ (misled \/ Misreads))
  BY <1>3 DEF Next
<1>5. shifted' \subseteq 0..Len(frames') /\ (shifted' # {} => 0 \in shifted')
  <2>1. shifted # {} => 0 \in shifted
    BY DEF CInv
  <2>2. 0 \in 0..Len(frames')
    BY <1>2
  <2> QED
    BY <1>4, <2>1, <2>2
<1>6. misled' => 0 \in shifted'
  <2>1. SUFFICES ASSUME misled' PROVE 0 \in shifted'
    OBVIOUS
  <2>2. kept /\ (misled \/ Misreads)
    BY <1>4, <2>1
  <2>3. 0 \in shifted
    <3>1. CASE misled
      BY <3>1 DEF CInv
    <3>2. CASE ~misled
      BY <2>2, <3>2, MisreadShifted DEF Ready
    <3> QED
      BY <3>1, <3>2
  <2>4. 0 \in 0..Len(frames')
    BY <1>2
  <2> QED
    BY <1>4, <2>2, <2>3, <2>4
<1>7. ASSUME NEW j \in 1..Len(frames')
      PROVE  /\ j \in shifted => j \in shifted'
             /\ j \notin shifted' => ~Loose(frames'[j], Above(frames', j, Len(stack') + 1))
  <2>1. j \in 0..Len(frames') /\ kept
    <3>1. frames' # <<>>
      BY <1>2
    <3>2. kept
      BY <1>3, <3>1
    <3>3. j \in 0..Len(frames')
      BY <1>2
    <3> QED
      BY <3>2, <3>3
  <2>2. j \in shifted => j \in shifted'
    BY <1>4, <2>1
  <2>3. j \notin shifted' => ~Shifts(j)'
    BY <1>4, <2>1, <2>2
  <2>4. LooseShifts'
    BY ShiftsIsLoose, PTL
  <2> QED
    BY <2>2, <2>3, <2>4 DEF LooseShifts
<1>8. Snug(stack', frames', shifted') /\ Snug(stack', frames', X)
  BY <1>3, <1>7 DEF Snug
<1>9. ~misled' => /\ Covered(stack', frames', Len(stack') + 1, shifted')
                  /\ Lands(stack', frames', status')
  <2>1. SUFFICES ASSUME ~misled' PROVE Covers(shifted')
    BY DEF Covers
  <2>2. CASE ~kept
    BY <1>3, <2>2, EmptyCovers
  <2>3. CASE kept
    <3>1. ~misled /\ ~Misreads
      BY <1>4, <2>1, <2>3
    <3>2. Ready /\ Kind(X)
      BY <1>3, <1>8, <3>1 DEF Ready, Kind
    <3>3. Covers(X)
      BY <3>1, <3>2, StepCovers
    <3>4. \A j \in 1..Len(frames') : j \in X => j \in shifted'
      BY <1>3, <1>7
    <3> QED
      BY <3>3, <3>4, CoveredWeaker DEF Covers
  <2> QED
    BY <2>2, <2>3
<1> QED
  BY <1>5, <1>6, <1>8, <1>9 DEF CInv

-----------------------------------------------------------------------------
(* What a frame holds, as theorems *)

(* As long as every finally block ended by its own flag, the frames of     *)
(* vm.c hold on the stack what the code that compiler.c emitted counts on, *)
(* and the exception that landed is on top of the stack, for any number of *)
(* frames, handlers, constructs and exceptions.                            *)
THEOREM ContentInvariant == ASSUME ~Leaving PROVE Spec => [](HInv /\ CInv)
<1>1. Init => HInv /\ CInv
  <2>1. SUFFICES ASSUME Init PROVE HInv /\ CInv
    OBVIOUS
  <2>2. stack = <<>> /\ frames = <<>> /\ shifted = {} /\ ~misled /\ misled = FALSE /\ status = "prompt"
    BY <2>1 DEF Init
  <2>3. Good(<<>>, FALSE)
    BY GoodNone
  <2>4. HInv
    BY <2>2, <2>3 DEF HInv
  <2>5. Covered(<<>>, <<>>, Len(<<>>) + 1, {})
    BY DEF Covered
  <2>6. Lands(stack, frames, status) /\ Snug(stack, frames, shifted)
    BY <2>2 DEF Lands, Snug
  <2> QED
    BY <2>2, <2>4, <2>5, <2>6 DEF CInv
<1>2. HInv /\ CInv /\ [Next]_vars => (HInv /\ CInv)'
  <2>1. HInv /\ CInv /\ UNCHANGED vars => (HInv /\ CInv)'
    <3>1. SUFFICES ASSUME HInv, CInv, UNCHANGED vars PROVE (HInv /\ CInv)'
      OBVIOUS
    <3>2. /\ stack' = stack /\ frames' = frames /\ misled' = misled /\ status' = status
          /\ shifted' = shifted
      BY <3>1 DEF vars
    <3>3. HInv'
      BY <3>1, <3>2 DEF HInv, Good
    <3>4. CInv'
      BY <3>1, <3>2 DEF CInv, Covered, Lands, Snug
    <3> QED
      BY <3>3, <3>4
  <2> QED
    BY <2>1, NextStep, CInvStep
<1> QED
  BY <1>1, <1>2, PTL DEF Spec

(* A frame holds at least the values that its code counts on, so that no   *)
(* pop reaches a value of the frame below: an exception and what it leaves *)
(* on the stack make a frame higher, and never lower, than endScope and    *)
(* the jumps of vm.c expect, until a finally block has ended by a value    *)
(* that is not its flag.                                                   *)
THEOREM HeightsCover == ASSUME ~Leaving PROVE Spec => []HeightCovers
<1>1. HInv /\ CInv => HeightCovers
  <2>1. SUFFICES ASSUME HInv, CInv, ~misled, NEW j \in 1..Len(frames)
                 PROVE  Height(j) >= Len(Content(frames[j].path))
    BY DEF HeightCovers
  <2>2. Covered(stack, frames, Len(stack) + 1, shifted)
    BY <2>1 DEF CInv
  <2>3. PICK f, top : f = frames[j] /\ top = Above(frames, j, Len(stack) + 1)
    OBVIOUS
  <2>4. Stands(stack, f, top, j \in shifted) /\ top \in Nat
    BY <2>2, <2>3, Rising DEF Covered
  <2>5. f.slots \in Nat /\ f.path \in Seq(Construct) /\ Tidy(f.path) /\ f.slots + Needs(f.path) <= top
    BY <2>4 DEF Stands
  <2>6. PICK a, b : a = Len(Content(f.path)) /\ b = Needs(f.path)
    OBVIOUS
  <2>7. a \in Nat /\ b \in Nat /\ a <= b
    BY <2>5, <2>6, NeedsFacts
  <2>8. top - f.slots >= a
    BY <2>4, <2>5, <2>6, <2>7
  <2>9. Height(j) = top - f.slots
    BY <2>3 DEF Height, Above
  <2> QED
    BY <2>3, <2>6, <2>8, <2>9
<1> QED
  BY <1>1, ContentInvariant, PTL

(* Where the exception that a catch names is: OP_SET_LOCAL at its start    *)
(* wrote it to the slot that the compiler counts for the name, and until a *)
(* finally block has ended by a value that is not its flag, nothing that   *)
(* the catch does, calls or throws moves or replaces it; it is an instance *)
(* of the class of the catch.                                              *)
THEOREM NamesAreCaught == ASSUME ~Leaving PROVE Spec => []NameIsCaught
<1>1. HInv /\ CInv => NameIsCaught
  <2>1. SUFFICES ASSUME HInv, CInv, ~misled, NEW j \in 1..Len(frames),
                        NEW k \in 1..Len(frames[j].path),
                        frames[j].path[k].kind = "try", frames[j].path[k].named,
                        frames[j].path[k].phase = "catch"
                 PROVE  /\ stack[frames[j].slots + Counted(SubSeq(frames[j].path, 1, k - 1))]
                             = frames[j].path[k].value
                        /\ frames[j].path[k].value = Instance(frames[j].path[k].class)
    BY DEF NameIsCaught
  <2>2. Covered(stack, frames, Len(stack) + 1, shifted)
    BY <2>1 DEF CInv
  <2>3. PICK s, p, q : s = frames[j].slots /\ p = frames[j].path /\ q = SubSeq(p, 1, k - 1)
    OBVIOUS
  <2>4. p \in Seq(Construct) /\ Caught(stack, s, p)
    BY <2>2, <2>3 DEF Covered, Stands
  <2>5. NamedAt(p[k]) /\ k \in 1..Len(p)
    BY <2>1, <2>3 DEF NamedAt
  <2>6. stack[Place(s, p, k)] = p[k].value /\ p[k].value = Instance(p[k].class)
    BY <2>4, <2>5 DEF Caught
  <2>7. q \in Seq(Construct)
    <3>1. k - 1 \in 0..Len(p)
      BY <2>4, <2>5
    <3> QED
      BY <2>3, <2>4, <3>1, PrefixFacts
  <2>8. Place(s, p, k) = s + Counted(q)
    BY <2>3, <2>7, CountedIs DEF Place
  <2> QED
    BY <2>3, <2>6, <2>8
<1> QED
  BY <1>1, ContentInvariant, PTL

(* In a frame that is not shifted each value is where its code looks for   *)
(* it: a local in its slot, a finally block's flag on top and below it the *)
(* exception that it interrupted.  A finally block takes another value for *)
(* its flag only when a frame was shifted.                                 *)
THEOREM ContentsInPlace == ASSUME ~Leaving PROVE Spec => []ContentInPlace
<1>1. HInv /\ CInv => ContentInPlace
  <2>1. SUFFICES ASSUME HInv, CInv PROVE ContentInPlace
    OBVIOUS
  <2>2. misled => 0 \in shifted
    BY <2>1 DEF CInv
  <2>3. ASSUME ~misled, NEW j \in 1..Len(frames), j \notin shifted
        PROVE  SubSeq(stack, frames[j].slots, frames[j].slots + Height(j) - 1)
                 = Content(frames[j].path)
    <3>1. Covered(stack, frames, Len(stack) + 1, shifted) /\ stack \in Seq(Value) /\ Len(stack) \in Nat
      BY <2>1, <2>3 DEF CInv, Covered
    <3>2. PICK f, top, s, c : /\ f = frames[j] /\ top = Above(frames, j, Len(stack) + 1)
                              /\ s = f.slots /\ c = Content(f.path)
      OBVIOUS
    <3>3. Stands(stack, f, top, FALSE) /\ top \in Nat /\ top <= Len(stack) + 1
      <4>1. Stands(stack, f, top, j \in shifted) /\ top \in Nat /\ top <= Len(stack) + 1
        BY <3>1, <3>2, Rising DEF Covered
      <4> QED
        BY <2>3, <4>1 DEF Stands
    <3>4. /\ s \in Nat /\ 1 <= s /\ f.path \in Seq(Construct) /\ Tidy(f.path)
          /\ s + Needs(f.path) <= top /\ Placed(stack, s, f.path)
      BY <3>2, <3>3 DEF Stands
    <3>5. PICK a, b : a = Len(c) /\ b = Needs(f.path)
      OBVIOUS
    <3>6. a \in Nat /\ b \in Nat /\ a <= b /\ c \in Seq(Value)
      BY <3>2, <3>4, <3>5, NeedsFacts, ContentTyped
    <3>7. ~(top - s > a)
      BY <2>1, <2>3, <3>2, <3>5 DEF CInv, Snug, Loose
    <3>8. top - s = a
      <4>1. s + b <= top /\ top \in Nat /\ s \in Nat
        BY <3>3, <3>4, <3>5
      <4> QED
        BY <3>6, <3>7, <4>1
    <3>9. Height(j) = top - s
      BY <3>2 DEF Height, Above
    <3>10. PICK n, u : n = s + a - 1 /\ u = SubSeq(stack, s, n)
      OBVIOUS
    <3>11. n \in Nat /\ n <= Len(stack) /\ n - s + 1 = a /\ s <= n + 1
      BY <3>1, <3>3, <3>4, <3>6, <3>8, <3>10
    <3>12. u \in Seq(Value) /\ Len(u) = a /\ \A i \in 1..a : u[i] = stack[s + i - 1]
      <4>1. s \in 1..(Len(stack) + 1) /\ n \in (s - 1)..Len(stack)
        BY <3>1, <3>4, <3>11
      <4>2. u = [i \in 1..a |-> stack[s + i - 1]]
        BY <3>4, <3>10, <3>11 DEF SubSeq
      <4>3. \A i \in 1..a : stack[s + i - 1] \in Value
        <5>1. ASSUME NEW i \in 1..a PROVE stack[s + i - 1] \in Value
          <6>1. s + i - 1 \in 1..Len(stack)
            BY <3>1, <3>4, <3>6, <3>10, <3>11
          <6> QED
            BY <3>1, <6>1
        <5> QED
          BY <5>1
      <4> QED
        BY <3>6, <4>2, <4>3, SeqIs
    <3>13. \A i \in 1..Len(u) : u[i] = c[i]
      BY <3>2, <3>4, <3>5, <3>12 DEF Placed
    <3>14. u = c
      BY <3>5, <3>6, <3>12, <3>13, Sames
    <3>15. s + Height(j) - 1 = n
      BY <3>8, <3>9, <3>10
    <3> QED
      BY <3>2, <3>10, <3>14, <3>15
  <2> QED
    BY <2>2, <2>3 DEF ContentInPlace
<1> QED
  BY <1>1, ContentInvariant, PTL
-----------------------------------------------------------------------------
(* Open upvalues *)

(* slot u is that of a captured local of the frame f *)
Owned(f, u) ==
  \E n \in 1..Len(Flags(f.path)) : Flags(f.path)[n] = TRUE /\ u = f.slots + n - 1

(* Slot u is that of a captured local of one of the frames fs, or it lies  *)
(* below them, among the values that an earlier line left.                 *)
Owns(fs, top, u) ==
  \/ u < (IF fs = <<>> THEN top ELSE fs[1].slots)
  \/ \E j \in 1..Len(fs) : Owned(fs[j], u)

OInv == 0 \notin shifted => \A u \in open : u \in Nat /\ Owns(frames, Len(stack) + 1, u)

(* a step from one state without shifted frames into another *)
Even == /\ HInv /\ CInv /\ OInv /\ shifted = {} /\ ~misled
        /\ HInv' /\ CInv' /\ shifted' = {} /\ ~misled'
StillOwned == \A u \in open' : u \in Nat /\ Owns(frames', Len(stack') + 1, u)

LEMMA OwnedIs ==
  ASSUME NEW f, NEW u, Owned(f, u), f.slots \in Nat, f.path \in Seq(Construct), Tidy(f.path)
  PROVE  /\ u \in Nat /\ f.slots <= u /\ u < f.slots + Len(Flags(f.path))
         /\ u < f.slots + Len(Content(f.path))
<1>1. PICK s, a, b : s = f.slots /\ a = Len(Flags(f.path)) /\ b = Len(Content(f.path))
  OBVIOUS
<1>2. a \in Nat /\ b \in Nat /\ a <= b /\ s \in Nat
  BY <1>1, NeedsFacts
<1>3. PICK n \in 1..a : u = s + n - 1
  BY <1>1 DEF Owned
<1>4. u \in Nat /\ s <= u /\ u < s + a /\ u < s + b
  BY <1>2, <1>3
<1> QED
  BY <1>1, <1>4

LEMMA OwnedSame ==
  ASSUME NEW f, NEW g, g.slots = f.slots, Flags(g.path) = Flags(f.path), NEW u, Owned(f, u)
  PROVE  Owned(g, u)
BY DEF Owned

(* only the frame on top changes *)
LEMMA TopOwns ==
  ASSUME HInv, status = "running", NEW S, NEW g \in FrameType(S), g.slots = F.slots,
         frames' = [frames EXCEPT ![Len(frames)] = g],
         \A u \in open : u \in Nat /\ Owns(frames, Len(stack) + 1, u),
         \A u \in open' : \/ u \in open /\ (Owned(F, u) => Owned(g, u))
                          \/ u \in Nat /\ Owned(g, u)
  PROVE  StillOwned
<1>1. PICK L, fs, gs : L = Len(frames) /\ fs = frames /\ gs = frames'
  OBVIOUS
<1>2. L \in Nat /\ L >= 1 /\ fs # <<>> /\ F = fs[L]
  BY <1>1, TopFacts
<1>3. /\ Len(gs) = L /\ gs[L] = g /\ \A j \in 1..L : j # L => gs[j] = fs[j]
  BY <1>1, ReplacedTop
<1>4. gs # <<>> /\ gs[1].slots = fs[1].slots
  BY <1>2, <1>3
<1>5. SUFFICES ASSUME NEW u \in open' PROVE u \in Nat /\ Owns(gs, Len(stack') + 1, u)
  BY <1>1 DEF StillOwned
<1>6. CASE u \in Nat /\ Owned(g, u)
  BY <1>2, <1>3, <1>6 DEF Owns
<1>7. CASE u \in open /\ (Owned(F, u) => Owned(g, u))
  <2>1. u \in Nat /\ Owns(fs, Len(stack) + 1, u)
    BY <1>1, <1>7
  <2>2. CASE u < fs[1].slots
    BY <1>4, <2>1, <2>2 DEF Owns
  <2>3. ASSUME NEW j \in 1..Len(fs), Owned(fs[j], u) PROVE Owns(gs, Len(stack') + 1, u)
    <3>1. j \in 1..Len(gs) /\ Owned(gs[j], u)
      BY <1>1, <1>2, <1>3, <1>7, <2>3
    <3> QED
      BY <3>1 DEF Owns
  <2> QED
    BY <1>2, <2>1, <2>2, <2>3 DEF Owns
<1> QED
  BY <1>5, <1>6, <1>7

LEMMA EvenFacts ==
  ASSUME Even
  PROVE  /\ Ready /\ OInv /\ HInv /\ \A u \in open : u \in Nat /\ Owns(frames, Len(stack) + 1, u)
BY DEF Even, Ready, OInv

(* the height of the frame on top *)
LEMMA ExactHeight ==
  ASSUME HInv, CInv, ~misled, shifted = {}, status = "running"
  PROVE  Len(stack) + 1 = F.slots + Len(Content(F.path))
<1>1. Ready /\ Len(frames) \notin shifted
  BY DEF Ready
<1>2. PICK a, b, s : a = Len(stack) /\ b = Len(Content(F.path)) /\ s = F.slots
  OBVIOUS
<1>3. a \in Nat /\ b \in Nat /\ s \in Nat /\ s + b <= a + 1
  BY <1>1, <1>2, ReadyFacts
<1>4. a + 1 <= s + b
  BY <1>1, <1>2, InPlace
<1>5. a + 1 = s + b
  BY <1>3, <1>4
<1> QED
  BY <1>2, <1>5

(* and after a step that changes only that frame *)
LEMMA ExactAfter ==
  ASSUME Even, status = "running", status' = "running",
         NEW S, NEW g \in FrameType(S), frames' = [frames EXCEPT ![Len(frames)] = g]
  PROVE  Len(stack') + 1 = g.slots + Len(Content(g.path))
<1>1. (HInv /\ CInv /\ ~misled /\ shifted = {} /\ status = "running"
         => Len(stack) + 1 = F.slots + Len(Content(F.path)))'
  BY ExactHeight, PTL
<1>2. Len(stack') + 1 = F'.slots + Len(Content(F'.path))
  BY <1>1 DEF Even
<1>3. F' = g
  <2>1. Len(frames') = Len(frames) /\ frames'[Len(frames)] = g
    BY ReplacedTop DEF Even
  <2> QED
    BY <2>1 DEF F
<1> QED
  BY <1>2, <1>3

(* nothing is opened, and the locals stay *)
LEMMA FlagsStayOpen ==
  ASSUME Even, status = "running", NEW S, NEW g \in FrameType(S), g.slots = F.slots,
         frames' = [frames EXCEPT ![Len(frames)] = g], Flags(g.path) = Flags(F.path),
         \A u \in open' : u \in open
  PROVE  StillOwned
<1>1. \A u : Owned(F, u) => Owned(g, u)
  BY OwnedSame
<1> QED
  BY <1>1, EvenFacts, TopOwns

(* constructs without locals *)
LEMMA NoneBehind ==
  ASSUME NEW p \in Seq(Construct), NEW m \in 0..Len(p),
         \A k \in (m + 1)..Len(p) : p[k].locals = <<>>
  PROVE  Flags(SubSeq(p, 1, m)) = Flags(p)
<1>1. PICK l, r : l = Len(p) /\ r = Flags(SubSeq(p, 1, m))
  OBVIOUS
<1>2. l \in Nat /\ m \in Nat /\ m <= l
  BY <1>1
<1>3. PICK T : T = {n \in m..l : Flags(SubSeq(p, 1, n)) # r}
  OBVIOUS
<1>4. T = {}
  <2>1. SUFFICES ASSUME T # {} PROVE FALSE
    OBVIOUS
  <2>2. T \subseteq Nat
    BY <1>2, <1>3
  <2>3. PICK n \in T : \A i \in T : n <= i
    BY <2>1, <2>2, NaturalsHaveLeast
  <2>4. n \in m..l /\ Flags(SubSeq(p, 1, n)) # r
    BY <1>3, <2>3
  <2>5. n # m
    BY <1>1, <2>4
  <2>6. n \in (m + 1)..l /\ n - 1 \in m..l /\ n - 1 \in 0..l /\ n \in 0..l /\ ~(n <= n - 1)
    BY <1>2, <2>4, <2>5
  <2>7. Flags(SubSeq(p, 1, n - 1)) = r
    BY <1>3, <2>3, <2>6
  <2>8. PICK a, b : a = SubSeq(p, 1, n - 1) /\ b = SubSeq(p, 1, n)
    OBVIOUS
  <2>9. /\ a \in Seq(Construct) /\ Len(a) = n - 1 /\ \A i \in 1..(n - 1) : a[i] = p[i]
        /\ b \in Seq(Construct) /\ Len(b) = n /\ \A i \in 1..n : b[i] = p[i]
    BY <1>1, <2>6, <2>8, PrefixFacts
  <2>10. Len(b) = Len(a) + 1 /\ b[Len(b)] = p[n] /\ \A i \in 1..Len(a) : b[i] = a[i]
    BY <1>2, <2>6, <2>9
  <2>11. Flags(b) = Flags(a) \o b[Len(b)].locals
    BY <2>9, <2>10, FlagsNext
  <2>12. b[Len(b)].locals = <<>>
    BY <1>1, <2>6, <2>10
  <2>13. Flags(a) \o <<>> = Flags(a)
    BY <2>9, FlagsTyped
  <2> QED
    BY <2>4, <2>7, <2>8, <2>11, <2>12, <2>13
<1>5. l \in m..l
  BY <1>2
<1>6. Flags(SubSeq(p, 1, l)) = r
  BY <1>3, <1>4, <1>5
<1> QED
  BY <1>1, <1>6, SubSeqFull

(* in front of a local of an unshifted frame nothing but locals is counted *)
(* on                                                                      *)
LEMMA BareBelow ==
  ASSUME NEW p \in Seq(Construct), Tidy(p), NEW m \in 0..Len(p), NEW r, r = SubSeq(p, 1, m),
         \A k, i \in 1..Len(p) :
           p[k].kind = "try" /\ p[k].phase \in {"finally", "raised"} /\ k < i => p[i].locals = <<>>,
         Len(Flags(r)) < Len(Flags(p))
  PROVE  Len(Content(r)) = Len(Flags(r))
<1>1. Flags(r) # Flags(p)
  BY ContentLen
<1>2. m < Len(p)
  <2>1. m # Len(p)
    BY <1>1, SubSeqFull
  <2>2. Len(p) \in Nat /\ m \in 0..Len(p)
    OBVIOUS
  <2> QED
    BY <2>1, <2>2
<1>3. /\ r \in Seq(Construct) /\ Len(r) = m /\ Tidy(r) /\ Settled(r)
      /\ \A i \in 1..m : r[i] = p[i]
  BY <1>2, SettledPrefix
<1>4. PICK i \in (m + 1)..Len(p) : p[i].locals # <<>>
  BY <1>1, NoneBehind
<1>5. \A k \in 1..Len(r) : ~(r[k].kind = "try" /\ r[k].phase \in {"finally", "raised"})
  <2>1. SUFFICES ASSUME NEW k \in 1..m, r[k].kind = "try" /\ r[k].phase \in {"finally", "raised"}
                 PROVE  FALSE
    BY <1>3
  <2>2. k \in 1..Len(p) /\ i \in 1..Len(p) /\ k < i
    BY <1>2
  <2>3. p[k].kind = "try" /\ p[k].phase \in {"finally", "raised"}
    BY <1>3, <2>1
  <2> QED
    BY <1>4, <2>2, <2>3
<1> QED
  BY <1>3, <1>5, CountsHeld

(* The locals D are left: none of them stays open above the values that    *)
(* are counted on in front of them. *)
Shut(r, D) ==
  \A u \in open' :
    u \in open /\ \A i \in 1..Len(D) : D[i] = TRUE => u < F.slots + Len(Content(r)) - 1 + i

LEMMA CutOwns ==
  ASSUME Even, status = "running", NEW S, NEW g \in FrameType(S), g.slots = F.slots,
         frames' = [frames EXCEPT ![Len(frames)] = g],
         NEW m \in 0..Len(F.path), NEW r, r = SubSeq(F.path, 1, m), Flags(g.path) = Flags(r),
         NEW D \in Seq(BOOLEAN), Flags(F.path) = Flags(r) \o D, Shut(r, D)
  PROVE  StillOwned
<1>1. PICK p, s, a, b, d : /\ p = F.path /\ s = F.slots /\ a = Len(Flags(r)) /\ b = Len(Content(r))
                           /\ d = Len(D)
  OBVIOUS
<1>2. Ready /\ Len(frames) \notin shifted
  BY EvenFacts DEF Even
<1>3. p \in Seq(Construct) /\ Tidy(p) /\ s \in Nat /\ m \in 0..Len(p) /\ r = SubSeq(p, 1, m)
  BY <1>1, <1>2, ReadyFacts
<1>4. r \in Seq(Construct)
  BY SMTT(30), <1>3, PrefixFacts
<1>5. a \in Nat /\ b \in Nat /\ d \in Nat /\ Flags(r) \in Seq(BOOLEAN)
  <2>1. a \in Nat /\ b \in Nat
    BY <1>1, <1>4, ContentLen
  <2>2. d \in Nat
    BY <1>1
  <2> QED
    BY <1>4, <2>1, <2>2, FlagsTyped
<1>6. /\ Len(Flags(p)) = a + d /\ \A n \in 1..a : Flags(p)[n] = Flags(r)[n]
      /\ \A i \in 1..d : Flags(p)[a + i] = D[i]
  BY <1>1, <1>5
<1>7. \A k, i \in 1..Len(p) :
        p[k].kind = "try" /\ p[k].phase \in {"finally", "raised"} /\ k < i => p[i].locals = <<>>
  BY <1>1, <1>2, InPlace
<1>8. ASSUME NEW u \in open', Owned(F, u) PROVE Owned(g, u)
  <2>1. PICK n \in 1..(a + d) : Flags(p)[n] = TRUE /\ u = s + n - 1
    BY <1>1, <1>6, <1>8 DEF Owned
  <2>2. CASE n <= a
    <3>1. n \in 1..a /\ Flags(r)[n] = TRUE
      BY <1>5, <1>6, <2>1, <2>2
    <3> QED
      BY <1>1, <2>1, <3>1 DEF Owned
  <2>3. CASE n > a
    <3>1. PICK i : i = n - a
      OBVIOUS
    <3>2. i \in 1..d /\ a + i = n /\ a < a + d
      BY <1>5, <2>3, <3>1
    <3>3. D[i] = TRUE
      BY <1>6, <2>1, <3>2
    <3>4. u < s + b - 1 + i
      BY <1>1, <1>8, <3>2, <3>3 DEF Shut
    <3>5. Len(Flags(r)) < Len(Flags(p))
      BY <1>1, <1>6, <3>2
    <3>6. b = a
      BY <1>1, <1>3, <1>7, <3>5, BareBelow
    <3>7. FALSE
      BY <1>3, <1>5, <2>1, <3>2, <3>4, <3>6
    <3> QED
      BY <3>7
  <2> QED
    BY <1>5, <2>1, <2>2, <2>3
<1> QED
  BY <1>8, EvenFacts, TopOwns DEF Shut

LEMMA FrontFlags ==
  ASSUME NEW p \in Seq(Construct), p # <<>>
  PROVE  /\ Flags(p) = Flags(Front(p)) \o p[Len(p)].locals
         /\ p[Len(p)].locals \in Seq(BOOLEAN)
<1>1. PICK q : q = Front(p)
  OBVIOUS
<1>2. /\ q \in Seq(Construct) /\ Len(q) = Len(p) - 1 /\ Len(p) \in Nat /\ Len(p) >= 1
      /\ \A i \in 1..(Len(p) - 1) : q[i] = p[i]
  BY <1>1, FrontFacts
<1>3. Len(p) = Len(q) + 1 /\ (\A i \in 1..Len(q) : p[i] = q[i]) /\ Len(p) \in 1..Len(p)
  BY <1>2
<1>4. Flags(p) = Flags(q) \o p[Len(p)].locals
  BY <1>2, <1>3, FlagsNext
<1> QED
  BY <1>1, <1>3, <1>4, LocalsTyped

(* a construct ends, or another without locals takes its place *)
LEMMA FrontOwns ==
  ASSUME Even, status = "running", F.path # <<>>, NEW S, NEW g \in FrameType(S), g.slots = F.slots,
         frames' = [frames EXCEPT ![Len(frames)] = g], Flags(g.path) = Flags(Front(F.path)),
         Shut(Front(F.path), Top.locals)
  PROVE  StillOwned
<1>1. PICK p, r, D : p = F.path /\ r = Front(p) /\ D = Top.locals
  OBVIOUS
<1>2. Ready
  BY EvenFacts
<1>3. p \in Seq(Construct) /\ Top = p[Len(p)]
  BY <1>1, <1>2, ReadyFacts, TopIs
<1>4. r = SubSeq(p, 1, Len(p) - 1) /\ Len(p) - 1 \in 0..Len(p)
  BY <1>1, <1>3, FrontContent
<1>5. Flags(p) = Flags(r) \o D /\ D \in Seq(BOOLEAN)
  BY <1>1, <1>3, FrontFlags
<1>6. Shut(r, D)
  BY <1>1
<1>7. PICK m : m = Len(p) - 1
  OBVIOUS
<1>8. /\ m \in 0..Len(F.path) /\ r = SubSeq(F.path, 1, m)
      /\ Flags(g.path) = Flags(r) /\ Flags(F.path) = Flags(r) \o D /\ D \in Seq(BOOLEAN)
  BY <1>1, <1>4, <1>5, <1>7
<1> QED
  BY <1>6, <1>8, CutOwns

(* and has no locals *)
LEMMA BareOwns ==
  ASSUME Even, status = "running", F.path # <<>>, NEW S, NEW g \in FrameType(S), g.slots = F.slots,
         frames' = [frames EXCEPT ![Len(frames)] = g], Flags(g.path) = Flags(Front(F.path)),
         Len(Top.locals) = 0, \A u \in open' : u \in open
  PROVE  StillOwned
<1>1. Shut(Front(F.path), Top.locals)
  BY DEF Shut
<1> QED
  BY <1>1, FrontOwns

LEMMA TryHasNone ==
  ASSUME Ready, status = "running", F.path # <<>>, Top.kind = "try", Top.phase # "catch"
  PROVE  Len(Top.locals) = 0
<1>1. PICK p : p = F.path
  OBVIOUS
<1>2. p \in Seq(Construct) /\ Tidy(p) /\ Top = p[Len(p)] /\ Len(p) \in 1..Len(p)
  BY <1>1, ReadyFacts, TopIs
<1> QED
  BY <1>2 DEF Tidy

LEMMA EndBlockOwns ==
  ASSUME Even, EndBlock
  PROVE  StillOwned
<1>1. PICK p, n, b : p = F.path /\ n = Len(Top.locals) /\ b = Len(Content(Front(p)))
  OBVIOUS
<1>2. /\ status = "running" /\ p # <<>> /\ Top.kind = "block"
      /\ frames' = [frames EXCEPT ![Len(frames)].path = Front(p)]
      /\ open' = {u \in open : \A i \in 1..n : Top.locals[i] => u < Len(stack) - n + i}
  BY <1>1 DEF EndBlock, InBlock, Running, Drop, Goto
<1>3. Ready
  BY EvenFacts
<1>4. /\ p \in Seq(Construct) /\ Top \in Construct /\ Top = p[Len(p)] /\ b \in Nat
      /\ Len(Content(p)) = b + Len(Holds(p, Len(p))) /\ F.slots \in Nat /\ Len(stack) \in Nat
  BY <1>1, <1>2, <1>3, TopIs, ReadyFacts
<1>5. n \in Nat
  BY <1>1, <1>2, <1>4 DEF Construct, TryType
<1>6. Len(Holds(p, Len(p))) = n
  <2>1. Holds(p, Len(p)) = [i \in 1..n |-> LocalAt(Len(p), i)]
    BY <1>1, <1>2, <1>4 DEF Holds
  <2> QED
    BY <1>5, <2>1
<1>7. Len(stack) + 1 = F.slots + Len(Content(p))
  BY <1>1, <1>2, ExactHeight DEF Even
<1>8. \A i \in 1..n : Len(stack) - n + i = F.slots + b - 1 + i
  BY <1>4, <1>5, <1>6, <1>7
<1>9. \A u \in open' : u \in open /\ \A i \in 1..n : Top.locals[i] = TRUE => u < F.slots + b - 1 + i
  BY <1>2, <1>8
<1>10. Front(p) \in Seq(Construct)
  BY <1>2, <1>4, FrontContent
<1>11. PICK S : \E g \in FrameType(S) :
         g.slots = F.slots /\ g.path = Front(p) /\ frames' = [frames EXCEPT ![Len(frames)] = g]
  BY <1>2, <1>10, PathIs DEF Even
<1>12. PICK g \in FrameType(S) :
         g.slots = F.slots /\ g.path = Front(p) /\ frames' = [frames EXCEPT ![Len(frames)] = g]
  BY <1>11
<1>13. Flags(g.path) = Flags(Front(F.path))
  BY <1>1, <1>12
<1>14. Shut(Front(F.path), Top.locals)
  BY <1>1, <1>9 DEF Shut
<1> QED
  BY <1>1, <1>2, <1>12, <1>13, <1>14, FrontOwns

LEMMA EndLoopOwns ==
  ASSUME Even, EndLoop
  PROVE  StillOwned
<1>1. PICK p : p = F.path
  OBVIOUS
<1>2. /\ status = "running" /\ p # <<>> /\ Top.kind = "loop" /\ stack' = stack /\ open' = open
      /\ frames' = [frames EXCEPT ![Len(frames)].path = Front(p)] /\ status' = "running"
  BY <1>1 DEF EndLoop, Running, Goto
<1>3. Ready
  BY EvenFacts
<1>4. /\ p \in Seq(Construct) /\ Top \in Construct /\ Top = p[Len(p)]
      /\ Len(Content(Front(p))) \in Nat /\ Len(Holds(p, Len(p))) \in Nat
      /\ Len(Content(p)) = Len(Content(Front(p))) + Len(Holds(p, Len(p)))
      /\ F.slots \in Nat /\ Len(stack) \in Nat
  BY <1>1, <1>2, <1>3, TopIs, ReadyFacts
<1>5. Front(p) \in Seq(Construct)
  BY <1>2, <1>4, FrontContent
<1>6. PICK S : \E g \in FrameType(S) :
        g.slots = F.slots /\ g.path = Front(p) /\ frames' = [frames EXCEPT ![Len(frames)] = g]
  BY <1>2, <1>5, PathIs DEF Even
<1>7. PICK g \in FrameType(S) :
        g.slots = F.slots /\ g.path = Front(p) /\ frames' = [frames EXCEPT ![Len(frames)] = g]
  BY <1>6
<1>8. Len(Top.locals) = 0
  <2>1. PICK a, b, c, s, n : /\ a = Len(stack) /\ b = Len(Content(Front(p))) /\ c = Len(Holds(p, Len(p)))
                             /\ s = F.slots /\ n = Len(Top.locals)
    OBVIOUS
  <2>2. Len(stack) + 1 = F.slots + Len(Content(F.path))
    BY <1>2, ExactHeight DEF Even
  <2>3. Len(stack') + 1 = g.slots + Len(Content(g.path))
    BY <1>2, <1>7, ExactAfter
  <2>4. a + 1 = s + (b + c) /\ a + 1 = s + b
    BY <1>1, <1>2, <1>4, <1>7, <2>1, <2>2, <2>3
  <2>5. c = 0
    BY <1>4, <2>1, <2>4
  <2>6. n \in Nat
    BY <1>2, <1>4, <2>1 DEF Construct, TryType
  <2>7. Holds(p, Len(p)) = [i \in 1..n |-> LocalAt(Len(p), i)]
    BY <1>2, <1>4, <2>1 DEF Holds
  <2>8. c = n
    BY <2>1, <2>6, <2>7
  <2> QED
    BY <2>1, <2>5, <2>8
<1>9. Flags(g.path) = Flags(Front(F.path)) /\ F.path # <<>> /\ \A u \in open' : u \in open
  BY <1>1, <1>2, <1>7
<1> QED
  BY <1>2, <1>7, <1>8, <1>9, BareOwns

LEMMA EndFinallyOwns ==
  ASSUME Even, Resume \/ EndFinally
  PROVE  StillOwned
<1>1. /\ status = "running" /\ F.path # <<>> /\ Top.kind = "try" /\ Top.phase # "catch"
      /\ frames' = [frames EXCEPT ![Len(frames)].path = Front(F.path)] /\ open' = open
  BY DEF Resume, EndFinally, InTry, In, Running, Goto
<1>2. Ready
  BY EvenFacts
<1>3. Front(F.path) \in Seq(Construct)
  BY <1>1, <1>2, ReadyFacts, FrontContent
<1>4. PICK S : \E g \in FrameType(S) :
        g.slots = F.slots /\ g.path = Front(F.path) /\ frames' = [frames EXCEPT ![Len(frames)] = g]
  BY <1>1, <1>3, PathIs DEF Even
<1>5. PICK g \in FrameType(S) :
        g.slots = F.slots /\ g.path = Front(F.path) /\ frames' = [frames EXCEPT ![Len(frames)] = g]
  BY <1>4
<1>6. Len(Top.locals) = 0
  BY <1>1, <1>2, TryHasNone
<1>7. Flags(g.path) = Flags(Front(F.path)) /\ \A u \in open' : u \in open
  BY <1>1, <1>5
<1> QED
  BY <1>1, <1>5, <1>6, <1>7, BareOwns

LEMMA LoopLocals ==
  ASSUME NEW p \in Seq(Construct), NEW k \in 1..Len(p), p[k].kind = "loop"
  PROVE  LET r == SubSeq(p, 1, k - 1) q == SubSeq(p, 1, k) IN
         /\ Len(Content(q)) = Len(Content(r)) + Len(p[k].locals) /\ Len(p[k].locals) \in Nat
         /\ Len(Content(r)) \in Nat
         /\ Flags(q) = Flags(r) \o p[k].locals
<1>1. PICK q, r : q = SubSeq(p, 1, k) /\ r = SubSeq(p, 1, k - 1)
  OBVIOUS
<1>2. k \in 0..Len(p) /\ k - 1 \in 0..Len(p) /\ k \in Nat /\ k \in 1..k
  OBVIOUS
<1>3. /\ q \in Seq(Construct) /\ Len(q) = k /\ \A i \in 1..k : q[i] = p[i]
      /\ r \in Seq(Construct) /\ Len(r) = k - 1 /\ \A i \in 1..(k - 1) : r[i] = p[i]
  BY <1>1, <1>2, PrefixFacts
<1>4. Len(q) = Len(r) + 1 /\ q[Len(q)] = p[k] /\ \A i \in 1..Len(r) : q[i] = r[i]
  BY <1>2, <1>3
<1>5. Flags(q) = Flags(r) \o q[Len(q)].locals /\ Content(q) = Content(r) \o Holds(q, Len(q))
  BY <1>3, <1>4, FlagsNext, ContentNext
<1>6. p[k].locals \in Seq(BOOLEAN) /\ Len(p[k].locals) \in Nat
  BY LocalsTyped
<1>7. Holds(q, Len(q)) = [i \in 1..Len(p[k].locals) |-> LocalAt(Len(q), i)]
  BY <1>4 DEF Holds
<1>8. Len(Holds(q, Len(q))) = Len(p[k].locals)
  BY <1>6, <1>7
<1>9. Content(r) \in Seq(Value) /\ Holds(q, Len(q)) \in Seq(Value)
  <2>1. Len(q) \in 1..Len(q)
    BY <1>2, <1>3
  <2> QED
    BY <1>3, <2>1, ContentTyped, HoldsTyped
<1>10. Len(Content(q)) = Len(Content(r)) + Len(p[k].locals) /\ Len(Content(r)) \in Nat
  <2>1. PICK u, v : u = Content(r) /\ v = Holds(q, Len(q))
    OBVIOUS
  <2>2. u \in Seq(Value) /\ v \in Seq(Value) /\ Content(q) = u \o v /\ Len(v) = Len(p[k].locals)
    BY <1>5, <1>8, <1>9, <2>1
  <2>3. u \in Seq(Value) /\ v \in Seq(Value)
    BY <2>2
  <2>4. Len(u \o v) = Len(u) + Len(v) /\ Len(u) \in Nat
    BY <2>3
  <2> QED
    BY <2>1, <2>2, <2>4
<1> QED
  BY <1>1, <1>4, <1>5, <1>6, <1>10

LEMMA LeaveLoopOwns ==
  ASSUME Even, NEW again \in BOOLEAN, LeaveLoop(again)
  PROVE  StillOwned
<1>1. PICK k \in 1..Len(F.path) :
        /\ F.path[k].kind = "loop"
        /\ Drop(Dropped(F.path, k))
        /\ Goto(SubSeq(F.path, 1, IF again THEN k ELSE k - 1))
  BY DEF LeaveLoop, Dropped
<1>2. status = "running" /\ status' = "running"
  BY DEF LeaveLoop, Running
<1>3. PICK m, D, n, p, r : /\ m = (IF again THEN k ELSE k - 1) /\ D = Dropped(F.path, k) /\ n = Len(D)
                           /\ p = F.path /\ r = SubSeq(p, 1, m)
  OBVIOUS
<1>4. Ready
  BY EvenFacts
<1>5. /\ p \in Seq(Construct) /\ Tidy(p) /\ F.slots \in Nat /\ Len(stack) \in Nat /\ stack \in Seq(Value)
      /\ Len(Content(p)) \in Nat
  BY <1>2, <1>3, <1>4, ReadyFacts
<1>6. m \in {k, k - 1} /\ k \in 1..Len(p) /\ k \in {k, k - 1}
  BY <1>3
<1>7. /\ D \in Seq(BOOLEAN) /\ n \in Nat /\ m \in 0..Len(p) /\ k \in 0..Len(p)
      /\ Len(Content(r)) \in Nat /\ Len(Content(SubSeq(p, 1, k))) \in Nat
      /\ Len(Content(r)) + n <= Len(Content(p))
      /\ Len(Content(SubSeq(p, 1, k))) + n <= Len(Content(p))
  <2>1. /\ Dropped(p, k) \in Seq(BOOLEAN) /\ m \in 0..Len(p)
        /\ Len(Content(SubSeq(p, 1, m))) \in Nat
        /\ Len(Content(SubSeq(p, 1, m))) + Len(Dropped(p, k)) <= Len(Content(p))
    BY <1>5, <1>6, LoopBack
  <2>2. /\ k \in 0..Len(p) /\ Len(Content(SubSeq(p, 1, k))) \in Nat
        /\ Len(Content(SubSeq(p, 1, k))) + Len(Dropped(p, k)) <= Len(Content(p))
    BY <1>5, <1>6, LoopBack
  <2> QED
    BY <1>3, <2>1, <2>2
<1>8. r \in Seq(Construct)
  BY <1>3, <1>5, <1>7, PrefixFacts
<1>9. frames' = [frames EXCEPT ![Len(frames)].path = r]
  BY <1>1, <1>3 DEF Goto
<1>10. /\ stack' = SubSeq(stack, 1, Len(stack) - n)
       /\ open' = {u \in open : \A i \in 1..n : D[i] => u < Len(stack) - n + i}
  BY <1>1, <1>3 DEF Drop
<1>11. PICK S : \E g \in FrameType(S) :
         g.slots = F.slots /\ g.path = r /\ frames' = [frames EXCEPT ![Len(frames)] = g]
  BY <1>2, <1>8, <1>9, PathIs DEF Even
<1>12. PICK g \in FrameType(S) :
         g.slots = F.slots /\ g.path = r /\ frames' = [frames EXCEPT ![Len(frames)] = g]
  BY <1>11
<1>13. PICK a, s, b, c : /\ a = Len(stack) /\ s = F.slots /\ b = Len(Content(p))
                         /\ c = Len(Content(r))
  OBVIOUS
<1>14. a \in Nat /\ s \in Nat /\ b \in Nat /\ c \in Nat /\ c + n <= b
  BY <1>5, <1>7, <1>13
<1>15. a + 1 = s + b /\ a - n + 1 = s + c
  <2>1. Len(stack) + 1 = F.slots + Len(Content(F.path))
    BY <1>2, ExactHeight DEF Even
  <2>2. Len(stack') + 1 = g.slots + Len(Content(g.path))
    BY <1>2, <1>12, ExactAfter
  <2>3. a + 1 = s + b
    BY <1>3, <1>13, <2>1
  <2>4. 1 <= s
    BY <1>2, <1>4, <1>13, ReadyFacts
  <2>5. n <= Len(stack)
    BY <1>7, <1>13, <1>14, <2>3, <2>4
  <2>6. Len(stack') = Len(stack) - n
    BY <1>5, <1>7, <1>10, <2>5, Popped
  <2> QED
    BY <1>12, <1>13, <2>2, <2>3, <2>6
<1>16. Flags(p) = Flags(r) \o D
  <2>1. Flags(p) = Flags(SubSeq(p, 1, k)) \o D
    BY <1>3, <1>5, <1>7, FlagsDropped
  <2>2. CASE m = k
    BY <1>3, <2>1, <2>2
  <2>3. CASE m = k - 1
    <3>1. PICK e, l : e = Len(Content(SubSeq(p, 1, k))) /\ l = p[k].locals
      OBVIOUS
    <3>2. /\ e = c + Len(l) /\ Len(l) \in Nat /\ Flags(SubSeq(p, 1, k)) = Flags(r) \o l
      BY <1>1, <1>3, <1>5, <1>6, <1>13, <2>3, <3>1, LoopLocals
    <3>3. e \in Nat /\ e + n <= b
      BY <1>7, <1>13, <3>1
    <3>4. Len(l) = 0
      BY <1>7, <1>14, <1>15, <3>2, <3>3
    <3>5. l \in Seq(BOOLEAN) /\ Flags(r) \in Seq(BOOLEAN)
      BY <1>5, <1>6, <1>8, <3>1, LocalsTyped, FlagsTyped
    <3>6. Flags(r) \o l = Flags(r)
      BY <3>4, <3>5
    <3> QED
      BY <2>1, <3>2, <3>6
  <2> QED
    BY <1>6, <2>2, <2>3
<1>17. Shut(r, D)
  <2>1. \A i \in 1..n : a - n + i = s + c - 1 + i
    BY <1>7, <1>14, <1>15
  <2>2. \A u \in open' : u \in open /\ \A i \in 1..n : D[i] = TRUE => u < s + c - 1 + i
    BY <1>10, <1>13, <2>1
  <2> QED
    BY <1>3, <1>13, <2>2 DEF Shut
<1>18. /\ m \in 0..Len(F.path) /\ r = SubSeq(F.path, 1, m) /\ Flags(g.path) = Flags(r)
       /\ Flags(F.path) = Flags(r) \o D
  BY <1>3, <1>7, <1>12, <1>16
<1> QED
  BY <1>2, <1>7, <1>12, <1>17, <1>18, CutOwns

LEMMA EndTryOwns ==
  ASSUME Even, EndTry \/ EndCatch, NEW hs \in Seq(Handler), NEW st, AfterTry(hs, st)
  PROVE  StillOwned
<1>1. PICK p, m, r, n : p = F.path /\ m = Len(p) /\ r = Front(p) /\ n = Len(Top.locals)
  OBVIOUS
<1>2. status = "running" /\ p # <<>> /\ Top.kind = "try" /\ Top.phase \in {"body", "catch"}
  BY <1>1 DEF EndTry, EndCatch, InTry, In, Running
<1>3. Ready /\ HInv
  BY EvenFacts
<1>4. /\ p \in Seq(Construct) /\ Tidy(p) /\ Top = p[m] /\ m \in 1..m /\ m \in Nat /\ F.slots \in Nat
      /\ Len(Content(p)) = Len(Content(r)) + Len(Holds(p, m)) /\ Len(stack) \in Nat
      /\ Len(Content(r)) \in Nat
  BY <1>1, <1>2, <1>3, TopIs, ReadyFacts
<1>5. /\ r \in Seq(Construct) /\ Len(r) = m - 1 /\ m >= 1 /\ \A i \in 1..(m - 1) : r[i] = p[i]
  BY <1>1, <1>2, <1>4, FrontFacts
<1>6. PICK q \in Seq(Construct) :
        /\ frames' = [frames EXCEPT ![Len(frames)] = [F EXCEPT !.handlers = hs, !.path = q]]
        /\ Top.final => q = [p EXCEPT ![m] = [@ EXCEPT !.phase = "finally", !.locals = <<>>]]
        /\ ~Top.final => q = r
  BY <1>1, <1>2, <1>3, AfterTryIs
<1>7. PICK S : F \in FrameType(S)
  BY <1>2, <1>3, TopFacts
<1>8. PICK g : g = [F EXCEPT !.handlers = hs, !.path = q]
  OBVIOUS
<1>9. g \in FrameType(S) /\ g.slots = F.slots /\ g.path = q
  BY <1>7, <1>8 DEF FrameType
<1>10. frames' = [frames EXCEPT ![Len(frames)] = g]
  BY <1>6, <1>8
<1>11. Flags(q) = Flags(r)
  <2>1. CASE ~Top.final
    BY <1>6, <2>1
  <2>2. CASE Top.final
    <3>1. PICK d : d = [p[m] EXCEPT !.phase = "finally", !.locals = <<>>]
      OBVIOUS
    <3>2. q = [p EXCEPT ![m] = d]
      BY <1>6, <2>2, <3>1
    <3>3. p[m] \in TryType
      BY <1>1, <1>2, <1>3, TopIsTry
    <3>4. d \in Construct /\ d.locals = <<>>
      <4>1. <<>> \in Seq(BOOLEAN)
        OBVIOUS
      <4> QED
        BY <3>1, <3>3, <4>1 DEF TryType, Construct, Phases
    <3>5. [p EXCEPT ![Len(p)] = d] = Append(SubSeq(p, 1, Len(p) - 1), d)
      BY <1>1, <1>4, <1>5, <3>4, TopReplaced
    <3>6. q = Append(r, d)
      <4>1. r = SubSeq(p, 1, Len(p) - 1)
        BY <1>1, FrontIsPopped
      <4> QED
        BY <1>1, <3>2, <3>5, <4>1
    <3>7. Len(q) = Len(r) + 1 /\ (\A i \in 1..Len(r) : q[i] = r[i]) /\ q[Len(q)] = d
      BY <1>5, <3>4, <3>6, AppendFacts
    <3>8. Flags(q) = Flags(r) \o q[Len(q)].locals
      BY <1>5, <3>7, FlagsNext
    <3>9. Flags(r) \o <<>> = Flags(r)
      BY <1>5, FlagsTyped
    <3> QED
      BY <3>4, <3>7, <3>8, <3>9
  <2> QED
    BY <2>1, <2>2
<1>12. Shut(r, Top.locals)
  <2>1. CASE Top.phase # "catch"
    <3>1. n = 0
      BY <1>1, <1>2, <1>3, <2>1, TryHasNone
    <3>2. \A u \in open' : u \in open
      BY <2>1 DEF EndTry, EndCatch, InTry, In, Stray
    <3> QED
      BY <1>1, <3>1, <3>2 DEF Shut
  <2>2. CASE Top.phase = "catch"
    <3>1. open' = IF n = 1 /\ Top.locals[1] THEN Closing(Len(stack)) ELSE open
      BY <1>1, <2>2 DEF EndTry, EndCatch, InTry, In
    <3>2. n = 0 \/ n = 1
      BY <1>1, <1>2, <1>4 DEF Tidy
    <3>3. CASE n = 0
      BY <1>1, <3>1, <3>3 DEF Shut
    <3>4. CASE n = 1
      <4>1. Top.phase = "catch" /\ Top.named
        <5>1. m \in 1..Len(p) /\ p[m].kind = "try"
          BY <1>1, <1>2, <1>4
        <5>2. ~(p[m].phase = "catch" /\ p[m].named) => Len(p[m].locals) = 0
          BY <1>4, <5>1 DEF Tidy
        <5>3. Len(p[m].locals) # 0
          <6>1. Len(Top.locals) = 1
            BY <1>1, <3>4
          <6>2. PICK t : t = Top
            OBVIOUS
          <6>3. t = p[m] /\ Len(t.locals) = 1
            BY <1>4, <6>1, <6>2
          <6>4. Len(p[m].locals) = 1
            BY <6>3
          <6> QED
            BY <6>4
        <5> QED
          BY <1>4, <2>2, <5>2, <5>3
      <4>2. Len(Holds(p, m)) = 1
        <5>1. Holds(p, m) = <<Top.value>>
          BY <1>2, <1>4, <4>1 DEF Holds
        <5> QED
          BY <5>1
      <4>3. Len(stack) + 1 = F.slots + Len(Content(p))
        BY <1>1, <1>2, ExactHeight DEF Even
      <4>4. PICK a, s, c : a = Len(stack) /\ s = F.slots /\ c = Len(Content(r))
        OBVIOUS
      <4>5. a = s + c - 1 + 1
        BY <1>4, <4>2, <4>3, <4>4
      <4>6. \A u \in open' : u \in open /\ (Top.locals[1] = TRUE => u < s + c - 1 + 1)
        BY <3>1, <3>4, <4>4, <4>5 DEF Closing
      <4>7. \A i \in 1..Len(Top.locals) : i = 1
        BY <1>1, <3>4
      <4> QED
        BY <4>4, <4>6, <4>7 DEF Shut
    <3> QED
      BY <3>2, <3>3, <3>4
  <2> QED
    BY <2>1, <2>2
<1>13. F.path # <<>> /\ Flags(g.path) = Flags(Front(F.path)) /\ Shut(Front(F.path), Top.locals)
  BY <1>1, <1>2, <1>9, <1>11, <1>12
<1> QED
  BY <1>2, <1>9, <1>10, <1>13, FrontOwns

LEMMA AfterTryOwns ==
  ASSUME Even, EndTry \/ EndCatch
  PROVE  StillOwned
<1>1. CASE EndTry /\ ~AfterTry(Front(F.handlers), stack)
  <2>1. open' = {}
    BY <1>1 DEF EndTry, Stray
  <2> QED
    BY <2>1 DEF StillOwned
<1>2. CASE EndTry /\ AfterTry(Front(F.handlers), stack)
  <2>1. /\ status = "running" /\ F.path # <<>> /\ Top.kind = "try" /\ Top.phase = "body"
    BY <1>2 DEF EndTry, InTry, In, Running
  <2>2. HInv /\ F.path \in Seq(Construct) /\ F.handlers \in Seq(Handler)
    BY <2>1, EvenFacts, TopFacts
  <2>3. F.handlers # <<>>
    <3>1. Len(F.path) \in Installed(F.path)
      <4>1. Top = F.path[Len(F.path)] /\ Len(F.path) \in 1..Len(F.path)
        BY <2>1, EvenFacts, TopIs
      <4> QED
        BY <2>1, <4>1 DEF Installed, Handling
    <3>2. Exact(F.path, F.handlers)
      <4>1. Whole(F, misled) /\ ~misled
        BY <2>1, <2>2, TopFacts DEF Even
      <4> QED
        BY <4>1 DEF Whole, Half
    <3>3. PICK n \in 1..Len(F.handlers) : TRUE
      BY <3>1, <3>2 DEF Exact
    <3> QED
      BY <2>2, <3>3
  <2>4. Front(F.handlers) \in Seq(Handler)
    BY <2>2, <2>3, FrontFacts
  <2> QED
    BY <1>2, <2>4, EndTryOwns
<1>3. CASE EndCatch
  <2>1. status = "running" /\ \E st : AfterTry(F.handlers, st)
    BY <1>3 DEF EndCatch, InTry, In, Running
  <2>2. F.handlers \in Seq(Handler)
    BY <2>1, EvenFacts, TopFacts
  <2> QED
    BY <1>3, <2>1, <2>2, EndTryOwns
<1> QED
  BY <1>1, <1>2, <1>3

(* one more construct on the path of the frame on top *)
LEMMA MoreFlags ==
  ASSUME NEW p \in Seq(Construct), NEW d \in Construct
  PROVE  /\ Append(p, d) \in Seq(Construct) /\ Flags(Append(p, d)) = Flags(p) \o d.locals
         /\ d.locals = <<>> => Flags(Append(p, d)) = Flags(p)
<1>1. PICK q : q = Append(p, d)
  OBVIOUS
<1>2. /\ q \in Seq(Construct) /\ Len(q) = Len(p) + 1 /\ (\A i \in 1..Len(p) : q[i] = p[i])
      /\ q[Len(p) + 1] = d
  BY <1>1, AppendFacts
<1>3. Flags(q) = Flags(p) \o q[Len(q)].locals
  BY <1>2, FlagsNext
<1>4. q[Len(q)] = d
  BY <1>2
<1>5. Flags(p) \o <<>> = Flags(p)
  BY FlagsTyped
<1> QED
  BY <1>1, <1>2, <1>3, <1>4, <1>5

LEMMA BeginBlockOwns ==
  ASSUME Even, BeginBlock \/ BeginLoop
  PROVE  StillOwned
<1>1. PICK d \in {Block, Loop} : Running /\ open' = open /\ Goto(Append(F.path, d))
  BY DEF BeginBlock, BeginLoop
<1>2. status = "running" /\ d \in Construct /\ d.locals = <<>>
  BY <1>1, BlockTypes DEF Running, Block, Loop
<1>3. F.path \in Seq(Construct) /\ Ready
  BY <1>2, EvenFacts, ReadyFacts
<1>4. PICK q : q = Append(F.path, d)
  OBVIOUS
<1>5. q \in Seq(Construct) /\ Flags(q) = Flags(F.path)
  BY <1>2, <1>3, <1>4, MoreFlags
<1>6. frames' = [frames EXCEPT ![Len(frames)].path = q]
  BY <1>1, <1>4 DEF Goto
<1>7. PICK S : \E g \in FrameType(S) :
        g.slots = F.slots /\ g.path = q /\ frames' = [frames EXCEPT ![Len(frames)] = g]
  BY <1>2, <1>5, <1>6, PathIs DEF Even
<1>8. PICK g \in FrameType(S) :
        g.slots = F.slots /\ g.path = q /\ frames' = [frames EXCEPT ![Len(frames)] = g]
  BY <1>7
<1>9. Flags(g.path) = Flags(F.path) /\ \A u \in open' : u \in open
  BY <1>1, <1>5, <1>8
<1> QED
  BY <1>2, <1>8, <1>9, FlagsStayOpen

LEMMA BeginTryOwns ==
  ASSUME Even, NEW c \in Class, NEW kind \in Kinds, BeginTry(c, kind)
  PROVE  StillOwned
<1>a. CASE open' = {}
  BY <1>a DEF StillOwned
<1>1. PICK t, h, q : /\ t = Try(c, kind) /\ q = Append(F.path, t)
                     /\ h = [class |-> c, catch |-> kind.catch, final |-> kind.final, path |-> q]
  OBVIOUS
<1>b. SUFFICES ASSUME open' # {} PROVE StillOwned
  BY <1>a
<1>2. /\ status = "running" /\ open' = open
      /\ frames' = [frames EXCEPT ![Len(frames)].handlers = Append(@, h),
                                  ![Len(frames)].path = Append(@, t)]
  BY <1>1, <1>b DEF BeginTry, Running, Stray
<1>3. PICK S : frames \in Seq(FrameType(S)) /\ F \in FrameType(S)
  BY <1>2, TopFacts DEF Even
<1>4. F = frames[Len(frames)] /\ F.path \in Seq(Construct) /\ F.handlers \in Seq(Handler)
  BY <1>2, TopFacts DEF Even
<1>5. t \in Construct /\ t.locals = <<>>
  <2>1. kind.named \in BOOLEAN /\ kind.final \in BOOLEAN /\ <<>> \in Seq(BOOLEAN)
    BY ExceptionsAssumption
  <2> QED
    BY <1>1, <2>1 DEF Try, TryType, Phases, Value, Thrown, Construct
<1>6. q \in Seq(Construct) /\ Flags(q) = Flags(F.path)
  BY <1>1, <1>4, <1>5, MoreFlags
<1>7. h \in Handler
  BY <1>1, <1>6, ExceptionsAssumption DEF Handler
<1>8. PICK g : g = [F EXCEPT !.handlers = Append(@, h), !.path = q]
  OBVIOUS
<1>9. g \in FrameType(S) /\ g.slots = F.slots /\ g.path = q
  <2>1. Append(F.handlers, h) \in Seq(Handler)
    BY <1>4, <1>7, AppendFacts
  <2> QED
    BY <1>3, <1>6, <1>8, <2>1 DEF FrameType
<1>10. frames' = [frames EXCEPT ![Len(frames)] = g]
  <2>1. g = [F EXCEPT !.handlers = Append(@, h), !.path = Append(@, t)]
    BY <1>1, <1>8
  <2> QED
    BY <1>2, <1>3, <1>4, <2>1
<1>11. Flags(g.path) = Flags(F.path) /\ \A u \in open' : u \in open
  BY <1>2, <1>6, <1>9
<1> QED
  BY <1>2, <1>9, <1>10, <1>11, FlagsStayOpen

(* one more local in the frame on top, in the next counted slot *)
LEMMA OneMoreOwns ==
  ASSUME Even, status = "running", NEW S, NEW g \in FrameType(S), g.slots = F.slots,
         frames' = [frames EXCEPT ![Len(frames)] = g], NEW r \in Seq(Construct),
         Flags(r) = Flags(F.path), NEW captured \in BOOLEAN,
         Flags(g.path) = Flags(r) \o <<captured>>,
         NEW n, n = F.slots + Counted(r), open' = IF captured THEN open \cup {n} ELSE open
  PROVE  StillOwned
<1>1. PICK p, s, a, G : p = F.path /\ s = F.slots /\ a = Len(Flags(r)) /\ G = Flags(g.path)
  OBVIOUS
<1>2. s \in Nat /\ p \in Seq(Construct)
  BY <1>1, EvenFacts, ReadyFacts
<1>3. Flags(r) \in Seq(BOOLEAN) /\ a \in Nat /\ Counted(r) = a
  BY <1>1, CountedIs, FlagsTyped, ContentLen
<1>4. /\ Len(G) = a + 1 /\ G[a + 1] = captured /\ \A i \in 1..a : G[i] = Flags(p)[i]
  BY <1>1, <1>3
<1>5. n = s + a /\ n \in Nat
  BY <1>1, <1>2, <1>3
<1>6. \A u : Owned(F, u) => Owned(g, u)
  <2>1. SUFFICES ASSUME NEW u, Owned(F, u) PROVE Owned(g, u)
    OBVIOUS
  <2>2. Len(Flags(p)) = a
    BY <1>1
  <2>3. PICK i \in 1..a : Flags(p)[i] = TRUE /\ u = s + i - 1
    BY <1>1, <2>1, <2>2 DEF Owned
  <2>4. i \in 1..Len(G) /\ G[i] = TRUE
    BY <1>3, <1>4, <2>3
  <2> QED
    BY <1>1, <2>3, <2>4 DEF Owned
<1>7. captured => Owned(g, n)
  <2>1. SUFFICES ASSUME captured PROVE Owned(g, n)
    OBVIOUS
  <2>2. a + 1 \in 1..Len(G) /\ n = s + (a + 1) - 1
    BY <1>2, <1>3, <1>4, <1>5
  <2>3. G[a + 1] = TRUE
    BY <1>4, <2>1
  <2> QED
    BY <1>1, <2>2, <2>3 DEF Owned
<1>8. \A u \in open' : (u \in open /\ (Owned(F, u) => Owned(g, u))) \/ (u \in Nat /\ Owned(g, u))
  <2>1. SUFFICES ASSUME NEW u \in open'
                 PROVE  (u \in open /\ (Owned(F, u) => Owned(g, u))) \/ (u \in Nat /\ Owned(g, u))
    OBVIOUS
  <2>2. CASE u \in open
    BY <1>6, <2>2
  <2>3. CASE u \notin open
    BY <1>5, <1>7, <2>3
  <2> QED
    BY <2>2, <2>3
<1> QED
  BY <1>8, EvenFacts, TopOwns

LEMMA DeclareLocalOwns ==
  ASSUME Even, NEW captured \in BOOLEAN, DeclareLocal(captured)
  PROVE  StillOwned
<1>1. PICK p, m, c, d, q, r : /\ p = F.path /\ m = Len(p) /\ c = p[m] /\ r = Front(p)
                              /\ d = [c EXCEPT !.locals = Append(@, captured)]
                              /\ q = [p EXCEPT ![m] = d]
  OBVIOUS
<1>2. /\ status = "running" /\ p # <<>> /\ Top.kind = "block"
      /\ open' = IF captured THEN open \cup {F.slots + Counted(p)} ELSE open
  BY <1>1 DEF DeclareLocal, InBlock, Running, Top
<1>3. Top = c /\ c \in Construct /\ m \in 1..m /\ p \in Seq(Construct)
  BY <1>1, <1>2, EvenFacts, TopIs, ReadyFacts
<1>4. c.kind = "block" /\ c.locals \in Seq(BOOLEAN)
  BY <1>1, <1>2, <1>3 DEF Construct, TryType
<1>5. d \in Construct /\ d.locals = Append(c.locals, captured)
  <2>1. Append(c.locals, captured) \in Seq(BOOLEAN)
    BY <1>1, <1>4, AppendFacts
  <2>2. c \in [kind : {"block", "loop"}, locals : Seq(BOOLEAN)]
    BY <1>3, <1>4 DEF Construct, TryType
  <2> QED
    BY <1>1, <1>4, <2>1, <2>2 DEF Construct
<1>6. frames' = [frames EXCEPT ![Len(frames)].path = q]
  <2>1. q = [p EXCEPT ![m].locals = Append(@, captured)]
    BY <1>1
  <2> QED
    BY <1>1, <2>1 DEF DeclareLocal, Goto
<1>7. r \in Seq(Construct) /\ Flags(p) = Flags(r) \o c.locals
  BY <1>1, <1>2, <1>3, FrontFacts, FrontFlags
<1>8. q = Append(r, d) /\ q \in Seq(Construct)
  <2>1. Len(p) >= 1
    BY <1>1, <1>3
  <2>2. [p EXCEPT ![Len(p)] = d] = Append(SubSeq(p, 1, Len(p) - 1), d)
    BY <1>3, <1>5, <2>1, TopReplaced
  <2>3. r = SubSeq(p, 1, Len(p) - 1)
    BY <1>1, FrontIsPopped
  <2>4. q = Append(r, d)
    BY <1>1, <2>2, <2>3
  <2> QED
    BY <1>5, <1>7, <2>4, MoreFlags
<1>9. Flags(q) = Flags(p) \o <<captured>>
  <2>1. Flags(q) = Flags(r) \o Append(c.locals, captured)
    <3>1. r \in Seq(Construct) /\ d \in Construct
      BY <1>5, <1>7
    <3>2. Flags(Append(r, d)) = Flags(r) \o d.locals
      BY <3>1, MoreFlags
    <3>3. q = Append(r, d) /\ d.locals = Append(c.locals, captured)
      BY <1>5, <1>8
    <3> QED
      BY <3>2, <3>3
  <2>2. PICK x, y : x = Flags(r) /\ y = c.locals
    OBVIOUS
  <2>3. x \in Seq(BOOLEAN) /\ y \in Seq(BOOLEAN)
    BY <1>4, <1>7, <2>2, FlagsTyped
  <2>4. x \o Append(y, captured) = (x \o y) \o <<captured>>
    BY <2>3
  <2> QED
    BY <1>7, <2>1, <2>2, <2>4
<1>10. PICK S : \E g \in FrameType(S) :
         g.slots = F.slots /\ g.path = q /\ frames' = [frames EXCEPT ![Len(frames)] = g]
  BY <1>2, <1>6, <1>8, PathIs DEF Even
<1>11. PICK g \in FrameType(S) :
         g.slots = F.slots /\ g.path = q /\ frames' = [frames EXCEPT ![Len(frames)] = g]
  BY <1>10
<1>12. PICK n : n = F.slots + Counted(p)
  OBVIOUS
<1>13. /\ Flags(p) = Flags(F.path) /\ Flags(g.path) = Flags(p) \o <<captured>>
       /\ open' = IF captured THEN open \cup {n} ELSE open
  BY <1>1, <1>2, <1>9, <1>11, <1>12
<1> QED
  BY <1>2, <1>3, <1>11, <1>12, <1>13, OneMoreOwns

LEMMA EnterCatchOwns ==
  ASSUME Even, NEW captured \in BOOLEAN, EnterCatch(captured)
  PROVE  StillOwned
<1>1. /\ status = "running" /\ F.path # <<>> /\ Top.kind = "try" /\ Top.phase = "landed"
      /\ (captured => Top.named)
      /\ open' = IF captured THEN open \cup {NamedSlot(F)} ELSE open
  BY DEF EnterCatch, In
<1>2. PICK p, m, r, c, d, q :
        /\ p = F.path /\ m = Len(p) /\ r = Front(p) /\ c = Top
        /\ d = [c EXCEPT !.phase = "catch", !.locals = IF c.named THEN <<captured>> ELSE <<>>]
        /\ q = [p EXCEPT ![m] = d]
  OBVIOUS
<1>3. p \in Seq(Construct) /\ c = p[m] /\ c \in TryType /\ HInv /\ Ready
  BY <1>1, <1>2, EvenFacts, TopIsTry, ReadyFacts
<1>4. PICK S : /\ d \in TryType /\ q \in Seq(Construct)
               /\ \E g \in FrameType(S) :
                    /\ g.slots = F.slots /\ g.path = q
                    /\ frames' = [frames EXCEPT ![Len(frames)] = g]
  <2>1. HInv
    BY <1>3
  <2>2. d = [Top EXCEPT !.phase = "catch", !.locals = IF Top.named THEN <<captured>> ELSE <<>>]
    BY <1>2
  <2>3. q = [F.path EXCEPT ![Len(F.path)] = d]
    BY <1>2
  <2> QED
    BY ZenonT(60), <2>1, <2>2, <2>3, EnterCatchIs
<1>5. PICK g \in FrameType(S) :
        g.slots = F.slots /\ g.path = q /\ frames' = [frames EXCEPT ![Len(frames)] = g]
  BY <1>4
<1>6. d \in Construct /\ d.locals = IF c.named THEN <<captured>> ELSE <<>>
  BY <1>2, <1>3, <1>4 DEF Construct, TryType
<1>7. r \in Seq(Construct) /\ Flags(r) \in Seq(BOOLEAN)
  BY <1>1, <1>2, <1>3, FrontFacts, FlagsTyped
<1>8. Flags(p) = Flags(r)
  <2>1. Len(c.locals) = 0
    BY <1>1, <1>2, <1>3, TryHasNone
  <2>2. Flags(p) = Flags(r) \o c.locals /\ c.locals \in Seq(BOOLEAN)
    BY <1>1, <1>2, <1>3, FrontFlags
  <2>3. c.locals = <<>>
    BY <2>1, <2>2, EmptySeq
  <2> QED
    BY <1>7, <2>2, <2>3
<1>9. q = Append(r, d)
  <2>1. Len(p) >= 1
    BY <1>1, <1>2, <1>3, FrontFacts
  <2>2. [p EXCEPT ![Len(p)] = d] = Append(SubSeq(p, 1, Len(p) - 1), d)
    BY <1>3, <1>6, <2>1, TopReplaced
  <2>3. r = SubSeq(p, 1, Len(p) - 1)
    BY <1>2, FrontIsPopped
  <2> QED
    BY <1>2, <2>2, <2>3
<1>10. Flags(q) = Flags(r) \o d.locals
  BY <1>6, <1>7, <1>9, MoreFlags
<1>11. CASE ~c.named
  <2>1. Flags(q) = Flags(r)
    BY <1>6, <1>7, <1>9, <1>11, MoreFlags
  <2>2. Flags(g.path) = Flags(F.path)
    BY <1>2, <1>5, <1>8, <2>1
  <2>3. \A u \in open' : u \in open
    BY <1>1, <1>2, <1>11
  <2> QED
    BY <1>1, <1>5, <2>2, <2>3, FlagsStayOpen
<1>12. CASE c.named
  <2>1. PICK n : n = F.slots + Counted(p)
    OBVIOUS
  <2>2. open' = IF captured THEN open \cup {n} ELSE open
    BY <1>1, <1>2, <2>1 DEF NamedSlot
  <2>3. Flags(g.path) = Flags(p) \o <<captured>> /\ Flags(p) = Flags(F.path)
    BY <1>2, <1>5, <1>6, <1>8, <1>10, <1>12
  <2> QED
    BY <1>1, <1>3, <1>5, <2>1, <2>2, <2>3, OneMoreOwns
<1> QED
  BY <1>11, <1>12

(* where all that is open lies below the top of the stack *)
LEMMA OpenBelow ==
  ASSUME NEW st, NEW fs, NEW top, NEW X, Covered(st, fs, top, X), NEW u, u \in Nat, Owns(fs, top, u)
  PROVE  u < top
<1>1. PICK L, t : L = Len(fs) /\ t = top
  OBVIOUS
<1>2. L \in Nat /\ t \in Nat
  BY <1>1, Rising DEF Covered
<1>3. CASE \E j \in 1..L : Owned(fs[j], u)
  <2>1. PICK j \in 1..L : Owned(fs[j], u)
    BY <1>3
  <2>2. PICK f, y, x : f = fs[j] /\ y = Above(fs, j, top) /\ x = (j \in X)
    OBVIOUS
  <2>3. Stands(st, f, y, x)
    BY <1>1, <2>2 DEF Covered
  <2>4. y \in Nat /\ y <= t
    BY <1>1, <2>2, Rising
  <2>5. PICK s, b, n : s = f.slots /\ b = Len(Content(f.path)) /\ n = Needs(f.path)
    OBVIOUS
  <2>6. s \in Nat /\ f.path \in Seq(Construct) /\ Tidy(f.path) /\ s + n <= y
    BY <2>3, <2>5 DEF Stands
  <2>7. n \in Nat /\ b \in Nat /\ b <= n
    BY <2>5, <2>6, NeedsFacts
  <2>8. u < s + b
    BY <2>1, <2>2, <2>5, <2>6, OwnedIs
  <2>9. u < t
    BY <1>2, <2>4, <2>6, <2>7, <2>8
  <2> QED
    BY <1>1, <2>9
<1>4. CASE fs = <<>> /\ u < top
  BY <1>4
<1>5. CASE fs # <<>> /\ u < fs[1].slots
  <2>1. 1 \in 1..L
    <3>1. PICK R : fs \in Seq(R)
      BY DEF Covered
    <3>2. Len(fs) # 0
      BY <1>5, <3>1, EmptySeq
    <3> QED
      BY <1>1, <1>2, <3>2
  <2>2. PICK y, s : y = Above(fs, 1, top) /\ s = fs[1].slots
    OBVIOUS
  <2>3. y \in Nat /\ y <= t /\ s \in Nat /\ s < y
    BY <1>1, <2>1, <2>2, Rising
  <2>4. u < t
    BY <1>2, <1>5, <2>2, <2>3
  <2> QED
    BY <1>1, <2>4
<1> QED
  BY <1>1, <1>3, <1>4, <1>5 DEF Owns

LEMMA CallOwns ==
  ASSUME Even, NewLine \/ Call
  PROVE  StillOwned
<1>1. CASE open' = {}
  BY <1>1 DEF StillOwned
<1>2. SUFFICES ASSUME open' # {} PROVE StillOwned
  BY <1>1
<1>3. PICK g : /\ frames' = Append(frames, g) /\ g.slots = Len(stack) + 1 /\ open' = open
  <2>1. \E p, line : frames' = Append(frames, Frame(Len(stack) + 1, p, line)) /\ open' = open
    BY <1>2 DEF NewLine, Call, Stray, ResetStack
  <2> QED
    BY <2>1 DEF Frame
<1>4. PICK L, fs, gs, top : L = Len(frames) /\ fs = frames /\ gs = frames' /\ top = Len(stack) + 1
  OBVIOUS
<1>5. PICK R : fs \in Seq(R)
  BY <1>4 DEF Even, HInv, Good
<1>6. PICK V : V = R \cup {g}
  OBVIOUS
<1>7. fs \in Seq(V) /\ g \in V
  BY <1>5, <1>6, SeqGrows
<1>8. /\ Len(gs) = L + 1 /\ L \in Nat /\ gs[L + 1] = g /\ \A j \in 1..L : gs[j] = fs[j]
  BY <1>3, <1>4, <1>7, AppendFacts
<1>9. gs # <<>>
  BY <1>8
<1>10. SUFFICES ASSUME NEW u \in open' PROVE u \in Nat /\ Owns(gs, Len(stack') + 1, u)
  BY <1>4 DEF StillOwned
<1>11. u \in Nat /\ Owns(fs, top, u)
  BY <1>3, <1>4, EvenFacts
<1>12. CASE \E j \in 1..L : Owned(fs[j], u)
  <2>1. PICK j \in 1..L : Owned(fs[j], u)
    BY <1>12
  <2>2. j \in 1..Len(gs) /\ Owned(gs[j], u)
    BY <1>8, <2>1
  <2> QED
    BY <1>11, <2>2 DEF Owns
<1>13. CASE fs = <<>> /\ u < top
  <2>1. L = 0
    BY <1>4, <1>13
  <2>2. gs[1].slots = top
    BY <1>3, <1>4, <1>8, <2>1
  <2> QED
    BY <1>9, <1>11, <1>13, <2>2 DEF Owns
<1>14. CASE fs # <<>> /\ u < fs[1].slots
  <2>1. L # 0
    BY <1>4, <1>5, <1>14, EmptySeq
  <2>2. 1 \in 1..L
    BY <1>8, <2>1
  <2>3. gs[1] = fs[1]
    BY <1>8, <2>2
  <2> QED
    BY <1>9, <1>11, <1>14, <2>3 DEF Owns
<1> QED
  BY <1>4, <1>11, <1>12, <1>13, <1>14 DEF Owns

LEMMA ReturnOwns ==
  ASSUME Even, Return
  PROVE  StillOwned
<1>1. /\ status = "running" /\ frames' = Front(frames) /\ open' = {i \in open : i < F.slots}
  BY DEF Return, Running, Closing
<1>2. PICK L, fs, gs, s : L = Len(frames) /\ fs = frames /\ gs = frames' /\ s = F.slots
  OBVIOUS
<1>3. /\ stack \in Seq(Value) /\ Len(stack) \in Nat /\ Len(stack) >= 1 /\ L \in Nat /\ L >= 1
      /\ F = fs[L] /\ s \in Nat /\ 1 <= s /\ Covered(stack, fs, Len(stack) + 1, shifted)
      /\ Stands(stack, F, Len(stack) + 1, L \in shifted)
      /\ s + Len(Content(F.path)) <= Len(stack) + 1
      /\ 1 <= Len(Content(F.path)) /\ Len(Content(F.path)) \in Nat
  BY <1>1, <1>2, EvenFacts, ReadyFacts
<1>4. PICK R : fs \in Seq(R)
  BY <1>3 DEF Covered
<1>5. gs = SubSeq(fs, 1, L - 1) /\ L - 1 \in 0..Len(fs)
  <2>1. gs = SubSeq(fs, 1, L - 1)
    BY <1>1, <1>2, FrontIsPopped
  <2> QED
    BY <1>2, <1>3, <2>1
<1>6. Len(gs) = L - 1 /\ \A j \in 1..(L - 1) : gs[j] = fs[j]
  BY <1>4, <1>5, PrefixFacts
<1>7. SUFFICES ASSUME NEW u \in open' PROVE u \in Nat /\ Owns(gs, Len(stack') + 1, u)
  BY <1>2 DEF StillOwned
<1>8. u \in Nat /\ Owns(fs, Len(stack) + 1, u) /\ u < s
  BY <1>1, <1>2, EvenFacts
<1>9. fs # <<>>
  BY <1>2, <1>3
<1>10. CASE L = 1
  <2>1. stack' = Front(stack) /\ gs = <<>>
    BY <1>2, <1>5, <1>10 DEF Return
  <2>2. stack # <<>>
    BY <1>3
  <2>3. Len(stack') = Len(stack) - 1
    BY <1>3, <2>1, <2>2, FrontFacts
  <2>4. u < Len(stack') + 1
    <3>1. PICK a, b : a = Len(stack) /\ b = Len(Content(F.path))
      OBVIOUS
    <3>2. u < a
      BY <1>3, <1>8, <3>1
    <3> QED
      BY <1>3, <2>3, <3>1, <3>2
  <2> QED
    BY <1>8, <2>1, <2>4 DEF Owns
<1>11. CASE L # 1
  <2>1. 1 \in 1..(L - 1) /\ gs # <<>>
    BY <1>3, <1>6, <1>11
  <2>2. CASE u < fs[1].slots
    BY <1>6, <1>8, <2>1, <2>2 DEF Owns
  <2>3. ASSUME NEW j \in 1..Len(fs), Owned(fs[j], u) PROVE Owns(gs, Len(stack') + 1, u)
    <3>1. j # L
      <4>1. SUFFICES ASSUME j = L PROVE FALSE
        OBVIOUS
      <4>2. F.path \in Seq(Construct) /\ Tidy(F.path) /\ F.slots \in Nat
        BY <1>3 DEF Stands
      <4>3. F.slots <= u
        BY <1>3, <2>3, <4>1, <4>2, OwnedIs
      <4> QED
        BY <1>2, <1>3, <1>8, <4>3
    <3>2. j \in 1..(L - 1)
      BY <1>2, <1>3, <3>1
    <3>3. j \in 1..Len(gs) /\ Owned(gs[j], u)
      BY <1>6, <2>3, <3>2
    <3> QED
      BY <3>3 DEF Owns
  <2> QED
    BY <1>8, <1>9, <2>2, <2>3 DEF Owns
<1> QED
  BY <1>10, <1>11

-----------------------------------------------------------------------------
(* What is open when an exception is on its way *)

LEMMA OwnsAlike ==
  ASSUME NEW fs, NEW gs, Alike(fs, gs), Len(fs) \in Nat, Len(fs) >= 1, NEW top, NEW top2, NEW u,
         Owns(fs, top, u)
  PROVE  Owns(gs, top2, u)
<1>1. PICK L : L = Len(fs)
  OBVIOUS
<1>2. fs # <<>> /\ gs # <<>> /\ 1 \in 1..L /\ Len(gs) = L /\ L \in Nat
  BY <1>1 DEF Alike
<1>3. CASE u < fs[1].slots
  BY <1>1, <1>2, <1>3 DEF Alike, Owns
<1>4. ASSUME NEW j \in 1..L, Owned(fs[j], u) PROVE Owns(gs, top2, u)
  <2>1. Owned(gs[j], u)
    BY <1>1, <1>4, OwnedSame DEF Alike
  <2> QED
    BY <1>2, <2>1 DEF Owns
<1> QED
  BY <1>1, <1>2, <1>3, <1>4 DEF Owns

(* an exception over frames of which none is shifted *)
Aloft(st, fs, v) ==
  /\ Flying(st, fs, v, {})
  /\ \A j \in 1..Len(fs) : Free(fs[j].path)
  /\ \A u \in open : u \in Nat /\ Owns(fs, 1, u)

LEMMA AloftFacts ==
  ASSUME NEW st, NEW fs, NEW v, Aloft(st, fs, v)
  PROVE  /\ st \in Seq(Value) /\ Len(st) \in Nat /\ Covered(st, fs, Len(st) + 1, {})
         /\ Len(fs) \in Nat /\ Len(fs) >= 1 /\ fs # <<>> /\ 1 \in 1..Len(fs)
         /\ \E S : fs \in Seq(FrameType(S))
         /\ \A j \in 1..Len(fs) :
              /\ fs[j].slots \in Nat /\ fs[j].path \in Seq(Construct) /\ Tidy(fs[j].path)
              /\ Free(fs[j].path) /\ Len(Content(fs[j].path)) \in Nat
              /\ 1 <= Len(Content(fs[j].path))
              /\ fs[j].slots + Len(Content(fs[j].path)) <= Len(st)
              /\ fs[j].slots + Len(Content(fs[j].path)) <= Above(fs, j, Len(st) + 1)
         /\ \A j \in 1..Len(fs) : Half(fs[j], FALSE)
<1>1. PICK L, top : L = Len(fs) /\ top = Len(st) + 1
  OBVIOUS
<1>2. /\ Throwing(fs, FALSE) /\ Covered(st, fs, top, {})
      /\ \A j \in 1..L : fs[j].slots + Len(Content(fs[j].path)) <= Len(st)
      /\ \A j \in 1..L : Free(fs[j].path)
  BY <1>1 DEF Aloft, Flying
<1>3. st \in Seq(Value) /\ Len(st) \in Nat
  BY <1>2 DEF Covered
<1>4. PICK S : fs \in Seq(FrameType(S))
  BY <1>2 DEF Throwing
<1>5. fs # <<>> /\ L \in Nat /\ L >= 1 /\ 1 \in 1..L
  <2>1. fs # <<>> /\ L \in Nat
    BY <1>1, <1>2, <1>4 DEF Throwing
  <2>2. L # 0
    BY <1>1, <1>4, <2>1, EmptySeq
  <2> QED
    BY <2>1, <2>2
<1>6. \A j \in 1..L : Half(fs[j], FALSE)
  <2>1. Half(fs[L], FALSE) /\ \A j \in 1..(L - 1) : Half(fs[j], FALSE)
    BY <1>1, <1>2 DEF Throwing, Whole
  <2>2. \A j \in 1..L : j = L \/ j \in 1..(L - 1)
    BY <1>5
  <2> QED
    BY <2>1, <2>2
<1>7. ASSUME NEW j \in 1..L
      PROVE  /\ fs[j].slots \in Nat /\ fs[j].path \in Seq(Construct) /\ Tidy(fs[j].path)
             /\ Len(Content(fs[j].path)) \in Nat /\ 1 <= Len(Content(fs[j].path))
             /\ fs[j].slots + Len(Content(fs[j].path)) <= Above(fs, j, top)
  <2>1. PICK f, y : f = fs[j] /\ y = Above(fs, j, top)
    OBVIOUS
  <2>2. Stands(st, f, y, j \in {})
    BY <1>1, <1>2, <2>1 DEF Covered
  <2>3. y \in Nat
    BY <1>1, <1>2, <2>1, Rising
  <2>4. PICK s, b, n : s = f.slots /\ b = Len(Content(f.path)) /\ n = Needs(f.path)
    OBVIOUS
  <2>5. f.path \in Seq(Construct) /\ Tidy(f.path) /\ s \in Nat /\ s + n <= y
    BY <2>2, <2>4 DEF Stands
  <2>6. n \in Nat /\ b \in Nat /\ 1 <= b /\ b <= n
    BY <2>4, <2>5, NeedsFacts
  <2>7. s + b <= y
    BY <2>3, <2>5, <2>6
  <2> QED
    BY <2>1, <2>4, <2>5, <2>6, <2>7
<1>8. \A j \in 1..L :
         /\ fs[j].slots \in Nat /\ fs[j].path \in Seq(Construct) /\ Tidy(fs[j].path)
         /\ Free(fs[j].path) /\ Len(Content(fs[j].path)) \in Nat
         /\ 1 <= Len(Content(fs[j].path))
         /\ fs[j].slots + Len(Content(fs[j].path)) <= Len(st)
         /\ fs[j].slots + Len(Content(fs[j].path)) <= Above(fs, j, top)
  BY <1>2, <1>7
<1> QED
  BY <1>1, <1>2, <1>3, <1>4, <1>5, <1>6, <1>8

(* the frames above begin above *)
LEMMA SlotsRise ==
  ASSUME NEW st, NEW fs, NEW top, NEW X, Covered(st, fs, top, X),
         NEW j \in 1..Len(fs), NEW i \in 1..Len(fs), j < i
  PROVE  Above(fs, j, top) \in Nat /\ fs[i].slots \in Nat /\ Above(fs, j, top) <= fs[i].slots
<1>1. PICK L : L = Len(fs)
  OBVIOUS
<1>2. L \in Nat /\ Above(fs, j, top) \in Nat /\ fs[i].slots \in Nat /\ fs[j].slots \in Nat
  BY <1>1, Rising
<1>3. j + 1 \in 1..L /\ j # L /\ Above(fs, j, top) = fs[j + 1].slots
  BY <1>1, <1>2 DEF Above
<1>4. CASE i = j + 1
  BY <1>2, <1>3, <1>4
<1>5. CASE i # j + 1
  <2>1. PICK gs, y : gs = SubSeq(fs, 1, i - 1) /\ y = fs[i].slots
    OBVIOUS
  <2>2. Covered(st, gs, y, X) /\ Len(gs) = i - 1
    BY <2>1, CoveredPrefix
  <2>3. j + 1 \in 1..(i - 1) /\ j + 1 \in 1..Len(gs)
    BY <1>1, <1>2, <1>5, <2>2
  <2>4. PICK R : fs \in Seq(R)
    BY DEF Covered
  <2>5. gs[j + 1] = fs[j + 1]
    <3>1. i - 1 \in 0..Len(fs)
      BY <1>1, <1>2
    <3> QED
      BY <2>1, <2>3, <2>4, <3>1, PrefixFacts
  <2>6. PICK z : z = Above(gs, j + 1, y)
    OBVIOUS
  <2>7. z \in Nat /\ gs[j + 1].slots < z /\ z <= y /\ gs[j + 1].slots \in Nat
    BY <2>2, <2>3, <2>6, Rising
  <2> QED
    BY <1>2, <1>3, <2>1, <2>5, <2>7
<1> QED
  BY <1>4, <1>5

LEMMA LandingOwns ==
  ASSUME Even, status' = "running", NEW st, NEW fs, NEW v, v \in Value, Aloft(st, fs, v),
         NEW j \in 1..Len(fs), NEW n \in 1..Len(fs[j].handlers), NEW phase \in {"landed", "raised"},
         frames' = Landing(fs, j, n, phase, v),
         phase = "landed" => open' = Closing(fs[j].slots),
         phase = "raised" => stack' = Append(st, Flag(TRUE)) /\ open' = open
  PROVE  StillOwned
<1>1. PICK S : fs \in Seq(FrameType(S))
  BY AloftFacts
<1>2. LandsAs(S, fs, j, n, phase, v)
  <2>1. Half(fs[j], FALSE)
    BY AloftFacts
  <2> QED
    BY <1>1, <2>1, LandingIs
<1>3. PICK k \in 0..(Len(fs[j].path) - 1), d \in TryType, g \in FrameType(S) :
        /\ d.phase = phase /\ d.value = v /\ d.locals = <<>>
        /\ g.slots = fs[j].slots /\ g.path = Append(SubSeq(fs[j].path, 1, k), d)
        /\ Landing(fs, j, n, phase, v) = Append(SubSeq(fs, 1, j - 1), g)
  BY <1>2 DEF LandsAs
<1>4. PICK L, gs, p, s, r : /\ L = Len(fs) /\ gs = frames' /\ p = fs[j].path /\ s = fs[j].slots
                            /\ r = SubSeq(fs[j].path, 1, k)
  OBVIOUS
<1>5. /\ L \in Nat /\ L >= 1 /\ s \in Nat /\ p \in Seq(Construct) /\ Tidy(p) /\ Free(p)
      /\ Covered(st, fs, Len(st) + 1, {}) /\ st \in Seq(Value) /\ Len(st) \in Nat /\ fs # <<>>
      /\ s + Len(Content(p)) <= Above(fs, j, Len(st) + 1) /\ Len(Content(p)) \in Nat
  BY <1>4, AloftFacts
<1>6. /\ Len(gs) = j /\ gs[j] = g /\ gs # <<>> /\ \A i \in 1..(j - 1) : gs[i] = fs[i]
  <2>1. PICK hs : hs = SubSeq(fs, 1, j - 1)
    OBVIOUS
  <2>2. j - 1 \in 0..Len(fs) /\ j \in Nat
    BY <1>4, <1>5
  <2>3. PICK R : R = FrameType(S)
    OBVIOUS
  <2>4. hs \in Seq(R) /\ Len(hs) = j - 1 /\ \A i \in 1..(j - 1) : hs[i] = fs[i]
    BY <1>1, <2>1, <2>2, <2>3, PrefixFacts
  <2>5. gs = Append(hs, g) /\ g \in R
    BY <1>3, <1>4, <2>1, <2>3
  <2>6. /\ Len(gs) = Len(hs) + 1 /\ gs[Len(hs) + 1] = g /\ \A i \in 1..Len(hs) : gs[i] = hs[i]
    BY <2>4, <2>5, AppendFacts
  <2>7. Len(hs) + 1 = j
    BY <2>2, <2>4
  <2>8. Len(gs) = j /\ gs[j] = g
    BY <2>6, <2>7
  <2>9. \A i \in 1..(j - 1) : gs[i] = fs[i]
    BY <2>4, <2>6
  <2>10. Len(gs) # 0
    BY <2>2, <2>8
  <2>11. gs # <<>>
    BY <2>10
  <2> QED
    BY <2>8, <2>9, <2>11
<1>7. gs[1].slots = fs[1].slots
  <2>1. CASE j = 1
    BY <1>3, <1>6, <2>1
  <2>2. CASE j # 1
    <3>1. 1 \in 1..(j - 1)
      BY <1>4, <1>5, <2>2
    <3> QED
      BY <1>6, <3>1
  <2> QED
    BY <2>1, <2>2
<1>8. k \in 0..Len(p) /\ k \in Nat /\ r \in Seq(Construct) /\ Len(r) = k
  <2>1. k \in 0..Len(p) /\ k \in Nat /\ r = SubSeq(p, 1, k)
    BY <1>4, <1>5
  <2> QED
    BY <1>5, <2>1, PrefixFacts
<1>9. PICK q : q = g.path
  OBVIOUS
<1>10. q = Append(r, d) /\ d \in Construct /\ d.locals = <<>> /\ q \in Seq(Construct) /\ Flags(q) = Flags(r)
  <2>1. q = Append(r, d) /\ d \in Construct /\ d.locals = <<>>
    BY <1>3, <1>4, <1>9 DEF Construct
  <2> QED
    BY <1>8, <2>1, MoreFlags
<1>11. SUFFICES ASSUME NEW u \in open' PROVE u \in Nat /\ Owns(gs, Len(stack') + 1, u)
  BY <1>4 DEF StillOwned
<1>12. u \in open /\ u \in Nat /\ Owns(fs, 1, u) /\ (phase = "landed" => u < s)
  <2>1. u \in open /\ (phase = "landed" => u < s)
    BY <1>4 DEF Closing
  <2> QED
    BY <2>1 DEF Aloft
<1>13. CASE u < fs[1].slots
  BY <1>6, <1>7, <1>12, <1>13 DEF Owns
<1>14. ASSUME NEW i \in 1..L, Owned(fs[i], u) PROVE Owns(gs, Len(stack') + 1, u)
  <2>1. CASE i < j
    <3>1. i \in 1..(j - 1) /\ i \in 1..Len(gs)
      BY <1>4, <1>5, <1>6, <2>1
    <3>2. Owned(gs[i], u)
      BY <1>6, <1>14, <3>1
    <3> QED
      BY <3>1, <3>2 DEF Owns
  <2>2. CASE i >= j
    <3>1. PICK t : t = fs[i].slots
      OBVIOUS
    <3>2. t \in Nat /\ t <= u
      <4>1. /\ fs[i].slots \in Nat /\ fs[i].path \in Seq(Construct) /\ Tidy(fs[i].path)
        BY <1>4, AloftFacts
      <4> QED
        BY <1>14, <3>1, <4>1, OwnedIs
    <3>3. PICK y : y = Above(fs, j, Len(st) + 1)
      OBVIOUS
    <3>4. i # j => y \in Nat /\ y <= t
      <4>1. i # j => j < i
        BY <1>4, <1>5, <2>2
      <4> QED
        BY <1>4, <1>5, <3>1, <3>3, <4>1, SlotsRise
    <3>5. PICK b : b = Len(Content(p))
      OBVIOUS
    <3>6. b \in Nat /\ s + b <= y
      BY <1>5, <3>3, <3>5
    <3>7. CASE phase = "landed"
      <4>1. u < s
        BY <1>12, <3>7
      <4>2. CASE i = j
        <5>1. t = s
          BY <1>4, <3>1, <4>2
        <5>2. FALSE
          BY <1>5, <1>12, <3>2, <4>1, <5>1
        <5> QED
          BY <5>2
      <4>3. CASE i # j
        <5>1. FALSE
          BY <1>5, <1>12, <3>2, <3>4, <3>6, <4>1, <4>3
        <5> QED
          BY <5>1
      <4> QED
        BY <4>2, <4>3
    <3>8. CASE phase = "raised"
      <4>1. PICK a : a = Len(Content(r))
        OBVIOUS
      <4>2. a \in Nat /\ Len(Content(q)) = a + 2
        <5>1. Len(q) = k + 1 /\ q[k + 1] = d /\ \A e \in 1..k : q[e] = r[e]
          BY <1>8, <1>10, AppendFacts
        <5>2. d.kind = "try" /\ d.phase = "raised"
          BY <1>3, <3>8 DEF TryType
        <5>3. Holds(q, k + 1) = <<d.value, Flag(TRUE)>>
          BY <5>1, <5>2 DEF Holds
        <5>4. Content(q) = Content(r) \o Holds(q, k + 1)
          BY <1>8, <1>10, <5>1, ContentNext
        <5>5. PICK c, w : c = Content(r) /\ w = d.value
          OBVIOUS
        <5>6. c \in Seq(Value) /\ w \in Value /\ Flag(TRUE) \in Value
          BY <1>3, <1>8, <5>5, ContentTyped, FlagValues DEF TryType
        <5>7. Len(c \o <<w, Flag(TRUE)>>) = Len(c) + 2 /\ Len(c) \in Nat
          BY <5>6
        <5> QED
          BY <4>1, <5>3, <5>4, <5>5, <5>7
      <4>3. Len(st) = s + a
        <5>1. (HInv /\ CInv /\ ~misled /\ shifted = {} /\ status = "running"
                 => Len(stack) + 1 = F.slots + Len(Content(F.path)))'
          BY ExactHeight, PTL
        <5>2. F' = g
          BY <1>4, <1>6 DEF F
        <5>3. Len(stack') + 1 = g.slots + Len(Content(g.path))
          BY <5>1, <5>2 DEF Even
        <5>4. Len(stack') = Len(st) + 1
          BY <1>5, <3>8, FlagValues, AppendFacts
        <5>5. Len(st) + 1 + 1 = s + (a + 2)
          BY <1>3, <1>4, <1>9, <4>2, <5>3, <5>4
        <5> QED
          BY <1>5, <4>2, <5>5
      <4>4. u < s + a
        <5>1. PICK f, z, l : f = fs[i] /\ z = fs[i].slots /\ l = Len(Content(fs[i].path))
          OBVIOUS
        <5>2. z \in Nat /\ l \in Nat /\ z + l <= Len(st)
          BY <1>4, <5>1, AloftFacts
        <5>3. f.path \in Seq(Construct) /\ Tidy(f.path) /\ f.slots \in Nat
          BY <1>4, <5>1, AloftFacts
        <5>4. u < z + l
          BY <1>14, <5>1, <5>3, OwnedIs
        <5>5. u < Len(st)
          BY <1>5, <1>12, <5>2, <5>4
        <5> QED
          BY <4>3, <5>5
      <4>5. a <= b
        <5>1. Ahead(r, p)
          BY <1>4, <1>5, <1>8, PrefixAhead
        <5> QED
          BY <3>5, <4>1, <5>1 DEF Ahead, Begins
      <4>6. CASE i # j
        <5>1. FALSE
          BY <1>5, <1>12, <3>2, <3>4, <3>6, <4>2, <4>4, <4>5, <4>6
        <5> QED
          BY <5>1
      <4>7. CASE i = j
        <5>1. PICK e, D : e = Len(Flags(r)) /\ D = Dropped(p, k)
          OBVIOUS
        <5>2. Flags(p) = Flags(r) \o D /\ D \in Seq(BOOLEAN) /\ Flags(r) \in Seq(BOOLEAN) /\ e \in Nat
          BY <1>4, <1>5, <1>8, <5>1, FlagsDropped, FlagsTyped, ContentLen
        <5>3. /\ Len(Flags(p)) = e + Len(D) /\ Len(D) \in Nat
              /\ \A x \in 1..e : Flags(p)[x] = Flags(r)[x]
          BY <5>1, <5>2
        <5>4. PICK x \in 1..Len(Flags(p)) : Flags(p)[x] = TRUE /\ u = s + x - 1
          BY <1>4, <1>14, <4>7 DEF Owned
        <5>5. x <= e
          <6>1. SUFFICES ASSUME x > e PROVE FALSE
            BY <5>2, <5>3
          <6>2. Len(Flags(r)) < Len(Flags(p))
            BY <5>1, <5>2, <5>3, <5>4, <6>1
          <6>3. \A f, o \in 1..Len(p) :
                  p[f].kind = "try" /\ p[f].phase \in {"finally", "raised"} /\ f < o => p[o].locals = <<>>
            BY <1>5 DEF Free
          <6>4. r = SubSeq(p, 1, k)
            BY <1>4
          <6>5. a = e
            BY <1>5, <1>8, <4>1, <5>1, <6>2, <6>3, <6>4, BareBelow
          <6> QED
            BY <1>5, <4>2, <4>4, <5>2, <5>3, <5>4, <6>1, <6>5
        <5>6. x \in 1..e /\ Flags(r)[x] = TRUE
          BY <5>2, <5>3, <5>4, <5>5
        <5>7. Owned(g, u)
          BY <1>3, <1>4, <1>9, <1>10, <5>1, <5>4, <5>6 DEF Owned
        <5>8. j \in 1..Len(gs)
          BY <1>4, <1>5, <1>6
        <5> QED
          BY <1>6, <5>7, <5>8 DEF Owns
      <4> QED
        BY <4>6, <4>7
    <3> QED
      BY <3>7, <3>8
  <2> QED
    BY <1>4, <1>5, <2>1, <2>2
<1> QED
  BY <1>4, <1>5, <1>12, <1>13, <1>14 DEF Owns

LEMMA LeftAlike ==
  ASSUME NEW S, NEW fs \in Seq(FrameType(S))
  PROVE  Alike(fs, Left(fs))
<1>1. PICK gs : gs = Left(fs)
  OBVIOUS
<1>2. gs = [j \in 1..Len(fs) |-> [fs[j] EXCEPT !.left = TRUE]] /\ Len(fs) \in Nat
  BY <1>1 DEF Left
<1>3. PICK R : R = FrameType(S)
  OBVIOUS
<1>4. ASSUME NEW j \in 1..Len(fs)
      PROVE  gs[j] \in R /\ gs[j].slots = fs[j].slots /\ gs[j].path = fs[j].path
  <2>1. fs[j] \in FrameType(S)
    OBVIOUS
  <2>2. PICK f : f = fs[j]
    OBVIOUS
  <2>3. gs[j] = [f EXCEPT !.left = TRUE] /\ f \in FrameType(S)
    BY <1>2, <2>1, <2>2
  <2> QED
    BY <1>3, <2>2, <2>3 DEF FrameType
<1>5. gs \in [1..Len(fs) -> R]
  BY <1>2, <1>4
<1>6. gs \in Seq(R) /\ Len(gs) = Len(fs)
  BY <1>2, <1>5, SeqIs
<1>7. fs = <<>> <=> gs = <<>>
  <2>1. fs = <<>> <=> Len(fs) = 0
    BY EmptySeq
  <2>2. gs = <<>> <=> Len(gs) = 0
    BY <1>6, EmptySeq
  <2> QED
    BY <1>6, <2>1, <2>2
<1> QED
  BY <1>1, <1>4, <1>6, <1>7 DEF Alike

LEMMA PropagateOwns ==
  ASSUME Even, status = "running", NEW st, NEW fs, NEW v, Aloft(st, fs, v), Propagate(fs, v, st)
  PROVE  StillOwned
<1>1. PICK S : fs \in Seq(FrameType(S))
  BY AloftFacts
<1>2. /\ st \in Seq(Value) /\ Covered(st, fs, Len(st) + 1, {}) /\ Len(fs) \in Nat /\ MaxHandlers \in Nat
      /\ Len(fs) >= 1 /\ Len(st) \in Nat
  BY AloftFacts, ExceptionsAssumption
<1>3. \A u \in open : u \in Nat /\ Owns(fs, 1, u)
  BY DEF Aloft
<1>4. CASE v \notin {Instance(c) : c \in Class}
  <2>1. open' = open /\ frames' = Left(fs)
    BY <1>4 DEF Propagate
  <2>2. Alike(fs, Left(fs))
    BY <1>1, LeftAlike
  <2>3. \A u \in open' : u \in Nat /\ Owns(frames', Len(stack') + 1, u)
    BY <1>2, <1>3, <2>1, <2>2, OwnsAlike
  <2> QED
    BY <2>3 DEF StillOwned
<1>5. CASE v \in {Instance(c) : c \in Class} /\ Takers(fs, v) = {}
  <2>1. stack' = st /\ open' = open /\ frames' = <<>>
    BY <1>5 DEF Propagate
  <2>2. ASSUME NEW u \in open PROVE u \in Nat /\ u < Len(st) + 1
    <3>1. u \in Nat /\ Owns(fs, 1, u)
      BY <1>3
    <3>2. Alike(fs, fs)
      BY DEF Alike
    <3>3. Owns(fs, Len(st) + 1, u)
      BY <1>2, <3>1, <3>2, OwnsAlike
    <3> QED
      BY <1>2, <3>1, <3>3, OpenBelow
  <2> QED
    BY <2>1, <2>2 DEF StillOwned, Owns
<1>6. CASE v \in {Instance(c) : c \in Class} /\ Takers(fs, v) # {}
  <2>1. PICK t : t = Innermost(Takers(fs, v))
    OBVIOUS
  <2>2. PICK h : h = fs[t[1]].handlers[t[2]]
    OBVIOUS
  <2>3. t \in Takers(fs, v)
    <3>1. Takers(fs, v) \subseteq (1..Len(fs)) \X (1..MaxHandlers)
      BY DEF Takers
    <3> QED
      BY <1>2, <1>6, <2>1, <3>1, InnermostIs
  <2>4. t[1] \in 1..Len(fs) /\ t[2] \in 1..Len(fs[t[1]].handlers)
    <3>1. t \in (1..Len(fs)) \X (1..MaxHandlers) /\ t[2] <= Len(fs[t[1]].handlers)
      BY <2>3 DEF Takers
    <3>2. t[1] \in 1..Len(fs) /\ t[2] \in 1..MaxHandlers
      BY <3>1
    <3>3. fs[t[1]].handlers \in Seq(Handler)
      <4>1. fs[t[1]] \in FrameType(S)
        BY <1>1, <3>2
      <4> QED
        BY <4>1 DEF FrameType
    <3> QED
      BY <1>2, <3>1, <3>2, <3>3
  <2>5. CASE open' = {}
    BY <2>5 DEF StillOwned
  <2>6. CASE open' # {}
    <3>1. PICK phase \in {"landed", "raised"} :
            /\ frames' = Landing(fs, t[1], t[2], phase, v) /\ status' = "running"
            /\ phase = "landed" => open' = Closing(fs[t[1]].slots)
            /\ phase = "raised" => stack' = Append(st, Flag(TRUE)) /\ open' = open
      <4>1. /\ v = Instance(h.class) => h.catch
            /\ v = Instance(h.class) => /\ open' = Closing(fs[t[1]].slots) /\ status' = status
                                        /\ frames' = Landing(fs, t[1], t[2], "landed", v)
            /\ v # Instance(h.class) => /\ stack' = Append(st, Flag(TRUE)) /\ open' = open
                                        /\ status' = status
                                        /\ frames' = Landing(fs, t[1], t[2], "raised", v)
        BY <1>6, <2>1, <2>2, <2>6 DEF Propagate, Stray
      <4> QED
        BY <4>1
    <3>2. v \in Value
      BY <1>6 DEF Value, Thrown
    <3> QED
      BY <2>4, <3>1, <3>2, LandingOwns
  <2> QED
    BY <2>5, <2>6
<1> QED
  BY <1>4, <1>5, <1>6

LEMMA EvenKind ==
  ASSUME Even
  PROVE  /\ Kind({}) /\ ~Misreads
         /\ \A j \in 1..Len(frames) : Free(frames[j].path)
<1>1. Kind({})
  BY DEF Even, CInv, Kind
<1>2. ~Misreads
  BY EvenFacts, MisreadShifted DEF Even
<1>3. ASSUME NEW j \in 1..Len(frames) PROVE Free(frames[j].path)
  <2>1. PICK f, top : f = frames[j] /\ top = Above(frames, j, Len(stack) + 1)
    OBVIOUS
  <2>2. ~Loose(f, top)
    BY <2>1 DEF Even, CInv, Snug
  <2> QED
    BY <2>1, <2>2 DEF Loose, Free
<1> QED
  BY <1>1, <1>2, <1>3

LEMMA ThrowOwns ==
  ASSUME Even, NEW v \in Thrown, Throw(v)
  PROVE  StillOwned
<1>1. Kind({}) /\ Ready
  BY EvenKind, EvenFacts
<1>2. PICK st : st = Append(stack, v)
  OBVIOUS
<1>3. status = "running" /\ Flying(st, frames, v, {}) /\ Propagate(frames, v, st)
  BY <1>1, <1>2, ThrowFlies
<1>4. Len(frames) \in Nat /\ Len(frames) >= 1
  BY <1>1, <1>3, ReadyFacts
<1>5. Alike(frames, frames)
  BY DEF Alike
<1>6. \A u \in open : u \in Nat /\ Owns(frames, 1, u)
  BY <1>4, <1>5, EvenFacts, OwnsAlike
<1>7. Aloft(st, frames, v)
  BY <1>3, <1>6, EvenKind DEF Aloft
<1> QED
  BY <1>3, <1>7, PropagateOwns

LEMMA ReraiseOwns ==
  ASSUME Even, Reraise
  PROVE  StillOwned
<1>1. Kind({}) /\ Ready /\ ~In("finally")
  BY EvenKind, EvenFacts DEF Misreads
<1>2. CASE open' = {}
  BY <1>2 DEF StillOwned
<1>3. CASE open' # {}
  <2>1. PICK fs : Aflight(fs, {})
    BY <1>1, <1>3, ReraiseFlies
  <2>2. PICK st, v : st = Front(stack) /\ v = stack[Len(stack) - 1]
    OBVIOUS
  <2>3. Flying(st, fs, v, {}) /\ Propagate(fs, v, st) /\ status = "running" /\ Alike(frames, fs)
    BY <2>1, <2>2 DEF Aflight
  <2>4. Len(frames) \in Nat /\ Len(frames) >= 1
    BY <1>1, <2>3, ReadyFacts
  <2>5. \A u \in open : u \in Nat /\ Owns(fs, 1, u)
    BY <2>3, <2>4, EvenFacts, OwnsAlike
  <2>6. \A j \in 1..Len(fs) : Free(fs[j].path)
    <3>1. Len(fs) = Len(frames)
      BY <2>3 DEF Alike
    <3> QED
      BY <2>1, <3>1, EvenKind DEF Aflight
  <2>7. Aloft(st, fs, v)
    BY <2>3, <2>5, <2>6 DEF Aloft
  <2> QED
    BY <2>3, <2>7, PropagateOwns
<1> QED
  BY <1>2, <1>3

LEMMA NextOwns ==
  ASSUME Even, Next
  PROVE  StillOwned
<1>1. CASE Statements
  <2>1. ASSUME NEW captured \in BOOLEAN, DeclareLocal(captured) PROVE StillOwned
    BY <2>1, DeclareLocalOwns
  <2>2. ASSUME NEW again \in BOOLEAN, LeaveLoop(again) PROVE StillOwned
    BY <2>2, LeaveLoopOwns
  <2>3. CASE BeginBlock \/ BeginLoop
    BY <2>3, BeginBlockOwns
  <2>4. CASE EndBlock
    BY <2>4, EndBlockOwns
  <2>5. CASE EndLoop
    BY <2>5, EndLoopOwns
  <2> QED
    BY <1>1, <2>1, <2>2, <2>3, <2>4, <2>5 DEF Statements
<1>2. CASE TryStatements
  <2>1. ASSUME NEW c \in Class, NEW kind \in Kinds, BeginTry(c, kind) PROVE StillOwned
    BY <2>1, BeginTryOwns
  <2>2. ASSUME NEW captured \in BOOLEAN, EnterCatch(captured) PROVE StillOwned
    BY <2>2, EnterCatchOwns
  <2>3. ASSUME NEW v \in Thrown, Throw(v) PROVE StillOwned
    BY <2>3, ThrowOwns
  <2>4. CASE EndTry \/ EndCatch
    BY <2>4, AfterTryOwns
  <2>5. CASE EndFinally \/ Resume
    BY <2>5, EndFinallyOwns
  <2>6. CASE Reraise
    BY <2>6, ReraiseOwns
  <2> QED
    BY <1>2, <2>1, <2>2, <2>3, <2>4, <2>5, <2>6 DEF TryStatements
<1>3. CASE Calls
  <2>1. CASE NewLine \/ Call
    BY <2>1, CallOwns
  <2>2. CASE Return
    BY <2>2, ReturnOwns
  <2>3. CASE RuntimeError
    <3>1. open' = {}
      BY <2>3 DEF RuntimeError, ResetStack
    <3> QED
      BY <3>1 DEF StillOwned
  <2> QED
    BY <1>3, <2>1, <2>2, <2>3 DEF Calls
<1> QED
  BY <1>1, <1>2, <1>3 DEF Next

LEMMA OInvStep ==
  ASSUME ~Leaving, HInv, CInv, OInv, Next
  PROVE  OInv'
<1>1. HInv' /\ CInv'
  BY NextStep, CInvStep
<1>2. SUFFICES ASSUME 0 \notin shifted' PROVE StillOwned
  BY DEF OInv, StillOwned
<1>3. CASE open' = {}
  BY <1>3 DEF StillOwned
<1>4. CASE open' # {}
  <2>1. shifted' = {} /\ ~misled'
    BY <1>1, <1>2 DEF CInv
  <2>2. PICK kept : kept = (stack' # <<>> \/ frames' # <<>> \/ open' # {})
    OBVIOUS
  <2>3. shifted' = {j \in 0..Len(frames') :
                      \/ j \in shifted /\ kept
                      \/ \E i \in 1..Len(frames') : i \notin shifted /\ j \in {0, i} /\ Shifts(i)'}
    BY <2>2 DEF Next
  <2>4. kept /\ 0 \in 0..Len(frames')
    <3>1. Len(frames') \in Nat
      BY <1>1 DEF HInv, Good
    <3>2. kept
      BY <1>4, <2>2
    <3>3. 0 \in 0..Len(frames')
      BY <3>1
    <3> QED
      BY <3>2, <3>3
  <2>5. 0 \notin shifted
    BY <1>2, <2>3, <2>4
  <2>6. shifted = {} /\ ~misled
    BY <2>5 DEF CInv
  <2> QED
    BY <1>1, <2>1, <2>6, NextOwns DEF Even
<1> QED
  BY <1>3, <1>4

(* As long as no frame was shifted, each open upvalue is that of a local   *)
(* that a closure captured and whose block has not ended, or lies below    *)
(* all frames: whatever ends a block, a loop, a catch, a call or a line,   *)
(* by running to its end, by break and continue, or by a throw through any *)
(* number of frames, closes the upvalues of the locals that go.            *)
THEOREM OpenInvariant == ASSUME ~Leaving PROVE Spec => [](HInv /\ CInv /\ OInv)
<1>1. Init => OInv
  BY DEF Init, OInv
<1>2. HInv /\ CInv /\ OInv /\ [Next]_vars => OInv'
  <2>1. OInv /\ UNCHANGED vars => OInv'
    <3>1. SUFFICES ASSUME OInv, UNCHANGED vars PROVE OInv'
      OBVIOUS
    <3>2. stack' = stack /\ frames' = frames /\ open' = open /\ shifted' = shifted
      BY <3>1 DEF vars
    <3> QED
      BY <3>1, <3>2 DEF OInv
  <2> QED
    BY <2>1, OInvStep
<1> QED
  BY <1>1, <1>2, ContentInvariant, PTL DEF Spec

(* No upvalue of vm.openUpvalues points above the stack, across throws,    *)
(* lines and errors, as long as no frame was shifted.                      *)
THEOREM OpenUpvaluesInStack == ASSUME ~Leaving PROVE Spec => []OpenInStack
<1>1. HInv /\ CInv /\ OInv => OpenInStack
  <2>1. SUFFICES ASSUME HInv, CInv, OInv, 0 \notin shifted, NEW u \in open PROVE u <= Len(stack)
    BY DEF OpenInStack
  <2>2. Covered(stack, frames, Len(stack) + 1, shifted)
    BY <2>1 DEF CInv
  <2>3. u \in Nat /\ Owns(frames, Len(stack) + 1, u)
    BY <2>1 DEF OInv
  <2>4. u < Len(stack) + 1
    BY <2>2, <2>3, OpenBelow
  <2>5. Len(stack) \in Nat
    BY <2>2 DEF Covered
  <2> QED
    BY <2>3, <2>4, <2>5
<1> QED
  BY <1>1, OpenInvariant, PTL

=============================================================================
