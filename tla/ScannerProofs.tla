---------------------------- MODULE ScannerProofs ----------------------------
(***************************************************************************)
(* The scanner, for any text: nothing but blanks and comments lies between *)
(* the tokens, each is the longest text of its kind at its place and tells *)
(* its line and column, and the scanner leaves the text behind an error    *)
(* only.                                                                   *)
(*                                                                         *)
(* skipWhitespace and string() are functions on the places up to the end   *)
(* of the text; that there are such functions is proved from the end back, *)
(* as a place from which none begins cannot be the last such place.  Their *)
(* values are then unfolded one round at a time.  Esc(n, i) says without   *)
(* them that the character after i others is escaped, from the parity of   *)
(* the backslashes before it; Segment is what a round of string() takes.   *)
(* LineIs and StartsAt say of a place what Lines and LineStart compute.    *)
(*                                                                         *)
(* The invariant keeps for every token the places it was read between      *)
(* (TokenFacts) and, until one holds a line end, its line and column        *)
(* (PlaceFacts), and for the scanner the line and column it has counted.   *)
(***************************************************************************)
EXTENDS Scanner, SequenceTheorems, WellFoundedInduction, TLAPS

-----------------------------------------------------------------------------
(* Numbers *)

LEMMA NaturalsHaveLeast ==
  ASSUME NEW S, S \subseteq Nat, S # {}
  PROVE  \E i \in S : \A j \in S : i <= j
<1>1. IsWellFoundedOn(OpToRel(<, Nat), Nat)
  BY NatLessThanWellFounded
<1>2. PICK x \in S : \A y \in S : <<y, x>> \notin OpToRel(<, Nat)
  BY <1>1, WFMin
<1>3. \A y \in S : ~(y < x)
  BY <1>2 DEF OpToRel
<1> QED
  BY <1>3

LEMMA BoundedHaveGreatest ==
  ASSUME NEW b \in Nat, NEW S, S \subseteq 0..b, S # {}
  PROVE  \E i \in S : \A j \in S : j <= i
<1> DEFINE R == {b - y : y \in S}
<1>1. \A y \in S : b - y \in Nat /\ y \in Nat
  OBVIOUS
<1>2. R \subseteq Nat /\ R # {}
  BY <1>1
<1> HIDE DEF R
<1>3. PICK r \in R : \A q \in R : r <= q
  BY <1>2, NaturalsHaveLeast
<1>4. PICK i \in S : r = b - i
  BY <1>3 DEF R
<1>5. ASSUME NEW j \in S PROVE j <= i
  <2>1. b - j \in R
    BY DEF R
  <2> QED
    BY <1>1, <1>3, <1>4, <2>1
<1> QED
  BY <1>5

-----------------------------------------------------------------------------
(* Characters *)

Named == {"NUL", "\n", "\"", "\\", "."}

(* the letters in two halves *)
Small == {"a", "b", "c", "d", "e", "f", "g", "h", "i", "j", "k", "l", "m", "n", "o", "p", "q",
          "r", "s", "t", "u", "v", "w", "x", "y", "z"}
Large == {"A", "B", "C", "D", "E", "F", "G", "H", "I", "J", "K", "L", "M", "N", "O", "P", "Q",
          "R", "S", "T", "U", "V", "W", "X", "Y", "Z", "_"}

LEMMA LettersApart ==
  \A c \in Letters : c \notin Named \cup Digits \cup Blanks \cup Single
<1>1. Letters = Small \cup Large
  BY DEF Letters, Small, Large
<1>2. \A c \in Small : c \notin Digits
  BY DEF Small, Digits, OctDigits
<1>3. \A c \in Large : c \notin Digits
  BY DEF Large, Digits, OctDigits
<1>4. \A c \in Small : c \notin Named \cup Blanks
  BY DEF Small, Named, Blanks
<1>5. \A c \in Large : c \notin Named \cup Blanks
  BY DEF Large, Named, Blanks
<1>6. \A c \in Small : c \notin Single
  BY DEF Small, Single
<1>7. \A c \in Large : c \notin Single
  BY DEF Large, Single
<1> QED
  BY <1>1, <1>2, <1>3, <1>4, <1>5, <1>6, <1>7

LEMMA DigitsApart ==
  \A c \in Digits : c \notin Named \cup Blanks \cup Single
BY DEF Digits, OctDigits, Blanks, Single, Named

LEMMA PeekIs ==
  ASSUME source \in Texts
  PROVE  /\ Len(source) \in Nat /\ source \in Seq(STRING)
         /\ \A n \in 0..Len(source) :
              /\ n < Len(source) => Peek(n) = source[n + 1] /\ Peek(n) # "NUL"
              /\ n = Len(source) => Peek(n) = "NUL"
              /\ PeekNext(n) = IF n < Len(source) THEN Peek(n + 1) ELSE "NUL"
              /\ AtEnd(n) <=> n = Len(source)
BY DEF Texts, Peek, PeekNext, AtEnd

(* where the loops over characters stop *)
LEMMA PastIs ==
  ASSUME source \in Texts, NEW n \in 0..Len(source), NEW S, "NUL" \notin S
  PROVE  /\ Past(n, S) \in n..Len(source)
         /\ \A i \in n..(Past(n, S) - 1) : Peek(i) \in S
         /\ Peek(Past(n, S)) \notin S
<1>1. Len(source) \in Nat /\ Peek(Len(source)) \notin S
  BY PeekIs
<1> DEFINE M == {m \in n..Len(source) : Peek(m) \notin S}
<1>2. M \subseteq Nat /\ M # {}
  BY <1>1
<1>3. PICK m \in M : \A j \in M : m <= j
  BY <1>2, NaturalsHaveLeast
<1>4. \A i \in n..(m - 1) : Peek(i) \in S
  BY <1>1, <1>3
<1> QED
  BY <1>3, <1>4 DEF Past

LEMMA UntilIs ==
  ASSUME source \in Texts, NEW n \in 0..Len(source), NEW S
  PROVE  /\ Until(n, S) \in n..Len(source)
         /\ \A i \in n..(Until(n, S) - 1) : Peek(i) \notin S
         /\ Peek(Until(n, S)) \in S \cup {"NUL"}
<1>1. Len(source) \in Nat /\ Peek(Len(source)) = "NUL"
  BY PeekIs
<1> DEFINE M == {m \in n..Len(source) : Peek(m) \in S \cup {"NUL"}}
<1>2. M \subseteq Nat /\ M # {}
  BY <1>1
<1>3. PICK m \in M : \A j \in M : m <= j
  BY <1>2, NaturalsHaveLeast
<1>4. \A i \in n..(m - 1) : Peek(i) \notin S
  BY <1>1, <1>3
<1> QED
  BY <1>3, <1>4 DEF Until

-----------------------------------------------------------------------------
(* Blanks and comments *)

(* the recursion of SkipWhitespace *)
OverNewline(r) == [at |-> r.at, lines |-> r.lines + 1, set |-> TRUE,
                   columns |-> IF r.set THEN r.columns ELSE r.columns + 1]
OverBlank(r) == IF r.set THEN r ELSE [r EXCEPT !.columns = @ + 1]
Halt(m) == [at |-> m, lines |-> 0, columns |-> 0, set |-> FALSE]
SkipBody(skip, m) ==
  CASE Peek(m) = "\n" -> OverNewline(skip[m + 1])
    [] Peek(m) \in Blanks \ {"\n"} -> OverBlank(skip[m + 1])
    [] CommentAt(m) -> skip[Until(m, {"\n"})]
    [] OTHER -> Halt(m)
Skips(skip, n) == skip = [m \in n..Len(source) |-> SkipBody(skip, m)]

(* where a comment leads *)
LEMMA CommentIs ==
  ASSUME source \in Texts, NEW m \in 0..Len(source), CommentAt(m), NEW e, e = Until(m, {"\n"})
  PROVE  /\ m + 2 <= Len(source) /\ Peek(m) \notin Blanks
         /\ source[m + 1] = "/" /\ source[m + 2] = "/"
         /\ e \in (m + 2)..Len(source) /\ Peek(e) \in {"\n", "NUL"}
         /\ \A p \in (m + 1)..e : source[p] # "\n"
<1>1. PICK L : L = Len(source)
  OBVIOUS
<1>2. L \in Nat /\ m \in 0..L /\ Peek(L) = "NUL"
  BY <1>1, PeekIs
<1>3. Peek(m) = "/" /\ PeekNext(m) = "/" /\ Peek(m) \notin Blanks
  BY DEF CommentAt, Blanks
<1>4. m < L
  BY <1>2, <1>3
<1>5. Peek(m) = source[m + 1] /\ PeekNext(m) = Peek(m + 1)
  BY <1>1, <1>4, PeekIs
<1>6. m + 1 < L
  BY <1>2, <1>3, <1>4, <1>5
<1>7. Peek(m + 1) = source[m + 2]
  BY <1>1, <1>2, <1>6, PeekIs
<1>8. /\ e \in m..L /\ Peek(e) \in {"\n", "NUL"}
      /\ \A i \in m..(e - 1) : Peek(i) # "\n"
  BY <1>1, UntilIs
<1>9. e # m /\ e # m + 1
  BY <1>3, <1>5, <1>8
<1>10. \A p \in (m + 1)..e : source[p] = Peek(p - 1)
  <2>1. ASSUME NEW p \in (m + 1)..e PROVE source[p] = Peek(p - 1)
    <3>1. p - 1 \in 0..L /\ p - 1 < L /\ (p - 1) + 1 = p
      BY <1>2, <1>8
    <3> QED
      BY <1>1, <3>1, PeekIs
  <2> QED
    BY <2>1
<1>11. \A p \in (m + 1)..e : source[p] # "\n"
  BY <1>2, <1>8, <1>10
<1> QED
  BY <1>1, <1>2, <1>3, <1>4, <1>5, <1>6, <1>7, <1>8, <1>9, <1>11

LEMMA BlankInside ==
  ASSUME source \in Texts, NEW m \in 0..Len(source), Peek(m) \in Blanks
  PROVE  m < Len(source) /\ source[m + 1] = Peek(m)
<1>1. "NUL" \notin Blanks
  BY DEF Blanks
<1> QED
  BY <1>1, PeekIs

LEMMA SkipBodyAgrees ==
  ASSUME source \in Texts, NEW m \in 0..Len(source), NEW f, NEW g,
         \A i \in (m + 1)..Len(source) : f[i] = g[i]
  PROVE  SkipBody(f, m) = SkipBody(g, m)
<1>1. PICK L : L = Len(source) /\ L \in Nat
  BY PeekIs
<1>2. CASE Peek(m) \in Blanks
  <2>1. f[m + 1] = g[m + 1]
    BY <1>1, <1>2, BlankInside
  <2>2. CASE Peek(m) = "\n"
    BY <2>1, <2>2 DEF SkipBody
  <2>3. CASE Peek(m) \in Blanks \ {"\n"}
    BY <2>1, <2>3 DEF SkipBody
  <2> QED
    BY <1>2, <2>2, <2>3
<1>3. CASE Peek(m) \notin Blanks /\ CommentAt(m)
  <2>1. PICK e : e = Until(m, {"\n"})
    OBVIOUS
  <2>2. f[e] = g[e]
    BY <1>1, <1>3, <2>1, CommentIs
  <2> QED
    BY <1>3, <2>1, <2>2 DEF SkipBody, Blanks
<1>4. CASE Peek(m) \notin Blanks /\ ~CommentAt(m)
  BY <1>4 DEF SkipBody, Blanks
<1> QED
  BY <1>2, <1>3, <1>4

LEMMA SkipsExist ==
  ASSUME source \in Texts, NEW n \in 0..Len(source)
  PROVE  \E f : Skips(f, n)
<1>1. PICK L : L = Len(source) /\ L \in Nat
  BY PeekIs
<1>2. PICK S : S = {k \in 0..(L + 1) : ~\E f : Skips(f, k)}
  OBVIOUS
<1>3. SUFFICES ASSUME S # {} PROVE FALSE
  <2>1. n \in 0..(L + 1) /\ n \notin S
    BY <1>1, <1>3
  <2> QED
    BY <1>2, <2>1
<1>4. S \subseteq 0..(L + 1) /\ L + 1 \in Nat
  BY <1>1, <1>2
<1>5. PICK k \in S : \A j \in S : j <= k
  BY <1>3, <1>4, BoundedHaveGreatest
<1>6. k \in 0..(L + 1) /\ ~\E f : Skips(f, k)
  BY <1>2, <1>5
<1>7. CASE k = L + 1
  <2>1. k..L = {}
    BY <1>1, <1>7
  <2>2. PICK f : f = [m \in {} |-> 0]
    OBVIOUS
  <2>3. f = [m \in {} |-> SkipBody(f, m)]
    BY <2>2
  <2>4. Skips(f, k)
    BY <1>1, <2>1, <2>3 DEF Skips
  <2> QED
    BY <1>6, <2>4
<1>8. CASE k # L + 1
  <2>1. k \in 0..L /\ k + 1 \in 0..(L + 1) /\ k + 1 \notin S
    BY <1>1, <1>6, <1>8, <1>5
  <2>2. PICK f : Skips(f, k + 1)
    BY <1>2, <2>1
  <2>3. \A m \in (k + 1)..L : f[m] = SkipBody(f, m)
    BY <1>1, <2>2 DEF Skips
  <2>4. PICK g : g = [m \in k..L |-> IF m = k THEN SkipBody(f, k) ELSE f[m]]
    OBVIOUS
  <2>5. \A m \in (k + 1)..L : g[m] = f[m]
    BY <1>1, <2>1, <2>4
  <2>6. ASSUME NEW m \in k..L PROVE g[m] = SkipBody(g, m)
    <3>1. \A i \in (m + 1)..L : f[i] = g[i]
      BY <1>1, <2>1, <2>5
    <3>2. m \in 0..L
      BY <2>1
    <3>3. SkipBody(f, m) = SkipBody(g, m)
      BY <1>1, <3>1, <3>2, SkipBodyAgrees
    <3>4. g[m] = SkipBody(f, m)
      <4>1. CASE m = k
        BY <2>4, <4>1
      <4>2. CASE m # k
        BY <1>1, <2>1, <2>3, <2>5, <4>2
      <4> QED
        BY <4>1, <4>2
    <3> QED
      BY <3>3, <3>4
  <2>7. g = [m \in k..L |-> SkipBody(g, m)]
    BY <2>4, <2>6
  <2>8. Skips(g, k)
    BY <1>1, <2>7 DEF Skips
  <2> QED
    BY <1>6, <2>8
<1> QED
  BY <1>7, <1>8

LEMMA SkipWhitespaceIs ==
  ASSUME source \in Texts, NEW n \in 0..Len(source)
  PROVE  \E f : /\ \A m \in n..Len(source) : f[m] = SkipBody(f, m)
                /\ SkipWhitespace(n) = f[n]
<1>1. PICK f : f = CHOOSE g : Skips(g, n)
  OBVIOUS
<1>2. Skips(f, n)
  BY <1>1, SkipsExist
<1>3. SkipWhitespace(n) = (CHOOSE g : Skips(g, n))[n]
  BY DEF SkipWhitespace, Skips, SkipBody, OverNewline, OverBlank, Halt
<1>4. \A m \in n..Len(source) : f[m] = SkipBody(f, m)
  BY <1>2 DEF Skips
<1> QED
  BY <1>1, <1>3, <1>4

SkipType == [at : Nat, lines : Nat, columns : Nat, set : BOOLEAN]

(* what stands between two places is no part of the program *)
Gap(from, to) ==
  \A p \in (from + 1)..to :
    \/ source[p] \in Blanks \/ Commented(p, from)
    \/ p < to /\ source[p] = "/" /\ source[p + 1] = "/"

(* from place m the scanner goes on at r.at *)
Skipped(m, r) ==
  /\ r \in SkipType /\ r.at \in m..Len(source)
  /\ Peek(r.at) \notin Blanks /\ ~CommentAt(r.at)
  /\ Gap(m, r.at)

(* a gap grows at its front by what is blank or a comment *)
LEMMA GapGrows ==
  ASSUME NEW m \in Nat, NEW e \in Nat, NEW to \in Nat, m <= e, Gap(e, to),
         \A p \in (m + 1)..e :
           source[p] \in Blanks \/ Commented(p, m) \/ (p < to /\ source[p] = "/" /\ source[p + 1] = "/")
  PROVE  Gap(m, to)
<1>1. ASSUME NEW p \in (e + 1)..to, Commented(p, e) PROVE Commented(p, m)
  <2>1. PICK q \in (e + 1)..(p - 1) :
          /\ source[q] = "/" /\ source[q + 1] = "/"
          /\ \A r \in q..p : source[r] # "\n"
    BY <1>1 DEF Commented
  <2>2. q \in (m + 1)..(p - 1)
    BY <2>1
  <2> QED
    BY <2>1, <2>2 DEF Commented
<1>2. ASSUME NEW p \in (m + 1)..to
      PROVE  \/ source[p] \in Blanks \/ Commented(p, m)
             \/ p < to /\ source[p] = "/" /\ source[p + 1] = "/"
  <2>1. CASE p <= e
    <3>1. p \in (m + 1)..e
      BY <2>1
    <3> QED
      BY <3>1
  <2>2. CASE e < p
    <3>1. p \in (e + 1)..to
      BY <2>2
    <3> QED
      BY <1>1, <3>1 DEF Gap
  <2> QED
    BY <2>1, <2>2
<1> QED
  BY <1>2 DEF Gap

LEMMA BlankSkipped ==
  ASSUME source \in Texts, NEW m \in 0..Len(source), Peek(m) \in Blanks,
         NEW s, Skipped(m + 1, s), NEW r, r \in SkipType, r.at = s.at
  PROVE  Skipped(m, r)
<1>1. PICK L : L = Len(source) /\ L \in Nat
  BY PeekIs
<1>2. m < L /\ source[m + 1] = Peek(m)
  BY <1>1, BlankInside
<1>3. s.at \in (m + 1)..L /\ Gap(m + 1, s.at)
  BY <1>1 DEF Skipped
<1>4. \A p \in (m + 1)..(m + 1) : source[p] \in Blanks
  BY <1>2
<1>5. Gap(m, s.at)
  <2>1. m \in Nat /\ m + 1 \in Nat /\ s.at \in Nat /\ m <= m + 1
    BY <1>1, <1>3
  <2> QED
    BY <1>3, <1>4, <2>1, GapGrows
<1> QED
  BY <1>1, <1>3, <1>5 DEF Skipped

LEMMA CommentSkipped ==
  ASSUME source \in Texts, NEW m \in 0..Len(source), CommentAt(m),
         NEW s, Skipped(Until(m, {"\n"}), s)
  PROVE  Skipped(m, s)
<1>1. PICK L, e : L = Len(source) /\ L \in Nat /\ e = Until(m, {"\n"})
  BY PeekIs
<1>2. /\ e \in (m + 2)..L /\ source[m + 1] = "/" /\ source[m + 2] = "/"
      /\ \A p \in (m + 1)..e : source[p] # "\n"
  BY <1>1, CommentIs
<1>3. s.at \in e..L /\ Gap(e, s.at)
  BY <1>1 DEF Skipped
<1>4. ASSUME NEW p \in (m + 1)..e
      PROVE  source[p] \in Blanks \/ Commented(p, m)
             \/ (p < s.at /\ source[p] = "/" /\ source[p + 1] = "/")
  <2>1. CASE p = m + 1
    BY <1>2, <1>3, <2>1
  <2>2. CASE p # m + 1
    <3>1. m + 1 \in (m + 1)..(p - 1)
      BY <2>2
    <3>2. source[m + 1] = "/" /\ source[(m + 1) + 1] = "/"
      BY <1>2
    <3>3. \A r \in (m + 1)..p : source[r] # "\n"
      BY <1>2
    <3> QED
      BY <3>1, <3>2, <3>3 DEF Commented
  <2> QED
    BY <2>1, <2>2
<1>5. Gap(m, s.at)
  <2>1. m \in Nat /\ e \in Nat /\ s.at \in Nat /\ m <= e
    BY <1>1, <1>2, <1>3
  <2> QED
    BY <1>3, <1>4, <2>1, GapGrows
<1> QED
  BY <1>1, <1>2, <1>3, <1>5 DEF Skipped

(* one round of the loop of skipWhitespace *)
LEMMA SkipRound ==
  ASSUME source \in Texts, NEW m \in 0..Len(source), NEW f,
         \A i \in (m + 1)..Len(source) : Skipped(i, f[i])
  PROVE  Skipped(m, SkipBody(f, m))
<1>1. PICK L : L = Len(source) /\ L \in Nat
  BY PeekIs
<1>2. ASSUME Peek(m) \in Blanks
      PROVE  Skipped(m + 1, f[m + 1]) /\ f[m + 1] \in SkipType
  BY <1>1, <1>2, BlankInside DEF Skipped
<1>3. CASE Peek(m) = "\n"
  <2>1. PICK s, r : s = f[m + 1] /\ r = OverNewline(s)
    OBVIOUS
  <2>2. Peek(m) \in Blanks
    BY <1>3 DEF Blanks
  <2>3. r \in SkipType /\ r.at = s.at
    BY <1>2, <2>1, <2>2 DEF SkipType, OverNewline
  <2>4. SkipBody(f, m) = r
    BY <1>3, <2>1 DEF SkipBody, CommentAt
  <2> QED
    BY <1>2, <2>1, <2>2, <2>3, <2>4, BlankSkipped
<1>4. CASE Peek(m) \in Blanks \ {"\n"}
  <2>1. PICK s, r : s = f[m + 1] /\ r = OverBlank(s)
    OBVIOUS
  <2>2. r \in SkipType /\ r.at = s.at
    BY <1>2, <1>4, <2>1 DEF SkipType, OverBlank
  <2>3. SkipBody(f, m) = r
    BY <1>4, <2>1 DEF SkipBody, CommentAt, Blanks
  <2> QED
    BY <1>2, <1>4, <2>1, <2>2, <2>3, BlankSkipped
<1>5. CASE Peek(m) \notin Blanks /\ CommentAt(m)
  <2>1. PICK e : e = Until(m, {"\n"}) /\ e \in (m + 1)..L
    BY <1>1, <1>5, CommentIs
  <2>2. SkipBody(f, m) = f[e]
    BY <1>5, <2>1 DEF SkipBody, Blanks
  <2> QED
    BY <1>1, <1>5, <2>1, <2>2, CommentSkipped
<1>6. CASE Peek(m) \notin Blanks /\ ~CommentAt(m)
  <2>1. PICK r : r = Halt(m)
    OBVIOUS
  <2>2. SkipBody(f, m) = r
    BY <1>6, <2>1 DEF SkipBody, Blanks
  <2>3. r \in SkipType /\ r.at = m /\ r.at \in m..Len(source)
    BY <1>1, <2>1 DEF SkipType, Halt
  <2>4. Gap(m, m)
    <3>1. (m + 1)..m = {}
      BY <1>1
    <3> QED
      BY <3>1 DEF Gap
  <2> QED
    BY <1>6, <2>2, <2>3, <2>4 DEF Skipped
<1> QED
  BY <1>3, <1>4, <1>5, <1>6 DEF Blanks

-----------------------------------------------------------------------------
(* Strings *)

Quote == "\""
Backslash == "\\"
Newline == "\n"

(* what an escape sequence may have behind its first character *)
Plain == HexDigits \cup {"x"}

LEMMA PlainIs ==
  /\ Quote \notin Plain /\ Backslash \notin Plain /\ Newline \notin Plain /\ "NUL" \notin Plain
  /\ OctDigits \subseteq Plain /\ HexDigits \subseteq Plain
  /\ "NUL" \notin HexDigits /\ "NUL" \notin OctDigits /\ "NUL" \notin Escapable
  /\ "x" \notin Escapable /\ "x" \notin OctDigits /\ Newline \notin Escapable
  /\ \A c \in OctDigits : c \notin Escapable
BY DEF Quote, Backslash, Newline, Plain, HexDigits, Digits, OctDigits, Escapable

RoundType == [error : BOOLEAN, at : Nat, broke : BOOLEAN]

(* the escape sequence whose backslash comes after n characters *)
LEMMA EscapeIs ==
  ASSUME source \in Texts, NEW n \in 0..Len(source), Peek(n) = Backslash, NEW e, e = Escape(n)
  PROVE  /\ n < Len(source) /\ e \in RoundType /\ ~e.broke
         /\ e.error => e.at \in (n + 1)..Len(source)
         /\ ~e.error => e.at \in (n + 2)..Len(source)
         /\ \/ ~e.error /\ e.at = n + 2 /\ Peek(n + 1) \in Escapable
            \/ \A i \in (n + 1)..(e.at - 1) : Peek(i) \in Plain
<1>1. PICK L, m : L = Len(source) /\ L \in Nat /\ m = n + 1
  BY PeekIs
<1>2. n < L /\ m \in 0..L
  BY <1>1, PeekIs DEF Backslash
<1>3. CASE Peek(m) \in Escapable
  <2>1. m < L
    BY <1>1, <1>2, <1>3, PeekIs, PlainIs
  <2>2. e = Good(m + 1)
    BY <1>1, <1>3, PlainIs DEF Escape
  <2> QED
    BY <1>1, <1>2, <1>3, <2>1, <2>2 DEF Good, RoundType
<1>4. CASE Peek(m) = "x"
  <2>1. m < L
    BY <1>1, <1>2, <1>4, PeekIs
  <2>2. PICK h : h = Past(m + 1, HexDigits)
    OBVIOUS
  <2>3. h \in (m + 1)..L /\ \A i \in (m + 1)..(h - 1) : Peek(i) \in HexDigits
    <3>1. m + 1 \in 0..L
      BY <1>1, <1>2, <2>1
    <3> QED
      BY <1>1, <2>2, <3>1, PastIs, PlainIs
  <2>4. e = IF h = m + 1 \/ OutOfRange(m + 1, h, 16) THEN Bad(h) ELSE Good(h)
    BY <1>1, <1>4, <2>2, PlainIs DEF Escape
  <2>5. e \in RoundType /\ e.at = h /\ ~e.broke
    BY <1>1, <1>2, <2>3, <2>4 DEF Good, Bad, RoundType
  <2>6. \A i \in (n + 1)..(h - 1) : Peek(i) \in Plain
    <3>1. ASSUME NEW i \in (n + 1)..(h - 1) PROVE Peek(i) \in Plain
      <4>1. CASE i = m
        BY <1>4, <4>1 DEF Plain
      <4>2. CASE i # m
        BY <1>1, <1>2, <2>3, <4>2, PlainIs
      <4> QED
        BY <4>1, <4>2
    <3> QED
      BY <3>1
  <2> QED
    BY <1>1, <1>2, <2>3, <2>5, <2>6
<1>5. CASE Peek(m) \in OctDigits
  <2>1. m < L
    BY <1>1, <1>2, <1>5, PeekIs, PlainIs
  <2>2. PICK p, o : p = Past(m, OctDigits) /\ o = IF p < m + 3 THEN p ELSE m + 3
    OBVIOUS
  <2>3. /\ p \in m..L /\ Peek(p) \notin OctDigits
        /\ \A i \in m..(p - 1) : Peek(i) \in OctDigits
    BY <1>1, <1>2, <2>2, PastIs, PlainIs
  <2>4. o \in (m + 1)..L /\ \A i \in m..(o - 1) : Peek(i) \in Plain
    <3>1. p # m
      BY <1>5, <2>3
    <3>2. o \in (m + 1)..L /\ o <= p
      BY <1>1, <1>2, <2>2, <2>3, <3>1
    <3> QED
      BY <1>1, <1>2, <2>3, <3>2, PlainIs
  <2>5. e = IF OutOfRange(m, o, 8) THEN Bad(o) ELSE Good(o)
    BY <1>1, <1>5, <2>2, PlainIs DEF Escape
  <2>6. e \in RoundType /\ e.at = o /\ ~e.broke
    BY <1>1, <1>2, <2>4, <2>5 DEF Good, Bad, RoundType
  <2> QED
    BY <1>1, <1>2, <2>4, <2>6
<1>6. CASE Peek(m) \notin Escapable \cup OctDigits \cup {"x"}
  <2>1. e = Bad(m)
    BY <1>1, <1>6 DEF Escape
  <2> QED
    BY <1>1, <1>2, <2>1 DEF Bad, RoundType
<1> QED
  BY <1>3, <1>4, <1>5, <1>6

(* the characters from place n to the next are a round of string() *)
Segment(n, next) ==
  \/ next = n + 1 /\ Peek(n) \notin {Quote, Backslash, Newline, "NUL"}
  \/ next = n + 2 /\ Peek(n) = Backslash /\ Peek(n + 1) \in Escapable
  \/ /\ next >= n + 2 /\ Peek(n) = Backslash
     /\ \A i \in (n + 1)..(next - 1) : Peek(i) \in Plain

LEMMA InsideIs ==
  ASSUME source \in Texts, NEW n \in 0..Len(source), Peek(n) \notin {Quote, "NUL"},
         NEW r, r = Inside(n)
  PROVE  /\ r \in RoundType /\ n < Len(source)
         /\ r.broke => r.error /\ Peek(r.at) = Newline
         /\ ~r.error => r.at \in (n + 1)..Len(source) /\ Segment(n, r.at)
         /\ r.error => /\ r.at \in n..Len(source)
                       /\ \A i \in n..(r.at - 1) : Peek(i) \in Plain \cup {Backslash}
<1>1. PICK L : L = Len(source) /\ L \in Nat
  BY PeekIs
<1>2. n < L /\ n \in Nat
  BY <1>1, PeekIs
<1>3. CASE Peek(n) = Newline
  <2>1. r = Broken(n)
    BY <1>3 DEF Inside, Newline
  <2>2. r.error /\ r.at = n /\ r \in RoundType
    BY <1>2, <2>1 DEF Broken, RoundType
  <2> QED
    BY <1>1, <1>2, <1>3, <2>2
<1>4. CASE Peek(n) = Backslash
  <2>1. r = Escape(n)
    BY <1>4 DEF Inside, Backslash
  <2>2. /\ r \in RoundType /\ ~r.broke
        /\ r.error => r.at \in (n + 1)..L
        /\ ~r.error => r.at \in (n + 2)..L
        /\ \/ ~r.error /\ r.at = n + 2 /\ Peek(n + 1) \in Escapable
           \/ \A i \in (n + 1)..(r.at - 1) : Peek(i) \in Plain
    BY <1>1, <1>4, <2>1, EscapeIs
  <2>3. ~r.error => r.at \in (n + 1)..L /\ Segment(n, r.at)
    BY <1>1, <1>2, <1>4, <2>2 DEF Segment
  <2>4. r.error => r.at \in n..L /\ \A i \in n..(r.at - 1) : Peek(i) \in Plain \cup {Backslash}
    BY <1>1, <1>2, <1>4, <2>2
  <2> QED
    BY <1>1, <1>2, <2>2, <2>3, <2>4
<1>5. CASE Peek(n) \notin {Newline, Backslash}
  <2>1. r = Good(n + 1)
    BY <1>5 DEF Inside, Newline, Backslash
  <2>2. ~r.error /\ r.at = n + 1 /\ r \in RoundType /\ ~r.broke
    BY <1>2, <2>1 DEF Good, RoundType
  <2>3. Segment(n, n + 1)
    BY <1>5 DEF Segment
  <2> QED
    BY <1>1, <1>2, <2>2, <2>3
<1> QED
  BY <1>3, <1>4, <1>5

(* The character after i others is escaped, looked at from place n: the    *)
(* backslashes before it are odd in number.                                *)
Esc(n, i) ==
  \E j \in n..(i - 1) : /\ (i - j) % 2 = 1
                        /\ \A k \in j..(i - 1) : Peek(k) = Backslash
                        /\ j = n \/ Peek(j - 1) # Backslash

LEMMA SegmentEnds ==
  ASSUME NEW n \in Nat, NEW k \in Nat, n < k, Segment(n, k), Peek(k - 1) = Backslash
  PROVE  k = n + 2 /\ Peek(n) = Backslash
<1>1. CASE k = n + 1 /\ Peek(n) \notin {Quote, Backslash, Newline, "NUL"}
  BY <1>1
<1>2. CASE k = n + 2 /\ Peek(n) = Backslash
  BY <1>2
<1>3. CASE k >= n + 2 /\ \A i \in (n + 1)..(k - 1) : Peek(i) \in Plain
  <2>1. k - 1 \in (n + 1)..(k - 1)
    BY <1>3
  <2> QED
    BY <1>3, <2>1, PlainIs
<1> QED
  BY <1>1, <1>2, <1>3 DEF Segment

(* a round of string() ends where nothing is escaped any more *)
LEMMA SegmentKeeps ==
  ASSUME NEW n \in Nat, NEW k \in Nat, n < k, Segment(n, k), NEW i \in Nat, k <= i
  PROVE  Esc(n, i) <=> Esc(k, i)
<1>1. ASSUME Esc(k, i) PROVE Esc(n, i)
  <2>1. PICK j \in k..(i - 1) : /\ (i - j) % 2 = 1
                                /\ \A l \in j..(i - 1) : Peek(l) = Backslash
                                /\ j = k \/ Peek(j - 1) # Backslash
    BY <1>1 DEF Esc
  <2>2. CASE Peek(j - 1) # Backslash
    <3>1. j \in n..(i - 1)
      OBVIOUS
    <3> QED
      BY <2>1, <2>2, <3>1 DEF Esc
  <2>3. CASE Peek(j - 1) = Backslash
    <3>1. j = k /\ k = n + 2 /\ Peek(n) = Backslash
      BY <2>1, <2>3, SegmentEnds
    <3>2. n \in n..(i - 1) /\ (i - n) % 2 = 1
      BY <2>1, <3>1
    <3>3. \A l \in n..(i - 1) : Peek(l) = Backslash
      <4>1. ASSUME NEW l \in n..(i - 1) PROVE Peek(l) = Backslash
        <5>1. l = n \/ l = j - 1 \/ l \in j..(i - 1)
          BY <3>1
        <5> QED
          BY <2>1, <2>3, <3>1, <5>1
      <4> QED
        BY <4>1
    <3> QED
      BY <3>2, <3>3 DEF Esc
  <2> QED
    BY <2>2, <2>3
<1>2. ASSUME Esc(n, i) PROVE Esc(k, i)
  <2>1. PICK j \in n..(i - 1) : /\ (i - j) % 2 = 1
                                /\ \A l \in j..(i - 1) : Peek(l) = Backslash
                                /\ j = n \/ Peek(j - 1) # Backslash
    BY <1>2 DEF Esc
  <2>2. CASE k <= j
    <3>1. j \in k..(i - 1) /\ (j = k \/ Peek(j - 1) # Backslash)
      BY <2>1, <2>2
    <3> QED
      BY <2>1, <3>1 DEF Esc
  <2>3. CASE j < k
    <3>1. k - 1 \in j..(i - 1)
      BY <2>3
    <3>2. k = n + 2 /\ Peek(n) = Backslash
      BY <2>1, <3>1, SegmentEnds
    <3>3. j = n
      <4>1. j = n \/ j = n + 1
        BY <2>3, <3>2
      <4>2. j = n + 1 => j - 1 = n
        OBVIOUS
      <4> QED
        BY <2>1, <3>2, <4>1, <4>2
    <3>4. (i - k) % 2 = 1 /\ k \in k..(i - 1)
      BY <2>1, <3>2, <3>3
    <3>5. \A l \in k..(i - 1) : Peek(l) = Backslash
      BY <2>1, <3>2, <3>3
    <3> QED
      BY <3>4, <3>5 DEF Esc
  <2> QED
    BY <2>2, <2>3
<1> QED
  BY <1>1, <1>2

(* a quote inside of a round is escaped, and a newline is not there *)
LEMMA SegmentHolds ==
  ASSUME NEW n \in Nat, NEW k \in Nat, n < k, Segment(n, k), NEW i \in n..(k - 1)
  PROVE  Peek(i) # Newline /\ (Peek(i) = Quote => Esc(n, i))
<1>1. CASE k = n + 1 /\ Peek(n) \notin {Quote, Backslash, Newline, "NUL"}
  BY <1>1
<1>2. CASE k = n + 2 /\ Peek(n) = Backslash /\ Peek(n + 1) \in Escapable
  <2>1. CASE i = n
    BY <1>2, <2>1 DEF Quote, Backslash, Newline
  <2>2. CASE i # n
    <3>1. i = n + 1 /\ n \in n..(i - 1) /\ (i - n) % 2 = 1
      BY <1>2, <2>2
    <3>2. \A l \in n..(i - 1) : Peek(l) = Backslash
      BY <1>2, <3>1
    <3>3. Esc(n, i)
      BY <3>1, <3>2 DEF Esc
    <3> QED
      BY <1>2, <3>1, <3>3, PlainIs
  <2> QED
    BY <2>1, <2>2
<1>3. CASE Peek(n) = Backslash /\ \A j \in (n + 1)..(k - 1) : Peek(j) \in Plain
  <2>1. CASE i = n
    BY <1>3, <2>1 DEF Quote, Backslash, Newline
  <2>2. CASE i # n
    BY <1>3, <2>2, PlainIs
  <2> QED
    BY <2>1, <2>2
<1> QED
  BY <1>1, <1>2, <1>3 DEF Segment

-----------------------------------------------------------------------------
(* the recursion of string() *)
RoundBody(rounds, n) ==
  IF Peek(n) \in {"\"", "NUL"} THEN Good(n)
  ELSE IF Inside(n).error THEN Inside(n) ELSE rounds[Inside(n).at]
RunsOf(rounds, m) == rounds = [n \in m..Len(source) |-> RoundBody(rounds, n)]

(* From place n, where nothing is escaped, the rounds lead to r: behind    *)
(* escaped quotes only, when nothing was wrong over no newline and to a     *)
(* quote that is not escaped, or to the end, and else to the newline that   *)
(* has been counted, if one has.                                           *)
Chain(n, r) ==
  /\ r \in RoundType /\ r.at \in n..Len(source)
  /\ \A i \in n..(r.at - 1) : Peek(i) = Quote => Esc(n, i)
  /\ r.broke => r.error /\ Peek(r.at) = Newline
  /\ ~r.error => /\ Peek(r.at) \in {Quote, "NUL"} /\ ~Esc(n, r.at)
                 /\ \A i \in n..(r.at - 1) : Peek(i) # Newline

LEMMA RoundIs ==
  ASSUME source \in Texts, NEW n \in 0..Len(source), NEW f,
         \A i \in (n + 1)..Len(source) : Chain(i, f[i])
  PROVE  Chain(n, RoundBody(f, n))
<1>1. PICK L : L = Len(source) /\ L \in Nat
  BY PeekIs
<1>2. CASE Peek(n) \in {Quote, "NUL"}
  <2>1. PICK r : r = Good(n) /\ r = RoundBody(f, n)
    BY <1>2 DEF RoundBody, Quote
  <2>2. r \in RoundType /\ r.at = n /\ ~r.error /\ ~r.broke
    BY <1>1, <2>1 DEF Good, RoundType
  <2>3. n..(n - 1) = {}
    BY <1>1
  <2>4. ~Esc(n, n)
    BY <2>3 DEF Esc
  <2> QED
    BY <1>1, <1>2, <2>1, <2>2, <2>3, <2>4 DEF Chain
<1>3. CASE Peek(n) \notin {Quote, "NUL"}
  <2>1. PICK s : s = Inside(n)
    OBVIOUS
  <2>2. RoundBody(f, n) = IF s.error THEN s ELSE f[s.at]
    BY <1>3, <2>1 DEF RoundBody, Quote
  <2>3. /\ s \in RoundType /\ n < L /\ (s.broke => s.error /\ Peek(s.at) = Newline)
        /\ ~s.error => s.at \in (n + 1)..L /\ Segment(n, s.at)
        /\ s.error => /\ s.at \in n..L
                      /\ \A i \in n..(s.at - 1) : Peek(i) \in Plain \cup {Backslash}
    BY <1>1, <1>3, <2>1, InsideIs
  <2>4. CASE s.error
    <3>1. \A i \in n..(s.at - 1) : Peek(i) # Quote
      BY <2>3, <2>4, PlainIs DEF Quote, Backslash
    <3> QED
      BY <1>1, <2>2, <2>3, <2>4, <3>1 DEF Chain
  <2>5. CASE ~s.error
    <3>1. PICK k, r : k = s.at /\ r = f[k] /\ r = RoundBody(f, n)
      BY <2>2, <2>5
    <3>2. k \in (n + 1)..L /\ Segment(n, k) /\ Chain(k, r) /\ n \in Nat /\ k \in Nat /\ n < k
      <4>1. k \in (n + 1)..L /\ Segment(n, k)
        BY <2>3, <2>5, <3>1
      <4>2. Chain(k, f[k])
        BY <1>1, <4>1
      <4> QED
        BY <1>1, <3>1, <4>1, <4>2
    <3>3. r \in RoundType /\ r.at \in k..L /\ r.at \in Nat /\ k <= r.at
      BY <1>1, <3>2 DEF Chain
    <3>4. ASSUME NEW i \in n..(r.at - 1) PROVE Peek(i) = Quote => Esc(n, i)
      <4>1. CASE i < k
        <5>1. i \in n..(k - 1)
          BY <3>2, <4>1
        <5> QED
          BY <3>2, <5>1, SegmentHolds
      <4>2. CASE k <= i
        <5>1. i \in k..(r.at - 1) /\ i \in Nat
          BY <3>2, <3>3, <4>2
        <5>2. Peek(i) = Quote => Esc(k, i)
          BY <3>2, <5>1 DEF Chain
        <5> QED
          BY <3>2, <4>2, <5>1, <5>2, SegmentKeeps
      <4> QED
        BY <3>2, <3>3, <4>1, <4>2
    <3>5. ASSUME ~r.error
          PROVE  /\ Peek(r.at) \in {Quote, "NUL"} /\ ~Esc(n, r.at)
                 /\ \A i \in n..(r.at - 1) : Peek(i) # Newline
      <4>1. /\ Peek(r.at) \in {Quote, "NUL"} /\ ~Esc(k, r.at)
            /\ \A i \in k..(r.at - 1) : Peek(i) # Newline
        BY <3>2, <3>5 DEF Chain
      <4>2. ~Esc(n, r.at)
        BY <3>2, <3>3, <4>1, SegmentKeeps
      <4>3. ASSUME NEW i \in n..(r.at - 1) PROVE Peek(i) # Newline
        <5>1. i \in n..(k - 1) \/ i \in k..(r.at - 1)
          BY <3>2, <3>3
        <5> QED
          BY <3>2, <4>1, <5>1, SegmentHolds
      <4> QED
        BY <4>1, <4>2, <4>3
    <3>6. r.at \in n..L
      BY <1>1, <3>2, <3>3
    <3>7. r.broke => r.error /\ Peek(r.at) = Newline
      BY <3>2 DEF Chain
    <3> QED
      BY <1>1, <3>1, <3>3, <3>4, <3>5, <3>6, <3>7 DEF Chain
  <2> QED
    BY <2>4, <2>5
<1> QED
  BY <1>2, <1>3

LEMMA RoundsExist ==
  ASSUME source \in Texts, NEW n \in 0..Len(source)
  PROVE  \E f : RunsOf(f, n)
<1>1. PICK L : L = Len(source) /\ L \in Nat
  BY PeekIs
<1>2. PICK S : S = {k \in 0..(L + 1) : ~\E f : RunsOf(f, k)}
  OBVIOUS
<1>3. SUFFICES ASSUME S # {} PROVE FALSE
  <2>1. n \in 0..(L + 1) /\ n \notin S
    BY <1>1, <1>3
  <2> QED
    BY <1>2, <2>1
<1>4. S \subseteq 0..(L + 1) /\ L + 1 \in Nat
  BY <1>1, <1>2
<1>5. PICK k \in S : \A j \in S : j <= k
  BY <1>3, <1>4, BoundedHaveGreatest
<1>6. k \in 0..(L + 1) /\ ~\E f : RunsOf(f, k)
  BY <1>2, <1>5
<1>7. CASE k = L + 1
  <2>1. k..L = {}
    BY <1>1, <1>7
  <2>2. PICK f : f = [m \in {} |-> 0]
    OBVIOUS
  <2>3. f = [m \in {} |-> RoundBody(f, m)]
    BY <2>2
  <2>4. RunsOf(f, k)
    BY <1>1, <2>1, <2>3 DEF RunsOf
  <2> QED
    BY <1>6, <2>4
<1>8. CASE k # L + 1
  <2>1. k \in 0..L /\ k + 1 \in 0..(L + 1) /\ k + 1 \notin S
    BY <1>1, <1>5, <1>6, <1>8
  <2>2. PICK f : RunsOf(f, k + 1)
    BY <1>2, <2>1
  <2>3. \A m \in (k + 1)..L : f[m] = RoundBody(f, m)
    BY <1>1, <2>2 DEF RunsOf
  <2>4. PICK g : g = [m \in k..L |-> IF m = k THEN RoundBody(f, k) ELSE f[m]]
    OBVIOUS
  <2>5. \A m \in (k + 1)..L : g[m] = f[m]
    BY <1>1, <2>1, <2>4
  <2>6. ASSUME NEW m \in k..L PROVE g[m] = RoundBody(g, m)
    <3>1. \A i \in (m + 1)..L : f[i] = g[i]
      BY <1>1, <2>1, <2>5
    <3>2. m \in 0..L
      BY <2>1
    <3>3. RoundBody(f, m) = RoundBody(g, m)
      <4>1. CASE Peek(m) \in {Quote, "NUL"} \/ Inside(m).error
        BY <4>1 DEF RoundBody, Quote
      <4>2. CASE Peek(m) \notin {Quote, "NUL"} /\ ~Inside(m).error
        <5>1. PICK i : i = Inside(m).at
          OBVIOUS
        <5>2. f[i] = g[i]
          BY <1>1, <3>1, <3>2, <4>2, <5>1, InsideIs
        <5> QED
          BY <4>2, <5>1, <5>2 DEF RoundBody, Quote
      <4> QED
        BY <4>1, <4>2
    <3>4. g[m] = RoundBody(f, m)
      <4>1. CASE m = k
        BY <2>4, <4>1
      <4>2. CASE m # k
        BY <1>1, <2>1, <2>3, <2>5, <4>2
      <4> QED
        BY <4>1, <4>2
    <3> QED
      BY <3>3, <3>4
  <2>7. g = [m \in k..L |-> RoundBody(g, m)]
    BY <2>4, <2>6
  <2>8. RunsOf(g, k)
    BY <1>1, <2>7 DEF RunsOf
  <2> QED
    BY <1>6, <2>8
<1> QED
  BY <1>7, <1>8

LEMMA StringIs ==
  ASSUME source \in Texts, NEW n \in 0..Len(source)
  PROVE  \E r : /\ Chain(n, r)
                /\ BrokeLine(n) = r.broke
                /\ String(n) = IF Unclosed(r) THEN Token("error", r.at)
                               ELSE Token(IF r.error THEN "error" ELSE "string",
                                          Until(r.at, {"\""}) + 1)
<1>1. PICK L : L = Len(source) /\ L \in Nat
  BY PeekIs
<1>2. PICK f : f = CHOOSE g : RunsOf(g, n)
  OBVIOUS
<1>3. RunsOf(f, n)
  BY <1>2, RoundsExist
<1>4. \A m \in n..L : f[m] = RoundBody(f, m)
  BY <1>1, <1>3 DEF RunsOf
<1>5. PICK r : r = f[n]
  OBVIOUS
<1>6. /\ BrokeLine(n) = r.broke
      /\ String(n) = IF Unclosed(r) THEN Token("error", r.at)
                     ELSE Token(IF r.error THEN "error" ELSE "string", Until(r.at, {"\""}) + 1)
  <2>1. Rounds(n) = r
    BY <1>2, <1>5 DEF Rounds, RunsOf, RoundBody
  <2>2. String(n) = LET s == Rounds(n) IN
                    IF Unclosed(s) THEN Token("error", s.at)
                    ELSE Token(IF s.error THEN "error" ELSE "string", Until(s.at, {"\""}) + 1)
    BY DEF String
  <2> QED
    BY <2>1, <2>2 DEF BrokeLine
<1>7. PICK S : S = {m \in n..L : ~Chain(m, f[m])}
  OBVIOUS
<1>8. S \subseteq 0..L
  BY <1>1, <1>7
<1>9. ASSUME S # {} PROVE FALSE
  <2>1. PICK m \in S : \A j \in S : j <= m
    BY <1>1, <1>8, <1>9, BoundedHaveGreatest
  <2>2. m \in n..L /\ m \in 0..L /\ ~Chain(m, f[m])
    BY <1>1, <1>7, <2>1
  <2>3. \A i \in (m + 1)..L : Chain(i, f[i])
    <3>1. ASSUME NEW i \in (m + 1)..L PROVE Chain(i, f[i])
      <4>1. i \in n..L /\ i \notin S
        BY <1>1, <2>1, <2>2
      <4> QED
        BY <1>7, <4>1
    <3> QED
      BY <3>1
  <2>4. Chain(m, RoundBody(f, m))
    BY <1>1, <2>2, <2>3, RoundIs
  <2> QED
    BY <1>4, <2>2, <2>4
<1>10. n \in n..L
  BY <1>1
<1> QED
  BY <1>5, <1>6, <1>7, <1>9, <1>10

-----------------------------------------------------------------------------
(* Tokens *)

WordChars == Letters \cup Digits

LEMMA IdentifierIs ==
  ASSUME source \in Texts, NEW n \in 0..Len(source), Peek(n) \in Letters, NEW t, t = Identifier(n)
  PROVE  /\ t.at \in (n + 1)..Len(source)
         /\ \A i \in n..(t.at - 1) : Peek(i) \in WordChars
         /\ Peek(t.at) \notin WordChars
         /\ t.type = IdentifierType(SubSeq(source, n + 1, t.at))
         /\ t.type \in {"keyword", "identifier"}
<1>1. PICK L, m : L = Len(source) /\ L \in Nat /\ m = Past(n, WordChars)
  BY PeekIs
<1>2. "NUL" \notin WordChars
  BY LettersApart, DigitsApart DEF WordChars, Named
<1>3. m \in n..L /\ (\A i \in n..(m - 1) : Peek(i) \in WordChars) /\ Peek(m) \notin WordChars
  BY <1>1, <1>2, PastIs
<1>4. m # n
  BY <1>3 DEF WordChars
<1>5. t = Token(IdentifierType(SubSeq(source, n + 1, m)), m)
  BY <1>1 DEF Identifier, WordChars
<1>6. t.at = m /\ t.type = IdentifierType(SubSeq(source, n + 1, m))
  BY <1>5 DEF Token
<1>7. t.type \in {"keyword", "identifier"}
  BY <1>6 DEF IdentifierType
<1> QED
  BY <1>1, <1>3, <1>4, <1>6, <1>7

(* a number is a run of digits, or two with a point in between *)
LEMMA NumberIs ==
  ASSUME source \in Texts, NEW n \in 0..Len(source), Peek(n) \in Digits, NEW t, t = Number(n)
  PROVE  /\ t.type = "number" /\ t.at \in (n + 1)..Len(source)
         /\ \E w \in (n + 1)..t.at :
              /\ (\A i \in n..(w - 1) : Peek(i) \in Digits) /\ Peek(w) \notin Digits
              /\ \/ t.at = w /\ ~(Peek(w) = "." /\ Peek(w + 1) \in Digits)
                 \/ /\ Peek(w) = "." /\ t.at >= w + 2
                    /\ \A i \in (w + 1)..(t.at - 1) : Peek(i) \in Digits
                    /\ Peek(t.at) \notin Digits
<1>1. PICK L, w : L = Len(source) /\ L \in Nat /\ w = Past(n, Digits)
  BY PeekIs
<1>2. "NUL" \notin Digits
  BY DigitsApart DEF Named
<1>3. w \in n..L /\ (\A i \in n..(w - 1) : Peek(i) \in Digits) /\ Peek(w) \notin Digits
  BY <1>1, <1>2, PastIs
<1>4. w # n
  BY <1>3
<1>5. t = Token("number", IF Peek(w) = "." /\ PeekNext(w) \in Digits THEN Past(w + 1, Digits) ELSE w)
  BY <1>1 DEF Number
<1>6. t.type = "number" /\ t.at = IF Peek(w) = "." /\ PeekNext(w) \in Digits THEN Past(w + 1, Digits) ELSE w
  BY <1>5 DEF Token
<1>7. CASE Peek(w) = "." /\ PeekNext(w) \in Digits
  <2>1. w < L
    BY <1>1, <1>3, <1>7, PeekIs
  <2>2. PICK m : m = Past(w + 1, Digits)
    OBVIOUS
  <2>3. /\ m \in (w + 1)..L /\ Peek(m) \notin Digits
        /\ \A i \in (w + 1)..(m - 1) : Peek(i) \in Digits
    <3>1. w + 1 \in 0..L
      BY <1>1, <1>3, <2>1
    <3> QED
      BY <1>1, <1>2, <2>2, <3>1, PastIs
  <2>4. Peek(w + 1) \in Digits
    BY <1>1, <1>3, <1>7, <2>1, PeekIs
  <2>5. m # w + 1
    BY <2>3, <2>4
  <2>6. t.at = m /\ m \in (w + 2)..L /\ w \in (n + 1)..m
    BY <1>1, <1>3, <1>4, <1>6, <1>7, <2>2, <2>3, <2>5
  <2> QED
    BY <1>1, <1>3, <1>6, <1>7, <2>3, <2>6
<1>8. CASE ~(Peek(w) = "." /\ PeekNext(w) \in Digits)
  <2>1. t.at = w
    BY <1>6, <1>8
  <2>2. ~(Peek(w) = "." /\ Peek(w + 1) \in Digits)
    <3>1. w < L => PeekNext(w) = Peek(w + 1)
      BY <1>1, <1>3, PeekIs
    <3>2. ~(w < L) => Peek(w) = "NUL"
      BY <1>1, <1>3, PeekIs
    <3> QED
      BY <1>8, <3>1, <3>2
  <2>3. w \in (n + 1)..L /\ w \in (n + 1)..w
    BY <1>1, <1>3, <1>4
  <2> QED
    BY <1>1, <1>3, <1>6, <2>1, <2>2, <2>3
<1> QED
  BY <1>7, <1>8

LEMMA StringTokenIs ==
  ASSUME source \in Texts, NEW n \in 0..Len(source), n < Len(source), NEW t, t = String(n + 1)
  PROVE  /\ t.at \in (n + 1)..(Len(source) + 1)
         /\ \/ /\ t.type = "string" /\ t.at >= n + 2 /\ t.at <= Len(source)
               /\ Peek(t.at - 1) = Quote /\ ~Esc(n + 1, t.at - 1)
               /\ \A i \in (n + 1)..(t.at - 2) :
                    Peek(i) # Newline /\ (Peek(i) = Quote => Esc(n + 1, i))
            \/ /\ t.type = "error"
               /\ t.at = Len(source) + 1 =>
                    \A i \in (n + 1)..(Len(source) - 1) : Peek(i) = Quote => Esc(n + 1, i)
<1>1. PICK L, m : L = Len(source) /\ L \in Nat /\ m = n + 1 /\ m \in 0..L
  BY PeekIs
<1>2. PICK r : /\ Chain(m, r)
               /\ t = IF Unclosed(r) THEN Token("error", r.at)
                      ELSE Token(IF r.error THEN "error" ELSE "string", Until(r.at, {"\""}) + 1)
  BY <1>1, StringIs
<1>3. /\ r \in RoundType /\ r.at \in m..L
      /\ \A i \in m..(r.at - 1) : Peek(i) = Quote => Esc(m, i)
      /\ ~r.error => /\ Peek(r.at) \in {Quote, "NUL"} /\ ~Esc(m, r.at)
                     /\ \A i \in m..(r.at - 1) : Peek(i) # Newline
  BY <1>1, <1>2 DEF Chain
<1>4. CASE Unclosed(r)
  <2>1. t = Token("error", r.at)
    BY <1>2, <1>4
  <2>2. t.at = r.at /\ t.type = "error"
    BY <2>1 DEF Token
  <2> QED
    BY <1>1, <1>3, <2>2
<1>5. CASE ~Unclosed(r)
  <2>1. PICK u : u = Until(r.at, {Quote})
    OBVIOUS
  <2>2. t = Token(IF r.error THEN "error" ELSE "string", u + 1)
    BY <1>2, <1>5, <2>1 DEF Quote
  <2>3. t.at = u + 1 /\ t.type = IF r.error THEN "error" ELSE "string"
    BY <2>2 DEF Token
  <2>4. /\ u \in r.at..L /\ Peek(u) \in {Quote, "NUL"}
        /\ \A i \in r.at..(u - 1) : Peek(i) # Quote
    <3>1. r.at \in 0..L
      BY <1>1, <1>3
    <3> QED
      BY <1>1, <2>1, <3>1, UntilIs
  <2>5. CASE r.error
    <3>1. ASSUME u = L, NEW i \in m..(L - 1), Peek(i) = Quote PROVE Esc(m, i)
      <4>1. i \in m..(r.at - 1) \/ i \in r.at..(u - 1)
        BY <1>1, <1>3, <3>1
      <4> QED
        BY <1>3, <2>4, <3>1, <4>1
    <3>2. t.at = L + 1 => \A i \in m..(L - 1) : Peek(i) = Quote => Esc(m, i)
      BY <1>1, <1>3, <2>3, <2>4, <3>1
    <3>3. t.at \in (n + 1)..(L + 1) /\ t.type = "error"
      BY <1>1, <1>3, <2>3, <2>4, <2>5
    <3> QED
      BY <1>1, <3>2, <3>3
  <2>6. CASE ~r.error
    <3>1. Peek(r.at) = Quote /\ r.at < L
      <4>1. ~AtEnd(r.at)
        BY <1>5, <2>6 DEF Unclosed
      <4>2. r.at \in 0..L
        BY <1>1, <1>3
      <4> QED
        BY <1>1, <1>3, <2>6, <4>1, <4>2, PeekIs
    <3>2. u = r.at
      <4>1. r.at \in r.at..(u - 1) \/ u = r.at
        BY <1>1, <1>3, <2>4
      <4> QED
        BY <2>4, <3>1, <4>1
    <3>3. /\ t.at = r.at + 1 /\ t.at - 1 = r.at /\ t.at - 2 = r.at - 1 /\ t.at >= n + 2
          /\ t.at <= L /\ t.at \in (n + 1)..(L + 1) /\ t.type = "string"
      BY <1>1, <1>3, <2>3, <2>6, <3>1, <3>2
    <3>4. \A i \in m..(r.at - 1) : Peek(i) # Newline /\ (Peek(i) = Quote => Esc(m, i))
      BY <1>3, <2>6
    <3> QED
      BY <1>1, <1>3, <2>6, <3>1, <3>3, <3>4
  <2> QED
    BY <2>5, <2>6
<1> QED
  BY <1>4, <1>5

(* a line is counted in a string only when the token holds a line end *)
LEMMA BrokenHolds ==
  ASSUME source \in Texts, NEW n \in 0..Len(source), n < Len(source), BrokeLine(n + 1),
         NEW t, t = String(n + 1)
  PROVE  \E p \in (n + 1)..Len(source) : p <= t.at /\ source[p] = Newline
<1>1. PICK L, m : L = Len(source) /\ L \in Nat /\ m = n + 1 /\ m \in 0..L
  BY PeekIs
<1>2. PICK r : /\ Chain(m, r) /\ BrokeLine(m) = r.broke
               /\ t = IF Unclosed(r) THEN Token("error", r.at)
                      ELSE Token(IF r.error THEN "error" ELSE "string", Until(r.at, {"\""}) + 1)
  BY <1>1, StringIs
<1>3. r.error /\ r.at \in m..L /\ r.at \in 0..L /\ Peek(r.at) = Newline
  <2>1. r.broke
    <3>1. BrokeLine(m)
      BY <1>1
    <3> QED
      BY <1>2, <3>1, Zenon
  <2>2. r.at \in m..L /\ (r.broke => r.error /\ Peek(r.at) = Newline)
    BY <1>1, <1>2 DEF Chain
  <2> QED
    BY <1>1, <2>1, <2>2
<1>4. r.at < L /\ source[r.at + 1] = Newline
  BY <1>1, <1>3, PeekIs DEF Newline
<1>5. PICK u : u = Until(r.at, {"\""})
  OBVIOUS
<1>6. t.at = u + 1
  <2>1. ~Unclosed(r)
    BY <1>3 DEF Unclosed
  <2>2. t = Token(IF r.error THEN "error" ELSE "string", u + 1)
    BY <1>2, <1>5, <2>1, Zenon
  <2> QED
    BY <2>2 DEF Token
<1>7. u \in r.at..L
  BY <1>1, <1>3, <1>5, UntilIs
<1>8. r.at + 1 \in (n + 1)..L /\ r.at + 1 <= t.at
  BY <1>1, <1>3, <1>4, <1>6, <1>7
<1> QED
  BY <1>1, <1>4, <1>8

LEMMA CharTokenIs ==
  ASSUME source \in Texts, NEW n \in 0..Len(source), n < Len(source), NEW t, t = CharToken(n)
  PROVE  /\ t.at \in (n + 1)..Len(source) /\ t.type \in {"error", "operator"}
         /\ t.type = "operator" =>
              /\ Peek(n) \in Single
              /\ \/ t.at = n + 1 /\ ~(Peek(n) \in WithEqual /\ Peek(n + 1) = "=")
                                 /\ ~(Peek(n) = "*" /\ Peek(n + 1) = "*")
                 \/ t.at = n + 2 /\ Peek(n) \in WithEqual /\ Peek(n + 1) = "="
                 \/ t.at = n + 2 /\ Peek(n) = "*" /\ Peek(n + 1) = "*"
<1>1. PICK L, c : L = Len(source) /\ L \in Nat /\ c = Peek(n)
  BY PeekIs
<1>2. Peek(n + 1) # "NUL" => n + 2 <= L
  <2>1. n + 1 \in 0..L
    BY <1>1
  <2> QED
    BY <1>1, <2>1, PeekIs
<1>3. WithEqual \subseteq Single /\ "*" \in Single
  BY DEF WithEqual, Single
<1>4. CASE c \notin Single
  <2>1. t = Token("error", n + 1)
    BY <1>1, <1>3, <1>4 DEF CharToken
  <2>2. t.type = "error" /\ t.at = n + 1
    BY <2>1 DEF Token
  <2> QED
    BY <1>1, <2>2
<1>5. CASE /\ c \in Single
           /\ \/ c \in WithEqual /\ Peek(n + 1) = "="
              \/ c = "*" /\ Peek(n + 1) = "*"
  <2>1. t = Token("operator", n + 2)
    BY <1>1, <1>5 DEF CharToken
  <2>2. t.type = "operator" /\ t.at = n + 2
    BY <2>1 DEF Token
  <2> QED
    BY <1>1, <1>2, <1>5, <2>2
<1>6. CASE /\ c \in Single /\ ~(c \in WithEqual /\ Peek(n + 1) = "=")
           /\ ~(c = "*" /\ Peek(n + 1) = "*")
  <2>1. t = Token("operator", n + 1)
    BY <1>1, <1>6 DEF CharToken
  <2>2. t.type = "operator" /\ t.at = n + 1
    BY <2>1 DEF Token
  <2> QED
    BY <1>1, <1>6, <2>2
<1> QED
  BY <1>4, <1>5, <1>6

Kinds == {"keyword", "identifier", "number", "string", "operator", "error", "eof"}

(* what is known of a token of the characters from n to m *)
WordFacts(type, n, m) ==
  /\ Peek(n) \in Letters /\ m \in (n + 1)..Len(source)
  /\ \A i \in n..(m - 1) : Peek(i) \in WordChars
  /\ Peek(m) \notin WordChars
  /\ type = IdentifierType(SubSeq(source, n + 1, m))
NumberFacts(n, m) ==
  /\ Peek(n) \in Digits /\ m \in (n + 1)..Len(source)
  /\ \E w \in (n + 1)..m :
       /\ (\A i \in n..(w - 1) : Peek(i) \in Digits) /\ Peek(w) \notin Digits
       /\ \/ m = w /\ ~(Peek(w) = "." /\ Peek(w + 1) \in Digits)
          \/ /\ Peek(w) = "." /\ m >= w + 2
             /\ \A i \in (w + 1)..(m - 1) : Peek(i) \in Digits
             /\ Peek(m) \notin Digits
StringFacts(n, m) ==
  /\ Peek(n) = Quote /\ m >= n + 2 /\ m <= Len(source)
  /\ Peek(m - 1) = Quote /\ ~Esc(n + 1, m - 1)
  /\ \A i \in (n + 1)..(m - 2) : Peek(i) # Newline /\ (Peek(i) = Quote => Esc(n + 1, i))
OperatorFacts(n, m) ==
  /\ Peek(n) \in Single /\ m <= Len(source)
  /\ \/ m = n + 1 /\ ~(Peek(n) \in WithEqual /\ Peek(n + 1) = "=")
                  /\ ~(Peek(n) = "*" /\ Peek(n + 1) = "*")
     \/ m = n + 2 /\ Peek(n) \in WithEqual /\ Peek(n + 1) = "="
     \/ m = n + 2 /\ Peek(n) = "*" /\ Peek(n + 1) = "*"
ErrorFacts(n, m) ==
  m = Len(source) + 1 =>
    /\ Peek(n) = Quote
    /\ \A i \in (n + 1)..(Len(source) - 1) : Peek(i) = Quote => Esc(n + 1, i)
Scans(type, n, m) ==
  /\ type \in Kinds
  /\ type = "eof" => n = Len(source) /\ m = n
  /\ type # "eof" => n < Len(source) /\ m \in (n + 1)..(Len(source) + 1)
  /\ type \in {"keyword", "identifier"} => WordFacts(type, n, m)
  /\ type = "number" => NumberFacts(n, m)
  /\ type = "string" => StringFacts(n, m)
  /\ type = "operator" => OperatorFacts(n, m)
  /\ type = "error" => ErrorFacts(n, m)

LEMMA ScannedIs ==
  ASSUME source \in Texts, NEW n \in 0..Len(source), NEW t, t = Scanned(n)
  PROVE  Scans(t.type, n, t.at)
<1>1. PICK L : L = Len(source) /\ L \in Nat
  BY PeekIs
<1>2. AtEnd(n) <=> Peek(n) = "NUL"
  BY DEF AtEnd
<1>3. /\ \A c \in Letters : c \notin Digits /\ c # Quote /\ c # "NUL"
      /\ \A c \in Digits : c # Quote /\ c # "NUL"
      /\ Quote # "NUL"
  BY LettersApart, DigitsApart DEF Named, Quote
<1>4. CASE Peek(n) = "NUL"
  <2>1. t = Token("eof", n)
    BY <1>2, <1>3, <1>4 DEF Scanned, Quote
  <2>2. t.type = "eof" /\ t.at = n
    BY <2>1 DEF Token
  <2>3. n = Len(source)
    BY <1>1, <1>4, PeekIs
  <2> QED
    BY <2>2, <2>3 DEF Scans, Kinds
<1>5. ASSUME Peek(n) # "NUL" PROVE n < L
  BY <1>1, <1>5, PeekIs
<1>6. CASE Peek(n) \in Letters
  <2>1. t = Identifier(n) /\ n < L
    BY <1>2, <1>3, <1>5, <1>6 DEF Scanned, Quote
  <2>2. WordFacts(t.type, n, t.at) /\ t.type \in {"keyword", "identifier"}
    BY <1>6, <2>1, IdentifierIs DEF WordFacts
  <2>3. t.at \in (n + 1)..(L + 1)
    BY <1>1, <2>2 DEF WordFacts
  <2> QED
    BY <1>1, <2>1, <2>2, <2>3 DEF Scans, Kinds
<1>7. CASE Peek(n) \in Digits
  <2>1. t = Number(n) /\ n < L
    BY <1>2, <1>3, <1>5, <1>7 DEF Scanned, Quote
  <2>2. NumberFacts(n, t.at) /\ t.type = "number"
    BY <1>7, <2>1, NumberIs DEF NumberFacts
  <2>3. t.at \in (n + 1)..(L + 1)
    BY <1>1, <2>2 DEF NumberFacts
  <2> QED
    BY <1>1, <2>1, <2>2, <2>3 DEF Scans, Kinds
<1>8. CASE Peek(n) = Quote
  <2>1. t = String(n + 1) /\ n < L
    BY <1>2, <1>3, <1>5, <1>8 DEF Scanned, Quote
  <2>2. t.at \in (n + 1)..(L + 1)
    BY <1>1, <2>1, StringTokenIs
  <2>3. \/ t.type = "string" /\ StringFacts(n, t.at)
        \/ t.type = "error" /\ ErrorFacts(n, t.at)
    BY <1>1, <1>8, <2>1, StringTokenIs DEF StringFacts, ErrorFacts
  <2> QED
    BY <1>1, <2>1, <2>2, <2>3 DEF Scans, Kinds
<1>9. CASE Peek(n) \notin Letters \cup Digits \cup {Quote, "NUL"}
  <2>1. t = CharToken(n) /\ n < L
    BY <1>2, <1>5, <1>9 DEF Scanned, Quote
  <2>2. /\ t.at \in (n + 1)..L /\ t.type \in {"error", "operator"}
        /\ t.type = "operator" => OperatorFacts(n, t.at)
    BY <1>1, <2>1, CharTokenIs DEF OperatorFacts
  <2>3. t.at \in (n + 1)..(L + 1) /\ ErrorFacts(n, t.at)
    BY <1>1, <2>2 DEF ErrorFacts
  <2> QED
    BY <1>1, <2>1, <2>2, <2>3 DEF Scans, Kinds
<1> QED
  BY <1>4, <1>6, <1>7, <1>8, <1>9

-----------------------------------------------------------------------------
(* Lines and columns *)

(* line l is the one of the characters after the first n *)
Tally(f, n) ==
  /\ f \in [0..n -> Nat] /\ f[0] = 1
  /\ \A i \in 1..n : f[i] = f[i - 1] + (IF source[i] = Newline THEN 1 ELSE 0)
LineIs(n, l) == \E f : Tally(f, n) /\ f[n] = l

(* and b characters come before that line *)
StartsAt(n, b) ==
  /\ b \in 0..n /\ (b = 0 \/ source[b] = Newline)
  /\ \A q \in (b + 1)..n : source[q] # Newline

Straight(n, m) == \A p \in (n + 1)..m : source[p] # Newline

LEMMA StraightJoins ==
  ASSUME NEW n \in Nat, NEW e \in Nat, NEW m \in Nat, n <= e, e <= m,
         Straight(n, e), Straight(e, m)
  PROVE  Straight(n, m)
<1>1. ASSUME NEW p \in (n + 1)..m PROVE source[p] # Newline
  <2>1. p \in (n + 1)..e \/ p \in (e + 1)..m
    OBVIOUS
  <2> QED
    BY <2>1 DEF Straight
<1> QED
  BY <1>1 DEF Straight

LEMMA LineStays ==
  ASSUME NEW n \in Nat, NEW m \in Nat, n <= m, Straight(n, m), NEW l, LineIs(n, l)
  PROVE  LineIs(m, l)
<1>1. PICK f : Tally(f, n) /\ f[n] = l
  BY DEF LineIs
<1>2. f \in [0..n -> Nat] /\ l \in Nat
  BY <1>1 DEF Tally
<1>3. PICK g : g = [i \in 0..m |-> IF i <= n THEN f[i] ELSE l]
  OBVIOUS
<1>4. g \in [0..m -> Nat] /\ g[0] = 1 /\ g[m] = l
  BY <1>1, <1>2, <1>3 DEF Tally
<1>5. ASSUME NEW i \in 1..m
      PROVE  g[i] = g[i - 1] + (IF source[i] = Newline THEN 1 ELSE 0)
  <2>1. g[i] = (IF i <= n THEN f[i] ELSE l) /\ g[i - 1] = (IF i - 1 <= n THEN f[i - 1] ELSE l)
    BY <1>3
  <2>2. CASE i <= n
    BY <1>1, <2>1, <2>2 DEF Tally
  <2>3. CASE n < i
    <3>1. source[i] # Newline
      BY <2>3 DEF Straight
    <3>2. g[i] = l /\ g[i - 1] = l
      <4>1. i - 1 = n \/ i - 1 > n
        BY <2>3
      <4> QED
        BY <1>1, <2>1, <2>3, <4>1
    <3> QED
      BY <1>2, <3>1, <3>2
  <2> QED
    BY <2>2, <2>3
<1>6. Tally(g, m)
  BY <1>4, <1>5 DEF Tally
<1> QED
  BY <1>4, <1>6 DEF LineIs

LEMMA LineGrows ==
  ASSUME NEW n \in Nat, source[n + 1] = Newline, NEW l, LineIs(n, l)
  PROVE  LineIs(n + 1, l + 1) /\ l \in Nat
<1>1. PICK f : Tally(f, n) /\ f[n] = l
  BY DEF LineIs
<1>2. f \in [0..n -> Nat] /\ l \in Nat
  BY <1>1 DEF Tally
<1>3. PICK g : g = [i \in 0..(n + 1) |-> IF i <= n THEN f[i] ELSE l + 1]
  OBVIOUS
<1>4. g \in [0..(n + 1) -> Nat] /\ g[0] = 1 /\ g[n + 1] = l + 1
  BY <1>1, <1>2, <1>3 DEF Tally
<1>5. ASSUME NEW i \in 1..(n + 1)
      PROVE  g[i] = g[i - 1] + (IF source[i] = Newline THEN 1 ELSE 0)
  <2>1. g[i - 1] = f[i - 1]
    BY <1>3
  <2>2. CASE i <= n
    <3>1. g[i] = f[i]
      BY <1>3, <2>2
    <3> QED
      BY <1>1, <2>1, <2>2, <3>1 DEF Tally
  <2>3. CASE i = n + 1
    BY <1>1, <1>4, <2>1, <2>3
  <2> QED
    BY <2>2, <2>3
<1>6. Tally(g, n + 1)
  BY <1>4, <1>5 DEF Tally
<1> QED
  BY <1>2, <1>4, <1>6 DEF LineIs

(* line numbers do not go back, and go up over a line end *)
LEMMA LinesOn ==
  ASSUME NEW n \in Nat, NEW m \in Nat, n <= m, NEW l \in Nat, LineIs(n, l)
  PROVE  \E k \in Nat : LineIs(m, k) /\ l <= k /\ (~Straight(n, m) => l + 1 <= k)
<1> DEFINE P(j) == \E k \in Nat : LineIs(j, k) /\ l <= k /\ (~Straight(n, j) => l + 1 <= k)
<1>1. PICK S : S = {j \in n..m : ~P(j)}
  OBVIOUS
<1>2. SUFFICES ASSUME S # {} PROVE FALSE
  BY <1>1
<1>3. S \subseteq Nat
  BY <1>1
<1>4. PICK j \in S : \A i \in S : j <= i
  BY <1>2, <1>3, NaturalsHaveLeast
<1>5. j \in n..m /\ ~P(j)
  BY <1>1, <1>4
<1>6. CASE j = n
  <2>1. Straight(n, n)
    BY DEF Straight
  <2>2. P(n)
    BY <2>1
  <2> QED
    BY <1>5, <1>6, <2>2
<1>7. CASE j # n
  <2>1. PICK i : i = j - 1 /\ i \in n..m /\ i \in Nat /\ j = i + 1 /\ n <= i
    BY <1>5, <1>7
  <2>2. i \notin S
    BY <1>4, <2>1
  <2>3. P(i)
    BY <1>1, <2>1, <2>2
  <2>4. PICK k \in Nat : LineIs(i, k) /\ l <= k /\ (~Straight(n, i) => l + 1 <= k)
    BY <2>3
  <2>5. CASE source[j] = Newline
    <3>1. LineIs(j, k + 1)
      BY <2>1, <2>4, <2>5, LineGrows
    <3>2. P(j)
      BY <2>4, <3>1
    <3> QED
      BY <1>5, <3>2
  <2>6. CASE source[j] # Newline
    <3>1. Straight(i, j)
      BY <2>1, <2>6 DEF Straight
    <3>2. LineIs(j, k)
      BY <1>5, <2>1, <2>4, <3>1, LineStays
    <3>3. Straight(n, i) => Straight(n, j)
      BY <1>5, <2>1, <3>1, StraightJoins
    <3>4. P(j)
      BY <2>4, <3>2, <3>3
    <3> QED
      BY <1>5, <3>4
  <2> QED
    BY <2>5, <2>6
<1> QED
  BY <1>6, <1>7

(* Lines counts what Tally does *)
LEMMA LinesAre ==
  ASSUME NEW n \in Nat, NEW l, LineIs(n, l)
  PROVE  Lines(n) = l
<1>1. PICK f : Tally(f, n) /\ f[n] = l
  BY DEF LineIs
<1> DEFINE C(g) == g = [i \in 0..n |-> IF i = 0 THEN 1
                                       ELSE g[i - 1] + (IF source[i] = "\n" THEN 1 ELSE 0)]
<1>2. C(f)
  <2>1. f \in [0..n -> Nat]
    BY <1>1 DEF Tally
  <2>2. \A i \in 0..n : f[i] = IF i = 0 THEN 1 ELSE f[i - 1] + (IF source[i] = "\n" THEN 1 ELSE 0)
    BY <1>1 DEF Tally, Newline
  <2> QED
    BY <2>1, <2>2
<1>3. PICK g : g = CHOOSE h : C(h)
  OBVIOUS
<1>4. C(g)
  BY <1>2, <1>3
<1>5. Lines(n) = (CHOOSE h : C(h))[n]
  BY DEF Lines
<1>6. PICK S : S = {i \in 0..n : g[i] # f[i]}
  OBVIOUS
<1>7. \A i \in 0..n : g[i] = IF i = 0 THEN 1 ELSE g[i - 1] + (IF source[i] = "\n" THEN 1 ELSE 0)
  BY <1>4
<1>8. \A i \in 0..n : f[i] = IF i = 0 THEN 1 ELSE f[i - 1] + (IF source[i] = "\n" THEN 1 ELSE 0)
  BY <1>1 DEF Tally, Newline
<1> HIDE DEF C
<1>9. ASSUME S # {} PROVE FALSE
  <2>1. S \subseteq Nat
    BY <1>6
  <2>2. PICK i \in S : \A j \in S : i <= j
    BY <1>9, <2>1, NaturalsHaveLeast
  <2>3. i \in 0..n /\ g[i] # f[i]
    BY <1>6, <2>2
  <2>4. CASE i = 0
    BY <1>7, <1>8, <2>3, <2>4
  <2>5. CASE i # 0
    <3>1. i - 1 \in 0..n /\ i - 1 \notin S
      BY <2>2, <2>3, <2>5
    <3>2. g[i - 1] = f[i - 1]
      BY <1>6, <3>1
    <3> QED
      BY <1>7, <1>8, <2>3, <2>5, <3>2
  <2> QED
    BY <2>4, <2>5
<1>10. n \in 0..n /\ n \notin S
  BY <1>9
<1> QED
  BY <1>1, <1>3, <1>5, <1>6, <1>10

LEMMA LineStartIs ==
  ASSUME NEW n \in Nat, NEW b, StartsAt(n, b)
  PROVE  LineStart(n) = b
<1>1. /\ b \in 0..n /\ (b = 0 \/ source[b] = "\n")
      /\ \A q \in (b + 1)..n : source[q] # "\n"
  BY DEF StartsAt, Newline
<1>2. PICK N : N = NewlinesBefore(n)
  OBVIOUS
<1>3. N = {p \in 1..n : source[p] = "\n"}
  BY <1>2 DEF NewlinesBefore
<1>4. \A q \in N : q \in Nat /\ q <= b
  BY <1>1, <1>3
<1>5. CASE N = {}
  <2>1. b = 0
    BY <1>1, <1>3, <1>5
  <2> QED
    BY <1>2, <1>5, <2>1 DEF LineStart
<1>6. CASE N # {}
  <2>1. b \in N
    BY <1>1, <1>3, <1>4, <1>6
  <2>2. PICK m : m = CHOOSE p \in N : \A q \in N : q <= p
    OBVIOUS
  <2>3. m \in N /\ \A q \in N : q <= m
    BY <1>4, <2>1, <2>2
  <2>4. m = b
    BY <1>1, <1>4, <2>1, <2>3
  <2> QED
    BY <1>2, <1>6, <2>2, <2>4 DEF LineStart
<1> QED
  BY <1>5, <1>6

(* what skipWhitespace counts on the way from m *)
Counted(m, r) ==
  /\ \A l \in Nat : LineIs(m, l) => LineIs(r.at, l + r.lines)
  /\ Peek(m) = Newline => r.set
  /\ ~r.set => Straight(m, r.at) /\ (r.at < Len(source) => r.columns = r.at - m)
  /\ r.set /\ r.at < Len(source) => \E b : StartsAt(r.at, b) /\ r.columns = 1 + r.at - b

LEMMA CountedRound ==
  ASSUME source \in Texts, NEW m \in 0..Len(source), NEW f,
         \A i \in (m + 1)..Len(source) : Skipped(i, f[i]) /\ Counted(i, f[i])
  PROVE  Counted(m, SkipBody(f, m))
<1>1. PICK L : L = Len(source) /\ L \in Nat
  BY PeekIs
<1>2. ASSUME Peek(m) \in Blanks, NEW s, s = f[m + 1]
      PROVE  /\ m < L /\ source[m + 1] = Peek(m) /\ s.at \in (m + 1)..L /\ s \in SkipType
             /\ Counted(m + 1, s)
  <2>1. m < L /\ source[m + 1] = Peek(m)
    BY <1>1, <1>2, BlankInside
  <2>2. m + 1 \in (m + 1)..Len(source)
    BY <1>1, <2>1
  <2>3. Skipped(m + 1, s) /\ Counted(m + 1, s)
    BY <1>2, <2>2
  <2> QED
    BY <1>1, <2>1, <2>3 DEF Skipped
<1>3. CASE Peek(m) = "\n"
  <2>1. PICK s, r : s = f[m + 1] /\ r = OverNewline(s)
    OBVIOUS
  <2>2. Peek(m) \in Blanks
    BY <1>3 DEF Blanks
  <2>3. /\ m < L /\ source[m + 1] = Newline /\ s.at \in (m + 1)..L /\ s \in SkipType
        /\ Counted(m + 1, s)
    BY <1>2, <1>3, <2>1, <2>2 DEF Newline
  <2>4. /\ r.at = s.at /\ r.lines = s.lines + 1 /\ r.set = TRUE
        /\ r.columns = IF s.set THEN s.columns ELSE s.columns + 1
        /\ s.at \in Nat /\ s.lines \in Nat /\ s.columns \in Nat /\ s.set \in BOOLEAN
    BY <2>1, <2>3 DEF OverNewline, SkipType
  <2>5. ASSUME NEW l \in Nat, LineIs(m, l) PROVE LineIs(r.at, l + r.lines)
    <3>1. LineIs(m + 1, l + 1) /\ l + 1 \in Nat
      BY <1>1, <2>3, <2>5, LineGrows
    <3>2. LineIs(s.at, (l + 1) + s.lines)
      BY <2>3, <3>1 DEF Counted
    <3>3. (l + 1) + s.lines = l + r.lines
      BY <2>4
    <3> QED
      BY <2>4, <3>2, <3>3
  <2>6. ASSUME r.at < L PROVE \E b : StartsAt(r.at, b) /\ r.columns = 1 + r.at - b
    <3>1. CASE s.set
      BY <1>1, <2>3, <2>4, <2>6, <3>1 DEF Counted
    <3>2. CASE ~s.set
      <4>1. Straight(m + 1, s.at) /\ s.columns = s.at - (m + 1)
        BY <1>1, <2>3, <2>4, <2>6, <3>2 DEF Counted
      <4>2. StartsAt(s.at, m + 1)
        BY <1>1, <2>3, <4>1 DEF StartsAt, Straight
      <4>3. r.columns = 1 + r.at - (m + 1)
        BY <1>1, <2>3, <2>4, <3>2, <4>1
      <4> QED
        BY <2>4, <4>2, <4>3
    <3> QED
      BY <2>4, <3>1, <3>2
  <2>7. Counted(m, r)
    BY <1>1, <2>4, <2>5, <2>6 DEF Counted
  <2>8. SkipBody(f, m) = r
    BY <1>3, <2>1 DEF SkipBody, CommentAt
  <2> QED
    BY <2>7, <2>8
<1>4. CASE Peek(m) \in Blanks \ {"\n"}
  <2>1. PICK s, r : s = f[m + 1] /\ r = OverBlank(s)
    OBVIOUS
  <2>2. /\ m < L /\ source[m + 1] # Newline /\ s.at \in (m + 1)..L /\ s \in SkipType
        /\ Counted(m + 1, s)
    BY <1>2, <1>4, <2>1 DEF Newline
  <2>3. /\ r.at = s.at /\ r.lines = s.lines /\ r.set = s.set
        /\ r.columns = IF s.set THEN s.columns ELSE s.columns + 1
        /\ s.at \in Nat /\ s.lines \in Nat /\ s.columns \in Nat /\ s.set \in BOOLEAN
    BY <2>1, <2>2 DEF OverBlank, SkipType
  <2>4. Straight(m, m + 1)
    BY <1>1, <2>2 DEF Straight
  <2>5. ASSUME NEW l \in Nat, LineIs(m, l) PROVE LineIs(r.at, l + r.lines)
    <3>1. LineIs(m + 1, l)
      BY <1>1, <2>4, <2>5, LineStays
    <3> QED
      BY <2>2, <2>3, <3>1 DEF Counted
  <2>6. ASSUME ~r.set PROVE Straight(m, r.at) /\ (r.at < L => r.columns = r.at - m)
    <3>1. Straight(m + 1, s.at) /\ (s.at < L => s.columns = s.at - (m + 1))
      BY <1>1, <2>2, <2>3, <2>6 DEF Counted
    <3>2. Straight(m, s.at)
      BY <1>1, <2>2, <2>3, <2>4, <3>1, StraightJoins
    <3> QED
      BY <1>1, <2>2, <2>3, <2>6, <3>1, <3>2
  <2>7. r.set /\ r.at < L => \E b : StartsAt(r.at, b) /\ r.columns = 1 + r.at - b
    BY <1>1, <2>2, <2>3 DEF Counted
  <2>8. Counted(m, r)
    BY <1>1, <1>4, <2>5, <2>6, <2>7 DEF Counted, Newline
  <2>9. SkipBody(f, m) = r
    BY <1>4, <2>1 DEF SkipBody, CommentAt, Blanks
  <2> QED
    BY <2>8, <2>9
<1>5. CASE Peek(m) \notin Blanks /\ CommentAt(m)
  <2>1. PICK e, r : e = Until(m, {"\n"}) /\ r = f[e]
    OBVIOUS
  <2>2. /\ e \in (m + 2)..L /\ Peek(e) \in {"\n", "NUL"}
        /\ \A p \in (m + 1)..e : source[p] # "\n"
    BY <1>1, <1>5, <2>1, CommentIs
  <2>3. SkipBody(f, m) = r
    BY <1>5, <2>1 DEF SkipBody, Blanks
  <2>4. Straight(m, e) /\ m \in Nat /\ e \in Nat /\ m <= e
    BY <1>1, <2>2 DEF Straight, Newline
  <2>5. r \in SkipType /\ r.at \in e..L /\ Counted(e, r)
    <3>1. e \in (m + 1)..Len(source)
      BY <1>1, <2>2
    <3> QED
      BY <1>1, <2>1, <3>1 DEF Skipped
  <2>6. r.at \in Nat /\ r.lines \in Nat /\ r.set \in BOOLEAN /\ e <= r.at
    BY <2>2, <2>5 DEF SkipType
  <2>7. ASSUME NEW l \in Nat, LineIs(m, l) PROVE LineIs(r.at, l + r.lines)
    <3>1. LineIs(e, l)
      BY <2>4, <2>7, LineStays
    <3> QED
      BY <2>5, <3>1 DEF Counted
  <2>8. ASSUME ~r.set PROVE Straight(m, r.at) /\ ~(r.at < L)
    <3>1. Peek(e) # Newline /\ Straight(e, r.at)
      BY <2>5, <2>8 DEF Counted
    <3>2. Peek(e) = "NUL"
      BY <2>2, <3>1 DEF Newline
    <3>3. e = L
      BY <1>1, <2>2, <3>2, PeekIs
    <3>4. Straight(m, r.at)
      BY <2>4, <2>6, <3>1, StraightJoins
    <3> QED
      BY <1>1, <2>5, <3>3, <3>4
  <2>9. r.set /\ r.at < L => \E b : StartsAt(r.at, b) /\ r.columns = 1 + r.at - b
    BY <1>1, <2>5 DEF Counted
  <2>10. Peek(m) # Newline
    BY <1>5 DEF CommentAt, Newline
  <2>11. Counted(m, r)
    BY <1>1, <2>7, <2>8, <2>9, <2>10 DEF Counted
  <2> QED
    BY <2>3, <2>11
<1>6. CASE Peek(m) \notin Blanks /\ ~CommentAt(m)
  <2>1. PICK r : r = Halt(m)
    OBVIOUS
  <2>2. SkipBody(f, m) = r
    BY <1>6, <2>1 DEF SkipBody, Blanks
  <2>3. r.at = m /\ r.lines = 0 /\ r.columns = 0 /\ r.set = FALSE
    BY <2>1 DEF Halt
  <2>4. Straight(m, m)
    <3>1. (m + 1)..m = {}
      BY <1>1
    <3> QED
      BY <3>1 DEF Straight
  <2>5. Peek(m) # Newline
    BY <1>6 DEF Blanks, Newline
  <2>6. \A l \in Nat : LineIs(m, l) => LineIs(r.at, l + r.lines)
    <3>1. \A l \in Nat : l + r.lines = l
      BY <2>3
    <3> QED
      BY <2>3, <3>1
  <2>7. Counted(m, r)
    BY <1>1, <2>3, <2>4, <2>5, <2>6 DEF Counted
  <2> QED
    BY <2>2, <2>7
<1> QED
  BY <1>3, <1>4, <1>5, <1>6 DEF Blanks

LEMMA SkipWhitespaceCounts ==
  ASSUME source \in Texts, NEW n \in 0..Len(source), NEW s, s = SkipWhitespace(n)
  PROVE  Skipped(n, s) /\ Counted(n, s)
<1>1. PICK L : L = Len(source) /\ L \in Nat
  BY PeekIs
<1>2. PICK f : (\A m \in n..L : f[m] = SkipBody(f, m)) /\ s = f[n]
  BY <1>1, SkipWhitespaceIs
<1>3. PICK S : S = {m \in n..L : ~(Skipped(m, f[m]) /\ Counted(m, f[m]))}
  OBVIOUS
<1>4. S \subseteq 0..L
  BY <1>1, <1>3
<1>5. ASSUME S # {} PROVE FALSE
  <2>1. PICK m \in S : \A j \in S : j <= m
    BY <1>1, <1>4, <1>5, BoundedHaveGreatest
  <2>2. m \in n..L /\ m \in 0..L /\ ~(Skipped(m, f[m]) /\ Counted(m, f[m]))
    BY <1>1, <1>3, <2>1
  <2>3. \A i \in (m + 1)..L : Skipped(i, f[i]) /\ Counted(i, f[i])
    <3>1. ASSUME NEW i \in (m + 1)..L PROVE Skipped(i, f[i]) /\ Counted(i, f[i])
      <4>1. i \in n..L /\ i \notin S
        BY <1>1, <2>1, <2>2
      <4> QED
        BY <1>3, <4>1
    <3> QED
      BY <3>1
  <2>4. Skipped(m, SkipBody(f, m))
    BY <1>1, <2>2, <2>3, SkipRound
  <2>5. Counted(m, SkipBody(f, m))
    BY <1>1, <2>2, <2>3, CountedRound
  <2> QED
    BY <1>2, <2>2, <2>4, <2>5
<1>6. n \in n..L
  BY <1>1
<1> QED
  BY <1>2, <1>3, <1>5, <1>6

(* no newline is in a token *)
LEMMA TokenStraight ==
  ASSUME source \in Texts, NEW n \in 0..Len(source), NEW m, NEW type \in Kinds \ {"error", "eof"},
         Scans(type, n, m)
  PROVE  m \in (n + 1)..Len(source) /\ Straight(n, m)
<1>1. PICK L : L = Len(source) /\ L \in Nat
  BY PeekIs
<1>2. \A c \in WordChars \cup Single \cup {Quote, ".", "="} : c # Newline
  <2>1. Newline \notin Single
    BY DEF Newline, Single
  <2> QED
    BY <2>1, LettersApart, DigitsApart DEF WordChars, Named, Newline, Quote
<1>3. n < L /\ m \in (n + 1)..(L + 1)
  BY <1>1 DEF Scans
<1>4. ASSUME m <= L, \A i \in n..(m - 1) : Peek(i) # Newline PROVE Straight(n, m)
  <2>1. ASSUME NEW p \in (n + 1)..m PROVE source[p] # Newline
    <3>1. p - 1 \in n..(m - 1) /\ p - 1 \in 0..L /\ p - 1 < L /\ (p - 1) + 1 = p
      BY <1>1, <1>3, <1>4
    <3>2. Peek(p - 1) = source[p]
      BY <1>1, <3>1, PeekIs
    <3> QED
      BY <1>4, <3>1, <3>2
  <2> QED
    BY <2>1 DEF Straight
<1>5. m <= L /\ \A i \in n..(m - 1) : Peek(i) # Newline
  <2>1. CASE type \in {"keyword", "identifier"}
    <3>1. WordFacts(type, n, m)
      BY <2>1 DEF Scans
    <3> QED
      BY <1>1, <1>2, <3>1 DEF WordFacts
  <2>2. CASE type = "number"
    <3>1. NumberFacts(n, m)
      BY <2>2 DEF Scans
    <3>2. PICK w \in (n + 1)..m :
            /\ \A i \in n..(w - 1) : Peek(i) \in Digits
            /\ \/ m = w
               \/ Peek(w) = "." /\ \A i \in (w + 1)..(m - 1) : Peek(i) \in Digits
      BY <3>1 DEF NumberFacts
    <3>3. ASSUME NEW i \in n..(m - 1) PROVE Peek(i) # Newline
      <4>1. i \in n..(w - 1) \/ i = w \/ i \in (w + 1)..(m - 1)
        BY <1>1, <1>3
      <4>2. m = w => i \in n..(w - 1)
        OBVIOUS
      <4>3. Peek(i) \in Digits \/ Peek(i) = "."
        BY <3>2, <4>1, <4>2
      <4> QED
        BY <1>2, <4>3 DEF WordChars
    <3> QED
      BY <1>1, <3>1, <3>3 DEF NumberFacts
  <2>3. CASE type = "string"
    <3>1. StringFacts(n, m)
      BY <2>3 DEF Scans
    <3>2. ASSUME NEW i \in n..(m - 1) PROVE Peek(i) # Newline
      <4>1. i = n \/ i = m - 1 \/ i \in (n + 1)..(m - 2)
        BY <1>1, <1>3
      <4> QED
        BY <1>2, <3>1, <4>1 DEF StringFacts
    <3> QED
      BY <1>1, <3>1, <3>2 DEF StringFacts
  <2>4. CASE type = "operator"
    <3>1. OperatorFacts(n, m)
      BY <2>4 DEF Scans
    <3>2. ASSUME NEW i \in n..(m - 1) PROVE Peek(i) # Newline
      <4>1. i = n \/ (i = n + 1 /\ m = n + 2)
        BY <1>1, <1>3, <3>1 DEF OperatorFacts
      <4>2. Peek(n) \in Single /\ (m = n + 2 => Peek(n + 1) \in {"=", "*"})
        BY <3>1 DEF OperatorFacts
      <4>3. "*" \in Single
        BY DEF Single
      <4> QED
        BY <1>2, <4>1, <4>2, <4>3
    <3> QED
      BY <1>1, <1>3, <3>1, <3>2 DEF OperatorFacts
  <2> QED
    BY <2>1, <2>2, <2>3, <2>4 DEF Kinds
<1> QED
  BY <1>1, <1>3, <1>4, <1>5

-----------------------------------------------------------------------------
(* The invariant *)

TokenType == [type : Kinds, from : Nat, to : Nat, line : Nat, column : Int]

(* token k, looked for behind the first e characters *)
TokenFacts(e, k) ==
  /\ e \in 0..Len(source) /\ k.from \in e..Len(source)
  /\ Gap(e, k.from) /\ Peek(k.from) \notin Blanks
  /\ Scans(k.type, k.from, k.to)

(* column c is that of the character after the first n *)
ColumnIs(n, c) == \E b : StartsAt(n, b) /\ c = 1 + n - b

PlaceFacts(k) ==
  /\ LineIs(k.from, k.line)
  /\ k.type # "eof" => ColumnIs(k.from, k.column)

Clean(n) == \A j \in 1..n : InOneLine(tokens[j])

(* line l is not ahead of the first n characters *)
NotAhead(n, l) == \E k \in Nat : LineIs(n, k) /\ l <= k

ScanInv ==
  /\ source \in Texts /\ tokens \in Seq(TokenType)
  /\ at \in Nat /\ start \in 0..at /\ line \in Nat /\ column \in Int
  /\ at = EndOf(Len(tokens))
  /\ \A i \in 1..Len(tokens) : TokenFacts(EndOf(i - 1), tokens[i])
  /\ \A i \in 1..Len(tokens) : Clean(i) => PlaceFacts(tokens[i])
  /\ Clean(Len(tokens)) /\ ~Ended /\ ~Beyond => LineIs(at, line) /\ ColumnIs(at, Column)
  /\ \A i \in 1..Len(tokens) : NotAhead(UpTo(tokens[i].to), tokens[i].line)
  /\ NotAhead(UpTo(at), line)

LEMMA ScanStarts == Init => ScanInv
<1>1. SUFFICES ASSUME Init PROVE ScanInv
  OBVIOUS
<1>2. /\ source \in Texts /\ at = 0 /\ start = 0 /\ line = 1 /\ column = 1 /\ tokens = <<>>
  BY <1>1 DEF Init, Start
<1>3. Len(tokens) = 0 /\ tokens \in Seq(TokenType) /\ EndOf(0) = 0
  BY <1>2 DEF EndOf
<1>4. LineIs(0, 1)
  <2>1. PICK f : f = [i \in 0..0 |-> 1]
    OBVIOUS
  <2>2. Tally(f, 0) /\ f[0] = 1
    BY <2>1 DEF Tally
  <2> QED
    BY <2>2 DEF LineIs
<1>5. ColumnIs(0, 1)
  <2>1. StartsAt(0, 0) /\ 1 = 1 + 0 - 0
    BY DEF StartsAt
  <2> QED
    BY <2>1 DEF ColumnIs
<1>6. Column = 1
  BY <1>2 DEF Column
<1>7. 1..0 = {}
  OBVIOUS
<1>8. UpTo(0) = 0
  BY <1>2, PeekIs DEF UpTo
<1>9. NotAhead(UpTo(at), line)
  BY <1>2, <1>4, <1>8 DEF NotAhead
<1> QED
  BY <1>2, <1>3, <1>4, <1>5, <1>6, <1>7, <1>9 DEF ScanInv

(* the token that a call of scanToken returns *)
LEMMA TokenMade ==
  ASSUME ScanInv, ScanToken
  PROVE  \E k \in TokenType :
           /\ tokens' = Append(tokens, k) /\ source' = source
           /\ at' = k.to /\ start' = k.from /\ line' = k.line /\ column' = k.column
           /\ k.from <= k.to /\ TokenFacts(at, k)
           /\ NotAhead(UpTo(k.to), k.line)
           /\ Clean(Len(tokens)) /\ InOneLine(k) =>
                /\ PlaceFacts(k)
                /\ k.type # "eof" /\ k.to <= Len(source) =>
                     LineIs(k.to, k.line) /\ ColumnIs(k.to, k.column + (k.to - k.from))
<1>1. PICK L : L = Len(source) /\ L \in Nat
  BY PeekIs DEF ScanInv
<1>2. /\ source \in Texts /\ at \in 0..L /\ start \in 0..at /\ line \in Nat /\ column \in Int
      /\ ~Ended /\ ~Beyond
  <2>1. ~Ended /\ ~Beyond
    BY DEF ScanToken
  <2> QED
    BY <1>1, <2>1 DEF ScanInv, Beyond
<1>3. PICK s, t, l, c, k :
        /\ s = SkipWhitespace(at) /\ t = Scanned(s.at)
        /\ l = line + s.lines + (IF Peek(s.at) = "\"" /\ BrokeLine(s.at + 1) THEN 1 ELSE 0)
        /\ c = IF Peek(s.at) = "\"" /\ BrokeLine(s.at + 1) THEN 1
               ELSE IF s.set THEN s.columns ELSE Column + s.columns
        /\ k = [type |-> t.type, from |-> s.at, to |-> t.at, line |-> l, column |-> c]
        /\ tokens' = Append(tokens, k) /\ source' = source
        /\ start' = s.at /\ at' = t.at /\ line' = l /\ column' = c
  BY DEF ScanToken
<1>4. s = SkipWhitespace(at) /\ t = Scanned(s.at)
  BY <1>3
<1>5. /\ l = line + s.lines + (IF Peek(s.at) = "\"" /\ BrokeLine(s.at + 1) THEN 1 ELSE 0)
      /\ c = IF Peek(s.at) = "\"" /\ BrokeLine(s.at + 1) THEN 1
             ELSE IF s.set THEN s.columns ELSE Column + s.columns
  BY <1>3
<1>6. k = [type |-> t.type, from |-> s.at, to |-> t.at, line |-> l, column |-> c]
  BY <1>3
<1>7. Column \in Int
  BY <1>1, <1>2 DEF Column
<1>8. \/ l = line + s.lines + 1 /\ c = 1
      \/ l = line + s.lines + 0 /\ c = IF s.set THEN s.columns ELSE Column + s.columns
  BY <1>5, Zenon
<1>9. /\ Skipped(at, s) /\ Counted(at, s)
  BY <1>1, <1>2, <1>3, SkipWhitespaceCounts
<1>10. /\ s.at \in at..L /\ s.at \in 0..L /\ s.lines \in Nat /\ s.columns \in Nat /\ s.set \in BOOLEAN
       /\ Peek(s.at) \notin Blanks /\ Gap(at, s.at)
  BY <1>1, <1>2, <1>9 DEF Skipped, SkipType
<1>11. line \in Nat /\ s.lines \in Nat /\ s.columns \in Nat
  BY <1>2, <1>10
<1>12. Scans(t.type, s.at, t.at)
  BY <1>1, <1>2, <1>10, <1>4, ScannedIs
<1>13. t.type \in Kinds /\ t.at \in Nat /\ s.at <= t.at
  BY <1>1, <1>10, <1>12 DEF Scans
<1>14. l \in Nat /\ c \in Int
  BY <1>7, <1>8, <1>11
<1>15. /\ k \in TokenType /\ k.type = t.type /\ k.from = s.at /\ k.to = t.at /\ k.line = l
       /\ k.column = c
  BY <1>10, <1>13, <1>14, <1>6 DEF TokenType
<1>16. TokenFacts(at, k)
  BY <1>1, <1>2, <1>10, <1>12, <1>15 DEF TokenFacts
<1>17. ASSUME Peek(s.at) = "\"", BrokeLine(s.at + 1)
       PROVE  \E p \in (s.at + 1)..L : p <= t.at /\ source[p] = Newline
  <2>1. \A x \in Letters \cup Digits : x # "\""
    BY LettersApart, DigitsApart DEF Named
  <2>2. t = String(s.at + 1)
    BY <1>4, <1>17, <2>1 DEF Scanned, AtEnd
  <2>3. s.at < L
    <3>1. Peek(s.at) = "\""
      BY <1>17
    <3>2. Peek(L) = "NUL"
      BY <1>1, <1>2, PeekIs
    <3>3. s.at # L
      BY <3>1, <3>2
    <3> QED
      BY <1>1, <1>10, <3>3
  <2> QED
    BY <1>1, <1>2, <1>10, <1>17, <2>2, <2>3, BrokenHolds
<1>18. NotAhead(UpTo(k.to), k.line)
  <2>1. UpTo(at) = at /\ at <= L
    BY <1>1, <1>2 DEF UpTo
  <2>2. PICK x \in Nat : LineIs(at, x) /\ line <= x
    BY <2>1 DEF ScanInv, NotAhead
  <2>3. LineIs(s.at, x + s.lines) /\ x + s.lines \in Nat
    BY <1>9, <1>11, <2>2 DEF Counted
  <2>4. PICK m : m = UpTo(t.at) /\ m \in Nat /\ s.at <= m /\ (t.at <= L => m = t.at)
                 /\ (~(t.at <= L) => m = L)
    BY <1>1, <1>10, <1>13 DEF UpTo
  <2>5. PICK y \in Nat : LineIs(m, y) /\ x + s.lines <= y
                         /\ (~Straight(s.at, m) => x + s.lines + 1 <= y)
    <3>1. PICK e, z : e = s.at /\ e \in Nat /\ e <= m /\ z = x + s.lines /\ z \in Nat
      BY <1>1, <1>10, <2>3, <2>4
    <3>2. LineIs(e, z)
      BY <2>3, <3>1
    <3>3. \E y \in Nat : LineIs(m, y) /\ z <= y /\ (~Straight(e, m) => z + 1 <= y)
      BY <2>4, <3>1, <3>2, LinesOn
    <3> QED
      BY <3>1, <3>3
  <2>6. CASE Peek(s.at) = "\"" /\ BrokeLine(s.at + 1)
    <3>1. PICK p \in (s.at + 1)..L : p <= t.at /\ source[p] = Newline
      BY <1>17, <2>6
    <3>2. p \in (s.at + 1)..m
      BY <1>1, <1>10, <1>13, <2>4, <3>1
    <3>3. ~Straight(s.at, m)
      BY <3>1, <3>2 DEF Straight
    <3>4. l <= y
      BY <1>8, <1>11, <2>2, <2>5, <3>3
    <3> QED
      BY <1>15, <2>4, <2>5, <3>4 DEF NotAhead
  <2>7. CASE ~(Peek(s.at) = "\"" /\ BrokeLine(s.at + 1))
    <3>1. l = line + s.lines + 0
      BY <1>5, <2>7, Zenon
    <3>2. l <= y
      BY <1>11, <2>2, <2>5, <3>1
    <3> QED
      BY <1>15, <2>4, <2>5, <3>2 DEF NotAhead
  <2> QED
    BY <2>6, <2>7
<1>19. ASSUME Clean(Len(tokens)), InOneLine(k)
       PROVE  /\ PlaceFacts(k)
              /\ k.type # "eof" /\ k.to <= Len(source) =>
                   LineIs(k.to, k.line) /\ ColumnIs(k.to, k.column + (k.to - k.from))
  <2>1. LineIs(at, line) /\ ColumnIs(at, Column)
    BY <1>2, <1>19 DEF ScanInv
  <2>0. \A p \in 1..L : source[p] = Newline => ~(s.at < p /\ p <= t.at)
    BY <1>1, <1>15, <1>19 DEF InOneLine, NewlinesBefore, Newline
  <2>2. ~(Peek(s.at) = "\"" /\ BrokeLine(s.at + 1))
    <3>1. ASSUME Peek(s.at) = "\"", BrokeLine(s.at + 1) PROVE FALSE
      <4>1. PICK p \in (s.at + 1)..L : p <= t.at /\ source[p] = Newline
        BY <1>17, <3>1
      <4> QED
        BY <1>1, <1>10, <2>0, <4>1
    <3> QED
      BY <3>1, Zenon
  <2>3. l = line + s.lines /\ c = IF s.set THEN s.columns ELSE Column + s.columns
    <3>1. l = line + s.lines + 0 /\ c = IF s.set THEN s.columns ELSE Column + s.columns
      BY <1>5, <2>2, Zenon
    <3> QED
      BY <1>11, <3>1
  <2>4. LineIs(s.at, l)
    BY <1>2, <1>9, <2>1, <2>3 DEF Counted
  <2>5. ASSUME s.at < L PROVE ColumnIs(s.at, c)
    <3>1. CASE s.set
      BY <1>1, <1>9, <2>3, <2>5, <3>1 DEF Counted, ColumnIs
    <3>2. CASE ~s.set
      <4>1. Straight(at, s.at) /\ s.columns = s.at - at
        BY <1>1, <1>9, <2>5, <3>2 DEF Counted
      <4>2. PICK b : StartsAt(at, b) /\ Column = 1 + at - b
        BY <2>1 DEF ColumnIs
      <4>3. StartsAt(s.at, b)
        BY <1>2, <1>10, <4>1, <4>2 DEF StartsAt, Straight
      <4>4. b \in Nat
        BY <1>2, <4>2 DEF StartsAt
      <4>5. c = 1 + s.at - b
        BY <1>2, <1>10, <2>3, <3>2, <4>1, <4>2, <4>4
      <4> QED
        BY <4>3, <4>5 DEF ColumnIs
    <3> QED
      BY <3>1, <3>2
  <2>6. k.type # "eof" => s.at < L
    BY <1>1, <1>12, <1>15 DEF Scans
  <2>7. PlaceFacts(k)
    BY <1>15, <2>4, <2>5, <2>6 DEF PlaceFacts
  <2>8. ASSUME k.type # "eof", k.to <= Len(source)
        PROVE  LineIs(k.to, k.line) /\ ColumnIs(k.to, k.column + (k.to - k.from))
    <3>1. t.at \in (s.at + 1)..L /\ Straight(s.at, t.at)
      BY <1>1, <1>10, <1>12, <1>15, <2>0, <2>8 DEF Scans, Straight
    <3>2. LineIs(t.at, l)
      BY <1>10, <1>13, <2>4, <3>1, LineStays
    <3>3. PICK b : StartsAt(s.at, b) /\ c = 1 + s.at - b
      BY <2>5, <2>6, <2>8 DEF ColumnIs
    <3>4. StartsAt(t.at, b) /\ b \in Nat
      BY <1>10, <3>1, <3>3 DEF StartsAt, Straight
    <3>5. c + (t.at - s.at) = 1 + t.at - b
      BY <1>10, <1>13, <3>3, <3>4
    <3> QED
      BY <1>15, <3>2, <3>4, <3>5 DEF ColumnIs
  <2> QED
    BY <2>7, <2>8
<1> QED
  BY <1>3, <1>13, <1>15, <1>16, <1>18, <1>19

(* what is said of tokens is said of the source, which stays *)
LEMMA FactsStay ==
  ASSUME source' = source, NEW e, NEW k
  PROVE  TokenFacts(e, k) => TokenFacts(e, k)'
<1>1. Gap(e, k.from) => Gap(e, k.from)'
  BY DEF Gap, Commented
<1>2. \A n : Peek(n)' = Peek(n)
  BY DEF Peek
<1>3. \A n, i : Esc(n, i)' <=> Esc(n, i)
  BY <1>2 DEF Esc
<1>4. WordFacts(k.type, k.from, k.to) => WordFacts(k.type, k.from, k.to)'
  BY <1>2 DEF WordFacts
<1>5. NumberFacts(k.from, k.to) => NumberFacts(k.from, k.to)'
  BY <1>2 DEF NumberFacts
<1>6. StringFacts(k.from, k.to) => StringFacts(k.from, k.to)'
  BY <1>2, <1>3 DEF StringFacts
<1>7. OperatorFacts(k.from, k.to) => OperatorFacts(k.from, k.to)'
  BY <1>2 DEF OperatorFacts
<1>8. ErrorFacts(k.from, k.to) => ErrorFacts(k.from, k.to)'
  BY <1>2, <1>3 DEF ErrorFacts
<1>9. Scans(k.type, k.from, k.to) => Scans(k.type, k.from, k.to)'
  BY <1>4, <1>5, <1>6, <1>7, <1>8 DEF Scans
<1> QED
  BY <1>1, <1>2, <1>9 DEF TokenFacts

LEMMA PlacesStay ==
  ASSUME source' = source
  PROVE  /\ \A n, l : LineIs(n, l) => LineIs(n, l)'
         /\ \A n, c : ColumnIs(n, c) => ColumnIs(n, c)'
         /\ \A k : PlaceFacts(k) => PlaceFacts(k)'
         /\ \A k : InOneLine(k)' <=> InOneLine(k)
         /\ \A n, l : NotAhead(UpTo(n), l) => NotAhead(UpTo(n), l)'
<1>1. \A n, l : LineIs(n, l) => LineIs(n, l)'
  BY DEF LineIs, Tally
<1>2. \A n, c : ColumnIs(n, c) => ColumnIs(n, c)'
  BY DEF ColumnIs, StartsAt
<1>3. \A k : PlaceFacts(k) => PlaceFacts(k)'
  BY <1>1, <1>2 DEF PlaceFacts
<1>4. \A k : InOneLine(k)' <=> InOneLine(k)
  BY DEF InOneLine, NewlinesBefore
<1>5. \A n, l : NotAhead(UpTo(n), l) => NotAhead(UpTo(n), l)'
  <2>1. \A n : UpTo(n)' = UpTo(n)
    BY DEF UpTo
  <2> QED
    BY <1>1, <2>1 DEF NotAhead
<1> QED
  BY <1>1, <1>2, <1>3, <1>4, <1>5

LEMMA ScanKeeps == ScanInv /\ [Next]_vars => ScanInv'
<1>1. ASSUME ScanInv, UNCHANGED vars PROVE ScanInv'
  <2>1. source' = source /\ at' = at /\ start' = start /\ line' = line /\ column' = column /\ tokens' = tokens
    BY <1>1 DEF vars
  <2>2. \A i : EndOf(i)' = EndOf(i) /\ (Clean(i)' <=> Clean(i))
    BY <2>1, PlacesStay DEF EndOf, Clean
  <2>3. (Ended' <=> Ended) /\ (Beyond' <=> Beyond) /\ Column' = Column
    BY <2>1 DEF Ended, Beyond, Column
  <2>4. \A e, k : TokenFacts(e, k) => TokenFacts(e, k)'
    BY <2>1, FactsStay
  <2>5. \A i \in 1..Len(tokens) : TokenFacts(EndOf(i - 1), tokens[i])'
    BY <1>1, <2>1, <2>2, <2>4 DEF ScanInv
  <2>6. \A i \in 1..Len(tokens) : Clean(i) => PlaceFacts(tokens[i])'
    BY <1>1, <2>1, <2>2, PlacesStay DEF ScanInv
  <2>7. NotAhead(UpTo(at), line)' /\ \A i \in 1..Len(tokens) : NotAhead(UpTo(tokens[i].to), tokens[i].line)'
    BY <1>1, <2>1, PlacesStay DEF ScanInv
  <2> QED
    BY <1>1, <2>1, <2>2, <2>3, <2>5, <2>6, <2>7, PlacesStay DEF ScanInv
<1>2. ASSUME ScanInv, ScanToken PROVE ScanInv'
  <2>1. PICK k \in TokenType :
          /\ tokens' = Append(tokens, k) /\ source' = source
          /\ at' = k.to /\ start' = k.from /\ line' = k.line /\ column' = k.column
          /\ k.from <= k.to /\ TokenFacts(at, k)
          /\ NotAhead(UpTo(k.to), k.line)
          /\ Clean(Len(tokens)) /\ InOneLine(k) =>
               /\ PlaceFacts(k)
               /\ k.type # "eof" /\ k.to <= Len(source) =>
                    LineIs(k.to, k.line) /\ ColumnIs(k.to, k.column + (k.to - k.from))
    BY <1>2, TokenMade
  <2>2. PICK N : N = Len(tokens)
    OBVIOUS
  <2>3. tokens \in Seq(TokenType) /\ N \in Nat
    BY <1>2, <2>2 DEF ScanInv
  <2>4. /\ tokens' \in Seq(TokenType) /\ Len(tokens') = N + 1 /\ tokens'[N + 1] = k
        /\ \A i \in 1..N : tokens'[i] = tokens[i]
    BY <2>1, <2>2, <2>3
  <2>5. /\ \A i \in 0..N : EndOf(i)' = EndOf(i)
        /\ EndOf(N + 1)' = k.to
    BY <2>3, <2>4 DEF EndOf
  <2>6. /\ \A i \in 0..N : Clean(i)' <=> Clean(i)
        /\ Clean(N + 1)' => Clean(N) /\ InOneLine(k)
    <3>1. \A x : InOneLine(x)' <=> InOneLine(x)
      BY <2>1, PlacesStay
    <3> QED
      BY <2>3, <2>4, <3>1 DEF Clean
  <2>7. Ended' <=> k.type = "eof"
    BY <2>3, <2>4 DEF Ended
  <2>8. k.type \in Kinds /\ k.from \in Nat /\ k.to \in Nat /\ k.line \in Nat /\ k.column \in Int
    BY DEF TokenType
  <2>9. ASSUME NEW i \in 1..(N + 1) PROVE TokenFacts(EndOf(i - 1), tokens[i])'
    <3>1. CASE i = N + 1
      <4>1. PICK a : a = at
        OBVIOUS
      <4>2. TokenFacts(a, k)'
        BY <2>1, <4>1, FactsStay
      <4>3. EndOf(N)' = a
        <5>1. EndOf(N) = a /\ N \in 0..N
          BY <1>2, <2>2, <2>3, <4>1 DEF ScanInv
        <5> QED
          BY <2>5, <5>1
      <4>4. (N + 1) - 1 = N
        BY <2>3
      <4> QED
        BY <2>4, <3>1, <4>2, <4>3, <4>4
    <3>2. CASE i # N + 1
      <4>1. i \in 1..N /\ i - 1 \in 0..N
        BY <2>3, <3>2
      <4>2. PICK e, t : e = EndOf(i - 1) /\ t = tokens[i]
        OBVIOUS
      <4>3. TokenFacts(e, t)
        BY <1>2, <2>2, <4>1, <4>2 DEF ScanInv
      <4>4. TokenFacts(e, t)'
        BY <2>1, <4>3, FactsStay
      <4>5. EndOf(i - 1)' = e /\ tokens'[i] = t
        BY <2>4, <2>5, <4>1, <4>2
      <4> QED
        BY <4>4, <4>5
    <3> QED
      BY <3>1, <3>2
  <2>10. ASSUME NEW i \in 1..(N + 1), Clean(i)' PROVE PlaceFacts(tokens[i])'
    <3>1. CASE i = N + 1
      <4>1. PlaceFacts(k)
        BY <2>1, <2>2, <2>6, <2>10, <3>1
      <4>2. PlaceFacts(k)'
        BY <2>1, <4>1, PlacesStay
      <4> QED
        BY <2>4, <3>1, <4>2
    <3>2. CASE i # N + 1
      <4>1. i \in 1..N
        BY <2>3, <3>2
      <4>2. PICK t : t = tokens[i]
        OBVIOUS
      <4>3. PlaceFacts(t)
        BY <1>2, <2>2, <2>6, <2>10, <4>1, <4>2 DEF ScanInv
      <4>4. PlaceFacts(t)'
        BY <2>1, <4>3, PlacesStay
      <4>5. tokens'[i] = t
        BY <2>4, <4>1, <4>2
      <4> QED
        BY <4>4, <4>5
    <3> QED
      BY <3>1, <3>2
  <2>11. ASSUME Clean(Len(tokens))', ~Ended', ~Beyond' PROVE LineIs(at, line)' /\ ColumnIs(at, Column)'
    <3>1. Clean(Len(tokens)) /\ InOneLine(k) /\ k.type # "eof" /\ k.to <= Len(source)
      <4>1. k.to <= Len(source)
        BY <1>2, <2>1, <2>8, <2>11, PeekIs DEF Beyond, ScanInv
      <4> QED
        BY <2>2, <2>4, <2>6, <2>7, <2>11, <4>1
    <3>2. LineIs(k.to, k.line) /\ ColumnIs(k.to, k.column + (k.to - k.from))
      BY <2>1, <3>1
    <3>3. LineIs(k.to, k.line)' /\ ColumnIs(k.to, k.column + (k.to - k.from))'
      BY <2>1, <3>2, PlacesStay
    <3>4. Column' = k.column + (k.to - k.from)
      BY <2>1 DEF Column
    <3> QED
      BY <2>1, <3>3, <3>4
  <2>12. /\ source' \in Texts /\ at' \in Nat /\ start' \in 0..at' /\ line' \in Nat /\ column' \in Int
         /\ at' = EndOf(N + 1)'
    BY <1>2, <2>1, <2>5, <2>8 DEF ScanInv
  <2>13. NotAhead(UpTo(at), line)'
    BY <2>1, PlacesStay
  <2>14. ASSUME NEW i \in 1..(N + 1) PROVE NotAhead(UpTo(tokens[i].to), tokens[i].line)'
    <3>1. CASE i = N + 1
      BY <2>1, <2>4, <3>1, PlacesStay
    <3>2. CASE i # N + 1
      <4>1. i \in 1..N /\ tokens'[i] = tokens[i]
        BY <2>3, <2>4, <3>2
      <4>2. PICK t : t = tokens[i]
        OBVIOUS
      <4>3. NotAhead(UpTo(t.to), t.line)
        BY <1>2, <2>2, <4>1, <4>2 DEF ScanInv
      <4>4. NotAhead(UpTo(t.to), t.line)'
        BY <2>1, <4>3, PlacesStay
      <4> QED
        BY <4>1, <4>2, <4>4
    <3> QED
      BY <3>1, <3>2
  <2> QED
    <3>1. Len(tokens)' = N + 1
      BY <2>4
    <3>2. at' = EndOf(Len(tokens))'
      BY <2>12, <3>1
    <3>3. \A i \in 1..Len(tokens') : TokenFacts(EndOf(i - 1), tokens[i])'
      BY <2>9, <3>1
    <3>4. \A i \in 1..Len(tokens') : Clean(i)' => PlaceFacts(tokens[i])'
      BY <2>10, <3>1
    <3>5. \A i \in 1..Len(tokens') : NotAhead(UpTo(tokens[i].to), tokens[i].line)'
      BY <2>14, <3>1
    <3> QED
      BY <2>4, <2>11, <2>12, <2>13, <3>2, <3>3, <3>4, <3>5 DEF ScanInv
<1> QED
  BY <1>1, <1>2 DEF Next

(* The invariant of the scanner: what it skipped before each token, what   *)
(* each token is, and where it is, exactly until a token holds a line end. *)
THEOREM ScannerInvariant == Spec => []ScanInv
BY ScanStarts, ScanKeeps, PTL DEF Spec

-----------------------------------------------------------------------------
(* Where the tokens are *)

(* Between two tokens, and before the first, are blanks and comments only: *)
(* skipWhitespace and scanToken leave out no character and read none twice.*)
THEOREM NothingIsSkipped == Spec => []NothingSkipped
<1>1. ScanInv => NothingSkipped
  <2>1. SUFFICES ASSUME ScanInv, NEW i \in 1..Len(tokens)
        PROVE  /\ EndOf(i - 1) <= tokens[i].from
               /\ tokens[i].type # "eof" => tokens[i].from < tokens[i].to
               /\ \A p \in (EndOf(i - 1) + 1)..tokens[i].from :
                    \/ source[p] \in Blanks \/ Commented(p, EndOf(i - 1))
                    \/ p < tokens[i].from /\ source[p] = "/" /\ source[p + 1] = "/"
               /\ tokens[i].type # "eof" => Peek(tokens[i].from) \notin Blanks \cup {"NUL"}
    BY DEF NothingSkipped
  <2>2. PICK L, e, k : L = Len(source) /\ L \in Nat /\ e = EndOf(i - 1) /\ k = tokens[i]
    BY <2>1, PeekIs DEF ScanInv
  <2>3. TokenFacts(e, k) /\ source \in Texts
    BY <2>1, <2>2 DEF ScanInv
  <2>4. e \in 0..L /\ k.from \in e..L /\ Gap(e, k.from) /\ Peek(k.from) \notin Blanks
    BY <2>2, <2>3 DEF TokenFacts
  <2>5. k.type # "eof" => k.from < L /\ k.to \in (k.from + 1)..(L + 1)
    BY <2>2, <2>3 DEF TokenFacts, Scans
  <2>6. k.type # "eof" => Peek(k.from) # "NUL"
    BY <2>2, <2>3, <2>4, <2>5, PeekIs
  <2> QED
    BY <2>2, <2>4, <2>5, <2>6 DEF Gap
<1> QED
  BY <1>1, ScannerInvariant, PTL

(* Blanks, line ends and comments are counted so that a token tells the    *)
(* line and the column it starts at, until an error in a string holds a    *)
(* line end; no other token does, and never are lines counted too many.    *)
THEOREM TokensAreLocated == Spec => []Located
<1>1. ScanInv => Located
  <2>1. SUFFICES ASSUME ScanInv, NEW i \in 1..Len(tokens)
        PROVE  /\ Clean(i) =>
                    /\ tokens[i].line = Lines(tokens[i].from)
                    /\ tokens[i].type # "eof" =>
                         tokens[i].column = 1 + tokens[i].from - LineStart(tokens[i].from)
               /\ tokens[i].type # "error" => InOneLine(tokens[i])
               /\ tokens[i].line <= Lines(UpTo(tokens[i].to))
    BY DEF Located, Clean
  <2>2. PICK k, L : k = tokens[i] /\ k \in TokenType /\ L = Len(source) /\ L \in Nat
    BY <2>1, PeekIs DEF ScanInv
  <2>3. k.from \in Nat /\ k.to \in Nat
    BY <2>2 DEF TokenType
  <2>4. ASSUME Clean(i)
        PROVE  /\ k.line = Lines(k.from)
               /\ k.type # "eof" => k.column = 1 + k.from - LineStart(k.from)
    <3>1. PlaceFacts(k)
      BY <2>1, <2>2, <2>4 DEF ScanInv
    <3>2. k.line = Lines(k.from)
      BY <2>3, <3>1, LinesAre DEF PlaceFacts
    <3>3. ASSUME k.type # "eof" PROVE k.column = 1 + k.from - LineStart(k.from)
      <4>1. PICK b : StartsAt(k.from, b) /\ k.column = 1 + k.from - b
        BY <3>1, <3>3 DEF PlaceFacts, ColumnIs
      <4> QED
        BY <2>3, <4>1, LineStartIs
    <3> QED
      BY <3>2, <3>3
  <2>5. ASSUME k.type # "error" PROVE InOneLine(k)
    <3>1. source \in Texts /\ Scans(k.type, k.from, k.to) /\ k.from \in 0..L
      BY <2>1, <2>2, <2>3 DEF ScanInv, TokenFacts
    <3>2. CASE k.type = "eof"
      BY <2>2, <2>3, <3>1, <3>2 DEF Scans, InOneLine, NewlinesBefore
    <3>3. CASE k.type # "eof"
      <4>1. k.type \in Kinds \ {"error", "eof"}
        BY <2>2, <2>5, <3>3 DEF TokenType
      <4>2. Straight(k.from, k.to)
        BY <2>2, <3>1, <4>1, TokenStraight
      <4> QED
        BY <2>2, <2>3, <4>2 DEF Straight, InOneLine, NewlinesBefore, Newline
    <3> QED
      BY <3>2, <3>3
  <2>6. k.line <= Lines(UpTo(k.to))
    <3>1. PICK l \in Nat : LineIs(UpTo(k.to), l) /\ k.line <= l
      BY <2>1, <2>2 DEF ScanInv, NotAhead
    <3>2. UpTo(k.to) \in Nat
      BY <2>2, <2>3 DEF UpTo
    <3> QED
      BY <3>1, <3>2, LinesAre
  <2> QED
    BY <2>2, <2>4, <2>5, <2>6
<1> QED
  BY <1>1, ScannerInvariant, PTL

-----------------------------------------------------------------------------
(* What the tokens are *)

LEMMA TextIs ==
  ASSUME source \in Texts, NEW n \in 0..Len(source), NEW m \in n..Len(source),
         NEW w, w = SubSeq(source, n + 1, m)
  PROVE  /\ w \in Seq(STRING) /\ Len(w) = m - n /\ m - n \in Nat
         /\ \A i \in 1..(m - n) : w[i] = Peek(n + i - 1)
<1>1. PICK L : L = Len(source) /\ L \in Nat /\ source \in Seq(STRING)
  BY PeekIs
<1>2. Len(w) = m - n /\ m - n \in Nat /\ w \in Seq(STRING)
  BY <1>1
<1>3. ASSUME NEW i \in 1..(m - n) PROVE w[i] = Peek(n + i - 1)
  <2>1. w[i] = source[n + i]
    BY <1>1
  <2>2. n + i - 1 \in 0..L /\ n + i - 1 < L /\ (n + i - 1) + 1 = n + i
    BY <1>1
  <2>3. Peek(n + i - 1) = source[n + i]
    BY <1>1, <2>2, PeekIs
  <2> QED
    BY <2>1, <2>3
<1> QED
  BY <1>2, <1>3

(* Escaped looks at the text of a string from its quote on, Esc at the     *)
(* source from behind it                                                   *)
LEMMA EscapedIs ==
  ASSUME source \in Texts, NEW n \in 0..Len(source), NEW m \in n..Len(source), Peek(n) = Quote,
         NEW w, w = SubSeq(source, n + 1, m), NEW i \in 2..Len(w)
  PROVE  Escaped(w, i) <=> Esc(n + 1, n + i - 1)
<1>1. /\ Len(w) = m - n /\ m - n \in Nat /\ n \in Nat
      /\ \A j \in 1..(m - n) : w[j] = Peek(n + j - 1)
  BY PeekIs, TextIs
<1>2. ASSUME Escaped(w, i) PROVE Esc(n + 1, n + i - 1)
  <2>1. PICK j \in 1..(i - 1) : /\ (i - j) % 2 = 1
                                /\ \A k \in j..(i - 1) : w[k] = Backslash
                                /\ j = 1 \/ w[j - 1] # Backslash
    BY <1>2 DEF Escaped, Backslash
  <2>2. j # 1
    <3>1. w[1] = Quote
      BY <1>1
    <3> QED
      BY <2>1, <3>1 DEF Quote, Backslash
  <2>3. PICK x : x = n + j - 1
    OBVIOUS
  <2>4. x \in (n + 1)..((n + i - 1) - 1) /\ (n + i - 1) - x = i - j
    BY <1>1, <2>2, <2>3
  <2>5. \A l \in x..((n + i - 1) - 1) : Peek(l) = Backslash
    <3>1. ASSUME NEW l \in x..((n + i - 1) - 1) PROVE Peek(l) = Backslash
      <4>1. l - n + 1 \in j..(i - 1) /\ l - n + 1 \in 1..(m - n) /\ n + (l - n + 1) - 1 = l
        BY <1>1, <2>3, <2>4
      <4> QED
        BY <1>1, <2>1, <4>1
    <3> QED
      BY <3>1
  <2>6. Peek(x - 1) # Backslash
    <3>1. j - 1 \in 1..(m - n) /\ n + (j - 1) - 1 = x - 1
      BY <1>1, <2>2, <2>3
    <3> QED
      BY <1>1, <2>1, <2>2, <3>1
  <2> QED
    BY <2>1, <2>4, <2>5, <2>6 DEF Esc
<1>3. ASSUME Esc(n + 1, n + i - 1) PROVE Escaped(w, i)
  <2>1. PICK x \in (n + 1)..((n + i - 1) - 1) :
          /\ ((n + i - 1) - x) % 2 = 1
          /\ \A l \in x..((n + i - 1) - 1) : Peek(l) = Backslash
          /\ x = n + 1 \/ Peek(x - 1) # Backslash
    BY <1>3 DEF Esc
  <2>2. PICK j : j = x - n + 1
    OBVIOUS
  <2>3. /\ j \in 2..(i - 1) /\ i - j = (n + i - 1) - x
        /\ j - 1 \in 1..(m - n) /\ n + (j - 1) - 1 = x - 1
    BY <1>1, <2>2
  <2>4. \A k \in j..(i - 1) : w[k] = Backslash
    <3>1. ASSUME NEW k \in j..(i - 1) PROVE w[k] = Backslash
      <4>1. n + k - 1 \in x..((n + i - 1) - 1) /\ k \in 1..(m - n)
        BY <1>1, <2>2, <2>3
      <4> QED
        BY <1>1, <2>1, <4>1
    <3> QED
      BY <3>1
  <2>5. w[j - 1] # Backslash
    <3>1. w[j - 1] = Peek(x - 1)
      BY <1>1, <2>3
    <3>2. x = n + 1 => x - 1 = n
      BY <1>1
    <3> QED
      BY <2>1, <3>1, <3>2 DEF Quote, Backslash
  <2> QED
    <3>1. j \in 1..(i - 1) /\ (i - j) % 2 = 1
      BY <2>1, <2>3
    <3> QED
      BY <2>4, <2>5, <3>1 DEF Escaped, Backslash
<1> QED
  BY <1>2, <1>3

(* A scanner beyond its source has just read a quote that no text of a     *)
(* string begins with: string() passes the closing quote unasked.          *)
THEOREM ScannerStaysIn == Spec => []InSource
<1>1. ScanInv => InSource
  <2>1. SUFFICES ASSUME ScanInv, Beyond
        PROVE  /\ tokens[Len(tokens)].type = "error"
               /\ source[tokens[Len(tokens)].from + 1] = "\""
               /\ \A n \in tokens[Len(tokens)].from..Len(source) :
                    ~IsString(SubSeq(source, tokens[Len(tokens)].from + 1, n))
    BY DEF InSource
  <2>2. PICK L, N, k : L = Len(source) /\ L \in Nat /\ N = Len(tokens) /\ N \in Nat /\ k = tokens[N]
    <3>1. source \in Texts /\ Len(tokens) \in Nat
      BY <2>1 DEF ScanInv
    <3> QED
      BY <3>1, PeekIs
  <2>3. N \in 1..N /\ at = k.to /\ L < at /\ source \in Texts
    BY <2>1, <2>2 DEF ScanInv, Beyond, EndOf
  <2>4. TokenFacts(EndOf(N - 1), k)
    BY <2>1, <2>2, <2>3 DEF ScanInv
  <2>5. k.from \in 0..L /\ Scans(k.type, k.from, k.to)
    BY <2>2, <2>4 DEF TokenFacts
  <2>6. k.type = "error" /\ k.to = L + 1 /\ k.from < L
    <3>1. k.type \in {"keyword", "identifier"} => k.to <= L
      BY <2>2, <2>5 DEF Scans, WordFacts
    <3>2. k.type = "number" => k.to <= L
      BY <2>2, <2>5 DEF Scans, NumberFacts
    <3>3. k.type = "string" => k.to <= L
      BY <2>2, <2>5 DEF Scans, StringFacts
    <3>4. k.type = "operator" => k.to <= L
      BY <2>2, <2>5 DEF Scans, OperatorFacts
    <3>5. k.type = "eof" => k.to = L
      BY <2>2, <2>5 DEF Scans
    <3>6. k.type \in Kinds /\ (k.type # "eof" => k.from < L /\ k.to \in (k.from + 1)..(L + 1))
      BY <2>2, <2>5 DEF Scans
    <3>7. k.type = "error"
      BY <2>2, <2>3, <3>1, <3>2, <3>3, <3>4, <3>5, <3>6 DEF Kinds
    <3> QED
      BY <2>2, <2>3, <2>5, <3>6, <3>7
  <2>7. Peek(k.from) = Quote /\ \A i \in (k.from + 1)..(L - 1) : Peek(i) = Quote => Esc(k.from + 1, i)
    BY <2>2, <2>5, <2>6 DEF Scans, ErrorFacts
  <2>8. source[k.from + 1] = "\""
    BY <2>2, <2>3, <2>5, <2>6, <2>7, PeekIs DEF Quote
  <2>9. ASSUME NEW n \in k.from..L, NEW w, w = SubSeq(source, k.from + 1, n), IsString(w)
        PROVE  FALSE
    <3>1. PICK f, l : f = k.from /\ l = Len(w)
      OBVIOUS
    <3>2. /\ f \in 0..Len(source) /\ n \in f..Len(source) /\ w = SubSeq(source, f + 1, n)
          /\ source \in Texts /\ Peek(f) = Quote
      BY <2>2, <2>3, <2>5, <2>7, <2>9, <3>1
    <3>3. l = n - f /\ l \in Nat /\ \A i \in 1..l : w[i] = Peek(f + i - 1)
      <4>1. Len(w) = n - f /\ n - f \in Nat /\ \A i \in 1..(n - f) : w[i] = Peek(f + i - 1)
        BY <3>2, TextIs
      <4>2. l = n - f
        BY <3>1, <4>1
      <4> QED
        BY <4>1, <4>2
    <3>4. l >= 2 /\ w[l] = Quote /\ ~Escaped(w, l)
      BY <2>9, <3>1 DEF IsString, Quote
    <3>5. f + l - 1 \in (f + 1)..(L - 1) /\ l \in 1..l /\ l \in 2..l
      BY <2>2, <3>2, <3>4, <3>3
    <3>6. Esc(f + 1, f + l - 1)
      BY <2>7, <3>1, <3>4, <3>5, <3>3
    <3>7. Escaped(w, l)
      BY <3>1, <3>2, <3>5, <3>6, EscapedIs
    <3> QED
      BY <3>4, <3>7
  <2> QED
    BY <2>2, <2>6, <2>8, <2>9
<1> QED
  BY <1>1, ScannerInvariant, PTL

(* what each kind of text begins with *)
LEMMA FirstIs ==
  ASSUME NEW w \in Seq(STRING)
  PROVE  /\ IsWord(w) => w[1] \in Letters
         /\ IsNumber(w) => w[1] \in Digits
         /\ IsOperator(w) => w[1] \in Single /\ Len(w) \in 1..2
         /\ IsString(w) => w[1] = Quote
<1>1. IsWord(w) => w[1] \in Letters
  BY DEF IsWord
<1>2. IsString(w) => w[1] = Quote
  BY DEF IsString, Quote
<1>3. IsOperator(w) => w[1] \in Single /\ Len(w) \in 1..2
  <2>1. WithEqual \subseteq Single /\ "*" \in Single
    BY DEF WithEqual, Single
  <2> QED
    BY <2>1 DEF IsOperator
<1>4. ASSUME IsNumber(w) PROVE w[1] \in Digits
  <2>1. CASE AllDigits(w)
    <3>1. w # <<>> /\ \A i \in 1..Len(w) : w[i] \in Digits
      BY <2>1 DEF AllDigits
    <3>2. 1 \in 1..Len(w)
      BY <3>1
    <3> QED
      BY <3>1, <3>2
  <2>2. CASE \E i \in 2..(Len(w) - 1) : AllDigits(SubSeq(w, 1, i - 1))
    <3>1. PICK i \in 2..(Len(w) - 1) : AllDigits(SubSeq(w, 1, i - 1))
      BY <2>2
    <3>2. PICK v : v = SubSeq(w, 1, i - 1)
      OBVIOUS
    <3>3. Len(v) = i - 1 /\ v[1] = w[1] /\ 1 \in 1..Len(v)
      BY <3>1, <3>2
    <3> QED
      BY <3>1, <3>2, <3>3 DEF AllDigits
  <2> QED
    BY <1>4, <2>1, <2>2 DEF IsNumber
<1> QED
  BY <1>1, <1>2, <1>3, <1>4

(* a keyword is recognized by its first letters, its length and the rest *)
Typed(k) == k.seen \in Seq(Small) /\ k.rest \in Seq(Small)

LEMMA KeywordsTyped == \A k \in Keywords : Typed(k)
<1>1. ASSUME NEW a \in Seq(Small), NEW b \in Seq(Small) PROVE Typed(Keyword(a, b))
  BY DEF Typed, Keyword
<1>2. /\ "a" \in Small /\ "b" \in Small /\ "c" \in Small /\ "d" \in Small /\ "e" \in Small /\ "f" \in Small
      /\ "h" \in Small /\ "i" \in Small /\ "k" \in Small /\ "l" \in Small /\ "n" \in Small /\ "o" \in Small
      /\ "p" \in Small /\ "r" \in Small /\ "s" \in Small /\ "t" \in Small /\ "u" \in Small /\ "v" \in Small
      /\ "w" \in Small /\ "y" \in Small
  BY DEF Small
<1>3. /\ <<>> \in Seq(Small)
      /\ <<"a", "n">> \in Seq(Small)
      /\ <<"a", "r">> \in Seq(Small)
      /\ <<"a", "s">> \in Seq(Small)
      /\ <<"a", "s", "s">> \in Seq(Small)
      /\ <<"a", "t", "i", "c">> \in Seq(Small)
  BY <1>2
<1>4. /\ <<"b">> \in Seq(Small)
      /\ <<"c", "a", "s">> \in Seq(Small)
      /\ <<"c", "a", "t">> \in Seq(Small)
      /\ <<"c", "h">> \in Seq(Small)
      /\ <<"c", "l">> \in Seq(Small)
      /\ <<"c", "o">> \in Seq(Small)
  BY <1>2
<1>5. /\ <<"d">> \in Seq(Small)
      /\ <<"e">> \in Seq(Small)
      /\ <<"e", "f", "a", "u", "l", "t">> \in Seq(Small)
      /\ <<"e", "t", "u", "r", "n">> \in Seq(Small)
      /\ <<"f">> \in Seq(Small)
      /\ <<"f", "a">> \in Seq(Small)
  BY <1>2
<1>6. /\ <<"f", "i">> \in Seq(Small)
      /\ <<"f", "o">> \in Seq(Small)
      /\ <<"f", "u">> \in Seq(Small)
      /\ <<"h", "i", "l", "e">> \in Seq(Small)
      /\ <<"i">> \in Seq(Small)
      /\ <<"i", "l">> \in Seq(Small)
  BY <1>2
<1>7. /\ <<"i", "t", "c", "h">> \in Seq(Small)
      /\ <<"l", "s", "e">> \in Seq(Small)
      /\ <<"n">> \in Seq(Small)
      /\ <<"n", "a", "l", "l", "y">> \in Seq(Small)
      /\ <<"n", "t", "i", "n", "u", "e">> \in Seq(Small)
      /\ <<"o">> \in Seq(Small)
  BY <1>2
<1>8. /\ <<"o", "w">> \in Seq(Small)
      /\ <<"p">> \in Seq(Small)
      /\ <<"p", "e", "r">> \in Seq(Small)
      /\ <<"r">> \in Seq(Small)
      /\ <<"r", "e", "a", "k">> \in Seq(Small)
      /\ <<"r", "i", "n", "t">> \in Seq(Small)
  BY <1>2
<1>9. /\ <<"s">> \in Seq(Small)
      /\ <<"s", "t">> \in Seq(Small)
      /\ <<"s", "u">> \in Seq(Small)
      /\ <<"s", "w">> \in Seq(Small)
      /\ <<"t", "h", "i">> \in Seq(Small)
      /\ <<"t", "h", "r">> \in Seq(Small)
  BY <1>2
<1>10. /\ <<"t", "r", "u">> \in Seq(Small)
      /\ <<"t", "r", "y">> \in Seq(Small)
      /\ <<"v">> \in Seq(Small)
      /\ <<"w">> \in Seq(Small)
  BY <1>2
<1>11. /\ Typed(Keyword(<<"a", "n">>, <<"d">>))
      /\ Typed(Keyword(<<"a", "s">>, <<>>))
      /\ Typed(Keyword(<<"b">>, <<"r", "e", "a", "k">>))
      /\ Typed(Keyword(<<"c", "a", "s">>, <<"e">>))
      /\ Typed(Keyword(<<"c", "a", "t">>, <<"c", "h">>))
      /\ Typed(Keyword(<<"c", "l">>, <<"a", "s", "s">>))
      /\ Typed(Keyword(<<"c", "o">>, <<"n", "t", "i", "n", "u", "e">>))
  BY <1>1, <1>3, <1>4, <1>5, <1>6, <1>7, <1>8, <1>9, <1>10
<1>12. /\ Typed(Keyword(<<"d">>, <<"e", "f", "a", "u", "l", "t">>))
      /\ Typed(Keyword(<<"e">>, <<"l", "s", "e">>))
      /\ Typed(Keyword(<<"f", "a">>, <<"l", "s", "e">>))
      /\ Typed(Keyword(<<"f", "o">>, <<"r">>))
      /\ Typed(Keyword(<<"f", "u">>, <<"n">>))
      /\ Typed(Keyword(<<"f", "i">>, <<"n", "a", "l", "l", "y">>))
      /\ Typed(Keyword(<<"i">>, <<"f">>))
  BY <1>1, <1>3, <1>4, <1>5, <1>6, <1>7, <1>8, <1>9, <1>10
<1>13. /\ Typed(Keyword(<<"n">>, <<"i", "l">>))
      /\ Typed(Keyword(<<"o">>, <<"r">>))
      /\ Typed(Keyword(<<"p">>, <<"r", "i", "n", "t">>))
      /\ Typed(Keyword(<<"r">>, <<"e", "t", "u", "r", "n">>))
      /\ Typed(Keyword(<<"s", "t">>, <<"a", "t", "i", "c">>))
      /\ Typed(Keyword(<<"s", "u">>, <<"p", "e", "r">>))
      /\ Typed(Keyword(<<"s", "w">>, <<"i", "t", "c", "h">>))
  BY <1>1, <1>3, <1>4, <1>5, <1>6, <1>7, <1>8, <1>9, <1>10
<1>14. /\ Typed(Keyword(<<"t", "h", "i">>, <<"s">>))
      /\ Typed(Keyword(<<"t", "h", "r">>, <<"o", "w">>))
      /\ Typed(Keyword(<<"t", "r", "u">>, <<"e">>))
      /\ Typed(Keyword(<<"t", "r", "y">>, <<>>))
      /\ Typed(Keyword(<<"v">>, <<"a", "r">>))
      /\ Typed(Keyword(<<"w">>, <<"h", "i", "l", "e">>))
  BY <1>1, <1>3, <1>4, <1>5, <1>6, <1>7, <1>8, <1>9, <1>10
<1> QED
  BY <1>11, <1>12, <1>13, <1>14 DEF Keywords

LEMMA TwoParts ==
  ASSUME NEW S, NEW w \in Seq(S), NEW a \in Seq(S), NEW b \in Seq(S)
  PROVE  w = a \o b <=>
           /\ Len(w) >= Len(a) /\ SubSeq(w, 1, Len(a)) = a
           /\ Len(w) = Len(a) + Len(b) /\ SubSeq(w, Len(a) + 1, Len(w)) = b
<1>1. PICK l, p, q, c : l = Len(w) /\ p = Len(a) /\ q = Len(b) /\ c = a \o b
  OBVIOUS
<1>2. /\ l \in Nat /\ p \in Nat /\ q \in Nat /\ c \in Seq(S) /\ Len(c) = p + q
      /\ \A i \in 1..(p + q) : c[i] = IF i <= p THEN a[i] ELSE b[i - p]
  BY <1>1, ConcatProperties
<1>3. ASSUME w = c
      PROVE  /\ l >= p /\ SubSeq(w, 1, p) = a
             /\ l = p + q /\ SubSeq(w, p + 1, l) = b
  <2>1. l = p + q /\ l >= p
    BY <1>1, <1>2, <1>3
  <2>2. PICK x, y : x = SubSeq(w, 1, p) /\ y = SubSeq(w, p + 1, l)
    OBVIOUS
  <2>3. x \in Seq(S) /\ Len(x) = p /\ \A i \in 1..p : x[i] = w[i]
    <3>1. 1 \in 1..(l + 1) /\ p \in 0..l
      BY <1>2, <2>1
    <3> QED
      BY <1>1, <1>2, <2>2, <3>1, SubSeqProperties
  <2>4. y \in Seq(S) /\ Len(y) = q /\ \A i \in 1..q : y[i] = w[p + i]
    <3>1. PICK m : m = p + 1 /\ m \in Int /\ l \in Int /\ l - m + 1 = q
      BY <1>2, <2>1
    <3>2. \A i \in m..l : w[i] \in S
      BY <1>1, <1>2, <3>1
    <3>3. /\ y \in Seq(S) /\ Len(y) = IF m <= l THEN l - m + 1 ELSE 0
          /\ \A i \in 1..(l - m + 1) : y[i] = w[m + i - 1]
      BY <2>2, <3>1, <3>2, SubSeqProperties
    <3>4. Len(y) = q
      BY <1>2, <2>1, <3>1, <3>3
    <3>5. \A i \in 1..q : m + i - 1 = p + i
      BY <1>2, <3>1
    <3> QED
      BY <3>1, <3>3, <3>4, <3>5
  <2>5. x = a
    <3>1. \A i \in 1..p : x[i] = a[i]
      BY <1>2, <1>3, <2>3
    <3> QED
      BY <1>1, <2>3, <3>1, SeqEqual
  <2>6. y = b
    <3>1. \A i \in 1..q : y[i] = b[i]
      <4>1. ASSUME NEW i \in 1..q PROVE y[i] = b[i]
        <5>1. p + i \in 1..(p + q) /\ ~(p + i <= p) /\ (p + i) - p = i
          BY <1>2
        <5> QED
          BY <1>2, <1>3, <2>4, <5>1
      <4> QED
        BY <4>1
    <3> QED
      BY <1>1, <2>4, <3>1, SeqEqual
  <2> QED
    BY <2>1, <2>2, <2>5, <2>6
<1>4. ASSUME SubSeq(w, 1, p) = a, l = p + q, SubSeq(w, p + 1, l) = b PROVE w = c
  <2>1. PICK x, y : x = SubSeq(w, 1, p) /\ y = SubSeq(w, p + 1, l)
    OBVIOUS
  <2>2. \A i \in 1..p : x[i] = w[i]
    BY <1>1, <1>2, <1>4, <2>1
  <2>3. \A i \in 1..q : y[i] = w[p + i]
    <3>1. PICK m : m = p + 1 /\ m \in Int /\ l \in Int /\ l - m + 1 = q
      BY <1>2, <1>4
    <3>2. \A i \in m..l : w[i] \in S
      BY <1>1, <1>2, <3>1
    <3>3. \A i \in 1..(l - m + 1) : y[i] = w[m + i - 1]
      BY <2>1, <3>1, <3>2, SubSeqProperties
    <3>4. \A i \in 1..q : m + i - 1 = p + i
      BY <1>2, <3>1
    <3> QED
      BY <3>1, <3>3, <3>4
  <2>4. ASSUME NEW i \in 1..(p + q) PROVE w[i] = c[i]
    <3>1. CASE i <= p
      BY <1>2, <1>4, <2>1, <2>2, <3>1
    <3>2. CASE ~(i <= p)
      <4>1. i - p \in 1..q /\ p + (i - p) = i
        BY <1>2, <3>2
      <4> QED
        BY <1>2, <1>4, <2>1, <2>3, <3>2, <4>1
    <3> QED
      BY <3>1, <3>2
  <2> QED
    <3>1. w \in Seq(S) /\ Len(w) = Len(c) /\ \A i \in 1..Len(w) : w[i] = c[i]
      BY <1>1, <1>2, <1>4, <2>4
    <3> QED
      BY <1>2, <3>1, SeqEqual
<1> QED
  BY <1>1, <1>3, <1>4

LEMMA IdentifierTypeIs ==
  ASSUME NEW w \in Seq(STRING)
  PROVE  IdentifierType(w) = IF w \in Reserved THEN "keyword" ELSE "identifier"
<1>1. PICK S : S = STRING \cup Small
  OBVIOUS
<1>2. w \in Seq(S) /\ \A v \in Seq(Small) : v \in Seq(S)
  BY <1>1, SeqMonotonic
<1>3. ASSUME NEW k \in Keywords
      PROVE  w = k.seen \o k.rest <=>
               /\ Len(w) >= Len(k.seen) /\ SubSeq(w, 1, Len(k.seen)) = k.seen
               /\ CheckKeyword(w, k)
  <2>1. k.seen \in Seq(S) /\ k.rest \in Seq(S)
    BY <1>2, KeywordsTyped DEF Typed
  <2> QED
    <3>1. PICK a, b : a = k.seen /\ b = k.rest
      OBVIOUS
    <3>2. w = a \o b <=> /\ Len(w) >= Len(a) /\ SubSeq(w, 1, Len(a)) = a
                        /\ Len(w) = Len(a) + Len(b) /\ SubSeq(w, Len(a) + 1, Len(w)) = b
      <4>1. a \in Seq(S) /\ b \in Seq(S)
        BY <2>1, <3>1
      <4> QED
        BY <1>2, <4>1, TwoParts
    <3> QED
      BY <3>1, <3>2 DEF CheckKeyword
<1>4. w \in Reserved <=> \E k \in Keywords : w = k.seen \o k.rest
  BY DEF Reserved
<1>5. w \in Reserved <=> \E k \in Keywords : /\ Len(w) >= Len(k.seen)
                                             /\ SubSeq(w, 1, Len(k.seen)) = k.seen
                                             /\ CheckKeyword(w, k)
  BY <1>3, <1>4
<1> QED
  BY <1>5 DEF IdentifierType

-----------------------------------------------------------------------------
(* No longer token *)

(* the text from n to m, said of the places of the source *)
LEMMA WordTextIs ==
  ASSUME source \in Texts, NEW n \in 0..Len(source), NEW m \in n..Len(source),
         NEW w, w = SubSeq(source, n + 1, m)
  PROVE  IsWord(w) <=> /\ n < m /\ Peek(n) \in Letters
                       /\ \A i \in n..(m - 1) : Peek(i) \in WordChars
<1>1. PICK l : l = Len(w) /\ l = m - n /\ l \in Nat /\ n \in Nat /\ m \in Nat
  BY PeekIs, TextIs
<1>2. w \in Seq(STRING) /\ \A i \in 1..l : w[i] = Peek(n + i - 1)
  <2>1. w \in Seq(STRING) /\ \A i \in 1..(m - n) : w[i] = Peek(n + i - 1)
    BY TextIs
  <2> QED
    BY <1>1, <2>1
<1>3. w # <<>> <=> n < m
  BY <1>1, <1>2
<1>4. n < m => w[1] = Peek(n)
  <2>1. n < m => 1 \in 1..l /\ n + 1 - 1 = n
    BY <1>1
  <2> QED
    BY <1>2, <2>1
<1>5. (\A i \in 1..l : w[i] \in WordChars) <=> \A i \in n..(m - 1) : Peek(i) \in WordChars
  <2>1. ASSUME \A i \in 1..l : w[i] \in WordChars, NEW i \in n..(m - 1) PROVE Peek(i) \in WordChars
    <3>1. PICK j : j = i - n + 1 /\ j \in 1..l /\ n + j - 1 = i
      BY <1>1
    <3> QED
      BY <1>2, <2>1, <3>1
  <2>2. ASSUME \A i \in n..(m - 1) : Peek(i) \in WordChars, NEW i \in 1..l PROVE w[i] \in WordChars
    <3>1. n + i - 1 \in n..(m - 1)
      BY <1>1
    <3> QED
      BY <1>2, <2>2, <3>1
  <2> QED
    BY <2>1, <2>2
<1> QED
  BY <1>1, <1>3, <1>4, <1>5 DEF IsWord, WordChars

LEMMA DigitsTextIs ==
  ASSUME source \in Texts, NEW n \in 0..Len(source), NEW m \in n..Len(source),
         NEW w, w = SubSeq(source, n + 1, m)
  PROVE  AllDigits(w) <=> n < m /\ \A i \in n..(m - 1) : Peek(i) \in Digits
<1>1. PICK l : l = Len(w) /\ l = m - n /\ l \in Nat /\ n \in Nat /\ m \in Nat
  BY PeekIs, TextIs
<1>2. w \in Seq(STRING) /\ \A i \in 1..l : w[i] = Peek(n + i - 1)
  <2>1. w \in Seq(STRING) /\ \A i \in 1..(m - n) : w[i] = Peek(n + i - 1)
    BY TextIs
  <2> QED
    BY <1>1, <2>1
<1>3. w # <<>> <=> n < m
  BY <1>1, <1>2
<1>4. (\A i \in 1..l : w[i] \in Digits) <=> \A i \in n..(m - 1) : Peek(i) \in Digits
  <2>1. ASSUME \A i \in 1..l : w[i] \in Digits, NEW i \in n..(m - 1) PROVE Peek(i) \in Digits
    <3>1. PICK j : j = i - n + 1 /\ j \in 1..l /\ n + j - 1 = i
      BY <1>1
    <3> QED
      BY <1>2, <2>1, <3>1
  <2>2. ASSUME \A i \in n..(m - 1) : Peek(i) \in Digits, NEW i \in 1..l PROVE w[i] \in Digits
    <3>1. n + i - 1 \in n..(m - 1)
      BY <1>1
    <3> QED
      BY <1>2, <2>2, <3>1
  <2> QED
    BY <2>1, <2>2
<1> QED
  BY <1>1, <1>3, <1>4 DEF AllDigits

(* the sequences before and behind a place of another *)
LEMMA FrontIs ==
  ASSUME NEW S, NEW w \in Seq(S), NEW k \in 0..Len(w)
  PROVE  /\ SubSeq(w, 1, k) \in Seq(S) /\ Len(SubSeq(w, 1, k)) = k
         /\ \A j \in 1..k : SubSeq(w, 1, k)[j] = w[j]
OBVIOUS

LEMMA RestIs ==
  ASSUME NEW S, NEW w \in Seq(S), NEW l \in Nat, l = Len(w), NEW f \in 1..(l + 1)
  PROVE  /\ SubSeq(w, f, l) \in Seq(S) /\ Len(SubSeq(w, f, l)) = l - f + 1
         /\ \A j \in 1..(l - f + 1) : SubSeq(w, f, l)[j] = w[f + j - 1]
<1>1. \A j \in f..l : w[j] \in S
  OBVIOUS
<1>2. PICK b : b = SubSeq(w, f, l)
  OBVIOUS
<1>3. f \in Int /\ l \in Int
  OBVIOUS
<1>4. /\ b \in Seq(S) /\ Len(b) = IF f <= l THEN l - f + 1 ELSE 0
      /\ \A j \in 1..(l - f + 1) : b[j] = w[f + j - 1]
  BY <1>1, <1>2, <1>3, SubSeqProperties
<1>5. Len(b) = l - f + 1
  BY <1>3, <1>4
<1> QED
  BY <1>2, <1>4, <1>5

(* the part of a text is the text of a part *)
LEMMA PartIs ==
  ASSUME source \in Texts, NEW n \in 0..Len(source), NEW m \in n..Len(source),
         NEW w, w = SubSeq(source, n + 1, m),
         NEW i \in 1..Len(w)
  PROVE  /\ SubSeq(w, 1, i - 1) = SubSeq(source, n + 1, n + i - 1)
         /\ SubSeq(w, i + 1, Len(w)) = SubSeq(source, n + i + 1, m)
<1>1. PICK l : l = Len(w) /\ l = m - n /\ l \in Nat /\ n \in Nat /\ m \in Nat
  BY PeekIs, TextIs
<1>2. w \in Seq(STRING) /\ \A j \in 1..l : w[j] = Peek(n + j - 1)
  <2>1. w \in Seq(STRING) /\ \A j \in 1..(m - n) : w[j] = Peek(n + j - 1)
    BY TextIs
  <2> QED
    BY <1>1, <2>1
<1>3. PICK a, b, c, d : /\ a = SubSeq(w, 1, i - 1) /\ c = SubSeq(source, n + 1, n + i - 1)
                        /\ b = SubSeq(w, i + 1, l) /\ d = SubSeq(source, n + i + 1, m)
  OBVIOUS
<1>4. a = c
  <2>1. n + i - 1 \in n..Len(source)
    BY <1>1, PeekIs
  <2>2. c \in Seq(STRING) /\ Len(c) = i - 1 /\ \A j \in 1..(i - 1) : c[j] = Peek(n + j - 1)
    <3>1. PICK k : k = n + i - 1 /\ k \in n..Len(source) /\ k - n = i - 1
      BY <1>1, <2>1
    <3>2. c = SubSeq(source, n + 1, k)
      BY <1>3, <3>1
    <3>3. c \in Seq(STRING) /\ Len(c) = k - n /\ \A j \in 1..(k - n) : c[j] = Peek(n + j - 1)
      BY <3>1, <3>2, TextIs
    <3> QED
      BY <3>1, <3>3
  <2>3. a \in Seq(STRING) /\ Len(a) = i - 1 /\ \A j \in 1..(i - 1) : a[j] = w[j]
    <3>1. i - 1 \in 0..l
      BY <1>1
    <3>2. PICK k, e : k = i - 1 /\ k \in 0..l /\ e = SubSeq(w, 1, k)
      BY <3>1
    <3>3. w \in Seq(STRING) /\ k \in 0..Len(w)
      BY <1>1, <1>2, <3>2
    <3>4. e \in Seq(STRING) /\ Len(e) = k /\ \A j \in 1..k : e[j] = w[j]
      BY <3>2, <3>3, FrontIs
    <3> QED
      BY <1>3, <3>2, <3>4
  <2>4. \A j \in 1..(i - 1) : a[j] = c[j]
    <3>1. \A j \in 1..(i - 1) : j \in 1..l
      BY <1>1
    <3> QED
      BY <1>2, <2>2, <2>3, <3>1
  <2> QED
    BY <2>2, <2>3, <2>4, SeqEqual
<1>5. b = d
  <2>1. PICK k : k = n + i /\ k \in 0..Len(source) /\ m \in k..Len(source) /\ m - k = l - i
    BY <1>1, PeekIs
  <2>2. d \in Seq(STRING) /\ Len(d) = l - i /\ \A j \in 1..(l - i) : d[j] = Peek(k + j - 1)
    <3>1. d = SubSeq(source, k + 1, m)
      BY <1>3, <2>1
    <3>2. d \in Seq(STRING) /\ Len(d) = m - k /\ \A j \in 1..(m - k) : d[j] = Peek(k + j - 1)
      BY <2>1, <3>1, TextIs
    <3> QED
      BY <2>1, <3>2
  <2>3. b \in Seq(STRING) /\ Len(b) = l - i /\ \A j \in 1..(l - i) : b[j] = w[i + j]
    <3>1. i + 1 \in 1..(l + 1)
      BY <1>1
    <3>2. PICK f, e : f = i + 1 /\ f \in 1..(l + 1) /\ e = SubSeq(w, f, l)
      BY <3>1
    <3>3. w \in Seq(STRING) /\ l \in Nat /\ l = Len(w)
      BY <1>1, <1>2
    <3>4. e \in Seq(STRING) /\ Len(e) = l - f + 1 /\ \A j \in 1..(l - f + 1) : e[j] = w[f + j - 1]
      BY <3>2, <3>3, RestIs
    <3>5. l - f + 1 = l - i /\ \A j \in 1..(l - i) : f + j - 1 = i + j
      BY <1>1, <3>2
    <3> QED
      BY <1>3, <3>2, <3>4, <3>5
  <2>4. ASSUME NEW j \in 1..(l - i) PROVE b[j] = d[j]
    <3>1. i + j \in 1..l /\ n + (i + j) - 1 = k + j - 1
      BY <1>1, <2>1
    <3> QED
      BY <1>2, <2>2, <2>3, <3>1
  <2> QED
    BY <2>2, <2>3, <2>4, SeqEqual
<1> QED
  BY <1>1, <1>3, <1>4, <1>5

LEMMA NumberTextIs ==
  ASSUME source \in Texts, NEW n \in 0..Len(source), NEW m \in n..Len(source),
         NEW w, w = SubSeq(source, n + 1, m)
  PROVE  IsNumber(w) <=>
           \/ n < m /\ \A i \in n..(m - 1) : Peek(i) \in Digits
           \/ \E d \in (n + 1)..(m - 2) : /\ Peek(d) = "."
                                          /\ \A i \in n..(d - 1) : Peek(i) \in Digits
                                          /\ \A i \in (d + 1)..(m - 1) : Peek(i) \in Digits
<1>1. PICK l : l = Len(w) /\ l = m - n /\ l \in Nat /\ n \in Nat /\ m \in Nat
  BY PeekIs, TextIs
<1>2. \A i \in 1..l : w[i] = Peek(n + i - 1)
  <2>1. \A i \in 1..(m - n) : w[i] = Peek(n + i - 1)
    BY TextIs
  <2> QED
    BY <1>1, <2>1
<1>3. ASSUME NEW i \in 2..(l - 1), NEW d, d = n + i - 1
      PROVE  w[i] = "." /\ AllDigits(SubSeq(w, 1, i - 1)) /\ AllDigits(SubSeq(w, i + 1, l)) <=>
             /\ Peek(d) = "."
             /\ \A j \in n..(d - 1) : Peek(j) \in Digits
             /\ \A j \in (d + 1)..(m - 1) : Peek(j) \in Digits
  <2>1. /\ d \in (n + 1)..(m - 2) /\ d \in n..Len(source) /\ n < d
        /\ d + 1 \in 0..Len(source) /\ m \in (d + 1)..Len(source) /\ d + 1 < m
        /\ i \in 1..l /\ n + i = d + 1
    BY <1>1, <1>3, PeekIs
  <2>2. PICK a, b : a = SubSeq(source, n + 1, d) /\ b = SubSeq(source, (d + 1) + 1, m)
    OBVIOUS
  <2>3. SubSeq(w, 1, i - 1) = a /\ SubSeq(w, i + 1, l) = b
    <3>1. /\ SubSeq(w, 1, i - 1) = SubSeq(source, n + 1, n + i - 1)
          /\ SubSeq(w, i + 1, l) = SubSeq(source, n + i + 1, m)
      BY <1>1, <2>1, PartIs
    <3> QED
      BY <1>3, <2>1, <2>2, <3>1
  <2>4. AllDigits(a) <=> \A j \in n..(d - 1) : Peek(j) \in Digits
    BY <2>1, <2>2, DigitsTextIs
  <2>5. AllDigits(b) <=> \A j \in (d + 1)..(m - 1) : Peek(j) \in Digits
    <3>1. PICK e : e = d + 1
      OBVIOUS
    <3>2. AllDigits(b) <=> \A j \in e..(m - 1) : Peek(j) \in Digits
      BY <2>1, <2>2, <3>1, DigitsTextIs
    <3> QED
      BY <3>1, <3>2
  <2>6. w[i] = Peek(d)
    BY <1>2, <1>3, <2>1
  <2> QED
    BY <2>3, <2>4, <2>5, <2>6
<1>4. AllDigits(w) <=> n < m /\ \A i \in n..(m - 1) : Peek(i) \in Digits
  BY DigitsTextIs
<1> DEFINE Split(i) == w[i] = "." /\ AllDigits(SubSeq(w, 1, i - 1)) /\ AllDigits(SubSeq(w, i + 1, l))
           Dotted(d) == /\ Peek(d) = "."
                        /\ \A j \in n..(d - 1) : Peek(j) \in Digits
                        /\ \A j \in (d + 1)..(m - 1) : Peek(j) \in Digits
<1>5. \A i \in 2..(l - 1) : Split(i) <=> Dotted(n + i - 1)
  BY <1>3
<1>6. IsNumber(w) <=> AllDigits(w) \/ \E i \in 2..(l - 1) : Split(i)
  BY <1>1 DEF IsNumber
<1> HIDE DEF Split
<1>7. (\E i \in 2..(l - 1) : Split(i)) <=> \E d \in (n + 1)..(m - 2) : Dotted(d)
  <2> HIDE DEF Dotted
  <2>1. ASSUME NEW i \in 2..(l - 1), Split(i) PROVE \E d \in (n + 1)..(m - 2) : Dotted(d)
    <3>1. n + i - 1 \in (n + 1)..(m - 2)
      BY <1>1
    <3> QED
      BY <1>5, <2>1, <3>1
  <2>2. ASSUME NEW d \in (n + 1)..(m - 2), Dotted(d) PROVE \E i \in 2..(l - 1) : Split(i)
    <3>1. d - n + 1 \in 2..(l - 1) /\ n + (d - n + 1) - 1 = d
      BY <1>1
    <3> QED
      BY <1>5, <2>2, <3>1
  <2> QED
    BY <2>1, <2>2
<1> QED
  BY <1>4, <1>6, <1>7

(* what no text from n beyond m is *)
Longest(n, m) ==
  \A k \in (m + 1)..Len(source) :
    LET longer == SubSeq(source, n + 1, k) IN
    ~(IsWord(longer) \/ IsNumber(longer) \/ IsOperator(longer) \/ IsString(longer))

(* the first character of a text tells of which kind alone it can be *)
LEMMA KindIs ==
  ASSUME source \in Texts, NEW n \in 0..Len(source), NEW m \in (n + 1)..Len(source),
         NEW w, w = SubSeq(source, n + 1, m)
  PROVE  /\ IsWord(w) => Peek(n) \in Letters
         /\ IsNumber(w) => Peek(n) \in Digits
         /\ IsOperator(w) => Peek(n) \in Single /\ m \in (n + 1)..(n + 2)
         /\ IsString(w) => Peek(n) = Quote
         /\ w \in Seq(STRING) /\ Len(w) = m - n /\ w[1] = Peek(n)
<1>1. PICK L : L = Len(source) /\ L \in Nat
  BY PeekIs
<1>2. m \in n..Len(source) /\ n + 1 - 1 = n /\ 1 \in 1..(m - n)
  BY <1>1
<1>3. w \in Seq(STRING) /\ Len(w) = m - n
  BY <1>2, TextIs
<1>4. w[1] = Peek(n)
  <2>1. m \in n..Len(source)
    BY <1>2
  <2>2. \A i \in 1..(m - n) : w[i] = Peek(n + i - 1)
    BY <2>1, TextIs
  <2> QED
    BY <1>2, <2>2
<1>5. IsOperator(w) => m \in (n + 1)..(n + 2)
  <2>1. IsOperator(w) => m - n \in 1..2
    BY <1>3, FirstIs
  <2> QED
    BY <1>1, <2>1
<1> QED
  BY <1>3, <1>4, <1>5, FirstIs

LEMMA KindsApart ==
  /\ \A c \in Letters : c \notin Digits /\ c \notin Single /\ c # Quote
  /\ \A c \in Digits : c \notin Single /\ c # Quote
  /\ Quote \notin Single
<1>1. Quote \notin Single
  BY DEF Quote, Single
<1>2. Quote \in Named
  BY DEF Quote, Named
<1> QED
  BY <1>1, <1>2, LettersApart, DigitsApart

LEMMA WordIsLongest ==
  ASSUME source \in Texts, NEW n \in 0..Len(source), NEW type, NEW m, WordFacts(type, n, m),
         NEW w, w = SubSeq(source, n + 1, m)
  PROVE  /\ IsWord(w)
         /\ w \in Reserved => type = "keyword"
         /\ w \notin Reserved => type = "identifier"
         /\ Longest(n, m)
<1>1. PICK L : L = Len(source) /\ L \in Nat
  BY PeekIs
<1>2. /\ Peek(n) \in Letters /\ m \in (n + 1)..L /\ Peek(m) \notin WordChars
      /\ \A i \in n..(m - 1) : Peek(i) \in WordChars
      /\ type = IdentifierType(w)
  BY <1>1 DEF WordFacts
<1>3. m \in n..Len(source) /\ n < m
  BY <1>1, <1>2
<1>4. IsWord(w)
  BY <1>2, <1>3, WordTextIs
<1>5. w \in Seq(STRING)
  BY <1>3, TextIs
<1>6. ASSUME NEW k \in (m + 1)..L, NEW v, v = SubSeq(source, n + 1, k)
      PROVE  ~(IsWord(v) \/ IsNumber(v) \/ IsOperator(v) \/ IsString(v))
  <2>1. k \in n..Len(source) /\ k \in (n + 1)..Len(source) /\ m \in n..(k - 1)
    BY <1>1, <1>3
  <2>2. ~IsWord(v)
    BY <1>2, <1>6, <2>1, WordTextIs
  <2>3. /\ IsNumber(v) => Peek(n) \in Digits
        /\ IsOperator(v) => Peek(n) \in Single
        /\ IsString(v) => Peek(n) = Quote
    BY <1>6, <2>1, KindIs
  <2> QED
    BY <1>2, <2>2, <2>3, KindsApart
<1>7. Longest(n, m)
  BY <1>1, <1>6 DEF Longest
<1> QED
  BY <1>2, <1>4, <1>5, <1>7, IdentifierTypeIs

LEMMA NumberIsLongest ==
  ASSUME source \in Texts, NEW n \in 0..Len(source), NEW m, NumberFacts(n, m),
         NEW w, w = SubSeq(source, n + 1, m)
  PROVE  IsNumber(w) /\ Longest(n, m)
<1>1. PICK L : L = Len(source) /\ L \in Nat /\ n \in Nat
  BY PeekIs
<1>2. /\ Peek(n) \in Digits /\ m \in (n + 1)..L
      /\ \E p \in (n + 1)..m :
           /\ (\A i \in n..(p - 1) : Peek(i) \in Digits) /\ Peek(p) \notin Digits
           /\ \/ m = p /\ ~(Peek(p) = "." /\ Peek(p + 1) \in Digits)
              \/ /\ Peek(p) = "." /\ m >= p + 2
                 /\ \A i \in (p + 1)..(m - 1) : Peek(i) \in Digits
                 /\ Peek(m) \notin Digits
  BY <1>1 DEF NumberFacts
<1>3. PICK p \in (n + 1)..m :
        /\ (\A i \in n..(p - 1) : Peek(i) \in Digits) /\ Peek(p) \notin Digits
        /\ \/ m = p /\ ~(Peek(p) = "." /\ Peek(p + 1) \in Digits)
           \/ /\ Peek(p) = "." /\ m >= p + 2
              /\ \A i \in (p + 1)..(m - 1) : Peek(i) \in Digits
              /\ Peek(m) \notin Digits
  BY <1>2
<1>4. m \in n..Len(source) /\ n < m /\ m \in Nat /\ p \in Nat
  BY <1>1, <1>2
<1>5. IsNumber(w)
  <2>1. CASE m = p
    BY <1>3, <1>4, <2>1, NumberTextIs
  <2>2. CASE /\ Peek(p) = "." /\ m >= p + 2
             /\ \A i \in (p + 1)..(m - 1) : Peek(i) \in Digits
    <3>1. p \in (n + 1)..(m - 2)
      BY <1>4, <2>2
    <3>2. \E d \in (n + 1)..(m - 2) : /\ Peek(d) = "."
                                      /\ \A i \in n..(d - 1) : Peek(i) \in Digits
                                      /\ \A i \in (d + 1)..(m - 1) : Peek(i) \in Digits
      BY <1>3, <2>2, <3>1
    <3> QED
      BY <1>4, <3>2, NumberTextIs
  <2> QED
    BY <1>3, <2>1, <2>2
<1>6. ASSUME NEW k \in (m + 1)..L, NEW v, v = SubSeq(source, n + 1, k)
      PROVE  ~(IsWord(v) \/ IsNumber(v) \/ IsOperator(v) \/ IsString(v))
  <2>1. k \in n..Len(source) /\ k \in (n + 1)..Len(source) /\ m \in n..(k - 1) /\ p \in n..(k - 1)
    BY <1>1, <1>4
  <2>2. ASSUME NEW d \in (n + 1)..(k - 2), Peek(d) = ".",
               \A i \in n..(d - 1) : Peek(i) \in Digits,
               \A i \in (d + 1)..(k - 1) : Peek(i) \in Digits
        PROVE  FALSE
    <3>1. "." \notin Digits
      BY DigitsApart DEF Named
    <3>2. d = p
      <4>1. ~(d < p)
        <5>1. d < p => d \in n..(p - 1)
          BY <1>1, <1>4
        <5> QED
          BY <1>3, <2>2, <3>1, <5>1
      <4>2. ~(p < d)
        <5>1. p < d => p \in n..(d - 1)
          BY <1>1, <1>4
        <5> QED
          BY <1>3, <2>2, <5>1
      <4> QED
        BY <1>1, <1>4, <4>1, <4>2
    <3>3. p + 1 \in (p + 1)..(k - 1)
      BY <1>1, <1>4, <2>2, <3>2
    <3>4. Peek(p + 1) \in Digits /\ Peek(p) = "."
      BY <2>2, <3>2, <3>3
    <3>5. m >= p + 2 /\ Peek(m) \notin Digits
      BY <1>3, <3>4
    <3>6. m \in (p + 1)..(k - 1)
      BY <1>1, <1>4, <2>1, <3>5
    <3> QED
      BY <2>2, <3>2, <3>5, <3>6
  <2>3. ~\A i \in n..(k - 1) : Peek(i) \in Digits
    BY <1>3, <2>1
  <2>4. ~IsNumber(v)
    BY <1>6, <2>1, <2>2, <2>3, NumberTextIs
  <2>5. /\ IsWord(v) => Peek(n) \in Letters
        /\ IsOperator(v) => Peek(n) \in Single
        /\ IsString(v) => Peek(n) = Quote
    BY <1>6, <2>1, KindIs
  <2> QED
    BY <1>2, <2>4, <2>5, KindsApart
<1> QED
  BY <1>1, <1>5, <1>6 DEF Longest

LEMMA OperatorIsLongest ==
  ASSUME source \in Texts, NEW n \in 0..Len(source), NEW m, OperatorFacts(n, m),
         NEW w, w = SubSeq(source, n + 1, m)
  PROVE  IsOperator(w) /\ Longest(n, m)
<1>1. PICK L : L = Len(source) /\ L \in Nat /\ n \in Nat
  BY PeekIs
<1>2. /\ Peek(n) \in Single /\ m <= L
      /\ \/ m = n + 1 /\ ~(Peek(n) \in WithEqual /\ Peek(n + 1) = "=")
                      /\ ~(Peek(n) = "*" /\ Peek(n + 1) = "*")
         \/ m = n + 2 /\ Peek(n) \in WithEqual /\ Peek(n + 1) = "="
         \/ m = n + 2 /\ Peek(n) = "*" /\ Peek(n + 1) = "*"
  BY <1>1 DEF OperatorFacts
<1>3. m \in (n + 1)..(n + 2) /\ m \in (n + 1)..Len(source)
  BY <1>1, <1>2
<1>4. ASSUME NEW k \in (n + 1)..(n + 2), k <= L, NEW v, v = SubSeq(source, n + 1, k)
      PROVE  /\ v \in Seq(STRING) /\ Len(v) = k - n /\ v[1] = Peek(n)
             /\ k = n + 2 => v[2] = Peek(n + 1)
  <2>1. k \in (n + 1)..Len(source) /\ k \in n..Len(source)
    BY <1>1, <1>4
  <2>2. v \in Seq(STRING) /\ Len(v) = k - n /\ v[1] = Peek(n)
    BY <1>4, <2>1, KindIs
  <2>3. \A i \in 1..(k - n) : v[i] = Peek(n + i - 1)
    BY <1>4, <2>1, TextIs
  <2>4. k = n + 2 => 2 \in 1..(k - n) /\ n + 2 - 1 = n + 1
    BY <1>1
  <2> QED
    BY <2>2, <2>3, <2>4
<1>5. IsOperator(w)
  <2>1. /\ w \in Seq(STRING) /\ Len(w) = m - n /\ w[1] = Peek(n)
        /\ m = n + 2 => w[2] = Peek(n + 1)
    BY <1>2, <1>3, <1>4
  <2>2. CASE m = n + 1
    BY <1>1, <1>2, <2>1, <2>2 DEF IsOperator
  <2>3. CASE m = n + 2 /\ Peek(n) \in WithEqual /\ Peek(n + 1) = "="
    BY <1>1, <2>1, <2>3 DEF IsOperator
  <2>4. CASE m = n + 2 /\ Peek(n) = "*" /\ Peek(n + 1) = "*"
    <3>1. w = <<"*", "*">>
      <4>1. w \in Seq(STRING) /\ Len(w) = 2 /\ w[1] = "*" /\ w[2] = "*"
        BY <1>1, <2>1, <2>4
      <4>2. PICK c, v : c = "*" /\ v = <<c, c>> /\ c \in STRING
        <5>1. PICK c : c = w[1]
          OBVIOUS
        <5>2. c \in STRING
          <6>1. w \in Seq(STRING) /\ 1 \in 1..Len(w)
            BY <4>1
          <6> QED
            BY <5>1, <6>1
        <5> QED
          BY <4>1, <5>1, <5>2
      <4>3. v \in Seq(STRING) /\ Len(v) = 2 /\ \A i \in 1..2 : w[i] = v[i]
        BY <4>1, <4>2
      <4> QED
        BY <4>1, <4>2, <4>3, SeqEqual
    <3> QED
      BY <3>1 DEF IsOperator
  <2> QED
    BY <1>2, <2>2, <2>3, <2>4
<1>6. ASSUME NEW k \in (m + 1)..L, NEW v, v = SubSeq(source, n + 1, k)
      PROVE  ~(IsWord(v) \/ IsNumber(v) \/ IsOperator(v) \/ IsString(v))
  <2>1. k \in (n + 1)..Len(source)
    BY <1>1, <1>3
  <2>2. /\ IsWord(v) => Peek(n) \in Letters
        /\ IsNumber(v) => Peek(n) \in Digits
        /\ IsString(v) => Peek(n) = Quote
        /\ IsOperator(v) => k \in (n + 1)..(n + 2)
    BY <1>6, <2>1, KindIs
  <2>3. ASSUME IsOperator(v) PROVE FALSE
    <3>1. k = n + 2 /\ m = n + 1 /\ k \in (n + 1)..(n + 2) /\ k <= L
      BY <1>1, <1>3, <2>2, <2>3
    <3>2. v \in Seq(STRING) /\ Len(v) = 2 /\ v[1] = Peek(n) /\ v[2] = Peek(n + 1)
      <4>1. v \in Seq(STRING) /\ Len(v) = k - n /\ v[1] = Peek(n) /\ v[2] = Peek(n + 1)
        BY <1>4, <1>6, <3>1
      <4>2. k - n = 2
        BY <1>1, <3>1
      <4> QED
        BY <4>1, <4>2
    <3>3. ~(v[1] \in WithEqual /\ v[2] = "=") /\ ~(v[1] = "*" /\ v[2] = "*")
      BY <1>1, <1>2, <3>1, <3>2
    <3> QED
      BY <2>3, <3>2, <3>3 DEF IsOperator
  <2> QED
    BY <1>2, <2>2, <2>3, KindsApart
<1> QED
  BY <1>1, <1>5, <1>6 DEF Longest

LEMMA StringIsLongest ==
  ASSUME source \in Texts, NEW n \in 0..Len(source), NEW m \in Nat, StringFacts(n, m),
         NEW w, w = SubSeq(source, n + 1, m)
  PROVE  IsString(w) /\ Longest(n, m)
<1>1. PICK L : L = Len(source) /\ L \in Nat /\ n \in Nat
  BY PeekIs
<1>2. /\ Peek(n) = Quote /\ m >= n + 2 /\ m <= L
      /\ Peek(m - 1) = Quote /\ ~Esc(n + 1, m - 1)
      /\ \A i \in (n + 1)..(m - 2) : Peek(i) # Newline /\ (Peek(i) = Quote => Esc(n + 1, i))
  BY <1>1 DEF StringFacts
<1>3. m \in Nat
  OBVIOUS
<1>4. m \in n..Len(source) /\ m \in (n + 1)..Len(source)
  BY <1>1, <1>2, <1>3
<1>5. PICK l : l = Len(w) /\ l = m - n /\ l \in Nat /\ l >= 2
  BY <1>1, <1>2, <1>3, <1>4, TextIs
<1>6. \A i \in 1..l : w[i] = Peek(n + i - 1)
  <2>1. \A i \in 1..(m - n) : w[i] = Peek(n + i - 1)
    BY <1>4, TextIs
  <2> QED
    BY <1>5, <2>1
<1>7. \A i \in 2..l : Escaped(w, i) <=> Esc(n + 1, n + i - 1)
  BY <1>2, <1>4, <1>5, EscapedIs
<1>8. w[1] = Quote /\ w[l] = Quote /\ ~Escaped(w, l)
  <2>1. n + 1 - 1 = n /\ n + l - 1 = m - 1 /\ 1 \in 1..l /\ l \in 1..l /\ l \in 2..l
    BY <1>1, <1>3, <1>5
  <2>2. w[1] = Quote
    BY <1>2, <1>6, <2>1
  <2>3. w[l] = Quote
    BY <1>2, <1>6, <2>1
  <2>4. ~Escaped(w, l)
    BY <1>2, <1>7, <2>1
  <2> QED
    BY <2>2, <2>3, <2>4
<1>9. ASSUME NEW i \in 2..(l - 1) PROVE w[i] # Newline /\ (w[i] = Quote => Escaped(w, i))
  <2>1. n + i - 1 \in (n + 1)..(m - 2) /\ i \in 1..l /\ i \in 2..l
    BY <1>1, <1>3, <1>5
  <2>2. w[i] = Peek(n + i - 1)
    BY <1>6, <2>1
  <2>3. Escaped(w, i) <=> Esc(n + 1, n + i - 1)
    BY <1>7, <2>1
  <2> QED
    BY <1>2, <2>1, <2>2, <2>3
<1>10. IsString(w)
  BY <1>5, <1>8, <1>9 DEF IsString, Quote, Newline
<1>11. ASSUME NEW k \in (m + 1)..L, NEW v, v = SubSeq(source, n + 1, k)
       PROVE  ~(IsWord(v) \/ IsNumber(v) \/ IsOperator(v) \/ IsString(v))
  <2>1. k \in n..Len(source) /\ k \in (n + 1)..Len(source) /\ k \in Nat
    BY <1>1, <1>3, <1>4
  <2>2. /\ IsWord(v) => Peek(n) \in Letters
        /\ IsNumber(v) => Peek(n) \in Digits
        /\ IsOperator(v) => Peek(n) \in Single
    BY <1>11, <2>1, KindIs
  <2>3. ASSUME IsString(v) PROVE FALSE
    <3>1. PICK h : h = Len(v) /\ h = k - n /\ h \in Nat
      BY <1>11, <2>1, TextIs
    <3>2. \A i \in 1..h : v[i] = Peek(n + i - 1)
      <4>1. \A i \in 1..(k - n) : v[i] = Peek(n + i - 1)
        BY <1>11, <2>1, TextIs
      <4> QED
        BY <3>1, <4>1
    <3>3. /\ l \in 2..(h - 1) /\ l \in 1..h /\ l \in 2..h
          /\ n + l - 1 = m - 1
      BY <1>1, <1>3, <1>5, <2>1, <3>1
    <3>4. v[l] = Quote
      BY <1>2, <3>2, <3>3
    <3>5. Escaped(v, l)
      BY <2>3, <3>1, <3>3, <3>4 DEF IsString, Quote
    <3>6. Escaped(v, l) <=> Esc(n + 1, n + l - 1)
      BY <1>2, <1>11, <2>1, <3>1, <3>3, EscapedIs
    <3> QED
      BY <1>2, <3>3, <3>5, <3>6
  <2> QED
    BY <1>2, <2>2, <2>3, KindsApart
<1> QED
  BY <1>1, <1>10, <1>11 DEF Longest

(* A token is of the kind it is said to be of, as a text that its first    *)
(* character begins, and scanToken took all of it: identifierType, the     *)
(* loops of number(), string() with its escapes and the matches of         *)
(* charToken stop nowhere early.                                           *)
THEOREM TokensAreLongest == Spec => []LongestMatch
<1>1. ScanInv => LongestMatch
  <2>1. SUFFICES ASSUME ScanInv, NEW i \in 1..Len(tokens), tokens[i].type \notin {"error", "eof"}
        PROVE  Is(tokens[i].type, Text(i)) /\ Longest(tokens[i].from, tokens[i].to)
    BY DEF LongestMatch, Longest
  <2>2. PICK n, m, t, w : /\ n = tokens[i].from /\ m = tokens[i].to /\ t = tokens[i].type
                          /\ w = SubSeq(source, n + 1, m)
    OBVIOUS
  <2>3. w = Text(i)
    BY <2>2 DEF Text
  <2>4. TokenFacts(EndOf(i - 1), tokens[i]) /\ source \in Texts
    BY <2>1 DEF ScanInv
  <2>5. n \in 0..Len(source) /\ Scans(t, n, m)
    <3>1. PICK L, e : L = Len(source) /\ L \in Nat /\ e = EndOf(i - 1)
      BY <2>4, PeekIs
    <3> QED
      BY <2>2, <2>4, <3>1 DEF TokenFacts
  <2>6. CASE t \in {"keyword", "identifier"}
    <3>1. WordFacts(t, n, m)
      BY <2>5, <2>6 DEF Scans
    <3>2. /\ IsWord(w)
          /\ w \in Reserved => t = "keyword"
          /\ w \notin Reserved => t = "identifier"
          /\ Longest(n, m)
      <4>1. WordFacts(t, n, m) /\ w = SubSeq(source, n + 1, m) /\ n \in 0..Len(source)
        BY <2>2, <2>5, <3>1
      <4> HIDE DEF Longest
      <4> QED
        BY <2>4, <4>1, WordIsLongest
    <3>3. Is(t, w)
      <4>1. CASE w \in Reserved
        BY <3>2, <4>1 DEF Is
      <4>2. CASE w \notin Reserved
        BY <3>2, <4>2 DEF Is
      <4> QED
        BY <4>1, <4>2
    <3> QED
      BY <2>2, <2>3, <3>2, <3>3
  <2>7. CASE t = "number"
    <3>1. IsNumber(w) /\ Longest(n, m)
      BY <2>2, <2>4, <2>5, <2>7, NumberIsLongest DEF Scans
    <3>2. Is(t, w)
      BY <2>7, <3>1 DEF Is
    <3> QED
      BY <2>2, <2>3, <3>1, <3>2
  <2>8. CASE t = "operator"
    <3>1. IsOperator(w) /\ Longest(n, m)
      BY <2>2, <2>4, <2>5, <2>8, OperatorIsLongest DEF Scans
    <3>2. Is(t, w)
      BY <2>8, <3>1 DEF Is
    <3> QED
      BY <2>2, <2>3, <3>1, <3>2
  <2>9. CASE t = "string"
    <3>1. IsString(w) /\ Longest(n, m)
      <4>1. m \in Nat
        <5>1. tokens[i] \in TokenType
          BY <2>1 DEF ScanInv
        <5> QED
          BY <2>2, <5>1 DEF TokenType
      <4> QED
        BY <2>2, <2>4, <2>5, <2>9, <4>1, StringIsLongest DEF Scans
    <3>2. Is(t, w)
      BY <2>9, <3>1 DEF Is
    <3> QED
      BY <2>2, <2>3, <3>1, <3>2
  <2> QED
    BY <2>1, <2>2, <2>5, <2>6, <2>7, <2>8, <2>9 DEF Scans, Kinds
<1> QED
  BY <1>1, ScannerInvariant, PTL

=============================================================================
