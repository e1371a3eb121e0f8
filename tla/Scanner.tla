------------------------------- MODULE Scanner -------------------------------
(***************************************************************************)
(* The scanner of lib/scanner/default: scanToken over a source that is a   *)
(* sequence of characters, one token a step, up to TOKEN_EOF.              *)
(*                                                                         *)
(* at is the number of characters read, so that the next one is            *)
(* source[at + 1]; at the end there is the NUL that ends a C string.  A    *)
(* scanner that has gone beyond it reads memory that is not the source's,  *)
(* and is not followed.                                                    *)
(***************************************************************************)
EXTENDS Integers, Sequences

VARIABLES
  source,    \* the text
  at,        \* scanner->current
  start,     \* scanner->start
  line, column,
  tokens     \* what scanToken returned so far

vars == <<source, at, start, line, column, tokens>>

Letters == {"a", "b", "c", "d", "e", "f", "g", "h", "i", "j", "k", "l", "m", "n", "o", "p",
            "q", "r", "s", "t", "u", "v", "w", "x", "y", "z", "A", "B", "C", "D", "E", "F",
            "G", "H", "I", "J", "K", "L", "M", "N", "O", "P", "Q", "R", "S", "T", "U", "V", "W",
            "X", "Y", "Z", "_"}
OctDigits == {"0", "1", "2", "3", "4", "5", "6", "7"}
Digits == OctDigits \cup {"8", "9"}
HexDigits == Digits \cup {"a", "b", "c", "d", "e", "f", "A", "B", "C", "D", "E", "F"}
Escapable == {"a", "b", "f", "r", "n", "t", "v", "\\", "'", "\""}
Blanks == {" ", "\t", "\r", "\n"}

(* peek and peekNext, for a scanner that has read n characters *)
Peek(n) == IF n < Len(source) THEN source[n + 1] ELSE "NUL"
PeekNext(n) == IF n < Len(source) THEN Peek(n + 1) ELSE "NUL"
AtEnd(n) == Peek(n) = "NUL"

(* where a loop that advances over the characters of a set stops *)
Past(n, S) == CHOOSE m \in n..Len(source) :
                /\ \A i \in n..(m - 1) : Peek(i) \in S
                /\ Peek(m) \notin S

(* where a loop that advances up to a character of a set, or the end, stops *)
Until(n, S) == CHOOSE m \in n..Len(source) :
                 /\ \A i \in n..(m - 1) : Peek(i) \notin S
                 /\ Peek(m) \in S \cup {"NUL"}

-----------------------------------------------------------------------------
(* Blanks and comments *)

(* mutant: one slash is enough *)
CommentAtSlash(n) == Peek(n) = "/"

CommentAt(n) == Peek(n) = "/" /\ PeekNext(n) = "/"

(* skipWhitespace after n characters: where it stops, the lines it counts, *)
(* the column it adds or, behind a newline, sets.  A comment does not      *)
(* count into the column, and stands before a newline or the end.          *)
SkipWhitespace(n) ==
  LET skip[m \in n..Len(source)] ==
        CASE Peek(m) = "\n" ->
               LET r == skip[m + 1] IN
               [at |-> r.at, lines |-> r.lines + 1, set |-> TRUE,
                columns |-> IF r.set THEN r.columns ELSE r.columns + 1]
          [] Peek(m) \in Blanks \ {"\n"} ->
               LET r == skip[m + 1] IN
               IF r.set THEN r ELSE [r EXCEPT !.columns = @ + 1]
          [] CommentAt(m) -> skip[Until(m, {"\n"})]
          [] OTHER -> [at |-> m, lines |-> 0, columns |-> 0, set |-> FALSE] IN
  skip[n]

-----------------------------------------------------------------------------
(* Words and numbers *)

(* identifierType: the characters that its switches look at, and what      *)
(* checkKeyword compares with the rest of the word                         *)
Keyword(seen, rest) == [seen |-> seen, rest |-> rest]
Keywords ==
  {Keyword(<<"a", "n">>, <<"d">>), Keyword(<<"a", "s">>, <<>>),
   Keyword(<<"b">>, <<"r", "e", "a", "k">>),
   Keyword(<<"c", "a", "s">>, <<"e">>), Keyword(<<"c", "a", "t">>, <<"c", "h">>),
   Keyword(<<"c", "l">>, <<"a", "s", "s">>),
   Keyword(<<"c", "o">>, <<"n", "t", "i", "n", "u", "e">>),
   Keyword(<<"d">>, <<"e", "f", "a", "u", "l", "t">>), Keyword(<<"e">>, <<"l", "s", "e">>),
   Keyword(<<"f", "a">>, <<"l", "s", "e">>), Keyword(<<"f", "o">>, <<"r">>),
   Keyword(<<"f", "u">>, <<"n">>), Keyword(<<"f", "i">>, <<"n", "a", "l", "l", "y">>),
   Keyword(<<"i">>, <<"f">>), Keyword(<<"n">>, <<"i", "l">>), Keyword(<<"o">>, <<"r">>),
   Keyword(<<"p">>, <<"r", "i", "n", "t">>), Keyword(<<"r">>, <<"e", "t", "u", "r", "n">>),
   Keyword(<<"s", "t">>, <<"a", "t", "i", "c">>), Keyword(<<"s", "u">>, <<"p", "e", "r">>),
   Keyword(<<"s", "w">>, <<"i", "t", "c", "h">>),
   Keyword(<<"t", "h", "i">>, <<"s">>), Keyword(<<"t", "h", "r">>, <<"o", "w">>),
   Keyword(<<"t", "r", "u">>, <<"e">>), Keyword(<<"t", "r", "y">>, <<>>),
   Keyword(<<"v">>, <<"a", "r">>), Keyword(<<"w">>, <<"h", "i", "l", "e">>)}

(* mutant: the length of the word is not compared *)
CheckKeywordPrefix(word, k) ==
  /\ Len(word) >= Len(k.seen) + Len(k.rest)
  /\ SubSeq(word, 1, Len(k.seen) + Len(k.rest)) = k.seen \o k.rest

CheckKeyword(word, k) ==
  /\ Len(word) = Len(k.seen) + Len(k.rest)
  /\ SubSeq(word, Len(k.seen) + 1, Len(word)) = k.rest

IdentifierType(word) ==
  IF \E k \in Keywords : /\ Len(word) >= Len(k.seen)
                         /\ SubSeq(word, 1, Len(k.seen)) = k.seen
                         /\ CheckKeyword(word, k)
  THEN "keyword" ELSE "identifier"

Token(type, n) == [type |-> type, at |-> n]

(* identifier, for the word that starts after n characters *)
Identifier(n) ==
  LET m == Past(n, Letters \cup Digits) IN
  Token(IdentifierType(SubSeq(source, n + 1, m)), m)

(* number *)
Number(n) ==
  LET whole == Past(n, Digits) IN
  Token("number", IF Peek(whole) = "." /\ PeekNext(whole) \in Digits
                  THEN Past(whole + 1, Digits) ELSE whole)

-----------------------------------------------------------------------------
(* Strings *)

(* what a digit adds to an octal or hexadecimal escape: c - '0' or c - 'a' *)
Adds(c) == CHOOSE v \in 0..9 : <<"0", "1", "2", "3", "4", "5", "6", "7", "8", "9">>[v + 1] = c
                               \/ (v < 6 /\ <<"a", "b", "c", "d", "e", "f">>[v + 1] = c)
                               \/ (v < 6 /\ <<"A", "B", "C", "D", "E", "F">>[v + 1] = c)

(* some prefix of the digits from n up to m already exceeds a byte *)
OutOfRange(n, m, base) ==
  LET total[i \in n..m] == IF i = n THEN 0 ELSE total[i - 1] * base + Adds(Peek(i - 1)) IN
  \E i \in n..m : total[i] > 255

(* where a round of the loop in string() comes, whether it gives up there, *)
(* and whether that is because of a newline                                *)
Good(n) == [error |-> FALSE, at |-> n, broke |-> FALSE]
Bad(n) == [error |-> TRUE, at |-> n, broke |-> FALSE]
Broken(n) == [error |-> TRUE, at |-> n, broke |-> TRUE]

(* the escape sequence whose backslash comes after n characters *)
Escape(n) ==
  LET m == n + 1
      hex == Past(m + 1, HexDigits)
      oct == IF Past(m, OctDigits) < m + 3 THEN Past(m, OctDigits) ELSE m + 3 IN
  CASE Peek(m) \in Escapable -> Good(m + 1)
    [] Peek(m) = "x" -> IF hex = m + 1 \/ OutOfRange(m + 1, hex, 16) THEN Bad(hex) ELSE Good(hex)
    [] Peek(m) \in OctDigits -> IF OutOfRange(m, oct, 8) THEN Bad(oct) ELSE Good(oct)
    [] OTHER -> Bad(m)

(* one round of the loop in string(), between the quotes *)
Inside(n) ==
  CASE Peek(n) = "\n" -> Broken(n)
    [] Peek(n) = "\\" -> Escape(n)
    [] OTHER -> Good(n + 1)

(* mutant: the end of the source ends a string *)
UnclosedNever(r) == FALSE

Unclosed(r) == ~r.error /\ AtEnd(r.at)

(* the loop of string(), after the quote and m characters *)
Rounds(m) ==
  LET rounds[n \in m..Len(source)] ==
        IF Peek(n) \in {"\"", "NUL"} THEN Good(n)
        ELSE IF Inside(n).error THEN Inside(n) ELSE rounds[Inside(n).at] IN
  rounds[m]

(* string: an error skips to behind the next quote, and behind the end     *)
(* when there is none *)
String(m) ==
  LET r == Rounds(m) IN
  IF Unclosed(r) THEN Token("error", r.at)
  ELSE Token(IF r.error THEN "error" ELSE "string", Until(r.at, {"\""}) + 1)

(* a newline met in the loop is counted, one that an error skips is not *)
BrokeLine(m) == Rounds(m).broke

-----------------------------------------------------------------------------
(* Operators and tokens *)

Single == {"(", ")", "[", "]", "{", "}", ",", ":", ".", "|", "-", "%", "+", ";", "/", "*",
           "?", "!", "=", ">", "<"}
WithEqual == {"-", "%", "+", "/", "*", "!", "=", ">", "<"}

(* charToken, for the character after n others *)
CharToken(n) ==
  LET c == Peek(n) IN
  CASE c \notin Single -> Token("error", n + 1)
    [] c \in WithEqual /\ Peek(n + 1) = "=" -> Token("operator", n + 2)
    [] c = "*" /\ Peek(n + 1) = "*" -> Token("operator", n + 2)
    [] OTHER -> Token("operator", n + 1)

Scanned(n) ==
  CASE AtEnd(n) -> Token("eof", n)
    [] Peek(n) \in Letters -> Identifier(n)
    [] Peek(n) \in Digits -> Number(n)
    [] Peek(n) = "\"" -> String(n + 1)
    [] OTHER -> CharToken(n)

Ended == tokens # <<>> /\ tokens[Len(tokens)].type = "eof"
Beyond == at > Len(source)

(* mutant: the token before does not count into the column *)
ColumnKept == column

(* where the next token starts to be looked for *)
Column == column + (at - start)

(* scanToken *)
ScanToken ==
  /\ ~Ended /\ ~Beyond
  /\ LET s == SkipWhitespace(at)
         t == Scanned(s.at)
         broke == Peek(s.at) = "\"" /\ BrokeLine(s.at + 1)
         l == line + s.lines + (IF broke THEN 1 ELSE 0)
         c == IF broke THEN 1 ELSE IF s.set THEN s.columns ELSE Column + s.columns IN
     /\ start' = s.at
     /\ at' = t.at
     /\ line' = l
     /\ column' = c
     /\ tokens' = Append(tokens, [type |-> t.type, from |-> s.at, to |-> t.at,
                                  line |-> l, column |-> c])
  /\ UNCHANGED source

(* initScanner *)
Start(text) ==
  /\ source = text
  /\ at = 0 /\ start = 0
  /\ line = 1 /\ column = 1
  /\ tokens = <<>>

(* what a C string can hold: its characters are none of them NUL *)
Texts == {text \in Seq(STRING) : \A i \in 1..Len(text) : text[i] # "NUL"}

Init == \E text \in Texts : Start(text)

Next == ScanToken

Spec == Init /\ [][Next]_vars

-----------------------------------------------------------------------------
(* Properties *)

Text(i) == SubSeq(source, tokens[i].from + 1, tokens[i].to)
EndOf(i) == IF i = 0 THEN 0 ELSE tokens[i].to

(* What stands between two tokens, or before the first, is blank or stands *)
(* behind two slashes in its line, and the token itself starts with        *)
(* neither: no character of the program is skipped, none read twice.       *)
Commented(p, from) ==
  \E q \in (from + 1)..(p - 1) :
    /\ source[q] = "/" /\ source[q + 1] = "/"
    /\ \A r \in q..p : source[r] # "\n"
NothingSkipped ==
  \A i \in 1..Len(tokens) :
    LET from == EndOf(i - 1)
        to == tokens[i].from IN
    /\ from <= to /\ (tokens[i].type # "eof" => to < tokens[i].to)
    /\ \A p \in (from + 1)..to :
         \/ source[p] \in Blanks \/ Commented(p, from)
         \/ p < to /\ source[p] = "/" /\ source[p + 1] = "/"
    /\ tokens[i].type # "eof" => Peek(to) \notin Blanks \cup {"NUL"}

(* What each kind of token is, said without the scanner *)
Reserved == {k.seen \o k.rest : k \in Keywords}
IsWord(w) == w # <<>> /\ w[1] \in Letters /\ \A i \in 1..Len(w) : w[i] \in Letters \cup Digits
AllDigits(w) == w # <<>> /\ \A i \in 1..Len(w) : w[i] \in Digits
IsNumber(w) ==
  \/ AllDigits(w)
  \/ \E i \in 2..(Len(w) - 1) : /\ w[i] = "." /\ AllDigits(SubSeq(w, 1, i - 1))
                                /\ AllDigits(SubSeq(w, i + 1, Len(w)))
IsOperator(w) ==
  \/ Len(w) = 1 /\ w[1] \in Single
  \/ Len(w) = 2 /\ w[1] \in WithEqual /\ w[2] = "="
  \/ w = <<"*", "*">>
(* the character behind an odd number of backslashes is escaped *)
Escaped(w, i) ==
  \E j \in 1..(i - 1) : /\ (i - j) % 2 = 1
                        /\ \A k \in j..(i - 1) : w[k] = "\\"
                        /\ j = 1 \/ w[j - 1] # "\\"
IsString(w) ==
  /\ Len(w) >= 2 /\ w[1] = "\"" /\ w[Len(w)] = "\"" /\ ~Escaped(w, Len(w))
  /\ \A i \in 2..(Len(w) - 1) : w[i] # "\n" /\ (w[i] = "\"" => Escaped(w, i))
Is(type, w) ==
  CASE type = "keyword" -> w \in Reserved
    [] type = "identifier" -> IsWord(w) /\ w \notin Reserved
    [] type = "number" -> IsNumber(w)
    [] type = "operator" -> IsOperator(w)
    [] type = "string" -> IsString(w)
    [] OTHER -> TRUE

(* A token is of its kind, and no longer text from the same place is a     *)
(* token of any kind.                                                      *)
LongestMatch ==
  \A i \in 1..Len(tokens) : tokens[i].type \notin {"error", "eof"} =>
    /\ Is(tokens[i].type, Text(i))
    /\ \A n \in (tokens[i].to + 1)..Len(source) :
         LET longer == SubSeq(source, tokens[i].from + 1, n) IN
         ~(IsWord(longer) \/ IsNumber(longer) \/ IsOperator(longer) \/ IsString(longer))

(* A token tells the line and column that it starts at, TOKEN_EOF the      *)
(* line, as long as no token so far holds a line end.  Only an error can,  *)
(* in a string; string() counts one line end at most of those it passes    *)
(* over then, so that afterwards lines may be too few, but never too many. *)
NewlinesBefore(n) == {p \in 1..n : source[p] = "\n"}
LineStart(n) == IF NewlinesBefore(n) = {} THEN 0
                ELSE CHOOSE p \in NewlinesBefore(n) : \A q \in NewlinesBefore(n) : q <= p
Lines(n) == LET count[i \in 0..n] == IF i = 0 THEN 1
                                     ELSE count[i - 1] + (IF source[i] = "\n" THEN 1 ELSE 0) IN
            count[n]
InOneLine(k) == \A p \in NewlinesBefore(Len(source)) : ~(k.from < p /\ p <= k.to)
UpTo(n) == IF n <= Len(source) THEN n ELSE Len(source)
Located ==
  \A i \in 1..Len(tokens) :
    /\ (\A j \in 1..i : InOneLine(tokens[j])) =>
         /\ tokens[i].line = Lines(tokens[i].from)
         /\ tokens[i].type # "eof" =>
              tokens[i].column = 1 + tokens[i].from - LineStart(tokens[i].from)
    /\ tokens[i].type # "error" => InOneLine(tokens[i])
    /\ tokens[i].line <= Lines(UpTo(tokens[i].to))

(* The scanner stays in its source, but for an error in a string that      *)
(* nothing ends: then "the closing quote" that it passes is the NUL.       *)
InSource ==
  Beyond => LET t == tokens[Len(tokens)] IN
            /\ t.type = "error" /\ source[t.from + 1] = "\""
            /\ \A n \in t.from..Len(source) : ~IsString(SubSeq(source, t.from + 1, n))
=============================================================================
