----------------------------- MODULE MCFrontEnd -----------------------------
(***************************************************************************)
(* The way of a line for TLC.  Texts for the scanner: all those over three *)
(* small alphabets (words, numbers and lines; operators and comments;      *)
(* strings and their escapes), and each keyword, without its last          *)
(* character and with one more.  And lines that are tokens already,        *)
(* parsed, compiled and executed as in MCMeaning.                          *)
(***************************************************************************)
EXTENDS Scanner

CONSTANTS Longest, IndexLevel

VARIABLES program, tree, status, chunk, flow, ip, stack, savedIp, told, env,
          part   \* "scanner" or "prompt"; it never changes

prompt == <<program, tree, status, chunk, flow, ip, stack, savedIp, told, env>>

Prompt == INSTANCE MCMeaning WITH source <- program

Characters ==
  {{"a", "s", "1", ".", " ", "\n"}, {"/", "*", "=", "s", "#", "\n"},
   {"\"", "\\", "x", "7", "a", "\n"}}

Near(w) == {w, SubSeq(w, 1, Len(w) - 1), Append(w, "s")}

ShortInit ==
  \/ \E S \in Characters, n \in 0..Longest : \E t \in [1..n -> S] : Start(t)
  \/ \E w \in Reserved : \E t \in Near(w) : Start(t)

PartInit ==
  \/ part = "scanner" /\ ShortInit /\ Prompt!Start(Prompt!NoTree, <<>>)
  \/ part = "prompt" /\ Start(<<>>) /\ Prompt!Init

PartNext ==
  /\ UNCHANGED part
  /\ \/ part = "scanner" /\ Next /\ UNCHANGED prompt
     \/ part = "prompt" /\ Prompt!Next /\ UNCHANGED vars

PartSpec == PartInit /\ [][PartNext]_<<vars, prompt, part>>

(* The properties of Meaning, each stated there *)

(* A line does what its tree means. *)
MeansTree == Prompt!MeansTree
(* The height of the stack is the same on every way through the code. *)
HeightsAgree == Prompt!HeightsAgree
=============================================================================
