----------------------------- MODULE BinaryProofs -----------------------------
(***************************************************************************)
(* What binary.c writes it loads again, for any script: the identifiers    *)
(* that writer and loader count on their own agree, every patch is inside  *)
(* its array, and each constant comes back in its place.                   *)
(*                                                                         *)
(* The invariant follows a constant through the file: as writeBinary       *)
(* leaves room for it, as patchFileRefs fills that in, as NIL_VAL with a   *)
(* patch that waits, and as the value that patchFunctionRefs puts there.   *)
(***************************************************************************)
EXTENDS Binary, SequenceTheorems, TLAPS

(* the script as writeBinary lists it: functions in the order of their     *)
(* identifiers, and the i-th constant of the f-th                          *)
Original(f) == constants[functionIds[f]]
Const(f, i) == Original(f)[i]

Distinct(ids) == \A i, j \in 1..Len(ids) : ids[i] = ids[j] => i = j

(* Functions are polled once each, and found inside those written before.  *)
Queues ==
  /\ constants \in Programs
  /\ functionIds \in Seq(Function) /\ functionQueue \in Seq(Function)
  /\ stringIds \in Seq(String) /\ stringQueue \in Seq(String)
  /\ Distinct(functionIds) /\ Distinct(functionQueue) /\ Distinct(stringIds)
  /\ Elements(functionIds) \cap Elements(functionQueue) = {}
  /\ Len(functionIds) >= 1 /\ functionIds[1] = Script

(* The file follows the script, function for function. *)
Lengths ==
  /\ Len(file) = Len(functionIds)
  /\ \A f \in 1..Len(file) : /\ Len(file[f]) <= Len(Original(f))
                             /\ f < Len(file) => Len(file[f]) = Len(Original(f))

(* What has been met has an identifier or waits for one; and no function   *)
(* was met but where it stands in the script.                              *)
Met ==
  /\ \A f \in 1..Len(file) : \A i \in 1..Len(file[f]) :
       /\ Const(f, i) \in Function =>
            Const(f, i) \in Elements(functionIds) \cup Elements(functionQueue)
       /\ Const(f, i) \in String => Const(f, i) \in Elements(stringIds)
  /\ \A g \in Elements(functionIds) \cup Elements(functionQueue) :
       g # Script => \E f \in 1..Len(file) : \E i \in 1..Len(file[f]) : Const(f, i) = g

Empty(c) == IF c = Number THEN Number ELSE IF c \in String THEN "string" ELSE "function"

(* The file, and the rooms left in it, before they are filled in *)
RoomsLeft ==
  /\ file \in Seq(Seq({Number, "string", "function"}))
  /\ filePatches \in Seq([value : Function \cup String, fn : Int, at : Int])
  /\ \A f \in 1..Len(file) : \A i \in 1..Len(file[f]) : file[f][i] = Empty(Const(f, i))
  /\ \A p \in Elements(filePatches) :
       /\ p.fn \in 1..Len(file) /\ p.at \in 1..Len(file[p.fn])
       /\ Const(p.fn, p.at) # Number /\ p.value = Const(p.fn, p.at)
  /\ \A f \in 1..Len(file) : \A i \in 1..Len(file[f]) : Const(f, i) # Number =>
       \E p \in Elements(filePatches) : p.fn = f /\ p.at = i

Complete == \A f \in 1..Len(file) : Len(file[f]) = Len(Original(f))

(* and after *)
Filled(c) ==
  IF c = Number THEN [tag |-> "number", id |-> 0]
  ELSE IF c \in String THEN [tag |-> "string", id |-> Id(stringIds, c)]
  ELSE [tag |-> "function", id |-> Id(functionIds, c)]

FileReady ==
  /\ file \in Seq(Seq([tag : {"number", "string", "function"}, id : Int]))
  /\ Complete /\ Elements(functionIds) = Function /\ fileStrings = stringIds
  /\ \A f \in 1..Len(file) : \A i \in 1..Len(file[f]) : file[f][i] = Filled(Const(f, i))

(* what a constant is in the functions that have been loaded *)
Final(c) ==
  IF c = Number THEN Number ELSE IF c \in String THEN c ELSE Id(functionIds, c)

PatchOf(f, i) ==
  [toPatch |-> f - 1, patchWith |-> Filled(Const(f, i)).id,
   position |-> i, type |-> Filled(Const(f, i)).tag]

(* A constant has its value, or is NIL_VAL and waits for a patch. *)
Loadings ==
  /\ functions \in Seq(Seq(Int \cup String \cup {Number, Nil}))
  /\ Len(functions) <= Len(file)
  /\ \A f \in 1..Len(functions) :
       /\ Len(functions[f]) <= Len(file[f])
       /\ f < Len(functions) => Len(functions[f]) = Len(file[f])
  /\ patchList \in Seq([toPatch : Int, patchWith : Int, position : Int,
                        type : {"function", "string"}])
  /\ \A p \in Elements(patchList) :
       \E f \in 1..Len(functions) : \E i \in 1..Len(functions[f]) :
         Const(f, i) # Number /\ p = PatchOf(f, i)
  /\ \A f \in 1..Len(functions) : \A i \in 1..Len(functions[f]) :
       \/ functions[f][i] = Final(Const(f, i))
       \/ \E p \in Elements(patchList) : p = PatchOf(f, i)

AllLoaded ==
  /\ Len(functions) = Len(file)
  /\ \A f \in 1..Len(functions) : Len(functions[f]) = Len(file[f])
  /\ strings = stringIds

BInv ==
  /\ phase \in {"write", "patchFile", "loadFunctions", "patch", "failed", "loaded"}
  /\ Queues /\ Lengths /\ Met
  /\ phase = "write" => stringQueue = stringIds
  /\ phase \in {"write", "patchFile"} => RoomsLeft /\ functions = <<>> /\ patchList = <<>>
  /\ phase # "write" => functionQueue = <<>>
  /\ phase = "patchFile" => Complete /\ fileStrings = stringIds
  /\ phase \in {"loadFunctions", "patch", "failed", "loaded"} => FileReady /\ Loadings
  /\ phase \in {"patch", "failed", "loaded"} => AllLoaded
  /\ phase = "loaded" => patchList = <<>>

-----------------------------------------------------------------------------
(* Sequences *)

LEMMA AppendFacts ==
  ASSUME NEW S, NEW s \in Seq(S), NEW v \in S
  PROVE  /\ Append(s, v) \in Seq(S) /\ Len(Append(s, v)) = Len(s) + 1
         /\ \A i \in 1..Len(s) : Append(s, v)[i] = s[i]
         /\ Append(s, v)[Len(s) + 1] = v
         /\ Elements(Append(s, v)) = Elements(s) \cup {v}
<1>1. /\ Append(s, v) \in Seq(S) /\ Len(Append(s, v)) = Len(s) + 1
      /\ \A i \in 1..Len(s) : Append(s, v)[i] = s[i]
      /\ Append(s, v)[Len(s) + 1] = v
  BY AppendProperties
<1>2. Len(s) \in Nat
  OBVIOUS
<1>3. 1..(Len(s) + 1) = 1..Len(s) \cup {Len(s) + 1}
  BY <1>2
<1>4. Elements(Append(s, v)) = Elements(s) \cup {v}
  BY <1>1, <1>3 DEF Elements
<1> QED
  BY <1>1, <1>4

LEMMA AppendDistinct ==
  ASSUME NEW S, NEW s \in Seq(S), NEW v \in S, Distinct(s), v \notin Elements(s)
  PROVE  Distinct(Append(s, v))
<1>1. /\ Len(Append(s, v)) = Len(s) + 1 /\ Len(s) \in Nat
      /\ \A i \in 1..Len(s) : Append(s, v)[i] = s[i]
      /\ Append(s, v)[Len(s) + 1] = v
  BY AppendFacts
<1>2. \A i \in 1..Len(Append(s, v)) : i \in 1..Len(s) \/ i = Len(s) + 1
  BY <1>1
<1>3. \A i \in 1..Len(s) : s[i] # v
  BY DEF Elements
<1> QED
  BY <1>1, <1>2, <1>3 DEF Distinct

LEMMA HeadTailFacts ==
  ASSUME NEW S, NEW s \in Seq(S), s # <<>>
  PROVE  /\ Head(s) \in S /\ Tail(s) \in Seq(S)
         /\ Elements(s) = Elements(Tail(s)) \cup {Head(s)}
         /\ Distinct(s) => Distinct(Tail(s)) /\ Head(s) \notin Elements(Tail(s))
<1>1. /\ Head(s) = s[1] /\ Head(s) \in S /\ Tail(s) \in Seq(S) /\ Len(s) \in Nat /\ Len(s) >= 1
      /\ Len(Tail(s)) = Len(s) - 1
      /\ \A i \in 1..(Len(s) - 1) : Tail(s)[i] = s[i + 1]
  BY HeadTailProperties, EmptySeq
<1>2. \A i \in 1..Len(s) : i = 1 \/ (i - 1 \in 1..(Len(s) - 1) /\ s[i] = Tail(s)[i - 1])
  <2>1. \A i \in 1..Len(s) : i = 1 \/ (i - 1 \in 1..(Len(s) - 1) /\ (i - 1) + 1 = i)
    BY <1>1
  <2> QED
    BY <1>1, <2>1
<1>3. Elements(s) = Elements(Tail(s)) \cup {Head(s)}
  <2>1. Elements(s) \subseteq Elements(Tail(s)) \cup {Head(s)}
    BY <1>1, <1>2 DEF Elements
  <2>2. Elements(Tail(s)) \cup {Head(s)} \subseteq Elements(s)
    BY <1>1 DEF Elements
  <2> QED
    BY <2>1, <2>2
<1>4. ASSUME Distinct(s)
      PROVE  Distinct(Tail(s)) /\ Head(s) \notin Elements(Tail(s))
  <2>1. \A i \in 1..(Len(s) - 1) : i + 1 \in 1..Len(s) /\ i + 1 # 1 /\ 1 \in 1..Len(s)
    BY <1>1
  <2>2. \A i, j \in 1..(Len(s) - 1) : i + 1 = j + 1 => i = j
    BY <1>1
  <2> QED
    BY <1>1, <1>4, <2>1, <2>2 DEF Distinct, Elements
<1> QED
  BY <1>1, <1>3, <1>4

(* a constant appended to the last function *)
LEMMA ExtendLast ==
  ASSUME NEW S, NEW s \in Seq(Seq(S)), s # <<>>, NEW v \in S
  PROVE  LET n == Len(s) t == [s EXCEPT ![n] = Append(@, v)] IN
         /\ t \in Seq(Seq(S)) /\ Len(t) = n /\ n \in Nat \ {0} /\ Len(s[n]) \in Nat
         /\ \A f \in 1..n : f # n => t[f] = s[f]
         /\ Len(t[n]) = Len(s[n]) + 1
         /\ \A i \in 1..Len(s[n]) : t[n][i] = s[n][i]
         /\ t[n][Len(s[n]) + 1] = v
<1> DEFINE n == Len(s)
           t == [s EXCEPT ![n] = Append(@, v)]
<1>1. n \in Nat \ {0} /\ n \in 1..n /\ DOMAIN s = 1..n
  BY EmptySeq
<1>2. s[n] \in Seq(S)
  BY <1>1
<1>3. t[n] = Append(s[n], v) /\ \A f \in 1..n : f # n => t[f] = s[f]
  BY <1>1
<1>4. Append(s[n], v) \in Seq(S)
  BY <1>2, AppendFacts
<1>5. t \in Seq(Seq(S)) /\ Len(t) = n
  BY <1>1, <1>4, ExceptSeq
<1> HIDE DEF n, t
<1>6. /\ Len(t[n]) = Len(s[n]) + 1 /\ Len(s[n]) \in Nat
      /\ \A i \in 1..Len(s[n]) : t[n][i] = s[n][i]
      /\ t[n][Len(s[n]) + 1] = v
  BY <1>2, <1>3, AppendFacts
<1>7. /\ t \in Seq(Seq(S)) /\ Len(t) = n /\ n \in Nat \ {0} /\ Len(s[n]) \in Nat
      /\ \A f \in 1..n : f # n => t[f] = s[f]
      /\ Len(t[n]) = Len(s[n]) + 1
      /\ \A i \in 1..Len(s[n]) : t[n][i] = s[n][i]
      /\ t[n][Len(s[n]) + 1] = v
  BY <1>1, <1>3, <1>5, <1>6
<1> QED
  BY <1>7 DEF n, t

(* an identifier is the place of a value, counted from 0 *)
LEMMA IdFacts ==
  ASSUME NEW S, NEW ids \in Seq(S), NEW v \in Elements(ids)
  PROVE  Id(ids, v) \in 0..(Len(ids) - 1) /\ ids[Id(ids, v) + 1] = v
<1>1. PICK i \in 1..Len(ids) : ids[i] = v
  BY DEF Elements
<1> DEFINE c == CHOOSE j \in 1..Len(ids) : ids[j] = v
<1>2. c \in 1..Len(ids) /\ ids[c] = v
  BY <1>1
<1>3. Id(ids, v) = c - 1
  BY DEF Id
<1> HIDE DEF c
<1>4. Len(ids) \in Nat
  OBVIOUS
<1>5. c - 1 \in 0..(Len(ids) - 1) /\ (c - 1) + 1 = c
  BY <1>2, <1>4
<1> QED
  BY <1>2, <1>3, <1>5

-----------------------------------------------------------------------------
(* The script *)

LEMMA ScriptFacts ==
  ASSUME BinaryAssumption, Queues
  PROVE  /\ \A f \in 1..Len(functionIds) : functionIds[f] \in Function
         /\ \A f \in 1..Len(functionIds) :
              /\ Original(f) \in Seq(Function \cup String \cup {Number})
              /\ \A i \in 1..Len(Original(f)) : Const(f, i) \in Function \cup String \cup {Number}
         /\ Number \notin Function \cup String /\ Function \cap String = {}
<1>1. \A f \in 1..Len(functionIds) : functionIds[f] \in Function
  BY DEF Queues
<1>2. constants \in [Function -> Seq(Function \cup String \cup {Number})]
  BY DEF Queues, BinaryAssumption
<1>3. \A f \in 1..Len(functionIds) : Original(f) \in Seq(Function \cup String \cup {Number})
  BY <1>1, <1>2 DEF Original
<1>4. \A f \in 1..Len(functionIds) : \A i \in 1..Len(Original(f)) :
        Const(f, i) \in Function \cup String \cup {Number}
  BY <1>3 DEF Const
<1> QED
  BY <1>1, <1>3, <1>4 DEF BinaryAssumption

(* A function stands in one place of the script. *)
LEMMA OnePlace ==
  ASSUME BinaryAssumption, Queues,
         NEW f \in 1..Len(functionIds), NEW i \in 1..Len(Original(f)),
         NEW g \in 1..Len(functionIds), NEW j \in 1..Len(Original(g)),
         Const(f, i) = Const(g, j), Const(f, i) \in Function
  PROVE  f = g /\ i = j
<1>1. /\ functionIds[f] \in Function /\ functionIds[g] \in Function
      /\ Original(f) \in Seq(Function \cup String \cup {Number})
      /\ Original(g) \in Seq(Function \cup String \cup {Number})
  BY ScriptFacts
<1>2. Nested(constants)
  BY DEF Queues, BinaryAssumption
<1>3. i \in DOMAIN constants[functionIds[f]] /\ j \in DOMAIN constants[functionIds[g]]
  BY <1>1 DEF Original
<1>4. functionIds[f] = functionIds[g] /\ i = j
  BY <1>1, <1>2, <1>3 DEF Nested, Const, Original
<1> QED
  BY <1>4 DEF Queues, Distinct

-----------------------------------------------------------------------------
(* writeBinary *)

LEMMA InitBInv == BinaryAssumption /\ BinaryInit => BInv
<1> SUFFICES ASSUME BinaryAssumption, BinaryInit PROVE BInv
  OBVIOUS
<1>1. /\ constants \in Programs /\ phase = "write" /\ functionQueue = <<>> /\ stringQueue = <<>>
      /\ functionIds = <<Script>> /\ stringIds = <<>> /\ file = <<<<>>>>
      /\ filePatches = <<>> /\ functions = <<>> /\ patchList = <<>>
  BY DEF BinaryInit
<1>2. Script \in Function
  BY DEF BinaryAssumption
<1>3. Elements(functionIds) = {Script} /\ Elements(functionQueue) = {} /\ Elements(stringIds) = {}
      /\ Elements(filePatches) = {}
  BY <1>1 DEF Elements
<1>4. Queues
  BY <1>1, <1>2, <1>3 DEF Queues, Distinct
<1>5. Original(1) \in Seq(Function \cup String \cup {Number})
  BY <1>1, <1>4, ScriptFacts
<1>6. Len(file) = 1 /\ Len(functionIds) = 1 /\ file[1] = <<>> /\ Len(file[1]) = 0
  BY <1>1
<1>7. Lengths
  BY <1>5, <1>6 DEF Lengths
<1>8. Met
  BY <1>3, <1>6 DEF Met
<1>9. file \in Seq(Seq({Number, "string", "function"}))
  BY <1>1
<1>10. RoomsLeft
  BY <1>1, <1>3, <1>6, <1>9 DEF RoomsLeft
<1> QED
  BY <1>1, <1>4, <1>7, <1>8, <1>10 DEF BInv

(* while the functions are written *)
WInv ==
  /\ Queues /\ Lengths /\ Met /\ stringQueue = stringIds /\ RoomsLeft
  /\ functions = <<>> /\ patchList = <<>>

LEMMA Writing1 == BInv /\ phase = "write" => WInv
BY DEF BInv, WInv

LEMMA Writing2 == WInv /\ phase = "write" => BInv
BY DEF BInv, WInv

(* One constant more is in the file. *)
LEMMA EntryWritten ==
  ASSUME BinaryAssumption, WInv, MoreConstants, NEW v \in {Number, "string", "function"},
         WriteEntry(v), UNCHANGED functionIds, v = Empty(Constant)
  PROVE  LET n == Len(file) w == Written IN
         /\ n \in Nat \ {0} /\ w \in Nat /\ n = Len(functionIds) /\ Len(file') = n
         /\ w + 1 \in 1..Len(Original(n)) /\ Constant = Const(n, w + 1)
         /\ file' \in Seq(Seq({Number, "string", "function"}))
         /\ \A f \in 1..n : f # n => Len(file'[f]) = Len(file[f])
         /\ Len(file'[n]) = w + 1
         /\ \A f \in 1..n : \A i \in 1..Len(file'[f]) :
              i \in 1..Len(file[f]) \/ (f = n /\ i = w + 1)
         /\ Lengths'
         /\ \A f \in 1..n : \A i \in 1..Len(file'[f]) : file'[f][i] = Empty(Const(f, i))
<1> DEFINE n == Len(file)
           w == Written
<1>1. /\ file \in Seq(Seq({Number, "string", "function"})) /\ Len(file) = Len(functionIds)
      /\ file # <<>> /\ n \in Nat \ {0}
  <2>1. Len(file) = Len(functionIds) /\ Len(functionIds) >= 1 /\ functionIds \in Seq(Function)
    BY DEF WInv, Lengths, Queues
  <2> QED
    BY <2>1 DEF WInv, RoomsLeft
<1>2. /\ file' = [file EXCEPT ![n] = Append(@, v)] /\ UNCHANGED <<constants, functionIds>>
      /\ w = Len(file[n])
  BY DEF WriteEntry, Written
<1> HIDE DEF n, w
<1>3. /\ file' \in Seq(Seq({Number, "string", "function"})) /\ Len(file') = n
      /\ w \in Nat
      /\ \A f \in 1..n : f # n => file'[f] = file[f]
      /\ Len(file'[n]) = w + 1
      /\ \A i \in 1..w : file'[n][i] = file[n][i]
      /\ file'[n][w + 1] = v
  BY <1>1, <1>2, ExtendLast DEF n
<1>4. w < Len(constants[Writing]) /\ Writing = functionIds[n]
      /\ Constant = constants[Writing][w + 1]
  BY <1>1 DEF MoreConstants, Writing, Constant, n, w
<1>5. Original(n) = constants[Writing] /\ Constant = Const(n, w + 1)
  BY <1>4 DEF Original, Const
<1>6. Original(n) \in Seq(Function \cup String \cup {Number})
  BY <1>1, ScriptFacts DEF WInv, n
<1>7. w + 1 \in 1..Len(Original(n))
  BY <1>3, <1>4, <1>5, <1>6
<1>8. \A f \in 1..n : \A i \in 1..Len(file'[f]) :
         (i \in 1..Len(file[f]) /\ file'[f][i] = file[f][i]) \/ (f = n /\ i = w + 1)
  BY <1>2, <1>3
<1>9. \A f \in 1..n : f # n => Len(file'[f]) = Len(file[f])
  BY <1>3
<1>10. \A f \in 1..n : \A i \in 1..Len(file'[f]) : file'[f][i] = Empty(Const(f, i))
  <2>1. \A f \in 1..n : \A i \in 1..Len(file[f]) : file[f][i] = Empty(Const(f, i))
    BY DEF WInv, RoomsLeft, n
  <2>2. file'[n][w + 1] = Empty(Const(n, w + 1))
    BY <1>3, <1>5
  <2> QED
    BY <1>8, <2>1, <2>2
<1>11. Lengths'
  <2>1. \A f \in 1..n : Original(f)' = Original(f)
    BY <1>2 DEF Original
  <2> SUFFICES ASSUME NEW f \in 1..n
               PROVE  /\ Len(file'[f]) <= Len(Original(f))
                      /\ f < n => Len(file'[f]) = Len(Original(f))
    BY <1>1, <1>2, <1>3, <2>1 DEF Lengths, n
  <2>2. CASE f = n
    BY <1>1, <1>3, <1>6, <1>7, <2>2
  <2>3. CASE f # n
    BY <1>1, <1>9, <2>3 DEF WInv, Lengths, n
  <2> QED
    BY <2>2, <2>3
<1>12. /\ n \in Nat \ {0} /\ w \in Nat /\ n = Len(functionIds) /\ Len(file') = n
       /\ w + 1 \in 1..Len(Original(n)) /\ Constant = Const(n, w + 1)
       /\ file' \in Seq(Seq({Number, "string", "function"}))
       /\ \A f \in 1..n : f # n => Len(file'[f]) = Len(file[f])
       /\ Len(file'[n]) = w + 1
       /\ \A f \in 1..n : \A i \in 1..Len(file'[f]) :
            i \in 1..Len(file[f]) \/ (f = n /\ i = w + 1)
       /\ Lengths'
       /\ \A f \in 1..n : \A i \in 1..Len(file'[f]) : file'[f][i] = Empty(Const(f, i))
  BY <1>1, <1>3, <1>5, <1>7, <1>8, <1>9, <1>10, <1>11 DEF n
<1> QED
  BY <1>12 DEF n, w

(* and when it is an identifier, there is a patch for it. *)
LEMMA RoomLeft ==
  ASSUME BinaryAssumption, WInv, MoreConstants, NEW v \in {Number, "string", "function"},
         WriteEntry(v), UNCHANGED functionIds, v = Empty(Constant),
         IF Constant = Number THEN UNCHANGED filePatches ELSE Later(Constant)
  PROVE  RoomsLeft'
<1> DEFINE n == Len(file)
           w == Written
<1>1. /\ n \in Nat \ {0} /\ w \in Nat /\ n = Len(functionIds) /\ Len(file') = n
      /\ w + 1 \in 1..Len(Original(n)) /\ Constant = Const(n, w + 1)
      /\ file' \in Seq(Seq({Number, "string", "function"}))
      /\ \A f \in 1..n : f # n => Len(file'[f]) = Len(file[f])
      /\ Len(file'[n]) = w + 1
      /\ \A f \in 1..n : \A i \in 1..Len(file'[f]) :
           i \in 1..Len(file[f]) \/ (f = n /\ i = w + 1)
      /\ \A f \in 1..n : \A i \in 1..Len(file'[f]) : file'[f][i] = Empty(Const(f, i))
  BY EntryWritten
<1>2. w = Len(file[n])
  BY DEF Written
<1>3. UNCHANGED <<constants, functionIds>>
  BY DEF WriteEntry
<1>4. Constant = Number \/ filePatches' =
         Append(filePatches, [value |-> Constant, fn |-> n, at |-> w + 1])
  BY DEF Later
<1> HIDE DEF n, w
<1>5. filePatches \in Seq([value : Function \cup String, fn : Int, at : Int])
  BY DEF WInv, RoomsLeft
<1>6. Constant \in Function \cup String \cup {Number} /\ Number \notin Function \cup String
  BY <1>1, ScriptFacts DEF WInv
<1> DEFINE p == [value |-> Constant, fn |-> n, at |-> w + 1]
<1>7. /\ filePatches' \in Seq([value : Function \cup String, fn : Int, at : Int])
      /\ Elements(filePatches') = IF Constant = Number THEN Elements(filePatches)
                                  ELSE Elements(filePatches) \cup {p}
  <2>1. CASE Constant = Number
    BY <1>5, <2>1
  <2>2. CASE Constant # Number
    <3>1. p \in [value : Function \cup String, fn : Int, at : Int]
      BY <1>1, <1>6, <2>2
    <3>2. filePatches' = Append(filePatches, p)
      BY <1>4, <2>2
    <3> DEFINE R == [value : Function \cup String, fn : Int, at : Int]
    <3> HIDE DEF p, R
    <3>3. filePatches \in Seq(R) /\ p \in R
      BY <1>5, <3>1 DEF R
    <3>4. /\ Append(filePatches, p) \in Seq(R)
          /\ Elements(Append(filePatches, p)) = Elements(filePatches) \cup {p}
      BY <3>3, AppendFacts
    <3> QED
      BY <2>2, <3>2, <3>4 DEF R
  <2> QED
    BY <2>1, <2>2
<1>8. p.fn = n /\ p.at = w + 1 /\ p.value = Const(n, w + 1)
  BY <1>1
<1> HIDE DEF p
<1>9. \A f, i : Const(f, i)' = Const(f, i)
  BY <1>3 DEF Const, Original
<1>10. /\ \A q \in Elements(filePatches) :
           /\ q.fn \in 1..n /\ q.at \in 1..Len(file[q.fn])
           /\ Const(q.fn, q.at) # Number /\ q.value = Const(q.fn, q.at)
       /\ \A f \in 1..n : \A i \in 1..Len(file[f]) : Const(f, i) # Number =>
            \E q \in Elements(filePatches) : q.fn = f /\ q.at = i
  BY DEF WInv, RoomsLeft, n
<1>11. \A f \in 1..n : \A i \in 1..Len(file[f]) : i \in 1..Len(file'[f])
  <2> SUFFICES ASSUME NEW f \in 1..n, NEW i \in 1..Len(file[f])
               PROVE  i \in 1..Len(file'[f])
    OBVIOUS
  <2>1. CASE f = n
    BY <1>1, <1>2, <2>1
  <2>2. CASE f # n
    BY <1>1, <2>2
  <2> QED
    BY <2>1, <2>2
<1>12. \A q \in Elements(filePatches') :
          /\ q.fn \in 1..n /\ q.at \in 1..Len(file'[q.fn])
          /\ Const(q.fn, q.at) # Number /\ q.value = Const(q.fn, q.at)
  <2> SUFFICES ASSUME NEW q \in Elements(filePatches')
               PROVE  /\ q.fn \in 1..n /\ q.at \in 1..Len(file'[q.fn])
                      /\ Const(q.fn, q.at) # Number /\ q.value = Const(q.fn, q.at)
    OBVIOUS
  <2>1. CASE q \in Elements(filePatches)
    BY <1>10, <1>11, <2>1
  <2>2. CASE q = p /\ Constant # Number
    BY <1>1, <1>8, <2>2
  <2> QED
    BY <1>7, <2>1, <2>2
<1>13. \A f \in 1..n : \A i \in 1..Len(file'[f]) : Const(f, i) # Number =>
           \E q \in Elements(filePatches') : q.fn = f /\ q.at = i
  BY <1>1, <1>7, <1>8, <1>10
<1>14. /\ \A f \in 1..Len(file') : \A i \in 1..Len(file'[f]) : file'[f][i] = Empty(Const(f, i))'
       /\ \A q \in Elements(filePatches') :
            /\ q.fn \in 1..Len(file') /\ q.at \in 1..Len(file'[q.fn])
            /\ Const(q.fn, q.at)' # Number /\ q.value = Const(q.fn, q.at)'
       /\ \A f \in 1..Len(file') : \A i \in 1..Len(file'[f]) : Const(f, i)' # Number =>
            \E q \in Elements(filePatches') : q.fn = f /\ q.at = i
  BY <1>1, <1>9, <1>12, <1>13 DEF Empty
<1> QED
  BY <1>1, <1>7, <1>14 DEF RoomsLeft, Elements

LEMMA WriteNumberKeeps ==
  ASSUME BinaryAssumption, WInv, WriteNumber
  PROVE  WInv'
<1>1. /\ MoreConstants /\ Constant = Number /\ WriteEntry(Number)
      /\ UNCHANGED <<functionQueue, stringQueue, functionIds, stringIds, filePatches>>
      /\ UNCHANGED <<constants, functions, patchList>>
      /\ Number = Empty(Constant)
  BY DEF WriteNumber, WriteEntry, queueVars, loadVars, Empty
<1> DEFINE n == Len(file)
           w == Written
<1>2. /\ n \in Nat \ {0} /\ w \in Nat /\ Len(file') = n /\ Constant = Const(n, w + 1)
      /\ \A f \in 1..n : \A i \in 1..Len(file'[f]) :
           i \in 1..Len(file[f]) \/ (f = n /\ i = w + 1)
      /\ \A f \in 1..n : f # n => Len(file'[f]) = Len(file[f])
      /\ Len(file'[n]) = w + 1
      /\ Lengths' /\ RoomsLeft'
  BY <1>1, EntryWritten, RoomLeft
<1>3. w = Len(file[n])
  BY DEF Written
<1> HIDE DEF w
<1>4. \A f, i : Const(f, i)' = Const(f, i)
  BY <1>1 DEF Const, Original
<1>5. Number \notin Function \cup String
  BY ScriptFacts DEF WInv
<1>6. \A f \in 1..n : \A i \in 1..Len(file[f]) : i \in 1..Len(file'[f])
  <2> SUFFICES ASSUME NEW f \in 1..n, NEW i \in 1..Len(file[f])
               PROVE  i \in 1..Len(file'[f])
    OBVIOUS
  <2>1. CASE f = n
    BY <1>2, <1>3, <2>1
  <2>2. CASE f # n
    BY <1>2, <2>2
  <2> QED
    BY <2>1, <2>2
<1>7. Met'
  <2>1. \A f \in 1..n : \A i \in 1..Len(file'[f]) :
          /\ Const(f, i) \in Function =>
               Const(f, i) \in Elements(functionIds) \cup Elements(functionQueue)
          /\ Const(f, i) \in String => Const(f, i) \in Elements(stringIds)
    BY <1>1, <1>2, <1>5 DEF WInv, Met, n
  <2>2. \A g \in Elements(functionIds) \cup Elements(functionQueue) :
          g # Script => \E f \in 1..n : \E i \in 1..Len(file'[f]) : Const(f, i) = g
    BY <1>6 DEF WInv, Met, n
  <2> QED
    BY <1>1, <1>2, <1>4, <2>1, <2>2 DEF Met
<1>8. Queues'
  BY <1>1 DEF WInv, Queues
<1> QED
  BY <1>1, <1>2, <1>7, <1>8 DEF WInv

LEMMA WriteStringKeeps ==
  ASSUME BinaryAssumption, WInv, WriteString
  PROVE  WInv'
<1>1. /\ MoreConstants /\ Constant \in String /\ WriteEntry("string") /\ Later(Constant)
      /\ UNCHANGED <<functionQueue, functionIds>>
      /\ UNCHANGED <<constants, functions, patchList>>
      /\ IF Constant \in Elements(stringQueue) THEN UNCHANGED <<stringQueue, stringIds>>
         ELSE /\ stringQueue' = Append(stringQueue, Constant)
              /\ stringIds' = Append(stringIds, Constant)
  BY DEF WriteString, WriteEntry, loadVars
<1>2. Constant # Number /\ Constant \notin Function /\ "string" = Empty(Constant)
  BY <1>1, ScriptFacts DEF WInv, Empty
<1> DEFINE n == Len(file)
           w == Written
<1>3. /\ n \in Nat \ {0} /\ w \in Nat /\ Len(file') = n /\ Constant = Const(n, w + 1)
      /\ \A f \in 1..n : \A i \in 1..Len(file'[f]) :
           i \in 1..Len(file[f]) \/ (f = n /\ i = w + 1)
      /\ \A f \in 1..n : f # n => Len(file'[f]) = Len(file[f])
      /\ Len(file'[n]) = w + 1
      /\ Lengths' /\ RoomsLeft'
  BY <1>1, <1>2, EntryWritten, RoomLeft
<1>4. w = Len(file[n])
  BY DEF Written
<1> HIDE DEF w
<1>5. \A f, i : Const(f, i)' = Const(f, i)
  BY <1>1 DEF Const, Original
<1>6. \A f \in 1..n : \A i \in 1..Len(file[f]) : i \in 1..Len(file'[f])
  <2> SUFFICES ASSUME NEW f \in 1..n, NEW i \in 1..Len(file[f])
               PROVE  i \in 1..Len(file'[f])
    OBVIOUS
  <2>1. CASE f = n
    BY <1>3, <1>4, <2>1
  <2>2. CASE f # n
    BY <1>3, <2>2
  <2> QED
    BY <2>1, <2>2
<1>7. /\ stringIds' \in Seq(String) /\ stringQueue' = stringIds' /\ Distinct(stringIds')
      /\ Elements(stringIds') = Elements(stringIds) \cup {Constant}
  <2>1. stringIds \in Seq(String) /\ Distinct(stringIds) /\ stringQueue = stringIds
    BY DEF WInv, Queues
  <2>2. CASE Constant \in Elements(stringIds)
    BY <1>1, <2>1, <2>2
  <2>3. CASE Constant \notin Elements(stringIds)
    <3>1. stringIds' = Append(stringIds, Constant) /\ stringQueue' = stringIds'
      BY <1>1, <2>1, <2>3
    <3>2. /\ Append(stringIds, Constant) \in Seq(String)
          /\ Elements(Append(stringIds, Constant)) = Elements(stringIds) \cup {Constant}
          /\ Distinct(Append(stringIds, Constant))
      BY <1>1, <2>1, <2>3, AppendFacts, AppendDistinct
    <3> QED
      BY <3>1, <3>2
  <2> QED
    BY <2>2, <2>3
<1>8. Met'
  <2>1. \A f \in 1..n : \A i \in 1..Len(file'[f]) :
          /\ Const(f, i) \in Function =>
               Const(f, i) \in Elements(functionIds) \cup Elements(functionQueue)
          /\ Const(f, i) \in String => Const(f, i) \in Elements(stringIds')
    BY <1>2, <1>3, <1>7 DEF WInv, Met, n
  <2>2. \A g \in Elements(functionIds) \cup Elements(functionQueue) :
          g # Script => \E f \in 1..n : \E i \in 1..Len(file'[f]) : Const(f, i) = g
    BY <1>6 DEF WInv, Met, n
  <2>3. /\ \A f \in 1..Len(file') : \A i \in 1..Len(file'[f]) :
             /\ Const(f, i)' \in Function =>
                  Const(f, i)' \in Elements(functionIds') \cup Elements(functionQueue')
             /\ Const(f, i)' \in String => Const(f, i)' \in Elements(stringIds')
        /\ \A g \in Elements(functionIds') \cup Elements(functionQueue') :
             g # Script => \E f \in 1..Len(file') : \E i \in 1..Len(file'[f]) : Const(f, i)' = g
    BY <1>1, <1>3, <1>5, <2>1, <2>2
  <2> QED
    BY <2>3 DEF Met, Elements
<1>9. Queues'
  BY <1>1, <1>7 DEF WInv, Queues
<1> QED
  BY <1>1, <1>3, <1>7, <1>8, <1>9 DEF WInv

LEMMA WriteFunctionRefKeeps ==
  ASSUME BinaryAssumption, WInv, WriteFunctionRef
  PROVE  WInv'
<1>1. /\ MoreConstants /\ Constant \in Function /\ WriteEntry("function") /\ Later(Constant)
      /\ UNCHANGED <<stringQueue, functionIds, stringIds>>
      /\ UNCHANGED <<constants, functions, patchList>>
      /\ functionQueue' = IF Constant \in Elements(functionQueue) THEN functionQueue
                          ELSE Append(functionQueue, Constant)
  BY DEF WriteFunctionRef, WriteEntry, loadVars
<1>2. Constant # Number /\ Constant \notin String /\ "function" = Empty(Constant)
  BY <1>1, ScriptFacts DEF WInv, Empty
<1> DEFINE n == Len(file)
           w == Written
<1>3. /\ n \in Nat \ {0} /\ w \in Nat /\ n = Len(functionIds) /\ Len(file') = n
      /\ w + 1 \in 1..Len(Original(n)) /\ Constant = Const(n, w + 1)
      /\ \A f \in 1..n : \A i \in 1..Len(file'[f]) :
           i \in 1..Len(file[f]) \/ (f = n /\ i = w + 1)
      /\ \A f \in 1..n : f # n => Len(file'[f]) = Len(file[f])
      /\ Len(file'[n]) = w + 1
      /\ Lengths' /\ RoomsLeft'
  BY <1>1, <1>2, EntryWritten, RoomLeft
<1>4. w = Len(file[n])
  BY DEF Written
<1> HIDE DEF w
<1>5. \A f, i : Const(f, i)' = Const(f, i)
  BY <1>1 DEF Const, Original
<1>6. \A f \in 1..n : \A i \in 1..Len(file[f]) : i \in 1..Len(file'[f])
  <2> SUFFICES ASSUME NEW f \in 1..n, NEW i \in 1..Len(file[f])
               PROVE  i \in 1..Len(file'[f])
    OBVIOUS
  <2>1. CASE f = n
    BY <1>3, <1>4, <2>1
  <2>2. CASE f # n
    BY <1>3, <2>2
  <2> QED
    BY <2>1, <2>2
<1>7. Constant # Script
  <2>1. Nested(constants) /\ functionIds[n] \in Function
        /\ Original(n) \in Seq(Function \cup String \cup {Number})
    BY <1>3, ScriptFacts DEF WInv, Queues, BinaryAssumption
  <2>2. w + 1 \in DOMAIN constants[functionIds[n]]
    BY <1>3, <2>1 DEF Original
  <2> QED
    BY <1>3, <2>1, <2>2 DEF Nested, Const, Original
<1>8. Constant \notin Elements(functionIds) \cup Elements(functionQueue)
  <2> SUFFICES ASSUME Constant \in Elements(functionIds) \cup Elements(functionQueue)
               PROVE  FALSE
    OBVIOUS
  <2>0. PICK f \in 1..n : \E i \in 1..Len(file[f]) : Const(f, i) = Constant
    BY <1>7 DEF WInv, Met, n
  <2>1. PICK i \in 1..Len(file[f]) : Const(f, i) = Constant
    BY <2>0
  <2>2. Len(file[f]) \in Nat /\ Len(file[f]) <= Len(Original(f))
        /\ Original(f) \in Seq(Function \cup String \cup {Number})
    <3>1. Original(f) \in Seq(Function \cup String \cup {Number})
      BY <1>3, ScriptFacts DEF WInv
    <3>2. file \in Seq(Seq({Number, "string", "function"}))
      BY DEF WInv, RoomsLeft
    <3>3. Len(file[f]) <= Len(Original(f))
      BY DEF WInv, Lengths, n
    <3> QED
      BY <3>1, <3>2, <3>3
  <2>3. i \in 1..Len(Original(f)) /\ f \in 1..Len(functionIds) /\ n \in 1..Len(functionIds)
    BY <1>3, <2>1, <2>2
  <2>4. f = n /\ i = w + 1
    BY <1>1, <1>3, <2>1, <2>3, OnePlace DEF WInv
  <2> QED
    BY <1>3, <1>4, <2>1, <2>4
<1>9. /\ functionQueue' \in Seq(Function) /\ Distinct(functionQueue')
      /\ Elements(functionQueue') = Elements(functionQueue) \cup {Constant}
  <2>1. functionQueue \in Seq(Function) /\ Distinct(functionQueue)
        /\ functionQueue' = Append(functionQueue, Constant)
    BY <1>1, <1>8 DEF WInv, Queues
  <2> QED
    BY <1>1, <1>8, <2>1, AppendFacts, AppendDistinct
<1>10. Met'
  <2>1. \A f \in 1..n : \A i \in 1..Len(file'[f]) :
          /\ Const(f, i) \in Function =>
               Const(f, i) \in Elements(functionIds) \cup Elements(functionQueue')
          /\ Const(f, i) \in String => Const(f, i) \in Elements(stringIds)
    BY <1>2, <1>3, <1>9 DEF WInv, Met, n
  <2>2. \A g \in Elements(functionIds) \cup Elements(functionQueue) :
          g # Script => \E f \in 1..n : \E i \in 1..Len(file'[f]) : Const(f, i) = g
    BY <1>6 DEF WInv, Met, n
  <2>3. n \in 1..n /\ w + 1 \in 1..Len(file'[n])
    BY <1>3
  <2>4. \A g \in Elements(functionIds) \cup Elements(functionQueue') :
          g # Script => \E f \in 1..n : \E i \in 1..Len(file'[f]) : Const(f, i) = g
    BY <1>3, <1>9, <2>2, <2>3
  <2>5. /\ \A f \in 1..Len(file') : \A i \in 1..Len(file'[f]) :
             /\ Const(f, i)' \in Function =>
                  Const(f, i)' \in Elements(functionIds') \cup Elements(functionQueue')
             /\ Const(f, i)' \in String => Const(f, i)' \in Elements(stringIds')
        /\ \A g \in Elements(functionIds') \cup Elements(functionQueue') :
             g # Script => \E f \in 1..Len(file') : \E i \in 1..Len(file'[f]) : Const(f, i)' = g
    BY <1>1, <1>3, <1>5, <2>1, <2>4
  <2> QED
    BY <2>5 DEF Met, Elements
<1>11. Queues'
  BY <1>1, <1>8, <1>9 DEF WInv, Queues
<1> QED
  BY <1>1, <1>3, <1>10, <1>11 DEF WInv

(* The function polled next had no identifier yet. *)
LEMMA NextFunctionKeeps ==
  ASSUME BinaryAssumption, WInv, NextFunction
  PROVE  WInv'
<1>0. PICK n : n = Len(file)
  OBVIOUS
<1>g. PICK g : g = Head(functionQueue)
  OBVIOUS
<1>1. /\ phase = "write" /\ ~MoreConstants /\ functionQueue # <<>>
      /\ functionIds' = Append(functionIds, g) /\ functionQueue' = Tail(functionQueue)
      /\ file' = Append(file, <<>>)
      /\ UNCHANGED <<constants, stringQueue, stringIds, filePatches, functions, patchList>>
  BY <1>g DEF NextFunction, loadVars
<1>2. /\ functionIds \in Seq(Function) /\ functionQueue \in Seq(Function)
      /\ Distinct(functionIds) /\ Distinct(functionQueue)
      /\ file \in Seq(Seq({Number, "string", "function"})) /\ Len(file) = Len(functionIds)
      /\ Len(functionIds) >= 1 /\ functionIds[1] = Script
      /\ Elements(functionIds) \cap Elements(functionQueue) = {}
  BY DEF WInv, Queues, Lengths, RoomsLeft
<1>3. /\ g \in Function /\ Tail(functionQueue) \in Seq(Function)
      /\ Elements(functionQueue) = Elements(functionQueue') \cup {g}
      /\ Distinct(functionQueue') /\ g \notin Elements(functionQueue')
  BY <1>1, <1>2, <1>g, HeadTailFacts
<1>4. /\ functionIds' \in Seq(Function) /\ Len(functionIds') = n + 1 /\ n \in Nat \ {0}
      /\ \A f \in 1..n : functionIds'[f] = functionIds[f]
      /\ functionIds'[n + 1] = g
      /\ Elements(functionIds') = Elements(functionIds) \cup {g}
      /\ Distinct(functionIds')
  BY <1>1, <1>2, <1>3, AppendFacts, AppendDistinct, <1>0
<1>5. /\ file' \in Seq(Seq({Number, "string", "function"})) /\ Len(file') = n + 1
      /\ \A f \in 1..n : file'[f] = file[f]
      /\ file'[n + 1] = <<>>
  <2>1. <<>> \in Seq({Number, "string", "function"})
    OBVIOUS
  <2> QED
    BY <1>1, <1>2, <2>1, AppendFacts, <1>0
<1>6. Queues'
  BY <1>1, <1>2, <1>3, <1>4 DEF WInv, Queues
<1>7. \A f \in 1..n : Original(f)' = Original(f) /\ \A i : Const(f, i)' = Const(f, i)
  BY <1>1, <1>4 DEF Original, Const
<1>8. Len(file[n]) = Len(Original(n))
  <2>1. ~(Len(file[n]) < Len(Original(n)))
    BY <1>0, <1>1, <1>2 DEF MoreConstants, Written, Writing, Original
  <2>2. Len(file[n]) \in Nat /\ Len(file[n]) <= Len(Original(n))
        /\ Original(n) \in Seq(Function \cup String \cup {Number})
    BY <1>0, <1>2, <1>4, ScriptFacts DEF WInv, Lengths
  <2> QED
    BY <2>1, <2>2
<1>9. Original(n + 1)' \in Seq(Function \cup String \cup {Number})
  <2>1. constants \in [Function -> Seq(Function \cup String \cup {Number})]
    BY DEF WInv, Queues, BinaryAssumption
  <2> QED
    BY <1>1, <1>3, <1>4, <2>1 DEF Original
<1>10. Lengths'
  <2> SUFFICES ASSUME NEW f \in 1..(n + 1)
               PROVE  /\ Len(file'[f]) <= Len(Original(f)')
                      /\ f < n + 1 => Len(file'[f]) = Len(Original(f)')
    BY <1>4, <1>5 DEF Lengths
  <2>1. CASE f = n + 1
    BY <1>4, <1>5, <1>9, <2>1
  <2>2. CASE f = n
    BY <1>0, <1>4, <1>5, <1>7, <1>8, <2>2 DEF WInv, Lengths
  <2>3. CASE f \in 1..n /\ f # n
    <3>1. Len(file[f]) = Len(Original(f)) /\ Len(file[f]) <= Len(Original(f))
      BY <1>0, <1>4, <2>3 DEF WInv, Lengths
    <3> QED
      BY <1>5, <1>7, <2>3, <3>1
  <2> QED
    BY <1>4, <2>1, <2>2, <2>3
<1>11. \A f \in 1..(n + 1) : \A i \in 1..Len(file'[f]) : f \in 1..n /\ i \in 1..Len(file[f])
  <2> SUFFICES ASSUME NEW f \in 1..(n + 1), NEW i \in 1..Len(file'[f])
               PROVE  f \in 1..n /\ i \in 1..Len(file[f])
    OBVIOUS
  <2>1. ASSUME f = n + 1 PROVE FALSE
    <3>1. Len(file'[f]) = 0
      BY <1>5, <2>1
    <3> QED
      BY <3>1
  <2>2. f \in 1..n
    BY <1>4, <2>1
  <2> QED
    BY <1>5, <2>2
<1>12. \A f \in 1..n : f \in 1..(n + 1)
  BY <1>4
<1>13. Met'
  <2>1. \A f \in 1..n : \A i \in 1..Len(file[f]) :
          /\ Const(f, i) \in Function =>
               Const(f, i) \in Elements(functionIds) \cup Elements(functionQueue)
          /\ Const(f, i) \in String => Const(f, i) \in Elements(stringIds)
    BY <1>0 DEF WInv, Met
  <2>2. \A q \in Elements(functionIds) \cup Elements(functionQueue) :
          q # Script => \E f \in 1..n : \E i \in 1..Len(file[f]) : Const(f, i) = q
    BY <1>0 DEF WInv, Met
  <2>3. Elements(functionIds') \cup Elements(functionQueue')
          = Elements(functionIds) \cup Elements(functionQueue)
    BY <1>3, <1>4
  <2>4. \A f \in 1..(n + 1) : \A i \in 1..Len(file'[f]) :
          /\ Const(f, i)' \in Function =>
               Const(f, i)' \in Elements(functionIds') \cup Elements(functionQueue')
          /\ Const(f, i)' \in String => Const(f, i)' \in Elements(stringIds)
    BY <1>7, <1>11, <2>1, <2>3
  <2>5. \A q \in Elements(functionIds') \cup Elements(functionQueue') :
          q # Script => \E f \in 1..(n + 1) : \E i \in 1..Len(file'[f]) : Const(f, i)' = q
    BY <1>5, <1>7, <1>12, <2>2, <2>3
  <2>6. /\ \A f \in 1..Len(file') : \A i \in 1..Len(file'[f]) :
             /\ Const(f, i)' \in Function =>
                  Const(f, i)' \in Elements(functionIds') \cup Elements(functionQueue')
             /\ Const(f, i)' \in String => Const(f, i)' \in Elements(stringIds')
        /\ \A q \in Elements(functionIds') \cup Elements(functionQueue') :
             q # Script => \E f \in 1..Len(file') : \E i \in 1..Len(file'[f]) : Const(f, i)' = q
    BY <1>1, <1>5, <2>4, <2>5
  <2> QED
    BY <2>6 DEF Met, Elements
<1>14. RoomsLeft'
  <2>1. /\ filePatches \in Seq([value : Function \cup String, fn : Int, at : Int])
        /\ \A f \in 1..n : \A i \in 1..Len(file[f]) : file[f][i] = Empty(Const(f, i))
        /\ \A p \in Elements(filePatches) :
             /\ p.fn \in 1..n /\ p.at \in 1..Len(file[p.fn])
             /\ Const(p.fn, p.at) # Number /\ p.value = Const(p.fn, p.at)
        /\ \A f \in 1..n : \A i \in 1..Len(file[f]) : Const(f, i) # Number =>
             \E p \in Elements(filePatches) : p.fn = f /\ p.at = i
    BY <1>0 DEF WInv, RoomsLeft
  <2>2. \A f \in 1..(n + 1) : \A i \in 1..Len(file'[f]) : file'[f][i] = Empty(Const(f, i)')
    <3> SUFFICES ASSUME NEW f \in 1..(n + 1), NEW i \in 1..Len(file'[f])
                 PROVE  file'[f][i] = Empty(Const(f, i)')
      OBVIOUS
    <3>1. f \in 1..n /\ i \in 1..Len(file[f])
      BY <1>11
    <3>2. file'[f] = file[f] /\ Const(f, i)' = Const(f, i) /\ file[f][i] = Empty(Const(f, i))
      BY <1>5, <1>7, <2>1, <3>1
    <3> QED
      BY <3>2
  <2>3. \A p \in Elements(filePatches) :
          /\ p.fn \in 1..(n + 1) /\ p.at \in 1..Len(file'[p.fn])
          /\ Const(p.fn, p.at)' # Number /\ p.value = Const(p.fn, p.at)'
    <3> SUFFICES ASSUME NEW p \in Elements(filePatches)
                 PROVE  /\ p.fn \in 1..(n + 1) /\ p.at \in 1..Len(file'[p.fn])
                        /\ Const(p.fn, p.at)' # Number /\ p.value = Const(p.fn, p.at)'
      OBVIOUS
    <3>1. /\ p.fn \in 1..n /\ p.at \in 1..Len(file[p.fn])
          /\ Const(p.fn, p.at) # Number /\ p.value = Const(p.fn, p.at)
      BY <2>1
    <3> DEFINE f == p.fn
               i == p.at
    <3>2. f \in 1..n
      BY <3>1
    <3> HIDE DEF f, i
    <3>3. file'[f] = file[f] /\ Const(f, i)' = Const(f, i) /\ f \in 1..(n + 1)
      BY <1>5, <1>7, <1>12, <3>2
    <3> QED
      BY <3>1, <3>3 DEF f, i
  <2>4. \A f \in 1..(n + 1) : \A i \in 1..Len(file'[f]) : Const(f, i)' # Number =>
          \E p \in Elements(filePatches) : p.fn = f /\ p.at = i
    BY <1>7, <1>11, <2>1
  <2>5. /\ file' \in Seq(Seq({Number, "string", "function"}))
        /\ filePatches' \in Seq([value : Function \cup String, fn : Int, at : Int])
        /\ \A f \in 1..Len(file') : \A i \in 1..Len(file'[f]) : file'[f][i] = Empty(Const(f, i)')
        /\ \A p \in Elements(filePatches') :
             /\ p.fn \in 1..Len(file') /\ p.at \in 1..Len(file'[p.fn])
             /\ Const(p.fn, p.at)' # Number /\ p.value = Const(p.fn, p.at)'
        /\ \A f \in 1..Len(file') : \A i \in 1..Len(file'[f]) : Const(f, i)' # Number =>
             \E p \in Elements(filePatches') : p.fn = f /\ p.at = i
    BY <1>1, <1>5, <2>1, <2>2, <2>3, <2>4
  <2> QED
    BY <2>5 DEF RoomsLeft, Elements, Empty
<1> QED
  BY <1>1, <1>6, <1>10, <1>13, <1>14 DEF WInv

LEMMA FunctionIsSeq ==
  ASSUME NEW S, NEW n \in Nat, NEW f \in [1..n -> S]
  PROVE  f \in Seq(S) /\ Len(f) = n
OBVIOUS

(* When no function waits, all have been written. *)
LEMMA AllWritten ==
  ASSUME BinaryAssumption, Queues, Lengths, Met, Complete, functionQueue = <<>>
  PROVE  Elements(functionIds) = Function
<1> DEFINE S == Elements(functionIds)
<1>1. functionIds \in Seq(Function) /\ Len(functionIds) >= 1 /\ functionIds[1] = Script
      /\ Nested(constants) /\ Elements(functionQueue) = {}
  BY DEF Queues, BinaryAssumption, Elements
<1>2. S \in SUBSET Function /\ Script \in S
  BY <1>1 DEF Elements
<1>3. ASSUME NEW g \in S, NEW c \in Elements(constants[g]) \cap Function
      PROVE  c \in S
  <2>1. PICK f \in 1..Len(functionIds) : functionIds[f] = g
    BY DEF Elements
  <2>2. PICK i \in 1..Len(constants[g]) : constants[g][i] = c
    BY <1>3 DEF Elements
  <2>3. f \in 1..Len(file) /\ i \in 1..Len(file[f]) /\ Const(f, i) = c
    BY <2>1, <2>2 DEF Lengths, Complete, Original, Const
  <2> QED
    BY <1>1, <1>3, <2>3 DEF Met
<1>4. \A g \in S : Elements(constants[g]) \cap Function \subseteq S
  BY <1>3
<1> QED
  BY <1>1, <1>2, <1>4 DEF Nested

(* What an identifier in the file stands for *)
LEMMA FilledFacts ==
  ASSUME BinaryAssumption, Queues, Lengths, Met, functionQueue = <<>>,
         NEW f \in 1..Len(file), NEW i \in 1..Len(file[f]),
         Const(f, i) \in Function \cup String \cup {Number}
  PROVE  /\ Filled(Const(f, i)) \in [tag : {"number", "string", "function"}, id : Int]
         /\ Filled(Const(f, i)).tag = "number" <=> Const(f, i) = Number
         /\ Filled(Const(f, i)).tag = "string" =>
              /\ Const(f, i) \in String
              /\ Filled(Const(f, i)).id \in 0..(Len(stringIds) - 1)
              /\ stringIds[Filled(Const(f, i)).id + 1] = Const(f, i)
         /\ Filled(Const(f, i)).tag = "function" =>
              /\ Const(f, i) \in Function
              /\ Filled(Const(f, i)).id \in 0..(Len(functionIds) - 1)
              /\ Filled(Const(f, i)).id = Id(functionIds, Const(f, i))
<1> DEFINE c == Const(f, i)
<1>1. /\ c \in Function => c \in Elements(functionIds)
      /\ c \in String => c \in Elements(stringIds)
  BY DEF Met, Elements
<1>2. /\ functionIds \in Seq(Function) /\ stringIds \in Seq(String)
      /\ Number \notin Function \cup String /\ Function \cap String = {}
  BY DEF Queues, BinaryAssumption
<1> HIDE DEF c
<1>3. CASE c = Number
  BY <1>2, <1>3 DEF Filled, c
<1>4. CASE c \in String
  <2>1. Id(stringIds, c) \in 0..(Len(stringIds) - 1) /\ stringIds[Id(stringIds, c) + 1] = c
    BY <1>1, <1>2, <1>4, IdFacts
  <2>2. Filled(c) = [tag |-> "string", id |-> Id(stringIds, c)] /\ c # Number
    BY <1>2, <1>4 DEF Filled
  <2>3. Id(stringIds, c) \in Int
    BY <1>2, <2>1
  <2> QED
    BY <1>4, <2>1, <2>2, <2>3 DEF c
<1>5. CASE c \in Function
  <2>1. Id(functionIds, c) \in 0..(Len(functionIds) - 1)
    BY <1>1, <1>2, <1>5, IdFacts
  <2>2. Filled(c) = [tag |-> "function", id |-> Id(functionIds, c)] /\ c # Number
    BY <1>2, <1>5 DEF Filled
  <2>3. Id(functionIds, c) \in Int
    BY <1>2, <2>1
  <2> QED
    BY <1>5, <2>1, <2>2, <2>3 DEF c
<1> QED
  BY <1>3, <1>4, <1>5 DEF c

LEMMA WriteStringsKeeps ==
  ASSUME BinaryAssumption, WInv, WriteStrings
  PROVE  BInv'
<1>1. /\ phase = "write" /\ ~MoreConstants /\ functionQueue = <<>>
      /\ fileStrings' = stringQueue /\ stringQueue' = <<>> /\ phase' = "patchFile"
      /\ UNCHANGED <<constants, functionQueue, functionIds, stringIds, file, filePatches,
                     functions, patchList>>
  BY DEF WriteStrings, loadVars
<1>2. Queues'
  BY <1>1 DEF WInv, Queues
<1>3. Lengths' /\ Met' /\ RoomsLeft'
  <2>1. Lengths'
    BY <1>1 DEF WInv, Lengths, Original
  <2>2. Met'
    BY <1>1 DEF WInv, Met, Elements, Original, Const
  <2>3. RoomsLeft'
    BY <1>1 DEF WInv, RoomsLeft, Elements, Empty, Original, Const
  <2> QED
    BY <2>1, <2>2, <2>3
<1>4. Complete
  <2> SUFFICES ASSUME NEW f \in 1..Len(file) PROVE Len(file[f]) = Len(Original(f))
    BY DEF Complete
  <2>1. /\ Len(file) = Len(functionIds) /\ Len(file) \in Nat
        /\ file \in Seq(Seq({Number, "string", "function"}))
        /\ Original(f) \in Seq(Function \cup String \cup {Number})
    BY ScriptFacts DEF WInv, Lengths, RoomsLeft
  <2>2. CASE f < Len(file)
    BY <2>2 DEF WInv, Lengths
  <2>3. CASE f = Len(file)
    <3>1. ~(Len(file[f]) < Len(Original(f)))
      BY <1>1, <2>1, <2>3 DEF MoreConstants, Written, Writing, Original
    <3>2. Len(file[f]) <= Len(Original(f))
      BY DEF WInv, Lengths
    <3> QED
      BY <2>1, <3>1, <3>2
  <2> QED
    BY <2>1, <2>2, <2>3
<1>5. Complete'
  BY <1>1, <1>4 DEF Complete, Original
<1> QED
  BY <1>1, <1>2, <1>3, <1>5 DEF BInv, WInv

(* Every room is filled in with the identifier of what stands there. *)
LEMMA PatchFileRefsKeeps ==
  ASSUME BinaryAssumption, BInv, PatchFileRefs
  PROVE  BInv'
<1> DEFINE E(f, i) ==
       IF \E p \in Elements(filePatches) : p.fn = f /\ p.at = i
       THEN LET p == CHOOSE p \in Elements(filePatches) : p.fn = f /\ p.at = i
                ids == IF file[f][i] = "function" THEN functionIds ELSE stringIds IN
            [tag |-> file[f][i], id |-> Id(ids, p.value)]
       ELSE [tag |-> "number", id |-> 0]
    entries == [tag : {"number", "string", "function"}, id : Int]
<1>1. /\ phase = "patchFile" /\ phase' = "loadFunctions"
      /\ file' = [f \in 1..Len(file) |-> [i \in 1..Len(file[f]) |-> E(f, i)]]
      /\ UNCHANGED <<constants, functionQueue, stringQueue, functionIds, stringIds, filePatches,
                     fileStrings, functions, patchList>>
  BY DEF PatchFileRefs, queueVars, loadVars
<1>2. /\ Queues /\ Lengths /\ Met /\ RoomsLeft /\ Complete /\ fileStrings = stringIds
      /\ functionQueue = <<>> /\ functions = <<>> /\ patchList = <<>>
  BY <1>1 DEF BInv
<1>3. Elements(functionIds) = Function
  BY <1>2, AllWritten
<1>4. ASSUME NEW f \in 1..Len(file), NEW i \in 1..Len(file[f])
      PROVE  Const(f, i) \in Function \cup String \cup {Number}
  BY <1>2, ScriptFacts DEF Complete, Lengths
<1>5. ASSUME NEW f \in 1..Len(file), NEW i \in 1..Len(file[f])
      PROVE  E(f, i) = Filled(Const(f, i)) /\ Filled(Const(f, i)) \in entries
  <2> DEFINE q == CHOOSE p \in Elements(filePatches) : p.fn = f /\ p.at = i
  <2>1. Const(f, i) \in Function \cup String \cup {Number}
    BY <1>4
  <2>2. Filled(Const(f, i)) \in entries
    BY <1>2, <2>1, FilledFacts
  <2>3. file[f][i] = Empty(Const(f, i))
    BY <1>2 DEF RoomsLeft
  <2>4. CASE Const(f, i) = Number
    <3>1. ~ \E p \in Elements(filePatches) : p.fn = f /\ p.at = i
      BY <1>2, <2>4 DEF RoomsLeft
    <3>2. E(f, i) = [tag |-> "number", id |-> 0]
      BY <3>1
    <3> QED
      BY <2>2, <2>4, <3>2 DEF Filled
  <2>5. CASE Const(f, i) # Number
    <3>1. \E p \in Elements(filePatches) : p.fn = f /\ p.at = i
      BY <1>2, <2>5 DEF RoomsLeft
    <3>2. q \in Elements(filePatches) /\ q.fn = f /\ q.at = i
      BY <3>1
    <3>3. E(f, i) = [tag |-> file[f][i],
                     id |-> Id(IF file[f][i] = "function" THEN functionIds ELSE stringIds,
                               q.value)]
      BY <3>1
    <3> HIDE DEF q
    <3>4. q.value = Const(f, i)
      BY <1>2, <3>2 DEF RoomsLeft
    <3>5. Number \notin Function \cup String /\ Function \cap String = {}
      BY DEF BinaryAssumption
    <3>6. CASE Const(f, i) \in String
      BY <2>2, <2>3, <2>5, <3>3, <3>4, <3>6 DEF Filled, Empty
    <3>7. CASE Const(f, i) \in Function
      BY <2>2, <2>3, <2>5, <3>3, <3>4, <3>5, <3>7 DEF Filled, Empty
    <3> QED
      BY <2>1, <2>5, <3>6, <3>7
  <2> QED
    BY <2>4, <2>5
<1> HIDE DEF E, entries
<1>6. /\ Len(file) \in Nat /\ \A f \in 1..Len(file) : Len(file[f]) \in Nat
  <2>1. file \in Seq(Seq({Number, "string", "function"}))
    BY <1>2 DEF RoomsLeft
  <2> QED
    BY <2>1
<1>7. \A f \in 1..Len(file) : /\ file'[f] \in Seq(entries) /\ Len(file'[f]) = Len(file[f])
                              /\ \A i \in 1..Len(file[f]) : file'[f][i] = Filled(Const(f, i))
  <2> SUFFICES ASSUME NEW f \in 1..Len(file)
               PROVE  /\ file'[f] \in Seq(entries) /\ Len(file'[f]) = Len(file[f])
                      /\ \A i \in 1..Len(file[f]) : file'[f][i] = Filled(Const(f, i))
    OBVIOUS
  <2>1. file'[f] = [i \in 1..Len(file[f]) |-> E(f, i)]
    BY <1>1
  <2>2. \A i \in 1..Len(file[f]) : E(f, i) = Filled(Const(f, i)) /\ E(f, i) \in entries
    BY <1>5
  <2>3. file'[f] \in [1..Len(file[f]) -> entries]
    BY <2>1, <2>2
  <2>4. Len(file[f]) \in Nat
    BY <1>6
  <2>5. file'[f] \in Seq(entries) /\ Len(file'[f]) = Len(file[f])
    BY <2>3, <2>4, FunctionIsSeq
  <2> QED
    BY <2>1, <2>2, <2>5
<1>8. file' \in Seq(Seq(entries)) /\ Len(file') = Len(file)
  <2>1. file' \in [1..Len(file) -> Seq(entries)]
    BY <1>1, <1>7
  <2> QED
    BY <1>6, <2>1, FunctionIsSeq
<1>9. \A f, i : Original(f)' = Original(f) /\ Const(f, i)' = Const(f, i)
                /\ Filled(Const(f, i))' = Filled(Const(f, i))
  BY <1>1 DEF Const, Original, Filled
<1>10. Queues'
  BY <1>1, <1>2 DEF Queues
<1>11. Lengths' /\ Complete'
  BY <1>1, <1>2, <1>7, <1>8, <1>9 DEF Lengths, Complete
<1>12. Met'
  <2>1. /\ \A f \in 1..Len(file') : \A i \in 1..Len(file'[f]) :
             /\ Const(f, i)' \in Function =>
                  Const(f, i)' \in Elements(functionIds') \cup Elements(functionQueue')
             /\ Const(f, i)' \in String => Const(f, i)' \in Elements(stringIds')
        /\ \A g \in Elements(functionIds') \cup Elements(functionQueue') :
             g # Script => \E f \in 1..Len(file') : \E i \in 1..Len(file'[f]) : Const(f, i)' = g
    BY <1>1, <1>2, <1>7, <1>8, <1>9 DEF Met
  <2> QED
    BY <2>1 DEF Met, Elements
<1>13. FileReady'
  <2>1. \A f \in 1..Len(file') : \A i \in 1..Len(file'[f]) : file'[f][i] = Filled(Const(f, i))'
    BY <1>7, <1>8, <1>9
  <2>2. Elements(functionIds)' = Function
    BY <1>1, <1>3 DEF Elements
  <2> QED
    BY <1>1, <1>2, <1>8, <1>11, <2>1, <2>2 DEF FileReady, entries
<1>14. Loadings'
  <2>1. functions' = <<>> /\ patchList' = <<>> /\ Elements(patchList)' = {} /\ Len(functions') = 0
    BY <1>1, <1>2 DEF Elements
  <2> QED
    BY <1>6, <1>8, <2>1 DEF Loadings
<1> QED
  BY <1>1, <1>2, <1>10, <1>11, <1>12, <1>13, <1>14 DEF BInv

-----------------------------------------------------------------------------
(* loadBinary *)

(* while it loads *)
LInv ==
  /\ Queues /\ Lengths /\ Met /\ FileReady /\ Loadings /\ functionQueue = <<>>

LEMMA Loading1 == BInv /\ phase \in {"loadFunctions", "patch", "failed", "loaded"} => LInv
BY DEF BInv, LInv

(* The file is as it was written. *)
LEMMA FileStays ==
  ASSUME LInv, UNCHANGED <<constants, queueVars, fileVars>>
  PROVE  /\ Queues' /\ Lengths' /\ Met' /\ FileReady' /\ functionQueue' = <<>>
         /\ \A f, i : Const(f, i)' = Const(f, i) /\ PatchOf(f, i)' = PatchOf(f, i)
                      /\ Final(Const(f, i))' = Final(Const(f, i))
<1>1. UNCHANGED <<constants, functionQueue, stringQueue, functionIds, stringIds,
                  file, filePatches, fileStrings>>
  BY DEF queueVars, fileVars
<1>2. Queues'
  BY <1>1 DEF LInv, Queues
<1>3. Lengths'
  BY <1>1 DEF LInv, Lengths, Original
<1>4. Met'
  BY <1>1 DEF LInv, Met, Elements, Original, Const
<1>5. FileReady'
  <2>1. FileReady
    BY DEF LInv
  <2>2. Complete'
    BY <1>1, <2>1 DEF FileReady, Complete, Original
  <2>3. \A f, i : Filled(Const(f, i))' = Filled(Const(f, i))
    BY <1>1 DEF Filled, Original, Const
  <2>4. Elements(functionIds)' = Function
    BY <1>1, <2>1 DEF FileReady, Elements
  <2> QED
    BY <1>1, <2>1, <2>2, <2>3, <2>4 DEF FileReady
<1>6. \A f, i : Const(f, i)' = Const(f, i)
  BY <1>1 DEF Original, Const
<1>7. \A f, i : PatchOf(f, i)' = PatchOf(f, i)
  BY <1>1 DEF PatchOf, Filled, Original, Const
<1>8. \A f, i : Final(Const(f, i))' = Final(Const(f, i))
  BY <1>1 DEF Final, Original, Const
<1> QED
  BY <1>1, <1>2, <1>3, <1>4, <1>5, <1>6, <1>7, <1>8 DEF LInv

(* A constant of the file is one of the script. *)
LEMMA FileFacts ==
  ASSUME BinaryAssumption, LInv
  PROVE  /\ file \in Seq(Seq([tag : {"number", "string", "function"}, id : Int]))
         /\ Len(file) = Len(functionIds)
         /\ \A f \in 1..Len(file) : \A i \in 1..Len(file[f]) :
              /\ Const(f, i) \in Function \cup String \cup {Number}
              /\ file[f][i] = Filled(Const(f, i))
<1>1. /\ Len(file) = Len(functionIds) /\ \A f \in 1..Len(file) : Len(file[f]) = Len(Original(f))
  BY DEF LInv, Lengths, FileReady, Complete
<1>2. /\ file \in Seq(Seq([tag : {"number", "string", "function"}, id : Int]))
      /\ \A f \in 1..Len(file) : \A i \in 1..Len(file[f]) : file[f][i] = Filled(Const(f, i))
  BY DEF LInv, FileReady
<1>3. \A f \in 1..Len(file) : \A i \in 1..Len(file[f]) :
        Const(f, i) \in Function \cup String \cup {Number}
  BY <1>1, ScriptFacts DEF LInv
<1> QED
  BY <1>1, <1>2, <1>3

Values == Int \cup String \cup {Number, Nil}
Patches == [toPatch : Int, patchWith : Int, position : Int, type : {"function", "string"}]

(* What has been loaded of each function, and the constants of it that     *)
(* wait; kept apart from the types of the arrays *)
Placed(fns, patches) ==
  /\ Len(fns) <= Len(file)
  /\ \A f \in 1..Len(fns) :
       /\ Len(fns[f]) <= Len(file[f])
       /\ f < Len(fns) => Len(fns[f]) = Len(file[f])
  /\ \A p \in patches :
       \E f \in 1..Len(fns) : \E i \in 1..Len(fns[f]) : Const(f, i) # Number /\ p = PatchOf(f, i)
  /\ \A f \in 1..Len(fns) : \A i \in 1..Len(fns[f]) :
       fns[f][i] = Final(Const(f, i)) \/ PatchOf(f, i) \in patches

LEMMA LoadingsPlaced ==
  Loadings <=> /\ functions \in Seq(Seq(Values)) /\ patchList \in Seq(Patches)
               /\ Placed(functions, Elements(patchList))
<1>1. Loadings => /\ functions \in Seq(Seq(Values)) /\ patchList \in Seq(Patches)
                  /\ Placed(functions, Elements(patchList))
  BY DEF Loadings, Placed, Values, Patches
<1>2. functions \in Seq(Seq(Values)) /\ patchList \in Seq(Patches)
      /\ Placed(functions, Elements(patchList)) => Loadings
  BY DEF Loadings, Placed, Values, Patches
<1> QED
  BY <1>1, <1>2

(* A next state with the same file, and such arrays in it *)
LEMMA LoadingsNext ==
  ASSUME BinaryAssumption, LInv, UNCHANGED <<constants, queueVars, fileVars>>,
         functions' \in Seq(Seq(Values)), patchList' \in Seq(Patches),
         Placed(functions', Elements(patchList'))
  PROVE  Loadings'
<1>1. /\ \A f, i : Const(f, i)' = Const(f, i) /\ PatchOf(f, i)' = PatchOf(f, i)
                   /\ Final(Const(f, i))' = Final(Const(f, i))
      /\ file' = file
  BY FileStays DEF fileVars
<1>2. /\ functions' \in Seq(Seq(Values)) /\ Len(functions') <= Len(file')
      /\ \A f \in 1..Len(functions') :
           /\ Len(functions'[f]) <= Len(file'[f])
           /\ f < Len(functions') => Len(functions'[f]) = Len(file'[f])
      /\ patchList' \in Seq(Patches)
      /\ \A p \in Elements(patchList') :
           \E f \in 1..Len(functions') : \E i \in 1..Len(functions'[f]) :
             Const(f, i)' # Number /\ p = PatchOf(f, i)'
      /\ \A f \in 1..Len(functions') : \A i \in 1..Len(functions'[f]) :
           \/ functions'[f][i] = Final(Const(f, i))'
           \/ \E p \in Elements(patchList') : p = PatchOf(f, i)'
  BY <1>1 DEF Placed
<1> QED
  BY <1>2 DEF Loadings, Values, Patches, Elements

LEMMA LoadFunctionKeeps ==
  ASSUME BinaryAssumption, BInv, LoadFunction
  PROVE  BInv'
<1>1. /\ phase = "loadFunctions" /\ phase' = phase /\ ~MoreEntries /\ Loading < Len(file)
      /\ functions' = Append(functions, <<>>) /\ patchList' = patchList
      /\ UNCHANGED <<constants, queueVars, fileVars>>
  BY DEF LoadFunction
<1>2. LInv
  BY <1>1, Loading1
<1>3. /\ functions \in Seq(Seq(Values)) /\ patchList \in Seq(Patches)
      /\ Placed(functions, Elements(patchList))
  BY <1>2, LoadingsPlaced DEF LInv
<1>4. PICK n : n = Len(functions)
  OBVIOUS
<1>5. /\ functions' \in Seq(Seq(Values)) /\ Len(functions') = n + 1 /\ n \in Nat
      /\ \A f \in 1..n : functions'[f] = functions[f]
      /\ functions'[n + 1] = <<>>
  <2>1. <<>> \in Seq(Values)
    OBVIOUS
  <2> QED
    BY <1>1, <1>3, <1>4, <2>1, AppendFacts
<1>6. file \in Seq(Seq([tag : {"number", "string", "function"}, id : Int])) /\ n < Len(file)
  BY <1>1, <1>2, <1>4, FileFacts DEF Loading
<1>7. n # 0 => Len(functions[n]) = Len(file[n])
  <2> SUFFICES ASSUME n # 0 PROVE Len(functions[n]) = Len(file[n])
    OBVIOUS
  <2>1. n \in 1..n /\ n \in 1..Len(file)
    <3>1. n \in Nat
      BY <1>5
    <3>2. Len(file) \in Nat /\ n < Len(file)
      BY <1>6
    <3> QED
      BY <3>1, <3>2
  <2>2. Len(functions[n]) \in Nat /\ Len(file[n]) \in Nat
    BY <1>3, <1>4, <1>6, <2>1
  <2>3. Len(functions[n]) <= Len(file[n])
    BY <1>3, <1>4, <2>1 DEF Placed
  <2>4. ~(Len(functions[n]) < Len(file[n]))
    BY <1>1, <1>4 DEF MoreEntries, Loading, Loaded
  <2> QED
    BY <2>2, <2>3, <2>4
<1>8. \A f \in 1..(n + 1) : \A i \in 1..Len(functions'[f]) : f \in 1..n /\ i \in 1..Len(functions[f])
  <2> SUFFICES ASSUME NEW f \in 1..(n + 1), NEW i \in 1..Len(functions'[f])
               PROVE  f \in 1..n /\ i \in 1..Len(functions[f])
    OBVIOUS
  <2>1. ASSUME f = n + 1 PROVE FALSE
    <3>1. Len(functions'[f]) = 0
      BY <1>5, <2>1
    <3> QED
      BY <3>1
  <2>2. f \in 1..n
    BY <1>5, <2>1
  <2> QED
    BY <1>5, <2>2
<1>9. Placed(functions', Elements(patchList'))
  <2>1. Len(functions') <= Len(file)
    BY <1>5, <1>6
  <2>2. \A f \in 1..(n + 1) : /\ Len(functions'[f]) <= Len(file[f])
                              /\ f < n + 1 => Len(functions'[f]) = Len(file[f])
    <3> SUFFICES ASSUME NEW f \in 1..(n + 1)
                 PROVE  /\ Len(functions'[f]) <= Len(file[f])
                        /\ f < n + 1 => Len(functions'[f]) = Len(file[f])
      OBVIOUS
    <3>1. Len(file[f]) \in Nat
      <4>2. Len(file) \in Nat /\ n < Len(file) /\ n \in Nat
        BY <1>5, <1>6
      <4>1. f \in 1..Len(file)
        BY <4>2
      <4> QED
        BY <1>6, <4>1
    <3>2. CASE f = n + 1
      BY <1>5, <3>1, <3>2
    <3>3. CASE f = n /\ n # 0
      BY <1>5, <1>7, <3>1, <3>3
    <3>4. CASE f \in 1..n /\ f # n
      <4>1. f < n
        BY <1>5, <3>4
      <4> QED
        BY <1>3, <1>4, <1>5, <3>1, <3>4, <4>1 DEF Placed
    <3> QED
      BY <1>5, <3>2, <3>3, <3>4
  <2>3. \A p \in Elements(patchList) :
          \E f \in 1..(n + 1) : \E i \in 1..Len(functions'[f]) :
            Const(f, i) # Number /\ p = PatchOf(f, i)
    <3>1. \A f \in 1..n : f \in 1..(n + 1)
      BY <1>5
    <3> QED
      BY <1>3, <1>4, <1>5, <3>1 DEF Placed
  <2>4. \A f \in 1..(n + 1) : \A i \in 1..Len(functions'[f]) :
          functions'[f][i] = Final(Const(f, i)) \/ PatchOf(f, i) \in Elements(patchList)
    <3> SUFFICES ASSUME NEW f \in 1..(n + 1), NEW i \in 1..Len(functions'[f])
                 PROVE  functions'[f][i] = Final(Const(f, i))
                        \/ PatchOf(f, i) \in Elements(patchList)
      OBVIOUS
    <3>1. f \in 1..n /\ i \in 1..Len(functions[f]) /\ functions'[f] = functions[f]
      BY <1>5, <1>8
    <3> QED
      BY <1>3, <1>4, <3>1 DEF Placed
  <2> QED
    BY <1>1, <1>5, <2>1, <2>2, <2>3, <2>4 DEF Placed
<1>10. Loadings'
  BY <1>1, <1>2, <1>3, <1>5, <1>9, LoadingsNext
<1> QED
  BY <1>1, <1>2, <1>10, FileStays DEF BInv

(* An identifier becomes NIL_VAL and a patch. *)
LEMMA LoadConstantKeeps ==
  ASSUME BinaryAssumption, BInv, LoadConstant
  PROVE  BInv'
<1>0. PICK n, w : n = Loading /\ w = Loaded
  OBVIOUS
<1>1. /\ phase = "loadFunctions" /\ phase' = phase /\ n # 0 /\ w < Len(file[n])
      /\ n = Len(functions) /\ w = Len(functions[n])
      /\ functions' = [functions EXCEPT
           ![n] = Append(@, IF file[n][w + 1].tag = "number" THEN Number ELSE Nil)]
      /\ patchList' = IF file[n][w + 1].tag = "number" THEN patchList
                      ELSE Append(patchList, [toPatch |-> n - 1, patchWith |-> file[n][w + 1].id,
                                              position |-> w + 1, type |-> file[n][w + 1].tag])
      /\ UNCHANGED <<constants, queueVars, fileVars>>
  BY <1>0 DEF LoadConstant, MoreEntries, Loading, Loaded, Entry
<1>2. LInv
  BY <1>1, Loading1
<1>3. /\ functions \in Seq(Seq(Values)) /\ patchList \in Seq(Patches)
      /\ Placed(functions, Elements(patchList))
  BY <1>2, LoadingsPlaced DEF LInv
<1>4. PICK c : c = Const(n, w + 1)
  OBVIOUS
<1>5. PICK v : v = IF file[n][w + 1].tag = "number" THEN Number ELSE Nil
  OBVIOUS
<1>6. functions # <<>> /\ v \in Values
  BY <1>1, <1>5 DEF Values
<1>7. /\ functions' \in Seq(Seq(Values)) /\ Len(functions') = n /\ n \in Nat \ {0} /\ w \in Nat
      /\ \A f \in 1..n : f # n => functions'[f] = functions[f]
      /\ Len(functions'[n]) = w + 1
      /\ \A i \in 1..w : functions'[n][i] = functions[n][i]
      /\ functions'[n][w + 1] = v
  <2>1. functions' = [functions EXCEPT ![n] = Append(@, v)]
    BY <1>1, <1>5
  <2> QED
    BY <1>1, <1>3, <1>6, <2>1, ExtendLast
<1>8. n \in 1..n /\ n \in 1..Len(file) /\ w + 1 \in 1..Len(file[n]) /\ Len(file[n]) \in Nat
  <2>1. n \in 1..n /\ n \in 1..Len(file)
    BY <1>1, <1>2, <1>3, <1>7, FileFacts DEF Placed
  <2>2. Len(file[n]) \in Nat
    BY <1>2, <2>1, FileFacts
  <2> QED
    BY <1>1, <1>7, <2>1, <2>2
<1>9. c \in Function \cup String \cup {Number} /\ file[n][w + 1] = Filled(c)
  BY <1>2, <1>4, <1>8, FileFacts
<1>10. /\ Filled(c) \in [tag : {"number", "string", "function"}, id : Int]
       /\ Filled(c).tag = "number" <=> c = Number
  BY <1>2, <1>4, <1>8, <1>9, FilledFacts DEF LInv
<1>11. PatchOf(n, w + 1) = [toPatch |-> n - 1, patchWith |-> Filled(c).id,
                            position |-> w + 1, type |-> Filled(c).tag]
  BY <1>4 DEF PatchOf
<1>12. c # Number => PatchOf(n, w + 1) \in Patches
  BY <1>7, <1>10, <1>11 DEF Patches
<1>13. /\ patchList' \in Seq(Patches)
       /\ Elements(patchList') = IF c = Number THEN Elements(patchList)
                                 ELSE Elements(patchList) \cup {PatchOf(n, w + 1)}
  <2>1. CASE c = Number
    BY <1>1, <1>3, <1>9, <1>10, <2>1
  <2>2. CASE c # Number
    <3>1. PICK p : p = PatchOf(n, w + 1)
      OBVIOUS
    <3>2. patchList' = Append(patchList, p) /\ p \in Patches
      BY <1>1, <1>9, <1>10, <1>11, <1>12, <2>2, <3>1
    <3>3. /\ Append(patchList, p) \in Seq(Patches)
          /\ Elements(Append(patchList, p)) = Elements(patchList) \cup {p}
      BY <1>3, <3>2, AppendFacts
    <3> QED
      BY <2>2, <3>1, <3>2, <3>3
  <2> QED
    BY <2>1, <2>2
<1>14. \A f \in 1..n : \A i \in 1..Len(functions'[f]) :
          (i \in 1..Len(functions[f]) /\ functions'[f][i] = functions[f][i])
          \/ (f = n /\ i = w + 1)
  <2> SUFFICES ASSUME NEW f \in 1..n, NEW i \in 1..Len(functions'[f])
               PROVE  (i \in 1..Len(functions[f]) /\ functions'[f][i] = functions[f][i])
                      \/ (f = n /\ i = w + 1)
    OBVIOUS
  <2>1. CASE f = n
    BY <1>1, <1>7, <2>1
  <2>2. CASE f # n
    BY <1>7, <2>2
  <2> QED
    BY <2>1, <2>2
<1>15. \A f \in 1..n : \A i \in 1..Len(functions[f]) : i \in 1..Len(functions'[f])
  <2> SUFFICES ASSUME NEW f \in 1..n, NEW i \in 1..Len(functions[f])
               PROVE  i \in 1..Len(functions'[f])
    OBVIOUS
  <2>1. CASE f = n
    BY <1>1, <1>7, <2>1
  <2>2. CASE f # n
    BY <1>7, <2>2
  <2> QED
    BY <2>1, <2>2
<1>16. Placed(functions', Elements(patchList'))
  <2>1. Len(functions') <= Len(file)
    BY <1>1, <1>3, <1>7 DEF Placed
  <2>2. \A f \in 1..n : /\ Len(functions'[f]) <= Len(file[f])
                        /\ f < n => Len(functions'[f]) = Len(file[f])
    <3> SUFFICES ASSUME NEW f \in 1..n
                 PROVE  /\ Len(functions'[f]) <= Len(file[f])
                        /\ f < n => Len(functions'[f]) = Len(file[f])
      OBVIOUS
    <3>1. CASE f = n
      BY <1>7, <1>8, <3>1
    <3>2. CASE f # n
      BY <1>1, <1>3, <1>7, <3>2 DEF Placed
    <3> QED
      BY <3>1, <3>2
  <2>3. \A p \in Elements(patchList') :
          \E f \in 1..n : \E i \in 1..Len(functions'[f]) : Const(f, i) # Number /\ p = PatchOf(f, i)
    <3> SUFFICES ASSUME NEW p \in Elements(patchList')
                 PROVE  \E f \in 1..n : \E i \in 1..Len(functions'[f]) :
                          Const(f, i) # Number /\ p = PatchOf(f, i)
      OBVIOUS
    <3>1. CASE p \in Elements(patchList)
      BY <1>1, <1>3, <1>15, <3>1 DEF Placed
    <3>2. CASE c # Number /\ p = PatchOf(n, w + 1)
      <4>1. n \in 1..n /\ w + 1 \in 1..Len(functions'[n])
        BY <1>7, <1>8
      <4> QED
        BY <1>4, <3>2, <4>1
    <3> QED
      BY <1>13, <3>1, <3>2
  <2>4. \A f \in 1..n : \A i \in 1..Len(functions'[f]) :
          functions'[f][i] = Final(Const(f, i)) \/ PatchOf(f, i) \in Elements(patchList')
    <3> SUFFICES ASSUME NEW f \in 1..n, NEW i \in 1..Len(functions'[f])
                 PROVE  functions'[f][i] = Final(Const(f, i))
                        \/ PatchOf(f, i) \in Elements(patchList')
      OBVIOUS
    <3>1. CASE i \in 1..Len(functions[f]) /\ functions'[f][i] = functions[f][i]
      BY <1>1, <1>3, <1>13, <3>1 DEF Placed
    <3>2. CASE f = n /\ i = w + 1 /\ c = Number
      <4>1. functions'[f][i] = Number
        BY <1>5, <1>7, <1>9, <1>10, <3>2
      <4> QED
        BY <1>4, <3>2, <4>1 DEF Final
    <3>3. CASE f = n /\ i = w + 1 /\ c # Number
      BY <1>13, <3>3
    <3> QED
      BY <1>14, <3>1, <3>2, <3>3
  <2> QED
    BY <1>7, <2>1, <2>2, <2>3, <2>4 DEF Placed
<1>17. Loadings'
  BY <1>1, <1>2, <1>7, <1>13, <1>16, LoadingsNext
<1> QED
  BY <1>1, <1>2, <1>17, FileStays DEF BInv

LEMMA LoadStringsKeeps ==
  ASSUME BinaryAssumption, BInv, LoadStrings
  PROVE  BInv'
<1>1. /\ phase = "loadFunctions" /\ phase' = "patch" /\ ~MoreEntries /\ Loading = Len(file)
      /\ strings' = fileStrings /\ UNCHANGED <<functions, patchList>>
      /\ UNCHANGED <<constants, queueVars, fileVars>>
  BY DEF LoadStrings
<1>2. LInv
  BY <1>1, Loading1
<1>3. PICK n : n = Len(functions)
  OBVIOUS
<1>4. /\ functions \in Seq(Seq(Values)) /\ patchList \in Seq(Patches)
      /\ Placed(functions, Elements(patchList))
  BY <1>2, LoadingsPlaced DEF LInv
<1>5. \A f \in 1..n : Len(functions[f]) = Len(file[f])
  <2> SUFFICES ASSUME NEW f \in 1..n PROVE Len(functions[f]) = Len(file[f])
    OBVIOUS
  <2>1. n \in Nat /\ n = Len(file)
    BY <1>1, <1>3, <1>4 DEF Loading
  <2>2. CASE f < n
    BY <1>3, <1>4, <2>2 DEF Placed
  <2>3. CASE f = n
    <3>1. Len(functions[n]) \in Nat /\ Len(file[n]) \in Nat
      BY <1>2, <1>3, <1>4, <2>1, <2>3, FileFacts
    <3>2. Len(functions[n]) <= Len(file[n])
      BY <1>3, <1>4, <2>3 DEF Placed
    <3>3. ~(Len(functions[n]) < Len(file[n]))
      BY <1>1, <1>3, <2>1, <2>3 DEF MoreEntries, Loading, Loaded
    <3> QED
      BY <2>3, <3>1, <3>2, <3>3
  <2> QED
    BY <2>1, <2>2, <2>3
<1>6. Loadings'
  <2>1. functions' \in Seq(Seq(Values)) /\ patchList' \in Seq(Patches)
        /\ Placed(functions', Elements(patchList'))
    BY <1>1, <1>4
  <2> QED
    BY <1>1, <1>2, <2>1, LoadingsNext
<1>7. AllLoaded'
  BY <1>1, <1>2, <1>3, <1>5 DEF AllLoaded, LInv, FileReady, Loading, queueVars, fileVars
<1> QED
  BY <1>1, <1>2, <1>6, <1>7, FileStays DEF BInv

(* The patch puts the value where the file has its identifier. *)
LEMMA PatchFunctionRefKeeps ==
  ASSUME BinaryAssumption, BInv, PatchFunctionRef
  PROVE  BInv'
<1>0. PICK p : p = Head(patchList)
  OBVIOUS
<1>1. /\ phase = "patch" /\ phase' = phase /\ patchList # <<>> /\ patchList' = Tail(patchList)
      /\ functions' = [functions EXCEPT ![p.toPatch + 1][p.position] =
                         IF p.type = "function" THEN p.patchWith ELSE strings[p.patchWith + 1]]
      /\ strings' = strings /\ UNCHANGED <<constants, queueVars, fileVars>>
  BY <1>0 DEF PatchFunctionRef
<1>2. LInv /\ AllLoaded
  BY <1>1, Loading1 DEF BInv
<1>3. /\ functions \in Seq(Seq(Values)) /\ patchList \in Seq(Patches)
      /\ Placed(functions, Elements(patchList))
  BY <1>2, LoadingsPlaced DEF LInv
<1>4. /\ p \in Patches /\ patchList' \in Seq(Patches)
      /\ Elements(patchList) = Elements(patchList') \cup {p}
  BY <1>0, <1>1, <1>3, HeadTailFacts
<1>5. PICK f \in 1..Len(functions) :
        \E i \in 1..Len(functions[f]) : Const(f, i) # Number /\ p = PatchOf(f, i)
  BY <1>3, <1>4 DEF Placed
<1>6. PICK i \in 1..Len(functions[f]) : Const(f, i) # Number /\ p = PatchOf(f, i)
  BY <1>5
<1>7. PICK c : c = Const(f, i)
  OBVIOUS
<1>8. /\ Len(functions) = Len(file) /\ strings = stringIds /\ Len(functions[f]) = Len(file[f])
      /\ f \in 1..Len(file) /\ i \in 1..Len(file[f])
  BY <1>2, <1>6 DEF AllLoaded
<1>9. c \in Function \cup String \cup {Number}
  BY <1>2, <1>7, <1>8, FileFacts
<1>10. /\ Filled(c) \in [tag : {"number", "string", "function"}, id : Int]
       /\ Filled(c).tag = "number" <=> c = Number
       /\ Filled(c).tag = "string" =>
            c \in String /\ Filled(c).id \in 0..(Len(stringIds) - 1)
            /\ stringIds[Filled(c).id + 1] = c
       /\ Filled(c).tag = "function" =>
            c \in Function /\ Filled(c).id \in 0..(Len(functionIds) - 1)
            /\ Filled(c).id = Id(functionIds, c)
  BY <1>2, <1>7, <1>8, <1>9, FilledFacts DEF LInv
<1>11. /\ p.toPatch = f - 1 /\ p.position = i
       /\ p.patchWith = Filled(c).id /\ p.type = Filled(c).tag
  BY <1>6, <1>7 DEF PatchOf
<1>12. (IF p.type = "function" THEN p.patchWith ELSE strings[p.patchWith + 1]) = Final(c)
  <2>1. Number \notin Function \cup String /\ Function \cap String = {} /\ c # Number
    BY <1>6, <1>7 DEF BinaryAssumption
  <2>2. CASE Filled(c).tag = "function"
    <3>1. c \in Function /\ Filled(c).id = Id(functionIds, c)
      BY <1>10, <2>2
    <3>2. Final(c) = Id(functionIds, c)
      BY <2>1, <3>1 DEF Final
    <3> QED
      BY <1>11, <2>2, <3>1, <3>2
  <2>3. CASE Filled(c).tag = "string"
    <3>1. c \in String /\ stringIds[Filled(c).id + 1] = c
      BY <1>10, <2>3
    <3>2. Final(c) = c
      BY <2>1, <3>1 DEF Final
    <3> QED
      BY <1>8, <1>11, <2>3, <3>1, <3>2
  <2> QED
    BY <1>10, <2>1, <2>2, <2>3
<1>13. Final(c) \in Values
  <2>1. c \in Function => Id(functionIds, c) \in Int
    <3> SUFFICES ASSUME c \in Function PROVE Id(functionIds, c) \in Int
      OBVIOUS
    <3>1. functionIds \in Seq(Function) /\ c \in Elements(functionIds)
      BY <1>2 DEF LInv, Queues, FileReady
    <3>2. Id(functionIds, c) \in 0..(Len(functionIds) - 1)
      BY <3>1, IdFacts
    <3> QED
      BY <3>1, <3>2
  <2> QED
    BY <1>9, <2>1 DEF Final, Values
<1>14. functions' = [functions EXCEPT ![f] = [functions[f] EXCEPT ![i] = Final(c)]]
  <2>1. f \in Int /\ p.toPatch + 1 = f /\ p.position = i
    BY <1>11
  <2>2. functions' = [functions EXCEPT ![f][i] = Final(c)]
    BY <1>1, <1>12, <2>1
  <2> QED
    BY <2>2
<1>15. /\ functions' \in Seq(Seq(Values)) /\ Len(functions') = Len(functions)
       /\ \A g \in 1..Len(functions) :
            /\ Len(functions'[g]) = Len(functions[g])
            /\ \A j \in 1..Len(functions[g]) :
                 functions'[g][j] = IF g = f /\ j = i THEN Final(c) ELSE functions[g][j]
  <2>1. PICK x : x = [functions[f] EXCEPT ![i] = Final(c)]
    OBVIOUS
  <2>2. functions[f] \in Seq(Values)
    BY <1>3
  <2>3. /\ x \in Seq(Values) /\ Len(x) = Len(functions[f])
        /\ \A j \in 1..Len(functions[f]) : x[j] = IF j = i THEN Final(c) ELSE functions[f][j]
    BY <1>13, <2>1, <2>2, ExceptSeq
  <2>4. functions' = [functions EXCEPT ![f] = x]
    BY <1>14, <2>1
  <2>5. /\ functions' \in Seq(Seq(Values)) /\ Len(functions') = Len(functions)
        /\ \A g \in 1..Len(functions) : functions'[g] = IF g = f THEN x ELSE functions[g]
    BY <1>3, <2>3, <2>4, ExceptSeq
  <2> QED
    BY <2>3, <2>5
<1>16. \A q \in Elements(patchList) :
         \E g \in 1..Len(functions) : \E j \in 1..Len(functions[g]) :
           Const(g, j) # Number /\ q = PatchOf(g, j)
  BY <1>3 DEF Placed
<1>17. Placed(functions', Elements(patchList'))
  <2>1. /\ Len(functions') <= Len(file)
        /\ \A g \in 1..Len(functions') :
             /\ Len(functions'[g]) <= Len(file[g])
             /\ g < Len(functions') => Len(functions'[g]) = Len(file[g])
    BY <1>3, <1>15 DEF Placed
  <2>2. \A q \in Elements(patchList') :
          \E g \in 1..Len(functions') : \E j \in 1..Len(functions'[g]) :
            Const(g, j) # Number /\ q = PatchOf(g, j)
    BY <1>4, <1>15, <1>16
  <2>3. \A g \in 1..Len(functions') : \A j \in 1..Len(functions'[g]) :
          functions'[g][j] = Final(Const(g, j)) \/ PatchOf(g, j) \in Elements(patchList')
    <3> SUFFICES ASSUME NEW g \in 1..Len(functions'), NEW j \in 1..Len(functions'[g]),
                        PatchOf(g, j) \notin Elements(patchList')
                 PROVE  functions'[g][j] = Final(Const(g, j))
      OBVIOUS
    <3>1. g \in 1..Len(functions) /\ j \in 1..Len(functions[g])
      BY <1>15
    <3>2. CASE g = f /\ j = i
      BY <1>7, <1>15, <3>1, <3>2
    <3>3. CASE ~(g = f /\ j = i)
      <4>1. PatchOf(g, j) # p
        <5>1. PatchOf(g, j).toPatch = g - 1 /\ PatchOf(g, j).position = j
          BY DEF PatchOf
        <5>2. PatchOf(f, i).toPatch = f - 1 /\ PatchOf(f, i).position = i
          BY DEF PatchOf
        <5>3. g \in Int /\ f \in Int
          BY <3>1
        <5> QED
          BY <1>6, <3>3, <5>1, <5>2, <5>3
      <4>2. functions[g][j] = Final(Const(g, j))
        BY <1>3, <1>4, <3>1, <4>1 DEF Placed
      <4> QED
        BY <1>15, <3>1, <3>3, <4>2
    <3> QED
      BY <3>2, <3>3
  <2> QED
    BY <2>1, <2>2, <2>3 DEF Placed
<1>18. Loadings'
  BY <1>1, <1>2, <1>4, <1>15, <1>17, LoadingsNext
<1>19. AllLoaded'
  BY <1>1, <1>2, <1>15 DEF AllLoaded, queueVars, fileVars
<1> QED
  BY <1>1, <1>2, <1>18, <1>19, FileStays DEF BInv

LEMMA LoadedStays ==
  ASSUME BinaryAssumption, BInv, phase \in {"patch", "failed", "loaded"},
         UNCHANGED <<constants, queueVars, fileVars, loadVars>>
  PROVE  LInv' /\ AllLoaded' /\ patchList' = patchList
<1>1. LInv /\ AllLoaded
  BY Loading1 DEF BInv
<1>2. /\ UNCHANGED <<constants, queueVars, fileVars>>
      /\ UNCHANGED <<functions, strings, patchList>>
  BY DEF loadVars
<1>3. /\ functions' \in Seq(Seq(Values)) /\ patchList' \in Seq(Patches)
      /\ Placed(functions', Elements(patchList'))
  BY <1>1, <1>2, LoadingsPlaced DEF LInv
<1>4. Loadings'
  BY <1>1, <1>2, <1>3, LoadingsNext
<1>5. AllLoaded'
  BY <1>1, <1>2 DEF AllLoaded, queueVars, fileVars
<1> QED
  BY <1>1, <1>2, <1>4, <1>5, FileStays DEF LInv

LEMMA NextKeepsBInv == BinaryAssumption /\ BInv /\ [BinaryNext]_BinaryVars => BInv'
<1> SUFFICES ASSUME BinaryAssumption, BInv, [BinaryNext]_BinaryVars PROVE BInv'
  OBVIOUS
<1>1. ASSUME WriteNumber \/ WriteString \/ WriteFunctionRef \/ NextFunction PROVE BInv'
  <2>1. phase = "write" /\ phase' = "write"
    BY <1>1
       DEF WriteNumber, WriteString, WriteFunctionRef, NextFunction, MoreConstants,
           WriteEntry
  <2>2. WInv
    BY <2>1, Writing1
  <2>3. WInv'
    BY <1>1, <2>2, WriteNumberKeeps, WriteStringKeeps, WriteFunctionRefKeeps,
       NextFunctionKeeps
  <2>4. (WInv /\ phase = "write" => BInv)'
    BY Writing2, PTL
  <2> QED
    BY <2>1, <2>3, <2>4
<1>2. CASE WriteStrings
  <2>1. WInv
    BY <1>2, Writing1 DEF WriteStrings
  <2> QED
    BY <1>2, <2>1, WriteStringsKeeps
<1>3. CASE PatchFileRefs
  BY <1>3, PatchFileRefsKeeps
<1>4. CASE LoadFunction
  BY <1>4, LoadFunctionKeeps
<1>5. CASE LoadConstant
  BY <1>5, LoadConstantKeeps
<1>6. CASE LoadStrings
  BY <1>6, LoadStringsKeeps
<1>7. CASE PatchFunctionRef
  BY <1>7, PatchFunctionRefKeeps
<1>8. CASE LoadFailure
  <2>1. phase = "patch" /\ phase' = "failed"
        /\ UNCHANGED <<constants, queueVars, fileVars, loadVars>>
    BY <1>8 DEF LoadFailure
  <2> QED
    BY <2>1, LoadedStays DEF BInv, LInv
<1>9. CASE LoadDone
  <2>1. phase = "patch" /\ phase' = "loaded" /\ patchList = <<>>
        /\ UNCHANGED <<constants, queueVars, fileVars, loadVars>>
    BY <1>9 DEF LoadDone
  <2> QED
    BY <2>1, LoadedStays DEF BInv, LInv
<1>10. ASSUME UNCHANGED BinaryVars PROVE BInv'
  <2>1. /\ UNCHANGED <<constants, phase, functionQueue, stringQueue, functionIds, stringIds>>
        /\ UNCHANGED <<file, filePatches, fileStrings, functions, strings, patchList>>
    BY <1>10 DEF BinaryVars, queueVars, fileVars, loadVars
  <2>2. CASE phase \in {"loadFunctions", "patch", "failed", "loaded"}
    <3>1. LInv
      BY <2>2, Loading1
    <3>2. UNCHANGED <<constants, queueVars, fileVars>>
      BY <2>1 DEF queueVars, fileVars
    <3>3. /\ functions' \in Seq(Seq(Values)) /\ patchList' \in Seq(Patches)
          /\ Placed(functions', Elements(patchList'))
      BY <2>1, <3>1, LoadingsPlaced DEF LInv
    <3>4. Loadings'
      BY <3>1, <3>2, <3>3, LoadingsNext
    <3>5. AllLoaded => AllLoaded'
      BY <2>1 DEF AllLoaded
    <3> QED
      BY <2>1, <2>2, <3>1, <3>2, <3>4, <3>5, FileStays DEF BInv, LInv
  <2>3. CASE phase \in {"write", "patchFile"}
    <3>1. Queues'
      BY <2>1 DEF BInv, Queues
    <3>2. Lengths'
      BY <2>1 DEF BInv, Lengths, Original
    <3>3. Met'
      BY <2>1 DEF BInv, Met, Elements, Original, Const
    <3>4. RoomsLeft'
      BY <2>1, <2>3 DEF BInv, RoomsLeft, Elements, Empty, Original, Const
    <3>5. Complete => Complete'
      BY <2>1 DEF Complete, Original
    <3> QED
      BY <2>1, <2>3, <3>1, <3>2, <3>3, <3>4, <3>5 DEF BInv
  <2> QED
    BY <2>2, <2>3 DEF BInv
<1> QED
  BY <1>1, <1>2, <1>3, <1>4, <1>5, <1>6, <1>7, <1>8, <1>9, <1>10 DEF BinaryNext, Write, Load

-----------------------------------------------------------------------------
(* The theorems *)

(* Each constant of the script is in the file, and in what is loaded from  *)
(* it, where the invariant says: for every script the compiler can make,   *)
(* writeBinary and loadBinary keep it.                                     *)
THEOREM BinaryInvariant ==
  ASSUME BinaryAssumption
  PROVE  BinarySpec => []BInv
<1>1. BinaryInit => BInv
  BY InitBInv
<1>2. BInv /\ [BinaryNext]_BinaryVars => BInv'
  BY NextKeepsBInv
<1> QED
  BY <1>1, <1>2, PTL DEF BinarySpec

LEMMA RoundTripFromBInv ==
  ASSUME BinaryAssumption, BInv
  PROVE  RoundTrip
<1> SUFFICES ASSUME phase = "loaded" PROVE RoundTrip
  BY DEF RoundTrip
<1>1. LInv /\ AllLoaded /\ patchList = <<>>
  BY Loading1 DEF BInv
<1>2. functions \in Seq(Seq(Values)) /\ Placed(functions, Elements(patchList))
      /\ Elements(patchList) = {}
  BY <1>1, LoadingsPlaced DEF LInv, Elements
<1>3. Elements(functionIds) = Function /\ Len(functions) = Len(functionIds)
  BY <1>1, FileFacts DEF LInv, FileReady, AllLoaded
<1>4. ASSUME NEW f \in 1..Len(functions)
      PROVE  functions[f] = [i \in 1..Len(Original(f)) |->
                               IF Const(f, i) \in Function THEN Id(functionIds, Const(f, i))
                               ELSE Const(f, i)]
  <2>1. f \in 1..Len(file) /\ Len(functions[f]) = Len(file[f])
        /\ Len(file[f]) = Len(Original(f))
    BY <1>1, <1>4 DEF AllLoaded, LInv, FileReady, Complete
  <2>2. functions[f] \in Seq(Values)
    BY <1>2
  <2>3. functions[f] = [i \in 1..Len(functions[f]) |-> functions[f][i]]
    BY <2>2
  <2>4. ASSUME NEW i \in 1..Len(functions[f])
        PROVE  functions[f][i] = IF Const(f, i) \in Function THEN Id(functionIds, Const(f, i))
                                 ELSE Const(f, i)
    <3>1. Const(f, i) \in Function \cup String \cup {Number}
      BY <1>1, <2>1, FileFacts
    <3>2. functions[f][i] = Final(Const(f, i))
      BY <1>2 DEF Placed
    <3>3. Number \notin Function \cup String /\ Function \cap String = {}
      BY DEF BinaryAssumption
    <3> QED
      BY <3>1, <3>2, <3>3 DEF Final
  <2> QED
    BY <2>1, <2>3, <2>4
<1> QED
  BY <1>3, <1>4 DEF RoundTrip, Original, Const

(* What loadBinary has built, when it is done, is the script that          *)
(* writeBinary wrote, constant for constant.                               *)
THEOREM LoadedIsWritten ==
  ASSUME BinaryAssumption
  PROVE  BinarySpec => []RoundTrip
<1>1. BInv => RoundTrip
  BY RoundTripFromBInv
<1> QED
  BY <1>1, BinaryInvariant, PTL

(* patchFunctionRefs stays inside the arrays it reads and writes, though   *)
(* it checks against one of them only, and for > where it means >=.        *)
THEOREM PatchesStayInRange ==
  ASSUME BinaryAssumption
  PROVE  BinarySpec => []PatchesInRange
<1>1. BInv => PatchesInRange
  <2> SUFFICES ASSUME BInv, phase = "patch", NEW p \in Elements(patchList)
               PROVE  p.patchWith < Len(Source(p)) /\ p.toPatch < Len(functions)
    BY DEF PatchesInRange
  <2>1. LInv /\ AllLoaded
    BY Loading1 DEF BInv
  <2>2. functions \in Seq(Seq(Values)) /\ Placed(functions, Elements(patchList))
    BY <2>1, LoadingsPlaced DEF LInv
  <2>3. PICK f \in 1..Len(functions) :
          \E i \in 1..Len(functions[f]) : Const(f, i) # Number /\ p = PatchOf(f, i)
    BY <2>2 DEF Placed
  <2>4. PICK i \in 1..Len(functions[f]) : Const(f, i) # Number /\ p = PatchOf(f, i)
    BY <2>3
  <2>5. PICK c : c = Const(f, i)
    OBVIOUS
  <2>6. /\ f \in 1..Len(file) /\ i \in 1..Len(file[f]) /\ strings = stringIds
        /\ Len(functions) = Len(functionIds)
    BY <2>1, <2>4, FileFacts DEF AllLoaded
  <2>7. /\ Filled(c) \in [tag : {"number", "string", "function"}, id : Int]
        /\ Filled(c).tag = "number" <=> c = Number
        /\ Filled(c).tag = "string" => Filled(c).id \in 0..(Len(stringIds) - 1)
        /\ Filled(c).tag = "function" => Filled(c).id \in 0..(Len(functionIds) - 1)
    BY <2>1, <2>5, <2>6, FileFacts, FilledFacts DEF LInv
  <2>8. p.toPatch = f - 1 /\ p.patchWith = Filled(c).id /\ p.type = Filled(c).tag
    BY <2>4, <2>5 DEF PatchOf
  <2>9. Len(stringIds) \in Nat /\ Len(functionIds) \in Nat /\ Len(functions) \in Nat
    BY <2>1, <2>2 DEF LInv, Queues
  <2>10. p.toPatch < Len(functions)
    BY <2>8, <2>9
  <2>11. CASE Filled(c).tag = "string"
    BY <2>6, <2>7, <2>8, <2>9, <2>10, <2>11 DEF Source
  <2>12. CASE Filled(c).tag = "function"
    BY <2>6, <2>7, <2>8, <2>9, <2>10, <2>12 DEF Source
  <2> QED
    BY <2>4, <2>5, <2>7, <2>11, <2>12
<1> QED
  BY <1>1, BinaryInvariant, PTL

=============================================================================
