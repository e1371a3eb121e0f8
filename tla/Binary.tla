------------------------------- MODULE Binary -------------------------------
(***************************************************************************)
(* The bytecode file of binary.c: writeBinary walks the functions of a     *)
(* compiled script and loadBinary builds them again.  Constants that are   *)
(* functions or strings are written as identifiers, which writer and       *)
(* loader only agree on because both count in the same order: functions as *)
(* they are polled from functionQueue, whatever the order of the polls;    *)
(* strings as they are first met, so stringQueue must be first in first out. *)
(*                                                                         *)
(* The queues are the Fifo that ValueQueue implements.  A function is its  *)
(* constants; code, name and line table are copied as they are.  A string  *)
(* whose length is the number SEG_END_STRINGS, which would end the segment *)
(* early, is left out.                                                     *)
(***************************************************************************)
EXTENDS Integers, Sequences, Values

CONSTANTS
  Function,    \* the functions of a script, Script and those inside it
  String,      \* the strings
  Number,      \* stands for any constant that is a number
  Script,
  Programs     \* the scripts to write: the constants of every function

Elements(s) == {s[i] : i \in 1..Len(s)}

(* The compiler makes one constant of every function, in the function      *)
(* around it, and of all but the script; so all are inside the script.     *)
Nested(program) ==
  /\ \A f, g \in Function : \A i \in DOMAIN program[f], j \in DOMAIN program[g] :
       program[f][i] = program[g][j] /\ program[f][i] \in Function => f = g /\ i = j
  /\ \A f \in Function : \A i \in DOMAIN program[f] : program[f][i] # Script
  /\ \A S \in SUBSET Function :
       Script \in S /\ (\A f \in S : Elements(program[f]) \cap Function \subseteq S)
         => S = Function

BinaryAssumption ==
  /\ Script \in Function /\ Function \cap String = {}
  /\ {Number, Nil} \cap (Function \cup String) = {} /\ Number # Nil
  /\ \A program \in Programs :
       program \in [Function -> Seq(Function \cup String \cup {Number})] /\ Nested(program)

VARIABLES
  constants,   \* the script in memory: function->chunk.constants
  phase,       \* what the program does
  functionQueue, stringQueue,
  functionIds, stringIds,  \* valueIds, in the order the identifiers are given
  file,        \* the functions segment: the constants of each function
  filePatches, \* the writer's patchList
  fileStrings, \* the strings segment
  functions, strings,      \* loadBinary: the arrays of what has been read
  patchList                \* the loader's: constants that wait for their value

queueVars == <<functionQueue, stringQueue, functionIds, stringIds>>
fileVars == <<file, filePatches, fileStrings>>
loadVars == <<functions, strings, patchList>>
BinaryVars == <<constants, phase, queueVars, fileVars, loadVars>>

(* mutant: identifiers from 1 on *)
IdFromOne(ids, v) == CHOOSE i \in 1..Len(ids) : ids[i] = v

(* findValueId; identifiers count from 0 *)
Id(ids, v) == (CHOOSE i \in 1..Len(ids) : ids[i] = v) - 1

-----------------------------------------------------------------------------
(* writeBinary *)

(* the function being written, and the constant to write next *)
Writing == functionIds[Len(functionIds)]
Written == Len(file[Len(file)])
Constant == constants[Writing][Written + 1]
MoreConstants == phase = "write" /\ Written < Len(constants[Writing])

(* write the constant, or room for an identifier to be filled in *)
WriteEntry(v) ==
  /\ file' = [file EXCEPT ![Len(file)] = Append(@, v)]
  /\ UNCHANGED <<constants, phase, fileStrings, loadVars>>

Later(v) ==
  filePatches' = Append(filePatches, [value |-> v, fn |-> Len(file), at |-> Written + 1])

(* writeFunctionConstants: a number, *)
WriteNumber ==
  /\ MoreConstants /\ Constant = Number
  /\ WriteEntry(Number)
  /\ UNCHANGED <<queueVars, filePatches>>

(* a string, which gets an identifier when it is met first, *)
WriteString ==
  /\ MoreConstants /\ Constant \in String
  /\ IF Constant \in Elements(stringQueue) THEN UNCHANGED <<stringQueue, stringIds>>
     ELSE /\ stringQueue' = Append(stringQueue, Constant)
          /\ stringIds' = Append(stringIds, Constant)
  /\ WriteEntry("string")
  /\ Later(Constant)
  /\ UNCHANGED <<functionQueue, functionIds>>

(* or a function, which gets one when it is written. *)
WriteFunctionRef ==
  /\ MoreConstants /\ Constant \in Function
  /\ functionQueue' = IF Constant \in Elements(functionQueue) THEN functionQueue
                      ELSE Append(functionQueue, Constant)
  /\ WriteEntry("function")
  /\ Later(Constant)
  /\ UNCHANGED <<stringQueue, functionIds, stringIds>>

(* writeFunction of the one polled next *)
NextFunction ==
  /\ phase = "write" /\ ~MoreConstants /\ functionQueue # <<>>
  /\ functionIds' = Append(functionIds, Head(functionQueue))
  /\ functionQueue' = Tail(functionQueue)
  /\ file' = Append(file, <<>>)
  /\ UNCHANGED <<constants, phase, stringQueue, stringIds, filePatches, fileStrings, loadVars>>

(* mutant: the string enqueued last is written first *)
WriteStringsLast ==
  /\ phase = "write" /\ ~MoreConstants /\ functionQueue = <<>>
  /\ fileStrings' = [i \in 1..Len(stringQueue) |-> stringQueue[Len(stringQueue) + 1 - i]]
  /\ stringQueue' = <<>>
  /\ phase' = "patchFile"
  /\ UNCHANGED <<constants, functionQueue, functionIds, stringIds, file, filePatches, loadVars>>

(* writeStrings polls stringQueue until it is empty *)
WriteStrings ==
  /\ phase = "write" /\ ~MoreConstants /\ functionQueue = <<>>
  /\ fileStrings' = stringQueue
  /\ stringQueue' = <<>>
  /\ phase' = "patchFile"
  /\ UNCHANGED <<constants, functionQueue, functionIds, stringIds, file, filePatches, loadVars>>

(* patchFileRefs fills in the identifiers; every value has got one, or the *)
(* CHOOSE of Id has no value *)
PatchFileRefs ==
  /\ phase = "patchFile"
  /\ file' = [f \in 1..Len(file) |-> [i \in 1..Len(file[f]) |->
       IF \E p \in Elements(filePatches) : p.fn = f /\ p.at = i
       THEN LET p == CHOOSE p \in Elements(filePatches) : p.fn = f /\ p.at = i
                ids == IF file[f][i] = "function" THEN functionIds ELSE stringIds IN
            [tag |-> file[f][i], id |-> Id(ids, p.value)]
       ELSE [tag |-> "number", id |-> 0]]]
  /\ phase' = "loadFunctions"
  /\ UNCHANGED <<constants, queueVars, filePatches, fileStrings, loadVars>>

-----------------------------------------------------------------------------
(* loadBinary, in another process *)

(* the function being loaded, and what the file has for its next constant *)
Loading == Len(functions)
Loaded == Len(functions[Loading])
Entry == file[Loading][Loaded + 1]
MoreEntries == phase = "loadFunctions" /\ Loading # 0 /\ Loaded < Len(file[Loading])

(* loadFunction of the next one, *)
LoadFunction ==
  /\ phase = "loadFunctions" /\ ~MoreEntries /\ Loading < Len(file)
  /\ functions' = Append(functions, <<>>)
  /\ UNCHANGED <<constants, phase, queueVars, fileVars, strings, patchList>>

(* and loadFunctionConstants: an identifier is NIL_VAL at first *)
LoadConstant ==
  /\ MoreEntries
  /\ functions' = [functions EXCEPT
       ![Loading] = Append(@, IF Entry.tag = "number" THEN Number ELSE Nil)]
  /\ patchList' = IF Entry.tag = "number" THEN patchList
                  ELSE Append(patchList, [toPatch |-> Loading - 1, patchWith |-> Entry.id,
                                          position |-> Loaded + 1, type |-> Entry.tag])
  /\ UNCHANGED <<constants, phase, queueVars, fileVars, strings>>

LoadStrings ==
  /\ phase = "loadFunctions" /\ ~MoreEntries /\ Loading = Len(file)
  /\ strings' = fileStrings
  /\ phase' = "patch"
  /\ UNCHANGED <<constants, queueVars, fileVars, functions, patchList>>

(* patchFunctionRefs, one patch: the check is against the array the value  *)
(* comes from, for the function to patch too                               *)
Source(p) == IF p.type = "function" THEN functions ELSE strings
Rejected(p) == p.patchWith > Len(Source(p)) \/ p.toPatch > Len(Source(p))

PatchFunctionRef ==
  /\ phase = "patch" /\ patchList # <<>>
  /\ LET p == Head(patchList) IN
     /\ ~Rejected(p)
     /\ functions' = [functions EXCEPT ![p.toPatch + 1][p.position] =
                        IF p.type = "function" THEN p.patchWith
                        ELSE strings[p.patchWith + 1]]
  /\ patchList' = Tail(patchList)
  /\ UNCHANGED <<constants, phase, queueVars, fileVars, strings>>

(* "Invalid function id to patch." *)
LoadFailure ==
  /\ phase = "patch" /\ patchList # <<>> /\ Rejected(Head(patchList))
  /\ phase' = "failed"
  /\ UNCHANGED <<constants, queueVars, fileVars, loadVars>>

LoadDone ==
  /\ phase = "patch" /\ patchList = <<>>
  /\ phase' = "loaded"
  /\ UNCHANGED <<constants, queueVars, fileVars, loadVars>>

-----------------------------------------------------------------------------
(* writeBinary begins with the script itself *)
BinaryInit ==
  /\ constants \in Programs
  /\ phase = "write"
  /\ functionQueue = <<>> /\ stringQueue = <<>>
  /\ functionIds = <<Script>> /\ stringIds = <<>>
  /\ file = <<<<>>>> /\ filePatches = <<>> /\ fileStrings = <<>>
  /\ functions = <<>> /\ strings = <<>> /\ patchList = <<>>

Write == WriteNumber \/ WriteString \/ WriteFunctionRef \/ NextFunction
         \/ WriteStrings \/ PatchFileRefs
Load == LoadFunction \/ LoadConstant \/ LoadStrings \/ PatchFunctionRef \/ LoadFailure \/ LoadDone

BinaryNext == Write \/ Load

BinarySpec == BinaryInit /\ [][BinaryNext]_BinaryVars

-----------------------------------------------------------------------------
(* Properties *)

(* What has been loaded is the script that was written, constant for       *)
(* constant: a number, a string with the same text, the function that      *)
(* stands where the original stood.                                        *)
RoundTrip ==
  phase = "loaded" =>
    /\ Elements(functionIds) = Function
    /\ Len(functions) = Len(functionIds)
    /\ \A f \in 1..Len(functions) :
         LET original == constants[functionIds[f]] IN
         functions[f] = [i \in 1..Len(original) |->
                           IF original[i] \in Function THEN Id(functionIds, original[i])
                           ELSE original[i]]

(* patchFunctionRefs reads and writes inside its arrays.                   *)
PatchesInRange ==
  phase = "patch" =>
    \A p \in Elements(patchList) :
      p.patchWith < Len(Source(p)) /\ p.toPatch < Len(functions)

(* A file written by writeBinary is loaded: patchFunctionRefs says that a  *)
(* function id is invalid only when it is.                                 *)
LoadSucceeds == phase # "failed"
=============================================================================
