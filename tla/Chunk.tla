------------------------------- MODULE Chunk -------------------------------
(***************************************************************************)
(* The chunk of chunk.c: bytes of code, the lines they come from as runs,  *)
(* and constants.                                                          *)
(***************************************************************************)
EXTENDS Integers, Sequences

VARIABLE
  chunk   \* writtenAt keeps the line of every byte, for comparison

EmptyChunk == [code |-> <<>>, lines |-> <<>>, constants |-> <<>>, writtenAt |-> <<>>]
Count(c) == Len(c.code)

(* writeChunk, of bytes that come from one line *)
WriteChunk(c, bytes, line) ==
  LET sameLine == c.lines # <<>> /\ c.lines[Len(c.lines)].line = line IN
  [c EXCEPT !.code = @ \o bytes,
            !.writtenAt = @ \o [i \in DOMAIN bytes |-> line],
            !.lines = IF sameLine THEN @
                      ELSE Append(@, [offset |-> Count(c), line |-> line])]

AddConstant(c, v) == [c EXCEPT !.constants = Append(@, v)]

(* mutant: a run has the first byte of the next one, too *)
BeforeNextRunEnds(lines, mid, i) == mid = Len(lines) - 1 \/ i <= lines[mid + 2].offset

(* what getLine asks of a run that does not begin behind i *)
BeforeNextRun(lines, mid, i) == mid = Len(lines) - 1 \/ i < lines[mid + 2].offset

(* The loop of getLine: a turn of it, for the runs from r[1] to r[2], and  *)
(* find is the turns that follow.  When none is left it looks on for ever. *)
NoLine == -1
Ranges(lines) == (0..Len(lines)) \X (-1..(Len(lines) - 1))
Turn(lines, i, find, r) ==
  LET mid == (r[1] + r[2]) \div 2 IN
  IF r[1] > r[2] THEN NoLine
  ELSE IF i < lines[mid + 1].offset THEN find[<<r[1], mid - 1>>]
  ELSE IF BeforeNextRun(lines, mid, i) THEN lines[mid + 1].line
  ELSE find[<<mid + 1, r[2]>>]

FindLine(lines, i) ==
  LET find[r \in Ranges(lines)] == Turn(lines, i, find, r) IN find

GetLine(c, i) == FindLine(c.lines, i)[<<0, Len(c.lines) - 1>>]

-----------------------------------------------------------------------------
(* A chunk by itself.  patchJump of compiler.c writes over a byte.         *)

WriteByte(byte, line) == chunk' = WriteChunk(chunk, <<byte>>, line)
Patch(i, byte) == i < Count(chunk) /\ chunk' = [chunk EXCEPT !.code[i + 1] = byte]
WriteConstant(v) == chunk' = AddConstant(chunk, v)
FreeChunk == chunk' = EmptyChunk

ChunkInit == chunk = EmptyChunk

ByteValues == 0..255
ChunkNext ==
  \/ \E byte \in ByteValues, line \in Nat : WriteByte(byte, line)
  \/ \E i \in Nat, byte \in ByteValues : Patch(i, byte)
  \/ \E v : WriteConstant(v)
  \/ FreeChunk

ChunkSpec == ChunkInit /\ [][ChunkNext]_chunk

-----------------------------------------------------------------------------
(* Properties *)

(* The line that getLine finds for a byte of the code is the one it was    *)
(* written for.                                                            *)
LinesFound ==
  \A i \in 0..(Count(chunk) - 1) : GetLine(chunk, i) = chunk.writtenAt[i + 1]
=============================================================================
