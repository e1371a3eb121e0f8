# Verification of clox2

clox2 is a bytecode interpreter for a language of the Lox family: a compiler in one pass, a stack machine with closures,
classes and exceptions, and a mark-and-sweep collector that may run at any allocation. This directory holds TLA+ models
of its core, the TLC configurations that check them, and theorems about them that TLAPS checks.

Paths below are relative to `src/`; `impl/` stands for `src/lib/impl/src/`.

## Inventory

| part | state | operations | what is hard | what makes it correct |
|---|---|---|---|---|
| heap and objects (`impl/object.c`, `impl/memory.c`) | the list of objects, their members | one constructor, blacken and free function per type | every allocation may collect | nothing in use is freed; members have the type they are cast to |
| collector (`impl/memory.c`) | mark bits, gray stack | mark roots, trace, clean the string table, sweep | runs inside handlers, over cycles, with a weak table | frees exactly what cannot be reached, and ends |
| hash table (`impl/table.c`) | slots, capacity, count with tombstones | get, set, delete, grow, remove white keys, iterate | tombstones, collisions, a collection while growing | it is a map; probes end, iterations read every key |
| strings (`impl/object.c`) | `vm.strings` | copyString, takeString | the table is weak | equal strings are one object |
| machine (`impl/vm.c`) | value stack, frames, open upvalues, globals | one handler per instruction, calls, natives | captured locals, callees that return or throw | closures keep their variables; frames nest |
| exceptions and errors (`impl/vm.c`) | handler stacks in frames | push, pop, throw, propagate, resetStack | unwinding over frames, finally blocks, the prompt going on after an error | the innermost matching handler runs, the stack fits the code there |
| compiler (`impl/compiler.c`) | chain of compilers: locals, upvalues, loops, break lists, code | one function per grammar rule | what it counts must be what the code does | slots, heights and jumps agree with the run |
| bytecode files (`impl/binary.c`) | queues, identifiers, patch lists | write, patch, load, patch | identifiers given in two places | what is loaded is what was written |
| expressions and statements (`impl/compiler.c`, `impl/chunk.c`, `impl/vm.c`) | parser, chunk with runs of lines, ip | a rule per token, an instruction each, patched jumps | precedence and assignment decided by one table, jumps that must agree on the stack | the line does what its tree means |
| scanner (`lib/scanner/default`) | place, line, column | scanToken | comments, escapes, the end of the text | every character is in a token, a blank or a comment |
| arena (`lib/common/src/arena.c`) | position, headers | alloc, realloc, free, save, rewind, reset | which block is the last | live blocks never overlap |
| natives (`impl/native.c`, `lib/module/`) | reference stack | conversions, arrays, fields | unrooted temporaries | as the heap |
| flex scanner, intrusive lists, input files, disassembler, command line options, module generator | | | sequential | |

The compiler and the machine allocate from the heap, which calls the collector; the collector reads the machine's
stack, frames, globals and open upvalues and the compiler's chain (`markRoots`), and takes keys out of the table
`vm.strings` that the same call may be growing. The program is one thread: all its concurrency is of this kind, a
callback (the collector) between two statements of whoever allocates. No finalizers, no signals.

Where the code can go wrong in ways a test hardly reaches is listed line by line under "hazards" in `PROJECT.json`.

## Modules

| module | models | abstracts |
|---|---|---|
| `Heap` | objects and references, roots, the handlers that change them, split where they allocate, and the collection as one step | values that are no objects, the text of code, byte counts |
| `Collector` | the collection in its phases over the handlers of `Heap`; implements `Heap` | order of the gray stack |
| `HeapProofs` | theorems about `Heap`, and from them about `Collector` | |
| `Values` | the constant the data structures share | |
| `KeyMap` | what a table promises: a partial map | |
| `Table` | `table.c`; growing is a step per slot and may be interrupted by a collection; implements `KeyMap` | hash values, given as a constant |
| `TableIterator` | the iterator, driven by the loop of `fieldNames` | |
| `TableProofs` | theorems about `Table` and `TableIterator` | |
| `Fifo` | what a queue promises | |
| `ValueQueue` | the ring buffer of `binary.c`; implements `Fifo` | |
| `Chunk` | the chunk: bytes, constants, and the lines as runs, with the search through them | how the arrays grow |
| `BufferProofs` | theorems about `ValueQueue` and `Chunk` | |
| `Binary` | writing a script function by function and loading it patch by patch | segment marks, code, line tables |
| `BinaryProofs` | theorems about `Binary` | |
| `Scopes` | the compiler between statements: functions, locals, upvalues, loops, switch, with what the frames really hold | expressions, code, try statements, classes |
| `ScopesProofs` | theorems about `Scopes` without switch statements | |
| `ExceptionsProofs` | theorems about `Exceptions` without jumps out of try statements | |
| `Exceptions` | try, catch, finally, throw, calls, loops, runtime errors and the lines of a prompt, over frames with handlers and values | the program, left open; the fields of an exception |
| `Scanner` | the scanner written by hand, one token a step | the text of error messages |
| `ScannerProofs` | theorems about `Scanner` | |
| `Expressions` | a line of the prompt from tokens to output: parser, the chunk it writes, the instruction loop | arithmetic, left uncomputed; locals, functions, classes |
| `Meaning` | what such a line should do: trees, how they are written, what they mean | |
| `Arena`, `ArenaProofs` | the allocator of `lib/common`, and theorems about it | the bytes in the blocks |
| `MCHeap`, `MCCollector`, `MCStructures`, `MCTable`, `MCBinary`, `MCScopes`, `MCExceptions`, `MCMeaning`, `MCFrontEnd` | instances for TLC | |

Three instances put modules that do not interact side by side, so that one run checks them one after another:
`MCHeap` has three slices of the handlers of `Heap`, `MCStructures` has the table, the queue, the file, the arena and the chunk,
`MCFrontEnd` has the scanner and the prompt. A variable that never changes (`slice`, `part`) says which one moves. The
initial states are those of each part, and no part is made smaller by its neighbours. What does interact is composed by
extension: `Collector` over `Heap`, `TableIterator` over `Table`, `Expressions` over `Chunk`, `Meaning` over `Expressions`.

### Heap

A reference is a tuple `<<object, member, key, value>>`; an object has a kind, a string has a text. `op` is the program
counter of the handler in progress with its one C local that holds an object (`op.held`): a handler that allocates is
two or more actions, and `CollectGarbage` may come between them wherever the code calls `reallocate`
(`AllocationPoints`). The collector sees `Roots`, not `op.held`, as in `markRoots`. `Blackened` follows the members the
blacken functions mark; `initializer` is not one of them. Addresses are reused: `New` takes the lowest free one, so a
reference that dangles soon refers to an object of another kind, which `WellTyped` notices.

Left out, and listed as hazards: `OP_THROW` and the init functions of the natives, which hold fresh objects in C locals
across allocations, and the static fields of classes, which are never marked. With them `NoDangling` does not hold.

### Collector

The phases of `collectGarbage`. Handlers do not run in between, since the collector is called and returns. The
refinement takes the objects about to be swept as already freed, so that the weak table is cleaned in the step that
frees, and `Sweep` stutters.

### Table

`call` is the `tableSet` in progress. Only `ALLOCATE` in `adjustCapacity` can run foreign code, and it is the collector,
which buries white keys; the key being set is on the stack and not white. Copying slot by slot lets the invariants speak
of the array being filled.

`TableIterator` goes through `newTableIterator`, the loop of `fieldNames` and each round of `advanceTableIterator`. The code
tests `entries[0]` whatever the capacity. A table that was never set has no array, so that `fieldNames` of an instance
that never had a field reads through NULL: this is the place `"astray"`, from which nothing is followed. `ReadsKeys` says
that there is no other way out of the array, and that the assertion of `getKeyTableIterator` never fires. A table with
tombstones only is searched for ever; `IterationEnds` is stated for tables that hold a key, and fails for those, too.

### ValueQueue and Binary

`Binary` takes the queues as sequences, which `ValueQueue` is shown to implement. The constants of a function are
numbers, strings or functions; a string found in `stringQueue` is not numbered again. Loading is a step per function and per
constant, as the loops of `loadBinary` are.

### Chunk

A chunk is a record; `writtenAt` is no part of the code and keeps the line of every byte, to compare with what `getLine` answers.
`FindLine` is the loop of `getLine`: it maps the ranges of runs it may be left with to what it answers, and `Turn` is one turn of it.
An empty range stands for a loop that does not end, since `mid` stays where it is (`NoLine`).

### Scopes

`compilers` is the chain of `Compiler` structs; `syntax` holds the constructs that are open and, for a loop, the C
locals of the function that compiles it. The parser's input is left open: an action is whatever may come next in a
program without errors. `slots` is what the compiler cannot see: what the frame of each function holds when the run
arrives at this place of the code, changed by the instructions the actions emit. The properties compare the two: the
index the compiler uses for a name is the slot of the innermost variable of that name (`LocalsAreSlots`,
`ReadsInnermost`, the second through the chain of upvalues), jumps arrive with the stack the loop started with
(`JumpsLand`), and no captured variable is popped instead of closed (`NoneLost`). They hold without switch statements;
with them `SwitchReserved` fails, and the others after it.

### Exceptions

The program is not fixed. The ip of a frame is the path of the constructs it stands in, and an address in the code, such
as that of a handler, is the path of the construct it belongs to. A step begins or ends a construct, declares a local,
calls, returns, throws, or fails with a runtime error; `NewLine` is the next line of the prompt, which starts on whatever
the line before has left. `Propagate` is `propagateException`: the loop over the frames and their handlers, what it
pushes and what it closes. `Content` is what the code of a frame counts on, and `stack` is what is there.

A caught exception leaves the values of the code that threw it under it. That is how the code works, and from then on
the compiler's slots are not those of the values: `shifted` remembers such frames, and `ContentInPlace` and `OpenInStack`
speak of the others only. Worse, a finally block of a shifted frame may find another value where its flag should be: the
flag of a block inside it that an exception was thrown out of, or that exception. It then ends without raising its own
exception again and without taking its handler off, or raises what is none; `misled` remembers it. From then on a handler
may be there that belongs to no try statement around the ip; an exception goes there, to a block whose locals have been
popped long ago, and even frames below lose values. Two handlers, four open constructs and a throw from a callee are
enough. `HeightCovers`, `NameIsCaught`, `ContentInPlace` and the second half of `HandlersInstalled` hold until then;
`ContentInPlace` says that it needs a shifted frame. A run
that goes on in a frame that is gone (`pushExceptionHandler` at its limit, `OP_PROPAGATE_EXCEPTION` without a handler, a
handler without catch whose class is whatever constant 0xFF is, the 8-bit place of the jump over a catch) becomes
`"stray"` and is not followed. `Leaving` says whether `break` and `continue` may leave a try statement: they take no
handler off, and `HandlersNest` fails.

### Scanner

One token a step over a text that is a sequence of characters. The properties say what a token is without the scanner: a
word, a number, an operator or a string, the longest there is at its place, with blanks and comments between, and at
the line and column it stands at. A string that nothing ends makes the scanner pass the NUL (`Beyond`); what it reads
there is not followed, and `InSource` says that there is no other way out of the text.

`Rounds` is the loop of `string()`, with where it gave up and whether a line end was why: that line end is counted
(`BrokeLine`), those that the skip to the next quote passes are not, and the column begins anew at a character that the
token still covers. `Located` therefore gives the exact line and column until a token holds a line end, says that only errors do,
and for what comes after only that the line is not ahead of the text.

### Expressions and Meaning

`Interpret` is `compile` and the start of the script's frame; then each instruction is a step. The functions of the
parser are sequences of steps, and `todo` is what is left of those under way, so that the parser needs no recursion of
its own. `Meaning` writes a tree as tokens, with as few parentheses as its levels allow, and says what it means; the
parser, the code and the machine are not in that definition. `MeansTree` compares the two ends. `HeightsAgree` is for any
line that is accepted, whether written for a tree or not: `flow` holds all ways through its code with the height of the
stack on each. `told` is the line of the last error and `writtenAt` the line of every byte, kept for the comparison.

Numbers are left as the arithmetic that made them, with an arbitrary order (`Magnitude`): overflow, NaN and rounding of
results are not modelled. All names are globals, the native `f` is external, two tokens stand on a line of the source.
The lines know an instance, one that stands for a number and one for false, an array and a native, and the names of
fields. `push` past the end of the stack is not modelled. What the trees leave out because the code does otherwise:

* an expression that begins with `[` is parsed at the level below assignment, so it is no target of one; trees are written
  with parentheses there;
* a subscript takes the whole expression in front of it (`IndexLevel = 2` writes trees so, the run `index_binds` does not);
* a numeral that rounds to -1, 0, 1 or 2 becomes that number (`emitConstant`); the trees have whole numerals;
* a compound assignment to an element copies the index only; the parser has it, no tree does;
* the conditional operator keeps the places of its jumps in 8 bits, which tells beyond 255 bytes of code only.

### Arena

`live` holds what the caller may still use. It keeps the rules the code asserts, and rewinds only to positions it saved
and has not rewound behind. A shrinking `arena_realloc` moves the position and leaves the size in the header, so that a
later free moves too far; with `Shrinking = TRUE` TLC shows `LastIsLast` violated. Nothing in the repository shrinks a block, so
the run and the theorems take `Shrinking` to be false.

## Runs

| run | shows | bounds, and why they are enough |
|---|---|---|
| `heap` | no collection in a handler frees what is in use; equal strings are one object | three slices. Strings: 5 objects, 4 slots, 2 texts, from `initVM` on: two objects with one text would fit. Classes: 6 objects, 3 slots, 2 frames, from the script or an instance with a function in a field: a class with its superclass, a closure, an instance and a bound method fit at once. Closures: 7 objects, 3 slots, 2 frames, from the script or a closure with an open upvalue: two closures share an upvalue in a second frame, and both it and its function become garbage. Addresses are used again in all |
| `collector` | the phases, refinement, termination | 6 objects: cycles of instances and classes, and garbage that refers to garbage |
| `structures` | the table is a map and its iterator reads it all; the ring buffer is a queue; scripts come back from their file; blocks stay apart; the line of every byte is found | table: 4 keys that collide and wrap, capacities 4 and 8 in place of 8 and 16: growth from nothing, with tombstones, and a full table. Queue: capacities 2, 4, 8: growth with the ring wrapped and not, behind it and with it. File: every nesting of 4 functions, with strings and numbers before and after the inner ones. Arena: seven words, requests of none to three: three blocks, of which the first, the middle or the last is freed, grown or rewound. Chunk: seven bytes from three lines in any order: up to seven runs, so that the search takes both turns more than once, runs of one byte, and a line that comes again |
| `iteration_ends` (violation) | an iteration over a table whose last slot holds no key wraps around for ever | capacity 4 |
| `binary_load` (violation) | a valid file is rejected when the script has more functions than strings | 4 functions |
| `scopes` | the compiler's account of the frame is what the code builds, without switch | 3 functions, 3 locals each, 5 open constructs, 2 names, one jump: an upvalue of an upvalue beside a local with the same index, two loops around a block |
| `switch_slot` (violation) | a block in a case drops the value of the switch | 2 functions, 4 locals |
| `exceptions` | handlers and values are where the code of every frame counts on them, through throws, calls, finally blocks and lines | 2 classes, 2 frames, 2 handlers in a frame, 3 open constructs, 4 values, 3 left when a line begins: a try in a try, a throw from a callee into either, a throw out of a catch and out of a finally block, and a line on the remains of another |
| `exceptions_leave` (violation) | break and continue leave handlers behind | the same |
| `front_end` | tokens, and what lines do | scanner: all texts of up to 5 characters over three alphabets of 6 and every keyword, one shorter and one longer: two tokens with a comment or a line end between, an escape of two digits in a string, a string that ends and one that does not. Prompt: every expression of two operators over 13 operands, of three operators of different levels, statements with such expressions, loops that run twice, and all sequences of up to 5 tokens over five alphabets |
| `index_binds` (violation) | a subscript takes the whole expression in front of it | the trees of the prompt, written with subscripts that bind like calls |
| `error_line` (violation) | the error of a missing property looks for its line for ever | the trees of the prompt |

Deadlock is checked in `heap`, `collector`, `scopes` and `switch_slot`. The others really stop: a file is loaded, a text
is at its end, a line is done, an exception leads astray, an iteration has no array to read.

Fairness. `CollectorSpec` (and `MCSpec` of its run) is weakly fair to the steps of a collection once begun, and `IteratorSpec` to the steps of the
loop of `fieldNames`: both are loops of one thread that nothing interrupts. Nothing is assumed of the handlers: a
program may stop calling them.

## Disagreements found

* `impl/table.c:180`: `advanceTableIterator` is done only when it stands on the last slot. `lib/module/test.lox` calls
  `fieldNames` and prints the result; unless the last slot of the instance's table holds a key, it never returns.
* `impl/binary.c:609`: when a patch puts a string into a function, the number of the function is compared with the number
  of strings. A script with more functions than strings is rejected with "Invalid function id to patch."
* `impl/compiler.c:992`: the local counted for the value of a switch keeps the depth of whatever local had the entry
  before, so that after `{ var a; }` a block in a case drops the value the comment says is reserved for it.
* `impl/compiler.c:816`: `break` and `continue` jump out of a try statement without taking its handler off. After sixteen
  such loops the next try statement is refused, "Too many nested exception handlers in one function", and an exception
  goes to a statement that was left.
* `impl/compiler.c:1501`: the table of rules gives `[` the level below every operator but assignment, so `-a[0]` is
  `(-a)[0]`; the enumeration of the levels says that subscripts bind like calls.
* `impl/vm.c:869`: `OP_GET_PROPERTY` does not tell the frame its ip before `bindMethod` reports a missing property.
  On a fresh line the search for the line of byte -1 never ends, and the prompt hangs.

## Proofs

Every theorem holds for every value of the constants that satisfies the named assumption of its module: any number of
objects, slots, frames, keys, hash values, capacities, functions, strings, blocks. The properties below are seldom
inductive as they stand; what had to be added is said for each.

`HeapProofs`, about `Heap` and `Collector`:

* `TypeCorrect`: `Spec => []TypeOK`, and `NothingDangles`: `Spec => []NoDangling`. A collection keeps what a handler needs only if
  what the handler holds is well placed. `IInv` is `Typed` over the set of *live* objects (so that type correctness and
  absence of dangling references are one formula), nested frames, `HandlerOK` (what `op.held` is at each program counter,
  and where it is rooted) and `InitializerIsMethod`.
* `InitializerKept`: `Spec => []InitializerIsMethod`, the fact that excuses the missing mark of `initializer`. It is part
  of the induction: without it the sweep could free an initializer.
* `Invariant`: the induction. One lemma per group of handlers shows that it keeps `Good(L)` for a fixed set `L` of live
  objects; the collection is the case where `Live` shrinks, and the proof is that `Reachable` is closed under traced
  members and holds the roots.
* `KindsCorrect`: `Spec => []WellTyped`. `KindInv` says it of every reference by itself and adds the kind of the object that
  a handler holds between two allocations. Addresses are used again: that a collection keeps it rests on `NothingDangles`.
* `StringsInterned`: `Spec => []Interned`: every allocated string is in the table but the one about to enter it, and no two
  have one text. `InternInv` adds that the text a handler is making is not in the table, from the failed lookup to the insertion.

The second part, about `Collector`: `CollectorInvariant`, and from it `CollectorTyped` (only allocated objects are marked or gray), `NoBlackToWhite` (`TriColour`),
`SweepIsExact` (`SweepsUnreachable`) and `CollectorImplements`: `CollectorSpec => ImplementsHeap`. `GCInv` is the invariant of the heap
with the colours, that what is marked is reachable (`Marking`), and that at the sweep nothing is gray and the table holds
marked strings only. The refinement maps the objects about to be swept, their texts and references away; each handler maps to
itself, the cleaning of the table to the collection, the other phases to stutters.

`BufferProofs`, about `ValueQueue`: `QueueInvariant`, `QueueFindsWaiting` (`FindsWaiting`), `QueueIsFifo` (`ImplementsFifo`). `QInv` says
which slots are in use: those of the ring, which may be wrapped, and those behind it, which `enqueue` fills after a growth
until the ring has been read to its end; the rest are nil, which is why a scan of the whole buffer is right.

The same module, about `Chunk`: `ChunkInvariant`, and from it `EveryLineFound` (`LinesFound`), for any bytes and lines. `ChunkInv` says which bytes a run is
for (`InRun`), that the first run begins at byte 0 and that every run begins at a byte that has been written. The loop of `getLine` is a function of the runs that are left, defined by
itself; that there is one, which is that the loop ends, is proved first (`LoopFindsBelow`, `LoopTurns`), by the least number of runs for which there
is none. `SearchEnds` then keeps the byte between the first and the last run left, again by the least number. For byte -1, which is in no
run, the loop does not end; that is what `error_line` runs into.

`TableProofs`, about `Table` and `TableIterator`: `TableInvariant`, and from it `TableTyped`, `EveryProbeEnds` (`ProbesEnd`), `CountsLoad`,
`EveryKeyFindable`, and `TableIsMap`: `Spec => ImplementsKeyMap`. `TInv` has `Placed` (no slot on the way to a key is empty),
`Unique`, the load of the *slots* (a quarter of them is empty, which ends every probe), and for a table that is being copied
`Copying`: the new array holds what lies before the index, and has the room for the rest. `IteratorInvariant` adds `ItInv`:
the keys of the slots behind the iterator, or behind the slot that a search looks at, have been visited, also when the search
has wrapped around and stands in front of the iterator again; a search from `newTableIterator` leaves the index at 0. `IteratorReadsKeys` and
`IterationIsComplete` follow. That the iteration ends is false (`iteration_ends`).

`BinaryProofs`, about `Binary`: `BinaryInvariant`, `LoadedIsWritten` (`RoundTrip`), `PatchesStayInRange` (`PatchesInRange`), for every
script whose functions form a tree (`Nested`, in `BinaryAssumption`: a function is a constant of the one it is written in
only, so that no function is numbered twice). `BInv` follows each constant through its stages: known to the queues, in the
file as a number or with a patch waiting, loaded with a patch waiting, in place.

`ScopesProofs`, about `Scopes`, for programs without switch statements (`LoopSpec`, the specification of the run `scopes`; with
them `switch_slot` shows `SwitchReserved` to fail, and the theorems with it): `ScopesInvariant`, and from it `LocalsAreTheirSlots`
(`LocalsAreSlots`), `NamesReachInnermost` (`ReadsInnermost`), `EveryJumpLands` (`JumpsLand`) and `NoCapturedIsLost` (`NoneLost`). The compiler
knows a scope as a number only, and counts down it wherever it pops. `Inv` adds what the number stands for: a depth for every
open construct (`dp`, found by `SInv`), which grows by one with every construct of a function that opens a scope (`Depths`), and
for every local the construct in `scope` that declares it, at that construct's depth (`Framed`, `Placed`). So the locals of a
scope that ends, of a loop that is left or gone round again, are a suffix of the locals, and the same suffix of the slots
(`KeptSplits`, `LoopSplits`). `Entered` says that the stack a loop began with is still the prefix of the slots that lies in front
of the loop's own, `LoopsKept` that the C locals of `loopStatement` hold the loop around, `Marked` that what is captured is
marked. A local that is declared and not initialized yet (`Waits`) has no depth, which is the one exception in `Framed`. `Grammar` says which constructs open a scope and where
the body of a for statement stands. For names, `ResolvedFacts` follows `resolveUpvalue` through the functions and `ChainReaches` follows what it made back to
the slot; both go by the least function for which they fail.

`ExceptionsProofs`, about `Exceptions`, when no break or continue leaves a try statement (`~Leaving`, the constant of the run
`exceptions`; with them `exceptions_leave` shows handlers that no try statement around has): `HandlersInvariant`, and from it `HandlersAreInstalled`
(`HandlersInstalled`: until a flag is misread the handlers are the ones of the try statements around and no others; after that these are
among them, in frames that no failed line left). That the handlers fit the path of a frame is not inductive: a throw cuts the handlers at one, and goes on
in the path that this handler holds. `HInv` therefore says it of these paths as well. As long as every finally block ended by
its own flag, `Exact`: the handlers are those of the try statements around the ip, and each one's path is a prefix of the path
of the frame. After that, `Embeds` and `Rooted`: the try statements have their handlers, with others in between, and so had
each handler's path when it was pushed. `Throwing` is what is left of this while `propagateException` looks for a handler, after
`OP_PROPAGATE_EXCEPTION` has taken one off, and `PropagateGood` says that it suffices to land.

The values of the frames are the second part of that module: `ContentInvariant`, and from it `HeightsCover` (`HeightCovers`),
`NamesAreCaught` (`NameIsCaught`) and `ContentsInPlace` (`ContentInPlace`), under the same condition, the first two until a flag is misread. `HeightCovers` is not inductive: a
pop in one frame says nothing of the frame below unless it is known where that one ends, a throw needs to know what the
handler's path counts on, which is a prefix of the path of the frame by `HInv` only, and a finally block that is entered by a
throw goes on with what lies below its flag. `CInv` says it frame by frame: `Stands` has the slots in order, the values that the path
counts on (`Needs`) in front of the next frame, each catch's exception under its name (`Caught`), and, when the frame is not
shifted, each value in its place (`Placed`) and no other above (`Snug`). `Lands` is the exception that was just caught, on top and of the class
of the catch; `Flying` is what is left of all this while `propagateException` runs: the frames without the exception on top of
them. The two recursions, `Content` and `Counted`, are taken apart once (`ContentNext`, `FlagsNext`, `CountedIs`), and `PrefixAhead` says that
a prefix of a path counts on a prefix of its values, which is what makes popped locals, left loops and handlers fit.
That a misread flag needs a shifted frame (`MisreadShifted`) is the half of `ContentInPlace` that speaks of misled runs.

The open upvalues are the third part: `OpenInvariant`, and from it `OpenUpvaluesInStack` (`OpenInStack`). `OpenInStack` is not
inductive: where a scope ends the compiler pops some slots and closes others, by the marks of its locals, and nothing says that
every open upvalue above the new top is among the closed ones. `OInv` says whose upvalue it is: that of a local marked as
captured, at the place where the compiler counts it in an unshifted frame (`Owned`), or it lies below the frames, where a
line that failed has left it (`Owns`). In a state without shifted frames the heights are exact (`ExactHeight`) and in front of
a local lie only locals (`BareBelow`: the flags of finally blocks and waiting exceptions come after them), so that the slots
closed from the top are those of the locals that go. For a throw, `Aloft` is what is left of it while frames are taken off: a
catch closes the slots of its frame and above, which are the higher ones (`SlotsRise`); a finally block that is entered by a throw
closes nothing, and the exact height afterwards shows that nothing was open there (`LandingOwns`).

`ArenaProofs`, about `Arena`:

* `BlocksApart`: `Spec => []Disjoint`, `LastFound`: `Spec => []LastIsLast`, `TypeCorrect`: `Spec => []TypeOK`. `IInv` adds to the
  types that every block fits in front of the position (`InFront`), that whole blocks, rounding included, are apart
  (`Apart`: `Disjoint` speaks only of the bytes asked for, which says nothing of where the next block may start) and that
  they lie behind `arena_t` (`Behind`). One lemma each for taking blocks away, adding one and changing one in place; every action is
  one of the three.
* All three are stated under `~Shrinking`, for the reason given above: without it `LastFound` is false.

`ScannerProofs`, about `Scanner`, for every text without NUL (`Texts`; the run has short ones and the keywords): `ScannerInvariant`, and
from it `NothingIsSkipped` (`NothingSkipped`), `TokensAreLongest` (`LongestMatch`), `TokensAreLocated` (`Located`) and `ScannerStaysIn`
(`InSource`). The loops of `skipWhitespace` and `string()` are functions that are defined by themselves on the places up to the end of
the text. That there are such functions is not taken for granted: going back from the end, none is the last place from which
there is no such function (`SkipsExist`, `RoundsExist`). After that a round is unfolded at a time, and what a loop does is
proved by the greatest place for which it fails. `ScanInv` keeps `TokenFacts`: where a token was looked for, what was skipped
(`Gap`), and what its kind says of the places it covers and of the one it stops at (`Scans`). That one is what `LongestMatch` needs:
a longer text would go over it. For strings the scanner goes forward over escapes while `IsString` counts backslashes backward;
`Segment` is what one round takes, and `SegmentKeeps` says that whether a later character is escaped (`Esc`) can be told from either
end of it. `PlaceFacts` holds until a token holds a line end (`Clean`); `NotAhead`, that no line is counted too many, holds always, since a
round that gives up at a line end leaves it to the token (`BrokenHolds`). `LineIs` and `StartsAt`
stand for the line and its start that `Located` computes from the text (`LinesAre`, `LineStartIs`), and `Counted` is what
`skipWhitespace` owes to them.

Assumed: `HeapAssumption`, `ArenaAssumption`, `TableAssumption`, `QueueAssumption`, `BinaryAssumption`,
`ScopesAssumption`, `ExceptionsAssumption`. All are about constants, and TLC evaluates them for the instances (`Constants` in `MCStructures` for those
of the table, the queue and the files).

Only model-checked:

* Liveness (`CollectionEnds`, `IterationEnds`): the prover does not reason about fairness.
* `MeansTree` and `HeightsAgree` of `Meaning`: they compare recursive operators over trees and code, for which
  the prover has neither the operators nor the induction.
* `SwitchReserved` and the others of `Scopes` with switch statements, and the properties of `Exceptions` with jumps out of try
  statements: they are false.

## Plan

1. Heap, collector, tables, files, scopes, exceptions, the arena, the scanner and expressions are modelled.
2. The heap, the collector, the table and its iterator, the ring buffer, the chunk, bytecode files, the arena, the compiler's scopes,
   exceptions and the scanner are proved about.
3. Every invariant of the models of 2 that the runs pass is a theorem; what stays with the model checker is listed above.

## Not modelled

* The natives and the primitive classes: each is a sequence of C calls without steps of others in between; what the
  garbage collector could do to their temporaries is listed under hazards.
* Class declarations, `this`, `super` and static members in the compiler: what they do to the heap is in `Heap`.
* The flex scanner, generated from its rules; the disassembler, which changes nothing; option parsing, input files, the
  module generator: input and output in sequence, with no state that outlives the call.

The same per part, with the parts modelled in part, is in `PROJECT.json` under "components".
