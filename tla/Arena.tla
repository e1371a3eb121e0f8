-------------------------------- MODULE Arena --------------------------------
(***************************************************************************)
(* The arena allocator of lib/common: blocks behind one another, each with *)
(* a header that holds its size, and a position behind the last.           *)
(*                                                                         *)
(* live are the blocks that the caller may use: at is the address of the   *)
(* header, used the bytes it asked for behind the header, size what the    *)
(* header says.  A header is not modelled as bytes of its own: as long as  *)
(* live blocks do not overlap nobody writes into it.  The caller keeps the *)
(* asserted rules: it passes only blocks that it may use, and rewinds only *)
(* to a position it saved and has not rewound behind since.  A rewind ends *)
(* the blocks that reach beyond the position, those among them that grew   *)
(* since it was saved too.                                                 *)
(***************************************************************************)
EXTENDS Integers

CONSTANTS
  Alignment,   \* ARENA_ALIGNMENT, also the size of a header and of arena_t
  Capacity,
  Requests,    \* the sizes that the caller asks for
  Shrinking    \* whether it asks for less than a block has

ASSUME ArenaAssumption ==
  /\ Alignment \in Nat \ {0}
  /\ Capacity \in Nat /\ Capacity >= Alignment
  /\ Requests \subseteq Nat
  /\ Shrinking \in BOOLEAN

VARIABLES
  position,
  live,        \* the blocks that the caller may use
  saved        \* the positions that it may rewind to

vars == <<position, live, saved>>

Block(at, used, size) == [at |-> at, used |-> used, size |-> size]
End(b) == b.at + Alignment + b.used      \* what the caller uses of a block

(* ALIGNED_BLOCK_SIZE *)
Aligned(n) == ((Alignment + n + Alignment - 1) \div Alignment) * Alignment

(* arena_last_alloc *)
Last(b) == b.at + b.size = position

(* mutant: the header and the rounding are not counted *)
FitsBare(n) == position + n <= Capacity

(* arena_alloc finds room *)
Fits(n) == position + Aligned(n) <= Capacity

-----------------------------------------------------------------------------
(* arena_alloc, and arena_calloc for a product that does not overflow *)
Alloc(n) ==
  /\ Fits(n)
  /\ live' = live \cup {Block(position, n, Aligned(n))}
  /\ position' = position + Aligned(n)
  /\ UNCHANGED saved

(* arena_realloc to nothing; the block is not marked as free *)
ReallocNothing(b) ==
  /\ live' = live \ {b}
  /\ position' = IF Last(b) THEN position - b.size ELSE position
  /\ UNCHANGED saved

(* arena_realloc to what the block has room for: its size stays *)
ReallocWithin(b, n) ==
  /\ n > 0 /\ Aligned(n) <= b.size
  /\ Aligned(n) < b.size => Shrinking
  /\ live' = (live \ {b}) \cup {[b EXCEPT !.used = n]}
  /\ position' = IF Last(b) THEN position - (b.size - Aligned(n)) ELSE position
  /\ UNCHANGED saved

(* mutant: any block grows in place *)
InPlaceAlways(b, n) == b.at + Aligned(n) <= Capacity

(* the last block grows where it is, if the arena has room behind it *)
InPlace(b, n) == Last(b) /\ b.at + Aligned(n) <= Capacity

ReallocInPlace(b, n) ==
  /\ Aligned(n) > b.size /\ InPlace(b, n)
  /\ live' = (live \ {b}) \cup {Block(b.at, n, Aligned(n))}
  /\ position' = position + (Aligned(n) - b.size)
  /\ UNCHANGED saved

(* any other moves, if there is room; the place it leaves is not used again *)
ReallocMoving(b, n) ==
  /\ Aligned(n) > b.size /\ ~Last(b) /\ Fits(n)
  /\ live' = (live \ {b}) \cup {Block(position, n, Aligned(n))}
  /\ position' = position + Aligned(n)
  /\ UNCHANGED saved

(* arena_free: only the last block gives its place back *)
Free(b) ==
  /\ live' = live \ {b}
  /\ position' = IF Last(b) THEN position - b.size ELSE position
  /\ UNCHANGED saved

(* arena_save *)
Save ==
  /\ saved' = saved \cup {position}
  /\ UNCHANGED <<position, live>>

(* mutant: only blocks that start behind the checkpoint are given up *)
KeptFromStart(c) == {b \in live : b.at < c}

(* what the caller keeps when it rewinds to c *)
Kept(c) == {b \in live : b.at + b.size <= c}

(* arena_rewind *)
Rewind(c) ==
  /\ position' = c
  /\ live' = Kept(c)
  /\ saved' = {s \in saved : s <= c}

(* arena_reset *)
Reset ==
  /\ position' = Alignment
  /\ live' = {}
  /\ saved' = {}

-----------------------------------------------------------------------------
(* arena_create *)
Init ==
  /\ position = Alignment
  /\ live = {}
  /\ saved = {}

Realloc(b, n) == ReallocWithin(b, n) \/ ReallocInPlace(b, n) \/ ReallocMoving(b, n)

Next ==
  \/ \E n \in Requests : Alloc(n)
  \/ \E b \in live : \/ Free(b)
                     \/ ReallocNothing(b)
                     \/ \E n \in Requests : Realloc(b, n)
  \/ Save \/ \E c \in saved : Rewind(c)
  \/ Reset

Spec == Init /\ [][Next]_vars

-----------------------------------------------------------------------------
(* Properties *)

TypeOK ==
  /\ position \in Alignment..Capacity
  /\ live \subseteq [at : Nat, used : Nat, size : Nat]
  /\ saved \subseteq Alignment..Capacity

(* No two blocks that the caller may use share a byte, whatever was freed, *)
(* grown, moved or rewound in between.                                     *)
Disjoint ==
  \A b, c \in live : b # c => End(b) <= c.at \/ End(c) <= b.at

(* Every one is in front of the position, from where the next is taken,    *)
(* and its header leaves it the bytes that were asked for.                 *)
InFront == \A b \in live : End(b) <= b.at + b.size /\ b.at + b.size <= position

(* "Make sure no size reduction if it's not a last allocation": a block    *)
(* that arena_last_alloc takes for the last has no other behind it, so     *)
(* that to give it back or to let it grow touches no other.                *)
LastIsLast == \A b, c \in live : Last(b) => c.at <= b.at
=============================================================================
