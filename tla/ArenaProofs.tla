----------------------------- MODULE ArenaProofs -----------------------------
(***************************************************************************)
(* An arena whose blocks are never shrunk keeps them apart, for every      *)
(* alignment, capacity and set of requested sizes.  The invariant says it  *)
(* of what the headers tell, not of what the caller asked for: that is     *)
(* what arena_realloc and arena_free go by.                                *)
(***************************************************************************)
EXTENDS Arena, TLAPS

(* The places that the headers tell do not overlap *)
Apart ==
  \A b, c \in live : b # c => b.at + b.size <= c.at \/ c.at + c.size <= b.at

Behind == \A b \in live : b.at >= Alignment

IInv == TypeOK /\ InFront /\ Apart /\ Behind

-----------------------------------------------------------------------------
(* ALIGNED_BLOCK_SIZE has room for a header and what is asked for *)
LEMMA AlignedCovers ==
  ASSUME NEW n \in Nat
  PROVE  Aligned(n) \in Nat /\ Aligned(n) >= Alignment + n
<1>1. /\ (Alignment + n + Alignment - 1) \div Alignment \in Int
      /\ Alignment + n + Alignment - 1
           < ((Alignment + n + Alignment - 1) \div Alignment) * Alignment + Alignment
  BY ArenaAssumption, SMT
<1> QED BY <1>1, ArenaAssumption, SMT DEF Aligned

LEMMA BlockFields ==
  ASSUME TypeOK, NEW b \in live
  PROVE  b.at \in Nat /\ b.used \in Nat /\ b.size \in Nat
BY DEF TypeOK

LEMMA InitInv == Init => IInv
BY ArenaAssumption DEF Init, IInv, TypeOK, InFront, Apart, Behind

(* What takes blocks away and puts the position behind those that stay *)
LEMMA Keeping ==
  ASSUME IInv, live' \subseteq live,
         position' \in Alignment..Capacity, saved' \subseteq Alignment..Capacity,
         \A b \in live' : b.at + b.size <= position'
  PROVE  IInv'
BY DEF IInv, TypeOK, InFront, Apart, Behind, End

(* What takes a block at the position, and perhaps gives one up *)
LEMMA Adding ==
  ASSUME IInv, NEW n \in Requests, Fits(n), NEW L \in SUBSET live,
         live' = L \cup {Block(position, n, Aligned(n))},
         position' = position + Aligned(n), saved' = saved
  PROVE  IInv'
<1> DEFINE new == Block(position, n, Aligned(n))
<1>1. n \in Nat /\ Aligned(n) \in Nat /\ Aligned(n) >= Alignment + n
  BY ArenaAssumption, AlignedCovers
<1>2. position \in Nat /\ position >= Alignment
  BY ArenaAssumption DEF IInv, TypeOK
<1>3. new.at = position /\ new.used = n /\ new.size = Aligned(n)
      /\ new \in [at : Nat, used : Nat, size : Nat]
  BY <1>1, <1>2 DEF Block
<1>4. \A b \in L : /\ b.at \in Nat /\ b.used \in Nat /\ b.size \in Nat
                   /\ b.at + b.size <= position /\ End(b) <= b.at + b.size
                   /\ b.at >= Alignment
  BY DEF IInv, TypeOK, InFront, Behind
<1> HIDE DEF new
<1>5. TypeOK'
  BY <1>1, <1>2, <1>3, ArenaAssumption DEF IInv, TypeOK, Fits, new
<1>6. InFront'
  BY <1>1, <1>2, <1>3, <1>4, ArenaAssumption DEF InFront, End, new
<1>7. Apart'
  <2> SUFFICES ASSUME NEW b \in live', NEW c \in live', b # c
               PROVE  b.at + b.size <= c.at \/ c.at + c.size <= b.at
    BY DEF Apart
  <2>1. CASE b \in L /\ c \in L
    BY <2>1 DEF IInv, Apart
  <2>2. CASE b = new
    BY <2>2, <1>3, <1>4 DEF new
  <2>3. CASE c = new
    BY <2>3, <1>3, <1>4 DEF new
  <2> QED BY <2>1, <2>2, <2>3 DEF new
<1>8. Behind'
  BY <1>2, <1>3, <1>4 DEF Behind, new
<1> QED BY <1>5, <1>6, <1>7, <1>8 DEF IInv

(* What changes a block where it is, with a position behind all the others *)
LEMMA Changing ==
  ASSUME IInv, NEW b \in live, NEW d \in [at : Nat, used : Nat, size : Nat],
         d.at = b.at, End(d) <= d.at + d.size, d.at + d.size <= position',
         \A c \in live : c # b => \/ c.at + c.size <= d.at
                                  \/ d.at + d.size <= c.at /\ c.at + c.size <= position',
         live' = (live \ {b}) \cup {d},
         position' \in Alignment..Capacity, saved' = saved
  PROVE  IInv'
<1>1. \A c \in live : /\ c.at \in Nat /\ c.used \in Nat /\ c.size \in Nat
                      /\ End(c) <= c.at + c.size /\ c.at >= Alignment
  BY DEF IInv, TypeOK, InFront, Behind
<1>2. d.at \in Nat /\ d.size \in Nat
  OBVIOUS
<1>3. TypeOK'
  BY DEF IInv, TypeOK
<1>4. position' \in Int
  BY ArenaAssumption
<1>5. \A c \in live : c # b => c.at + c.size <= position'
  BY <1>1, <1>2, <1>4
<1>6. InFront'
  BY <1>1, <1>2, <1>4, <1>5 DEF InFront, End
<1>7. Apart'
  BY DEF IInv, Apart
<1>8. Behind'
  BY <1>1 DEF Behind
<1> QED BY <1>3, <1>6, <1>7, <1>8 DEF IInv

-----------------------------------------------------------------------------
LEMMA StepInv ==
  ASSUME ~Shrinking, IInv, [Next]_vars
  PROVE  IInv'
<1>1. /\ position \in Alignment..Capacity /\ saved \subseteq Alignment..Capacity
      /\ position \in Nat
  BY ArenaAssumption DEF IInv, TypeOK
<1>2. \A b \in live : /\ b.at \in Nat /\ b.used \in Nat /\ b.size \in Nat
                      /\ End(b) <= b.at + b.size /\ b.at + b.size <= position
                      /\ b.at >= Alignment /\ b.size > 0
  BY ArenaAssumption DEF IInv, TypeOK, InFront, Behind, End
<1>3. ASSUME NEW n \in Requests, Alloc(n) PROVE IInv'
  BY <1>3, Adding DEF Alloc
<1>4. ASSUME NEW b \in live, Free(b) \/ ReallocNothing(b) PROVE IInv'
  <2>1. /\ live' = live \ {b} /\ saved' = saved
        /\ position' = IF Last(b) THEN position - b.size ELSE position
    BY <1>4 DEF Free, ReallocNothing
  <2>2. position' \in Alignment..Capacity
    BY <2>1, <1>1, <1>2, ArenaAssumption DEF Last
  <2>3. \A c \in live' : c.at + c.size <= position'
    <3> SUFFICES ASSUME NEW c \in live, c # b
                 PROVE  c.at + c.size <= position'
      BY <2>1
    <3>1. CASE ~Last(b)
      BY <3>1, <2>1, <1>2
    <3>2. CASE Last(b)
      <4>1. position' = b.at
        BY <3>2, <2>1, <1>1, <1>2 DEF Last
      <4>2. c.at + c.size <= b.at \/ b.at + b.size <= c.at
        BY DEF IInv, Apart
      <4>3. c.at + c.size <= b.at + b.size
        BY <3>2, <1>2 DEF Last
      <4> QED BY <4>1, <4>2, <4>3, <1>2
    <3> QED BY <3>1, <3>2
  <2> QED BY <2>1, <2>2, <2>3, <1>1, Keeping
<1>5. ASSUME NEW b \in live, NEW n \in Requests, ReallocWithin(b, n) PROVE IInv'
  <2>1. n \in Nat /\ Aligned(n) \in Nat /\ Aligned(n) >= Alignment + n
    BY ArenaAssumption, AlignedCovers
  <2>2. Aligned(n) = b.size
    BY <1>5, <2>1, <1>2 DEF ReallocWithin
  <2> DEFINE d == [b EXCEPT !.used = n]
  <2>3. /\ d \in [at : Nat, used : Nat, size : Nat]
        /\ d.at = b.at /\ d.size = b.size /\ d.used = n
    BY <2>1 DEF IInv, TypeOK
  <2>4. position' = position /\ saved' = saved /\ live' = (live \ {b}) \cup {d}
    BY <1>5, <2>2, <1>1, <1>2 DEF ReallocWithin
  <2> HIDE DEF d
  <2>5. \A c \in live : c # b => \/ c.at + c.size <= d.at
                                 \/ d.at + d.size <= c.at /\ c.at + c.size <= position'
    BY <2>3, <2>4, <1>2 DEF IInv, Apart
  <2>6. End(d) <= d.at + d.size /\ d.at + d.size <= position'
    BY <2>1, <2>2, <2>3, <2>4, <1>2, ArenaAssumption DEF End
  <2> QED BY <2>3, <2>4, <2>5, <2>6, <1>1, Changing
<1>6. ASSUME NEW b \in live, NEW n \in Requests, ReallocInPlace(b, n) PROVE IInv'
  <2>1. n \in Nat /\ Aligned(n) \in Nat /\ Aligned(n) >= Alignment + n
    BY ArenaAssumption, AlignedCovers
  <2> DEFINE d == Block(b.at, n, Aligned(n))
  <2>2. /\ d \in [at : Nat, used : Nat, size : Nat]
        /\ d.at = b.at /\ d.size = Aligned(n) /\ d.used = n
    BY <2>1, <1>2 DEF Block
  <2>3. position' = b.at + Aligned(n) /\ b.at + Aligned(n) <= Capacity
    BY <1>6, <2>1, <1>1, <1>2 DEF ReallocInPlace, InPlace, Last
  <2>4. saved' = saved /\ live' = (live \ {b}) \cup {d}
    BY <1>6 DEF ReallocInPlace
  <2>5. position' \in Alignment..Capacity
    BY <2>1, <2>3, <1>2, ArenaAssumption
  <2> HIDE DEF d
  <2>6. \A c \in live : c # b => c.at + c.size <= d.at
    <3> SUFFICES ASSUME NEW c \in live, c # b
                 PROVE  c.at + c.size <= b.at
      BY <2>2
    <3>1. c.at + c.size <= b.at \/ b.at + b.size <= c.at
      BY DEF IInv, Apart
    <3>2. c.at + c.size <= b.at + b.size
      BY <1>6, <1>2 DEF ReallocInPlace, InPlace, Last
    <3> QED BY <3>1, <3>2, <1>2
  <2>7. End(d) <= d.at + d.size /\ d.at + d.size <= position'
    BY <2>1, <2>2, <2>3, <1>2, ArenaAssumption DEF End
  <2> QED BY <2>2, <2>4, <2>5, <2>6, <2>7, Changing
<1>7. ASSUME NEW b \in live, NEW n \in Requests, ReallocMoving(b, n) PROVE IInv'
  <2>1. live \ {b} \in SUBSET live
    OBVIOUS
  <2> QED BY <1>7, <2>1, Adding DEF ReallocMoving
<1>8. CASE Save
  BY <1>8, <1>1, ArenaAssumption DEF Save, IInv, TypeOK, InFront, Apart, Behind
<1>9. ASSUME NEW c \in saved, Rewind(c) PROVE IInv'
  <2>1. position' \in Alignment..Capacity /\ saved' \subseteq Alignment..Capacity
    BY <1>1, <1>9 DEF Rewind
  <2>2. live' \subseteq live /\ \A b \in live' : b.at + b.size <= position'
    BY <1>9 DEF Rewind, Kept
  <2> QED BY <2>1, <2>2, Keeping
<1>10. CASE Reset
  <2>1. position' \in Alignment..Capacity /\ saved' \subseteq Alignment..Capacity
    BY <1>10, ArenaAssumption DEF Reset
  <2>2. live' \subseteq live /\ \A b \in live' : b.at + b.size <= position'
    BY <1>10 DEF Reset
  <2> QED BY <2>1, <2>2, Keeping
<1>11. CASE UNCHANGED vars
  BY <1>11 DEF vars, IInv, TypeOK, InFront, Apart, Behind
<1> QED BY <1>3, <1>4, <1>5, <1>6, <1>7, <1>8, <1>9, <1>10, <1>11 DEF Next, Realloc

-----------------------------------------------------------------------------
(* Blocks that the headers keep apart are apart in what is used of them    *)
LEMMA InvDisjoint == IInv => Disjoint /\ LastIsLast
<1> SUFFICES ASSUME IInv PROVE Disjoint /\ LastIsLast
  OBVIOUS
<1>1. \A b \in live : /\ b.at \in Nat /\ b.used \in Nat /\ b.size \in Nat
                      /\ End(b) <= b.at + b.size /\ b.at + b.size <= position
                      /\ End(b) \in Nat /\ b.size > 0
  BY ArenaAssumption DEF IInv, TypeOK, InFront, End
<1>2. Disjoint
  BY <1>1 DEF IInv, Apart, Disjoint
<1>3. LastIsLast
  <2> SUFFICES ASSUME NEW b \in live, NEW c \in live, Last(b)
               PROVE  c.at <= b.at
    BY DEF LastIsLast
  <2>1. CASE c = b
    BY <2>1, <1>1
  <2>2. CASE c # b
    <3>1. c.at + c.size <= b.at \/ b.at + b.size <= c.at
      BY <2>2 DEF IInv, Apart
    <3>2. c.at + c.size <= b.at + b.size
      BY <1>1 DEF Last
    <3> QED BY <3>1, <3>2, <1>1
  <2> QED BY <2>1, <2>2
<1> QED BY <1>2, <1>3

LEMMA Invariant ==
  ASSUME ~Shrinking
  PROVE  Spec => []IInv
<1>1. Init => IInv
  BY InitInv
<1>2. IInv /\ [Next]_vars => IInv'
  BY StepInv
<1> QED BY <1>1, <1>2, PTL DEF Spec

(* As long as the caller does not shrink a block, no two blocks that it    *)
(* may use share a byte, whatever it frees, grows, moves, saves and        *)
(* rewinds (arena_alloc, arena_realloc, arena_free, arena_rewind).         *)
THEOREM BlocksApart ==
  ASSUME ~Shrinking
  PROVE  Spec => []Disjoint
<1>1. IInv => Disjoint
  BY InvDisjoint
<1>2. Spec => []IInv
  BY Invariant
<1> QED BY <1>1, <1>2, PTL

(* As long as the caller does not shrink a block, arena_last_alloc takes   *)
(* no block for the last that has another behind it.                       *)
THEOREM LastFound ==
  ASSUME ~Shrinking
  PROVE  Spec => []LastIsLast
<1>1. IInv => LastIsLast
  BY InvDisjoint
<1>2. Spec => []IInv
  BY Invariant
<1> QED BY <1>1, <1>2, PTL

(* As long as the caller does not shrink a block, the position stays       *)
(* between the end of arena_t and the capacity, and every checkpoint that  *)
(* may be rewound to lies there too.                                       *)
THEOREM TypeCorrect ==
  ASSUME ~Shrinking
  PROVE  Spec => []TypeOK
<1>1. IInv => TypeOK
  BY DEF IInv
<1>2. Spec => []IInv
  BY Invariant
<1> QED BY <1>1, <1>2, PTL
=============================================================================
