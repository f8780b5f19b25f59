--------------------------- MODULE KmallocProofs ---------------------------
(***************************************************************************)
(* The kernel heap stays tiled by its blocks, the pointers in use own      *)
(* theirs, and no call touches the block of another pointer, for any sizes *)
(* of headers, pages and requests and any number of blocks.                *)
(***************************************************************************)
EXTENDS Kmalloc, FiniteSetTheorems, WellFoundedInduction, TLAPS

\* Time for the provers.
USE SMTT(20), ZenonT(20)

-----------------------------------------------------------------------------
(* The invariant, of a heap as a value.                                    *)

\* The address where a block ends.
Stop(B, b) == b + HEADER + B[b].size

\* A block lies in the heap, its next link leads to the block that starts where
\* it ends, which leads back to it, and its prev link to the one that ends where
\* it starts.
Placed(B, e, b) ==
    /\ KHEAP_START <= b /\ Stop(B, b) <= e
    /\ B[b].next = (IF Stop(B, b) = e THEN NULL ELSE Stop(B, b))
    /\ Stop(B, b) # e => Stop(B, b) \in DOMAIN B /\ B[Stop(B, b)].prev = b
    /\ b = KHEAP_START => B[b].prev = NULL
    /\ b # KHEAP_START => B[b].prev \in DOMAIN B /\ Stop(B, B[b].prev) = b

\* The blocks fill the memory from KHEAP_START to e and do not overlap.
Tiles(B, e) ==
    /\ e \in Nat /\ KHEAP_START <= e
    /\ DOMAIN B \subseteq Nat /\ B \in [DOMAIN B -> Block]
    /\ \A b \in DOMAIN B : Placed(B, e, b)
    /\ \A b, c \in DOMAIN B : b < c => Stop(B, b) <= c
    /\ e # KHEAP_START => KHEAP_START \in DOMAIN B /\ \E l \in DOMAIN B : Stop(B, l) = e

\* No free block is followed by a free one, unless that is x.
Apart(B, x) ==
    \A b \in DOMAIN B :
        B[b].free /\ B[b].next # NULL /\ B[b].next # x => ~B[B[b].next].free

Used(B) == {b \in DOMAIN B : ~B[b].free}

IsHeap(h) == h = [head |-> h.head, end |-> h.end, blocks |-> h.blocks]

HeapInv(h) ==
    /\ IsHeap(h) /\ Tiles(h.blocks, h.end) /\ Apart(h.blocks, NULL)
    /\ h.head = (IF h.end = KHEAP_START THEN NULL ELSE KHEAP_START)

\* The used blocks are those of the pointers in use, and large enough for them.
Owns(B, L) ==
    /\ DOMAIN L \subseteq Nat /\ Used(B) = {p - HEADER : p \in DOMAIN L}
    /\ \A p \in DOMAIN L : B[p - HEADER].size >= L[p]

Framed == freed \in 0..MAX_FREED /\ frames \in 0..(FRAMES + freed)

KmInv == HeapInv(heap) /\ Owns(heap.blocks, live) /\ Framed

-----------------------------------------------------------------------------
(* Arithmetic, and the walk along the links.                               *)

\* Rounding up to a multiple gives one that is large enough.
LEMMA RoundsUp ==
    ASSUME NEW n \in Nat, NEW p \in Nat \ {0}
    PROVE  /\ (n + p - 1) \div p \in Nat
           /\ ((n + p - 1) \div p) * p \in Nat /\ ((n + p - 1) \div p) * p >= n
<1> DEFINE q == (n + p - 1) \div p
           r == (n + p - 1) % p
<1>1. n + p - 1 \in Nat
  OBVIOUS
<1>2. q \in Int /\ r \in 0..(p - 1) /\ n + p - 1 = q * p + r
  BY <1>1
<1> HIDE DEF q, r
<1>3. q * p \in Int /\ q * p >= n
  BY <1>2
<1>4. q >= 0
  <2>1. q < 0 => q * p <= 0 - p
    BY <1>2
  <2> QED BY <1>2, <1>3, <2>1
<1> QED BY <1>2, <1>3, <1>4 DEF q

\* A set of numbers that is not empty has a least one.
LEMMA LeastOf ==
    ASSUME NEW S, S \subseteq Nat, S # {}
    PROVE  \E m \in S : \A j \in S : m <= j
<1> DEFINE R == OpToRel(<, Nat)
<1>1. IsWellFoundedOn(R, Nat)
  BY Zenon, NatLessThanWellFounded
<1> HIDE DEF R
<1>2. PICK x \in S : \A y \in S : ~(<<y, x>> \in R)
  BY Zenon, <1>1, WFMin
<1>3. \A y \in S : ~(y < x)
  BY Zenon, <1>2 DEF R, OpToRel
<1> QED BY <1>2, <1>3

\* OneOf picks an element if there is one.
LEMMA OneOfIn == ASSUME NEW S PROVE (S = {} /\ OneOf(S) = NULL) \/ OneOf(S) \in S
  BY Zenon DEF OneOf

\* What a block and its end are.
LEMMA BlockOf ==
    ASSUME NEW B, NEW e, Tiles(B, e), NEW b \in DOMAIN B
    PROVE  /\ b \in Nat /\ b >= KHEAP_START /\ b # NULL
           /\ B[b] \in Block /\ B[b].size \in Nat /\ B[b].free \in BOOLEAN
           /\ Stop(B, b) \in Nat /\ b < Stop(B, b) /\ Stop(B, b) <= e
           /\ Placed(B, e, b)
<1>1. b \in Nat /\ B[b] \in Block /\ Placed(B, e, b)
  BY Zenon DEF Tiles
<1>2. B[b].size \in Nat /\ B[b].free \in BOOLEAN
  BY ONLY <1>1 DEF Block
<1>3. KHEAP_START <= b /\ Stop(B, b) <= e
  BY Zenon, <1>1 DEF Placed
<1>4. HEADER \in Nat \ {0} /\ KHEAP_START \in Nat \ {0}
  BY Zenon, KmallocAssumption
<1>5. Stop(B, b) \in Nat /\ b < Stop(B, b)
  BY ONLY <1>1, <1>2, <1>4 DEF Stop
<1>6. b # NULL
  BY ONLY <1>1, <1>3, <1>4 DEF NULL
<1> QED BY <1>1, <1>2, <1>3, <1>5, <1>6

\* The walk from heap_head meets every block: the least block that it missed
\* would have a block before it.
LEMMA MeetsAll ==
    ASSUME NEW h, Tiles(h.blocks, h.end),
           h.head = (IF h.end = KHEAP_START THEN NULL ELSE KHEAP_START)
    PROVE  Met(h, {}) = DOMAIN h.blocks
<1> DEFINE B == h.blocks
<1> SUFFICES ASSUME NEW met \in SUBSET DOMAIN B,
                    h.head # NULL => h.head \in met,
                    \A c \in met : B[c].next \in met \cup {NULL},
                    DOMAIN B \ met # {}
             PROVE  FALSE
  BY Zenon DEF Met
<1>1. DOMAIN B \ met \subseteq Nat
  BY Zenon DEF Tiles
<1>2. PICK x \in DOMAIN B \ met : \A y \in DOMAIN B \ met : x <= y
  BY Zenon, <1>1, LeastOf
<1>3. x \in Nat /\ x >= KHEAP_START /\ x # NULL /\ x < Stop(B, x) /\ Stop(B, x) <= h.end
      /\ Stop(B, x) \in Nat /\ Placed(B, h.end, x)
  BY Zenon, <1>2, BlockOf
<1>4. KHEAP_START \in Nat \ {0} /\ h.end \in Nat
  BY Zenon, KmallocAssumption DEF Tiles
<1>5. x # KHEAP_START
  <2>1. h.end # KHEAP_START
    BY <1>3, <1>4
  <2>2. h.head = KHEAP_START /\ KHEAP_START # NULL
    BY <1>4, <2>1 DEF NULL
  <2> QED BY Zenon, <1>2, <2>2
<1>6. PICK p \in DOMAIN B : p = B[x].prev /\ Stop(B, p) = x
  BY Zenon, <1>3, <1>5 DEF Placed
<1>7. p \in Nat /\ p < x /\ Placed(B, h.end, p)
  BY ZenonT(30), <1>6, BlockOf
<1>8. p \in met
  BY <1>2, <1>3, <1>6, <1>7
<1>9. x # h.end
  BY <1>3, <1>4
<1>10. B[p].next = x
  BY Zenon, <1>6, <1>7, <1>9 DEF Placed
<1> QED BY Zenon, <1>2, <1>3, <1>8, <1>10

\* The blocks that kmalloc could take.
Fitting(h, size) == {b \in DOMAIN h.blocks : h.blocks[b].free /\ h.blocks[b].size >= size}

\* The walk ends at the lowest fitting block: it meets the blocks up to there,
\* and none above.
LEMMA StopsAtLowest ==
    ASSUME NEW h, Tiles(h.blocks, h.end),
           h.head = (IF h.end = KHEAP_START THEN NULL ELSE KHEAP_START),
           NEW fit \in SUBSET DOMAIN h.blocks, NEW f \in fit, \A c \in fit : f <= c
    PROVE  Met(h, fit) \cap fit = {f}
<1> DEFINE B == h.blocks
           below == {b \in DOMAIN B : b <= f}
<1>1. f \in DOMAIN B /\ f \in Nat /\ f >= KHEAP_START /\ DOMAIN B \subseteq Nat
      /\ KHEAP_START \in Nat \ {0} /\ h.end \in Nat /\ KHEAP_START <= h.end
  BY Zenon, BlockOf, KmallocAssumption DEF Tiles
<1>2. f \in Met(h, fit)
  <2> SUFFICES ASSUME NEW met \in SUBSET DOMAIN B,
                      h.head # NULL => h.head \in met,
                      \A c \in met \ fit : B[c].next \in met \cup {NULL},
                      f \notin met
               PROVE  FALSE
    BY Zenon, <1>1 DEF Met
  <2>1. PICK x \in DOMAIN B \ met : \A y \in DOMAIN B \ met : x <= y
    <3>1. DOMAIN B \ met \subseteq Nat /\ DOMAIN B \ met # {}
      BY Zenon, <1>1
    <3> QED BY Zenon, <3>1, LeastOf
  <2>2. x \in Nat /\ x >= KHEAP_START /\ x # NULL /\ x < Stop(B, x) /\ Stop(B, x) <= h.end
        /\ Stop(B, x) \in Nat /\ Placed(B, h.end, x) /\ x <= f
    BY Zenon, <1>1, <2>1, BlockOf
  <2>3. x # KHEAP_START
    <3>1. h.end # KHEAP_START
      BY <1>1, <2>2
    <3>2. h.head = KHEAP_START /\ KHEAP_START # NULL
      BY <1>1, <3>1 DEF NULL
    <3> QED BY Zenon, <2>1, <3>2
  <2>4. PICK p \in DOMAIN B : p = B[x].prev /\ Stop(B, p) = x
    BY Zenon, <2>2, <2>3 DEF Placed
  <2>5. p \in Nat /\ p < x /\ Placed(B, h.end, p)
    BY ZenonT(30), <2>4, BlockOf
  <2>6. p \in met /\ p \notin fit
    <3>1. ~(x <= p) /\ ~(f <= p)
      BY <1>1, <2>2, <2>5
    <3> QED BY Zenon, <2>1, <3>1
  <2>7. x # h.end
    BY <1>1, <2>2
  <2>8. B[p].next = x
    BY Zenon, <2>4, <2>5, <2>7 DEF Placed
  <2> QED BY Zenon, <2>1, <2>2, <2>6, <2>8
<1>3. ASSUME NEW b \in Met(h, fit) \cap fit PROVE b = f
  <2>1. h.head # NULL => h.head \in below
    <3>1. CASE h.end = KHEAP_START
      BY Zenon, <3>1
    <3>2. CASE h.end # KHEAP_START
      BY Zenon, <1>1, <3>2 DEF Tiles
    <3> QED BY Zenon, <3>1, <3>2
  <2>2. ASSUME NEW c \in below \ fit PROVE B[c].next \in below \cup {NULL}
    <3>1. c \in Nat /\ Placed(B, h.end, c) /\ c \in DOMAIN B /\ c <= f /\ c # f
      BY Zenon, <2>2, BlockOf
    <3>2. c < f
      BY <1>1, <3>1
    <3>3. Stop(B, c) <= f
      BY Zenon, <1>1, <3>1, <3>2 DEF Tiles
    <3> QED BY Zenon, <3>1, <3>3 DEF Placed
  <2>3. b \in below
    <3> HIDE DEF below
    <3>1. below \in SUBSET DOMAIN B
      BY Zenon DEF below
    <3> QED BY Zenon, <1>3, <2>1, <2>2, <3>1 DEF Met
  <2>4. b <= f /\ f <= b /\ b \in Nat
    BY Zenon, <1>1, <1>3, <2>3
  <2> QED BY <1>1, <2>4
<1> QED BY Zenon, <1>2, <1>3

\* kmalloc's search finds the lowest fitting block, and none only if there is none.
LEMMA FitIsLowest ==
    ASSUME NEW h, Tiles(h.blocks, h.end),
           h.head = (IF h.end = KHEAP_START THEN NULL ELSE KHEAP_START), NEW size
    PROVE  /\ Fitting(h, size) = {} => FirstFit(h, size) = NULL
           /\ Fitting(h, size) # {} =>
                 /\ FirstFit(h, size) \in Fitting(h, size)
                 /\ \A c \in Fitting(h, size) : FirstFit(h, size) <= c
<1>1. FirstFit(h, size) = OneOf(Met(h, Fitting(h, size)) \cap Fitting(h, size))
  BY Zenon DEF FirstFit, Fitting
<1>2. CASE Fitting(h, size) = {}
  <2>1. Met(h, Fitting(h, size)) \cap Fitting(h, size) = {}
    BY Zenon, <1>2
  <2> QED BY Zenon, <1>1, <1>2, <2>1 DEF OneOf
<1>3. CASE Fitting(h, size) # {}
  <2>1. Fitting(h, size) \in SUBSET DOMAIN h.blocks
    BY Zenon DEF Fitting
  <2>2. Fitting(h, size) \subseteq Nat
    BY Zenon, <2>1 DEF Tiles
  <2>3. PICK f \in Fitting(h, size) : \A c \in Fitting(h, size) : f <= c
    BY Zenon, <1>3, <2>2, LeastOf
  <2>4. Met(h, Fitting(h, size)) \cap Fitting(h, size) = {f}
    BY Zenon, <2>1, <2>3, StopsAtLowest
  <2>5. OneOf({f}) = f
    BY Zenon, OneOfIn
  <2> QED BY Zenon, <1>1, <1>3, <2>3, <2>4, <2>5
<1> QED BY Zenon, <1>2, <1>3

\* The last block ends where the heap ends.
LEMMA LastIs ==
    ASSUME NEW h, Tiles(h.blocks, h.end),
           h.head = (IF h.end = KHEAP_START THEN NULL ELSE KHEAP_START)
    PROVE  /\ h.end = KHEAP_START => DOMAIN h.blocks = {} /\ LastBlock(h) = NULL
           /\ h.end # KHEAP_START => /\ LastBlock(h) \in DOMAIN h.blocks
                                     /\ Stop(h.blocks, LastBlock(h)) = h.end
<1> DEFINE B == h.blocks
           S == {b \in Met(h, {}) : h.blocks[b].next = NULL}
<1>1. S = {b \in DOMAIN B : B[b].next = NULL} /\ LastBlock(h) = OneOf(S)
  BY Zenon, MeetsAll DEF LastBlock
<1> HIDE DEF S
<1>2. \A b \in DOMAIN B : B[b].next = NULL <=> Stop(B, b) = h.end
  <2> SUFFICES ASSUME NEW b \in DOMAIN B PROVE B[b].next = NULL <=> Stop(B, b) = h.end
    BY Zenon
  <2>1. Placed(B, h.end, b) /\ b \in Nat /\ b < Stop(B, b) /\ Stop(B, b) \in Nat
    BY Zenon, BlockOf
  <2>2. Stop(B, b) # NULL
    BY <2>1 DEF NULL
  <2> QED BY Zenon, <2>1, <2>2 DEF Placed
<1>3. CASE h.end = KHEAP_START
  <2>1. ASSUME NEW b \in DOMAIN B PROVE FALSE
    <3>1. b \in Nat /\ b >= KHEAP_START /\ b < Stop(B, b) /\ Stop(B, b) <= h.end /\ Stop(B, b) \in Nat
      BY Zenon, BlockOf
    <3>2. KHEAP_START \in Nat
      BY KmallocAssumption
    <3> QED BY <1>3, <3>1, <3>2
  <2> QED BY Zenon, <1>1, <1>3, <2>1, OneOfIn
<1>4. CASE h.end # KHEAP_START
  <2>1. S # {}
    BY Zenon, <1>1, <1>2, <1>4 DEF Tiles
  <2>2. OneOf(S) \in S
    BY Zenon, <2>1, OneOfIn
  <2> QED BY Zenon, <1>1, <1>2, <1>4, <2>2
<1> QED BY <1>3, <1>4

-----------------------------------------------------------------------------
(* What changes a heap keeps it tiled.                                     *)

Mark(B, b, f) == [B EXCEPT ![b].free = f]

IsMarked(B, C, b, f) ==
    /\ DOMAIN C = DOMAIN B /\ C[b].free = f
    /\ \A c \in DOMAIN B : /\ C[c].size = B[c].size /\ C[c].next = B[c].next
                           /\ C[c].prev = B[c].prev /\ (c # b => C[c].free = B[c].free)

\* Marking a block leaves sizes and links alone.
LEMMA Marked ==
    ASSUME NEW B, NEW e, Tiles(B, e), NEW b \in DOMAIN B, NEW f \in BOOLEAN,
           NEW C, C = Mark(B, b, f)
    PROVE  Tiles(C, e) /\ IsMarked(B, C, b, f)
<1>1. B \in [DOMAIN B -> Block]
  BY Zenon DEF Tiles
<1>2. /\ DOMAIN C = DOMAIN B /\ C \in [DOMAIN B -> Block] /\ C[b].free = f
      /\ \A c \in DOMAIN B : /\ C[c].size = B[c].size /\ C[c].next = B[c].next
                             /\ C[c].prev = B[c].prev /\ (c # b => C[c].free = B[c].free)
  BY ONLY <1>1, C = Mark(B, b, f), b \in DOMAIN B, f \in BOOLEAN DEF Block, Mark
<1>3. \A c \in DOMAIN B : Stop(C, c) = Stop(B, c)
  BY Zenon, <1>2 DEF Stop
<1>4. ASSUME NEW c \in DOMAIN B PROVE Placed(C, e, c)
  <2>1. Placed(B, e, c)
    BY Zenon DEF Tiles
  <2>2. C[c].next = B[c].next /\ C[c].prev = B[c].prev /\ Stop(C, c) = Stop(B, c)
    BY Zenon, <1>2, <1>3
  <2>3. Stop(B, c) # e => Stop(B, c) \in DOMAIN B /\ C[Stop(B, c)].prev = c
    BY Zenon, <1>2, <2>1 DEF Placed
  <2>4. c # KHEAP_START => B[c].prev \in DOMAIN B /\ Stop(C, B[c].prev) = c
    BY Zenon, <1>3, <2>1 DEF Placed
  <2> QED BY Zenon, <1>2, <2>1, <2>2, <2>3, <2>4 DEF Placed
<1>5. Tiles(C, e)
  BY Zenon, <1>2, <1>3, <1>4 DEF Tiles
<1> QED BY Zenon, <1>2, <1>5 DEF IsMarked

\* A block that is cut in two fills the same memory.
LEMMA Cut ==
    ASSUME NEW B, NEW e, Tiles(B, e), NEW b \in DOMAIN B,
           NEW C, NEW m \in Nat, b < m, m < Stop(B, b),
           DOMAIN C = DOMAIN B \cup {m}, C \in [DOMAIN C -> Block],
           Stop(C, b) = m, Stop(C, m) = Stop(B, b),
           C[b].next = m, C[b].prev = B[b].prev, C[m].next = B[b].next, C[m].prev = b,
           \A c \in DOMAIN B : c # b => C[c].size = B[c].size /\ C[c].next = B[c].next,
           \A c \in DOMAIN B : c # b => C[c].prev = (IF c = B[b].next THEN m ELSE B[c].prev)
    PROVE  Tiles(C, e) /\ m \notin DOMAIN B
<1>1. /\ b \in Nat /\ b >= KHEAP_START /\ Stop(B, b) \in Nat /\ Stop(B, b) <= e
      /\ Placed(B, e, b)
  BY Zenon, BlockOf
<1>2. e \in Nat /\ KHEAP_START \in Nat /\ KHEAP_START <= e
  BY Zenon, KmallocAssumption DEF Tiles
<1>3. \A c, d \in DOMAIN B : c < d => Stop(B, c) <= d
  BY Zenon DEF Tiles
<1>4. m \notin DOMAIN B
  BY <1>1, <1>3
<1>5. \A c \in DOMAIN B : c # b => Stop(C, c) = Stop(B, c)
  BY Zenon DEF Stop
<1>6. \A c \in DOMAIN B : /\ c \in Nat /\ KHEAP_START <= c /\ c < Stop(B, c) /\ Stop(B, c) \in Nat
                          /\ Stop(B, c) <= e /\ Placed(B, e, c)
  BY Zenon, BlockOf
<1>7. Placed(C, e, b)
  <2>1. m # e /\ m <= e
    BY <1>1, <1>2
  <2>2. b # KHEAP_START => /\ B[b].prev \in DOMAIN B /\ B[b].prev # b
                           /\ Stop(C, B[b].prev) = b
    <3> SUFFICES ASSUME b # KHEAP_START
                 PROVE  /\ B[b].prev \in DOMAIN B /\ B[b].prev # b /\ Stop(C, B[b].prev) = b
      BY Zenon
    <3>1. B[b].prev \in DOMAIN B /\ Stop(B, B[b].prev) = b
      BY Zenon, <1>1 DEF Placed
    <3>2. B[b].prev # b
      BY <1>1, <1>6, <3>1
    <3> QED BY Zenon, <1>5, <3>1, <3>2
  <2>3. b = KHEAP_START => B[b].prev = NULL
    BY Zenon, <1>1 DEF Placed
  <2> QED BY Zenon, <1>1, <2>1, <2>2, <2>3 DEF Placed
<1>8. Placed(C, e, m)
  <2>1. m # KHEAP_START /\ KHEAP_START <= m
    BY <1>1, <1>2
  <2>2. C[m].next = (IF Stop(C, m) = e THEN NULL ELSE Stop(C, m))
    BY Zenon, <1>1 DEF Placed
  <2>3. Stop(C, m) # e => Stop(C, m) \in DOMAIN C /\ C[Stop(C, m)].prev = m
    <3> SUFFICES ASSUME Stop(B, b) # e PROVE Stop(B, b) \in DOMAIN B /\ C[Stop(B, b)].prev = m
      BY Zenon
    <3>1. Stop(B, b) \in DOMAIN B /\ B[b].next = Stop(B, b)
      BY Zenon, <1>1 DEF Placed
    <3>2. Stop(B, b) # b
      BY <1>1
    <3> QED BY Zenon, <3>1, <3>2
  <2> QED BY Zenon, <1>1, <2>1, <2>2, <2>3 DEF Placed
<1>9. ASSUME NEW c \in DOMAIN B, c # b PROVE Placed(C, e, c)
  <2>1. Stop(C, c) = Stop(B, c) /\ KHEAP_START <= c /\ Stop(B, c) <= e /\ Placed(B, e, c)
    BY Zenon, <1>5, <1>6, <1>9
  <2>2. C[c].next = (IF Stop(C, c) = e THEN NULL ELSE Stop(C, c))
    BY Zenon, <1>9, <2>1 DEF Placed
  <2>3. Stop(C, c) # e => Stop(C, c) \in DOMAIN C /\ C[Stop(C, c)].prev = c
    <3> SUFFICES ASSUME Stop(B, c) # e PROVE Stop(B, c) \in DOMAIN B /\ C[Stop(B, c)].prev = c
      BY Zenon, <2>1
    <3>1. Stop(B, c) \in DOMAIN B /\ B[Stop(B, c)].prev = c
      BY Zenon, <2>1 DEF Placed
    <3>2. CASE Stop(B, c) = b
      BY Zenon, <3>1, <3>2
    <3>3. CASE Stop(B, c) # b
      <4>1. Stop(B, c) # B[b].next
        <5> SUFFICES ASSUME Stop(B, c) = B[b].next PROVE FALSE
          BY Zenon
        <5>1. Stop(B, c) # NULL
          BY <1>6 DEF NULL
        <5>2. Stop(B, b) # e /\ B[b].next = Stop(B, b) /\ B[Stop(B, b)].prev = b
          BY Zenon, <1>1, <5>1 DEF Placed
        <5> QED BY ZenonT(30), <1>9, <3>1, <5>2
      <4> QED BY Zenon, <3>1, <3>3, <4>1
    <3> QED BY <3>2, <3>3
  <2>4. c = KHEAP_START => C[c].prev = NULL
    <3> SUFFICES ASSUME c = KHEAP_START PROVE C[c].prev = NULL
      BY Zenon
    <3>1. B[c].prev = NULL
      BY Zenon, <2>1 DEF Placed
    <3>2. c # B[b].next
      <4>1. B[b].next = NULL \/ B[b].next = Stop(B, b)
        BY Zenon, <1>1 DEF Placed
      <4>2. c # Stop(B, b) /\ c # NULL
        BY <1>1, <1>2, <1>6, KmallocAssumption DEF NULL
      <4> QED BY Zenon, <4>1, <4>2
    <3> QED BY Zenon, <1>9, <3>1, <3>2
  <2>5. c # KHEAP_START => C[c].prev \in DOMAIN C /\ Stop(C, C[c].prev) = c
    <3> SUFFICES ASSUME c # KHEAP_START PROVE C[c].prev \in DOMAIN C /\ Stop(C, C[c].prev) = c
      BY Zenon
    <3>1. B[c].prev \in DOMAIN B /\ Stop(B, B[c].prev) = c
      BY Zenon, <2>1 DEF Placed
    <3>2. CASE c = B[b].next
      <4>1. c # NULL
        BY Zenon, BlockOf
      <4>2. Stop(B, b) = c
        BY Zenon, <1>1, <3>2, <4>1 DEF Placed
      <4> QED BY Zenon, <1>9, <3>2, <4>2
    <3>3. CASE c # B[b].next
      <4>1. C[c].prev = B[c].prev
        BY Zenon, <1>9, <3>3
      <4>2. B[c].prev # b
        <5> SUFFICES ASSUME B[c].prev = b PROVE FALSE
          BY Zenon
        <5>1. Stop(B, b) = c /\ c # e
          BY <1>2, <1>6, <3>1
        <5> QED BY Zenon, <1>1, <3>3, <5>1 DEF Placed
      <4> QED BY Zenon, <1>5, <3>1, <4>1, <4>2
    <3> QED BY <3>2, <3>3
  <2> QED BY Zenon, <2>1, <2>2, <2>3, <2>4, <2>5 DEF Placed
<1>10. ASSUME NEW c \in DOMAIN C, NEW d \in DOMAIN C, c < d PROVE Stop(C, c) <= d
  <2>0. (c = m \/ c \in DOMAIN B) /\ (d = m \/ d \in DOMAIN B)
    BY ONLY c \in DOMAIN C, d \in DOMAIN C, DOMAIN C = DOMAIN B \cup {m}
  <2>1. CASE c = b
    BY <1>1, <1>3, <1>6, <1>10, <2>0, <2>1
  <2>2. CASE c = m
    BY <1>1, <1>3, <1>6, <1>10, <2>0, <2>2
  <2>3. CASE c # b /\ c # m
    <3>1. c \in DOMAIN B /\ Stop(C, c) = Stop(B, c)
      BY Zenon, <1>5, <2>0, <2>3
    <3>2. CASE d = m
      BY <1>1, <1>3, <1>6, <1>10, <2>3, <3>1, <3>2
    <3>3. CASE d # m
      BY Zenon, <1>3, <1>10, <2>0, <3>1, <3>3
    <3> QED BY <3>2, <3>3
  <2> QED BY <2>1, <2>2, <2>3
<1>11. e # KHEAP_START => KHEAP_START \in DOMAIN C /\ \E l \in DOMAIN C : Stop(C, l) = e
  <2> SUFFICES ASSUME e # KHEAP_START PROVE KHEAP_START \in DOMAIN B /\ \E l \in DOMAIN C : Stop(C, l) = e
    BY Zenon
  <2>1. PICK l \in DOMAIN B : Stop(B, l) = e
    BY Zenon DEF Tiles
  <2>2. CASE l = b
    BY Zenon, <2>1, <2>2 DEF Tiles
  <2>3. CASE l # b
    BY Zenon, <1>5, <2>1, <2>3 DEF Tiles
  <2> QED BY <2>2, <2>3
<1>12. DOMAIN C \subseteq Nat
  BY Zenon DEF Tiles
<1> QED BY Zenon, <1>2, <1>4, <1>7, <1>8, <1>9, <1>10, <1>11, <1>12 DEF Tiles

JoinOf(B, C, b, n) ==
    /\ DOMAIN C = DOMAIN B \ {n} /\ C \in [DOMAIN C -> Block]
    /\ Stop(C, b) = Stop(B, n) /\ C[b].next = B[n].next /\ C[b].prev = B[b].prev
    /\ \A c \in DOMAIN C : c # b => C[c].size = B[c].size /\ C[c].next = B[c].next
    /\ \A c \in DOMAIN C : c # b => C[c].prev = (IF c = B[n].next THEN b ELSE B[c].prev)

\* Two neighbours that become one fill the same memory.
LEMMA Joined ==
    ASSUME NEW B, NEW e, Tiles(B, e), NEW b \in DOMAIN B, NEW n \in DOMAIN B, n = Stop(B, b),
           NEW C, JoinOf(B, C, b, n)
    PROVE  Tiles(C, e)
<1> SUFFICES
    ASSUME DOMAIN C = DOMAIN B \ {n}, C \in [DOMAIN C -> Block],
           Stop(C, b) = Stop(B, n), C[b].next = B[n].next, C[b].prev = B[b].prev,
           \A c \in DOMAIN C : c # b => C[c].size = B[c].size /\ C[c].next = B[c].next,
           \A c \in DOMAIN C : c # b => C[c].prev = (IF c = B[n].next THEN b ELSE B[c].prev)
    PROVE  Tiles(C, e)
  BY Zenon DEF JoinOf
<1>1. /\ b \in Nat /\ b >= KHEAP_START /\ b < n /\ Placed(B, e, b)
      /\ n \in Nat /\ Stop(B, n) \in Nat /\ Stop(B, n) <= e /\ n < Stop(B, n) /\ Placed(B, e, n)
  BY Zenon, BlockOf
<1>2. e \in Nat /\ KHEAP_START \in Nat \ {0} /\ KHEAP_START <= e
  BY Zenon, KmallocAssumption DEF Tiles
<1>3. \A c, d \in DOMAIN B : c < d => Stop(B, c) <= d
  BY Zenon DEF Tiles
<1>4. b \in DOMAIN C /\ \A c : c \in DOMAIN C <=> c \in DOMAIN B /\ c # n
  <2>1. b # n
    BY <1>1
  <2> QED BY Zenon, <2>1
<1>5. \A c \in DOMAIN C : c # b => Stop(C, c) = Stop(B, c)
  BY Zenon DEF Stop
<1>6. \A c \in DOMAIN B : /\ c \in Nat /\ KHEAP_START <= c /\ c < Stop(B, c) /\ Stop(B, c) \in Nat
                          /\ Stop(B, c) <= e /\ c # NULL /\ Placed(B, e, c)
  BY Zenon, BlockOf
<1>7. n # e /\ B[b].next = n /\ B[n].prev = b
  <2>1. n # e
    BY <1>1, <1>2
  <2> QED BY Zenon, <1>1, <2>1 DEF Placed
<1>8. Placed(C, e, b)
  <2>1. C[b].next = (IF Stop(C, b) = e THEN NULL ELSE Stop(C, b))
    BY Zenon, <1>1 DEF Placed
  <2>2. Stop(C, b) # e => Stop(C, b) \in DOMAIN C /\ C[Stop(C, b)].prev = b
    <3> SUFFICES ASSUME Stop(B, n) # e PROVE Stop(B, n) \in DOMAIN C /\ C[Stop(B, n)].prev = b
      BY Zenon
    <3>1. Stop(B, n) \in DOMAIN B /\ B[n].next = Stop(B, n)
      BY Zenon, <1>1 DEF Placed
    <3>2. Stop(B, n) # n /\ Stop(B, n) # b
      BY <1>1
    <3> QED BY Zenon, <1>4, <3>1, <3>2
  <2>3. b = KHEAP_START => C[b].prev = NULL
    BY Zenon, <1>1 DEF Placed
  <2>4. b # KHEAP_START => C[b].prev \in DOMAIN C /\ Stop(C, C[b].prev) = b
    <3> SUFFICES ASSUME b # KHEAP_START PROVE B[b].prev \in DOMAIN C /\ Stop(C, B[b].prev) = b
      BY Zenon
    <3>1. B[b].prev \in DOMAIN B /\ Stop(B, B[b].prev) = b
      BY Zenon, <1>1 DEF Placed
    <3>2. B[b].prev # b /\ B[b].prev # n
      BY <1>1, <1>6, <3>1
    <3> QED BY Zenon, <1>4, <1>5, <3>1, <3>2
  <2> QED BY Zenon, <1>1, <2>1, <2>2, <2>3, <2>4 DEF Placed
<1>9. ASSUME NEW c \in DOMAIN C, c # b PROVE Placed(C, e, c)
  <2>1. /\ Stop(C, c) = Stop(B, c) /\ KHEAP_START <= c /\ Stop(B, c) <= e /\ Placed(B, e, c)
        /\ c \in DOMAIN B /\ c # n
    BY Zenon, <1>4, <1>5, <1>6, <1>9
  <2>2. C[c].next = (IF Stop(C, c) = e THEN NULL ELSE Stop(C, c))
    BY Zenon, <1>9, <2>1 DEF Placed
  <2>3. Stop(C, c) # e => Stop(C, c) \in DOMAIN C /\ C[Stop(C, c)].prev = c
    <3> SUFFICES ASSUME Stop(B, c) # e PROVE Stop(B, c) \in DOMAIN C /\ C[Stop(B, c)].prev = c
      BY Zenon, <2>1
    <3>1. Stop(B, c) \in DOMAIN B /\ B[Stop(B, c)].prev = c
      BY Zenon, <2>1 DEF Placed
    <3>2. Stop(B, c) # n
      BY Zenon, <1>7, <1>9, <3>1
    <3>3. Stop(B, c) # B[n].next
      <4> SUFFICES ASSUME Stop(B, c) = B[n].next PROVE FALSE
        BY Zenon
      <4>1. B[n].next # NULL
        BY Zenon, <1>6, <3>1
      <4>2. Stop(B, n) # e /\ B[n].next = Stop(B, n) /\ B[Stop(B, n)].prev = n
        BY Zenon, <1>1, <4>1 DEF Placed
      <4> QED BY Zenon, <2>1, <3>1, <4>2
    <3> QED BY Zenon, <1>4, <3>1, <3>2, <3>3
  <2>4. c = KHEAP_START => C[c].prev = NULL
    <3> SUFFICES ASSUME c = KHEAP_START PROVE C[c].prev = NULL
      BY Zenon
    <3>1. B[c].prev = NULL
      BY Zenon, <2>1 DEF Placed
    <3>2. c # B[n].next
      <4>1. B[n].next = NULL \/ B[n].next = Stop(B, n)
        BY Zenon, <1>1 DEF Placed
      <4>2. c # Stop(B, n)
        BY <1>1, <1>2
      <4>3. c # NULL
        BY Zenon, <1>6, <2>1
      <4> QED BY Zenon, <4>1, <4>2, <4>3
    <3> QED BY Zenon, <1>9, <3>1, <3>2
  <2>5. c # KHEAP_START => C[c].prev \in DOMAIN C /\ Stop(C, C[c].prev) = c
    <3> SUFFICES ASSUME c # KHEAP_START PROVE C[c].prev \in DOMAIN C /\ Stop(C, C[c].prev) = c
      BY Zenon
    <3>1. B[c].prev \in DOMAIN B /\ Stop(B, B[c].prev) = c
      BY Zenon, <2>1 DEF Placed
    <3>2. CASE c = B[n].next
      <4>1. Stop(B, n) = c
        BY Zenon, <1>1, <1>6, <2>1, <3>2 DEF Placed
      <4> QED BY Zenon, <1>4, <1>9, <3>2, <4>1
    <3>3. CASE c # B[n].next
      <4>1. C[c].prev = B[c].prev
        BY Zenon, <1>9, <3>3
      <4>2. B[c].prev # n
        <5> SUFFICES ASSUME B[c].prev = n PROVE FALSE
          BY Zenon
        <5>1. Stop(B, n) = c /\ c # e
          BY <1>2, <1>6, <2>1, <3>1
        <5> QED BY Zenon, <1>1, <3>3, <5>1 DEF Placed
      <4>3. B[c].prev # b
        BY Zenon, <2>1, <3>1
      <4> QED BY Zenon, <1>4, <1>5, <3>1, <4>1, <4>2, <4>3
    <3> QED BY <3>2, <3>3
  <2> QED BY Zenon, <2>1, <2>2, <2>3, <2>4, <2>5 DEF Placed
<1>10. ASSUME NEW c \in DOMAIN C, NEW d \in DOMAIN C, c < d PROVE Stop(C, c) <= d
  <2>0. c \in DOMAIN B /\ d \in DOMAIN B /\ c # n /\ d # n
    BY Zenon, <1>4
  <2>1. CASE c = b
    <3>1. n <= d
      BY Zenon, <1>3, <1>10, <2>0, <2>1
    <3>2. n < d
      BY <1>1, <1>6, <2>0, <3>1
    <3> QED BY Zenon, <1>3, <2>0, <2>1, <3>2
  <2>2. CASE c # b
    BY Zenon, <1>3, <1>5, <1>10, <2>0, <2>2
  <2> QED BY <2>1, <2>2
<1>11. e # KHEAP_START => KHEAP_START \in DOMAIN C /\ \E l \in DOMAIN C : Stop(C, l) = e
  <2> SUFFICES ASSUME e # KHEAP_START PROVE KHEAP_START \in DOMAIN C /\ \E l \in DOMAIN C : Stop(C, l) = e
    BY Zenon
  <2>0. KHEAP_START \in DOMAIN C
    <3>1. KHEAP_START \in DOMAIN B
      BY Zenon DEF Tiles
    <3>2. KHEAP_START # n
      BY <1>1, <1>2
    <3> QED BY Zenon, <1>4, <3>1, <3>2
  <2>1. PICK l \in DOMAIN B : Stop(B, l) = e
    BY Zenon DEF Tiles
  <2>2. l # b
    BY Zenon, <1>7, <2>1
  <2>3. CASE l = n
    BY Zenon, <1>4, <2>0, <2>1, <2>3
  <2>4. CASE l # n
    BY Zenon, <1>4, <1>5, <2>0, <2>1, <2>2, <2>4
  <2> QED BY <2>3, <2>4
<1>12. DOMAIN C \subseteq Nat
  BY Zenon, <1>4, <1>6
<1> QED BY Zenon, <1>2, <1>8, <1>9, <1>10, <1>11, <1>12 DEF Tiles

AddOf(B, C, e, f, last) ==
    /\ DOMAIN C = DOMAIN B \cup {e} /\ C \in [DOMAIN C -> Block]
    /\ Stop(C, e) = f /\ C[e].next = NULL /\ C[e].prev = last
    /\ \A c \in DOMAIN B : C[c].size = B[c].size /\ C[c].prev = B[c].prev
    /\ \A c \in DOMAIN B : C[c].next = (IF c = last THEN e ELSE B[c].next)

\* A block added behind the last one fills the memory the heap grew by.
LEMMA Added ==
    ASSUME NEW B, NEW e, Tiles(B, e), NEW f \in Nat, e < f, NEW last, NEW C,
           e = KHEAP_START => last = NULL,
           e # KHEAP_START => last \in DOMAIN B /\ Stop(B, last) = e,
           AddOf(B, C, e, f, last)
    PROVE  Tiles(C, f) /\ e \notin DOMAIN B
<1> SUFFICES
    ASSUME DOMAIN C = DOMAIN B \cup {e}, C \in [DOMAIN C -> Block],
           Stop(C, e) = f, C[e].next = NULL, C[e].prev = last,
           \A c \in DOMAIN B : C[c].size = B[c].size /\ C[c].prev = B[c].prev,
           \A c \in DOMAIN B : C[c].next = (IF c = last THEN e ELSE B[c].next)
    PROVE  Tiles(C, f) /\ e \notin DOMAIN B
  BY Zenon DEF AddOf
<1>1. e \in Nat /\ KHEAP_START \in Nat \ {0} /\ KHEAP_START <= e
  BY Zenon, KmallocAssumption DEF Tiles
<1>2. \A c \in DOMAIN B : /\ c \in Nat /\ KHEAP_START <= c /\ c < Stop(B, c) /\ Stop(B, c) \in Nat
                          /\ Stop(B, c) <= e /\ c # NULL /\ Placed(B, e, c)
  BY Zenon, BlockOf
<1>3. \A c, d \in DOMAIN B : c < d => Stop(B, c) <= d
  BY Zenon DEF Tiles
<1>4. e \notin DOMAIN B
  BY <1>1, <1>2
<1>5. \A c \in DOMAIN B : Stop(C, c) = Stop(B, c)
  BY Zenon DEF Stop
<1>6. \A c \in DOMAIN B : Stop(B, c) = e => c = last
  <2> SUFFICES ASSUME NEW c \in DOMAIN B, Stop(B, c) = e, c # last PROVE FALSE
    BY Zenon
  <2>1. e # KHEAP_START
    BY <1>1, <1>2
  <2>2. last \in DOMAIN B /\ Stop(B, last) = e
    BY Zenon, <2>1
  <2> QED BY <1>2, <1>3, <2>2
<1>7. Placed(C, f, e)
  <2>1. e # KHEAP_START => last \in DOMAIN C /\ Stop(C, last) = e
    BY Zenon, <1>5
  <2>2. f <= f
    OBVIOUS
  <2> QED BY Zenon, <1>1, <2>1, <2>2 DEF Placed
<1>8. ASSUME NEW c \in DOMAIN B PROVE Placed(C, f, c)
  <2>1. /\ KHEAP_START <= c /\ Stop(C, c) = Stop(B, c) /\ Stop(B, c) <= f /\ Stop(B, c) # f
        /\ Placed(B, e, c)
    BY <1>1, <1>2, <1>5
  <2>2. C[c].next = Stop(C, c) /\ Stop(C, c) \in DOMAIN C /\ C[Stop(C, c)].prev = c
    <3>1. CASE Stop(B, c) = e
      BY Zenon, <1>6, <2>1, <3>1
    <3>2. CASE Stop(B, c) # e
      <4>1. c # last
        <5>1. e # KHEAP_START
          BY <1>1, <1>2
        <5> QED BY Zenon, <3>2, <5>1
      <4>2. B[c].next = Stop(B, c) /\ Stop(B, c) \in DOMAIN B /\ B[Stop(B, c)].prev = c
        BY Zenon, <2>1, <3>2 DEF Placed
      <4> QED BY Zenon, <2>1, <4>1, <4>2
    <3> QED BY <3>1, <3>2
  <2>3. c = KHEAP_START => C[c].prev = NULL
    BY Zenon, <2>1 DEF Placed
  <2>4. c # KHEAP_START => C[c].prev \in DOMAIN C /\ Stop(C, C[c].prev) = c
    BY Zenon, <1>5, <2>1 DEF Placed
  <2> QED BY Zenon, <2>1, <2>2, <2>3, <2>4 DEF Placed
<1>9. ASSUME NEW c \in DOMAIN C, NEW d \in DOMAIN C, c < d PROVE Stop(C, c) <= d
  <2>0. (c = e \/ c \in DOMAIN B) /\ (d = e \/ d \in DOMAIN B)
    BY ONLY c \in DOMAIN C, d \in DOMAIN C, DOMAIN C = DOMAIN B \cup {e}
  <2>1. c \in DOMAIN B
    BY <1>1, <1>2, <1>9, <2>0
  <2> QED BY <1>1, <1>2, <1>3, <1>5, <1>9, <2>0, <2>1
<1>10. KHEAP_START \in DOMAIN C /\ f # KHEAP_START /\ KHEAP_START <= f
  <2>1. e = KHEAP_START \/ KHEAP_START \in DOMAIN B
    BY Zenon DEF Tiles
  <2>2. f # KHEAP_START /\ KHEAP_START <= f
    BY <1>1
  <2> QED BY Zenon, <2>1, <2>2
<1>11. DOMAIN C \subseteq Nat
  BY <1>1, <1>2
<1>12. \A c \in DOMAIN C : Placed(C, f, c)
  BY Zenon, <1>7, <1>8
<1> QED BY Zenon, <1>4, <1>9, <1>10, <1>11, <1>12 DEF Tiles

-----------------------------------------------------------------------------
(* The functions of kmalloc.c.                                             *)

\* Between the ends of a block no other one starts.
LEMMA Within ==
    ASSUME NEW B, NEW e, Tiles(B, e), NEW b \in DOMAIN B, NEW m \in Nat, b < m, m < Stop(B, b)
    PROVE  m \notin DOMAIN B
<1>1. \A c, d \in DOMAIN B : c < d => Stop(B, c) <= d
  BY Zenon DEF Tiles
<1>2. Stop(B, b) \in Nat
  BY Zenon, BlockOf
<1> QED BY <1>1, <1>2

\* A new link back.
LEMMA SetPrevIs ==
    ASSUME NEW B, B \in [DOMAIN B -> Block], NEW x \in DOMAIN B \cup {NULL}, NEW p \in Nat,
           NULL \notin DOMAIN B, NEW C, C = SetPrev(B, x, p)
    PROVE  /\ DOMAIN C = DOMAIN B /\ C \in [DOMAIN B -> Block]
           /\ \A c \in DOMAIN B : /\ C[c].size = B[c].size /\ C[c].next = B[c].next
                                  /\ C[c].free = B[c].free
                                  /\ C[c].prev = (IF c = x THEN p ELSE B[c].prev)
<1>1. CASE x = NULL
  <2>1. C = B
    BY Zenon, <1>1 DEF SetPrev
  <2> QED BY Zenon, <1>1, <2>1
<1>2. CASE x # NULL
  <2>1. C = [B EXCEPT ![x].prev = p] /\ x \in DOMAIN B
    BY Zenon, <1>2 DEF SetPrev
  <2> QED BY ONLY <2>1, B \in [DOMAIN B -> Block], p \in Nat DEF Block
<1> QED BY <1>1, <1>2

Resize(B, b, n, s) == [B EXCEPT ![b].next = n, ![b].size = s]

\* A new size and a new link.
LEMMA ResizeIs ==
    ASSUME NEW B, NEW D, B \in [D -> Block], NEW b \in D, NEW n \in Nat, NEW s \in Nat,
           NEW C, C = Resize(B, b, n, s)
    PROVE  /\ C \in [D -> Block]
           /\ C[b].next = n /\ C[b].size = s /\ C[b].prev = B[b].prev /\ C[b].free = B[b].free
           /\ \A c \in D : c # b => C[c] = B[c]
<1>1. PICK r : r = [B[b] EXCEPT !.next = n, !.size = s]
  BY Zenon
<1>2. B[b] \in Block
  BY Zenon
<1>3. r \in Block /\ r.next = n /\ r.size = s /\ r.prev = B[b].prev /\ r.free = B[b].free
  BY ONLY Zenon, <1>1, <1>2, n \in Nat, s \in Nat DEF Block
<1>4. C = [B EXCEPT ![b] = r]
  BY Zenon, <1>1 DEF Resize
<1> QED BY ONLY <1>3, <1>4, B \in [D -> Block], b \in D

\* Where the link of a block leads.
LEMMA NextOf ==
    ASSUME NEW B, NEW e, Tiles(B, e), NEW b \in DOMAIN B
    PROVE  /\ NULL \notin DOMAIN B /\ B[b].next \in DOMAIN B \cup {NULL}
           /\ B[b].next # NULL => /\ B[b].next = Stop(B, b) /\ B[b].next # b
                                  /\ B[B[b].next].prev = b
<1>1. /\ Placed(B, e, b) /\ b < Stop(B, b) /\ b \in Nat /\ Stop(B, b) \in Nat
      /\ \A c \in DOMAIN B : c # NULL
  BY Zenon, BlockOf
<1>2. Stop(B, b) # b
  BY <1>1
<1> QED BY Zenon, <1>1, <1>2 DEF Placed

IsSplit(B, C, b, size) ==
    /\ DOMAIN B \subseteq DOMAIN C /\ size <= C[b].size
    /\ \A c \in DOMAIN B : C[c].free = B[c].free
    /\ \A c \in DOMAIN B : c # b => C[c].size = B[c].size /\ C[c].next = B[c].next
    /\ \A c \in DOMAIN C \ DOMAIN B : C[c].free /\ C[c].next = B[b].next

\* split_block cuts off what is left of the block, if that is worth a block.
LEMMA SplitIs ==
    ASSUME NEW B, NEW e, Tiles(B, e), NEW b \in DOMAIN B,
           NEW size \in Nat, size <= B[b].size, NEW C, C = split_block(B, b, size)
    PROVE  Tiles(C, e) /\ IsSplit(B, C, b, size)
<1> DEFINE remaining == B[b].size - size
           m == b + HEADER + size
           new == [size |-> remaining - HEADER, free |-> TRUE, next |-> B[b].next, prev |-> b]
<1>1. b \in Nat /\ B[b].size \in Nat /\ B[b] \in Block /\ Stop(B, b) \in Nat
  BY Zenon, BlockOf
<1>2. HEADER \in Nat \ {0} /\ SLACK \in Nat
  BY Zenon, KmallocAssumption
<1>3. CASE remaining <= HEADER + SLACK
  <2>1. C = B
    BY Zenon, <1>3 DEF split_block
  <2> QED BY Zenon, <2>1 DEF IsSplit
<1>4. CASE ~(remaining <= HEADER + SLACK)
  <2>1. /\ m \in Nat /\ b < m /\ m < Stop(B, b) /\ m # b
        /\ remaining - HEADER \in Nat /\ m + HEADER + (remaining - HEADER) = Stop(B, b)
    BY <1>1, <1>2, <1>4 DEF Stop
  <2>2. m \notin DOMAIN B
    BY Zenon, <2>1, Within
  <2>3. NULL \notin DOMAIN B /\ B[b].next \in DOMAIN B \cup {NULL} /\ B[b].next # b
    <3>1. b # NULL
      BY Zenon, BlockOf
    <3> QED BY Zenon, <3>1, NextOf
  <2>4. PICK P : P = Put(B, m, new)
    BY Zenon
  <2>5. PICK Q : Q = SetPrev(P, B[b].next, m)
    BY Zenon
  <2>6. C = Resize(Q, b, m, size)
    BY Zenon, <1>4, <2>4, <2>5 DEF split_block, Resize
  <2>7. new \in Block
    <3>1. B[b].next \in Nat
      BY ONLY <1>1 DEF Block
    <3> QED BY ONLY <1>1, <2>1, <3>1 DEF Block
  <2>8. /\ DOMAIN P = DOMAIN B \cup {m} /\ P[m] = new
        /\ \A c \in DOMAIN B : P[c] = B[c]
    BY Zenon, <2>2, <2>4 DEF Put
  <2>9. P \in [DOMAIN P -> Block]
    <3>1. B \in [DOMAIN B -> Block]
      BY Zenon DEF Tiles
    <3>2. P = [z \in DOMAIN P |-> P[z]] /\ \A z \in DOMAIN P : P[z] \in Block
      BY Zenon, <2>4, <2>7, <2>8, <3>1 DEF Put
    <3> QED BY Zenon, <3>2
  <2> HIDE DEF m
  <2>10. NULL \notin DOMAIN P /\ B[b].next \in DOMAIN P \cup {NULL}
    <3>1. m # NULL
      BY <1>1, <2>1 DEF NULL
    <3> QED BY Zenon, <2>3, <2>8, <3>1
  <2>11. /\ DOMAIN Q = DOMAIN P /\ Q \in [DOMAIN P -> Block]
         /\ \A c \in DOMAIN P : /\ Q[c].size = P[c].size /\ Q[c].next = P[c].next
                                /\ Q[c].free = P[c].free
                                /\ Q[c].prev = (IF c = B[b].next THEN m ELSE P[c].prev)
    BY <2>1, <2>5, <2>9, <2>10, SetPrevIs
  <2>12. b \in DOMAIN P /\ m \in DOMAIN P
    BY Zenon, <2>8
  <2>13. /\ DOMAIN C = DOMAIN P /\ C \in [DOMAIN P -> Block]
         /\ C[b].next = m /\ C[b].size = size /\ C[b].prev = Q[b].prev /\ C[b].free = Q[b].free
         /\ \A c \in DOMAIN P : c # b => C[c] = Q[c]
    <3>1. /\ C \in [DOMAIN P -> Block]
          /\ C[b].next = m /\ C[b].size = size /\ C[b].prev = Q[b].prev /\ C[b].free = Q[b].free
          /\ \A c \in DOMAIN P : c # b => C[c] = Q[c]
      BY <2>1, <2>6, <2>11, <2>12, ResizeIs
    <3> QED BY Zenon, <3>1
  <2>14. /\ new.size = remaining - HEADER /\ new.free = TRUE /\ new.next = B[b].next
         /\ new.prev = b
    BY Zenon
  <2> HIDE DEF new
  <2>15. /\ C[m].size = remaining - HEADER /\ C[m].free = TRUE /\ C[m].next = B[b].next
         /\ C[m].prev = b
    <3>1. C[m] = Q[m] /\ P[m] = new /\ m # B[b].next
      <4>1. m # NULL
        BY Zenon, <2>10, <2>12
      <4> QED BY Zenon, <2>1, <2>2, <2>3, <2>8, <2>12, <2>13, <4>1
    <3> QED BY ONLY <2>11, <2>12, <2>14, <3>1
  <2>16. \A c \in DOMAIN B : /\ c \in DOMAIN P /\ P[c] = B[c] /\ C[c].free = B[c].free
                             /\ c # b => C[c].size = B[c].size /\ C[c].next = B[c].next
                             /\ c # b => C[c].prev = (IF c = B[b].next THEN m ELSE B[c].prev)
    BY ONLY <2>8, <2>11, <2>13
  <2>17. C[b].prev = B[b].prev
    BY ONLY <2>3, <2>11, <2>12, <2>13, <2>16, b \in DOMAIN B
  <2>18. Stop(C, b) = m /\ Stop(C, m) = Stop(B, b)
    BY Zenon, <2>1, <2>13, <2>15 DEF Stop, m
  <2>19. DOMAIN C = DOMAIN B \cup {m} /\ C \in [DOMAIN C -> Block]
    BY Zenon, <2>8, <2>13
  <2>20. Tiles(C, e)
    BY <2>1, <2>13, <2>15, <2>16, <2>17, <2>18, <2>19, Cut
  <2>21. size <= C[b].size
    BY <2>13
  <2>22. \A c \in DOMAIN C \ DOMAIN B : c = m
    BY Zenon, <2>19
  <2> QED BY Zenon, <2>15, <2>16, <2>19, <2>20, <2>21, <2>22 DEF IsSplit
<1> QED BY <1>3, <1>4

IsClaimed(B, C, b, size) ==
    /\ Used(C) = Used(B) \cup {b} /\ size <= C[b].size
    /\ \A u \in Used(B) : C[u].size = B[u].size

\* Splitting a free block and marking it used.
LEMMA ClaimIs ==
    ASSUME NEW B, NEW e, Tiles(B, e), NEW b \in DOMAIN B, Apart(B, b), B[b].free,
           NEW size \in Nat, size <= B[b].size, NEW C, C = Claim(B, b, size)
    PROVE  Tiles(C, e) /\ Apart(C, NULL) /\ IsClaimed(B, C, b, size)
<1>1. PICK S : S = split_block(B, b, size)
  BY Zenon
<1>2. /\ Tiles(S, e) /\ DOMAIN B \subseteq DOMAIN S /\ size <= S[b].size
      /\ \A c \in DOMAIN B : S[c].free = B[c].free
      /\ \A c \in DOMAIN B : c # b => S[c].size = B[c].size /\ S[c].next = B[c].next
      /\ \A c \in DOMAIN S \ DOMAIN B : S[c].free /\ S[c].next = B[b].next
  <2>1. Tiles(S, e) /\ IsSplit(B, S, b, size)
    BY Zenon, <1>1, SplitIs
  <2> QED BY Zenon, <2>1 DEF IsSplit
<1>3. C = Mark(S, b, FALSE) /\ b \in DOMAIN S /\ FALSE \in BOOLEAN
  BY Zenon, <1>1, <1>2 DEF Claim, Mark
<1>4. /\ Tiles(C, e) /\ DOMAIN C = DOMAIN S /\ C[b].free = FALSE
      /\ \A c \in DOMAIN S : /\ C[c].size = S[c].size /\ C[c].next = S[c].next
                             /\ C[c].prev = S[c].prev /\ (c # b => C[c].free = S[c].free)
  <2>1. Tiles(C, e) /\ IsMarked(S, C, b, FALSE)
    BY Zenon, <1>2, <1>3, Marked
  <2> QED BY Zenon, <2>1 DEF IsMarked
<1>5. Used(C) = Used(B) \cup {b}
  <2>1. ASSUME NEW c PROVE c \in Used(C) <=> c \in Used(B) \cup {b}
    BY Zenon, <1>2, <1>3, <1>4 DEF Used
  <2> QED BY Zenon, <2>1
<1>6. \A u \in Used(B) : C[u].size = B[u].size
  BY ZenonT(30), <1>2, <1>4 DEF Used
<1>7. Apart(C, NULL)
  <2> SUFFICES ASSUME NEW c \in DOMAIN C, C[c].free, C[c].next # NULL
               PROVE  ~C[C[c].next].free
    BY Zenon DEF Apart
  <2>1. c # b /\ c \in DOMAIN S /\ S[c].free /\ C[c].next = S[c].next
    BY Zenon, <1>4
  <2>2. ASSUME NEW x \in DOMAIN B, ~B[x].free PROVE ~C[x].free
    BY Zenon, <1>2, <1>4, <2>2
  <2>3. CASE c \in DOMAIN B
    <3>0. C[c].next = B[c].next /\ B[c].free
      BY Zenon, <1>2, <2>1, <2>3
    <3>1. C[c].next = B[c].next /\ B[c].free /\ B[c].next \in DOMAIN B
      BY Zenon, <2>3, <3>0, NextOf
    <3>2. CASE B[c].next = b
      BY Zenon, <1>4, <3>1, <3>2
    <3>3. CASE B[c].next # b
      <4>1. ~B[B[c].next].free
        BY Zenon, <2>3, <3>1, <3>3 DEF Apart
      <4> QED BY Zenon, <2>2, <3>1, <4>1
    <3> QED BY <3>2, <3>3
  <2>4. CASE c \notin DOMAIN B
    <3>1. C[c].next = B[b].next
      BY Zenon, <1>2, <2>1, <2>4
    <3>2. B[b].next \in DOMAIN B /\ B[b].next # b
      <4>1. B[b].next # NULL
        BY Zenon, <3>1
      <4> QED BY ONLY Tiles(B, e), b \in DOMAIN B, <4>1, NextOf
    <3>3. ~B[B[b].next].free
      BY Zenon, <3>1, <3>2 DEF Apart
    <3> QED BY Zenon, <2>2, <3>1, <3>2, <3>3
  <2> QED BY <2>3, <2>4
<1>8. size <= C[b].size
  BY Zenon, <1>2, <1>3, <1>4
<1> QED BY Zenon, <1>4, <1>5, <1>6, <1>7, <1>8 DEF IsClaimed

IsGrown(B, C, b, s, n) ==
    /\ C[b].next = n /\ C[b].size = s /\ C[b].prev = B[b].prev /\ C[b].free = B[b].free
    /\ \A c \in DOMAIN B : c # b => C[c] = B[c]

Grow(B, b, s, n) == [B EXCEPT ![b].size = s, ![b].next = n]

\* What the first two assignments of a merge leave.
LEMMA GrownIs ==
    ASSUME NEW B, B \in [DOMAIN B -> Block], NEW b \in DOMAIN B, NEW n \in Nat, NEW s \in Nat,
           NEW C, C = Grow(B, b, s, n)
    PROVE  C \in [DOMAIN B -> Block] /\ IsGrown(B, C, b, s, n)
<1>1. PICK r : r = [B[b] EXCEPT !.size = s, !.next = n]
  BY Zenon
<1>2. B[b] \in Block
  BY Zenon
<1>3. /\ r \in Block /\ r.next = n /\ r.size = s
      /\ r.prev = B[b].prev /\ r.free = B[b].free
  BY ONLY Zenon, <1>1, <1>2, n \in Nat, s \in Nat DEF Block
<1>4. C = [B EXCEPT ![b] = r]
  BY Zenon, <1>1 DEF Grow
<1> QED BY ONLY <1>3, <1>4, B \in [DOMAIN B -> Block], b \in DOMAIN B DEF IsGrown

IsMerged(B, C, b, n) ==
    /\ DOMAIN C = DOMAIN B \ {n}
    /\ C[b].next = B[n].next /\ C[b].prev = B[b].prev
    /\ \A c \in DOMAIN C : C[c].free = B[c].free
    /\ \A c \in DOMAIN C : c # b => C[c].size = B[c].size /\ C[c].next = B[c].next

\* A tiled heap with the same first block and end.
Remade(h, g) == IsHeap(g) /\ g.head = h.head /\ g.end = h.end /\ Tiles(g.blocks, h.end)

\* A merge with the next block keeps the heap tiled.
LEMMA MergeIs ==
    ASSUME NEW h, IsHeap(h), Tiles(h.blocks, h.end), NEW b \in DOMAIN h.blocks,
           NEW n, n = h.blocks[b].next, n # NULL, NEW g, g = Merge(h, b)
    PROVE  /\ Remade(h, g) /\ IsMerged(h.blocks, g.blocks, b, n)
           /\ n \in DOMAIN h.blocks /\ n # b
<1>1. PICK B, e : B = h.blocks /\ e = h.end
  BY Zenon
<1>2. Tiles(B, e) /\ b \in DOMAIN B /\ B \in [DOMAIN B -> Block]
  BY Zenon, <1>1 DEF Tiles
<1>3. NULL \notin DOMAIN B /\ n \in DOMAIN B /\ n # b /\ n = Stop(B, b)
  BY Zenon, <1>1, <1>2, NextOf
<1>4. /\ B[n].next \in DOMAIN B \cup {NULL} /\ B[n].next # n
      /\ B[n].next # NULL => B[n].next = Stop(B, n)
  <2>1. /\ B[n].next \in DOMAIN B \cup {NULL}
        /\ B[n].next # NULL => B[n].next = Stop(B, n) /\ B[n].next # n
    BY Zenon, <1>2, <1>3, NextOf
  <2> QED BY Zenon, <1>3, <2>1
<1>5. /\ b \in Nat /\ n \in Nat /\ B[b].size \in Nat /\ B[n].size \in Nat
      /\ b < n /\ n < Stop(B, n) /\ Stop(B, n) \in Nat
  BY Zenon, <1>2, <1>3, BlockOf
<1>6. HEADER \in Nat
  BY KmallocAssumption
<1>7. B[n].next # b /\ B[n].next \in Nat
  BY ONLY <1>3, <1>4, <1>5, <1>2 DEF NULL
<1>8. PICK s : s = B[b].size + HEADER + B[n].size
  BY Zenon
<1>9. s \in Nat
  BY ONLY <1>5, <1>6, <1>8
<1>10. PICK P : P = Grow(B, b, s, B[n].next)
  BY Zenon
<1>11. /\ P \in [DOMAIN B -> Block]
       /\ P[b].next = B[n].next /\ P[b].size = s
       /\ P[b].prev = B[b].prev /\ P[b].free = B[b].free
       /\ \A c \in DOMAIN B : c # b => P[c] = B[c]
  <2>1. P \in [DOMAIN B -> Block] /\ IsGrown(B, P, b, s, B[n].next)
    BY ZenonT(30), <1>2, <1>7, <1>9, <1>10, GrownIs
  <2> QED BY Zenon, <2>1 DEF IsGrown
<1>12. PICK Q : Q = SetPrev(P, B[n].next, b)
  BY Zenon
<1>13. DOMAIN P = DOMAIN B
  BY <1>11
<1>14. /\ DOMAIN Q = DOMAIN B /\ Q \in [DOMAIN B -> Block]
       /\ \A c \in DOMAIN B : /\ Q[c].size = P[c].size /\ Q[c].next = P[c].next
                              /\ Q[c].free = P[c].free
                              /\ Q[c].prev = (IF c = B[n].next THEN b ELSE P[c].prev)
  BY <1>3, <1>4, <1>5, <1>11, <1>12, <1>13, SetPrevIs
<1>15. PICK C : C = Drop(Q, n)
  BY Zenon
<1>16. DOMAIN C = DOMAIN B \ {n} /\ \A c \in DOMAIN C : C[c] = Q[c]
  BY Zenon, <1>14, <1>15 DEF Drop
<1>17. C \in [DOMAIN C -> Block]
  BY ONLY <1>14, <1>15, <1>16 DEF Drop
<1>18. [h EXCEPT !.blocks = C] = g
  <2>2. [B EXCEPT ![b].size = @ + HEADER + B[n].size, ![b].next = B[n].next] = P
    BY Zenon, <1>8, <1>10 DEF Grow
  <2> QED BY Zenon, <1>1, <1>12, <1>15, <2>2 DEF Merge
<1>19. IsHeap(g) /\ g.head = h.head /\ g.end = h.end /\ g.blocks = C
  BY ONLY <1>18, IsHeap(h) DEF IsHeap
<1>20. b \in DOMAIN C /\ \A c \in DOMAIN C : c \in DOMAIN B /\ c # n
  BY Zenon, <1>2, <1>3, <1>16
<1>21. IsMerged(B, C, b, n)
  <2>1. C[b].next = B[n].next
    BY ZenonT(30), <1>2, <1>11, <1>14, <1>16, <1>20
  <2>2. C[b].prev = B[b].prev
    BY ZenonT(30), <1>2, <1>7, <1>11, <1>14, <1>16, <1>20
  <2>3. ASSUME NEW c \in DOMAIN C
        PROVE  C[c].free = B[c].free /\ (c # b => C[c].size = B[c].size /\ C[c].next = B[c].next)
    <3>1. c \in DOMAIN B /\ C[c] = Q[c]
      BY Zenon, <1>16, <1>20
    <3>2. C[c].free = P[c].free /\ C[c].size = P[c].size /\ C[c].next = P[c].next
      BY ZenonT(30), <1>14, <3>1
    <3> QED BY Zenon, <1>11, <3>1, <3>2
  <2> QED BY Zenon, <1>16, <2>1, <2>2, <2>3 DEF IsMerged
<1>22. Stop(C, b) = Stop(B, n)
  <2>1. C[b].size = s
    BY ZenonT(30), <1>2, <1>11, <1>14, <1>16, <1>20
  <2> QED BY ONLY <1>3, <1>5, <1>6, <1>8, <2>1 DEF Stop
<1>23. \A c \in DOMAIN C : c # b => C[c].prev = (IF c = B[n].next THEN b ELSE B[c].prev)
  <2> SUFFICES ASSUME NEW c \in DOMAIN C, c # b
               PROVE  C[c].prev = (IF c = B[n].next THEN b ELSE B[c].prev)
    BY Zenon
  <2>1. c \in DOMAIN B /\ C[c] = Q[c] /\ P[c] = B[c]
    BY Zenon, <1>11, <1>16, <1>20
  <2>2. C[c].prev = (IF c = B[n].next THEN b ELSE P[c].prev)
    BY ONLY <1>14, <2>1
  <2> QED BY Zenon, <2>1, <2>2
<1>24. Tiles(C, e)
  <2>1. /\ C[b].next = B[n].next /\ C[b].prev = B[b].prev
        /\ \A c \in DOMAIN C : c # b => C[c].size = B[c].size /\ C[c].next = B[c].next
    BY Zenon, <1>21 DEF IsMerged
  <2>2. JoinOf(B, C, b, n)
    BY Zenon, <1>16, <1>17, <1>22, <1>23, <2>1 DEF JoinOf
  <2> QED BY Zenon, <1>2, <1>3, <2>2, Joined
<1> QED BY Zenon, <1>1, <1>3, <1>19, <1>21, <1>24 DEF Remade

\* The block that the prev link names leads to this one.
LEMMA PrevOf ==
    ASSUME NEW B, NEW e, Tiles(B, e), NEW b \in DOMAIN B, B[b].prev # NULL
    PROVE  B[b].prev \in DOMAIN B /\ B[B[b].prev].next = b /\ B[b].prev # b
<1>1. /\ Placed(B, e, b) /\ b < Stop(B, b) /\ b \in Nat /\ Stop(B, b) \in Nat /\ Stop(B, b) <= e
      /\ e \in Nat
  BY Zenon, BlockOf DEF Tiles
<1>2. b # e
  BY <1>1
<1>3. B[b].prev \in DOMAIN B /\ Stop(B, B[b].prev) = b
  BY Zenon, <1>1 DEF Placed
<1>4. Placed(B, e, B[b].prev) /\ B[b].prev # b
  <2>1. Placed(B, e, B[b].prev) /\ B[b].prev \in Nat /\ B[b].prev < Stop(B, B[b].prev)
    BY Zenon, <1>3, BlockOf
  <2>2. B[b].prev # b
    BY <1>3, <2>1
  <2> QED BY Zenon, <2>1, <2>2
<1> QED BY Zenon, <1>2, <1>3, <1>4 DEF Placed

\* The same blocks are used, with the same sizes.
SameUsed(B, C) == Used(C) = Used(B) /\ \A u \in Used(B) : C[u].size = B[u].size

\* No free block other than b is followed by a free one, unless that is b.
ApartBut(B, b) ==
    \A c \in DOMAIN B :
        c # b /\ B[c].free /\ B[c].next # NULL /\ B[c].next # b => ~B[B[c].next].free

\* A free block that is dropped, and a free block that grew, are not used.
LEMMA MergedUsed ==
    ASSUME NEW B, NEW C, NEW b \in DOMAIN B, NEW n \in DOMAIN B, B[b].free, B[n].free,
           IsMerged(B, C, b, n)
    PROVE  SameUsed(B, C)
<1>1. /\ \A c : c \in DOMAIN C <=> c \in DOMAIN B /\ c # n
      /\ \A c \in DOMAIN C : C[c].free = B[c].free
      /\ \A c \in DOMAIN C : c # b => C[c].size = B[c].size
  BY Zenon DEF IsMerged
<1>2. ASSUME NEW c PROVE c \in Used(C) <=> c \in Used(B)
  BY Zenon, <1>1 DEF Used
<1>3. ASSUME NEW u \in Used(B) PROVE C[u].size = B[u].size
  BY Zenon, <1>1 DEF Used
<1> QED BY Zenon, <1>2, <1>3 DEF SameUsed

\* The first half of kfree: a freed block takes in the next one if that is free.
LEMMA NextMerged ==
    ASSUME NEW h, IsHeap(h), Tiles(h.blocks, h.end), NEW b \in DOMAIN h.blocks,
           h.blocks[b].free, ApartBut(h.blocks, b), NEW g, g = MergeNext(h, b)
    PROVE  /\ Remade(h, g) /\ b \in DOMAIN g.blocks /\ g.blocks[b].free
           /\ Apart(g.blocks, b) /\ SameUsed(h.blocks, g.blocks)
<1>0. PICK n : n = h.blocks[b].next
  BY Zenon
<1>1. PICK B, C, e : B = h.blocks /\ C = g.blocks /\ e = h.end
  BY Zenon
<1>2. /\ Tiles(B, e) /\ b \in DOMAIN B /\ B[b].free /\ n = B[b].next
      /\ \A c \in DOMAIN B :
            c # b /\ B[c].free /\ B[c].next # NULL /\ B[c].next # b => ~B[B[c].next].free
  BY Zenon, <1>0, <1>1 DEF ApartBut
<1>3. CASE n # NULL /\ B[n].free
  <2>1. g = Merge(h, b)
    BY Zenon, <1>0, <1>1, <1>3 DEF MergeNext
  <2>2. Remade(h, g) /\ IsMerged(B, C, b, n) /\ n \in DOMAIN B /\ n # b
    <3>1. Remade(h, g) /\ IsMerged(h.blocks, g.blocks, b, n) /\ n \in DOMAIN h.blocks /\ n # b
      BY Zenon, <1>0, <1>3, <2>1, MergeIs
    <3> QED BY Zenon, <1>1, <3>1
  <2>3. /\ \A c : c \in DOMAIN C <=> c \in DOMAIN B /\ c # n
        /\ C[b].next = B[n].next /\ \A c \in DOMAIN C : C[c].free = B[c].free
        /\ \A c \in DOMAIN C : c # b => C[c].next = B[c].next
    BY Zenon, <2>2 DEF IsMerged
  <2>4. b \in DOMAIN C /\ C[b].free
    BY Zenon, <1>2, <2>2, <2>3
  <2>5. ASSUME NEW c \in DOMAIN C, C[c].free, C[c].next # NULL, C[c].next # b
        PROVE  ~C[C[c].next].free
    <3>1. PICK d \in DOMAIN B : d # b /\ B[d].free /\ C[c].next = B[d].next
      BY Zenon, <1>3, <2>2, <2>3, <2>5
    <3>2. B[d].next \in DOMAIN B /\ ~B[B[d].next].free
      <4>1. B[d].next \in DOMAIN B \cup {NULL}
        BY Zenon, <1>2, NextOf
      <4> QED BY Zenon, <1>2, <2>5, <3>1, <4>1
    <3>3. B[d].next \in DOMAIN C
      BY Zenon, <1>3, <2>3, <3>2
    <3> QED BY Zenon, <2>3, <3>1, <3>2, <3>3
  <2>6. Apart(C, b)
    BY Zenon, <2>5 DEF Apart
  <2>7. SameUsed(B, C)
    BY Zenon, <1>2, <1>3, <2>2, MergedUsed
  <2> QED BY Zenon, <1>1, <2>2, <2>4, <2>6, <2>7
<1>4. CASE ~(n # NULL /\ B[n].free)
  <2>1. g = h /\ C = B
    BY Zenon, <1>0, <1>1, <1>4 DEF MergeNext
  <2>2. Apart(B, b)
    <3> SUFFICES ASSUME NEW c \in DOMAIN B, B[c].free, B[c].next # NULL, B[c].next # b
                 PROVE  ~B[B[c].next].free
      BY Zenon DEF Apart
    <3> QED BY Zenon, <1>2, <1>4
  <2>3. SameUsed(B, B) /\ Remade(h, h)
    BY Zenon DEF SameUsed, Remade
  <2> QED BY Zenon, <1>1, <1>2, <2>1, <2>2, <2>3
<1> QED BY <1>3, <1>4

\* The second half of kfree: the previous block takes in the freed one if it is
\* free.
LEMMA PrevMerged ==
    ASSUME NEW h, IsHeap(h), Tiles(h.blocks, h.end), NEW b \in DOMAIN h.blocks,
           h.blocks[b].free, Apart(h.blocks, b), NEW g, g = MergePrev(h, b)
    PROVE  Remade(h, g) /\ Apart(g.blocks, NULL) /\ SameUsed(h.blocks, g.blocks)
<1>0. PICK p : p = h.blocks[b].prev
  BY Zenon
<1>1. PICK B, C, e : B = h.blocks /\ C = g.blocks /\ e = h.end
  BY Zenon
<1>2. /\ Tiles(B, e) /\ b \in DOMAIN B /\ B[b].free /\ p = B[b].prev
      /\ \A c \in DOMAIN B :
            B[c].free /\ B[c].next # NULL /\ B[c].next # b => ~B[B[c].next].free
  BY Zenon, <1>0, <1>1 DEF Apart
<1>3. \A c \in DOMAIN B : /\ B[c].next \in DOMAIN B \cup {NULL}
                          /\ B[c].next # NULL => B[c].next # c /\ B[B[c].next].prev = c
  BY Zenon, <1>2, NextOf
<1>4. NULL \notin DOMAIN B
  BY Zenon, <1>2, NextOf
<1>5. CASE p # NULL /\ B[p].free
  <2>1. g = Merge(h, p)
    BY Zenon, <1>0, <1>1, <1>5 DEF MergePrev
  <2>2. p \in DOMAIN B /\ b = B[p].next /\ p # b /\ b # NULL
    <3>1. B[b].prev \in DOMAIN B /\ B[B[b].prev].next = b /\ B[b].prev # b
      BY Zenon, <1>2, <1>5, PrevOf
    <3>2. p = B[b].prev /\ b # NULL
      BY Zenon, <1>2, <1>4
    <3> QED BY Zenon, <3>1, <3>2
  <2>3. Remade(h, g) /\ IsMerged(B, C, p, b)
    <3>1. p \in DOMAIN h.blocks /\ b = h.blocks[p].next /\ b # NULL
      BY Zenon, <1>1, <2>2
    <3>2. Remade(h, g) /\ IsMerged(h.blocks, g.blocks, p, b)
      BY ONLY IsHeap(h), Tiles(h.blocks, h.end), <2>1, <3>1, MergeIs
    <3> QED BY Zenon, <1>1, <3>2
  <2>4. /\ \A c : c \in DOMAIN C <=> c \in DOMAIN B /\ c # b
        /\ C[p].next = B[b].next /\ \A c \in DOMAIN C : C[c].free = B[c].free
        /\ \A c \in DOMAIN C : c # p => C[c].next = B[c].next
    BY Zenon, <2>3 DEF IsMerged
  <2>5. ASSUME NEW c \in DOMAIN C, C[c].free, C[c].next # NULL
        PROVE  ~C[C[c].next].free
    <3>1. PICK d \in DOMAIN B : d # p /\ B[d].free /\ C[c].next = B[d].next
      BY Zenon, <1>2, <2>2, <2>4, <2>5
    <3>2. B[d].next # b /\ B[d].next \in DOMAIN B
      BY Zenon, <1>2, <1>3, <2>2, <2>5, <3>1
    <3>3. ~B[B[d].next].free /\ B[d].next \in DOMAIN C
      BY Zenon, <1>2, <2>4, <2>5, <3>1, <3>2
    <3> QED BY Zenon, <2>4, <3>1, <3>3
  <2>6. Apart(C, NULL)
    BY Zenon, <2>5 DEF Apart
  <2>7. SameUsed(B, C)
    BY Zenon, <1>2, <1>5, <2>2, <2>3, MergedUsed
  <2> QED BY Zenon, <1>1, <2>3, <2>6, <2>7
<1>6. CASE ~(p # NULL /\ B[p].free)
  <2>1. g = h /\ C = B
    BY Zenon, <1>0, <1>1, <1>6 DEF MergePrev
  <2>2. Apart(B, NULL)
    <3> SUFFICES ASSUME NEW c \in DOMAIN B, B[c].free, B[c].next # NULL
                 PROVE  ~B[B[c].next].free
      BY Zenon DEF Apart
    <3>1. B[c].next # b
      <4>1. B[B[c].next].prev = c
        BY Zenon, <1>3
      <4>2. B[c].next = b => p = c
        BY Zenon, <1>2, <4>1
      <4>3. c # NULL
        BY Zenon, <1>4
      <4> QED BY Zenon, <1>6, <4>2, <4>3
    <3> QED BY Zenon, <1>2, <3>1
  <2>3. SameUsed(B, B) /\ Remade(h, h)
    BY Zenon DEF SameUsed, Remade
  <2> QED BY Zenon, <1>1, <1>2, <2>1, <2>2, <2>3
<1> QED BY <1>5, <1>6

\* A heap g without the used block b of h.
Lost(h, g, b) ==
    /\ HeapInv(g) /\ Used(g.blocks) = Used(h.blocks) \ {b}
    /\ \A u \in Used(g.blocks) : g.blocks[u].size = h.blocks[u].size

\* kfree gives up one used block and keeps the heap in order.
LEMMA FreedIs ==
    ASSUME NEW h, HeapInv(h), NEW ptr, NEW b \in Used(h.blocks), b = ptr - HEADER,
           NEW g, g = Freed(h, ptr)
    PROVE  Lost(h, g, b)
<1>1. PICK B, e : B = h.blocks /\ e = h.end
  BY Zenon
<1>2. /\ IsHeap(h) /\ Tiles(B, e) /\ Apart(B, NULL) /\ b \in DOMAIN B /\ ~B[b].free
      /\ h.head = (IF e = KHEAP_START THEN NULL ELSE KHEAP_START)
  BY Zenon, <1>1 DEF HeapInv, Used
<1>3. PICK h1 : h1 = [h EXCEPT !.blocks[b].free = TRUE]
  BY Zenon
<1>4. IsHeap(h1) /\ h1.head = h.head /\ h1.end = e /\ h1.blocks = Mark(B, b, TRUE)
  BY ONLY Zenon, <1>1, <1>2, <1>3 DEF IsHeap, Mark
<1>5. PICK B1 : B1 = h1.blocks
  BY Zenon
<1>6. Tiles(B1, e) /\ IsMarked(B, B1, b, TRUE)
  <2>1. B1 = Mark(B, b, TRUE) /\ TRUE \in BOOLEAN
    BY Zenon, <1>4, <1>5
  <2> QED BY Zenon, <1>2, <2>1, Marked
<1>7. /\ DOMAIN B1 = DOMAIN B /\ B1[b].free
      /\ \A c \in DOMAIN B : /\ B1[c].size = B[c].size /\ B1[c].next = B[c].next
                             /\ (c # b => B1[c].free = B[c].free)
  BY Zenon, <1>6 DEF IsMarked
<1>8. ApartBut(B1, b)
  <2> SUFFICES ASSUME NEW c \in DOMAIN B, c # b, B1[c].free, B1[c].next # NULL, B1[c].next # b
               PROVE  ~B1[B1[c].next].free
    BY Zenon, <1>7 DEF ApartBut
  <2>1. B1[c].next = B[c].next /\ B[c].free
    BY Zenon, <1>7
  <2>2. B[c].next \in DOMAIN B
    BY Zenon, <1>2, <2>1, NextOf
  <2>3. ~B[B[c].next].free
    BY Zenon, <1>2, <2>1 DEF Apart
  <2> QED BY Zenon, <1>7, <2>1, <2>2, <2>3
<1>9. PICK h2 : h2 = MergeNext(h1, b)
  BY Zenon
<1>10. /\ Remade(h1, h2) /\ b \in DOMAIN h2.blocks /\ h2.blocks[b].free
       /\ Apart(h2.blocks, b) /\ SameUsed(h1.blocks, h2.blocks)
  <2>1. Tiles(h1.blocks, h1.end) /\ b \in DOMAIN h1.blocks /\ h1.blocks[b].free
        /\ ApartBut(h1.blocks, b)
    BY Zenon, <1>2, <1>4, <1>5, <1>6, <1>7, <1>8
  <2> QED BY Zenon, <1>4, <1>9, <2>1, NextMerged
<1>11. IsHeap(h2) /\ h2.head = h.head /\ h2.end = e /\ Tiles(h2.blocks, h2.end)
  BY Zenon, <1>4, <1>10 DEF Remade
<1>13. g = MergePrev(h2, b)
  BY Zenon, <1>3, <1>9 DEF Freed
<1>14. Remade(h2, g) /\ Apart(g.blocks, NULL) /\ SameUsed(h2.blocks, g.blocks)
  BY Zenon, <1>10, <1>11, <1>13, PrevMerged
<1>15. HeapInv(g)
  BY Zenon, <1>2, <1>11, <1>14 DEF HeapInv, Remade
<1>16. SameUsed(B1, g.blocks)
  BY Zenon, <1>5, <1>10, <1>14 DEF SameUsed
<1>17. ASSUME NEW c PROVE c \in Used(B1) <=> c \in Used(B) \ {b}
  BY Zenon, <1>7 DEF Used
<1>18. \A u \in Used(B1) : B1[u].size = B[u].size
  BY Zenon, <1>7 DEF Used
<1>19. Used(g.blocks) = Used(B) \ {b}
  BY Zenon, <1>16, <1>17 DEF SameUsed
<1>20. \A u \in Used(g.blocks) : g.blocks[u].size = B[u].size
  BY Zenon, <1>16, <1>18 DEF SameUsed
<1> QED BY Zenon, <1>1, <1>15, <1>19, <1>20 DEF Lost

\* Fresh pages hold the request and its header.
LEMMA PagesHold ==
    ASSUME NEW size \in Nat
    PROVE  /\ Pages(size) \in Nat /\ Pages(size) * KMALLOC_PAGE \in Nat
           /\ Pages(size) * KMALLOC_PAGE >= size + HEADER
<1>1. HEADER \in Nat /\ KMALLOC_PAGE \in Nat \ {0} /\ size + HEADER \in Nat
  BY KmallocAssumption
<1>2. PICK n : n = size + HEADER
  BY Zenon
<1>3. Pages(size) = (n + KMALLOC_PAGE - 1) \div KMALLOC_PAGE /\ n \in Nat
  BY Zenon, <1>1, <1>2 DEF Pages
<1> QED BY Zenon, <1>1, <1>2, <1>3, RoundsUp

\* The blocks of a heap that grew by a block at e after the block last.
Appended(B, e, fresh, last) ==
    IF last = NULL THEN Put(B, e, fresh) ELSE [Put(B, e, fresh) EXCEPT ![last].next = e]

IsAppended(B, C, e, fresh, last) ==
    /\ DOMAIN C = DOMAIN B \cup {e} /\ C \in [DOMAIN C -> Block] /\ C[e] = fresh
    /\ \A c \in DOMAIN B : /\ C[c].size = B[c].size /\ C[c].prev = B[c].prev
                           /\ C[c].free = B[c].free
                           /\ C[c].next = (IF c = last THEN e ELSE B[c].next)

\* What it leaves of the other blocks.
LEMMA AppendedIs ==
    ASSUME NEW B, B \in [DOMAIN B -> Block], NEW e \in Nat, e \notin DOMAIN B, NULL \notin DOMAIN B,
           NEW last \in DOMAIN B \cup {NULL}, NEW fresh \in Block,
           NEW C, C = Appended(B, e, fresh, last)
    PROVE  IsAppended(B, C, e, fresh, last)
<1>1. PICK P : P = Put(B, e, fresh)
  BY Zenon
<1>2. P \in [DOMAIN B \cup {e} -> Block] /\ P[e] = fresh /\ \A c \in DOMAIN B : P[c] = B[c]
  BY ONLY <1>1, B \in [DOMAIN B -> Block], e \notin DOMAIN B, fresh \in Block DEF Put
<1>3. CASE last = NULL
  <2>1. C = P
    BY Zenon, <1>1, <1>3 DEF Appended
  <2> QED BY ONLY <1>2, <1>3, <2>1, NULL \notin DOMAIN B DEF IsAppended
<1>4. CASE last # NULL
  <2>1. C = [P EXCEPT ![last].next = e] /\ last \in DOMAIN B
    BY Zenon, <1>1, <1>4 DEF Appended
  <2>2. PICK r : r = [B[last] EXCEPT !.next = e]
    BY Zenon
  <2>3. B[last] \in Block /\ P[last] = B[last] /\ last # e
    BY Zenon, <1>2, <2>1
  <2>4. /\ r \in Block /\ r.size = B[last].size /\ r.prev = B[last].prev
        /\ r.free = B[last].free /\ r.next = e
    BY ONLY <2>2, <2>3, e \in Nat DEF Block
  <2>5. C = [P EXCEPT ![last] = r]
    BY ONLY <2>1, <2>2, <2>3
  <2>6. C \in [DOMAIN B \cup {e} -> Block] /\ C[e] = fresh /\ C[last] = r
        /\ \A c \in DOMAIN B : c # last => C[c] = B[c]
    BY ONLY <1>2, <2>1, <2>3, <2>4, <2>5
  <2>7. DOMAIN C = DOMAIN B \cup {e}
    BY ONLY <2>6
  <2>8. ASSUME NEW c \in DOMAIN B
        PROVE  /\ C[c].size = B[c].size /\ C[c].prev = B[c].prev /\ C[c].free = B[c].free
               /\ C[c].next = (IF c = last THEN e ELSE B[c].next)
    BY Zenon, <2>4, <2>6
  <2> QED BY Zenon, <2>6, <2>7, <2>8 DEF IsAppended
<1> QED BY <1>3, <1>4

\* expand_heap adds a free block that is large enough at the end of the heap.
LEMMA ExpandedIs ==
    ASSUME NEW h, HeapInv(h), NEW size \in Nat, NEW g, g = Expanded(h, size)
    PROVE  /\ IsHeap(g) /\ Tiles(g.blocks, g.end)
           /\ g.head = KHEAP_START /\ g.end # KHEAP_START
           /\ h.end \in DOMAIN g.blocks /\ g.blocks[h.end].free /\ size <= g.blocks[h.end].size
           /\ Apart(g.blocks, h.end) /\ h.end \notin DOMAIN h.blocks
           /\ SameUsed(h.blocks, g.blocks)
<1>1. PICK B, e, N, last : B = h.blocks /\ e = h.end /\ N = Pages(size) * KMALLOC_PAGE
                           /\ last = LastBlock(h)
  BY Zenon
<1>2. /\ IsHeap(h) /\ Tiles(B, e) /\ Apart(B, NULL) /\ e \in Nat /\ KHEAP_START <= e
      /\ B \in [DOMAIN B -> Block] /\ h.head = (IF e = KHEAP_START THEN NULL ELSE KHEAP_START)
  BY Zenon, <1>1 DEF HeapInv, Tiles
<1>3. N \in Nat /\ N >= size + HEADER
  BY Zenon, <1>1, PagesHold
<1>4. HEADER \in Nat \ {0} /\ KHEAP_START \in Nat \ {0}
  BY Zenon, KmallocAssumption
<1>5. N - HEADER \in Nat /\ size <= N - HEADER /\ e + N \in Nat /\ e < e + N /\ e + N # KHEAP_START
  BY ONLY <1>2, <1>3, <1>4, size \in Nat
<1>6. /\ e = KHEAP_START => DOMAIN B = {} /\ last = NULL
      /\ e # KHEAP_START => last \in DOMAIN B /\ Stop(B, last) = e
  <2>1. Tiles(h.blocks, h.end) /\ h.head = (IF h.end = KHEAP_START THEN NULL ELSE KHEAP_START)
    BY Zenon DEF HeapInv
  <2> QED BY Zenon, <1>1, <2>1, LastIs
<1>7. \A c \in DOMAIN B : c # NULL /\ c \in Nat /\ c < Stop(B, c) /\ Stop(B, c) <= e /\ Stop(B, c) \in Nat
  BY Zenon, <1>2, BlockOf
<1>8. e \notin DOMAIN B /\ NULL \notin DOMAIN B
  <2>1. \A c \in DOMAIN B : c # e
    BY <1>2, <1>7
  <2> QED BY Zenon, <1>7, <2>1
<1>9. last \in DOMAIN B \cup {NULL} /\ last \in Nat /\ (last = NULL <=> e = KHEAP_START)
  <2>1. CASE e = KHEAP_START
    BY <1>6, <2>1 DEF NULL
  <2>2. CASE e # KHEAP_START
    BY Zenon, <1>6, <1>7, <1>8, <2>2
  <2> QED BY <2>1, <2>2
<1>10. PICK fresh : fresh = [size |-> N - HEADER, free |-> TRUE, next |-> NULL, prev |-> last]
  BY Zenon
<1>11. /\ fresh \in Block /\ fresh.size = N - HEADER /\ fresh.free /\ fresh.next = NULL
       /\ fresh.prev = last
  BY ONLY <1>5, <1>9, <1>10 DEF Block, NULL
<1>12. PICK C : C = Appended(B, e, fresh, last)
  BY Zenon
<1>13. IsAppended(B, C, e, fresh, last)
  BY Zenon, <1>2, <1>8, <1>9, <1>11, <1>12, AppendedIs
<1>14. g = [head |-> IF last = NULL THEN e ELSE h.head, end |-> e + N, blocks |-> C]
  BY Zenon, <1>1, <1>10, <1>12 DEF Expanded, Appended
<1>15. IsHeap(g) /\ g.head = KHEAP_START /\ g.end = e + N /\ g.blocks = C
  <2>1. g.head = (IF last = NULL THEN e ELSE h.head) /\ g.end = e + N /\ g.blocks = C /\ IsHeap(g)
    BY ONLY <1>14 DEF IsHeap
  <2>2. (IF last = NULL THEN e ELSE h.head) = KHEAP_START
    BY ONLY <1>2, <1>9
  <2> QED BY Zenon, <2>1, <2>2
<1>16. /\ \A c : c \in DOMAIN C <=> c \in DOMAIN B \/ c = e
       /\ C[e] = fresh
       /\ \A c \in DOMAIN B : /\ C[c].size = B[c].size /\ C[c].free = B[c].free
                              /\ C[c].next = (IF c = last THEN e ELSE B[c].next)
  BY Zenon, <1>13 DEF IsAppended
<1>17. Tiles(C, e + N)
  <2>1. Stop(C, e) = e + N
    BY ONLY <1>2, <1>3, <1>4, <1>11, <1>16 DEF Stop
  <2>2. AddOf(B, C, e, e + N, last)
    BY Zenon, <1>11, <1>13, <2>1 DEF AddOf, IsAppended
  <2> QED BY Zenon, <1>2, <1>5, <1>6, <2>2, Added
<1>18. Apart(C, e)
  <2> SUFFICES ASSUME NEW c \in DOMAIN C, C[c].free, C[c].next # NULL, C[c].next # e
               PROVE  ~C[C[c].next].free
    BY Zenon DEF Apart
  <2>1. c \in DOMAIN B
    BY Zenon, <1>11, <1>16
  <2>2. C[c].next = B[c].next /\ B[c].free
    <3>1. C[c].next = (IF c = last THEN e ELSE B[c].next) /\ C[c].free = B[c].free
      BY Zenon, <1>16, <2>1
    <3> QED BY Zenon, <3>1
  <2>3. B[c].next \in DOMAIN B /\ ~B[B[c].next].free
    <3>1. B[c].next \in DOMAIN B \cup {NULL}
      BY Zenon, <1>2, <2>1, NextOf
    <3> QED BY Zenon, <1>2, <2>1, <2>2, <3>1 DEF Apart
  <2> QED BY Zenon, <1>16, <2>2, <2>3
<1>19. SameUsed(B, C)
  <2>1. ASSUME NEW c PROVE c \in Used(C) <=> c \in Used(B)
    BY Zenon, <1>8, <1>11, <1>16 DEF Used
  <2>2. \A c \in Used(B) : C[c].size = B[c].size
    BY Zenon, <1>16 DEF Used
  <2> QED BY Zenon, <2>1, <2>2 DEF SameUsed
<1>20. C[e].free /\ size <= C[e].size /\ e \in DOMAIN C
  BY Zenon, <1>5, <1>11, <1>16
<1> QED BY Zenon, <1>1, <1>5, <1>8, <1>15, <1>17, <1>18, <1>19, <1>20

\* The heap has a free block b of this size, which may have a free neighbour.
Claimable(h, b, size) ==
    /\ IsHeap(h) /\ Tiles(h.blocks, h.end)
    /\ h.head = (IF h.end = KHEAP_START THEN NULL ELSE KHEAP_START)
    /\ b \in DOMAIN h.blocks /\ h.blocks[b].free /\ Apart(h.blocks, b)
    /\ size \in Nat /\ size <= h.blocks[b].size

HeapClaim(h, b, size) == [h EXCEPT !.blocks = Claim(h.blocks, b, size)]

\* A heap whose free block b is claimed.
LEMMA HeapClaimed ==
    ASSUME NEW h, NEW b, NEW size, Claimable(h, b, size), NEW g, g = HeapClaim(h, b, size)
    PROVE  HeapInv(g) /\ IsClaimed(h.blocks, g.blocks, b, size)
<1> SUFFICES
    ASSUME IsHeap(h), Tiles(h.blocks, h.end),
           h.head = (IF h.end = KHEAP_START THEN NULL ELSE KHEAP_START),
           b \in DOMAIN h.blocks, h.blocks[b].free, Apart(h.blocks, b),
           size \in Nat, size <= h.blocks[b].size
    PROVE  HeapInv(g) /\ IsClaimed(h.blocks, g.blocks, b, size)
  BY Zenon DEF Claimable
<1>1. PICK C : C = Claim(h.blocks, b, size)
  BY Zenon
<1>2. IsHeap(g) /\ g.head = h.head /\ g.end = h.end /\ g.blocks = C
  BY ONLY <1>1, IsHeap(h), g = HeapClaim(h, b, size) DEF IsHeap, HeapClaim
<1>3. Tiles(C, h.end) /\ Apart(C, NULL) /\ IsClaimed(h.blocks, C, b, size)
  BY Zenon, <1>1, ClaimIs
<1> QED BY Zenon, <1>2, <1>3 DEF HeapInv

\* A heap h1 with one more used block b, of at least this size.
Gained(h, h1, b, size) ==
    /\ HeapInv(h1) /\ Used(h1.blocks) = Used(h.blocks) \cup {b}
    /\ b \notin Used(h.blocks) /\ b \in Nat /\ size <= h1.blocks[b].size
    /\ \A u \in Used(h.blocks) : h1.blocks[u].size = h.blocks[u].size

\* The first fit is free and large enough.
LEMMA FitIs ==
    ASSUME NEW h, NEW s, NEW b, b = FirstFit(h, s), b # NULL
    PROVE  b \in DOMAIN h.blocks /\ h.blocks[b].free /\ h.blocks[b].size >= s
<1>1. PICK fit : fit = {c \in DOMAIN h.blocks : h.blocks[c].free /\ h.blocks[c].size >= s}
  BY Zenon
<1>2. b = OneOf(Met(h, fit) \cap fit)
  BY Zenon, <1>1 DEF FirstFit
<1>3. b \in Met(h, fit) \cap fit
  BY Zenon, <1>2, OneOfIn
<1> QED BY Zenon, <1>1, <1>3

\* kmalloc takes a block that no pointer in use has.
LEMMA AllocatedIs ==
    ASSUME HeapInv(heap), NEW size \in Nat
    PROVE  Gained(heap, Allocated(size).heap, Allocated(size).block, size)
<1>1. PICK s : s = RoundUp(size)
  BY Zenon
<1>2. s \in Nat /\ s >= size
  <2>1. ALIGN \in Nat \ {0}
    BY Zenon, KmallocAssumption
  <2> QED BY Zenon, <1>1, <2>1, RoundsUp DEF RoundUp
<1>3. CASE Grows(size)
  <2>1. PICK h, b : h = Expanded(heap, s) /\ b = heap.end
    BY Zenon
  <2>2. PICK g : g = HeapClaim(h, b, s)
    BY Zenon
  <2>3. Allocated(size).heap = g /\ Allocated(size).block = b
    BY Zenon, <1>1, <1>3, <2>1, <2>2 DEF Allocated, HeapClaim
  <2>4. /\ IsHeap(h) /\ Tiles(h.blocks, h.end)
        /\ h.head = KHEAP_START /\ h.end # KHEAP_START
        /\ b \in DOMAIN h.blocks /\ h.blocks[b].free /\ s <= h.blocks[b].size
        /\ Apart(h.blocks, b) /\ b \notin DOMAIN heap.blocks /\ SameUsed(heap.blocks, h.blocks)
    BY Zenon, <1>2, <2>1, ExpandedIs
  <2>5. /\ HeapInv(g) /\ Used(g.blocks) = Used(h.blocks) \cup {b} /\ s <= g.blocks[b].size
        /\ \A u \in Used(h.blocks) : g.blocks[u].size = h.blocks[u].size
    <3>1. Claimable(h, b, s)
      BY Zenon, <1>2, <2>4 DEF Claimable
    <3>2. HeapInv(g) /\ IsClaimed(h.blocks, g.blocks, b, s)
      BY Zenon, <2>2, <3>1, HeapClaimed
    <3> QED BY Zenon, <3>2 DEF IsClaimed
  <2>6. b \in Nat /\ g.blocks[b].size \in Nat
    <3>1. Tiles(g.blocks, g.end) /\ b \in DOMAIN g.blocks
      BY Zenon, <2>5 DEF HeapInv, Used
    <3> QED BY Zenon, <3>1, BlockOf
  <2>7. size <= g.blocks[b].size
    BY ONLY <1>2, <2>5, <2>6, size \in Nat
  <2>8. /\ Used(g.blocks) = Used(heap.blocks) \cup {b} /\ b \notin Used(heap.blocks)
        /\ \A u \in Used(heap.blocks) : g.blocks[u].size = heap.blocks[u].size
    BY Zenon, <2>4, <2>5 DEF SameUsed, Used
  <2> QED BY Zenon, <2>3, <2>5, <2>6, <2>7, <2>8 DEF Gained
<1>4. CASE ~Grows(size)
  <2>1. PICK b : b = FirstFit(heap, s)
    BY Zenon
  <2>2. PICK g : g = HeapClaim(heap, b, s)
    BY Zenon
  <2>3. Allocated(size).heap = g /\ Allocated(size).block = b /\ b # NULL
    BY Zenon, <1>1, <1>4, <2>1, <2>2 DEF Allocated, Grows, HeapClaim
  <2>4. b \in DOMAIN heap.blocks /\ heap.blocks[b].free /\ heap.blocks[b].size >= s
    BY Zenon, <2>1, <2>3, FitIs
  <2>5. /\ IsHeap(heap) /\ Tiles(heap.blocks, heap.end) /\ Apart(heap.blocks, b)
        /\ heap.head = (IF heap.end = KHEAP_START THEN NULL ELSE KHEAP_START)
    BY Zenon DEF HeapInv, Apart
  <2>6. b \in Nat /\ heap.blocks[b].size \in Nat
    BY Zenon, <2>4, <2>5, BlockOf
  <2>7. s <= heap.blocks[b].size
    BY ONLY <1>2, <2>4, <2>6
  <2>8. /\ HeapInv(g) /\ Used(g.blocks) = Used(heap.blocks) \cup {b} /\ s <= g.blocks[b].size
        /\ \A u \in Used(heap.blocks) : g.blocks[u].size = heap.blocks[u].size
    <3>1. Claimable(heap, b, s)
      BY Zenon, <1>2, <2>4, <2>5, <2>7 DEF Claimable
    <3>2. HeapInv(g) /\ IsClaimed(heap.blocks, g.blocks, b, s)
      BY Zenon, <2>2, <3>1, HeapClaimed
    <3> QED BY Zenon, <3>2 DEF IsClaimed
  <2>9. g.blocks[b].size \in Nat
    <3>1. Tiles(g.blocks, g.end) /\ b \in DOMAIN g.blocks
      BY Zenon, <2>8 DEF HeapInv, Used
    <3> QED BY Zenon, <3>1, BlockOf
  <2>10. size <= g.blocks[b].size
    BY ONLY <1>2, <2>8, <2>9, size \in Nat
  <2>11. b \notin Used(heap.blocks)
    BY Zenon, <2>4 DEF Used
  <2> QED BY Zenon, <2>3, <2>6, <2>8, <2>10, <2>11 DEF Gained
<1> QED BY <1>3, <1>4

-----------------------------------------------------------------------------
(* The pointers in use.                                                    *)

\* A pointer more.
LEMMA OwnsPut ==
    ASSUME NEW h, NEW g, NEW L, Owns(h.blocks, L), NEW b, NEW size, Gained(h, g, b, size),
           NEW M, M = Put(L, b + HEADER, size), size \in Nat
    PROVE  Owns(g.blocks, M) /\ b + HEADER \notin DOMAIN L
<1>1. PICK B, C, q : B = h.blocks /\ C = g.blocks /\ q = b + HEADER
  BY Zenon
<1>2. /\ Used(C) = Used(B) \cup {b} /\ b \notin Used(B) /\ b \in Nat /\ size <= C[b].size
      /\ \A u \in Used(B) : C[u].size = B[u].size
  BY Zenon, <1>1 DEF Gained
<1>3. /\ DOMAIN L \subseteq Nat /\ Used(B) = {p - HEADER : p \in DOMAIN L}
      /\ \A p \in DOMAIN L : B[p - HEADER].size >= L[p]
  BY Zenon, <1>1 DEF Owns
<1>4. HEADER \in Nat
  BY KmallocAssumption
<1>5. q \in Nat /\ q - HEADER = b
  BY ONLY <1>1, <1>2, <1>4
<1>6. q \notin DOMAIN L
  BY Zenon, <1>2, <1>3, <1>5
<1>7. DOMAIN M = DOMAIN L \cup {q} /\ M[q] = size /\ \A p \in DOMAIN L : M[p] = L[p]
  <2>1. DOMAIN M = DOMAIN L \cup {q} /\ \A p \in DOMAIN M : M[p] = (IF p = q THEN size ELSE L[p])
    BY Zenon, <1>1 DEF Put
  <2> QED BY Zenon, <1>6, <2>1
<1>8. DOMAIN M \subseteq Nat
  BY Zenon, <1>3, <1>5, <1>7
<1>9. ASSUME NEW c PROVE c \in Used(C) <=> c \in {p - HEADER : p \in DOMAIN M}
  BY Zenon, <1>2, <1>3, <1>5, <1>7
<1>10. ASSUME NEW p \in DOMAIN M PROVE C[p - HEADER].size >= M[p]
  <2>1. CASE p = q
    <3>1. C[b].size >= size
      <4>1. C[b].size \in Nat
        <5>1. Tiles(C, g.end) /\ b \in DOMAIN C
          BY Zenon, <1>1, <1>2 DEF Gained, HeapInv, Used
        <5> QED BY Zenon, <5>1, BlockOf
      <4> QED BY ONLY <1>2, <4>1, size \in Nat
    <3> QED BY Zenon, <1>5, <1>7, <2>1, <3>1
  <2>2. CASE p \in DOMAIN L
    <3>1. p - HEADER \in Used(B) /\ M[p] = L[p] /\ B[p - HEADER].size >= L[p]
      BY Zenon, <1>3, <1>7, <2>2
    <3> QED BY Zenon, <1>2, <3>1
  <2> QED BY Zenon, <1>7, <2>1, <2>2
<1> QED BY Zenon, <1>1, <1>6, <1>8, <1>9, <1>10 DEF Owns

\* The blocks of the pointers that stay in use keep their sizes.
Keeps(B, C, L, M) ==
    \A p \in DOMAIN L :
        p \in DOMAIN M =>
            /\ p - HEADER \in DOMAIN C
            /\ C[p - HEADER].size = B[p - HEADER].size

\* Giving out a block keeps the others.
LEMMA KeepsPut ==
    ASSUME NEW h, NEW g, NEW L, Owns(h.blocks, L), NEW b, NEW size, Gained(h, g, b, size), NEW M
    PROVE  Keeps(h.blocks, g.blocks, L, M)
<1>1. PICK B, C : B = h.blocks /\ C = g.blocks
  BY Zenon
<1>2. Used(C) = Used(B) \cup {b} /\ \A u \in Used(B) : C[u].size = B[u].size
  BY Zenon, <1>1 DEF Gained
<1>3. Used(B) = {p - HEADER : p \in DOMAIN L}
  BY Zenon, <1>1 DEF Owns
<1>4. ASSUME NEW p \in DOMAIN L
      PROVE  p - HEADER \in DOMAIN C /\ C[p - HEADER].size = B[p - HEADER].size
  <2>1. p - HEADER \in Used(B) /\ p - HEADER \in Used(C)
    BY Zenon, <1>2, <1>3
  <2> QED BY Zenon, <1>2, <2>1 DEF Used
<1> QED BY Zenon, <1>1, <1>4 DEF Keeps

\* A pointer less.
LEMMA OwnsDrop ==
    ASSUME NEW B, NEW C, NEW L, Owns(B, L), NEW ptr \in DOMAIN L,
           Used(C) = Used(B) \ {ptr - HEADER}, \A u \in Used(C) : C[u].size = B[u].size,
           NEW M, M = Drop(L, ptr)
    PROVE  Owns(C, M) /\ Keeps(B, C, L, M) /\ ptr - HEADER \in Used(B)
<1>1. /\ DOMAIN L \subseteq Nat /\ Used(B) = {p - HEADER : p \in DOMAIN L}
      /\ \A p \in DOMAIN L : B[p - HEADER].size >= L[p]
  BY Zenon DEF Owns
<1>2. HEADER \in Nat
  BY KmallocAssumption
<1>3. /\ \A p : p \in DOMAIN M <=> p \in DOMAIN L /\ p # ptr
      /\ \A p \in DOMAIN M : M[p] = L[p]
  BY Zenon DEF Drop
<1>4. ASSUME NEW p \in DOMAIN L, NEW r \in DOMAIN L, p - HEADER = r - HEADER PROVE p = r
  <2>1. p \in Nat /\ r \in Nat
    BY Zenon, <1>1
  <2> QED BY ONLY <1>2, <1>4, <2>1
<1>5. ASSUME NEW c PROVE c \in Used(C) <=> c \in {p - HEADER : p \in DOMAIN M}
  <2>1. c \in Used(C) <=> c \in Used(B) /\ c # ptr - HEADER
    BY Zenon
  <2>2. c \in Used(B) <=> \E p \in DOMAIN L : c = p - HEADER
    BY Zenon, <1>1
  <2>3. c \in {p - HEADER : p \in DOMAIN M} <=> \E p \in DOMAIN M : c = p - HEADER
    BY Zenon
  <2>4. (\E p \in DOMAIN M : c = p - HEADER) <=> \E p \in DOMAIN L : c = p - HEADER /\ p # ptr
    BY Zenon, <1>3
  <2>5. (\E p \in DOMAIN L : c = p - HEADER /\ p # ptr)
           <=> c # ptr - HEADER /\ \E p \in DOMAIN L : c = p - HEADER
    BY Zenon, <1>4
  <2> QED BY Zenon, <2>1, <2>2, <2>3, <2>4, <2>5
<1>6. ASSUME NEW p \in DOMAIN M
      PROVE  /\ C[p - HEADER].size >= M[p] /\ p - HEADER \in DOMAIN C
             /\ C[p - HEADER].size = B[p - HEADER].size
  <2>1. p - HEADER \in Used(C) /\ p \in DOMAIN L /\ M[p] = L[p]
    BY Zenon, <1>3, <1>5
  <2>2. p - HEADER \in DOMAIN C /\ C[p - HEADER].size = B[p - HEADER].size
    BY Zenon, <2>1 DEF Used
  <2> QED BY Zenon, <1>1, <2>1, <2>2
<1>7. DOMAIN M \subseteq Nat
  BY Zenon, <1>1, <1>3
<1>8. Owns(C, M)
  BY Zenon, <1>5, <1>6, <1>7 DEF Owns
<1>9. Keeps(B, C, L, M)
  BY Zenon, <1>6 DEF Keeps
<1> QED BY Zenon, <1>1, <1>8, <1>9

\* Giving a pointer back.
LEMMA FreedOwns ==
    ASSUME NEW h, HeapInv(h), NEW L, Owns(h.blocks, L), NEW ptr \in DOMAIN L,
           NEW g, g = Freed(h, ptr), NEW M, M = Drop(L, ptr)
    PROVE  HeapInv(g) /\ Owns(g.blocks, M) /\ Keeps(h.blocks, g.blocks, L, M)
<1>1. PICK b : b = ptr - HEADER
  BY Zenon
<1>2. b \in Used(h.blocks)
  BY Zenon, <1>1 DEF Owns
<1>3. /\ HeapInv(g) /\ Used(g.blocks) = Used(h.blocks) \ {b}
      /\ \A u \in Used(g.blocks) : g.blocks[u].size = h.blocks[u].size
  <2>1. Lost(h, g, b)
    BY Zenon, <1>1, <1>2, FreedIs
  <2> QED BY Zenon, <2>1 DEF Lost
<1>4. Used(g.blocks) = Used(h.blocks) \ {ptr - HEADER}
  BY Zenon, <1>1, <1>3
<1>5. Owns(g.blocks, M) /\ Keeps(h.blocks, g.blocks, L, M)
  BY Zenon, <1>3, <1>4, OwnsDrop
<1> QED BY Zenon, <1>3, <1>5

-----------------------------------------------------------------------------
(* The steps.                                                              *)

Untouched == Keeps(heap.blocks, heap'.blocks, live, live')

\* kmalloc takes no more frames than there are.
LEMMA FramesTaken ==
    ASSUME Framed, HeapInv(heap), NEW size \in Nat, TakeFrames(size), UNCHANGED freed
    PROVE  Framed'
<1>1. freed \in Nat /\ frames \in Nat /\ frames <= FRAMES + freed /\ FRAMES \in Nat /\ MAX_FREED \in Nat
  BY KmallocAssumption DEF Framed
<1>2. CASE UNCHANGED memVars
  BY Zenon, <1>2 DEF Framed, memVars
<1>3. CASE expand_heap(RoundUp(size))
  <2>1. PICK s, P, first : s = RoundUp(size) /\ P = Pages(s) /\ first = heap.end \div KMALLOC_PAGE
    BY Zenon
  <2>2. P \in Nat
    <3>1. ALIGN \in Nat \ {0}
      BY Zenon, KmallocAssumption
    <3>2. s \in Nat
      BY Zenon, <2>1, <3>1, RoundsUp DEF RoundUp
    <3> QED BY Zenon, <2>1, <3>2, PagesHold
  <2>3. PICK m : m = Min({P, frames})
    BY Zenon
  <2>4. m \in Nat /\ m <= frames
    <3>1. \E x \in {P, frames} : \A y \in {P, frames} : x <= y
      BY ONLY <1>1, <2>2
    <3>2. m \in {P, frames} /\ \A y \in {P, frames} : m <= y
      BY Zenon, <2>3, <3>1 DEF Min
    <3> QED BY ONLY <1>1, <2>2, <3>2
  <2>5. frames' = frames - Cardinality(first..(first + m - 1))
    BY Zenon, <1>3, <2>1, <2>3 DEF expand_heap
  <2>6. Cardinality(first..(first + m - 1)) = m
    <3>1. first \in Int
      <4>1. heap.end \in Nat
        BY Zenon DEF HeapInv, Tiles
      <4>2. KMALLOC_PAGE \in Nat \ {0}
        BY KmallocAssumption
      <4> QED BY ONLY <2>1, <4>1, <4>2
    <3> QED BY <2>4, <3>1, FS_Interval
  <2>7. frames' \in 0..(FRAMES + freed)
    BY ONLY <1>1, <2>4, <2>5, <2>6
  <2> QED BY Zenon, <2>7 DEF Framed
<1> QED BY Zenon, <1>2, <1>3 DEF TakeFrames

\* A heap and pointers that stay as they are.
LEMMA KeepsSame ==
    ASSUME NEW h, NEW L, Owns(h.blocks, L), NEW M
    PROVE  Keeps(h.blocks, h.blocks, L, M)
<1>1. \A p \in DOMAIN L : p - HEADER \in Used(h.blocks)
  BY Zenon DEF Owns
<1> QED BY Zenon, <1>1 DEF Keeps, Used

\* A step that changes neither the heap nor the pointers in use.
LEMMA SameStep ==
    ASSUME HeapInv(heap), Owns(heap.blocks, live), Framed', heap' = heap, live' = live
    PROVE  KmInv' /\ Untouched
<1>1. Keeps(heap.blocks, heap.blocks, live, live)
  BY Zenon, KeepsSame
<1> QED BY Zenon, <1>1 DEF KmInv, Untouched

\* kmalloc.
LEMMA KmallocStep ==
    ASSUME KmInv, NEW size \in Nat, kmalloc(size)
    PROVE  KmInv' /\ Untouched
<1>1. HeapInv(heap) /\ Owns(heap.blocks, live) /\ Framed
  BY Zenon DEF KmInv
<1>2. Framed'
  BY Zenon, <1>1, FramesTaken DEF kmalloc
<1>3. CASE Succeeds(size)
  <2>1. PICK g, b : g = Allocated(size).heap /\ b = Allocated(size).block
    BY Zenon
  <2>2. Gained(heap, g, b, size)
    BY Zenon, <1>1, <2>1, AllocatedIs
  <2>3. heap' = g /\ live' = Put(live, b + HEADER, size)
    BY Zenon, <1>3, <2>1 DEF kmalloc
  <2>4. Owns(g.blocks, live')
    BY Zenon, <1>1, <2>2, <2>3, OwnsPut
  <2>5. Keeps(heap.blocks, g.blocks, live, live')
    BY Zenon, <1>1, <2>2, KeepsPut
  <2>6. HeapInv(g)
    BY Zenon, <2>2 DEF Gained
  <2> QED BY Zenon, <1>2, <2>3, <2>4, <2>5, <2>6 DEF KmInv, Untouched
<1>4. CASE ~Succeeds(size)
  BY Zenon, <1>1, <1>2, <1>4, SameStep DEF kmalloc
<1> QED BY <1>3, <1>4

\* kfree.
LEMMA KfreeStep ==
    ASSUME KmInv, NEW ptr \in DOMAIN live, kfree(ptr)
    PROVE  KmInv' /\ Untouched
<1>1. HeapInv(heap) /\ Owns(heap.blocks, live) /\ Framed
  BY Zenon DEF KmInv
<1>2. heap' = Freed(heap, ptr) /\ live' = Drop(live, ptr) /\ frames' = frames /\ freed' = freed
  BY Zenon DEF kfree, memVars
<1>3. HeapInv(heap') /\ Owns(heap'.blocks, live') /\ Keeps(heap.blocks, heap'.blocks, live, live')
  BY Zenon, <1>1, <1>2, FreedOwns
<1>4. Framed'
  BY Zenon, <1>1, <1>2 DEF Framed
<1> QED BY Zenon, <1>3, <1>4 DEF KmInv, Untouched

\* krealloc and realloc to another block: two pointers are in use in between.
LEMMA MoveStep ==
    ASSUME KmInv, NEW ptr \in DOMAIN live, NEW size \in Nat, Move(ptr, size)
    PROVE  KmInv' /\ Untouched
<1>1. HeapInv(heap) /\ Owns(heap.blocks, live) /\ Framed
  BY Zenon DEF KmInv
<1>2. Framed'
  BY Zenon, <1>1, FramesTaken DEF Move
<1>3. CASE Succeeds(size)
  <2>1. PICK g, b, q : g = Allocated(size).heap /\ b = Allocated(size).block /\ q = b + HEADER
    BY Zenon
  <2>2. Gained(heap, g, b, size) /\ HeapInv(g)
    BY Zenon, <1>1, <2>1, AllocatedIs DEF Gained
  <2>3. heap' = Freed(g, ptr) /\ live' = Put(Drop(live, ptr), q, size)
    BY Zenon, <1>3, <2>1 DEF Move
  <2>4. PICK M : M = Put(live, q, size)
    BY Zenon
  <2>5. Owns(g.blocks, M) /\ q \notin DOMAIN live
    BY Zenon, <1>1, <2>1, <2>2, <2>4, OwnsPut
  <2>6. Keeps(heap.blocks, g.blocks, live, M)
    BY Zenon, <1>1, <2>2, KeepsPut
  <2>7. live' = Drop(M, ptr)
    BY ONLY <2>3, <2>4, <2>5, ptr \in DOMAIN live DEF Put, Drop
  <2>8. ptr \in DOMAIN M /\ \A p \in DOMAIN live : p \in DOMAIN M
    BY Zenon, <2>4 DEF Put
  <2>9. HeapInv(heap') /\ Owns(heap'.blocks, live') /\ Keeps(g.blocks, heap'.blocks, M, live')
    BY Zenon, <2>2, <2>3, <2>5, <2>7, <2>8, FreedOwns
  <2>10. Keeps(heap.blocks, heap'.blocks, live, live')
    BY Zenon, <2>6, <2>8, <2>9 DEF Keeps
  <2> QED BY Zenon, <1>2, <2>9, <2>10 DEF KmInv, Untouched
<1>4. CASE ~Succeeds(size)
  BY Zenon, <1>1, <1>2, <1>4, SameStep DEF Move
<1> QED BY <1>3, <1>4

\* krealloc in place.
LEMMA ResizeStep ==
    ASSUME KmInv, NEW ptr \in DOMAIN live, NEW size \in Nat, heap.blocks[ptr - HEADER].size >= size,
           live' = [live EXCEPT ![ptr] = size], UNCHANGED <<heap, memVars, freed>>
    PROVE  KmInv' /\ Untouched
<1>1. HeapInv(heap) /\ Owns(heap.blocks, live) /\ Framed
  BY Zenon DEF KmInv
<1>2. heap' = heap /\ frames' = frames /\ freed' = freed
  BY Zenon DEF memVars
<1>3. /\ DOMAIN live' = DOMAIN live /\ live'[ptr] = size
      /\ \A p \in DOMAIN live : p # ptr => live'[p] = live[p]
  BY ONLY live' = [live EXCEPT ![ptr] = size], ptr \in DOMAIN live
<1>4. Owns(heap.blocks, live')
  <2>1. /\ DOMAIN live \subseteq Nat /\ Used(heap.blocks) = {p - HEADER : p \in DOMAIN live}
        /\ \A p \in DOMAIN live : heap.blocks[p - HEADER].size >= live[p]
    BY Zenon, <1>1 DEF Owns
  <2>2. ASSUME NEW p \in DOMAIN live PROVE heap.blocks[p - HEADER].size >= live'[p]
    BY Zenon, <1>3, <2>1
  <2> QED BY Zenon, <1>3, <2>1, <2>2 DEF Owns
<1>5. Framed'
  BY Zenon, <1>1, <1>2 DEF Framed
<1>6. Untouched
  BY Zenon, <1>1, <1>2, KeepsSame DEF Untouched
<1> QED BY Zenon, <1>1, <1>2, <1>4, <1>5, <1>6 DEF KmInv

\* Every step of the heap.
LEMMA KmStep ==
    ASSUME KmInv, [KmNext]_kmVars
    PROVE  KmInv' /\ [Untouched]_kmVars
<1>1. ASSUME NEW size \in SIZES, kmalloc(size) PROVE KmInv' /\ Untouched
  <2>1. size \in Nat
    BY Zenon, KmallocAssumption
  <2> QED BY Zenon, <1>1, <2>1, KmallocStep
<1>2. ASSUME NEW ptr \in DOMAIN live, kfree(ptr) PROVE KmInv' /\ Untouched
  BY Zenon, <1>2, KfreeStep
<1>3. ASSUME NEW ptr \in DOMAIN live, NEW size \in SIZES, krealloc(ptr, size)
      PROVE  KmInv' /\ Untouched
  <2>1. size \in Nat
    BY Zenon, KmallocAssumption
  <2>2. CASE size = 0
    BY Zenon, <1>3, <2>2, KfreeStep DEF krealloc
  <2>3. CASE size # 0 /\ heap.blocks[ptr - HEADER].size >= size
    BY Zenon, <1>3, <2>1, <2>3, ResizeStep DEF krealloc
  <2>4. CASE size # 0 /\ ~(heap.blocks[ptr - HEADER].size >= size)
    BY Zenon, <1>3, <2>1, <2>4, MoveStep DEF krealloc
  <2> QED BY Zenon, <2>2, <2>3, <2>4
<1>4. ASSUME NEW ptr \in DOMAIN live, NEW size \in SIZES, realloc(ptr, size)
      PROVE  KmInv' /\ Untouched
  <2>1. size \in Nat
    BY Zenon, KmallocAssumption
  <2>2. CASE size = 0
    BY Zenon, <1>4, <2>2, KfreeStep DEF realloc
  <2>3. CASE size # 0
    BY Zenon, <1>4, <2>1, <2>3, MoveStep DEF realloc
  <2> QED BY Zenon, <2>2, <2>3
<1>5. ASSUME FrameFreed PROVE KmInv' /\ Untouched
  <2>1. HeapInv(heap) /\ Owns(heap.blocks, live) /\ Framed
    BY Zenon DEF KmInv
  <2>2. heap' = heap /\ live' = live
    BY Zenon, <1>5 DEF FrameFreed
  <2>3. Framed'
    BY <1>5, <2>1, KmallocAssumption DEF Framed, FrameFreed
  <2> QED BY Zenon, <2>1, <2>2, <2>3, SameStep
<1>6. ASSUME UNCHANGED kmVars PROVE KmInv'
  <2>1. HeapInv(heap) /\ Owns(heap.blocks, live) /\ Framed
    BY Zenon DEF KmInv
  <2>2. heap' = heap /\ live' = live /\ frames' = frames /\ freed' = freed
    BY Zenon, <1>6 DEF kmVars, memVars
  <2>3. Framed'
    BY Zenon, <2>1, <2>2 DEF Framed
  <2> QED BY Zenon, <2>1, <2>2, <2>3, SameStep
<1> QED BY Zenon, <1>1, <1>2, <1>3, <1>4, <1>5, <1>6 DEF KmNext

\* The heap starts empty.
LEMMA KmInitInv ==
    ASSUME kmalloc_init
    PROVE  KmInv
<1>1. PICK B : B = heap.blocks
  BY Zenon
<1>2. heap = [head |-> NULL, end |-> KHEAP_START, blocks |-> [b \in {} |-> NULL]]
  BY Zenon DEF kmalloc_init
<1>3. IsHeap(heap) /\ heap.head = NULL /\ heap.end = KHEAP_START /\ B = [b \in {} |-> NULL]
  BY ONLY <1>1, <1>2 DEF IsHeap
<1>4. DOMAIN B = {} /\ B \in [DOMAIN B -> Block]
  BY ONLY <1>3
<1>5. KHEAP_START \in Nat /\ KHEAP_START <= KHEAP_START
  BY KmallocAssumption
<1>6. Tiles(B, KHEAP_START) /\ Apart(B, NULL) /\ Used(B) = {}
  BY Zenon, <1>4, <1>5 DEF Tiles, Apart, Used
<1>7. DOMAIN live = {}
  BY Zenon DEF kmalloc_init
<1>8. Owns(B, live)
  BY Zenon, <1>6, <1>7 DEF Owns
<1>9. Framed
  BY KmallocAssumption DEF Framed, kmalloc_init
<1> QED BY Zenon, <1>1, <1>3, <1>6, <1>8, <1>9 DEF KmInv, HeapInv

\* What the invariant says of the walk along the links.
LEMMA KmInvTiled ==
    ASSUME KmInv
    PROVE  Tiled
<1>1. PICK B, e : B = heap.blocks /\ e = heap.end
  BY Zenon
<1>2. /\ Tiles(B, e) /\ Apart(B, NULL) /\ DOMAIN live \subseteq Nat /\ Framed
      /\ heap.head = (IF e = KHEAP_START THEN NULL ELSE KHEAP_START) /\ e \in Nat
  BY Zenon, <1>1 DEF KmInv, HeapInv, Owns, Tiles
<1>3. Listed = DOMAIN heap.blocks
  <2>1. Tiles(heap.blocks, heap.end)
        /\ heap.head = (IF heap.end = KHEAP_START THEN NULL ELSE KHEAP_START)
    BY Zenon DEF KmInv, HeapInv
  <2> QED BY Zenon, <2>1, MeetsAll DEF Listed
<1>4. KmTypeOK
  <2>1. heap.head \in Nat
    BY <1>2, KmallocAssumption DEF NULL
  <2>2. frames \in 0..(FRAMES + MAX_FREED) /\ freed \in 0..MAX_FREED
    BY <1>2, KmallocAssumption DEF Framed
  <2>3. \A b \in DOMAIN B : B[b] \in Block
    BY Zenon, <1>2 DEF Tiles
  <2> QED BY Zenon, <1>1, <1>2, <2>1, <2>2, <2>3 DEF KmTypeOK
<1>5. ASSUME NEW b \in DOMAIN B
      PROVE  /\ B[b].next = (IF End(b) = e THEN NULL ELSE End(b))
             /\ B[b].next # NULL => B[B[b].next].prev = b
             /\ b = KHEAP_START => B[b].prev = NULL
             /\ B[b].free /\ B[b].next # NULL => ~B[B[b].next].free
  <2>1. Placed(B, e, b) /\ End(b) = Stop(B, b)
    BY Zenon, <1>1, <1>2 DEF Tiles, End, Stop
  <2>2. B[b].next # NULL => B[B[b].next].prev = b
    BY Zenon, <1>2, NextOf
  <2>3. B[b].free /\ B[b].next # NULL => ~B[B[b].next].free
    BY Zenon, <1>2 DEF Apart
  <2> QED BY Zenon, <2>1, <2>2, <2>3 DEF Placed
<1> QED BY Zenon, <1>1, <1>2, <1>3, <1>4, <1>5 DEF Tiled

\* The inductive invariant holds in every state.
LEMMA KmAlways == KmSpec => []KmInv
<1>1. KmInv /\ [KmNext]_kmVars => KmInv'
  BY Zenon, KmStep
<1> QED BY <1>1, KmInitInv, PTL DEF KmSpec

\* However kmalloc, kfree, krealloc and realloc are called, the blocks tile the
\* heap, prev undoes next, and no two neighbours are both free.
THEOREM HeapTiled == KmSpec => []Tiled
  BY KmAlways, KmInvTiled, PTL

\* The used blocks are those of the pointers in use, large enough for them.
THEOREM LiveAlwaysOwned == KmSpec => []LiveOwned
<1>1. KmInv => LiveOwned
  <2> SUFFICES ASSUME KmInv PROVE LiveOwned
    BY Zenon
  <2>1. Listed = DOMAIN heap.blocks
    BY Zenon, KmInvTiled DEF Tiled
  <2> QED BY Zenon, <2>1 DEF LiveOwned, KmInv, Owns, Used
<1> QED BY <1>1, KmAlways, PTL

\* No call changes the size of the block of another pointer.
THEOREM CallsLeaveOthers == KmSpec => OthersUntouched
<1>1. KmInv /\ [KmNext]_kmVars => [Untouched]_kmVars
  BY Zenon, KmStep
<1> QED BY <1>1, KmAlways, PTL DEF KmSpec, OthersUntouched, Untouched, Keeps

\* kmalloc takes the lowest free block that is large enough and grows the heap
\* only if there is none, in every state.
FirstFitLowest ==
    \A size \in Nat :
        LET fit == Fitting(heap, size)
        IN  /\ fit = {} => FirstFit(heap, size) = NULL
            /\ fit # {} => /\ FirstFit(heap, size) \in fit
                           /\ \A c \in fit : FirstFit(heap, size) <= c

\* The search of kmalloc along the links misses no fitting block and finds the
\* one at the lowest address.
THEOREM SearchFindsLowest == KmSpec => []FirstFitLowest
<1>1. KmInv => FirstFitLowest
  <2> SUFFICES ASSUME KmInv PROVE FirstFitLowest
    BY Zenon
  <2>1. Tiles(heap.blocks, heap.end)
        /\ heap.head = (IF heap.end = KHEAP_START THEN NULL ELSE KHEAP_START)
    BY Zenon DEF KmInv, HeapInv
  <2> QED BY Zenon, <2>1, FitIsLowest DEF FirstFitLowest
<1> QED BY <1>1, KmAlways, PTL

=============================================================================
