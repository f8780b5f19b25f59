------------------------------ MODULE Kmalloc ------------------------------
(***************************************************************************)
(* The kernel heap: kernel/memory/kmalloc.c, and the functions of          *)
(* libc/stdlib.c built on it.  Block headers are records at addresses of   *)
(* the heap, linked in memory order.  What a block holds is left out.      *)
(***************************************************************************)
EXTENDS Integers, FiniteSets, FiniteSetsExt

CONSTANTS
    HEADER,             \* sizeof(block_header_t)
    ALIGN,              \* sizes are rounded up to a multiple of this
    SLACK,              \* split only if more than HEADER + SLACK is left
    KMALLOC_PAGE,
    KHEAP_START,
    SIZES,              \* sizes that callers request
    FRAMES,             \* physical pages free at the start
    MAX_FREED           \* bound: pages that others give back

ASSUME KmallocAssumption ==
    /\ HEADER \in Nat \ {0} /\ ALIGN \in Nat \ {0} /\ SLACK \in Nat
    /\ KMALLOC_PAGE \in Nat /\ KMALLOC_PAGE > HEADER
    /\ KHEAP_START \in Nat \ {0}
    /\ SIZES \subseteq Nat
    /\ FRAMES \in Nat /\ MAX_FREED \in Nat

VARIABLES
    heap,               \* heap_head, heap_end and the headers by address
    live,               \* history: pointers in use, with the size requested
    frames,             \* free physical pages
    mapped,             \* heap pages that are mapped
    remapped,           \* history: heap pages mapped a second time
    freed               \* counts the pages that others gave back

memVars == <<frames, mapped, remapped>>
kmVars == <<heap, live, memVars, freed>>

NULL == 0
Block == [size : Nat, free : BOOLEAN, next : Nat, prev : Nat]

KmTypeOK ==
    /\ heap.head \in Nat /\ heap.end \in Nat
    /\ \A b \in DOMAIN heap.blocks : heap.blocks[b] \in Block
    /\ DOMAIN live \subseteq Nat
    /\ frames \in 0..(FRAMES + MAX_FREED) /\ freed \in 0..MAX_FREED

kmalloc_init ==
    /\ heap = [head |-> NULL, end |-> KHEAP_START, blocks |-> [b \in {} |-> NULL]]
    /\ live = [p \in {} |-> 0]
    /\ frames = FRAMES /\ mapped = {} /\ remapped = {}
    /\ freed = 0

-----------------------------------------------------------------------------
(* The list of blocks.                                                     *)

Put(f, x, y) == [z \in DOMAIN f \cup {x} |-> IF z = x THEN y ELSE f[z]]
Drop(f, x) == [z \in DOMAIN f \ {x} |-> f[z]]

\* The blocks a walk from heap_head along the next links meets that ends at the
\* first block of stop: the least set with the first block and, for each of its
\* blocks where the walk goes on, the next one.
Met(h, stop) ==
    {b \in DOMAIN h.blocks :
        \A met \in SUBSET DOMAIN h.blocks :
            /\ h.head # NULL => h.head \in met
            /\ \A c \in met \ stop : h.blocks[c].next \in met \cup {NULL}
            => b \in met}

OneOf(S) == IF S = {} THEN NULL ELSE CHOOSE b \in S : TRUE

\* The first free block of the list that is large enough, and the last block.
FirstFit(h, size) ==
    LET fit == {b \in DOMAIN h.blocks : h.blocks[b].free /\ h.blocks[b].size >= size}
    IN  OneOf(Met(h, fit) \cap fit)

LastBlock(h) == OneOf({b \in Met(h, {}) : h.blocks[b].next = NULL})

\* The prev link of a block, if there is such a block.
SetPrev(blocks, b, p) == IF b = NULL THEN blocks ELSE [blocks EXCEPT ![b].prev = p]

\* Faulty variant: the successor still points back to the block.
SplitKeepPrev(blocks, b, size) ==
    LET remaining == blocks[b].size - size
        new == b + HEADER + size
    IN  IF remaining <= HEADER + SLACK THEN blocks
        ELSE [Put(blocks, new, [size |-> remaining - HEADER, free |-> TRUE,
                                next |-> blocks[b].next, prev |-> b])
                EXCEPT ![b].next = new, ![b].size = size]

split_block(blocks, b, size) ==
    LET remaining == blocks[b].size - size
        new == b + HEADER + size
    IN  IF remaining <= HEADER + SLACK THEN blocks
        ELSE [SetPrev(Put(blocks, new, [size |-> remaining - HEADER, free |-> TRUE,
                                        next |-> blocks[b].next, prev |-> b]),
                      blocks[b].next, new)
                EXCEPT ![b].next = new, ![b].size = size]

Claim(blocks, b, size) == [split_block(blocks, b, size) EXCEPT ![b].free = FALSE]

\* Faulty variant: rounds down.
RoundDown(size) == (size \div ALIGN) * ALIGN

RoundUp(size) == ((size + ALIGN - 1) \div ALIGN) * ALIGN

Pages(size) == (size + HEADER + KMALLOC_PAGE - 1) \div KMALLOC_PAGE

\* expand_heap maps its pages one after the other and gives up, keeping those
\* it has mapped, when there is no frame for the next.
expand_heap(size) ==
    LET first == heap.end \div KMALLOC_PAGE
        new == first..(first + Min({Pages(size), frames}) - 1)
    IN  /\ frames' = frames - Cardinality(new)
        /\ mapped' = mapped \cup new
        /\ remapped' = remapped \cup (new \cap mapped)

\* The heap with a block of fresh pages at its end.
Expanded(h, size) ==
    LET last == LastBlock(h)
        fresh == [size |-> Pages(size) * KMALLOC_PAGE - HEADER, free |-> TRUE,
                  next |-> NULL, prev |-> last]
        blocks == Put(h.blocks, h.end, fresh)
    IN  [head |-> IF last = NULL THEN h.end ELSE h.head,
         end |-> h.end + Pages(size) * KMALLOC_PAGE,
         blocks |-> IF last = NULL THEN blocks ELSE [blocks EXCEPT ![last].next = h.end]]

-----------------------------------------------------------------------------
(* kmalloc as a heap and the block it returns; the new heap is a value, so *)
(* that krealloc can go on with it.                                        *)

Grows(size) == FirstFit(heap, RoundUp(size)) = NULL

Allocated(size) ==
    LET s == RoundUp(size)
        h == IF Grows(size) THEN Expanded(heap, s) ELSE heap
        b == IF Grows(size) THEN heap.end ELSE FirstFit(heap, s)
    IN  [block |-> b, heap |-> [h EXCEPT !.blocks = Claim(h.blocks, b, s)]]

Succeeds(size) ==
    /\ size # 0
    /\ Grows(size) => frames >= Pages(RoundUp(size))

\* What kmalloc does to the physical pages, whether it succeeds or not.
TakeFrames(size) ==
    IF size # 0 /\ Grows(size) THEN expand_heap(RoundUp(size)) ELSE UNCHANGED memVars

\* A block and its successor become one.
Merge(h, b) ==
    LET n == h.blocks[b].next
        merged == [h.blocks EXCEPT
                     ![b].size = @ + HEADER + h.blocks[n].size,
                     ![b].next = h.blocks[n].next]
    IN  [h EXCEPT !.blocks = Drop(SetPrev(merged, h.blocks[n].next, b), n)]

MergeNext(h, b) ==
    LET n == h.blocks[b].next
    IN  IF n # NULL /\ h.blocks[n].free THEN Merge(h, b) ELSE h

\* Faulty variant: merges with the previous block whether it is free or not.
MergeIntoUsed(h, b) ==
    LET p == h.blocks[b].prev
    IN  IF p # NULL THEN Merge(h, p) ELSE h

MergePrev(h, b) ==
    LET p == h.blocks[b].prev
    IN  IF p # NULL /\ h.blocks[p].free THEN Merge(h, p) ELSE h

\* Faulty variant: merges with the successor only.
FreedForward(h, ptr) ==
    LET b == ptr - HEADER
    IN  MergeNext([h EXCEPT !.blocks[b].free = TRUE], b)

\* kfree: merges with the next block if it is free, then with the previous.
Freed(h, ptr) ==
    LET b == ptr - HEADER
    IN  MergePrev(MergeNext([h EXCEPT !.blocks[b].free = TRUE], b), b)

-----------------------------------------------------------------------------
(* The operations.                                                         *)

kmalloc(size) ==
    /\ TakeFrames(size)
    /\ IF Succeeds(size)
       THEN /\ heap' = Allocated(size).heap
            /\ live' = Put(live, Allocated(size).block + HEADER, size)
       ELSE UNCHANGED <<heap, live>>
    /\ UNCHANGED freed

kfree(ptr) ==
    /\ heap' = Freed(heap, ptr)
    /\ live' = Drop(live, ptr)
    /\ UNCHANGED <<memVars, freed>>

\* Allocate, copy and free the old block, unless the allocation fails.
Move(ptr, size) ==
    /\ TakeFrames(size)
    /\ IF Succeeds(size)
       THEN /\ heap' = Freed(Allocated(size).heap, ptr)
            /\ live' = Put(Drop(live, ptr), Allocated(size).block + HEADER, size)
       ELSE UNCHANGED <<heap, live>>
    /\ UNCHANGED freed

\* A block that is large enough is kept.
krealloc(ptr, size) ==
    IF size = 0 THEN kfree(ptr)
    ELSE IF heap.blocks[ptr - HEADER].size >= size
    THEN /\ live' = [live EXCEPT ![ptr] = size]
         /\ UNCHANGED <<heap, memVars, freed>>
    ELSE Move(ptr, size)

\* libc realloc always moves.
realloc(ptr, size) == IF size = 0 THEN kfree(ptr) ELSE Move(ptr, size)

\* Another user of physical memory gives a page back.
FrameFreed ==
    /\ freed < MAX_FREED
    /\ freed' = freed + 1
    /\ frames' = frames + 1
    /\ UNCHANGED <<heap, live, mapped, remapped>>

KmNext ==
    \/ \E size \in SIZES : kmalloc(size)
    \/ \E ptr \in DOMAIN live : kfree(ptr)
    \/ \E ptr \in DOMAIN live, size \in SIZES : krealloc(ptr, size) \/ realloc(ptr, size)
    \/ FrameFreed

KmSpec == kmalloc_init /\ [][KmNext]_kmVars

-----------------------------------------------------------------------------
(* Properties.                                                             *)

Listed == Met(heap, {})
End(b) == b + HEADER + heap.blocks[b].size

\* The blocks of the list tile the heap: every block starts where the one
\* before it ends, the last one ends at heap_end, and prev undoes next.  A split
\* or a merge that loses a few bytes or a link breaks this only for later calls.
\* No two neighbours are both free, as kfree merges them: a request fails only
\* if no run of free memory is large enough for it.
Tiled ==
    /\ KmTypeOK
    /\ Listed = DOMAIN heap.blocks
    /\ heap.head = (IF heap.end = KHEAP_START THEN NULL ELSE KHEAP_START)
    /\ \A b \in Listed :
          /\ heap.blocks[b].next = (IF End(b) = heap.end THEN NULL ELSE End(b))
          /\ heap.blocks[b].next # NULL => heap.blocks[heap.blocks[b].next].prev = b
          /\ b = KHEAP_START => heap.blocks[b].prev = NULL
          /\ heap.blocks[b].free /\ heap.blocks[b].next # NULL
                => ~heap.blocks[heap.blocks[b].next].free

\* Exactly the pointers in use have a block marked used, and it is at least as
\* large as the request: with Tiled, no two allocations share memory.
LiveOwned ==
    /\ {b \in Listed : ~heap.blocks[b].free} = {p - HEADER : p \in DOMAIN live}
    /\ \A p \in DOMAIN live : heap.blocks[p - HEADER].size >= live[p]

\* A step that does not free or reallocate a pointer leaves the size of its
\* block alone: allocating, growing and merging around it never reach into it.
OthersUntouched ==
    [][\A p \in DOMAIN live :
          p \in DOMAIN live' =>
              /\ p - HEADER \in DOMAIN heap'.blocks
              /\ heap'.blocks[p - HEADER].size = heap.blocks[p - HEADER].size]_kmVars

-----------------------------------------------------------------------------
(* What a comment in the source says and the code does not do.             *)

\* "Map fresh pages at the end of the heap": a heap page is mapped once.
FreshPages == remapped = {}

=============================================================================
