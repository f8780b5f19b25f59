-------------------------------- MODULE Pmm --------------------------------
(***************************************************************************)
(* The physical page allocator: kernel/memory/pmm.c.  Addresses are        *)
(* numbers; the bitmap is the set of the pages whose bit is set (free).    *)
(* Each call is one step: only one thread of execution allocates in this   *)
(* kernel.  Nothing in pmm.c keeps a second one out between the test of a  *)
(* bit and its clearing.                                                   *)
(***************************************************************************)
EXTENDS Integers, FiniteSets, FiniteSetsExt

CONSTANTS
    PAGE_SIZE,
    MEMORY_START_ADDR, MEMORY_END_ADDR,     \* the memory that is managed
    kernel_end,                             \* pmm_init reserves up to here
    image_end,                              \* where the kernel image really ends
    ADDRESSES,                              \* arguments of free and mark_reserved
    MAX_RESERVED                            \* bound: ranges marked reserved

\* A multiple of 8 in the code, so the bitmap has no bits to spare.
NUMBER_OF_PAGES == (MEMORY_END_ADDR - MEMORY_START_ADDR) \div PAGE_SIZE

ASSUME PmmAssumption ==
    /\ PAGE_SIZE \in Nat \ {0}
    /\ MEMORY_START_ADDR \in Nat \ {0}
    /\ MEMORY_END_ADDR \in Nat
    /\ kernel_end \in Nat
    /\ image_end \in Nat
    /\ ADDRESSES \subseteq Nat
    /\ MAX_RESERVED \in Nat
    /\ MEMORY_START_ADDR <= kernel_end /\ kernel_end <= MEMORY_END_ADDR
    /\ \E n \in 0..kernel_end : kernel_end = MEMORY_START_ADDR + n * PAGE_SIZE
    /\ \E n \in 0..MEMORY_END_ADDR :
          MEMORY_END_ADDR = MEMORY_START_ADDR + n * PAGE_SIZE

VARIABLES
    page_bitmap,        \* pages marked free
    held,               \* history: pages handed out and not given back
    reserved            \* history: ranges <<start, end>> marked reserved

pmmVars == <<page_bitmap, held, reserved>>

Page == 0..(NUMBER_OF_PAGES - 1)

PmmTypeOK ==
    /\ page_bitmap \subseteq Page
    /\ held \subseteq Page
    /\ reserved \subseteq ADDRESSES \X ADDRESSES

\* The page an address lies in, and the address of a page.
PageOf(addr) == (addr - MEMORY_START_ADDR) \div PAGE_SIZE
AddrOf(page) == MEMORY_START_ADDR + page * PAGE_SIZE

\* pmm_init clears the bits of the pages below kernel_end.
PmmInit ==
    /\ page_bitmap = Page \ {i \in Page : i < PageOf(kernel_end)}
    /\ held = {}
    /\ reserved = {}

\* Faulty variant: the bits are flipped.
ClearFlips(pages) == (page_bitmap \ pages) \cup (pages \ page_bitmap)

ClearBits(pages) == page_bitmap \ pages

\* pmm_alloc_page hands out the lowest free page; n calls, the n lowest.
Lowest(n) == {i \in page_bitmap : Cardinality({j \in page_bitmap : j < i}) < n}

pmm_alloc_page(n) ==
    /\ Cardinality(page_bitmap) >= n
    /\ page_bitmap' = ClearBits(Lowest(n))
    /\ held' = held \cup Lowest(n)

\* Addresses outside the managed memory are ignored.
Managed(addr) == addr >= MEMORY_START_ADDR /\ addr < MEMORY_END_ADDR

pmm_free_page(addr) ==
    IF Managed(addr)
    THEN /\ page_bitmap' = page_bitmap \cup {PageOf(addr)}
         /\ held' = held \ {PageOf(addr)}
    ELSE UNCHANGED <<page_bitmap, held>>

\* The range is clipped to the managed memory; the last page is the one before
\* the page that holds the end address.
pmm_mark_reserved(start, end) ==
    LET first == PageOf(Max({start, MEMORY_START_ADDR}))
        last == PageOf(Min({end, MEMORY_END_ADDR}))
    IN  IF end < MEMORY_START_ADDR \/ start >= MEMORY_END_ADDR
        THEN UNCHANGED page_bitmap
        ELSE page_bitmap' = ClearBits({i \in Page : first <= i /\ i < last})

-----------------------------------------------------------------------------
(* A caller reserves only memory that nobody holds.                       *)

Reserve ==
    /\ Cardinality(reserved) < MAX_RESERVED
    /\ \E start, end \in ADDRESSES :
          /\ start < end
          /\ \A i \in held : AddrOf(i) >= end \/ AddrOf(i) + PAGE_SIZE <= start
          /\ pmm_mark_reserved(start, end)
          /\ reserved' = reserved \cup {<<start, end>>}
    /\ UNCHANGED held

-----------------------------------------------------------------------------
(* Properties.                                                             *)

\* The pages pmm_mark_reserved and pmm_init take away: those that end in the
\* range.  A last page that the range covers in part is not among them.
Covered(i, r) == r[1] < AddrOf(i) + PAGE_SIZE /\ AddrOf(i) + PAGE_SIZE <= r[2]

\* What pmm_init took away below kernel_end, and pmm_mark_reserved in a range, is
\* never marked free again nor handed out, whatever is allocated and given back.
\* So no page handed out holds a part of the kernel image, if the image ends by
\* kernel_end, as pmm_init assumes.
ReservedNotFree ==
    \A i \in page_bitmap \cup held :
        /\ \A r \in reserved \cup {<<MEMORY_START_ADDR, kernel_end>>} : ~Covered(i, r)
        /\ image_end <= kernel_end => AddrOf(i) >= image_end

-----------------------------------------------------------------------------
(* What comments in the source say and the code does not do.               *)

\* "Mark a range of physical memory as reserved (unusable)": no page that
\* holds memory of the range is handed out.
Touches(i, r) == AddrOf(i) < r[2] /\ r[1] < AddrOf(i) + PAGE_SIZE
ReservedUnusable == \A r \in reserved, i \in held : ~Touches(i, r)

\* "we can assume it's less than 2MB": no page handed out holds a part of the
\* kernel image.
ImageNeverHanded == \A i \in held : AddrOf(i) >= image_end

=============================================================================
