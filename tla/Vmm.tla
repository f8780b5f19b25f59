-------------------------------- MODULE Vmm --------------------------------
(***************************************************************************)
(* Two-level paging over the physical page allocator:                      *)
(* kernel/memory/vmm.c.  Page directories and tables are physical pages;   *)
(* the kernel's own are static.  An entry that is not present is           *)
(* NOT_PRESENT; of its other flags only PAGE_USER is kept.  The TLB may    *)
(* cache any translation at any time and forgets only what it is told to.  *)
(***************************************************************************)
EXTENDS Pmm

CONSTANTS
    ENTRIES,            \* entries of a page table
    DIR_ENTRIES,        \* entries of a page directory
    KERNEL_TABLES,      \* static tables of the identity mapping
    VADDRS,             \* pages outside the identity mapping (kernel heap)
    USER_START, USER_LEN    \* what cmd_ring3 opens to ring 3, in the image

VARIABLES
    page_dir,           \* the directories, by physical address
    page_table,         \* the tables, by physical address
    cr3,                \* address of the current directory
    user,               \* entries <<directory or table, index>> with PAGE_USER
    tlb,                \* cached translations <<virtual, physical, PAGE_USER>>
    data                \* history: pages allocated for use, not for paging

pagingVars == <<page_dir, page_table>>
vmmVars == <<pmmVars, pagingVars, cr3, user, tlb, data>>

NOT_PRESENT == -1

\* The static directory and tables are the first pages of the kernel image.
kernel_page_directory == MEMORY_START_ADDR
kernel_page_table(i) == MEMORY_START_ADDR + (i + 1) * PAGE_SIZE
StaticTables == {kernel_page_table(i) : i \in 0..(KERNEL_TABLES - 1)}

page_dir_index(v) == (v \div PAGE_SIZE) \div ENTRIES
page_table_index(v) == (v \div PAGE_SIZE) % ENTRIES

ASSUME VmmAssumption ==
    /\ ENTRIES \in Nat \ {0}
    /\ DIR_ENTRIES \in Nat
    /\ KERNEL_TABLES \in 1..DIR_ENTRIES
    /\ \A v \in VADDRS : /\ v \in Nat /\ v % PAGE_SIZE = 0
                         /\ page_dir_index(v) \in KERNEL_TABLES..(DIR_ENTRIES - 1)
    /\ MEMORY_START_ADDR % PAGE_SIZE = 0
    /\ MEMORY_END_ADDR <= KERNEL_TABLES * ENTRIES * PAGE_SIZE
    /\ kernel_page_table(KERNEL_TABLES) <= kernel_end
    /\ USER_START \in kernel_page_table(KERNEL_TABLES)..kernel_end
    /\ USER_LEN \in 0..(kernel_end - USER_START)

PDI == 0..(DIR_ENTRIES - 1)
PTI == 0..(ENTRIES - 1)
Frame == {AddrOf(i) : i \in Page}

\* The pages of [USER_START, USER_START + USER_LEN), rounded outwards.
UserPages ==
    {n * PAGE_SIZE : n \in (USER_START \div PAGE_SIZE)..
                           ((USER_START + USER_LEN + PAGE_SIZE - 1) \div PAGE_SIZE - 1)}

IdentityFrames == {n * PAGE_SIZE : n \in 0..(KERNEL_TABLES * ENTRIES - 1)}

VmmTypeOK ==
    /\ PmmTypeOK
    /\ DOMAIN page_dir \subseteq Frame
    /\ \A d \in DOMAIN page_dir :
          page_dir[d] \in [PDI -> DOMAIN page_table \cup {NOT_PRESENT}]
    /\ DOMAIN page_table \subseteq Frame
    /\ \A t \in DOMAIN page_table :
          page_table[t] \in [PTI -> IdentityFrames \cup {NOT_PRESENT}]
    /\ cr3 \in DOMAIN page_dir
    /\ user \subseteq ((DOMAIN page_dir) \X PDI) \cup ((DOMAIN page_table) \X PTI)
    /\ tlb \subseteq (VADDRS \cup UserPages) \X Frame \X BOOLEAN
    /\ data \subseteq Page

\* vmm_init maps the memory below KERNEL_TABLES tables onto itself and
\* enables paging.
KernelDirectory ==
    [i \in PDI |-> IF i < KERNEL_TABLES THEN kernel_page_table(i) ELSE NOT_PRESENT]

VmmInit ==
    /\ PmmInit
    /\ page_dir = [d \in {kernel_page_directory} |-> KernelDirectory]
    /\ page_table = [t \in StaticTables |->
          [j \in PTI |-> (PageOf(t) - 1) * ENTRIES * PAGE_SIZE + j * PAGE_SIZE]]
    /\ cr3 = kernel_page_directory
    /\ user = {}
    /\ tlb = {}
    /\ data = {}

\* The translation a directory gives (vmm_get_physical_address).
Translate(d, v) ==
    LET t == page_dir[d][page_dir_index(v)]
    IN  IF t = NOT_PRESENT THEN NOT_PRESENT ELSE page_table[t][page_table_index(v)]

\* Ring 3 reaches a page when the entries of both levels let it.
UserMay(d, v) ==
    /\ <<d, page_dir_index(v)>> \in user
    /\ <<page_dir[d][page_dir_index(v)], page_table_index(v)>> \in user

\* Faulty variant: nothing is forgotten.
KeepTlb(pages) == tlb

\* invlpg, for each of the pages.
vmm_flush_tlb_entry(pages) == {e \in tlb : e[1] \notin pages}

-----------------------------------------------------------------------------

\* A function extended, or changed, at one argument.
Put(f, x, y) == [z \in DOMAIN f \cup {x} |-> IF z = x THEN y ELSE f[z]]

EmptyTable == [j \in PTI |-> NOT_PRESENT]

\* Faulty variants: the new directory is a copy of the current one; it lacks
\* the last entry of the identity mapping.
CopyOfCurrent == page_dir[cr3]
CopyShort ==
    [i \in PDI |-> IF i < KERNEL_TABLES - 1 THEN page_dir[kernel_page_directory][i]
                   ELSE NOT_PRESENT]

\* Only the entries of the identity mapping are copied from the kernel's.
NewDirectory ==
    [i \in PDI |-> IF i < KERNEL_TABLES THEN page_dir[kernel_page_directory][i]
                   ELSE NOT_PRESENT]

\* The entries are copied with their flags.
vmm_create_address_space ==
    /\ pmm_alloc_page(1)
    /\ LET dir == AddrOf(Min(page_bitmap))
       IN  /\ page_dir' = Put(page_dir, dir, NewDirectory)
           /\ user' = user \cup {<<dir, i>> : i \in
                 {k \in 0..(KERNEL_TABLES - 1) : <<kernel_page_directory, k>> \in user}}
    /\ UNCHANGED <<reserved, page_table, cr3, tlb, data>>

\* Set the entry of v in table t of directory d; no caller asks for PAGE_USER.
SetEntry(d, t, v, phys, tables) ==
    /\ page_dir' = [page_dir EXCEPT ![d][page_dir_index(v)] = t]
    /\ page_table' = Put(page_table, t, [tables EXCEPT ![page_table_index(v)] = phys])
    /\ user' = user \ {<<t, page_table_index(v)>>}

\* vmm_map_page(v, phys) where the table of v in directory d exists.
MapInTable(d, v, phys) ==
    LET t == page_dir[d][page_dir_index(v)]
    IN  /\ t # NOT_PRESENT
        /\ SetEntry(d, t, v, phys, page_table[t])

\* Faulty variant: the data page is not freed.
MapFailedLeaks(v) ==
    /\ page_dir[cr3][page_dir_index(v)] = NOT_PRESENT
    /\ Cardinality(page_bitmap) = 1
    /\ pmm_alloc_page(1)
    /\ UNCHANGED <<reserved, pagingVars, cr3, user, tlb, data>>

\* The page for the data is there and the one for the table is not:
\* vmm_alloc_map_page frees the page it has just taken.
MapFailed(v) ==
    /\ page_dir[cr3][page_dir_index(v)] = NOT_PRESENT
    /\ Cardinality(page_bitmap) = 1
    /\ page_bitmap' = ClearBits(Lowest(1)) \cup Lowest(1)
    /\ UNCHANGED <<held, reserved, pagingVars, cr3, user, tlb, data>>

\* vmm_alloc_map_page: a page for the data, then, in vmm_map_page, one for the
\* table if there is none.
vmm_alloc_map_page(v) ==
    /\ \/ /\ pmm_alloc_page(1)
          /\ MapInTable(cr3, v, AddrOf(Min(page_bitmap)))
       \/ /\ page_dir[cr3][page_dir_index(v)] = NOT_PRESENT
          /\ pmm_alloc_page(2)
          /\ SetEntry(cr3, AddrOf(Max(Lowest(2))), v, AddrOf(Min(page_bitmap)), EmptyTable)
    /\ data' = data \cup {Min(page_bitmap)}
    /\ tlb' = vmm_flush_tlb_entry({v})
    /\ UNCHANGED <<reserved, cr3>>

\* A process stack (scheduler.c): a page, mapped at its own address after a
\* switch to the directory of the process; switching back empties the TLB.
AllocStack(d) ==
    /\ pmm_alloc_page(1)
    /\ LET p == Min(page_bitmap)
       IN  /\ MapInTable(d, AddrOf(p), AddrOf(p))
           /\ data' = data \cup {p}
    /\ tlb' = {}
    /\ UNCHANGED <<reserved, cr3>>

vmm_unmap_page(v) ==
    /\ MapInTable(cr3, v, NOT_PRESENT)
    /\ tlb' = vmm_flush_tlb_entry({v})
    /\ UNCHANGED <<pmmVars, cr3, data>>

\* cmd_ring3 opens its code and stack: PAGE_USER in both entries of each page
\* whose table is there.
vmm_mark_user_range ==
    LET pages == {a \in UserPages : page_dir[cr3][page_dir_index(a)] # NOT_PRESENT}
    IN  /\ user' = user
              \cup {<<cr3, page_dir_index(a)>> : a \in pages}
              \cup {<<page_dir[cr3][page_dir_index(a)], page_table_index(a)>> : a \in pages}
        /\ tlb' = vmm_flush_tlb_entry(pages)
        /\ UNCHANGED <<pmmVars, pagingVars, cr3, data>>

\* hal_free_page, for a page of data that no directory maps outside the
\* identity mapping, or for an address that is not managed.
FreePage ==
    /\ \E addr \in {AddrOf(p) : p \in data} \cup {a \in ADDRESSES : ~Managed(a)} :
          /\ \A d \in DOMAIN page_dir, v \in VADDRS : Translate(d, v) # addr
          /\ pmm_free_page(addr)
          /\ data' = data \ {PageOf(addr)}
    /\ UNCHANGED <<reserved, pagingVars, cr3, user, tlb>>

\* Somebody reserves memory (pmm_mark_reserved).
ReserveMemory == Reserve /\ UNCHANGED <<pagingVars, cr3, user, tlb, data>>

\* Loading CR3 empties the TLB; vmm_flush_tlb loads it with its own value.
vmm_switch_directory(d) ==
    /\ cr3' = d
    /\ tlb' = {}
    /\ UNCHANGED <<pmmVars, pagingVars, user, data>>

\* The processor walks the current tables and caches the translation.
Walk(v) ==
    /\ \A e \in tlb : e[1] # v
    /\ Translate(cr3, v) # NOT_PRESENT
    /\ tlb' = tlb \cup {<<v, Translate(cr3, v), UserMay(cr3, v)>>}
    /\ UNCHANGED <<pmmVars, pagingVars, cr3, user, data>>

VmmNext ==
    \/ vmm_create_address_space
    \/ FreePage
    \/ ReserveMemory
    \/ vmm_mark_user_range
    \/ \E v \in VADDRS : vmm_alloc_map_page(v) \/ MapFailed(v) \/ vmm_unmap_page(v)
    \/ \E v \in VADDRS \cup UserPages : Walk(v)
    \/ \E d \in DOMAIN page_dir : vmm_switch_directory(d) \/ AllocStack(d)

VmmSpec == VmmInit /\ [][VmmNext]_vmmVars

-----------------------------------------------------------------------------
(* Properties.                                                             *)

DirectoryPages == {PageOf(d) : d \in DOMAIN page_dir \ {kernel_page_directory}}
TablePages == {PageOf(t) : t \in DOMAIN page_table \ StaticTables}

\* A page serves one purpose: the pages handed out are the directories, the
\* tables and the data pages, no two of these overlap, and none is marked free.
OnePurpose ==
    /\ VmmTypeOK
    /\ held = DirectoryPages \cup TablePages \cup data
    /\ DirectoryPages \cap TablePages = {}
    /\ (DirectoryPages \cup TablePages) \cap data = {}
    /\ held \cap page_bitmap = {}

\* Address spaces share the kernel's tables and nothing else.  A table that is
\* not the kernel's is reached from one entry of one directory, so a mapping
\* made in one address space does not appear in another; and in each of them the
\* managed memory is mapped onto itself, as vmm.c, which writes directories and
\* tables through their physical addresses, relies on.
SpacesApart ==
    /\ \A d, e \in DOMAIN page_dir, i, j \in PDI :
          /\ page_dir[d][i] # NOT_PRESENT
          /\ page_dir[d][i] = page_dir[e][j]
          => i = j /\ (d = e \/ i < KERNEL_TABLES)
    /\ \A d \in DOMAIN page_dir, p \in Frame : Translate(d, p) = p

\* The TLB never holds what the current tables do not say, neither a translation
\* that was changed or removed nor a page as closed that vmm_mark_user_range
\* opened to ring 3.
TlbCoherent ==
    \A e \in tlb : Translate(cr3, e[1]) = e[2] /\ UserMay(cr3, e[1]) = e[3]

-----------------------------------------------------------------------------
(* What comments in the source say and the code does not do.               *)

\* "Copy the kernel's own mappings so the process can still call kernel code":
\* what the kernel directory maps, every directory maps to the same place.
KernelMappingsEverywhere ==
    \A d \in DOMAIN page_dir, v \in VADDRS :
        Translate(kernel_page_directory, v) # NOT_PRESENT
            => Translate(d, v) = Translate(kernel_page_directory, v)

=============================================================================
