----------------------------- MODULE VmmProofs ------------------------------
(***************************************************************************)
(* The page allocator and the virtual memory manager keep pages, address   *)
(* spaces and the TLB in order, for any size of pages, tables and memory.  *)
(***************************************************************************)
EXTENDS Vmm, FiniteSetTheorems, WellFoundedInduction, TLAPS

\* Time for the provers.
USE SMTT(20), ZenonT(20)

-----------------------------------------------------------------------------
(* Addresses and pages.                                                    *)

\* Division undoes multiplication.
LEMMA Quotient ==
    ASSUME NEW a \in Int, NEW b \in Nat \ {0}, NEW r \in 0..(b - 1)
    PROVE  (a * b + r) \div b = a /\ (a * b + r) % b = r
  OBVIOUS

\* Quotient and remainder make up the number.
LEMMA Division ==
    ASSUME NEW a \in Int, NEW b \in Nat \ {0}
    PROVE  /\ a \div b \in Int /\ a % b \in 0..(b - 1)
           /\ a = (a \div b) * b + (a % b)
  OBVIOUS

\* Multiplication keeps the order.
LEMMA Times ==
    ASSUME NEW a \in Int, NEW b \in Int, NEW c \in Nat \ {0}
    PROVE  a <= b <=> a * c <= b * c
  OBVIOUS

\* Division rounds down.
LEMMA Floor ==
    ASSUME NEW n \in Int, NEW x \in Int, NEW b \in Nat \ {0}
    PROVE  n * b <= x <=> n <= x \div b
<1> DEFINE q == x \div b
           r == x % b
<1>1. q \in Int /\ r \in 0..(b - 1) /\ x = q * b + r
  BY Division
<1> HIDE DEF q, r
<1>2. n * b \in Int /\ q * b \in Int /\ (q + 1) * b \in Int
  BY <1>1
<1>3. (q + 1) * b = q * b + b
  BY <1>1
<1>4. n <= q <=> n * b <= q * b
  BY <1>1, Times
<1>5. q + 1 <= n <=> (q + 1) * b <= n * b
  BY <1>1, Times
<1>6. n * b <= x <=> n <= q
  BY <1>1, <1>2, <1>3, <1>4, <1>5
<1> QED BY <1>6 DEF q

\* PageOf rounds down: a page starts at or below an address just if it is not
\* above the page of the address.
LEMMA Rounding ==
    ASSUME NEW i \in Int, NEW a \in Int
    PROVE  /\ PageOf(a) \in Int /\ AddrOf(i) \in Int
           /\ AddrOf(i) <= a <=> i <= PageOf(a)
<1> DEFINE d == a - MEMORY_START_ADDR
<1>1. PAGE_SIZE \in Nat \ {0} /\ MEMORY_START_ADDR \in Int
  BY PmmAssumption
<1>2. d \in Int /\ i * PAGE_SIZE \in Int
  BY <1>1
<1>3. d \div PAGE_SIZE \in Int
  BY <1>1, <1>2, Division
<1>4. i * PAGE_SIZE <= d <=> i <= d \div PAGE_SIZE
  BY <1>1, <1>2, Floor
<1> QED BY <1>1, <1>2, <1>3, <1>4 DEF PageOf, AddrOf

\* The next page starts one page size further on.
LEMMA NextAddr ==
    ASSUME NEW i \in Int
    PROVE  AddrOf(i) + PAGE_SIZE = AddrOf(i + 1)
<1>1. (i + 1) * PAGE_SIZE = i * PAGE_SIZE + PAGE_SIZE
  BY PmmAssumption
<1> QED BY <1>1, PmmAssumption DEF AddrOf

\* A page is the page of its address, so that no two have one address.
LEMMA PageOfAddr ==
    ASSUME NEW i \in Int
    PROVE  PageOf(AddrOf(i)) = i
<1>1. AddrOf(i) \in Int /\ AddrOf(i + 1) \in Int /\ PageOf(AddrOf(i)) \in Int
  BY Rounding
<1>2. i <= PageOf(AddrOf(i))
  BY <1>1, Rounding
<1>3. ~(i + 1 <= PageOf(AddrOf(i)))
  <2>1. ~(AddrOf(i + 1) <= AddrOf(i))
    BY <1>1, NextAddr, PmmAssumption
  <2> QED BY <1>1, <2>1, Rounding
<1> QED BY <1>1, <1>2, <1>3

\* The managed memory is that of the pages.
LEMMA Pages ==
    /\ NUMBER_OF_PAGES \in Nat /\ NUMBER_OF_PAGES = PageOf(MEMORY_END_ADDR)
    /\ MEMORY_START_ADDR = AddrOf(0) /\ MEMORY_END_ADDR = AddrOf(NUMBER_OF_PAGES)
    /\ PageOf(kernel_end) \in 0..NUMBER_OF_PAGES
<1>1. PICK n \in 0..MEMORY_END_ADDR : MEMORY_END_ADDR = MEMORY_START_ADDR + n * PAGE_SIZE
  BY PmmAssumption
<1>2. n \in Int /\ MEMORY_END_ADDR = AddrOf(n)
  BY <1>1, PmmAssumption DEF AddrOf
<1>3. PageOf(MEMORY_END_ADDR) = n
  BY <1>2, PageOfAddr
<1>4. NUMBER_OF_PAGES = n
  BY <1>3 DEF NUMBER_OF_PAGES, PageOf
<1>5. MEMORY_START_ADDR = AddrOf(0)
  BY PmmAssumption DEF AddrOf
<1>6. n \in Nat
  BY <1>1, PmmAssumption
<1>7. kernel_end \in Int /\ AddrOf(0) <= kernel_end /\ kernel_end <= AddrOf(n)
  BY <1>2, <1>5, PmmAssumption
<1>8. PageOf(kernel_end) \in Int /\ 0 <= PageOf(kernel_end)
  BY <1>7, Rounding
<1>9. PageOf(kernel_end) <= n
  <2>1. AddrOf(PageOf(kernel_end)) <= kernel_end /\ AddrOf(PageOf(kernel_end)) \in Int
    BY <1>7, <1>8, Rounding
  <2>2. AddrOf(n) \in Int
    BY <1>2, Rounding
  <2>3. AddrOf(PageOf(kernel_end)) <= AddrOf(n)
    BY <1>7, <2>1, <2>2
  <2>4. PageOf(kernel_end) <= PageOf(AddrOf(n))
    BY <1>8, <2>2, <2>3, Rounding
  <2> QED BY <1>2, <2>4, PageOfAddr
<1> QED BY <1>2, <1>3, <1>4, <1>5, <1>6, <1>8, <1>9

\* Outside the managed memory there are no pages.
LEMMA Unmanaged ==
    ASSUME NEW a \in Int
    PROVE  Managed(a) <=> PageOf(a) \in Page
<1>1. PageOf(a) \in Int /\ (AddrOf(0) <= a <=> 0 <= PageOf(a))
  BY Rounding
<1>2. AddrOf(NUMBER_OF_PAGES) <= a <=> NUMBER_OF_PAGES <= PageOf(a)
  BY Pages, Rounding
<1> QED BY <1>1, <1>2, Pages, PmmAssumption DEF Managed, Page

\* Pages are numbers, and their addresses lie in the managed memory.
LEMMA FrameOfPage ==
    ASSUME NEW i \in Page
    PROVE  /\ i \in Nat /\ AddrOf(i) \in Frame /\ AddrOf(i) \in Nat
           /\ MEMORY_START_ADDR <= AddrOf(i) /\ AddrOf(i) + PAGE_SIZE <= MEMORY_END_ADDR
           /\ Managed(AddrOf(i)) /\ PageOf(AddrOf(i)) = i
<1>1. i \in Nat /\ i + 1 <= NUMBER_OF_PAGES
  BY Pages DEF Page
<1>2. AddrOf(i) \in Int /\ AddrOf(i) \in Frame /\ PageOf(AddrOf(i)) = i
  BY <1>1, Rounding, PageOfAddr DEF Frame
<1>3. Managed(AddrOf(i))
  BY <1>2, Unmanaged
<1>4. AddrOf(i + 1) <= MEMORY_END_ADDR
  BY <1>1, Rounding, Pages, PmmAssumption
<1> QED BY <1>1, <1>2, <1>3, <1>4, NextAddr, PmmAssumption DEF Managed

\* A frame is the address of its page.
LEMMA PageOfFrame ==
    ASSUME NEW f \in Frame
    PROVE  PageOf(f) \in Page /\ f = AddrOf(PageOf(f)) /\ f \in Nat
<1>1. PICK i \in Page : f = AddrOf(i)
  BY DEF Frame
<1> QED BY <1>1, FrameOfPage

\* A page that is not inside the memory below kernel_end is not the static
\* directory or one of the static tables.
LEMMA AboveStatic ==
    ASSUME NEW i \in Page, ~Covered(i, <<MEMORY_START_ADDR, kernel_end>>)
    PROVE  i >= KERNEL_TABLES + 1
<1>1. MEMORY_START_ADDR <= AddrOf(i) /\ i \in Nat /\ AddrOf(i) \in Nat
  BY FrameOfPage
<1>2. ~(AddrOf(i + 1) <= kernel_end)
  BY <1>1, NextAddr, PmmAssumption DEF Covered
<1>3. ~(i + 1 <= PageOf(kernel_end)) /\ PageOf(kernel_end) \in Int
  BY <1>1, <1>2, Rounding, PmmAssumption
<1>4. AddrOf(KERNEL_TABLES + 1) <= kernel_end /\ KERNEL_TABLES \in Nat
  BY VmmAssumption DEF kernel_page_table, AddrOf
<1>5. KERNEL_TABLES + 1 <= PageOf(kernel_end)
  BY <1>4, Rounding, PmmAssumption
<1> QED BY <1>1, <1>3, <1>4, <1>5

\* The static directory and tables are the first pages of the memory.
LEMMA Static ==
    /\ kernel_page_directory \in Frame /\ PageOf(kernel_page_directory) = 0
    /\ \A i \in 0..(KERNEL_TABLES - 1) :
          /\ kernel_page_table(i) \in StaticTables
          /\ kernel_page_table(i) \in Frame /\ PageOf(kernel_page_table(i)) = i + 1
    /\ \A t \in StaticTables : t \in Frame /\ PageOf(t) \in 1..KERNEL_TABLES
<1>1. KERNEL_TABLES \in Nat \ {0} /\ AddrOf(KERNEL_TABLES + 1) <= MEMORY_END_ADDR
  BY VmmAssumption, PmmAssumption, Rounding DEF kernel_page_table, AddrOf
<1>2. KERNEL_TABLES + 1 <= NUMBER_OF_PAGES
  BY <1>1, Rounding, Pages, PmmAssumption
<1>3. \A i \in 0..KERNEL_TABLES : i \in Page /\ i \in Int
  BY <1>1, <1>2, Pages DEF Page
<1>4. kernel_page_directory = AddrOf(0)
  BY Pages DEF kernel_page_directory
<1>5. kernel_page_directory \in Frame /\ PageOf(kernel_page_directory) = 0
  BY <1>1, <1>3, <1>4, FrameOfPage
<1>6. ASSUME NEW i \in 0..(KERNEL_TABLES - 1)
      PROVE  /\ kernel_page_table(i) \in StaticTables
             /\ kernel_page_table(i) \in Frame /\ PageOf(kernel_page_table(i)) = i + 1
  <2>1. kernel_page_table(i) = AddrOf(i + 1)
    BY DEF kernel_page_table, AddrOf
  <2>2. i + 1 \in Page
    BY <1>1, <1>3
  <2> QED BY <2>1, <2>2, FrameOfPage DEF StaticTables
<1>7. ASSUME NEW t \in StaticTables PROVE t \in Frame /\ PageOf(t) \in 1..KERNEL_TABLES
  <2>1. PICK i \in 0..(KERNEL_TABLES - 1) : t = kernel_page_table(i)
    BY DEF StaticTables
  <2> QED BY <1>1, <1>6, <2>1
<1> QED BY <1>5, <1>6, <1>7

\* The static tables are distinct.
LEMMA StaticApart ==
    ASSUME NEW i \in 0..(KERNEL_TABLES - 1), NEW j \in 0..(KERNEL_TABLES - 1),
           kernel_page_table(i) = kernel_page_table(j)
    PROVE  i = j
  BY Static, VmmAssumption

\* The indices of an address and its offset make up the address.
LEMMA Indices ==
    ASSUME NEW v \in Nat, v % PAGE_SIZE = 0
    PROVE  /\ page_dir_index(v) \in Nat /\ page_table_index(v) \in PTI
           /\ v = (page_dir_index(v) * ENTRIES + page_table_index(v)) * PAGE_SIZE
<1> DEFINE n == v \div PAGE_SIZE
<1>1. PAGE_SIZE \in Nat \ {0} /\ ENTRIES \in Nat \ {0}
  BY PmmAssumption, VmmAssumption
<1>2. n \in Int /\ v = n * PAGE_SIZE + (v % PAGE_SIZE)
  BY <1>1, Division
<1>3. v = n * PAGE_SIZE
  <2>1. n * PAGE_SIZE \in Int
    BY <1>1, <1>2
  <2> QED BY <1>2, <2>1
<1>4. n \in Nat
  BY <1>1, <1>2, <1>3, Times
<1> HIDE DEF n
<1>5. n \div ENTRIES \in Nat
  BY <1>1, <1>4
<1>6. n % ENTRIES \in 0..(ENTRIES - 1) /\ n = (n \div ENTRIES) * ENTRIES + (n % ENTRIES)
  BY <1>1, <1>4, Division
<1>7. page_dir_index(v) = n \div ENTRIES /\ page_table_index(v) = n % ENTRIES
  BY DEF page_dir_index, page_table_index, n
<1> QED BY <1>3, <1>5, <1>6, <1>7 DEF PTI

\* No two pages of the virtual memory have the same indices.
LEMMA SameIndices ==
    ASSUME NEW v \in Nat, v % PAGE_SIZE = 0, NEW w \in Nat, w % PAGE_SIZE = 0,
           page_dir_index(v) = page_dir_index(w), page_table_index(v) = page_table_index(w)
    PROVE  v = w
  BY Indices

\* A multiple of the page size below the end of the memory is found in a static table.
LEMMA LowIndices ==
    ASSUME NEW v \in Nat, v % PAGE_SIZE = 0, v < MEMORY_END_ADDR
    PROVE  page_dir_index(v) \in 0..(KERNEL_TABLES - 1)
<1> DEFINE q == page_dir_index(v)
           r == page_table_index(v)
<1>1. PAGE_SIZE \in Nat \ {0} /\ ENTRIES \in Nat \ {0} /\ KERNEL_TABLES \in Nat
  BY PmmAssumption, VmmAssumption
<1>2. q \in Nat /\ r \in Nat /\ v = (q * ENTRIES + r) * PAGE_SIZE
  BY <1>1, Indices DEF PTI
<1> HIDE DEF q, r
<1>3. v < (KERNEL_TABLES * ENTRIES) * PAGE_SIZE
  <2>1. (KERNEL_TABLES * ENTRIES) * PAGE_SIZE \in Int
    BY <1>1
  <2> QED BY <2>1, PmmAssumption, VmmAssumption
<1>4. q * ENTRIES \in Int /\ q * ENTRIES + r \in Int /\ KERNEL_TABLES * ENTRIES \in Int
  BY <1>1, <1>2
<1>5. ~(KERNEL_TABLES * ENTRIES <= q * ENTRIES + r)
  <2>1. (KERNEL_TABLES * ENTRIES) * PAGE_SIZE \in Int /\ (q * ENTRIES + r) * PAGE_SIZE \in Int
    BY <1>1, <1>4
  <2> QED BY <1>1, <1>2, <1>3, <1>4, <2>1, Times
<1>6. ~(KERNEL_TABLES * ENTRIES <= q * ENTRIES)
  BY <1>2, <1>4, <1>5
<1>7. ~(KERNEL_TABLES <= q)
  BY <1>1, <1>2, <1>6, Times
<1> QED BY <1>1, <1>2, <1>7 DEF q

\* A sum of multiples is a multiple.
LEMMA Multiple ==
    ASSUME NEW a \in Int, NEW b \in Nat \ {0}
    PROVE  (a * b) % b = 0 /\ (a * b) \div b = a
  BY Quotient

\* The addresses of the pages are multiples of the page size, and the identity
\* mapping covers them.
LEMMA FrameIndices ==
    ASSUME NEW f \in Frame
    PROVE  /\ f \in Nat /\ f % PAGE_SIZE = 0
           /\ page_dir_index(f) \in 0..(KERNEL_TABLES - 1) /\ page_table_index(f) \in PTI
           /\ f = (page_dir_index(f) * ENTRIES + page_table_index(f)) * PAGE_SIZE
<1>1. PICK i \in Page : f = AddrOf(i)
  BY DEF Frame
<1>2. i \in Nat /\ f \in Nat /\ f < MEMORY_END_ADDR
  BY <1>1, FrameOfPage, PmmAssumption
<1>3. PAGE_SIZE \in Nat \ {0} /\ MEMORY_START_ADDR \in Nat
  BY PmmAssumption
<1>4. MEMORY_START_ADDR = (MEMORY_START_ADDR \div PAGE_SIZE) * PAGE_SIZE
  <2>1. MEMORY_START_ADDR \div PAGE_SIZE \in Int
    BY <1>3, Division
  <2>2. (MEMORY_START_ADDR \div PAGE_SIZE) * PAGE_SIZE \in Int
    BY <1>3, <2>1
  <2>3. MEMORY_START_ADDR = (MEMORY_START_ADDR \div PAGE_SIZE) * PAGE_SIZE + 0
    BY <1>3, Division, VmmAssumption
  <2> QED BY <2>2, <2>3
<1>5. f % PAGE_SIZE = 0
  <2> DEFINE s == MEMORY_START_ADDR \div PAGE_SIZE
  <2>1. s \in Int
    BY <1>3, Division
  <2> HIDE DEF s
  <2>2. s * PAGE_SIZE + i * PAGE_SIZE = (s + i) * PAGE_SIZE
    BY <1>2, <1>3, <2>1
  <2>3. f = (s + i) * PAGE_SIZE
    BY <1>1, <1>4, <2>2 DEF AddrOf, s
  <2> DEFINE k == s + i
  <2>4. k \in Int /\ f = k * PAGE_SIZE
    BY <1>2, <2>1, <2>3
  <2> HIDE DEF k
  <2> QED BY <1>3, <2>4, Multiple
<1>6. page_dir_index(f) \in 0..(KERNEL_TABLES - 1)
  BY <1>2, <1>5, LowIndices
<1>7. /\ page_table_index(f) \in PTI
      /\ f = (page_dir_index(f) * ENTRIES + page_table_index(f)) * PAGE_SIZE
  BY <1>2, <1>5, Indices
<1> QED BY <1>2, <1>5, <1>6, <1>7

\* The pages of the ring-3 test are pages of the managed memory.
LEMMA UserFrames == UserPages \subseteq Frame
<1> SUFFICES ASSUME NEW a \in UserPages PROVE a \in Frame
  OBVIOUS
<1> DEFINE E == USER_START + USER_LEN + PAGE_SIZE - 1
           s == MEMORY_START_ADDR \div PAGE_SIZE
<1>1. /\ PAGE_SIZE \in Nat \ {0} /\ MEMORY_START_ADDR \in Nat
      /\ MEMORY_END_ADDR \in Nat /\ kernel_end \in Nat /\ kernel_end <= MEMORY_END_ADDR
  BY PmmAssumption
<1>2. USER_START \in Nat /\ MEMORY_START_ADDR <= USER_START
  <2>1. AddrOf(0) <= AddrOf(KERNEL_TABLES + 1) /\ AddrOf(KERNEL_TABLES + 1) \in Int
    <3>1. KERNEL_TABLES + 1 \in Int /\ 0 <= KERNEL_TABLES + 1
      BY VmmAssumption
    <3>2. AddrOf(KERNEL_TABLES + 1) \in Int /\ AddrOf(0) \in Int
      BY <3>1, Rounding
    <3> QED BY <3>1, <3>2, Rounding, PageOfAddr
  <2>2. USER_START \in AddrOf(KERNEL_TABLES + 1)..kernel_end
    BY VmmAssumption DEF kernel_page_table, AddrOf
  <2> QED BY <1>1, <2>1, <2>2, Pages
<1>3. USER_LEN \in Nat /\ USER_START + USER_LEN <= kernel_end
  BY <1>1, <1>2, VmmAssumption
<1>4. E \in Int /\ E <= kernel_end + PAGE_SIZE - 1
  BY <1>1, <1>2, <1>3
<1>5. E \div PAGE_SIZE \in Int /\ USER_START \div PAGE_SIZE \in Int
  BY <1>1, <1>2, <1>4, Division
<1>6. PICK n \in (USER_START \div PAGE_SIZE)..(E \div PAGE_SIZE - 1) : a = n * PAGE_SIZE
  BY DEF UserPages
<1>7. n \in Int /\ USER_START \div PAGE_SIZE <= n /\ n + 1 <= E \div PAGE_SIZE
  BY <1>5, <1>6
<1>8. s \in Int /\ MEMORY_START_ADDR = s * PAGE_SIZE
  <2>1. s \in Int /\ MEMORY_START_ADDR = s * PAGE_SIZE + 0
    BY <1>1, Division, VmmAssumption
  <2>2. s * PAGE_SIZE \in Int
    BY <1>1, <2>1
  <2> QED BY <2>1, <2>2
<1> HIDE DEF s
<1>9. MEMORY_START_ADDR <= a /\ a \in Int
  <2>1. s <= USER_START \div PAGE_SIZE
    <3>1. s * PAGE_SIZE <= USER_START
      BY <1>2, <1>8
    <3>2. s \in Int /\ USER_START \in Int /\ PAGE_SIZE \in Nat \ {0}
      BY <1>1, <1>2, <1>8
    <3>3. s * PAGE_SIZE <= USER_START <=> s <= USER_START \div PAGE_SIZE
      BY Zenon, <3>2, Floor
    <3> QED BY <3>1, <3>3
  <2>2. s <= n
    BY <1>5, <1>7, <1>8, <2>1
  <2> QED BY <1>1, <1>6, <1>7, <1>8, <2>2, Times
<1>10. a < MEMORY_END_ADDR
  <2>1. (n + 1) * PAGE_SIZE <= E
    <3> DEFINE k == n + 1
    <3>1. k \in Int /\ k <= E \div PAGE_SIZE
      BY <1>7
    <3> HIDE DEF k, E
    <3>2. k * PAGE_SIZE <= E
      BY <1>1, <1>4, <3>1, Floor
    <3> QED BY <3>2 DEF k
  <2>2. (n + 1) * PAGE_SIZE = a + PAGE_SIZE
    BY <1>1, <1>6, <1>7
  <2> QED BY <1>1, <1>4, <1>9, <2>1, <2>2
<1>11. PageOf(a) \in Page
  BY <1>9, <1>10, Unmanaged DEF Managed
<1>12. a = AddrOf(n - s)
  <2>1. s * PAGE_SIZE + (n - s) * PAGE_SIZE = n * PAGE_SIZE
    BY <1>1, <1>7, <1>8
  <2> QED BY <1>6, <1>8, <2>1 DEF AddrOf
<1>13. PageOf(a) = n - s
  BY <1>7, <1>8, <1>12, PageOfAddr
<1> QED BY <1>11, <1>12, <1>13 DEF Frame

\* What the static tables map is below KERNEL_TABLES tables' worth of memory.
LEMMA InIdentity ==
    ASSUME NEW i \in 0..(KERNEL_TABLES - 1), NEW j \in PTI
    PROVE  (i * ENTRIES + j) * PAGE_SIZE \in IdentityFrames
<1>1. ENTRIES \in Nat \ {0} /\ KERNEL_TABLES \in Nat \ {0}
  BY VmmAssumption
<1>2. i \in Nat /\ j \in Nat /\ i + 1 <= KERNEL_TABLES /\ j <= ENTRIES - 1
  BY <1>1 DEF PTI
<1>3. (i + 1) * ENTRIES <= KERNEL_TABLES * ENTRIES
  BY <1>1, <1>2, Times
<1>4. (i + 1) * ENTRIES = i * ENTRIES + ENTRIES /\ i * ENTRIES \in Nat
      /\ KERNEL_TABLES * ENTRIES \in Nat
  BY <1>1, <1>2
<1>5. i * ENTRIES + j \in 0..(KERNEL_TABLES * ENTRIES - 1)
  BY <1>1, <1>2, <1>3, <1>4
<1> QED BY <1>5 DEF IdentityFrames

\* The managed memory is in the identity mapping.
LEMMA FramesInIdentity == Frame \subseteq IdentityFrames
  BY FrameIndices, InIdentity

\* The pages that are cached or mapped, by their indices.
LEMMA Virtual ==
    ASSUME NEW v \in VADDRS \cup UserPages
    PROVE  /\ v \in Nat /\ v % PAGE_SIZE = 0
           /\ page_dir_index(v) \in PDI /\ page_table_index(v) \in PTI
           /\ v \in VADDRS => page_dir_index(v) >= KERNEL_TABLES
           /\ v \in UserPages => page_dir_index(v) < KERNEL_TABLES /\ v \in Frame
<1>1. KERNEL_TABLES \in Nat /\ DIR_ENTRIES \in Nat /\ KERNEL_TABLES <= DIR_ENTRIES
  BY VmmAssumption
<1>2. CASE v \in VADDRS
  <2>1. v \in Nat /\ v % PAGE_SIZE = 0 /\ page_dir_index(v) \in KERNEL_TABLES..(DIR_ENTRIES - 1)
    BY <1>2, VmmAssumption
  <2>2. page_table_index(v) \in PTI
    BY <2>1, Indices
  <2>3. v \notin UserPages
    BY <1>1, <2>1, UserFrames, FrameIndices
  <2> QED BY <1>1, <2>1, <2>2, <2>3 DEF PDI
<1>3. CASE v \in UserPages
  <2>1. v \in Frame
    BY <1>3, UserFrames
  <2>2. /\ v \in Nat /\ v % PAGE_SIZE = 0
        /\ page_dir_index(v) \in 0..(KERNEL_TABLES - 1) /\ page_table_index(v) \in PTI
    BY <2>1, FrameIndices
  <2>3. v \notin VADDRS
    BY <1>1, <2>2, VmmAssumption
  <2> QED BY <1>1, <2>1, <2>2, <2>3 DEF PDI
<1> QED BY <1>2, <1>3

-----------------------------------------------------------------------------
(* The lowest free pages.                                                  *)

\* A set of pages that is not empty has a lowest page.
LEMMA LowestOf ==
    ASSUME NEW S, S \subseteq Page, S # {}
    PROVE  \E m \in S : \A j \in S : m <= j
<1> DEFINE R == OpToRel(<, Nat)
<1>1. S \subseteq Nat
  BY Pages DEF Page
<1>2. IsWellFoundedOn(R, Nat)
  BY Zenon, NatLessThanWellFounded
<1> HIDE DEF R
<1>3. PICK x \in S : \A y \in S : ~(<<y, x>> \in R)
  BY Zenon, <1>1, <1>2, WFMin
<1>4. \A y \in S : ~(y < x)
  BY Zenon, <1>1, <1>3 DEF R, OpToRel
<1> QED BY <1>1, <1>3, <1>4

\* The lowest page of a set is its minimum.
LEMMA MinOf ==
    ASSUME NEW S, S \subseteq Page, NEW m \in S, \A j \in S : m <= j
    PROVE  Min(S) = m
<1>1. S \subseteq Nat
  BY Pages DEF Page
<1>2. ASSUME NEW x \in S, \A j \in S : x <= j PROVE x = m
  BY <1>1, <1>2
<1> QED BY <1>2, Zenon DEF Min

\* Sets of pages are finite.
LEMMA PagesFinite ==
    ASSUME NEW S, S \subseteq Page
    PROVE  IsFiniteSet(S) /\ Cardinality(S) \in Nat
<1>1. IsFiniteSet(Page)
  BY Pages, FS_Interval DEF Page
<1> QED BY <1>1, FS_Subset, FS_CardinalityType

\* pmm_alloc_page takes the lowest page.
LEMMA AllocOne ==
    ASSUME page_bitmap \subseteq Page, pmm_alloc_page(1)
    PROVE  /\ Min(page_bitmap) \in page_bitmap
           /\ page_bitmap' = page_bitmap \ {Min(page_bitmap)}
           /\ held' = held \cup {Min(page_bitmap)}
<1>1. IsFiniteSet(page_bitmap) /\ Cardinality(page_bitmap) >= 1
  BY PagesFinite DEF pmm_alloc_page
<1>2. page_bitmap # {}
  BY <1>1, FS_EmptySet
<1>3. PICK m \in page_bitmap : \A j \in page_bitmap : m <= j
  BY <1>2, LowestOf
<1>4. Min(page_bitmap) = m
  BY <1>3, MinOf
<1>5. ASSUME NEW i \in page_bitmap
      PROVE  Cardinality({j \in page_bitmap : j < i}) < 1 <=> i = m
  <2> DEFINE B == {j \in page_bitmap : j < i}
  <2>1. IsFiniteSet(B) /\ Cardinality(B) \in Nat
    BY PagesFinite
  <2>2. Cardinality(B) = 0 <=> B = {}
    BY <2>1, FS_EmptySet
  <2>3. B = {} <=> i = m
    <3>1. page_bitmap \subseteq Nat
      BY Pages DEF Page
    <3>2. i # m => m \in B
      BY <1>3, <3>1
    <3>3. i = m => \A j \in page_bitmap : ~(j < i)
      BY <1>3, <3>1
    <3> QED BY <3>2, <3>3
  <2> QED BY <2>1, <2>2, <2>3
<1>6. Lowest(1) = {m}
  BY <1>5 DEF Lowest
<1> QED BY <1>4, <1>6 DEF pmm_alloc_page, ClearBits

\* Two calls of it take the two lowest, in that order.
LEMMA AllocTwo ==
    ASSUME page_bitmap \subseteq Page, pmm_alloc_page(2)
    PROVE  LET m == Min(page_bitmap)
               k == Max(Lowest(2))
           IN  /\ m \in page_bitmap /\ k \in page_bitmap /\ m # k
               /\ page_bitmap' = page_bitmap \ {m, k}
               /\ held' = held \cup {m, k}
<1>1. /\ IsFiniteSet(page_bitmap) /\ Cardinality(page_bitmap) >= 2
      /\ Cardinality(page_bitmap) \in Nat /\ page_bitmap \subseteq Nat
  <2>1. page_bitmap \subseteq Nat
    BY Pages DEF Page
  <2> QED BY Zenon, <2>1, PagesFinite DEF pmm_alloc_page
<1>2. page_bitmap # {}
  BY <1>1, FS_EmptySet
<1>3. PICK m \in page_bitmap : \A j \in page_bitmap : m <= j
  BY <1>2, LowestOf
<1>4. Min(page_bitmap) = m
  BY <1>3, MinOf
<1>5. page_bitmap \ {m} # {}
  <2>1. Cardinality(page_bitmap \ {m}) = Cardinality(page_bitmap) - 1
    BY Zenon, <1>1, FS_RemoveElement
  <2> QED BY <1>1, <2>1, FS_EmptySet
<1>6. PICK k \in page_bitmap \ {m} : \A j \in page_bitmap \ {m} : k <= j
  BY Zenon, <1>5, LowestOf
<1>7. ASSUME NEW i \in page_bitmap
      PROVE  Cardinality({j \in page_bitmap : j < i}) < 2 <=> i \in {m, k}
  <2> DEFINE B == {j \in page_bitmap : j < i}
  <2>1. IsFiniteSet(B) /\ Cardinality(B) \in Nat
    BY PagesFinite
  <2>2. CASE i = m
    <3>1. B = {}
      <4>1. \A j \in page_bitmap : ~(j < i)
        BY <1>1, <1>3, <2>2
      <4> QED BY <4>1
    <3>2. Cardinality(B) = 0
      BY <3>1, FS_EmptySet
    <3> QED BY <2>2, <3>2
  <2>3. CASE i = k
    <3>1. B = {m}
      <4>1. \A j \in page_bitmap : j < i <=> j = m
        BY <1>1, <1>3, <1>6, <2>3
      <4> QED BY <4>1
    <3>2. Cardinality(B) = 1
      BY <3>1, FS_Singleton
    <3> QED BY <2>3, <3>2
  <2>4. CASE i \notin {m, k}
    <3>1. {m, k} \subseteq B
      BY <1>1, <1>3, <1>6, <2>4
    <3>2. Cardinality({m}) = 1 /\ IsFiniteSet({m})
      BY Zenon, FS_Singleton
    <3>3. Cardinality({m} \cup {k}) = 2
      <4>1. Cardinality({m} \cup {k}) = Cardinality({m}) + 1
        BY Zenon, <1>6, <3>2, FS_AddElement
      <4> QED BY <3>2, <4>1
    <3>4. {m} \cup {k} = {m, k}
      OBVIOUS
    <3>5. Cardinality({m, k}) <= Cardinality(B)
      BY <2>1, <3>1, FS_Subset
    <3> QED BY <2>1, <2>4, <3>3, <3>4, <3>5
  <2> QED BY <2>2, <2>3, <2>4
<1>8. Lowest(2) = {m, k}
  BY <1>6, <1>7 DEF Lowest
<1>9. Max({m, k}) = k
  BY <1>1, <1>3, <1>6 DEF Max
<1> QED BY <1>4, <1>6, <1>8, <1>9 DEF pmm_alloc_page, ClearBits

-----------------------------------------------------------------------------
(* The inductive invariant.                                                *)

\* The tables that vmm_map_page allocated.
OwnTables == DOMAIN page_table \ StaticTables

\* Pages are used for one thing; none that is free or handed out was reserved.
PagesInv ==
    /\ PmmTypeOK
    /\ data \subseteq Page
    /\ held = DirectoryPages \cup TablePages \cup data
    /\ DirectoryPages \cap TablePages = {}
    /\ (DirectoryPages \cup TablePages) \cap data = {}
    /\ held \cap page_bitmap = {}
    /\ \A i \in page_bitmap \cup held,
          r \in reserved \cup {<<MEMORY_START_ADDR, kernel_end>>} : ~Covered(i, r)

\* Every directory has the static tables, which map the low memory onto itself,
\* and tables of its own above them.
SpacesInv ==
    /\ DOMAIN page_dir \subseteq Frame
    /\ DOMAIN page_table \subseteq Frame
    /\ kernel_page_directory \in DOMAIN page_dir
    /\ StaticTables \subseteq DOMAIN page_table
    /\ cr3 \in DOMAIN page_dir
    /\ \A d \in DOMAIN page_dir :
          /\ page_dir[d] \in [PDI -> DOMAIN page_table \cup {NOT_PRESENT}]
          /\ \A i \in PDI : IF i < KERNEL_TABLES
                            THEN page_dir[d][i] = kernel_page_table(i)
                            ELSE page_dir[d][i] \notin StaticTables
    /\ \A d, e \in DOMAIN page_dir, i, j \in PDI :
          page_dir[d][i] \in OwnTables /\ page_dir[d][i] = page_dir[e][j]
            => d = e /\ i = j
    /\ \A i \in 0..(KERNEL_TABLES - 1) :
          page_table[kernel_page_table(i)]
              = [j \in PTI |-> (i * ENTRIES + j) * PAGE_SIZE]
    /\ \A t \in OwnTables : page_table[t] \in [PTI -> Frame \cup {NOT_PRESENT}]

\* Only entries that exist have flags, and the TLB agrees with the tables.
CacheInv ==
    /\ user \subseteq ((DOMAIN page_dir) \X PDI) \cup ((DOMAIN page_table) \X PTI)
    /\ tlb \subseteq (VADDRS \cup UserPages) \X Frame \X BOOLEAN
    /\ TlbCoherent

VmmInv == PagesInv /\ SpacesInv /\ CacheInv

-----------------------------------------------------------------------------
(* What the invariant says of a single page, entry or translation.         *)

\* A free page is not in use for anything.
LEMMA Fresh ==
    ASSUME VmmInv, NEW m \in page_bitmap
    PROVE  /\ m \in Page /\ m \notin held
           /\ AddrOf(m) \in Frame /\ PageOf(AddrOf(m)) = m
           /\ AddrOf(m) \notin DOMAIN page_dir /\ AddrOf(m) \notin DOMAIN page_table
           /\ AddrOf(m) \notin StaticTables /\ AddrOf(m) # kernel_page_directory
           /\ AddrOf(m) # NOT_PRESENT
           /\ \A i : <<AddrOf(m), i>> \notin user
<1>1. m \in Page /\ m \notin held
  BY DEF VmmInv, PagesInv, PmmTypeOK
<1>2. AddrOf(m) \in Frame /\ PageOf(AddrOf(m)) = m /\ AddrOf(m) \in Nat
  BY <1>1, FrameOfPage
<1>3. m >= KERNEL_TABLES + 1 /\ m \in Nat /\ KERNEL_TABLES \in Nat
  <2>1. ~Covered(m, <<MEMORY_START_ADDR, kernel_end>>)
    BY DEF VmmInv, PagesInv
  <2> QED BY <1>1, <2>1, AboveStatic, FrameOfPage, VmmAssumption
<1>4. AddrOf(m) \notin StaticTables /\ AddrOf(m) # kernel_page_directory
  BY <1>2, <1>3, Static
<1>5. DirectoryPages \subseteq held /\ TablePages \subseteq held
  BY DEF VmmInv, PagesInv
<1>6. AddrOf(m) \notin DOMAIN page_dir
  BY <1>1, <1>2, <1>4, <1>5 DEF DirectoryPages
<1>7. AddrOf(m) \notin DOMAIN page_table
  BY <1>1, <1>2, <1>4, <1>5 DEF TablePages
<1>8. \A i : <<AddrOf(m), i>> \notin user
  BY <1>6, <1>7 DEF VmmInv, CacheInv
<1> QED BY <1>1, <1>2, <1>4, <1>6, <1>7, <1>8 DEF NOT_PRESENT

\* No page is a directory and a table.
LEMMA DirectoryNoTable ==
    ASSUME VmmInv, NEW d \in DOMAIN page_dir
    PROVE  d \notin DOMAIN page_table
<1> SUFFICES ASSUME d \in DOMAIN page_table PROVE FALSE
  OBVIOUS
<1>1. KERNEL_TABLES \in Nat
  BY VmmAssumption
<1>2. \A p \in held : p >= KERNEL_TABLES + 1 /\ p \in Nat
  <2>1. \A p \in held : p \in Page /\ ~Covered(p, <<MEMORY_START_ADDR, kernel_end>>)
    BY DEF VmmInv, PagesInv, PmmTypeOK
  <2> QED BY <2>1, AboveStatic, FrameOfPage
<1>3. DirectoryPages \subseteq held /\ TablePages \subseteq held
      /\ DirectoryPages \cap TablePages = {}
  BY DEF VmmInv, PagesInv
<1>4. d # kernel_page_directory => PageOf(d) \in DirectoryPages
  BY DEF DirectoryPages
<1>5. d \notin StaticTables => PageOf(d) \in TablePages
  BY DEF TablePages
<1> QED BY <1>1, <1>2, <1>3, <1>4, <1>5, Static

\* Every directory maps the managed memory onto itself, through the static
\* tables.
LEMMA Identity ==
    ASSUME SpacesInv, NEW d \in DOMAIN page_dir, NEW p \in Frame
    PROVE  /\ page_dir_index(p) \in 0..(KERNEL_TABLES - 1) /\ page_dir_index(p) \in PDI
           /\ page_table_index(p) \in PTI
           /\ page_dir[d][page_dir_index(p)] = kernel_page_table(page_dir_index(p))
           /\ Translate(d, p) = p
<1> DEFINE i == page_dir_index(p)
           j == page_table_index(p)
<1>1. i \in 0..(KERNEL_TABLES - 1) /\ j \in PTI /\ p = (i * ENTRIES + j) * PAGE_SIZE
  BY FrameIndices
<1> HIDE DEF i, j
<1>2. i \in PDI /\ i < KERNEL_TABLES
  BY <1>1, VmmAssumption DEF PDI
<1>3. page_dir[d][i] = kernel_page_table(i)
  BY <1>2 DEF SpacesInv
<1>4. page_table[kernel_page_table(i)][j] = (i * ENTRIES + j) * PAGE_SIZE
  <2>1. page_table[kernel_page_table(i)] = [k \in PTI |-> (i * ENTRIES + k) * PAGE_SIZE]
    BY <1>1 DEF SpacesInv
  <2> QED BY <1>1, <2>1
<1>5. kernel_page_table(i) # NOT_PRESENT
  BY <1>1, Static, PageOfFrame DEF NOT_PRESENT
<1> QED BY <1>1, <1>2, <1>3, <1>4, <1>5 DEF Translate, i, j

\* Above the static tables a directory has tables of its own, which map pages.
LEMMA OwnEntry ==
    ASSUME SpacesInv, NEW d \in DOMAIN page_dir, NEW v \in VADDRS
    PROVE  LET t == page_dir[d][page_dir_index(v)]
           IN  /\ t = NOT_PRESENT \/ t \in OwnTables
               /\ Translate(d, v) \in Frame \cup {NOT_PRESENT}
<1> DEFINE i == page_dir_index(v)
           t == page_dir[d][i]
<1>1. i \in PDI /\ ~(i < KERNEL_TABLES) /\ page_table_index(v) \in PTI
  BY Virtual, VmmAssumption DEF PDI
<1>2. t \in DOMAIN page_table \cup {NOT_PRESENT} /\ t \notin StaticTables
  BY <1>1 DEF SpacesInv
<1>3. t \in OwnTables => page_table[t][page_table_index(v)] \in Frame \cup {NOT_PRESENT}
  BY <1>1 DEF SpacesInv
<1> QED BY <1>2, <1>3 DEF OwnTables, Translate

\* An entry of a directory is a table or not present.
LEMMA EntryOf ==
    ASSUME SpacesInv, NEW d \in DOMAIN page_dir, NEW i \in PDI
    PROVE  page_dir[d][i] \in DOMAIN page_table \cup {NOT_PRESENT}
<1>1. page_dir[d] \in [PDI -> DOMAIN page_table \cup {NOT_PRESENT}]
  BY Zenon DEF SpacesInv
<1> QED BY Zenon, <1>1

\* A table that is not static is in one entry of one directory.
LEMMA OneOwner ==
    ASSUME SpacesInv, NEW d \in DOMAIN page_dir, NEW e \in DOMAIN page_dir,
           NEW i \in PDI, NEW j \in PDI,
           page_dir[d][i] \in OwnTables, page_dir[d][i] = page_dir[e][j]
    PROVE  d = e /\ i = j
  BY Zenon DEF SpacesInv

\* Frames are not NOT_PRESENT.
LEMMA FramePresent == NOT_PRESENT \notin Frame
  BY PageOfFrame DEF NOT_PRESENT

\* Pages that were free and are handed out for one purpose each.
LEMMA PagesTaken ==
    ASSUME PagesInv, NEW D, NEW T, NEW X,
           D \cup T \cup X \subseteq page_bitmap,
           D \cap T = {}, D \cap X = {}, T \cap X = {},
           page_bitmap' = page_bitmap \ (D \cup T \cup X),
           held' = held \cup D \cup T \cup X, reserved' = reserved,
           DirectoryPages' = DirectoryPages \cup D,
           TablePages' = TablePages \cup T,
           data' = data \cup X
    PROVE  PagesInv'
<1>1. page_bitmap \subseteq Page /\ held \subseteq Page /\ held \cap page_bitmap = {}
  BY DEF PagesInv, PmmTypeOK
<1>2. PmmTypeOK'
  BY <1>1 DEF PagesInv, PmmTypeOK
<1>3. data' \subseteq Page
  BY <1>1 DEF PagesInv
<1>4. (held = DirectoryPages \cup TablePages \cup data)'
  BY DEF PagesInv
<1>5. (DirectoryPages \cap TablePages = {})' /\ ((DirectoryPages \cup TablePages) \cap data = {})'
  BY <1>1 DEF PagesInv
<1>6. (held \cap page_bitmap = {})'
  BY <1>1
<1>7. page_bitmap' \cup held' \subseteq page_bitmap \cup held
  OBVIOUS
<1>8. \A i \in page_bitmap' \cup held',
         r \in reserved' \cup {<<MEMORY_START_ADDR, kernel_end>>} : ~Covered(i, r)
  BY <1>7 DEF PagesInv
<1> QED BY <1>2, <1>3, <1>4, <1>5, <1>6, <1>8 DEF PagesInv, Covered

\* Nothing about pages changes.
LEMMA PagesSame ==
    ASSUME PagesInv, UNCHANGED <<page_bitmap, held, reserved, data>>,
           DOMAIN page_dir' = DOMAIN page_dir, DOMAIN page_table' = DOMAIN page_table
    PROVE  PagesInv'
<1>1. DirectoryPages' = DirectoryPages /\ TablePages' = TablePages
  BY DEF DirectoryPages, TablePages
<1> QED BY <1>1 DEF PagesInv, PmmTypeOK, Covered

\* The directories and tables say the same.
LEMMA SpacesSame ==
    ASSUME SpacesInv, cr3' \in DOMAIN page_dir,
           DOMAIN page_dir' = DOMAIN page_dir, DOMAIN page_table' = DOMAIN page_table,
           \A d \in DOMAIN page_dir : page_dir'[d] = page_dir[d],
           \A t \in DOMAIN page_table : page_table'[t] = page_table[t]
    PROVE  SpacesInv'
<1>1. OwnTables' = OwnTables /\ OwnTables \subseteq DOMAIN page_table
  BY DEF OwnTables
<1>2. \A i \in 0..(KERNEL_TABLES - 1) : kernel_page_table(i) \in DOMAIN page_table
  BY Static DEF SpacesInv
<1>3. \A i \in 0..(KERNEL_TABLES - 1) :
          page_table'[kernel_page_table(i)] = [j \in PTI |-> (i * ENTRIES + j) * PAGE_SIZE]
  BY <1>2 DEF SpacesInv
<1>4. \A t \in OwnTables' : page_table'[t] \in [PTI -> Frame \cup {NOT_PRESENT}]
  BY <1>1 DEF SpacesInv
<1>5. \A d, e \in DOMAIN page_dir', i, j \in PDI :
          page_dir'[d][i] \in OwnTables' /\ page_dir'[d][i] = page_dir'[e][j]
            => d = e /\ i = j
  BY <1>1 DEF SpacesInv
<1>6. \A d \in DOMAIN page_dir' :
          /\ page_dir'[d] \in [PDI -> DOMAIN page_table' \cup {NOT_PRESENT}]
          /\ \A i \in PDI : IF i < KERNEL_TABLES
                            THEN page_dir'[d][i] = kernel_page_table(i)
                            ELSE page_dir'[d][i] \notin StaticTables
  BY DEF SpacesInv
<1> QED BY ZenonT(30), <1>3, <1>4, <1>5, <1>6
        DEF SpacesInv, StaticTables, Frame, kernel_page_directory, kernel_page_table

-----------------------------------------------------------------------------
(* The initial state and the steps.                                        *)

\* vmm_init establishes the invariant.
LEMMA InitVmmInv == VmmInit => VmmInv
<1> SUFFICES ASSUME VmmInit PROVE VmmInv
  OBVIOUS
<1>1. /\ DOMAIN page_dir = {kernel_page_directory} /\ DOMAIN page_table = StaticTables
      /\ OwnTables = {} /\ DirectoryPages = {} /\ TablePages = {}
  BY DEF VmmInit, OwnTables, DirectoryPages, TablePages
<1>2. PagesInv
  <2>1. page_bitmap = Page \ {i \in Page : i < PageOf(kernel_end)} /\ held = {}
        /\ reserved = {} /\ data = {}
    BY DEF VmmInit, PmmInit
  <2>2. ASSUME NEW i \in page_bitmap PROVE ~Covered(i, <<MEMORY_START_ADDR, kernel_end>>)
    <3>1. i \in Page /\ i \in Nat /\ ~(i < PageOf(kernel_end))
      BY <2>1, FrameOfPage
    <3>2. ~(AddrOf(i + 1) <= kernel_end)
      BY <3>1, Rounding, PmmAssumption
    <3> QED BY <3>1, <3>2, NextAddr DEF Covered
  <2> QED BY <1>1, <2>1, <2>2 DEF PagesInv, PmmTypeOK
<1>3. SpacesInv
  <2>1. page_dir[kernel_page_directory] = KernelDirectory
    BY DEF VmmInit
  <2>2. ASSUME NEW i \in PDI
        PROVE  /\ KernelDirectory[i] \in StaticTables \cup {NOT_PRESENT}
               /\ IF i < KERNEL_TABLES THEN KernelDirectory[i] = kernel_page_table(i)
                  ELSE KernelDirectory[i] \notin StaticTables
    <3>1. NOT_PRESENT \notin StaticTables
      BY Static, FramePresent
    <3>2. i < KERNEL_TABLES => i \in 0..(KERNEL_TABLES - 1)
      BY VmmAssumption DEF PDI
    <3> QED BY <3>1, <3>2, Static DEF KernelDirectory
  <2>3. KernelDirectory \in [PDI -> StaticTables \cup {NOT_PRESENT}]
    BY <2>2 DEF KernelDirectory
  <2>4. ASSUME NEW i \in 0..(KERNEL_TABLES - 1)
        PROVE  page_table[kernel_page_table(i)] = [j \in PTI |-> (i * ENTRIES + j) * PAGE_SIZE]
    <3> DEFINE t == kernel_page_table(i)
    <3>1. t \in StaticTables /\ PageOf(t) = i + 1
      BY Static
    <3> HIDE DEF t
    <3>2. page_table[t] = [j \in PTI |-> (PageOf(t) - 1) * ENTRIES * PAGE_SIZE + j * PAGE_SIZE]
      BY <3>1 DEF VmmInit
    <3>3. ASSUME NEW j \in PTI
          PROVE  (PageOf(t) - 1) * ENTRIES * PAGE_SIZE + j * PAGE_SIZE
                     = (i * ENTRIES + j) * PAGE_SIZE
      <4>1. i \in Int /\ j \in Int /\ ENTRIES \in Int /\ PAGE_SIZE \in Int
        BY VmmAssumption, PmmAssumption DEF PTI
      <4>2. PageOf(t) - 1 = i
        BY <3>1, <4>1
      <4>3. i * ENTRIES * PAGE_SIZE + j * PAGE_SIZE = (i * ENTRIES + j) * PAGE_SIZE
        BY <4>1
      <4> QED BY <4>2, <4>3
    <3> QED BY <3>2, <3>3 DEF t
  <2>5. cr3 = kernel_page_directory
    BY DEF VmmInit
  <2> QED BY <1>1, <2>1, <2>2, <2>3, <2>4, <2>5, Static DEF SpacesInv
<1>4. CacheInv
  BY DEF VmmInit, CacheInv, TlbCoherent
<1> QED BY <1>2, <1>3, <1>4 DEF VmmInv

\* The entries of a table that is not a directory's own, and the flags of
\* entries that are not named, are as they were: the translation of w is too.
LEMMA SameTranslation ==
    ASSUME NEW d, NEW w,
           page_dir'[d][page_dir_index(w)] = page_dir[d][page_dir_index(w)],
           LET t == page_dir[d][page_dir_index(w)]
               j == page_table_index(w)
           IN  /\ t # NOT_PRESENT => page_table'[t][j] = page_table[t][j]
               /\ <<d, page_dir_index(w)>> \in user' <=> <<d, page_dir_index(w)>> \in user
               /\ <<t, j>> \in user' <=> <<t, j>> \in user
    PROVE  /\ Translate(d, w)' = Translate(d, w)
           /\ UserMay(d, w)' = UserMay(d, w)
<1>1. Translate(d, w)' = Translate(d, w)
  BY Zenon DEF Translate
<1>2. UserMay(d, w)' <=> UserMay(d, w)
  BY DEF UserMay
<1> QED BY ZenonT(30), <1>1, <1>2 DEF UserMay

\* The TLB holds nothing new, and what it holds is translated as it was.
LEMMA CacheKept ==
    ASSUME CacheInv, cr3' = cr3, tlb' \subseteq tlb,
           user' \subseteq ((DOMAIN page_dir') \X PDI) \cup ((DOMAIN page_table') \X PTI),
           \A e \in tlb' : /\ Translate(cr3, e[1])' = Translate(cr3, e[1])
                           /\ UserMay(cr3, e[1])' = UserMay(cr3, e[1])
    PROVE  CacheInv'
<1>1. tlb' \subseteq (VADDRS \cup UserPages) \X Frame \X BOOLEAN
  BY DEF CacheInv
<1>2. TlbCoherent'
  BY DEF CacheInv, TlbCoherent
<1> QED BY <1>1, <1>2 DEF CacheInv, UserPages, Frame

\* Only the variables of the invariant matter to it.
LEMMA StutterStep == VmmInv /\ UNCHANGED vmmVars => VmmInv'
<1> SUFFICES ASSUME VmmInv, UNCHANGED vmmVars PROVE VmmInv'
  OBVIOUS
<1>1. /\ UNCHANGED <<page_bitmap, held, reserved, page_dir, page_table>>
      /\ UNCHANGED <<cr3, user, tlb, data>>
  BY DEF vmmVars, pmmVars, pagingVars
<1>2. PagesInv'
  BY <1>1, PagesSame DEF VmmInv
<1>3. SpacesInv'
  BY ZenonT(30), <1>1, SpacesSame DEF VmmInv, SpacesInv
<1>4. CacheInv'
  BY Zenon, <1>1 DEF VmmInv, CacheInv, TlbCoherent, Translate, UserMay
<1> QED BY <1>2, <1>3, <1>4 DEF VmmInv

\* vmm_create_address_space keeps the invariant: the page of the new directory
\* was free, and its entries are those of the identity mapping.
LEMMA CreateStep == VmmInv /\ vmm_create_address_space => VmmInv'
<1> SUFFICES ASSUME VmmInv, vmm_create_address_space PROVE VmmInv'
  OBVIOUS
<1> DEFINE m == Min(page_bitmap)
           dir == AddrOf(m)
<1>1. /\ m \in page_bitmap /\ page_bitmap' = page_bitmap \ {m} /\ held' = held \cup {m}
  BY Zenon, AllocOne DEF vmm_create_address_space, VmmInv, PagesInv, PmmTypeOK
<1>2. /\ page_dir' = Put(page_dir, dir, NewDirectory)
      /\ user' = user \cup {<<dir, i>> : i \in
            {k \in 0..(KERNEL_TABLES - 1) : <<kernel_page_directory, k>> \in user}}
      /\ UNCHANGED <<reserved, page_table, cr3, tlb, data>>
  BY Zenon DEF vmm_create_address_space
<1> HIDE DEF m
<1>3. /\ m \in Page /\ dir \in Frame /\ PageOf(dir) = m
      /\ dir \notin DOMAIN page_dir /\ dir \notin DOMAIN page_table
      /\ dir # kernel_page_directory /\ dir # NOT_PRESENT
  BY <1>1, Fresh
<1>4. /\ PagesInv /\ SpacesInv /\ CacheInv
  BY DEF VmmInv
<1> HIDE DEF dir
<1>5. /\ DOMAIN page_dir' = DOMAIN page_dir \cup {dir} /\ page_dir'[dir] = NewDirectory
      /\ \A d \in DOMAIN page_dir : page_dir'[d] = page_dir[d]
  BY <1>2, <1>3 DEF Put
<1>6. PagesInv'
  <2>1. DirectoryPages' = DirectoryPages \cup {m}
    BY <1>3, <1>5 DEF DirectoryPages
  <2>2. TablePages' = TablePages \cup {} /\ data' = data \cup {} /\ reserved' = reserved
    BY <1>2 DEF TablePages
  <2>3. /\ page_bitmap' = page_bitmap \ ({m} \cup {} \cup {})
        /\ held' = held \cup {m} \cup {} \cup {}
    BY <1>1
  <2> QED BY Zenon, <1>1, <1>4, <2>1, <2>2, <2>3, PagesTaken
<1>7. SpacesInv'
  <2>1. OwnTables' = OwnTables /\ page_table' = page_table /\ cr3' = cr3
    BY <1>2 DEF OwnTables
  <2>2. ASSUME NEW i \in PDI
        PROVE  /\ NewDirectory[i] \in StaticTables \cup {NOT_PRESENT}
               /\ IF i < KERNEL_TABLES THEN NewDirectory[i] = kernel_page_table(i)
                  ELSE NewDirectory[i] \notin StaticTables
    <3>1. NOT_PRESENT \notin StaticTables
      BY Static, FramePresent
    <3>2. i < KERNEL_TABLES => i \in 0..(KERNEL_TABLES - 1)
      BY VmmAssumption DEF PDI
    <3>3. i < KERNEL_TABLES => page_dir[kernel_page_directory][i] = kernel_page_table(i)
      BY <1>4 DEF SpacesInv
    <3> QED BY <3>1, <3>2, <3>3, Static DEF NewDirectory
  <2>3. NewDirectory \in [PDI -> DOMAIN page_table \cup {NOT_PRESENT}]
    BY <1>4, <2>2 DEF NewDirectory, SpacesInv
  <2>4. ASSUME NEW d \in DOMAIN page_dir'
        PROVE  /\ page_dir'[d] \in [PDI -> DOMAIN page_table' \cup {NOT_PRESENT}]
               /\ \A i \in PDI : IF i < KERNEL_TABLES
                                 THEN page_dir'[d][i] = kernel_page_table(i)
                                 ELSE page_dir'[d][i] \notin StaticTables
    <3>1. CASE d = dir
      BY <1>5, <2>1, <2>2, <2>3, <3>1
    <3>2. CASE d \in DOMAIN page_dir
      BY <1>4, <1>5, <2>1, <3>2 DEF SpacesInv
    <3> QED BY <1>5, <3>1, <3>2
  <2>5. ASSUME NEW d \in DOMAIN page_dir', NEW e \in DOMAIN page_dir',
               NEW i \in PDI, NEW j \in PDI,
               page_dir'[d][i] \in OwnTables', page_dir'[d][i] = page_dir'[e][j]
        PROVE  d = e /\ i = j
    <3>1. \A k \in PDI : NewDirectory[k] \notin OwnTables
      BY <1>4, <2>2, FramePresent DEF OwnTables, SpacesInv
    <3>2. d # dir /\ e # dir
      BY <1>5, <2>1, <2>5, <3>1
    <3>3. /\ d \in DOMAIN page_dir /\ e \in DOMAIN page_dir
          /\ page_dir[d][i] \in OwnTables /\ page_dir[d][i] = page_dir[e][j]
      BY <1>5, <2>1, <2>5, <3>2
    <3> QED BY Zenon, <1>4, <3>3, OneOwner
  <2>6. /\ DOMAIN page_dir' \subseteq Frame /\ kernel_page_directory \in DOMAIN page_dir'
        /\ cr3' \in DOMAIN page_dir' /\ DOMAIN page_table' = DOMAIN page_table
    BY Zenon, <1>3, <1>4, <1>5, <2>1 DEF SpacesInv
  <2>7. \A d, e \in DOMAIN page_dir', i, j \in PDI :
          page_dir'[d][i] \in OwnTables' /\ page_dir'[d][i] = page_dir'[e][j] => d = e /\ i = j
    BY <2>5
  <2>8. /\ DOMAIN page_table' \subseteq Frame /\ StaticTables \subseteq DOMAIN page_table'
        /\ \A i \in 0..(KERNEL_TABLES - 1) :
             page_table'[kernel_page_table(i)] = [j \in PTI |-> (i * ENTRIES + j) * PAGE_SIZE]
        /\ \A t \in OwnTables' : page_table'[t] \in [PTI -> Frame \cup {NOT_PRESENT}]
    BY Zenon, <1>4, <2>1 DEF SpacesInv
  <2> QED BY Zenon, <2>4, <2>6, <2>7, <2>8 DEF SpacesInv
<1>8. CacheInv'
  <2>1. user' \subseteq ((DOMAIN page_dir') \X PDI) \cup ((DOMAIN page_table') \X PTI)
    <3>1. 0..(KERNEL_TABLES - 1) \subseteq PDI
      BY VmmAssumption DEF PDI
    <3>2. user \subseteq ((DOMAIN page_dir') \X PDI) \cup ((DOMAIN page_table') \X PTI)
      BY <1>2, <1>4, <1>5 DEF CacheInv
    <3>3. \A k \in 0..(KERNEL_TABLES - 1) : <<dir, k>> \in (DOMAIN page_dir') \X PDI
      BY <1>5, <3>1
    <3>4. \A u \in user' : u \in user \/ \E k \in 0..(KERNEL_TABLES - 1) : u = <<dir, k>>
      BY <1>2, Zenon
    <3>5. ASSUME NEW u \in user'
          PROVE  u \in ((DOMAIN page_dir') \X PDI) \cup ((DOMAIN page_table') \X PTI)
      <4>1. CASE u \in user
        BY Zenon, <3>2, <4>1
      <4>2. CASE u \notin user
        BY Zenon, <3>3, <3>4, <4>2
      <4> QED BY <4>1, <4>2
    <3> QED BY Zenon, <3>5
  <2>2. ASSUME NEW e \in tlb'
        PROVE  /\ Translate(cr3, e[1])' = Translate(cr3, e[1])
               /\ UserMay(cr3, e[1])' = UserMay(cr3, e[1])
    <3> DEFINE w == e[1]
               t == page_dir[cr3][page_dir_index(w)]
    <3>1. w \in VADDRS \cup UserPages /\ cr3 \in DOMAIN page_dir /\ cr3' = cr3
      BY Zenon, <1>2, <1>4 DEF CacheInv, SpacesInv
    <3>2. page_dir_index(w) \in PDI
      BY <3>1, Virtual
    <3>3. t \in DOMAIN page_table \cup {NOT_PRESENT}
      BY ZenonT(30), <1>4, <3>1, <3>2 DEF SpacesInv
    <3>4. cr3 # dir /\ t # dir
      BY <1>3, <3>1, <3>3
    <3> HIDE DEF w
    <3>5. \A k : /\ <<cr3, k>> \in user' <=> <<cr3, k>> \in user
                 /\ <<t, k>> \in user' <=> <<t, k>> \in user
      BY Zenon, <1>2, <3>4
    <3>6. page_dir'[cr3] = page_dir[cr3] /\ page_table' = page_table
      BY <1>2, <1>5, <3>1
    <3>7. Translate(cr3, w)' = Translate(cr3, w) /\ UserMay(cr3, w)' = UserMay(cr3, w)
      BY ZenonT(30), <3>1, <3>5, <3>6, SameTranslation
    <3> QED BY <3>7 DEF w
  <2> QED BY Zenon, <1>2, <1>4, <2>1, <2>2, CacheKept
<1> QED BY <1>6, <1>7, <1>8 DEF VmmInv

\* An entry of a directory's own table is set, in the current address space.
LEMMA OwnChanged ==
    ASSUME VmmInv, NEW v \in VADDRS, NEW phys \in Frame \cup {NOT_PRESENT},
           MapInTable(cr3, v, phys), cr3' = cr3, tlb' = vmm_flush_tlb_entry({v})
    PROVE  /\ DOMAIN page_dir' = DOMAIN page_dir /\ DOMAIN page_table' = DOMAIN page_table
           /\ SpacesInv' /\ CacheInv'
<1> DEFINE i == page_dir_index(v)
           j == page_table_index(v)
           t == page_dir[cr3][i]
<1>1. /\ t # NOT_PRESENT
      /\ page_dir' = [page_dir EXCEPT ![cr3][i] = t]
      /\ page_table' = Put(page_table, t, [page_table[t] EXCEPT ![j] = phys])
      /\ user' = user \ {<<t, j>>}
  BY DEF MapInTable, SetEntry
<1>2. SpacesInv /\ CacheInv /\ cr3 \in DOMAIN page_dir
  BY Zenon DEF VmmInv, SpacesInv
<1>3. t \in OwnTables /\ t \in DOMAIN page_table /\ t \notin StaticTables
  BY <1>1, <1>2, OwnEntry DEF OwnTables
<1>4. i \in PDI /\ j \in PTI
  BY Virtual
<1> HIDE DEF i, j
<1>5. /\ DOMAIN page_dir' = DOMAIN page_dir
      /\ \A d \in DOMAIN page_dir : page_dir'[d] = page_dir[d]
  <2>1. page_dir[cr3] \in [PDI -> DOMAIN page_table \cup {NOT_PRESENT}]
    BY Zenon, <1>2 DEF SpacesInv
  <2>2. [page_dir[cr3] EXCEPT ![i] = t] = page_dir[cr3]
    BY <1>4, <2>1
  <2> QED BY <1>1, <1>2, <2>2
<1> HIDE DEF t
<1>6. /\ DOMAIN page_table' = DOMAIN page_table
      /\ page_table'[t] = [page_table[t] EXCEPT ![j] = phys]
      /\ \A u \in DOMAIN page_table : u # t => page_table'[u] = page_table[u]
  BY Zenon, <1>1, <1>3 DEF Put
<1>7. SpacesInv'
  <2>1. OwnTables' = OwnTables /\ OwnTables \subseteq DOMAIN page_table
    BY <1>6 DEF OwnTables
  <2>2. \A k \in 0..(KERNEL_TABLES - 1) : page_table'[kernel_page_table(k)] = page_table[kernel_page_table(k)]
    <3>1. StaticTables \subseteq DOMAIN page_table
      BY Zenon, <1>2 DEF SpacesInv
    <3>2. \A k \in 0..(KERNEL_TABLES - 1) : kernel_page_table(k) \in StaticTables
      BY Zenon, Static
    <3> QED BY Zenon, <1>3, <1>6, <3>1, <3>2
  <2>3. \A u \in OwnTables' : page_table'[u] \in [PTI -> Frame \cup {NOT_PRESENT}]
    <3>1. page_table'[t] \in [PTI -> Frame \cup {NOT_PRESENT}]
      <4>1. page_table[t] \in [PTI -> Frame \cup {NOT_PRESENT}]
        BY ZenonT(30), <1>2, <1>3 DEF SpacesInv
      <4> QED BY Zenon, <1>6, <4>1
    <3> QED BY Zenon, <1>2, <1>6, <2>1, <3>1 DEF SpacesInv
  <2>4. \A d \in DOMAIN page_dir' :
          /\ page_dir'[d] \in [PDI -> DOMAIN page_table' \cup {NOT_PRESENT}]
          /\ \A k \in PDI : IF k < KERNEL_TABLES
                            THEN page_dir'[d][k] = kernel_page_table(k)
                            ELSE page_dir'[d][k] \notin StaticTables
    BY ZenonT(30), <1>2, <1>5, <1>6 DEF SpacesInv
  <2>5. \A d, e \in DOMAIN page_dir', k, l \in PDI :
          page_dir'[d][k] \in OwnTables' /\ page_dir'[d][k] = page_dir'[e][l]
            => d = e /\ k = l
    <3>1. \A d, e \in DOMAIN page_dir, k, l \in PDI :
            page_dir[d][k] \in OwnTables /\ page_dir[d][k] = page_dir[e][l]
              => d = e /\ k = l
      BY Zenon, <1>2 DEF SpacesInv
    <3> QED BY <1>5, <2>1, <3>1
  <2> QED BY Zenon, <1>2, <1>5, <1>6, <2>2, <2>3, <2>4, <2>5 DEF SpacesInv
<1>8. CacheInv'
  <2>1. user' \subseteq ((DOMAIN page_dir') \X PDI) \cup ((DOMAIN page_table') \X PTI)
    BY <1>1, <1>2, <1>5, <1>6 DEF CacheInv
  <2>2. ASSUME NEW e \in tlb'
        PROVE  /\ Translate(cr3, e[1])' = Translate(cr3, e[1])
               /\ UserMay(cr3, e[1])' = UserMay(cr3, e[1])
    <3> DEFINE w == e[1]
               k == page_dir_index(w)
               l == page_table_index(w)
               s == page_dir[cr3][k]
    <3>1. w \in VADDRS \cup UserPages /\ w # v
      BY Zenon, <1>2 DEF CacheInv, vmm_flush_tlb_entry
    <3>2. k \in PDI /\ l \in PTI
      BY <3>1, Virtual
    <3>3. s \in DOMAIN page_table \cup {NOT_PRESENT}
      BY Zenon, <1>2, <3>2, EntryOf
    <3>4. ~(k = i /\ l = j)
      BY <3>1, Virtual, SameIndices DEF i, j
    <3> HIDE DEF w, l, k
    <3>5. s = t => k = i
      BY Zenon, <1>2, <1>3, <1>4, <3>2 DEF SpacesInv, t
    <3>6. s = t => l # j
      BY <3>4, <3>5
    <3>7. s # NOT_PRESENT => page_table'[s][l] = page_table[s][l]
      <4>1. CASE s = t
        <5>1. page_table[t] \in [PTI -> Frame \cup {NOT_PRESENT}]
          BY ZenonT(30), <1>2, <1>3 DEF SpacesInv
        <5> QED BY ZenonT(30), <1>6, <3>2, <3>6, <4>1, <5>1
      <4>2. CASE s # t
        BY Zenon, <1>6, <3>3, <4>2
      <4> QED BY ZenonT(30), <4>1, <4>2
    <3>8. /\ <<cr3, k>> \in user' <=> <<cr3, k>> \in user
          /\ <<s, l>> \in user' <=> <<s, l>> \in user
      <4>1. cr3 # t
        BY <1>2, <1>3, DirectoryNoTable
      <4> QED BY <1>1, <3>6, <4>1
    <3>9. page_dir'[cr3][k] = page_dir[cr3][k] /\ cr3' = cr3
      BY Zenon, <1>2, <1>5
    <3>10. Translate(cr3, w)' = Translate(cr3, w) /\ UserMay(cr3, w)' = UserMay(cr3, w)
      BY Zenon, <3>7, <3>8, <3>9, SameTranslation DEF k, l
    <3> QED BY <3>10 DEF w
  <2>3. tlb' \subseteq tlb
    BY DEF vmm_flush_tlb_entry
  <2> QED BY Zenon, <1>2, <2>1, <2>2, <2>3, CacheKept
<1> QED BY <1>5, <1>6, <1>7, <1>8

\* A table is added to the current address space, on a page that was free.
LEMMA OwnAdded ==
    ASSUME VmmInv, NEW v \in VADDRS, NEW phys \in Frame, NEW k \in page_bitmap,
           page_dir[cr3][page_dir_index(v)] = NOT_PRESENT,
           SetEntry(cr3, AddrOf(k), v, phys, EmptyTable),
           cr3' = cr3, tlb' = vmm_flush_tlb_entry({v})
    PROVE  /\ DOMAIN page_dir' = DOMAIN page_dir
           /\ DOMAIN page_table' = DOMAIN page_table \cup {AddrOf(k)}
           /\ SpacesInv' /\ CacheInv'
<1> DEFINE i == page_dir_index(v)
           j == page_table_index(v)
           t == AddrOf(k)
<1>1. /\ page_dir' = [page_dir EXCEPT ![cr3][i] = t]
      /\ page_table' = Put(page_table, t, [EmptyTable EXCEPT ![j] = phys])
      /\ user' = user \ {<<t, j>>}
  BY DEF SetEntry
<1>2. SpacesInv /\ CacheInv /\ cr3 \in DOMAIN page_dir /\ page_dir[cr3][i] = NOT_PRESENT
  BY ZenonT(30) DEF VmmInv, SpacesInv
<1>3. /\ t \in Frame /\ t \notin DOMAIN page_table /\ t \notin StaticTables
      /\ t \notin DOMAIN page_dir /\ t # NOT_PRESENT
      /\ \A x : <<t, x>> \notin user
  BY ZenonT(30), Fresh
<1>4. i \in PDI /\ j \in PTI /\ ~(i < KERNEL_TABLES)
  <2>1. i \in PDI /\ j \in PTI /\ i >= KERNEL_TABLES
    BY Zenon, Virtual
  <2> QED BY <2>1, VmmAssumption DEF PDI
<1> HIDE DEF i, j, t
<1>5. /\ DOMAIN page_dir' = DOMAIN page_dir
      /\ page_dir'[cr3] = [page_dir[cr3] EXCEPT ![i] = t]
      /\ \A d \in DOMAIN page_dir : d # cr3 => page_dir'[d] = page_dir[d]
  BY <1>1, <1>2
<1>6. /\ DOMAIN page_table' = DOMAIN page_table \cup {t}
      /\ page_table'[t] = [EmptyTable EXCEPT ![j] = phys]
      /\ \A u \in DOMAIN page_table : page_table'[u] = page_table[u]
  BY <1>1, <1>3 DEF Put
<1>7. OwnTables' = OwnTables \cup {t}
  BY ZenonT(30), <1>3, <1>6 DEF OwnTables
<1>8. ASSUME NEW d \in DOMAIN page_dir, NEW x \in PDI
      PROVE  /\ page_dir[d][x] \in DOMAIN page_table \cup {NOT_PRESENT}
             /\ d = cr3 /\ x = i => page_dir'[d][x] = t
             /\ ~(d = cr3 /\ x = i) => page_dir'[d][x] = page_dir[d][x]
  <2>1. page_dir[d] \in [PDI -> DOMAIN page_table \cup {NOT_PRESENT}]
    BY ZenonT(30), <1>2 DEF SpacesInv
  <2> QED BY ZenonT(30), <1>4, <1>5, <2>1
<1>9. SpacesInv'
  <2>1. \A x \in 0..(KERNEL_TABLES - 1) :
            page_table'[kernel_page_table(x)] = page_table[kernel_page_table(x)]
    BY Zenon, <1>2, <1>6, Static DEF SpacesInv
  <2>2. \A u \in OwnTables' : page_table'[u] \in [PTI -> Frame \cup {NOT_PRESENT}]
    <3>1. page_table'[t] \in [PTI -> Frame \cup {NOT_PRESENT}]
      BY Zenon, <1>6 DEF EmptyTable
    <3>2. \A u \in OwnTables : page_table'[u] \in [PTI -> Frame \cup {NOT_PRESENT}]
      BY Zenon, <1>2, <1>6 DEF SpacesInv, OwnTables
    <3> QED BY ZenonT(30), <1>7, <3>1, <3>2
  <2>3. ASSUME NEW d \in DOMAIN page_dir'
        PROVE  /\ page_dir'[d] \in [PDI -> DOMAIN page_table' \cup {NOT_PRESENT}]
               /\ \A x \in PDI : IF x < KERNEL_TABLES
                                 THEN page_dir'[d][x] = kernel_page_table(x)
                                 ELSE page_dir'[d][x] \notin StaticTables
    <3>1. page_dir[d] \in [PDI -> DOMAIN page_table \cup {NOT_PRESENT}] /\ d \in DOMAIN page_dir
      BY Zenon, <1>2, <1>5 DEF SpacesInv
    <3>2. page_dir'[d] \in [PDI -> DOMAIN page_table' \cup {NOT_PRESENT}]
      BY ZenonT(30), <1>4, <1>5, <1>6, <3>1
    <3>3. \A x \in PDI : IF x < KERNEL_TABLES
                         THEN page_dir[d][x] = kernel_page_table(x)
                         ELSE page_dir[d][x] \notin StaticTables
      BY Zenon, <1>2, <3>1 DEF SpacesInv
    <3> QED BY ZenonT(30), <1>3, <1>4, <1>8, <3>1, <3>2, <3>3
  <2>4. ASSUME NEW d \in DOMAIN page_dir', NEW e \in DOMAIN page_dir',
               NEW x \in PDI, NEW y \in PDI,
               page_dir'[d][x] \in OwnTables', page_dir'[d][x] = page_dir'[e][y]
        PROVE  d = e /\ x = y
    <3>1. d \in DOMAIN page_dir /\ e \in DOMAIN page_dir
      BY ZenonT(30), <1>5
    <3>2. CASE page_dir'[d][x] = t
      <4>1. \A a \in DOMAIN page_dir, b \in PDI : page_dir'[a][b] = t => a = cr3 /\ b = i
        <5> SUFFICES ASSUME NEW a \in DOMAIN page_dir, NEW b \in PDI,
                            page_dir'[a][b] = t, ~(a = cr3 /\ b = i)
                     PROVE  FALSE
          BY Zenon
        <5>1. t = page_dir[a][b] /\ page_dir[a][b] \in DOMAIN page_table \cup {NOT_PRESENT}
          BY Zenon, <1>8
        <5> QED BY Zenon, <1>3, <5>1
      <4>2. page_dir'[e][y] = t
        BY <2>4, <3>2
      <4> QED BY ZenonT(30), <3>1, <3>2, <4>1, <4>2
    <3>3. CASE page_dir'[d][x] # t
      <4>1. page_dir'[d][x] = page_dir[d][x] /\ page_dir'[e][y] = page_dir[e][y]
        BY ZenonT(30), <1>8, <2>4, <3>1, <3>3
      <4>2. page_dir[d][x] \in OwnTables
        BY ZenonT(30), <1>7, <2>4, <3>3, <4>1
      <4>3. page_dir[d][x] = page_dir[e][y]
        BY ZenonT(30), <2>4, <4>1
      <4>4. \A a, c \in DOMAIN page_dir, b, z \in PDI :
              page_dir[a][b] \in OwnTables /\ page_dir[a][b] = page_dir[c][z] => a = c /\ b = z
        BY ZenonT(30), <1>2 DEF SpacesInv
      <4> QED BY Zenon, <3>1, <4>2, <4>3, <4>4
    <3> QED BY <3>2, <3>3
  <2>5. /\ DOMAIN page_dir' \subseteq Frame /\ DOMAIN page_table' \subseteq Frame
        /\ kernel_page_directory \in DOMAIN page_dir' /\ StaticTables \subseteq DOMAIN page_table'
        /\ cr3' \in DOMAIN page_dir'
    BY Zenon, <1>2, <1>3, <1>5, <1>6 DEF SpacesInv
  <2>6. \A x \in 0..(KERNEL_TABLES - 1) :
          page_table'[kernel_page_table(x)] = [y \in PTI |-> (x * ENTRIES + y) * PAGE_SIZE]
    BY Zenon, <1>2, <2>1 DEF SpacesInv
  <2> QED BY Zenon, <2>2, <2>3, <2>4, <2>5, <2>6 DEF SpacesInv
<1>10. CacheInv'
  <2>1. user' \subseteq ((DOMAIN page_dir') \X PDI) \cup ((DOMAIN page_table') \X PTI)
    BY ZenonT(30), <1>1, <1>2, <1>5, <1>6 DEF CacheInv
  <2>2. ASSUME NEW e \in tlb'
        PROVE  /\ Translate(cr3, e[1])' = Translate(cr3, e[1])
               /\ UserMay(cr3, e[1])' = UserMay(cr3, e[1])
    <3> DEFINE w == e[1]
               x == page_dir_index(w)
    <3>1. /\ w \in VADDRS \cup UserPages /\ Translate(cr3, w) = e[2] /\ e[2] \in Frame
      BY Zenon, <1>2 DEF CacheInv, vmm_flush_tlb_entry, TlbCoherent
    <3>2. x \in PDI
      BY Zenon, <3>1, Virtual
    <3>3. page_dir[cr3][x] # NOT_PRESENT
      BY ZenonT(30), <3>1, FramePresent DEF Translate
    <3>4. x # i
      BY Zenon, <1>2, <3>3
    <3>5. page_dir[cr3][x] \in DOMAIN page_table /\ page_dir'[cr3][x] = page_dir[cr3][x]
      BY Zenon, <1>2, <1>8, <3>2, <3>3, <3>4
    <3>6. user' = user
      <4>1. <<t, j>> \notin user
        BY ZenonT(30), <1>3
      <4> QED BY <1>1, <4>1
    <3>7. page_table'[page_dir[cr3][x]] = page_table[page_dir[cr3][x]]
      BY ZenonT(30), <1>6, <3>5
    <3> HIDE DEF w
    <3>8. Translate(cr3, w)' = Translate(cr3, w) /\ UserMay(cr3, w)' = UserMay(cr3, w)
      BY Zenon, <3>5, <3>6, <3>7, SameTranslation
    <3> QED BY <3>8 DEF w
  <2>3. tlb' \subseteq tlb
    BY DEF vmm_flush_tlb_entry
  <2> QED BY ZenonT(30), <1>2, <2>1, <2>2, <2>3, CacheKept
<1> QED BY Zenon, <1>5, <1>6, <1>9, <1>10 DEF t

\* vmm_alloc_map_page keeps the invariant, with and without a new table.
LEMMA AllocMapStep ==
    ASSUME VmmInv, NEW v \in VADDRS, vmm_alloc_map_page(v)
    PROVE  VmmInv'
<1>1. PagesInv /\ page_bitmap \subseteq Page
  BY DEF VmmInv, PagesInv, PmmTypeOK
<1>2. /\ data' = data \cup {Min(page_bitmap)} /\ tlb' = vmm_flush_tlb_entry({v})
      /\ reserved' = reserved /\ cr3' = cr3
  BY DEF vmm_alloc_map_page
<1>3. CASE pmm_alloc_page(1) /\ MapInTable(cr3, v, AddrOf(Min(page_bitmap)))
  <2> DEFINE m == Min(page_bitmap)
  <2>1. /\ m \in page_bitmap /\ page_bitmap' = page_bitmap \ {m} /\ held' = held \cup {m}
    BY <1>1, <1>3, AllocOne
  <2>2. AddrOf(m) \in Frame \cup {NOT_PRESENT} /\ MapInTable(cr3, v, AddrOf(m))
    BY Zenon, <1>3, <2>1, Fresh
  <2>3. data' = data \cup {m}
    BY <1>2
  <2> HIDE DEF m
  <2>4. /\ DOMAIN page_dir' = DOMAIN page_dir /\ DOMAIN page_table' = DOMAIN page_table
        /\ SpacesInv' /\ CacheInv'
    BY ZenonT(30), <1>2, <2>2, OwnChanged
  <2>5. PagesInv'
    <3>1. DirectoryPages' = DirectoryPages \cup {} /\ TablePages' = TablePages \cup {}
      BY <2>4 DEF DirectoryPages, TablePages
    <3>2. /\ page_bitmap' = page_bitmap \ ({} \cup {} \cup {m})
          /\ held' = held \cup {} \cup {} \cup {m}
      BY <2>1
    <3>3. {} \cup {} \cup {m} \subseteq page_bitmap
      BY Zenon, <2>1
    <3> QED BY Zenon, <1>1, <1>2, <2>3, <3>1, <3>2, <3>3, PagesTaken
  <2> QED BY <2>4, <2>5 DEF VmmInv
<1>4. CASE /\ page_dir[cr3][page_dir_index(v)] = NOT_PRESENT
           /\ pmm_alloc_page(2)
           /\ SetEntry(cr3, AddrOf(Max(Lowest(2))), v, AddrOf(Min(page_bitmap)), EmptyTable)
  <2> DEFINE m == Min(page_bitmap)
             k == Max(Lowest(2))
  <2>1. /\ m \in page_bitmap /\ k \in page_bitmap /\ m # k
        /\ page_bitmap' = page_bitmap \ {m, k} /\ held' = held \cup {m, k}
    BY <1>1, <1>4, AllocTwo
  <2>2. data' = data \cup {m} /\ SetEntry(cr3, AddrOf(k), v, AddrOf(m), EmptyTable)
    BY <1>2, <1>4
  <2> HIDE DEF m, k
  <2>3. AddrOf(m) \in Frame
    BY Zenon, <2>1, Fresh
  <2>4. /\ DOMAIN page_dir' = DOMAIN page_dir
        /\ DOMAIN page_table' = DOMAIN page_table \cup {AddrOf(k)}
        /\ SpacesInv' /\ CacheInv'
    BY Zenon, <1>2, <1>4, <2>1, <2>2, <2>3, OwnAdded
  <2>5. PagesInv'
    <3>1. PageOf(AddrOf(k)) = k /\ AddrOf(k) \notin StaticTables
      BY Zenon, <2>1, Fresh
    <3>2. DirectoryPages' = DirectoryPages \cup {} /\ TablePages' = TablePages \cup {k}
      BY <2>4, <3>1 DEF DirectoryPages, TablePages
    <3>3. /\ page_bitmap' = page_bitmap \ ({} \cup {k} \cup {m})
          /\ held' = held \cup {} \cup {k} \cup {m}
      BY <2>1
    <3>4. /\ {} \cup {k} \cup {m} \subseteq page_bitmap
          /\ {} \cap {k} = {} /\ {} \cap {m} = {} /\ {k} \cap {m} = {}
      BY <2>1
    <3> QED BY Zenon, <1>1, <1>2, <2>2, <3>2, <3>3, <3>4, PagesTaken
  <2> QED BY <2>4, <2>5 DEF VmmInv
<1> QED BY <1>3, <1>4 DEF vmm_alloc_map_page

\* When the table cannot be had, the bitmap is as it was.
LEMMA MapFailedStep ==
    ASSUME VmmInv, NEW v \in VADDRS, MapFailed(v)
    PROVE  VmmInv'
<1>1. page_bitmap' = page_bitmap
  BY DEF MapFailed, ClearBits, Lowest
<1>2. UNCHANGED vmmVars
  BY <1>1 DEF MapFailed, vmmVars, pmmVars, pagingVars
<1> QED BY <1>2, StutterStep

\* vmm_unmap_page keeps the invariant: it forgets the translation.
LEMMA UnmapStep ==
    ASSUME VmmInv, NEW v \in VADDRS, vmm_unmap_page(v)
    PROVE  VmmInv'
<1>1. /\ DOMAIN page_dir' = DOMAIN page_dir /\ DOMAIN page_table' = DOMAIN page_table
      /\ SpacesInv' /\ CacheInv'
  BY OwnChanged DEF vmm_unmap_page
<1>2. PagesInv'
  BY <1>1, PagesSame DEF VmmInv, vmm_unmap_page, pmmVars
<1> QED BY <1>1, <1>2 DEF VmmInv

\* A stack page, mapped where the identity mapping has it already, changes no
\* translation.
LEMMA AllocStackStep ==
    ASSUME VmmInv, NEW d \in DOMAIN page_dir, AllocStack(d)
    PROVE  VmmInv'
<1> DEFINE p == Min(page_bitmap)
           a == AddrOf(p)
           i == page_dir_index(a)
           j == page_table_index(a)
           t == page_dir[d][i]
<1>1. PagesInv /\ SpacesInv /\ CacheInv /\ page_bitmap \subseteq Page
  BY DEF VmmInv, PagesInv, PmmTypeOK
<1>2. /\ p \in page_bitmap /\ page_bitmap' = page_bitmap \ {p} /\ held' = held \cup {p}
  BY <1>1, AllocOne DEF AllocStack
<1>3. /\ page_dir' = [page_dir EXCEPT ![d][i] = t]
      /\ page_table' = Put(page_table, t, [page_table[t] EXCEPT ![j] = a])
      /\ user' = user \ {<<t, j>>}
      /\ data' = data \cup {p} /\ tlb' = {} /\ reserved' = reserved /\ cr3' = cr3
  BY Zenon DEF AllocStack, MapInTable, SetEntry
<1> HIDE DEF p
<1>4. a \in Frame
  BY <1>2, Fresh
<1> HIDE DEF a
<1>5. /\ i \in 0..(KERNEL_TABLES - 1) /\ i \in PDI /\ j \in PTI
      /\ t = kernel_page_table(i) /\ Translate(d, a) = a
  BY ZenonT(30), <1>1, <1>4, Identity
<1>6. t \in DOMAIN page_table /\ t # NOT_PRESENT
  BY ZenonT(30), <1>1, <1>5, Static, FramePresent DEF SpacesInv
<1>7. page_table[t][j] = a
  BY Zenon, <1>5, <1>6 DEF Translate
<1> HIDE DEF i, j
<1>8. /\ DOMAIN page_dir' = DOMAIN page_dir
      /\ \A e \in DOMAIN page_dir : page_dir'[e] = page_dir[e]
  <2>1. page_dir[d] \in [PDI -> DOMAIN page_table \cup {NOT_PRESENT}]
    BY <1>1 DEF SpacesInv
  <2>2. [page_dir[d] EXCEPT ![i] = t] = page_dir[d]
    BY <1>5, <2>1
  <2> QED BY <1>3, <2>2
<1>9. /\ DOMAIN page_table' = DOMAIN page_table
      /\ \A u \in DOMAIN page_table : page_table'[u] = page_table[u]
  <2>1. page_table[t] = [k \in PTI |-> (i * ENTRIES + k) * PAGE_SIZE]
    BY Zenon, <1>1, <1>5 DEF SpacesInv
  <2> HIDE DEF t
  <2>2. [page_table[t] EXCEPT ![j] = a] = page_table[t]
    BY <1>5, <1>7, <2>1
  <2> QED BY ZenonT(30), <1>3, <1>6, <2>2 DEF Put
<1>10. SpacesInv'
  BY Zenon, <1>1, <1>3, <1>8, <1>9, SpacesSame DEF SpacesInv
<1>11. CacheInv'
  <2>1. user' \subseteq ((DOMAIN page_dir') \X PDI) \cup ((DOMAIN page_table') \X PTI)
    BY <1>1, <1>3, <1>8, <1>9 DEF CacheInv
  <2> QED BY <1>3, <2>1 DEF CacheInv, TlbCoherent
<1>12. PagesInv'
  <2>1. DirectoryPages' = DirectoryPages \cup {} /\ TablePages' = TablePages \cup {}
    BY <1>8, <1>9 DEF DirectoryPages, TablePages
  <2>2. /\ page_bitmap' = page_bitmap \ ({} \cup {} \cup {p})
        /\ held' = held \cup {} \cup {} \cup {p}
    BY <1>2
  <2> QED BY ZenonT(30), <1>1, <1>2, <1>3, <2>1, <2>2, PagesTaken
<1> QED BY <1>10, <1>11, <1>12 DEF VmmInv

\* vmm_mark_user_range opens pages of the identity mapping, and forgets them.
LEMMA MarkUserStep ==
    ASSUME VmmInv, vmm_mark_user_range
    PROVE  VmmInv'
<1> DEFINE pages == {a \in UserPages : page_dir[cr3][page_dir_index(a)] # NOT_PRESENT}
<1>1. PagesInv /\ SpacesInv /\ CacheInv /\ cr3 \in DOMAIN page_dir
  BY Zenon DEF VmmInv, SpacesInv
<1>2. /\ user' = user
            \cup {<<cr3, page_dir_index(a)>> : a \in pages}
            \cup {<<page_dir[cr3][page_dir_index(a)], page_table_index(a)>> : a \in pages}
      /\ tlb' = vmm_flush_tlb_entry(pages)
      /\ UNCHANGED <<page_bitmap, held, reserved, page_dir, page_table, cr3, data>>
  BY ZenonT(30) DEF vmm_mark_user_range, pmmVars, pagingVars
<1>3. ASSUME NEW a \in UserPages
      PROVE  /\ page_dir_index(a) \in PDI /\ page_dir_index(a) < KERNEL_TABLES
             /\ page_table_index(a) \in PTI
             /\ page_dir[cr3][page_dir_index(a)] \in StaticTables
             /\ page_dir[cr3][page_dir_index(a)] # NOT_PRESENT
  <2>1. a \in Frame /\ page_dir_index(a) < KERNEL_TABLES
    BY Virtual
  <2> QED BY <1>1, <2>1, Identity, Static, FramePresent
<1>4. pages = UserPages
  BY <1>3
<1> HIDE DEF pages
<1>5. ASSUME NEW u \in user'
      PROVE  \/ u \in user
             \/ \E a \in UserPages : u = <<cr3, page_dir_index(a)>>
             \/ \E a \in UserPages :
                   u = <<page_dir[cr3][page_dir_index(a)], page_table_index(a)>>
  BY <1>2, <1>4, Zenon
<1>6. user \subseteq user'
  BY <1>2
<1>7. user' \subseteq ((DOMAIN page_dir') \X PDI) \cup ((DOMAIN page_table') \X PTI)
  <2> SUFFICES ASSUME NEW u \in user'
               PROVE  u \in ((DOMAIN page_dir) \X PDI) \cup ((DOMAIN page_table) \X PTI)
    BY <1>2
  <2>1. CASE u \in user
    BY <1>1, <2>1 DEF CacheInv
  <2>2. CASE \E a \in UserPages : u = <<cr3, page_dir_index(a)>>
    BY <1>1, <1>3, <2>2
  <2>3. CASE \E a \in UserPages :
                   u = <<page_dir[cr3][page_dir_index(a)], page_table_index(a)>>
    <3>1. StaticTables \subseteq DOMAIN page_table
      BY Zenon, <1>1 DEF SpacesInv
    <3>2. PICK a \in UserPages :
                 u = <<page_dir[cr3][page_dir_index(a)], page_table_index(a)>>
      BY Zenon, <2>3
    <3>3. page_dir[cr3][page_dir_index(a)] \in DOMAIN page_table /\ page_table_index(a) \in PTI
      BY Zenon, <1>3, <3>1
    <3> QED BY ONLY <3>2, <3>3
  <2> QED BY ZenonT(30), <1>5, <2>1, <2>2, <2>3
<1>8. ASSUME NEW e \in tlb'
      PROVE  /\ Translate(cr3, e[1])' = Translate(cr3, e[1])
             /\ UserMay(cr3, e[1])' = UserMay(cr3, e[1])
  <2> DEFINE w == e[1]
             k == page_dir_index(w)
             t == page_dir[cr3][k]
  <2>1. w \in VADDRS
    BY Zenon, <1>1, <1>2, <1>4 DEF vmm_flush_tlb_entry, CacheInv
  <2>2. k \in PDI /\ ~(k < KERNEL_TABLES)
    BY <2>1, Virtual, VmmAssumption DEF PDI
  <2>3. t \notin StaticTables /\ t # cr3
    <3>1. t = NOT_PRESENT \/ t \in OwnTables
      BY <1>1, <2>1, OwnEntry
    <3>2. NOT_PRESENT # cr3 /\ NOT_PRESENT \notin StaticTables
      BY ZenonT(30), <1>1, Static, FramePresent DEF SpacesInv
    <3> QED BY <1>1, <3>1, <3>2, DirectoryNoTable DEF OwnTables
  <2> HIDE DEF w, k
  <2>4. <<cr3, k>> \in user' <=> <<cr3, k>> \in user
    <3>1. cr3 \notin StaticTables
      BY Zenon, <1>1, DirectoryNoTable DEF SpacesInv
    <3> QED BY ZenonT(30), <1>3, <1>5, <1>6, <2>2, <3>1
  <2>5. \A l : <<t, l>> \in user' <=> <<t, l>> \in user
    BY ZenonT(30), <1>3, <1>5, <1>6, <2>3
  <2>6. Translate(cr3, w)' = Translate(cr3, w) /\ UserMay(cr3, w)' = UserMay(cr3, w)
    BY ZenonT(30), <1>2, <2>4, <2>5, SameTranslation DEF k
  <2> QED BY <2>6 DEF w
<1>9. CacheInv'
  <2>1. tlb' \subseteq tlb
    BY <1>2 DEF vmm_flush_tlb_entry
  <2> QED BY ZenonT(30), <1>1, <1>2, <1>7, <1>8, <2>1, CacheKept
<1>10. PagesInv' /\ SpacesInv'
  BY Zenon, <1>1, <1>2, PagesSame, SpacesSame
<1> QED BY <1>9, <1>10 DEF VmmInv

\* hal_free_page gives back a data page, or ignores the address.
LEMMA FreeStep ==
    ASSUME VmmInv, FreePage
    PROVE  VmmInv'
<1>1. PagesInv /\ SpacesInv /\ CacheInv
  BY DEF VmmInv
<1>2. PICK addr \in {AddrOf(p) : p \in data} \cup {a \in ADDRESSES : ~Managed(a)} :
          pmm_free_page(addr) /\ data' = data \ {PageOf(addr)}
  BY DEF FreePage
<1>3. UNCHANGED <<reserved, page_dir, page_table, cr3, user, tlb>>
  BY DEF FreePage, pagingVars
<1>4. SpacesInv' /\ CacheInv'
  <2>1. SpacesInv'
    BY ZenonT(30), <1>1, <1>3, SpacesSame DEF SpacesInv
  <2>2. CacheInv'
    BY Zenon, <1>1, <1>3 DEF CacheInv, TlbCoherent, Translate, UserMay
  <2> QED BY <2>1, <2>2
<1>5. PagesInv'
  <2>1. CASE ~Managed(addr)
    <3>1. addr \in Int
      <4>1. \A p \in data : Managed(AddrOf(p))
        BY <1>1, FrameOfPage DEF PagesInv
      <4>2. addr \in ADDRESSES
        BY <1>2, <2>1, <4>1, Zenon
      <4> QED BY <4>2, PmmAssumption
    <3>2. PageOf(addr) \notin Page
      BY <2>1, <3>1, Unmanaged
    <3>3. UNCHANGED <<page_bitmap, held>> /\ data' = data
      BY <1>1, <1>2, <2>1, <3>2 DEF pmm_free_page, PagesInv
    <3> QED BY <1>1, <1>3, <3>3, PagesSame
  <2>2. CASE Managed(addr)
    <3>1. PICK p \in data : addr = AddrOf(p)
      BY <1>2, <2>2
    <3>2. p \in Page /\ PageOf(addr) = p /\ p \in held
      BY <1>1, <3>1, FrameOfPage DEF PagesInv
    <3>3. page_bitmap' = page_bitmap \cup {p} /\ held' = held \ {p} /\ data' = data \ {p}
      BY <1>2, <2>2, <3>2 DEF pmm_free_page
    <3>4. DirectoryPages' = DirectoryPages /\ TablePages' = TablePages
      BY Zenon, <1>3 DEF DirectoryPages, TablePages
    <3>5. p \notin DirectoryPages /\ p \notin TablePages
      BY <1>1, <3>1 DEF PagesInv
    <3>6. (held = DirectoryPages \cup TablePages \cup data)'
      BY <1>1, <3>3, <3>4, <3>5 DEF PagesInv
    <3>7. (held \cap page_bitmap = {})' /\ PmmTypeOK' /\ data' \subseteq Page
      BY <1>1, <1>3, <3>2, <3>3 DEF PagesInv, PmmTypeOK
    <3>8. /\ (DirectoryPages \cap TablePages = {})'
          /\ ((DirectoryPages \cup TablePages) \cap data = {})'
      BY <1>1, <3>3, <3>4 DEF PagesInv
    <3>9. \A i \in page_bitmap' \cup held',
             r \in reserved' \cup {<<MEMORY_START_ADDR, kernel_end>>} : ~Covered(i, r)
      BY <1>1, <1>3, <3>2, <3>3 DEF PagesInv
    <3> QED BY Zenon, <3>6, <3>7, <3>8, <3>9 DEF PagesInv, Covered
  <2> QED BY <2>1, <2>2
<1> QED BY <1>4, <1>5 DEF VmmInv

\* pmm_mark_reserved leaves no page free that lies inside the range.
LEMMA ReserveStep ==
    ASSUME VmmInv, ReserveMemory
    PROVE  VmmInv'
<1>1. PagesInv /\ SpacesInv /\ CacheInv
  BY DEF VmmInv
<1>2. PICK start \in ADDRESSES, end \in ADDRESSES :
          /\ start < end
          /\ \A i \in held : AddrOf(i) >= end \/ AddrOf(i) + PAGE_SIZE <= start
          /\ pmm_mark_reserved(start, end)
          /\ reserved' = reserved \cup {<<start, end>>}
  BY DEF ReserveMemory, Reserve
<1>3. UNCHANGED <<held, page_dir, page_table, cr3, user, tlb, data>>
  BY DEF ReserveMemory, Reserve, pagingVars
<1>4. SpacesInv' /\ CacheInv'
  <2>1. SpacesInv'
    BY ZenonT(30), <1>1, <1>3, SpacesSame DEF SpacesInv
  <2>2. CacheInv'
    BY Zenon, <1>1, <1>3 DEF CacheInv, TlbCoherent, Translate, UserMay
  <2> QED BY <2>1, <2>2
<1>5. start \in Int /\ end \in Int /\ PAGE_SIZE \in Nat \ {0}
      /\ MEMORY_START_ADDR \in Int /\ MEMORY_END_ADDR \in Int
  BY PmmAssumption
<1>6. page_bitmap' \subseteq page_bitmap
  BY <1>2 DEF pmm_mark_reserved, ClearBits
<1>7. ASSUME NEW i \in held PROVE ~Covered(i, <<start, end>>)
  <2>1. AddrOf(i) \in Int
    BY <1>1, FrameOfPage DEF PagesInv, PmmTypeOK
  <2> QED BY <1>2, <1>5, <2>1 DEF Covered
<1>8. ASSUME NEW i \in page_bitmap' PROVE ~Covered(i, <<start, end>>)
  <2>1. /\ i \in Page /\ i \in Nat /\ AddrOf(i) \in Int /\ AddrOf(i + 1) \in Int
        /\ MEMORY_START_ADDR <= AddrOf(i) /\ AddrOf(i + 1) <= MEMORY_END_ADDR
        /\ AddrOf(i) + PAGE_SIZE = AddrOf(i + 1)
    <3>1. i \in Page /\ i \in Nat
      BY <1>1, <1>6, FrameOfPage DEF PagesInv, PmmTypeOK
    <3> QED BY <3>1, FrameOfPage, NextAddr, Rounding
  <2> SUFFICES ASSUME start < AddrOf(i + 1), AddrOf(i + 1) <= end PROVE FALSE
    BY <2>1 DEF Covered
  <2> DEFINE lo == Max({start, MEMORY_START_ADDR})
             hi == Min({end, MEMORY_END_ADDR})
  <2>2. lo \in {start, MEMORY_START_ADDR} /\ hi \in {end, MEMORY_END_ADDR}
    <3>1. start <= MEMORY_START_ADDR \/ MEMORY_START_ADDR <= start
      BY <1>5
    <3>2. end <= MEMORY_END_ADDR \/ MEMORY_END_ADDR <= end
      BY <1>5
    <3> QED BY <1>5, <3>1, <3>2 DEF Max, Min
  <2> HIDE DEF lo, hi
  <2>3. lo \in Int /\ hi \in Int /\ lo < AddrOf(i + 1) /\ AddrOf(i + 1) <= hi
    BY <1>5, <2>1, <2>2
  <2>4. PageOf(lo) <= i
    <3>1. i + 1 \in Int /\ ~(AddrOf(i + 1) <= lo)
      BY <2>1, <2>3
    <3>2. PageOf(lo) \in Int /\ ~(i + 1 <= PageOf(lo))
      BY <2>3, <3>1, Rounding
    <3> QED BY <2>1, <3>2
  <2>5. i < PageOf(hi)
    <3>1. i + 1 \in Int
      BY <2>1
    <3>2. i + 1 <= PageOf(hi) /\ PageOf(hi) \in Int
      BY <2>3, <3>1, Rounding
    <3> QED BY <2>1, <3>2
  <2>6. ~(end < MEMORY_START_ADDR \/ start >= MEMORY_END_ADDR)
    BY <1>5, <2>1
  <2>7. page_bitmap' = ClearBits({k \in Page : PageOf(lo) <= k /\ k < PageOf(hi)})
    BY <1>2, <2>6 DEF pmm_mark_reserved, lo, hi
  <2> QED BY <2>1, <2>4, <2>5, <2>7 DEF ClearBits
<1>9. PagesInv'
  <2>1. DirectoryPages' = DirectoryPages /\ TablePages' = TablePages
    BY Zenon, <1>3 DEF DirectoryPages, TablePages
  <2>2. PmmTypeOK' /\ (held \cap page_bitmap = {})' /\ data' \subseteq Page
    BY <1>1, <1>2, <1>3, <1>6 DEF PagesInv, PmmTypeOK
  <2>3. \A i \in page_bitmap' \cup held',
           r \in reserved' \cup {<<MEMORY_START_ADDR, kernel_end>>} : ~Covered(i, r)
    <3>1. \A i \in page_bitmap' \cup held' : ~Covered(i, <<start, end>>)
      BY <1>3, <1>7, <1>8
    <3>2. \A i \in page_bitmap' \cup held',
             r \in reserved \cup {<<MEMORY_START_ADDR, kernel_end>>} : ~Covered(i, r)
      BY <1>1, <1>3, <1>6 DEF PagesInv
    <3> QED BY <1>2, <3>1, <3>2
  <2> QED BY <1>1, <1>3, <2>1, <2>2, <2>3 DEF PagesInv, Covered
<1> QED BY <1>4, <1>9 DEF VmmInv

\* Loading CR3 empties the TLB.
LEMMA SwitchStep ==
    ASSUME VmmInv, NEW d \in DOMAIN page_dir, vmm_switch_directory(d)
    PROVE  VmmInv'
<1>1. /\ cr3' = d /\ tlb' = {} /\ PagesInv /\ SpacesInv /\ CacheInv
      /\ UNCHANGED <<page_bitmap, held, reserved, page_dir, page_table, user, data>>
  BY DEF vmm_switch_directory, VmmInv, pmmVars, pagingVars
<1>2. PagesInv'
  BY <1>1, PagesSame
<1>3. SpacesInv'
  BY <1>1, SpacesSame
<1>4. CacheInv'
  BY Zenon, <1>1 DEF CacheInv, TlbCoherent
<1> QED BY <1>2, <1>3, <1>4 DEF VmmInv

\* What the processor caches is what the current tables say.
LEMMA WalkStep ==
    ASSUME VmmInv, NEW v \in VADDRS \cup UserPages, Walk(v)
    PROVE  VmmInv'
<1> DEFINE p == Translate(cr3, v)
           b == UserMay(cr3, v)
<1>1. /\ PagesInv /\ SpacesInv /\ CacheInv /\ cr3 \in DOMAIN page_dir
      /\ p # NOT_PRESENT /\ tlb' = tlb \cup {<<v, p, b>>}
      /\ UNCHANGED <<page_bitmap, held, reserved, page_dir, page_table, cr3, user, data>>
  BY Zenon DEF Walk, VmmInv, SpacesInv, pmmVars, pagingVars
<1>2. p \in Frame
  <2>1. CASE v \in VADDRS
    BY <1>1, <2>1, OwnEntry
  <2>2. CASE v \in UserPages
    BY ZenonT(30), <1>1, <2>2, Virtual, Identity
  <2> QED BY <2>1, <2>2
<1>3. b \in BOOLEAN
  BY ZenonT(30) DEF UserMay
<1>4. \A w : Translate(cr3, w)' = Translate(cr3, w) /\ UserMay(cr3, w)' = UserMay(cr3, w)
  BY Zenon, <1>1 DEF Translate, UserMay
<1> HIDE DEF p, b
<1>5. TlbCoherent'
  <2>1. ASSUME NEW e \in tlb'
        PROVE  Translate(cr3, e[1]) = e[2] /\ UserMay(cr3, e[1]) = e[3]
    <3>1. CASE e \in tlb
      BY Zenon, <1>1, <3>1 DEF CacheInv, TlbCoherent
    <3>2. CASE e = <<v, p, b>>
      BY <3>2 DEF p, b
    <3> QED BY <1>1, <3>1, <3>2
  <2> QED BY <1>4, <2>1 DEF TlbCoherent
<1>6. CacheInv'
  <2>1. tlb' \subseteq (VADDRS \cup UserPages) \X Frame \X BOOLEAN
    <3>1. tlb \subseteq (VADDRS \cup UserPages) \X Frame \X BOOLEAN
      BY Zenon, <1>1 DEF CacheInv
    <3> QED BY <1>1, <1>2, <1>3, <3>1
  <2> QED BY Zenon, <1>1, <1>5, <2>1 DEF CacheInv
<1>7. PagesInv' /\ SpacesInv'
  BY <1>1, PagesSame, SpacesSame
<1> QED BY <1>6, <1>7 DEF VmmInv

-----------------------------------------------------------------------------
(* The invariant is inductive.                                             *)

\* Every step of vmm.c and of the processor keeps the invariant.
LEMMA VmmInvStep == VmmInv /\ [VmmNext]_vmmVars => VmmInv'
<1> SUFFICES ASSUME VmmInv, [VmmNext]_vmmVars PROVE VmmInv'
  OBVIOUS
<1>1. CASE vmm_create_address_space
  BY <1>1, CreateStep
<1>2. CASE FreePage
  BY <1>2, FreeStep
<1>3. CASE ReserveMemory
  BY <1>3, ReserveStep
<1>4. CASE vmm_mark_user_range
  BY <1>4, MarkUserStep
<1>5. ASSUME NEW v \in VADDRS,
             vmm_alloc_map_page(v) \/ MapFailed(v) \/ vmm_unmap_page(v)
      PROVE  VmmInv'
  BY <1>5, AllocMapStep, MapFailedStep, UnmapStep
<1>6. ASSUME NEW v \in VADDRS \cup UserPages, Walk(v) PROVE VmmInv'
  BY <1>6, WalkStep
<1>7. ASSUME NEW d \in DOMAIN page_dir, vmm_switch_directory(d) \/ AllocStack(d)
      PROVE  VmmInv'
  BY <1>7, SwitchStep, AllocStackStep
<1>8. CASE UNCHANGED vmmVars
  BY <1>8, StutterStep
<1> QED BY <1>1, <1>2, <1>3, <1>4, <1>5, <1>6, <1>7, <1>8 DEF VmmNext

\* The invariant holds in every state.
LEMMA VmmInvariant == VmmSpec => []VmmInv
  BY InitVmmInv, VmmInvStep, PTL DEF VmmSpec

\* A page serves one purpose, whatever is allocated, mapped, unmapped, freed
\* and reserved, in any order and until memory runs out.
THEOREM OnePurposeAlways == VmmSpec => []OnePurpose
<1>1. VmmInv => OnePurpose
  <2> SUFFICES ASSUME VmmInv PROVE OnePurpose
    OBVIOUS
  <2>1. PagesInv /\ SpacesInv /\ CacheInv
    BY DEF VmmInv
  <2>2. ASSUME NEW t \in DOMAIN page_table
        PROVE  page_table[t] \in [PTI -> IdentityFrames \cup {NOT_PRESENT}]
    <3>1. CASE t \in OwnTables
      <4>1. page_table[t] \in [PTI -> Frame \cup {NOT_PRESENT}]
        BY ZenonT(30), <2>1, <3>1 DEF SpacesInv
      <4> QED BY <4>1, FramesInIdentity
    <3>2. CASE t \in StaticTables
      <4>1. PICK i \in 0..(KERNEL_TABLES - 1) : t = kernel_page_table(i)
        BY ZenonT(30), <3>2 DEF StaticTables
      <4>2. page_table[t] = [j \in PTI |-> (i * ENTRIES + j) * PAGE_SIZE]
        BY Zenon, <2>1, <4>1 DEF SpacesInv
      <4>3. \A j \in PTI : (i * ENTRIES + j) * PAGE_SIZE \in IdentityFrames
        BY InIdentity
      <4> QED BY <4>2, <4>3
    <3> QED BY <3>1, <3>2 DEF OwnTables
  <2>3. VmmTypeOK
    BY Zenon, <2>1, <2>2 DEF VmmTypeOK, PagesInv, SpacesInv, CacheInv
  <2> QED BY <2>1, <2>3 DEF OnePurpose, PagesInv
<1> QED BY <1>1, VmmInvariant, PTL

\* A page that does not end below kernel_end begins there or above.
LEMMA AboveKernel ==
    ASSUME NEW i \in Page, ~Covered(i, <<MEMORY_START_ADDR, kernel_end>>)
    PROVE  AddrOf(i) \in Int /\ kernel_end <= AddrOf(i)
<1>1. i \in Int /\ AddrOf(i) \in Int /\ MEMORY_START_ADDR <= AddrOf(i)
  BY FrameOfPage
<1>2. PICK n \in 0..kernel_end : kernel_end = MEMORY_START_ADDR + n * PAGE_SIZE
  BY PmmAssumption
<1>3. n \in Int /\ kernel_end = AddrOf(n) /\ kernel_end \in Int
  BY <1>2, PmmAssumption DEF AddrOf
<1>4. ~(AddrOf(i + 1) <= kernel_end)
  BY <1>1, NextAddr, PmmAssumption DEF Covered
<1>5. ~(i + 1 <= PageOf(kernel_end)) /\ PageOf(kernel_end) = n
  BY <1>1, <1>3, <1>4, Rounding, PageOfAddr
<1>6. n <= PageOf(AddrOf(i))
  BY <1>1, <1>3, <1>5, PageOfAddr
<1> QED BY <1>1, <1>3, <1>6, Rounding

\* Memory that was reserved is never free or handed out again; nor is the kernel
\* image, if it ends by kernel_end.
THEOREM ReservedNotFreeAlways == VmmSpec => []ReservedNotFree
<1>1. VmmInv => ReservedNotFree
  <2> SUFFICES ASSUME VmmInv, NEW i \in page_bitmap \cup held,
                      \A r \in reserved \cup {<<MEMORY_START_ADDR, kernel_end>>} : ~Covered(i, r)
               PROVE  image_end <= kernel_end => AddrOf(i) >= image_end
    BY DEF VmmInv, PagesInv, ReservedNotFree
  <2>1. i \in Page
    BY DEF VmmInv, PagesInv, PmmTypeOK
  <2>2. AddrOf(i) \in Int /\ kernel_end <= AddrOf(i)
    BY <2>1, AboveKernel
  <2> QED BY <2>2, PmmAssumption
<1> QED BY <1>1, VmmInvariant, PTL

\* Address spaces share the kernel's tables only, and all of them map the
\* managed memory onto itself.
THEOREM SpacesApartAlways == VmmSpec => []SpacesApart
<1>1. VmmInv => SpacesApart
  <2> SUFFICES ASSUME VmmInv PROVE SpacesApart
    OBVIOUS
  <2>1. SpacesInv
    BY DEF VmmInv
  <2>2. ASSUME NEW d \in DOMAIN page_dir, NEW e \in DOMAIN page_dir,
               NEW i \in PDI, NEW j \in PDI,
               page_dir[d][i] # NOT_PRESENT, page_dir[d][i] = page_dir[e][j]
        PROVE  i = j /\ (d = e \/ i < KERNEL_TABLES)
    <3>1. \A k \in PDI : k < KERNEL_TABLES => k \in 0..(KERNEL_TABLES - 1)
      BY VmmAssumption DEF PDI
    <3>2. \A f \in DOMAIN page_dir, k \in PDI :
             IF k < KERNEL_TABLES THEN page_dir[f][k] = kernel_page_table(k)
                                  ELSE page_dir[f][k] \notin StaticTables
      BY Zenon, <2>1 DEF SpacesInv
    <3>3. CASE page_dir[d][i] \in StaticTables
      <4>1. i < KERNEL_TABLES /\ j < KERNEL_TABLES
        BY <2>2, <3>2, <3>3
      <4>2. kernel_page_table(i) = kernel_page_table(j)
        BY <2>2, <3>2, <4>1
      <4> QED BY <3>1, <4>1, <4>2, StaticApart
    <3>4. CASE page_dir[d][i] \notin StaticTables
      <4>1. page_dir[d][i] \in OwnTables
        BY Zenon, <2>1, <2>2, <3>4, EntryOf DEF OwnTables
      <4> QED BY Zenon, <2>1, <2>2, <4>1, OneOwner
    <3> QED BY Zenon, <3>3, <3>4
  <2>3. \A d \in DOMAIN page_dir, p \in Frame : Translate(d, p) = p
    BY <2>1, Identity
  <2>4. \A d, e \in DOMAIN page_dir, i, j \in PDI :
          page_dir[d][i] # NOT_PRESENT /\ page_dir[d][i] = page_dir[e][j]
            => i = j /\ (d = e \/ i < KERNEL_TABLES)
    BY ONLY <2>2
  <2> QED BY Zenon, <2>3, <2>4 DEF SpacesApart
<1> QED BY <1>1, VmmInvariant, PTL

\* The TLB never disagrees with the current tables.
THEOREM TlbCoherentAlways == VmmSpec => []TlbCoherent
<1>1. VmmInv => TlbCoherent
  BY DEF VmmInv, CacheInv
<1> QED BY <1>1, VmmInvariant, PTL

=============================================================================
