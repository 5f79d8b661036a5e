-------------------------------- MODULE Zones --------------------------------
(***************************************************************************)
(* The page allocator as the slab allocator, the pools and the physical     *)
(* memory manager see it: the free pages of each zone.  A call of the buddy *)
(* allocator is one step and takes any aligned run of free pages, which is  *)
(* what PageAllocator promises and Buddy implements.  Pages are numbered by *)
(* address / BUDDY_PAGE_SIZE.                                               *)
(***************************************************************************)
EXTENDS Integers, Sequences, FiniteSets, Functions

CONSTANTS
  BUDDY_PAGE_SIZE,
  BUDDY_MAX_ORDER,
  OrderPages,         \* OrderPages[k] is 1 << k
  ReclaimablePages    \* the pages buddy_init gives to RECLAIMABLE: none in
                      \* the code, which leaves slabs and pools without memory

Orders == 0..BUDDY_MAX_ORDER

ASSUME ZoneAssumption ==
  /\ BUDDY_PAGE_SIZE \in Nat \ {0} /\ BUDDY_MAX_ORDER \in Nat
  /\ OrderPages \in [Orders -> Nat \ {0}] /\ OrderPages[0] = 1
  /\ \A k \in Orders \ {0} : OrderPages[k] = 2 * OrderPages[k - 1]
  /\ ReclaimablePages \subseteq Nat

VARIABLES
  g_memory_start, g_memory_size,   \* the region, in bytes
  unmovable, reclaimable,          \* the free pages of the two zones
  damage                           \* history: what went wrong so far, "order"
                                   \* for a block freed with a wrong order and
                                   \* "divide" for a CPU stopped by a division
                                   \* by 0 with a page in its hands

zoneVars == <<g_memory_start, g_memory_size, unmovable, reclaimable, damage>>

PageOf(addr) == addr \div BUDDY_PAGE_SIZE
\* align is a power of two.
align_up(size, align) == LET n == size + align - 1 IN n - (n % align)
bytes_to_pages(bytes) == (bytes + BUDDY_PAGE_SIZE - 1) \div BUDDY_PAGE_SIZE

\* The pages of a region of size bytes from a page's first byte on; a last
\* page in part counts.
RegionPages(start, size) ==
  {PageOf(start) + i : i \in 0..(bytes_to_pages(size) - 1)}

ZonesInit ==
  /\ g_memory_start = 0 /\ g_memory_size = 0
  /\ unmovable = {} /\ reclaimable = {} /\ damage = {}

buddy_init(start, size) ==
  /\ g_memory_start' = start /\ g_memory_size' = size
  /\ unmovable' = RegionPages(start, size) \ ReclaimablePages
  /\ reclaimable' = RegionPages(start, size) \cap ReclaimablePages
  /\ UNCHANGED damage

\* The pages of the block of order k at page p.
Block(p, k) == p..(p + OrderPages[k] - 1)

\* Where a block of order k can be taken from the pages of a zone.  Blocks
\* are aligned relative to the start of the region.
Blocks(pages, k) ==
  {p \in pages : /\ (p - PageOf(g_memory_start)) % OrderPages[k] = 0
                 /\ Block(p, k) \subseteq pages}

TakeUnmovable(p) ==
  unmovable' = unmovable \ {p}
    /\ UNCHANGED <<g_memory_start, g_memory_size, reclaimable, damage>>
TakeReclaimable(p, k) ==
  reclaimable' = reclaimable \ Block(p, k)
    /\ UNCHANGED <<g_memory_start, g_memory_size, unmovable, damage>>

\* buddy_free_pages of all these pages: whatever is freed goes to UNMOVABLE.
FreePages(pages) ==
  unmovable' = unmovable \cup pages
    /\ UNCHANGED <<g_memory_start, g_memory_size, reclaimable, damage>>

\* List s with x unlinked.
Without(s, x) ==
  LET i == CHOOSE i \in DOMAIN s : s[i] = x IN
  IF x \in Range(s) THEN SubSeq(s, 1, i - 1) \o SubSeq(s, i + 1, Len(s)) ELSE s

\* f with value v at x, and without X.
Put(f, x, v) == [y \in DOMAIN f \cup {x} |-> IF y = x THEN v ELSE f[y]]
Drop(f, X) == [y \in DOMAIN f \ X |-> f[y]]

-----------------------------------------------------------------------------
(* Properties *)

\* Nothing went wrong so far.  Afterwards two owners may have a page in common,
\* and the free lists of the page allocator run through pages in use.
Sound == damage = {}
=============================================================================
