--------------------------------- MODULE Pmm ---------------------------------
(***************************************************************************)
(* The physical memory manager, kernel/mm/pmm.c: it picks the region the    *)
(* page allocator gets and lends frames with a counter of its own.  A frame *)
(* is known by its page.                                                    *)
(***************************************************************************)
EXTENDS Zones

CONSTANT MaxFrames    \* how many frames callers hold at a time
ASSUME PmmAssumption == MaxFrames \in Nat

FRAME_SIZE == BUDDY_PAGE_SIZE

VARIABLES
  g_pmm_total, g_pmm_free, g_buddy_initialized,
  mmap,      \* the boot loader's memory map, a sequence of entries [addr, len,
             \* type], type 1 meaning available
  frames     \* the frames callers hold

pmmVars == <<g_pmm_total, g_pmm_free, g_buddy_initialized, mmap, frames>>

PmmInit ==
  /\ g_pmm_total = 0 /\ g_pmm_free = 0 /\ g_buddy_initialized = FALSE
  /\ mmap = <<>> /\ frames = {}

Available(i) == mmap[i].type = 1 /\ mmap[i].len > 0

\* Mutant: the entry's type is not looked at.
LargestAnyType ==
  {i \in DOMAIN mmap : /\ mmap[i].len > 0
                       /\ \A j \in DOMAIN mmap : mmap[j].len <= mmap[i].len}

\* The available entries longest of all.
Largest ==
  {i \in DOMAIN mmap :
     Available(i) /\ \A j \in DOMAIN mmap : Available(j) => mmap[j].len <= mmap[i].len}

\* The scan over the map, summed up: the total of all entries, and the first
\* of the longest available ones for the page allocator.
pmm_init ==
  /\ g_pmm_total' = SumFunction([i \in DOMAIN mmap |-> mmap[i].len])
  /\ IF Largest = {}
       THEN UNCHANGED <<g_pmm_free, g_buddy_initialized>> /\ UNCHANGED zoneVars
       ELSE LET e == mmap[CHOOSE i \in Largest : \A j \in Largest : i <= j] IN
            /\ buddy_init(e.addr, e.len)
            /\ g_buddy_initialized' = TRUE
            /\ g_pmm_free' = e.len
  /\ UNCHANGED <<mmap, frames>>

\* Not initialised, or out of memory: 0.
pmm_alloc_frame ==
  /\ Cardinality(frames) < MaxFrames
  /\ IF g_buddy_initialized /\ unmovable # {}
       THEN \E p \in unmovable :
              /\ TakeUnmovable(p)
              /\ frames' = frames \cup {p}
              /\ g_pmm_free' = IF g_pmm_free >= FRAME_SIZE THEN g_pmm_free - FRAME_SIZE
                                                           ELSE g_pmm_free
              /\ UNCHANGED <<g_pmm_total, g_buddy_initialized, mmap>>
       ELSE UNCHANGED pmmVars /\ UNCHANGED zoneVars

\* Mutant: the frame's return is not counted.
pmm_free_frame_uncounted(p) ==
  /\ FreePages({p}) /\ frames' = frames \ {p}
  /\ UNCHANGED <<g_pmm_total, g_pmm_free, g_buddy_initialized, mmap>>

pmm_free_frame(p) ==
  /\ FreePages({p}) /\ frames' = frames \ {p}
  /\ g_pmm_free' = g_pmm_free + FRAME_SIZE
  /\ UNCHANGED <<g_pmm_total, g_buddy_initialized, mmap>>

PmmNext == pmm_alloc_frame \/ \E p \in frames : pmm_free_frame(p)

-----------------------------------------------------------------------------
(* Properties *)

\* g_pmm_free is what the frames lent leave of the region.  The guard in
\* pmm_alloc_frame (pmm.c:70) hides an allocation it cannot count down for, and
\* the frame's return is counted all the same; a region that ends inside a page
\* has such a frame.
PmmCountExact ==
  Sound /\ g_buddy_initialized =>
    g_pmm_free = g_memory_size - FRAME_SIZE * Cardinality(frames)

\* For any region the count is off to one side only: g_pmm_free never says less
\* than what the frames lent leave, however often the guard hid an allocation.
PmmCountCovers ==
  Sound /\ g_buddy_initialized =>
    g_pmm_free >= g_memory_size - FRAME_SIZE * Cardinality(frames)

\* A frame lies inside an available entry of the boot loader's map, whatever
\* the order and number of its entries.
FramesUsable == Sound =>
  \A p \in frames : \E i \in DOMAIN mmap :
    /\ Available(i)
    /\ mmap[i].addr <= p * BUDDY_PAGE_SIZE
    /\ (p + 1) * BUDDY_PAGE_SIZE <= mmap[i].addr + mmap[i].len
=============================================================================
