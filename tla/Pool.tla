-------------------------------- MODULE Pool --------------------------------
(***************************************************************************)
(* The memory pools, kernel/mm/pool.c.  A pool is known by the page of its  *)
(* structure, an object by its address.  Every call holds the pool's lock   *)
(* from its first access to its last and is one step.  pool_get_utilization *)
(* only reads.                                                              *)
(***************************************************************************)
EXTENDS Zones

CONSTANTS
  CHUNK_SIZE,       \* sizeof(pool_chunk_t), and the alignment of objects
  REGION_HEADER,    \* sizeof(pool_region_t)
  CountMod,         \* the counters are uint32_t: 2^32
  PoolFormats,      \* the <<object_size, initial_count>> callers ask for
  MaxPools          \* how many pools callers keep at a time

ASSUME PoolAssumption ==
  /\ CHUNK_SIZE \in Nat \ {0} /\ REGION_HEADER \in Nat
  /\ REGION_HEADER < BUDDY_PAGE_SIZE
  /\ CountMod \in Nat \ {0} /\ MaxPools \in Nat
  /\ PoolFormats \subseteq Nat \X Nat

VARIABLES
  pool,         \* the pool structures, by page
  pool_loans    \* pool_loans[q]: the objects of q that callers hold

poolVars == <<pool, pool_loans>>

PoolInit == pool = [q \in {} |-> 0] /\ pool_loans = [q \in {} |-> {}]

-----------------------------------------------------------------------------
(* pool_grow *)

\* An object holds at least the link of the free list.
ObjectSize(size) ==
  align_up(IF size < CHUNK_SIZE THEN CHUNK_SIZE ELSE size, CHUNK_SIZE)

\* The order of a region for count objects, the largest one at most.  The
\* header of the region is not counted in.
GrowOrder(r, count) ==
  LET enough == {k \in Orders : OrderPages[k] >= bytes_to_pages(count * r.object_size)} IN
  IF enough = {} THEN BUDDY_MAX_ORDER
                 ELSE CHOOSE k \in enough : \A j \in enough : k <= j

ObjectsInRegion(r, k) ==
  (OrderPages[k] * BUDDY_PAGE_SIZE - REGION_HEADER) \div r.object_size

\* Mutant: the objects start where the header is.
RegionObjectsAtBase(r, p, k) ==
  LET n == ObjectsInRegion(r, k) IN
  [i \in 1..n |-> p * BUDDY_PAGE_SIZE + (n - i) * r.object_size]

\* The objects of a region of order k at page p of pool r, the last one first.
RegionObjects(r, p, k) ==
  LET n == ObjectsInRegion(r, k)
      start == p * BUDDY_PAGE_SIZE + REGION_HEADER
  IN [i \in 1..n |-> start + (n - i) * r.object_size]

\* Pool structure r with a new region of order k at page p.  The order is
\* written down here; the region's header does not have it.
Grown(r, p, k) ==
  [r EXCEPT !.regions = <<[page |-> p, order |-> k]>> \o @,
            !.free_list = RegionObjects(r, p, k) \o @,
            !.total_objects = (@ + ObjectsInRegion(r, k)) % CountMod,
            !.free_objects = (@ + ObjectsInRegion(r, k)) % CountMod]

-----------------------------------------------------------------------------
(* The operations *)

NewPool(size, count) ==
  [object_size |-> ObjectSize(size), initial_count |-> count,
   grow_count |-> IF count \div 2 = 0 THEN 1 ELSE count \div 2,
   total_objects |-> 0, free_objects |-> 0, free_list |-> <<>>, regions |-> <<>>]

\* Without a page for the structure, or a region for the first objects, the
\* call fails and leaves nothing behind.
pool_create(size, count) ==
  LET r == NewPool(size, count)
      k == GrowOrder(r, count)
      room == Blocks(reclaimable, k)
  IN
  /\ Cardinality(DOMAIN pool) < MaxPools
  /\ IF size = 0 \/ count = 0 \/ unmovable = {} \/ room = {}
       THEN UNCHANGED poolVars /\ UNCHANGED zoneVars
       ELSE \E q \in unmovable, p \in room :
              /\ unmovable' = unmovable \ {q}
              /\ reclaimable' = reclaimable \ Block(p, k)
              /\ pool' = Put(pool, q, Grown(r, p, k))
              /\ pool_loans' = Put(pool_loans, q, {})
              /\ UNCHANGED <<g_memory_start, g_memory_size, damage>>

\* An address that is no object's.
WILD == -1

\* What may be left of free list l without its head.  The link read from an
\* empty list is the word at address 0, the link of a wild pointer any word.
Rest(l) == IF l \in {<<>>, <<WILD>>} THEN {<<>>, <<WILD>>} ELSE {Tail(l)}

\* Pool q, with structure r, hands out the head of its free list.  If there
\* is none, a region had no room for an object: the caller gets NULL, and the
\* count goes down all the same.
Pop(q, r) ==
  /\ \E l \in Rest(r.free_list) :
       pool' = [pool EXCEPT ![q] =
         [r EXCEPT !.free_objects = (@ - 1) % CountMod, !.free_list = l]]
  /\ pool_loans' = [pool_loans EXCEPT ![q] =
       IF r.free_list = <<>> THEN @ ELSE @ \cup {Head(r.free_list)}]

\* An empty free list grows first; without memory the call fails.
pool_alloc(q) ==
  LET r == pool[q]
      k == GrowOrder(r, r.grow_count)
      room == Blocks(reclaimable, k)
  IN
  IF r.free_list # <<>> THEN Pop(q, r) /\ UNCHANGED zoneVars
  ELSE IF room = {} THEN UNCHANGED poolVars /\ UNCHANGED zoneVars
  ELSE \E p \in room : TakeReclaimable(p, k) /\ Pop(q, Grown(r, p, k))

\* Mutant: the count of free objects is left as it is.
pool_free_uncounted(q, o) ==
  /\ pool' = [pool EXCEPT ![q].free_list = <<o>> \o @]
  /\ pool_loans' = [pool_loans EXCEPT ![q] = @ \ {o}]
  /\ UNCHANGED zoneVars

pool_free(q, o) ==
  /\ pool' = [pool EXCEPT ![q].free_list = <<o>> \o @,
                          ![q].free_objects = (@ + 1) % CountMod]
  /\ pool_loans' = [pool_loans EXCEPT ![q] = @ \ {o}]
  /\ UNCHANGED zoneVars

\* The order pool_destroy takes a region at page p to have: the largest one
\* its address is aligned to.
FreedOrder(p) ==
  CHOOSE k \in Orders : /\ p % OrderPages[k] = 0
                        /\ \A j \in Orders : p % OrderPages[j] = 0 => j <= k

\* Everything goes, objects callers still hold included.
pool_destroy(q) ==
  LET regions == Range(pool[q].regions) IN
  /\ unmovable' = unmovable \cup {q}
                   \cup UNION {Block(g.page, FreedOrder(g.page)) : g \in regions}
  /\ damage' = IF \A g \in regions : FreedOrder(g.page) = g.order
                 THEN damage ELSE damage \cup {"order"}
  /\ UNCHANGED <<g_memory_start, g_memory_size, reclaimable>>
  /\ pool' = Drop(pool, {q})
  /\ pool_loans' = Drop(pool_loans, {q})

PoolNext ==
  \/ \E f \in PoolFormats : pool_create(f[1], f[2])
  \/ \E q \in DOMAIN pool : pool_alloc(q) \/ pool_destroy(q)
  \/ \E q \in DOMAIN pool : \E o \in pool_loans[q] : pool_free(q, o)

-----------------------------------------------------------------------------
(* Properties *)

RegionPagesOf(q) == UNION {Block(g.page, g.order) : g \in Range(pool[q].regions)}

\* What a pool has taken from the page allocator.
PoolPages(q) == {q} \cup RegionPagesOf(q)

\* The counters of a pool are exact after any sequence of growths, calls and
\* failures: the free list has free_objects objects, none twice, and callers
\* hold the others.  A region too small for one object makes pool_alloc pop an
\* empty list (pool.c:78-80), and free_objects wraps.
PoolCountsExact ==
  \A q \in DOMAIN pool :
    LET free == Range(pool[q].free_list) IN
    /\ Len(pool[q].free_list) = pool[q].free_objects
    /\ Cardinality(free) = pool[q].free_objects
    /\ Cardinality(pool_loans[q]) = pool[q].total_objects - pool[q].free_objects
    /\ free \cap pool_loans[q] = {}

\* An object of a pool, free or with a caller, lies behind the header of a
\* region and inside it, and overlaps no other: two callers never share a byte
\* and none writes the list of regions.
ChunksApart ==
  \A q \in DOMAIN pool :
    LET size == pool[q].object_size
        all == Range(pool[q].free_list) \cup pool_loans[q]
    IN
    /\ \A o \in all : \E g \in Range(pool[q].regions) :
         /\ o >= g.page * BUDDY_PAGE_SIZE + REGION_HEADER
         /\ o + size <= (g.page + OrderPages[g.order]) * BUDDY_PAGE_SIZE
    /\ \A o1, o2 \in all : o1 < o2 => o1 + size <= o2

\* pool_destroy frees a region with the order it was allocated with (pool.c:163,
\* "We need to determine the size to free it properly").  The order is guessed
\* from the alignment of the region's address, which may be better than it need
\* be, or worse when the memory starts at an odd page.
FreedProperly == "order" \notin damage

\* A pool has at least the objects it was created for (pool.c:53, "Pre-allocate
\* initial objects").  The header of a region is not counted in pool_grow, so
\* this fails when the objects just fill the pages.
InitialObjects == \A q \in DOMAIN pool : pool[q].total_objects >= pool[q].initial_count
=============================================================================
