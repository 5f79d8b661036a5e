-------------------------------- MODULE Buddy --------------------------------
(***************************************************************************)
(* The buddy page allocator, kernel/mm/buddy.c.                            *)
(*                                                                         *)
(* A block is named by the index of its first page: page_index_to_addr is  *)
(* a bijection between indices and block addresses, and it is applied      *)
(* where an address enters the allocator (buddy_free_pages).  A free list  *)
(* is the sequence of its blocks, head first.                              *)
(*                                                                         *)
(* Every call is cut into its steps: the spin on the zone lock, and one    *)
(* step per iteration of the carving, splitting and merging loops, so that *)
(* calls of different CPUs interleave wherever the code lets them.         *)
(***************************************************************************)
EXTENDS Integers, Sequences, FiniteSets, Functions

CONSTANTS
  CPUs,              \* the CPUs that call the allocator
  NoCPU,             \* the owner of a lock nobody holds
  memory_start,      \* first byte of the managed region
  memory_size,       \* its length in bytes
  BUDDY_PAGE_SIZE,
  BUDDY_MAX_ORDER,
  OrderPages,        \* OrderPages[k] is 1ULL << k
  BitmapBits         \* the bits of g_allocation_bitmap

Orders == 0..BUDDY_MAX_ORDER

\* The zone types of buddy_zone_type_t, in the order of the enum.
BUDDY_ZONE_UNMOVABLE == 0
BUDDY_ZONE_RECLAIMABLE == 1
BUDDY_ZONE_MOVABLE == 2
BUDDY_ZONE_COUNT == 3
Zones == 0..(BUDDY_ZONE_COUNT - 1)

ASSUME CPUAssumption == NoCPU \notin CPUs

\* A region at address 0 would make its first block the NULL pointer; the
\* largest region of a multiboot map starts at 1 MiB or above.
ASSUME MemoryAssumption ==
  /\ memory_start \in Nat \ {0}
  /\ memory_size \in Nat \ {0}
  /\ BUDDY_PAGE_SIZE \in Nat \ {0}
  /\ BitmapBits \in Nat

ASSUME OrderAssumption ==
  /\ BUDDY_MAX_ORDER \in Nat
  /\ OrderPages \in [Orders -> Nat \ {0}]
  /\ OrderPages[0] = 1
  /\ \A k \in Orders \ {0} : OrderPages[k] = 2 * OrderPages[k - 1]

VARIABLES
  free_lists,    \* free_lists[z][k]: the free blocks of order k of zone z
  free_counts,   \* free_counts[z][k]: how many the zone says there are
  free_pages,    \* free_pages[z]: how many free pages the zone says it has
  bitmap,        \* g_allocation_bitmap: the page indices whose bit is set
  lock,          \* lock[z]: the CPU that holds the zone's spinlock
  carved,        \* buddy_init: pages already cut into blocks
  pc,            \* pc[c]: where CPU c is in the allocator
  order,         \* order[c]: the order argument of c's call
  zone,          \* zone[c]: the zone c's call works on
  cur_order,     \* cur_order[c]: current_order of c's call
  block,         \* block[c]: block / current_addr of c's call
  owned          \* the blocks callers hold, each as <<page index, order>>

zoneVars == <<free_lists, free_counts, free_pages>>
callVars == <<order, zone, cur_order, block>>
vars == <<free_lists, free_counts, free_pages, bitmap, lock, carved, pc,
          order, zone, cur_order, block, owned>>

-----------------------------------------------------------------------------
(* Helpers *)

bytes_to_pages(bytes) == (bytes + BUDDY_PAGE_SIZE - 1) \div BUDDY_PAGE_SIZE
addr_to_page_index(addr) == (addr - memory_start) \div BUDDY_PAGE_SIZE
page_index_to_addr(index) == memory_start + index * BUDDY_PAGE_SIZE

total_pages == bytes_to_pages(memory_size)
PageIndex == 0..(total_pages - 1)

\* index ^ n for a power of two n: the index with that bit flipped.
FlipBit(index, n) == IF (index \div n) % 2 = 0 THEN index + n ELSE index - n

Buddy(index, k) == FlipBit(index, OrderPages[k])

\* Pages beyond the bitmap have no bit and count as not allocated.
set_allocation_bit(map, index) ==
  IF index < BitmapBits THEN map \cup {index} ELSE map
clear_allocation_bit(map, index) == map \ {index}

list_add(list, b) == <<b>> \o list

list_remove(list, b) ==
  LET p == CHOOSE i \in 1..Len(list) : list[i] = b
  IN  SubSeq(list, 1, p - 1) \o SubSeq(list, p + 1, Len(list))

\* Put block b on, or take it off, the free list of order k of zone z; the
\* code adjusts free_counts beside every list_add and list_remove.
AddFree(z, k, b) ==
  /\ free_lists' = [free_lists EXCEPT ![z][k] = list_add(@, b)]
  /\ free_counts' = [free_counts EXCEPT ![z][k] = @ + 1]

\* Mutant: the counter is forgotten.
RemoveFreeUncounted(z, k, b) ==
  /\ free_lists' = [free_lists EXCEPT ![z][k] = list_remove(@, b)]
  /\ UNCHANGED free_counts

RemoveFree(z, k, b) ==
  /\ free_lists' = [free_lists EXCEPT ![z][k] = list_remove(@, b)]
  /\ free_counts' = [free_counts EXCEPT ![z][k] = @ - 1]

\* Mutant: the lock is set without being tested.
spinlock_acquire_blind(c, z) == lock' = [lock EXCEPT ![z] = c]

spinlock_acquire(c, z) == lock[z] = NoCPU /\ lock' = [lock EXCEPT ![z] = c]
spinlock_release(z) == lock' = [lock EXCEPT ![z] = NoCPU]

Goto(c, l) == pc' = [pc EXCEPT ![c] = l]

-----------------------------------------------------------------------------
(* buddy_init *)

Init ==
  /\ free_lists = [z \in Zones |-> [k \in Orders |-> <<>>]]
  /\ free_counts = [z \in Zones |-> [k \in Orders |-> 0]]
  /\ free_pages = [z \in Zones |->
                     IF z = BUDDY_ZONE_UNMOVABLE THEN total_pages ELSE 0]
  /\ bitmap = {}
  /\ lock = [z \in Zones |-> NoCPU]
  /\ carved = 0
  /\ pc = [c \in CPUs |-> "idle"]
  /\ order = [c \in CPUs |-> 0]
  /\ zone = [c \in CPUs |-> BUDDY_ZONE_UNMOVABLE]
  /\ cur_order = [c \in CPUs |-> 0]
  /\ block = [c \in CPUs |-> 0]
  /\ owned = {}

\* A block of order k fits at the carving position.
Fits(k) ==
  /\ OrderPages[k] <= total_pages - carved
  /\ carved % OrderPages[k] = 0

\* One iteration of the carving loop of buddy_init: the largest order that
\* fits, order 0 if none does.
InitCarve ==
  /\ carved < total_pages
  /\ \E k \in Orders :
       /\ k = 0 \/ Fits(k)
       /\ \A j \in Orders : j > k => ~Fits(j)
       /\ AddFree(BUDDY_ZONE_UNMOVABLE, k, carved)
       /\ carved' = carved + OrderPages[k]
  /\ UNCHANGED <<free_pages, bitmap, lock, pc, callVars, owned>>

Ready == carved = total_pages

-----------------------------------------------------------------------------
(* buddy_alloc_pages *)

\* Mutant: the order is not checked.
AllocCallUnchecked(c, k, zone_type) ==
  /\ Ready /\ pc[c] = "idle"
  /\ Goto(c, "alloc_lock")
  /\ order' = [order EXCEPT ![c] = k]
  /\ zone' = [zone EXCEPT ![c] = IF zone_type >= BUDDY_ZONE_COUNT
                                    THEN BUDDY_ZONE_UNMOVABLE ELSE zone_type]
  /\ UNCHANGED <<cur_order, block, zoneVars, bitmap, lock, carved, owned>>

\* Entry: an order above the maximum returns 0 at once; an unknown zone type
\* is replaced by UNMOVABLE.
AllocCall(c, k, zone_type) ==
  /\ Ready /\ pc[c] = "idle"
  /\ IF k > BUDDY_MAX_ORDER
       THEN Goto(c, "failed") /\ UNCHANGED callVars
       ELSE /\ Goto(c, "alloc_lock")
            /\ order' = [order EXCEPT ![c] = k]
            /\ zone' = [zone EXCEPT ![c] =
                          IF zone_type >= BUDDY_ZONE_COUNT
                            THEN BUDDY_ZONE_UNMOVABLE ELSE zone_type]
            /\ UNCHANGED <<cur_order, block>>
  /\ UNCHANGED <<zoneVars, bitmap, lock, carved, owned>>

\* buddy_alloc_pages_flags: MOVABLE wins over RECLAIMABLE.
GfpZone(flags) ==
  CASE "GFP_MOVABLE" \in flags -> BUDDY_ZONE_MOVABLE
    [] "GFP_MOVABLE" \notin flags /\ "GFP_RECLAIMABLE" \in flags ->
         BUDDY_ZONE_RECLAIMABLE
    [] OTHER -> BUDDY_ZONE_UNMOVABLE

AllocFlagsCall(c, k, flags) == AllocCall(c, k, GfpZone(flags))

AllocAcquire(c) ==
  /\ pc[c] = "alloc_lock"
  /\ spinlock_acquire(c, zone[c])
  /\ Goto(c, "alloc_find")
  /\ UNCHANGED <<zoneVars, bitmap, carved, callVars, owned>>

\* Mutant: a block of exactly the requested order is passed over.
CandidatesLarger(c) ==
  {k \in Orders : k > order[c] /\ free_lists[zone[c]][k] # <<>>}

\* Orders that can serve c's request from its zone's lists.
Candidates(c) ==
  {k \in Orders : k >= order[c] /\ free_lists[zone[c]][k] # <<>>}

\* The smallest order with a free block: its head block is unlinked.
AllocFind(c) ==
  /\ pc[c] = "alloc_find"
  /\ \E k \in Candidates(c) :
       /\ \A j \in Candidates(c) : k <= j
       /\ LET b == Head(free_lists[zone[c]][k]) IN
            /\ RemoveFree(zone[c], k, b)
            /\ block' = [block EXCEPT ![c] = b]
       /\ cur_order' = [cur_order EXCEPT ![c] = k]
  /\ Goto(c, "alloc_split")
  /\ UNCHANGED <<free_pages, bitmap, lock, carved, order, zone, owned>>

\* Out of memory: unlock and return 0.
AllocFail(c) ==
  /\ pc[c] = "alloc_find"
  /\ Candidates(c) = {}
  /\ spinlock_release(zone[c])
  /\ Goto(c, "failed")
  /\ UNCHANGED <<zoneVars, bitmap, carved, callVars, owned>>

\* Mutants: the lower half is linked, and handed out too; neither is linked.
AllocSplitLower(c) ==
  /\ pc[c] = "alloc_split"
  /\ cur_order[c] > order[c]
  /\ cur_order' = [cur_order EXCEPT ![c] = @ - 1]
  /\ AddFree(zone[c], cur_order[c] - 1, block[c])
  /\ UNCHANGED <<free_pages, bitmap, lock, carved, pc, order, zone, block,
                 owned>>
AllocSplitForgets(c) ==
  /\ pc[c] = "alloc_split"
  /\ cur_order[c] > order[c]
  /\ cur_order' = [cur_order EXCEPT ![c] = @ - 1]
  /\ UNCHANGED <<zoneVars, bitmap, lock, carved, pc, order, zone, block, owned>>

\* One iteration of the splitting loop: the upper half goes to its list.
AllocSplit(c) ==
  /\ pc[c] = "alloc_split"
  /\ cur_order[c] > order[c]
  /\ LET k == cur_order[c] - 1 IN
       /\ cur_order' = [cur_order EXCEPT ![c] = k]
       /\ AddFree(zone[c], k, block[c] + OrderPages[k])
  /\ UNCHANGED <<free_pages, bitmap, lock, carved, pc, order, zone, block,
                 owned>>

\* The block has the requested order: mark it, account for it, unlock.
AllocFinish(c) ==
  /\ pc[c] = "alloc_split"
  /\ cur_order[c] = order[c]
  /\ bitmap' = set_allocation_bit(bitmap, block[c])
  /\ free_pages' = [free_pages EXCEPT ![zone[c]] = @ - OrderPages[order[c]]]
  /\ spinlock_release(zone[c])
  /\ owned' = owned \cup {<<block[c], order[c]>>}
  /\ Goto(c, "allocated")
  /\ UNCHANGED <<free_lists, free_counts, carved, callVars>>

\* The caller takes the result; the locals of the call are gone.
Return(c) ==
  /\ pc[c] \in {"allocated", "failed"}
  /\ Goto(c, "idle")
  /\ order' = [order EXCEPT ![c] = 0]
  /\ zone' = [zone EXCEPT ![c] = BUDDY_ZONE_UNMOVABLE]
  /\ cur_order' = [cur_order EXCEPT ![c] = 0]
  /\ block' = [block EXCEPT ![c] = 0]
  /\ UNCHANGED <<zoneVars, bitmap, lock, carved, owned>>

-----------------------------------------------------------------------------
(* buddy_free_pages *)

\* The parameter checks at the top of buddy_free_pages.
FreeRefused(address, k) ==
  \/ k > BUDDY_MAX_ORDER
  \/ address = 0
  \/ address < memory_start \/ address >= memory_start + memory_size
  \/ address % BUDDY_PAGE_SIZE # 0

\* A call that fails a check prints a message and returns.
FreeReject(c, address, k) ==
  /\ Ready /\ pc[c] = "idle"
  /\ FreeRefused(address, k)
  /\ UNCHANGED vars

\* A caller gives back a block it holds, with the order it was allocated at
\* (the code checks neither).
FreeCall(c, b, k) ==
  /\ Ready /\ pc[c] = "idle"
  /\ <<b, k>> \in owned
  /\ ~FreeRefused(page_index_to_addr(b), k)
  /\ owned' = owned \ {<<b, k>>}
  /\ Goto(c, "free_lock")
  /\ order' = [order EXCEPT ![c] = k]
  /\ zone' = [zone EXCEPT ![c] = BUDDY_ZONE_UNMOVABLE]
  /\ cur_order' = [cur_order EXCEPT ![c] = k]
  /\ block' = [block EXCEPT ![c] = addr_to_page_index(page_index_to_addr(b))]
  /\ UNCHANGED <<zoneVars, bitmap, lock, carved>>

\* Mutant: the bit stays set.
FreeAcquireKeepsBit(c) ==
  /\ pc[c] = "free_lock"
  /\ spinlock_acquire(c, zone[c])
  /\ Goto(c, "free_merge")
  /\ UNCHANGED <<zoneVars, bitmap, carved, callVars, owned>>

\* Take the lock and clear the block's bit.
FreeAcquire(c) ==
  /\ pc[c] = "free_lock"
  /\ spinlock_acquire(c, zone[c])
  /\ bitmap' = clear_allocation_bit(bitmap, block[c])
  /\ Goto(c, "free_merge")
  /\ UNCHANGED <<zoneVars, carved, callVars, owned>>

\* Mutant: the loop ends one order early.
MergeEndsEarly(c) ==
  /\ cur_order[c] < BUDDY_MAX_ORDER - 1
  /\ Buddy(block[c], cur_order[c])
       \in Range(free_lists[zone[c]][cur_order[c]])

\* The merging loop goes on: below the maximum order, the buddy lies in the
\* region, its bit is clear and it is found on the free list of that order.
MergeGoesOn(c) ==
  /\ cur_order[c] < BUDDY_MAX_ORDER
  /\ LET b == Buddy(block[c], cur_order[c]) IN
       /\ page_index_to_addr(b) >= memory_start
       /\ page_index_to_addr(b) < memory_start + memory_size
       /\ b \notin bitmap
       /\ b \in Range(free_lists[zone[c]][cur_order[c]])

\* Mutants: the merged block keeps the upper half's address; the loop does
\* not advance.
FreeMergeKeepsUpper(c) ==
  /\ pc[c] = "free_merge"
  /\ MergeGoesOn(c)
  /\ RemoveFree(zone[c], cur_order[c], Buddy(block[c], cur_order[c]))
  /\ cur_order' = [cur_order EXCEPT ![c] = @ + 1]
  /\ UNCHANGED <<free_pages, bitmap, lock, carved, pc, order, zone, block,
                 owned>>
FreeMergeStuck(c) ==
  pc[c] = "free_merge" /\ MergeGoesOn(c) /\ UNCHANGED vars

FreeMerge(c) ==
  /\ pc[c] = "free_merge"
  /\ MergeGoesOn(c)
  /\ LET b == Buddy(block[c], cur_order[c]) IN
       /\ RemoveFree(zone[c], cur_order[c], b)
       /\ block' = [block EXCEPT ![c] = IF @ > b THEN b ELSE @]
  /\ cur_order' = [cur_order EXCEPT ![c] = @ + 1]
  /\ UNCHANGED <<free_pages, bitmap, lock, carved, pc, order, zone, owned>>

\* The loop has ended: link the merged block, account for the freed pages,
\* unlock and return.
FreeFinish(c) ==
  /\ pc[c] = "free_merge"
  /\ ~MergeGoesOn(c)
  /\ AddFree(zone[c], cur_order[c], block[c])
  /\ free_pages' = [free_pages EXCEPT ![zone[c]] = @ + OrderPages[order[c]]]
  /\ spinlock_release(zone[c])
  /\ Goto(c, "idle")
  /\ order' = [order EXCEPT ![c] = 0]
  /\ cur_order' = [cur_order EXCEPT ![c] = 0]
  /\ block' = [block EXCEPT ![c] = 0]
  /\ UNCHANGED <<bitmap, carved, zone, owned>>

-----------------------------------------------------------------------------
(* The specification *)

\* The arguments the callers try: a few orders and addresses the parameter
\* checks must refuse, an unknown zone type, the zone flags.
CallOrders == 0..(BUDDY_MAX_ORDER + 1)
CallAddresses == 0..(memory_start + memory_size)
CallFlags == SUBSET {"GFP_MOVABLE", "GFP_RECLAIMABLE"}

Call(c) ==
  \/ \E k \in CallOrders, z \in 0..BUDDY_ZONE_COUNT : AllocCall(c, k, z)
  \/ \E k \in CallOrders, flags \in CallFlags : AllocFlagsCall(c, k, flags)
  \/ \E b \in PageIndex, k \in Orders : FreeCall(c, b, k)
  \/ \E a \in CallAddresses, k \in CallOrders : FreeReject(c, a, k)

\* The steps of a call that has begun.
Step(c) ==
  \/ AllocAcquire(c) \/ AllocFind(c) \/ AllocFail(c)
  \/ AllocSplit(c) \/ AllocFinish(c) \/ Return(c)
  \/ FreeAcquire(c) \/ FreeMerge(c) \/ FreeFinish(c)

Next == InitCarve \/ \E c \in CPUs : Call(c) \/ Step(c)

Spec == Init /\ [][Next]_vars

\* A CPU that is inside the allocator keeps running, and buddy_init runs to
\* its end.  Nothing is assumed of a CPU that spins while others take turns
\* on the lock: spinlock_acquire is not fair.
FairSpec ==
  Spec /\ WF_vars(InitCarve) /\ \A c \in CPUs : WF_vars(Step(c))

-----------------------------------------------------------------------------
(* Properties *)

BlockPages(b, k) == b..(b + OrderPages[k] - 1)

Disjoint(b, k, d, l) ==
  b + OrderPages[k] <= d \/ d + OrderPages[l] <= b

\* A block lies in the region and is aligned to its own size.
IsBlock(b, k) ==
  /\ k \in Orders /\ b \in Nat
  /\ b % OrderPages[k] = 0
  /\ b + OrderPages[k] <= total_pages

\* The free blocks of order k (only the UNMOVABLE zone is ever given pages).
FreeSet(k) == Range(free_lists[BUDDY_ZONE_UNMOVABLE][k])

\* CPUs with a block in their hands: neither on a list nor with a caller.
Holding == {c \in CPUs : pc[c] \in {"alloc_split", "free_lock", "free_merge"}}

Labels == {"idle", "alloc_lock", "alloc_find", "alloc_split", "allocated",
           "failed", "free_lock", "free_merge"}

TypeOK ==
  /\ free_lists \in [Zones -> [Orders -> Seq(PageIndex)]]
  /\ free_counts \in [Zones -> [Orders -> Int]]
  /\ free_pages \in [Zones -> Int]
  /\ bitmap \subseteq PageIndex
  /\ lock \in [Zones -> CPUs \cup {NoCPU}]
  /\ carved \in 0..total_pages
  /\ pc \in [CPUs -> Labels]
  /\ order \in [CPUs -> Orders]
  /\ zone \in [CPUs -> Zones]
  /\ cur_order \in [CPUs -> Orders]
  /\ block \in [CPUs -> PageIndex]
  /\ owned \subseteq PageIndex \X Orders

\* Between spinlock_acquire and spinlock_release of its zone's lock.
InCritical(c) == pc[c] \in {"alloc_find", "alloc_split", "free_merge"}

\* Mutual exclusion: no two CPUs are between the acquire and the release of
\* the same zone's lock.
MutualExclusion ==
  \A c, d \in CPUs :
    InCritical(c) /\ InCritical(d) /\ zone[c] = zone[d] => c = d

\* No page belongs to two blocks: the blocks on the free lists, those callers
\* hold and those in the hands of a CPU between two steps of a split, a merge
\* or a wait for the lock are pairwise disjoint, and no block is linked twice.
LinkedOnce ==
  \A k \in Orders : IsInjective(free_lists[BUDDY_ZONE_UNMOVABLE][k])

FreeApart ==
  \A k, l \in Orders : \A b \in FreeSet(k), d \in FreeSet(l) :
    (k # l \/ b # d) => Disjoint(b, k, d, l)

OwnedApart ==
  \A x, y \in owned : x # y => Disjoint(x[1], x[2], y[1], y[2])

HeldApart ==
  \A c, d \in Holding :
    c # d => Disjoint(block[c], cur_order[c], block[d], cur_order[d])

FreeFromOwned ==
  \A k \in Orders : \A b \in FreeSet(k) : \A x \in owned :
    Disjoint(b, k, x[1], x[2])

FreeFromHeld ==
  \A k \in Orders : \A b \in FreeSet(k) : \A c \in Holding :
    Disjoint(b, k, block[c], cur_order[c])

OwnedFromHeld ==
  \A x \in owned : \A c \in Holding :
    Disjoint(x[1], x[2], block[c], cur_order[c])

NoOverlap ==
  /\ LinkedOnce
  /\ FreeApart /\ OwnedApart /\ HeldApart
  /\ FreeFromOwned /\ FreeFromHeld /\ OwnedFromHeld

\* No page is lost: every page cut so far is in a free block, in a block a
\* caller holds or in a block in the hands of a CPU.
NoLeak ==
  \A p \in 0..(carved - 1) :
    \/ \E k \in Orders : \E b \in FreeSet(k) : p \in BlockPages(b, k)
    \/ \E x \in owned : p \in BlockPages(x[1], x[2])
    \/ \E c \in Holding : p \in BlockPages(block[c], cur_order[c])

\* Every block, wherever it is, lies in the region and is aligned to its size
\* although merging computes its address by flipping a bit.
Aligned ==
  /\ \A k \in Orders : \A b \in FreeSet(k) : IsBlock(b, k)
  /\ \A x \in owned : IsBlock(x[1], x[2])
  /\ \A c \in Holding : IsBlock(block[c], cur_order[c])

\* The statistics are exact: every list has the length its counter says, and
\* when no one is inside a critical section, the zone's free_pages is the
\* number of pages of its free blocks.
FreePageSet ==
  {p \in PageIndex :
     \E k \in Orders : \E b \in FreeSet(k) : p \in BlockPages(b, k)}

CountsExact ==
  /\ \A z \in Zones, k \in Orders : free_counts[z][k] = Len(free_lists[z][k])
  /\ Ready /\ lock[BUDDY_ZONE_UNMOVABLE] = NoCPU =>
       free_pages[BUDDY_ZONE_UNMOVABLE] = Cardinality(FreePageSet)

\* As far as it reaches, the bitmap marks the first page of each block that
\* callers hold or have just handed to buddy_free_pages, and no other page.
BitmapExact ==
  bitmap = {b \in {x[1] : x \in owned}
                    \cup {block[c] : c \in {d \in CPUs : pc[d] = "free_lock"}} :
              b < BitmapBits}

\* Merging is complete: outside the critical sections no two buddies of an
\* order below the maximum are both free.
Coalesced ==
  Ready /\ lock[BUDDY_ZONE_UNMOVABLE] = NoCPU =>
    \A k \in Orders \ {BUDDY_MAX_ORDER} : \A b \in FreeSet(k) :
      Buddy(b, k) \notin FreeSet(k)

\* No page of the region is in use: no block of order k is free of owned
\* pages and of pages on their way back.
Busy(b, k) ==
  \/ \E x \in owned : ~Disjoint(b, k, x[1], x[2])
  \/ \E c \in CPUs :
       pc[c] = "free_lock" /\ ~Disjoint(b, k, block[c], order[c])

NoRoom(k) == \A b \in PageIndex : IsBlock(b, k) => Busy(b, k)

\* What kernel/tests/test_buddy.c expects of the zone flags: an allocation
\* with a zone flag fails only when memory is exhausted.  (buddy_init gives
\* every page to UNMOVABLE, so the other zones never have any.)
ZoneFlagsServed ==
  [][\A c \in CPUs : AllocFail(c) /\ zone[c] # BUDDY_ZONE_UNMOVABLE
        => NoRoom(order[c])]_vars

\* A critical section always ends: whoever holds a zone's lock lets go of it.
LockReleased ==
  \A z \in Zones, c \in CPUs : lock[z] = c ~> lock[z] # c

-----------------------------------------------------------------------------
(* What the allocator promises: PageAllocator, with each call taking effect *)
(* while it holds the lock.                                                 *)

AbsCall(c) ==
  CASE pc[c] \in {"alloc_lock", "alloc_find", "alloc_split"} ->
         <<"alloc", order[c], zone[c]>>
    [] pc[c] = "allocated" -> <<"got", block[c], order[c]>>
    [] pc[c] = "failed" -> <<"failed">>
    [] pc[c] = "free_lock" -> <<"free", block[c], order[c]>>
    [] pc[c] = "free_merge" -> <<"freed">>
    [] pc[c] = "idle" -> <<"idle">>

Abs == INSTANCE PageAllocator WITH call <- [c \in CPUs |-> AbsCall(c)]

\* Every behaviour of the allocator is one of PageAllocator: a block handed
\* out is aligned and disjoint from all blocks in use, and an UNMOVABLE
\* request is refused only when no aligned run of free pages is left.
ImplementsPageAllocator == Abs!Spec
=============================================================================
