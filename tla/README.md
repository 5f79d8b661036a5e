# TLA+ models of the BLACK-KERNEL memory manager

This directory holds TLA+ specifications of the parts of the kernel that keep
state under concurrency or failure: the buddy page allocator, copy-on-write,
demand paging with the page tables it fills, the page cache, the heap, the
keyboard ring, and, from the boot loader's tags on, the physical memory
manager, the slab allocator and the pools together. TLC checks them on small
instances; TLAPS proves, for every value of the constants and under the
conditions stated below, every safety property that a passing run checks.

    tlc -workers 2 -config MCBuddy.cfg MCBuddy      # one run
    tlapm CowProofs.tla                             # one module of proofs

`PROJECT.json` lists the components, runs, mutants, the map from definitions
to source lines, the hazards and the theorems.

## The system

| Component | State | Operations | What makes it correct |
|---|---|---|---|
| Buddy allocator (`kernel/mm/buddy.c`) | per zone: free list and counter per order, free_pages, lock; one bitmap | init, alloc (plain and by GFP flags), free | no page in two blocks, none lost, blocks aligned, counters and bitmap exact, buddies merged, requests refused only for lack of memory |
| Spinlocks (`kernel/core/spinlock.c`) | one word | acquire, release | mutual exclusion |
| Copy-on-write (`kernel/mm/cow.c`) | reference entries in a hash table, page table flags | mark, fault, increment, decrement | counts exact, spaces isolated, pages freed once and not early |
| Demand paging (`kernel/mm/demand_paging.c`) | slots per page table, region lists, a lock per region | register, unregister, find, fault | regions disjoint, a page mapped once, nothing mapped outside a region, no page lost |
| VMM (`kernel/mm/vmm.c`) | four-level page tables, no lock | map, unmap, translate | a mapping stays until it is undone |
| Page cache (`kernel/mm/page_cache.c`) | hash table, list, counter, one lock | init, lookup, insert, evict, remove | table and list agree, a page has one use, none is lost, bounded size |
| Keyboard (`kernel/drivers/keyboard.c`) | ring of 256 characters, shift and caps | interrupt handler, reader | a bounded first-in first-out queue |
| Slab (`kernel/mm/slab.c`) | three slab lists and a CPU cache per object cache | create, destroy, alloc, free | an object has one owner, a slab is on the list its use says |
| Heap (`kernel/mm/heap.c`) | block list, kmalloc caches | kmalloc, kfree, krealloc, kcalloc | blocks tile the heap, no two free neighbours |
| Pools (`kernel/mm/pool.c`) | free list, regions | create, alloc, free, destroy | an object has one owner, regions go back as they came |
| PMM (`kernel/mm/pmm.c`) | its own total and free counters | init, alloc, free | frames are usable memory, the counter is what frames lent leave |
| Boot (`kernel/core/main.c`) | position in the boot loader's tags | search, init calls | the search ends, components start in the order they need |
| Interrupts, PIC, PIT, serial, VGA, stdio, string | hardware tables, formatting | | not modelled: port I/O and straight-line set-up |

How they interact: everything above the buddy allocator calls
`buddy_alloc_pages` and `buddy_free_pages`. Copy-on-write, the page cache and
page tables (through the PMM) allocate from the UNMOVABLE zone, slabs and
pools from RECLAIMABLE, demand paging from MOVABLE for pages and from a slab
cache for regions. `buddy_free_pages` always frees into UNMOVABLE. Locks nest
in one direction (a component's lock, then the zone's lock), so no cycle of
waits exists between components.

The kernel at this commit starts one CPU and no scheduler. Its locks are
written for several (docs/memory_management.md, "Concurrency Control"), and
that claim is what the runs with two CPUs check; the runs with one CPU check
what can happen today. The keyboard handler interrupts the main program, so
its interleaving is real on one CPU.

Three facts about this commit bound what the component models mean for the
kernel as a whole. `buddy_init` gives every page to UNMOVABLE, so slabs, pools
and demand paging find their zones empty (`MCBuddyZones.cfg`). `kernel_main`
takes the boot loader's pointer for the first tag, where Multiboot2 has the
total size and a 0; it then stays there for good (`MCKernelMemoryBoot.cfg`). And
the interrupt stubs push `%0`, in NASM the number of macro parameters, as the
number of every interrupt (arch/x86_64/idt.asm:59, :64), so `interrupt_handler`
sees exception 1 at the first timer tick and halts; page faults are not passed
to `cow_handle_fault` or `demand_paging_handle_fault` by anyone. The models say
whether each component does its work once it gets to it.

What is hard here: critical sections that are left and entered again
(page_cache_insert), values used after the lock that protected them is gone
(regions, reference entries), double-checked locking, steps undone after a
failed allocation, arithmetic on addresses at the edges of a region or of the
address space, and loops under spinlocks.

## Modules

| Module | Models |
|---|---|
| `Buddy` | `buddy.c` and `spinlock.c`: one action per critical step and per loop iteration |
| `PageAllocator` | what a page allocator promises; `Buddy` implements it |
| `PageCache` | `page_cache.c` |
| `Cow` | `cow.c` |
| `DemandPaging` | `demand_paging.c`, and `vmm.c` as far as faults use it |
| `Zones` | the page allocator as its users see it: the free pages of UNMOVABLE and RECLAIMABLE |
| `Slab`, `Pool`, `Pmm` | `slab.c`, `pool.c`, `pmm.c`, each over `Zones` |
| `KernelMemory` | `kernel_main` up to `slab_init`, then the three over the same pages |
| `Heap` | `heap.c`, with the order in which kernel_main starts it |
| `Keyboard`, `BoundedQueue` | `keyboard.c` and the queue it implements |
| `MathLemmas` | facts on remainders, powers of two, lists and sets that the proofs share |
| `BuddyProofs`, `CowProofs`, `DemandPagingProofs`, `PageCacheProofs`, `HeapProofs`, `KeyboardProofs`, `KernelMemoryProofs` | the theorems about these components |
| `MC...` | instances for TLC: symmetry sets, the table of powers of two, the hash of the chosen keys |

**Buddy.** A block is the index of its first page; `page_index_to_addr` takes
it back to an address where the code checks addresses. A free list is a
sequence, head first. `InitCarve` is an iteration of the carving loop,
`AllocCall` the checks at the top of `buddy_alloc_pages`, `AllocAcquire` the
end of the spin on the lock, `AllocFind` / `AllocFail` the search,
`AllocSplit` an iteration of the splitting loop, `AllocFinish` bitmap,
accounting and unlock; `FreeCall`, `FreeAcquire`, `FreeMerge`, `FreeFinish`
likewise. `owned` records what callers hold. Callers give back blocks they
hold with the order they got them at; `FreeReject` covers the calls the checks
refuse.

**PageCache.** A critical section of the cache lock is one step.
`page_cache_insert` is one step when there is room and three when there is
not: `InsertBegin`, `InsertEvict`, `InsertFinish`. Timestamps matter by order
only. The buddy allocator appears as the set of free pages, which is
`PageAllocator` for order 0. A caller knows what a call returns and no more:
0 from `page_cache_insert` makes it take its page for inserted, although 0 is
also the result for a key that was cached already (page_cache.c:141, :180), and
`page_cache_remove` does not tell it whether there was an entry. The pages that
the cache so leaves to callers are the history variable `left`. With
`BlindRemove` callers take the page they had inserted back after a removal, as
kernel/tests/test_page_cache.c:117-126 does; without it they leave what they
inserted to the cache, which then loses the page of a removed entry. The table
of 1024 pointers takes `hash_table_pages` pages, of which one is allocated
(page_cache.c:47-48); `spill` is the pages behind it that it reaches into.

**Cow.** Each space has one virtual page. A step is a section under the global
lock or under an entry's lock, or a single access outside them; the callers'
protocol (map in two spaces, mark both, drop with `cow_decrement_ref`) is the
one of kernel/tests/test_cow.c. `view` is a history variable: what each space
should read. With `OneThread` a space runs on one CPU at a time; without it any
idle CPU may take a fault in any space, also one that a fault is being handled
in, as `cow_handle_fault` has no guard against it. Nothing in the code grants
`OneThread`: it is a condition of the runs and the proofs for several CPUs.
`cow_increment_ref` that gets no entry returns silently (cow.c:251-253) and the
caller counts on a reference all the same. An entry freed while another CPU keeps a pointer to it absorbs
that CPU's store. The memory of entries is not counted among `Pages`.

**DemandPaging.** A section under an address space's lock is one step; a fault
is cut after the region was found, at the unlocked check, at the lock, the
locked check, the allocation and the accesses of `vmm_map_page`: read the
table entry, link a new table, read it back (or not: the compiler may forward
the store), store the page. One table level stands for the three that
`get_or_alloc` creates in the same way. Addresses wrap at `AddrMod`.
`buddy_init` leaves the MOVABLE and RECLAIMABLE zones empty, so in the kernel
as it boots no region can be registered at all; the runs give the component
the pages and objects it is written for, and pages it frees go to UNMOVABLE as
in the code.

**Heap.** A call is one step: the heap has no lock, and no interrupt handler
uses it. `heap` maps the address of each block header to its fields; `live` is
what callers hold. `split_block` and `coalesce` are functions of the headers,
`SwallowNext` the statement that coalesce has twice. Header sizes are the
code's (32 and 12 bytes); `SizeMod` and `HeaderMod` stand for the widths of
size_t and of the 32-bit size in the allocation header. kernel_main calls
`heap_init` before `heap_enable_slab`, so no kmalloc cache is ever created,
which is not what the tests expect (`HeapSlab.cfg`), and the slab branches of
kmalloc and kfree are dead; they are not modelled.

**Zones.** A call of the buddy allocator is one step that takes any aligned run
of free pages; that is what `PageAllocator` promises and `Buddy` is checked to
implement. What is freed goes to UNMOVABLE. `ReclaimablePages` is `{}` in the
code; the run gives slabs and pools three such pages in one of its maps and
none in the other. `damage` is a history variable for the two ways in which the
accounts of memory end: "order" when `pool_destroy` has freed a region with
another order than it was allocated with, "divide" when `slab_create` has divided
by 0. `Sound` says that neither has happened. After a wrong order the free lists
of the page allocator run through pages in use and nothing can be said any more,
so the properties of pages, slabs and frames are about what comes before.

**Slab.** A cache is known by the page of its structure, a slab by its page, an
object by its address; `full`, `partial` and `empty` are the three lists. A
section under the cache's lock is one step (`AllocSlow`, `FreeSlow`). The CPU
cache, always that of CPU 0, has no lock, so its accesses are steps of their
own: `AllocLoad`, `AllocStore`, `AllocRead`; `FreeLoad`, `FreeArray` (the page
for the array), `FreeStore`, `FreeCount`. `loans` is what callers hold. A
caller destroys a cache only when no call uses it. `AllocDivides` is the
allocation from a cache whose objects fill a slab to the last byte: the colour
is taken modulo 0 (slab.c:156-158), and the CPU stops with the page and with the
cache's lock (`Halted`, `Unlocked`). A header of 32 bytes makes this the case for
objects of 16 and of 32 bytes.

**Pool.** A call holds the pool's lock throughout and is one step.
`GrowOrder`, `ObjectsInRegion` and `RegionObjects` are the three parts of
`pool_grow`; the order of a region is written down beside it, because
`pool_destroy` has to guess it (`FreedOrder`). A growth without room for an
object makes `Pop` hand out NULL and load the free list from address 0: the list
is then empty or begins at an address that is no object's (`Rest`, `WILD`).

**Pmm, KernelMemory.** `ReadTag` is an iteration over the boot loader's tags, of
which the last memory map counts; `InitMemory` is `pmm_init`, with the scan for
the largest available entry summed up in `Largest`, and `slab_init`. Among the
tables is what a Multiboot2 loader hands over, with the total size and a 0 where
`kernel_main` expects a tag; the others are tables it gets through. After that a
CPU that is in no slab call starts any call of the three components.

**Keyboard.** The handler runs with interrupts off (gate type 0x8E) and is one
step; the reader's check, read and advance are three. Keys are letters, other
keys with a character, and keys without.

## Runs

| Run | Instance | Shows |
|---|---|---|
| `buddy` | 2 CPUs, 5 pages cut 4 + 1, orders 0..2, a partial last page, a bitmap of 4 bits, with fairness; 146,253 states | `MutualExclusion`, `NoOverlap`, `NoLeak`, `Aligned`, `CountsExact`, `BitmapExact`, `Coalesced`, `ImplementsPageAllocator`, `LockReleased` |
| `kernel_memory` | 1 CPU, 5 pages of 32 bytes, 3 of them RECLAIMABLE, orders 0 and 1; 5 boot loader tables, that of a Multiboot2 loader among them; one cache (2 objects per slab, or 1, or 2 that fill it; CPU cache of 2), one pool (2 objects, or 1, and 1 per growth), 2 frames; 1,085,171 states | `PagesAccounted` across all three components, `ObjectsAccounted`, `ListsSorted`, `ObjectsPlaced`, `PoolCountsExact`, `ChunksApart`, `FramesUsable`, `PmmCountExact` |
| `page_cache` | 2 CPUs, 4 files (two in one bucket), max_pages 1, 7 pages; 13,296 states up to symmetry | `ListsAgree`, `OneUse`, `NoOtherLost`, `Overshoot` |
| `page_cache_gone` | 2 CPUs, max_pages 1 | counterexample to `RemovedIsGone` |
| `cow` | 1 CPU, 3 spaces, 4 pages, memory fails anywhere; 17,797 states | `RefCountExact`, `Isolation`, `NoEarlyFree`, `NoPageLost` |
| `cow_smp` | 2 CPUs that run different spaces, 3 spaces, 5 pages, enough memory; 30,598 states | `RefCountExact`, `NoPageLost`, `OneWriter` |
| `cow_copy` | 2 CPUs, 2 spaces | counterexample to `Isolation` |
| `demand_paging` | 1 CPU, 2 page tables and 1 slot, 2 regions, 2 pages, 4 page addresses, 1 frame for 2 tables; 82,793 states up to symmetry | `RegionsDisjoint`, `MappedInRegion` |
| `demand_paging_smp` | 2 CPUs, one region at a time, 2 pages, 2 tables; 3,291 states | `MappedOnce`, `NoPageLost`, `StableMapping` |
| `demand_paging_race` | 2 CPUs, 2 regions sharing a table | counterexample to `StableMapping` |
| `heap` | 256 bytes with the code's headers, up to 5 blocks, sizes at the 16-byte boundaries, at and above the whole heap, products that wrap; 43,690 states | `Tiles`, `Coalesced`, `Served` |
| `keyboard` | a ring of 4, 3 keys; 87,060 states | `ImplementsQueue` |

The bounds. Five pages with orders 0 to 2 are the least that has a region that
is no power of two, two levels of splitting and merging, and a buddy beyond
the end. In `kernel_memory` three RECLAIMABLE pages are
three slabs, or a pool that has grown once, or a slab beside a pool that
cannot grow; slabs take three colours, of which one would leave the page if it
were not taken modulo the unused bytes. The UNMOVABLE pages run out between the
cache, its array, the pool and the frames. The pool's regions of one and of two
pages may be at even and at odd pages, so that `pool_destroy` guesses their order
right and wrong, and among the cache's formats is one that `slab_create` divides
by 0 for: the run's invariants say what holds up to there (`Sound`), and
`MCKernelMemoryOrder.cfg` and `MCKernelMemoryFill.cfg`, the same instance with
one frame, show that it comes to both. `MaxCaches`, `MaxPools` and `MaxFrames` bound what callers
hold. In `buddy`, `page_cache`, `cow_smp` and `demand_paging_smp` two CPUs are
enough for every pair of calls to interleave; a third would only wait for the
same lock. In the page cache room for one entry and two CPUs make the cache
overflow; seven pages would hold three entries, so that memory is not what bounds it, and `MaxHeld` bounds what a caller
keeps. Three spaces let a page be shared, copied by one and taken over
by another; `CountMod` = 8 is above every count reached, so that wrapping
shows only when a count falls below 0. `Pinners` limits which CPUs take extra
references. Four page addresses below a wrapping end let regions touch,
enclose each other and reach the top. A ring of four slots fills, wraps and
empties. A heap of five smallest blocks has a block with neighbours on both sides
that have neighbours themselves.

Fairness. `FairSpec` assumes that a CPU inside the allocator keeps running
(weak fairness of its steps) and that buddy_init runs to its end. It assumes
nothing of a CPU that spins while others take turns: `spinlock_acquire` is not
fair, so that a waiting CPU gets in is not claimed; that whoever is in gets
out is (`LockReleased`). `FairSpec` of `KernelMemory`, which only
`MCKernelMemoryBoot.cfg` uses, assumes that the CPU that boots keeps running.

Deadlock checking is on in every run. `buddy`, `demand_paging` and `heap` also
check `TypeOK`, in which demand paging's says that the slots are not overrun;
that of `PageCache`, `Cow`
and `Keyboard` gives the types of the variables and is in no run.

### Counterexamples

Three runs show the code doing other than its tests or documents say:

- `page_cache_gone`: two CPUs insert the same key into a full cache, both
  through the unlocked eviction (page_cache.c:148-150); the key has two
  entries and a removal leaves one.
- `cow_copy`: a fault gives up its reference before copying (cow.c:206); the
  other owner then writes in place and the copy has the other's data.
- `demand_paging_race`: `get_or_alloc` (vmm.c:13-25) is unlocked, and faults
  in different regions hold different locks; both create the same table and
  one mapping is lost.

Further configurations, kept for the same purpose and run by hand
(`tlc -config MCCowThreads.cfg MCCow`); TLC refutes the property named in each:

| Configuration | Property | What TLC finds |
|---|---|---|
| `MCBuddyZones.cfg` | `ZoneFlagsServed` | every page goes to UNMOVABLE (buddy.c:105) and there is no fallback, so MOVABLE and RECLAIMABLE requests always fail, against kernel/tests/test_buddy.c:139 and :148; `ZonesEmpty`, part of the invariant proved below, says so for every region. Slabs, pools and demand paging depend on these zones |
| `MCKernelMemoryBoot.cfg` | `BootEnds` | with a Multiboot2 loader's table the search for the memory map reads a tag of size 0 and never moves on (main.c:35, :48; README.md:149 of the repository says "Full specification support") |
| `MCKernelMemorySMP.cfg` | `ObjectsAccounted` | two CPUs read the same `available` in slab_alloc and get the same object: the CPU cache is that of CPU 0 for everyone (slab.c:209; docs/memory_management.md:278 says per-CPU) |
| `MCKernelMemoryFill.cfg` | `NoDivideError` | objects that fill a slab to the last byte make slab_create divide by 0 (slab.c:156-158). With sizeof(slab_t) = 32 those of 16 and of 32 bytes do: two of the heap's caches (heap.c:78-79), the regions of demand paging (demand_paging.c:31) and the cache of kernel/tests/test_slab.c:78, of which :88 says "Allocation should succeed" |
| `MCKernelMemoryOrder.cfg` | `FreedProperly` | pool_destroy frees a region of one page at an address aligned to two as two pages (pool.c:172-181), and the second is somebody else's or free already; the comment at pool.c:163 says "We need to determine the size to free it properly" |
| `MCKernelMemoryEmpty.cfg` | `PoolCountsExact` | a pool grows by a region without room for an object, pops an empty list and counts down (pool.c:78-80) |
| `MCKernelMemoryInitial.cfg` | `InitialObjects` | a new pool has fewer objects than asked for, as the region's header is not counted in; kernel/tests/test_pool.c:22 says "Pool should have at least 10 objects" of one asked for 10 |
| `MCKernelMemoryPartial.cfg` | `FramesUsable`, `PmmCountExact` | a region that ends inside a page yields a frame that reaches beyond it (buddy.c:16); that frame is not counted when taken and is when freed (pmm.c:70, :90), so g_pmm_free drifts upwards |
| `HeapSlab.cfg` | `SmallFromSlab` | no size has a slab cache after kernel_main (main.c:72-73), against kernel/tests/test_heap.c:33, "128-byte allocation should be from slab" |
| `HeapWrap.cfg` | `Served` | a size within 12 bytes of the end of size_t wraps (heap.c:168) and gets a small block; `Sizes` of `Heap.cfg` stays below |
| `MCPageCacheLru.cfg` | `EvictsLeastRecent` | a lookup does not move its entry, so eviction is first in, first out (docs/memory_management.md:171 says LRU) |
| `MCPageCacheInsert.cfg` | `InsertedIsCached` | page_cache_insert returns 0 for a key that is cached already with another page (page_cache.c:141), and the caller's page is nowhere; kernel/tests/test_page_cache.c:38 says, after a result of 0, "Lookup should return inserted physical address" |
| `MCPageCacheTable.cfg` | `TableAlone` | 1024 pointers need two pages and one is allocated (page_cache.c:47-48): buckets 512 to 1023 lie in a page that is given to somebody else |
| `MCPageCacheOwner.cfg` | `OneUse` | eviction frees the cached page and removal does not, and neither tells: a caller that frees the page of a key it removes, as kernel/tests/test_page_cache.c:126 does, may free it again |
| `MCCowRestore.cfg` | `RefCountExact` | the reference restored after a failed allocation (cow.c:214-218) is no longer the one given up |
| `MCCowThreads.cfg` | `RefCountExact` | two CPUs fault on the same page of one space; neither looks at the page table entry again, and the space gives up two references for its one, which leaves a page that another space maps with a count of 0 (cow.c:188, :206; kernel/tests/test_cow.c:166 says "Reference count should be 1 after copy") |
| `MCDemandPagingGone.cfg` | `MappedInRegion` | a fault maps a page in a region unregistered after it was found |
| `MCDemandPagingMap.cfg` | `FaultMaps` | without a frame for a table the fault returns 0 and the page is lost |
| `MCDemandPagingSlots.cfg` | `SlotsForConcurrent` | slots of address spaces are never given back |
| `MCDemandPagingTop.cfg` | `RegisteredFound` | a region ending at the top of the address space has end 0 and is never found |

`MCDemandPaging.cfg` and `MCDemandPagingSMP.cfg` set `Quiesce`: a caller
unregisters a region only when no fault is being handled in it. The code does
not ask for it; `MCDemandPagingGone.cfg` shows what happens otherwise.

## Proofs

Every theorem holds for every value of the constants that satisfies the
module's ASSUME and what the theorem itself assumes; nothing is bounded. Each
rests on an inductive invariant, because hardly one of the properties is
inductive alone; the invariants were checked by TLC on the instances of the
runs before they were proved. A proof has one lemma per action of the component
and under it one step per part of the invariant that the action disturbs.
`MathLemmas` has the facts on lists, remainders and sets that several of them
use.

| Module | Theorem | States | Assumes |
|---|---|---|---|
| `BuddyProofs` | `TypeCorrect`, `LocksExclude`, `BlocksDisjoint`, `PagesKept`, `BlocksAligned` | `TypeOK`, `MutualExclusion`, `NoOverlap`, `NoLeak`, `Aligned` | |
| | `BitmapRight`, `StatisticsRight`, `MergingComplete`, `Refinement` | `BitmapExact`, `CountsExact`, `Coalesced`, `ImplementsPageAllocator` | |
| `CowProofs` | `TypeCorrect` | `TypeOK` | `SpacesApart` |
| | `CountsExact`, `PagesKept`, `WriterAlone` | `RefCountExact`, `NoPageLost`, `OneWriter` | `CountFits`, `SpacesApart`, and one CPU or `MemoryPlenty` |
| | `FreedLast`, `SpacesIsolated` | `NoEarlyFree`, `Isolation` | `CountFits`, one CPU |
| `DemandPagingProofs` | `TypeCorrect`, `RegionsApart`, `PagesMappedOnce` | `TypeOK`, `RegionsDisjoint`, `MappedOnce` | |
| | `NothingLeftBehind` | `MappedInRegion` | `Quiesce` |
| | `MappingsStable` | `StableMapping` | `Quiesce`, `LocksEnough` |
| | `PagesNotLost` | `NoPageLost` | `Quiesce`, `LocksEnough`, `FramesEnough` |
| `PageCacheProofs` | `TypeCorrect`, `TableAndListAgree`, `PagesUsedOnce`, `PagesNotLost` | `TypeOK`, `ListsAgree`, `OneUse`, `NoOtherLost` | `~BlindRemove` |
| | `OvershootBounded` | `Overshoot` | the same, and finitely many CPUs |
| `HeapProofs` | `TypeCorrect`, `BlocksTile`, `FreeCoalesced` | `TypeOK`, `Tiles`, `Coalesced` | |
| | `CallersServed` | `Served` | `SizesFit` |
| `KeyboardProofs` | `ReaderUndisturbed`, `RingIsQueue` | `KInv`, `ImplementsQueue` | |
| `KernelMemoryProofs` | `BootSafe`, `SlabSafe` | `BootInv` and `RegionInv`, `SlabInv` | |
| | `PoolSafe`, `ChunksTheorem` | `PoolInv`, `ChunksApart` | `GrowthFits` |
| | `PlacedTheorem` | `ObjectsPlaced` | `FormatsFit` |
| | `PoolCountTheorem` | `PoolCountsExact` | `GrowthFits`, `CountsFit` in every state |
| | `PagesSafe`, `PagesTheorem` | `PagesInv`, `PagesAccounted` | `OneCPU` |
| | `SortedSafe`, `ListsTheorem` | `SortedInv`, `ListsSorted` | `OneCPU` |
| | `AccountSafe`, `ObjectsTheorem` | `AccountInv`, `ObjectsAccounted` | `OneCPU`, `FormatsFit` |
| | `FramesTheorem` | `FramesUsable` | `OneCPU`, `MapsAligned` |
| | `PmmCountTheorem` | `PmmCountCovers`, and `PmmCountExact` with `MapsAligned` | `OneCPU` |

What the conditions say, and what happens without them:

- `CountFits` (copy-on-write): CPUs and spaces are finitely many and `CountMod`
  is above the number of spaces plus twice the number of CPUs, so that no count
  wraps; in the code it is 2^32. `SpacesApart`: one CPU, or `OneThread`, no two
  CPUs in one space; `MCCowThreads.cfg` is the other case, in which the count goes
  wrong at once. One CPU, or `MemoryPlenty`: a page for every
  space and two for every CPU besides, so that no fault is undone.
  `MCCowRestore.cfg` shows what a fault undone beside another CPU does to a
  count. That spaces are isolated, and that a page which a fault copies from is
  not freed, needs one CPU: `cow_copy` is the counterexample for two.
- `Quiesce` (demand paging): regions are unregistered only while no fault is
  handled in them; `MCDemandPagingGone.cfg` is the other case. `LocksEnough`:
  one CPU, or one region; `demand_paging_race` has two of both.
  `FramesEnough`: a frame for every table; `MCDemandPagingMap.cfg` has none.
- `~BlindRemove` (page cache): callers leave a page that `page_cache_insert`
  took with 0 to the cache and never take it back; they need not know which of
  the calls that returned 0 added it. `MCPageCacheOwner.cfg` is the other case.
  The pages lost this way are the ones `NoOtherLost` excepts, and `OneUse` says
  that they stay unused. The theorems are about the pages as the page allocator
  gives them out: what the writes to the second half of the table do to their
  content, and the other way round, is `TableAlone`'s case.
- `SizesFit` (heap): no size asked for, and no product of kcalloc, comes
  within 27 bytes of the end of size_t; `HeapWrap.cfg` is the other case. The
  headers stay sound in any case.
- `OneCPU` (memory of the kernel): `MCKernelMemorySMP.cfg` is what the shared
  CPU cache does otherwise: two CPUs may give the cache two arrays, of which one
  page is lost, and take the same object. That slabs stay with one cache and
  objects in their place, and all that is said of the objects of pools, holds
  for any number of CPUs.
- `Sound` is not a condition of a theorem but part of what `PagesAccounted`,
  `ListsSorted`, `ObjectsAccounted`, `FramesUsable` and `PmmCountExact` say: each
  holds until `pool_destroy` frees a region with a wrong order or a CPU divides
  by 0. That these are the only two ways for a page to be lost or used twice on
  one CPU is what `PagesTheorem` proves; that both happen is shown by
  `MCKernelMemoryOrder.cfg` and `MCKernelMemoryFill.cfg`. What is said of the
  places of objects in slabs and pools holds in any case.
- `MapsAligned`: the lengths of the boot loader's entries are whole pages;
  `MCKernelMemoryPartial.cfg` has one that is not. Without it `PmmCountTheorem`
  still says that g_pmm_free is never too low.
- `FormatsFit`: an object fits behind the slab header, and the page, the slab
  header and the cache line are multiples of the alignment. The header has 32
  bytes, so they are for the powers of two up to 32; an alignment of 64 is not
  kept, as objects begin at byte 32 of a page. Objects that leave no byte of a
  slab are within it: slab_create stops before a slab is cut.
- `GrowthFits`: a region by which a pool grows has room for an object;
  `MCKernelMemoryEmpty.cfg` has none. `CountsFit`: no pool has as many objects
  as its 32-bit counters can count.

The conditions from `OneCPU` on are met by the instance of `kernel_memory` as it
stands, `CountsFit` in each of its states. Not a condition of a theorem but of the
module (`InfoAssumption`): the entries of a map begin at a page's first byte, and
tags follow one another to one of type 0.

**The blocks of the buddy allocator**, `IInv`. That a merge yields an aligned
block needs that both halves were aligned and disjoint; that the buddy found on
a list does not overlap what another CPU holds needs the disjointness of lists,
held and owned blocks at once; that needs the lock, so `LockInv` ties each
CPU's position to the lock's owner; a block on its way through a split or a
merge is accounted for by `HeldInv`; the other zones must be known to be empty
(`ZonesEmpty`), or a free into UNMOVABLE could meet pages of another zone; and
`BootInv` says that nobody holds anything while the region is still being cut
and that no free block lies beyond the carved part. The bitmap's size is
arbitrary in the proofs: disjointness does not rest on it, because merging
looks the buddy up on the free list.

**Its accounts and its refinement**, `AInv`: `IInv` with the bitmap, the
counters, `PagesExact` (free_pages against the pages on the lists, off by the
block in hand inside a critical section), `CarveInv` (the cut of the region
leaves no two buddies) and `NoBuddies`, which also holds inside the critical
sections. The refinement maps the position of each CPU in `buddy_alloc_pages` or
`buddy_free_pages` to the state of its call (`AbsCall`); carving, acquiring the
lock and each iteration of a loop are stuttering steps. That a refusal is
justified is the hard case (`RefusedFull`): if the lists from the order asked for
upwards are empty and yet a block of that order has no page in use, the block
consists of smaller free blocks; in a smallest block of that kind both halves
would be free, against `NoBuddies` (`NeverCrumbled`).

**Copy-on-write**, `WInv`. `Structure` says what a CPU has in its hands at each
step of a call: the spaces, the page, and whether they are marked.
`Owned(p)` says, page by page, who may use it at once: spaces that share it,
or one alone (`SpacesShare`, `OwnersAlone`), never together with the free list,
a fresh copy or a CPU about to free it (`UsedNotFree`, `NewAlone`,
`DyingAlone`); `MarkedFirst` keeps everybody else away from a page that gets its
first two marks. Only with these does the count settle anything: a count of 1
means that the faulting space is the only user (`FaultCount`), one that reaches
0 that nobody is left (`DecCount`, `DecUnlink`). `EntryInv` says that nobody is
about to count in an entry that is unlinked. `NoRestore` and `CopyInv` are the
two ways in which a fault's count stays right after it was given up: it is never
restored, or no other CPU acted in between. That `MemoryPlenty` excludes a
failed allocation is itself proved (`PageLeft`), by counting who can hold a page.
`ViewInv`, for `Isolation`, adds that a copy holds what the page holds until the
page table has it. `MemoryPlenty` is stronger than what `cow_smp` has (5 pages
for 3 spaces and 2 CPUs): the run shows that less suffices there.

**Demand paging**, `DInv`: the regions, the lists they are on, the locals of
each fault, that a table is entered in one place only (`TablesInv`), and that a
page is in one place (`PagesOnce`). It holds with races and with regions unregistered under a
fault. `QInv` adds, for `Quiesce`, that a fault works on a registered region
whose lock it holds; `SInv` adds, for `LocksEnough`, what the second check under
the lock established and the table that was linked (`StoreInv`), and that every
frame is free or in use as a table (`FramesUsed`). `StableMapping` is an action
property: each step is shown to keep every mapping whose region is still there.

**Page cache**, `CInv`: table and list, one use for each page, and that the page
of an insert under way stays with its caller through the unlocked eviction
(`ArgsHeld`), and that a page left to a caller is used by nobody (`LeftAlone`). `RoomInv` for `Overshoot`: what was evicted for an insert still
counts until it is made, so that `total_pages` and the inserts under way
together are bounded.

**Heap**, `HInv`: the headers are sound (each ends where the next begins, the
prev links lead back, the last ends the heap), no two neighbours are free, and
the blocks in use are those callers have. **Keyboard**, `KInv`: what the reader
found stays true until it advances the tail, because the handler never moves
the tail and never fills the last slot; the mapping to `BoundedQueue` is the
sequence of the characters from tail to head.

**Memory of the kernel**, in layers, each proved from the ones before.
`BootInv` and `RegionInv`: nothing is handed out before `pmm_init`, and the
region is an available entry of the map. `PagesInv`: the pages of the region are
split between the two zones, the frames, the caches (structure, CPU cache's
array, slabs) and the pools (`Split`); a CPU that is about to give a cache its
array finds it without one, which is where one CPU is needed (`CallsOK`).
`PoolInv`: the regions of a pool are apart, none is free, and every object lies
on a chunk of one of them; `CountInv` adds that the free list has no object twice
and none that a caller has, so that growing, popping and pushing move the
counters with it. `SlabInv`: a slab belongs to one cache, is not free, and has a
header with the colour it was created with. `SortedInv`: the three lists of a
cache have no slab twice or in common, and `in_use` is what the free list leaves
(`CountOK`), so that the list a slab is on is the one its count says.
`AccountInv`: each object of a cache is lent, in the hands of the call under way,
ready in the CPU cache or on the free list of its slab, and only one of these
(`Parted`); what the call has read is still so when it stores (`CallOK`). For
`ObjectsAccounted` one must know that `slab_find_for_object`, which does not
look at empty slabs, finds the slab of every object in use: an empty slab has
all its objects on its free list, by counting, so none of them is in use.

Only model-checked: liveness (`LockReleased`), which with fairness
and ENABLED is out of the prover's reach; copy-on-write on several CPUs when
memory is short but does not fail, as in `cow_smp`.

## Plan

Composition: demand paging and copy-on-write over `Zones`, so that the
dependence on MOVABLE and on slab objects is checked end to end.

## Not modelled

`slab_cpu_cache_refill` and `slab_cpu_cache_drain`, which nobody calls; the
heap's slab branches; what the users of the pages behind the page cache's table
and the table write over each other; map entries that do not begin at a page's
first byte; zero-filling and page contents other than
in `Cow`; statistics and debug output; hit and miss counters; the four-level
index arithmetic of the VMM; `vmm_create_address_space`, beyond the frame it
takes; what else lies in the region the PMM picks (the kernel image, the boot
loader's tables, the heap);
`spinlock_try_acquire`, which nobody calls; interrupt tables, PIC, PIT, VGA,
serial, string and format functions; processor set-up. Memory is sequentially
consistent under locks (`lock cmpxchg`, `mfence`); the one unlocked race that
matters, in `get_or_alloc`, is modelled access by access.
