-------------------------------- MODULE Heap --------------------------------
(***************************************************************************)
(* The kernel heap, kernel/mm/heap.c: a list of blocks that tile one range  *)
(* of memory, first fit, splitting and coalescing.                          *)
(*                                                                          *)
(* `heap' holds the block headers, by address: a header that coalesce has   *)
(* swallowed is memory of the swallowing block and is forgotten.  The       *)
(* allocation header in front of the caller's data is the field `asked' of  *)
(* its block; its magic number and its source are those kmalloc writes, as  *)
(* callers free what they got, once.  The heap has no lock and no interrupt *)
(* handler calls it: a call is one step.  Addresses and sizes are bytes.    *)
(***************************************************************************)
EXTENDS Integers, FiniteSets

CONSTANTS
  HeapStart,        \* the arguments of heap_init
  HeapSize,
  NULL,
  BLOCK_HEADER,     \* sizeof(block_header_t)
  ALLOC_HEADER,     \* sizeof(alloc_header_t)
  SLAB_MAX,         \* the largest size that has a slab cache
  SizeMod,          \* size_t wraps here
  HeaderMod,        \* alloc_header_t.size, a uint32_t, wraps here
  Sizes,            \* the sizes callers ask for
  Counts            \* the numbers of elements kcalloc is asked for

ASSUME HeapAssumption ==
  /\ HeapStart \in Nat \ {0}
  /\ BLOCK_HEADER \in Nat \ {0} /\ ALLOC_HEADER \in Nat \ {0}
  /\ HeapSize \in Nat /\ HeapSize > BLOCK_HEADER
  /\ SizeMod \in Nat \ {0} /\ HeaderMod \in Nat \ {0}
  /\ HeapStart + HeapSize < SizeMod /\ HeapSize < HeaderMod
  /\ SLAB_MAX \in Nat
  /\ Sizes \subseteq 0..(SizeMod - 1) /\ Counts \subseteq 0..(SizeMod - 1)
  /\ NULL \notin Nat

VARIABLES
  heap,              \* the headers of the blocks, by address
  live,              \* what callers hold: block -> bytes they may use
  g_slab_initialized,
  caches,            \* the eight caches: NULL or "created"
  boot               \* how far kernel_main is

vars == <<heap, live, g_slab_initialized, caches, boot>>

HeapEnd == HeapStart + HeapSize
Header(size, next, prev) ==
  [size |-> size, free |-> TRUE, next |-> next, prev |-> prev, asked |-> 0]

-----------------------------------------------------------------------------
(* Blocks *)

\* Mutant: the block behind keeps its prev.
SplitKeepsPrev(h, b, size) ==
  LET n == b + BLOCK_HEADER + size IN
  IF h[b].size < size + BLOCK_HEADER + 16 THEN h
  ELSE [a \in DOMAIN h \cup {n} |->
          IF a = n THEN Header(h[b].size - size - BLOCK_HEADER, h[b].next, b)
          ELSE IF a = b THEN [h[b] EXCEPT !.next = n, !.size = size]
          ELSE h[a]]

\* Cut block b after size bytes when a header and 16 bytes fit behind.
split_block(h, b, size) ==
  LET n == b + BLOCK_HEADER + size IN
  IF h[b].size < size + BLOCK_HEADER + 16 THEN h
  ELSE [a \in DOMAIN h \cup {n} |->
          IF a = n THEN Header(h[b].size - size - BLOCK_HEADER, h[b].next, b)
          ELSE IF a = b THEN [h[b] EXCEPT !.next = n, !.size = size]
          ELSE IF a = h[b].next THEN [h[a] EXCEPT !.prev = n]
          ELSE h[a]]

\* Block b swallows the block behind it when that is free.
SwallowNext(h, b) ==
  LET n == h[b].next IN
  IF n = NULL \/ ~h[n].free THEN h
  ELSE [a \in DOMAIN h \ {n} |->
          IF a = b THEN [h[b] EXCEPT !.size = @ + BLOCK_HEADER + h[n].size,
                                     !.next = h[n].next]
          ELSE IF a = h[n].next THEN [h[a] EXCEPT !.prev = b]
          ELSE h[a]]

\* Mutant: only the block behind is looked at.
CoalesceForward(h, b) == SwallowNext(h, b)

\* First the block behind b, then b into the block before it.
coalesce(h, b) ==
  LET g == SwallowNext(h, b)
      p == g[b].prev
  IN IF p # NULL /\ g[p].free THEN SwallowNext(g, p) ELSE g

-----------------------------------------------------------------------------
(* The start, in the order of kernel_main *)

Init ==
  /\ heap = [a \in {} |-> 0]
  /\ live = [a \in {} |-> 0]
  /\ g_slab_initialized = FALSE
  /\ caches = NULL
  /\ boot = "heap_init"

\* One free block; the slab caches only if slabs are already enabled.
heap_init ==
  /\ boot = "heap_init"
  /\ heap' = [a \in {HeapStart} |-> Header(HeapSize - BLOCK_HEADER, NULL, NULL)]
  /\ caches' = IF g_slab_initialized THEN "created" ELSE caches
  /\ boot' = "heap_enable_slab"
  /\ UNCHANGED <<live, g_slab_initialized>>

heap_enable_slab ==
  /\ boot = "heap_enable_slab"
  /\ g_slab_initialized' = TRUE
  /\ boot' = "up"
  /\ UNCHANGED <<heap, live, caches>>

-----------------------------------------------------------------------------
(* kmalloc and kfree *)

align16(n) == LET m == (n + 15) % SizeMod IN m - (m % 16)

\* Mutant: no room for the allocation header.
TotalSizeBare(size) == align16(size)

TotalSize(size) == align16((ALLOC_HEADER + size) % SizeMod)

\* The slab cache kmalloc would ask first.
CacheOf(size) ==
  IF g_slab_initialized /\ size <= SLAB_MAX THEN caches ELSE NULL

Fits(size) == {b \in DOMAIN heap : heap[b].free /\ heap[b].size >= TotalSize(size)}

\* The first block of the list that is free and large enough.  The list runs
\* upwards in memory (Tiles).
FirstFit(size) == CHOOSE b \in Fits(size) : \A c \in Fits(size) : b <= c

\* kmalloc with block b found: split it and fill in the headers.
Take(h, b, size) ==
  [split_block(h, b, TotalSize(size)) EXCEPT
     ![b].free = FALSE, ![b].asked = size % HeaderMod]

\* kfree of the data in block b.
Give(h, b) == coalesce([h EXCEPT ![b].free = TRUE, ![b].asked = 0], b)

\* What callers hold after p was given back and n bytes handed out at b.
Without(p) == [a \in DOMAIN live \ {p} |-> live[a]]
With(f, b, n) == [a \in DOMAIN f \cup {b} |-> IF a = b THEN n ELSE f[a]]

\* kmalloc fails on size 0 and when no block fits.  A slab cache would come
\* first: kernel_main leaves none (SmallFromSlab), and the branch is not modelled.
Allocate(size) ==
  /\ CacheOf(size) = NULL
  /\ \/ /\ size # 0 /\ Fits(size) # {}
        /\ heap' = Take(heap, FirstFit(size), size)
        /\ live' = With(live, FirstFit(size), size)
     \/ /\ size = 0 \/ Fits(size) = {}
        /\ UNCHANGED <<heap, live>>

Release(p) ==
  /\ heap' = Give(heap, p)
  /\ live' = Without(p)

kmalloc(size) ==
  /\ boot = "up" /\ Allocate(size)
  /\ UNCHANGED <<g_slab_initialized, caches, boot>>

kfree(p) ==
  /\ boot = "up" /\ Release(p)
  /\ UNCHANGED <<g_slab_initialized, caches, boot>>

-----------------------------------------------------------------------------
(* kcalloc and krealloc *)

\* The product as a size_t, 0 if either factor is.
Product(num, size) == (num * size) % SizeMod
ProductWraps(num, size) ==
  num # 0 /\ size # 0 /\ Product(num, size) \div num # size

kcalloc(num, size) ==
  /\ boot = "up"
  /\ \/ ProductWraps(num, size) /\ UNCHANGED <<heap, live>>
     \/ ~ProductWraps(num, size) /\ Allocate(Product(num, size))
  /\ UNCHANGED <<g_slab_initialized, caches, boot>>

\* Mutant: the old block is given back although there is no new one.
MoveLosesOld(p, size) ==
  \/ /\ Fits(size) # {}
     /\ heap' = Give(Take(heap, FirstFit(size), size), p)
     /\ live' = With(Without(p), FirstFit(size), size)
  \/ /\ Fits(size) = {}
     /\ heap' = Give(heap, p)
     /\ UNCHANGED live

\* A new block, the data copied, the old block freed; without a new block the
\* old one stays.
Move(p, size) ==
  \/ /\ Fits(size) # {}
     /\ heap' = Give(Take(heap, FirstFit(size), size), p)
     /\ live' = With(Without(p), FirstFit(size), size)
  \/ /\ Fits(size) = {}
     /\ UNCHANGED <<heap, live>>

krealloc(p, size) ==
  /\ boot = "up"
  /\ \/ p = NULL /\ Allocate(size)
     \/ p # NULL /\ size = 0 /\ Release(p)
     \/ /\ p # NULL /\ size # 0 /\ size <= heap[p].asked
        /\ live' = [live EXCEPT ![p] = size]
        /\ UNCHANGED heap
     \/ /\ p # NULL /\ size > heap[p].asked /\ CacheOf(size) = NULL
        /\ Move(p, size)
  /\ UNCHANGED <<g_slab_initialized, caches, boot>>

Next ==
  \/ heap_init
  \/ heap_enable_slab
  \/ \E size \in Sizes : kmalloc(size)
  \/ \E num \in Counts, size \in Sizes : kcalloc(num, size)
  \/ \E p \in DOMAIN live \cup {NULL}, size \in Sizes : krealloc(p, size)
  \/ \E p \in DOMAIN live : kfree(p)

Spec == Init /\ [][Next]_vars

-----------------------------------------------------------------------------
(* Properties *)

Addrs == HeapStart..(HeapEnd - 1)
Booted == boot # "heap_init"

BlockHeaders ==
  [size : 0..HeapSize, free : BOOLEAN, next : Addrs \cup {NULL},
   prev : Addrs \cup {NULL}, asked : 0..(HeaderMod - 1)]

\* Types.
TypeOK ==
  /\ DOMAIN heap \subseteq Addrs
  /\ \A b \in DOMAIN heap : heap[b] \in BlockHeaders
  /\ DOMAIN live \subseteq DOMAIN heap
  /\ \A p \in DOMAIN live : live[p] \in 1..(SizeMod - 1)
  /\ boot \in {"heap_init", "heap_enable_slab", "up"}
  /\ g_slab_initialized = (boot = "up")
  /\ caches \in {NULL, "created"}

\* The blocks tile the heap and the list joins them in order of address in both
\* directions: split_block and coalesce leave no gap and no dangling pointer.
Tiles ==
  Booted =>
    /\ HeapStart \in DOMAIN heap /\ heap[HeapStart].prev = NULL
    /\ \A b \in DOMAIN heap :
         LET e == b + BLOCK_HEADER + heap[b].size IN
         /\ heap[b].next = NULL => e = HeapEnd
         /\ heap[b].next # NULL =>
              /\ heap[b].next = e /\ e \in DOMAIN heap /\ heap[e].prev = b
         /\ b # HeapStart =>
              /\ heap[b].prev \in DOMAIN heap /\ heap[heap[b].prev].next = b

\* No two neighbours are free: one coalesce per kfree is enough, also after
\* the kmalloc and kfree of a krealloc.
Coalesced ==
  \A b \in DOMAIN heap :
    heap[b].free /\ heap[b].next # NULL => ~heap[heap[b].next].free

\* The blocks in use are those callers hold, and each has room for the
\* allocation header and for what its caller may use.
Served ==
  /\ {b \in DOMAIN heap : ~heap[b].free} = DOMAIN live
  /\ \A p \in DOMAIN live :
       /\ live[p] <= heap[p].asked
       /\ heap[p].asked + ALLOC_HEADER <= heap[p].size

\* Small sizes have a slab cache once slabs are enabled, as test_heap.c:33 and
\* :84 expect.  kernel_main calls heap_init, which creates the caches, before
\* heap_enable_slab (kernel/core/main.c:72-73).
SmallFromSlab ==
  boot = "up" => \A size \in Sizes : size <= SLAB_MAX => CacheOf(size) # NULL
=============================================================================
