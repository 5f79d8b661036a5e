-------------------------------- MODULE Slab --------------------------------
(***************************************************************************)
(* The slab allocator, kernel/mm/slab.c.  A slab is a page, a cache is      *)
(* known by the page of its structure, an object by its address.           *)
(*                                                                          *)
(* The slab lists are changed under the cache's lock, in one step.  The     *)
(* cache of ready objects of CPU 0 serves every CPU and has no lock:        *)
(* slab_alloc and slab_free are cut at their accesses to it.  At -O2        *)
(* `available' is loaded once per call, and again after a call into the     *)
(* page allocator.  slab_cpu_cache_refill and _drain are never called.      *)
(***************************************************************************)
EXTENDS Zones

CONSTANTS
  CPUs,
  NULL,
  SLAB_HEADER,          \* sizeof(slab_t)
  CACHE_LINE_SIZE,
  SLAB_CPU_CACHE_SIZE,
  Formats,              \* the <<size, align>> callers create caches with
  MaxCaches             \* how many caches callers create at a time

ASSUME SlabAssumption ==
  /\ NULL \notin Nat
  /\ SLAB_HEADER \in Nat /\ CACHE_LINE_SIZE \in Nat \ {0}
  /\ SLAB_HEADER < BUDDY_PAGE_SIZE
  /\ SLAB_CPU_CACHE_SIZE \in Nat \ {0} /\ MaxCaches \in Nat
  /\ Formats \subseteq Nat \X Nat

VARIABLES
  g_cache_list,   \* the caches, newest first
  cache,          \* the cache structures, by page
  slab,           \* the slab headers, by page
  loans,          \* loans[c]: the <<cache, object>> pairs callers on c hold
  at,             \* where CPU c is in slab_alloc or slab_free ...
  arg             \* ... and what it works on

slabVars == <<g_cache_list, cache, slab, loans, at, arg>>
slabLists == <<g_cache_list, slab>>

SlabInit ==
  /\ g_cache_list = <<>>
  /\ cache = [p \in {} |-> 0] /\ slab = [p \in {} |-> 0]
  /\ loans = [c \in CPUs |-> {}]
  /\ at = [c \in CPUs |-> "idle"] /\ arg = [c \in CPUs |-> <<>>]

Go(c, l, a) == at' = [at EXCEPT ![c] = l] /\ arg' = [arg EXCEPT ![c] = a]

-----------------------------------------------------------------------------
(* Where objects lie *)

UsableSize == BUDDY_PAGE_SIZE - SLAB_HEADER

\* At least one object, even if it does not fit.
ObjectsPerSlab(object_size) ==
  LET n == UsableSize \div object_size IN IF n = 0 THEN 1 ELSE n

\* The bytes no object uses: the modulus of the colour.
Slack(k) == UsableSize - cache[k].objects_per_slab * cache[k].object_size

\* Mutant: the colour is not kept within the bytes left over.
ColorOffsetUnbounded(k) == cache[k].color_next * CACHE_LINE_SIZE

\* An object that does not fit makes the modulus a huge size_t.  There is no
\* colour when the objects fill the page (AllocDivides).
ColorOffset(k) ==
  LET offset == cache[k].color_next * CACHE_LINE_SIZE IN
  IF Slack(k) < 0 THEN offset ELSE offset % Slack(k)

FirstObject(p, k) == p * BUDDY_PAGE_SIZE + SLAB_HEADER + ColorOffset(k)

\* The objects of a slab of cache k whose first object is at base.
ObjectsFrom(base, k) ==
  {base + i * cache[k].object_size : i \in 0..(cache[k].objects_per_slab - 1)}

SlabPages(k) ==
  Range(cache[k].full) \cup Range(cache[k].partial) \cup Range(cache[k].empty)

-----------------------------------------------------------------------------
(* slab_cache_create and slab_cache_destroy *)

NewCache(size, align) ==
  LET a == IF align = 0 THEN 8 ELSE align
      object_size == align_up(size, a)
  IN
  [object_size |-> object_size, align |-> a,
   objects_per_slab |-> ObjectsPerSlab(object_size), color_next |-> 0,
   full |-> <<>>, partial |-> <<>>, empty |-> <<>>,
   objects |-> NULL, slots |-> [i \in 0..(SLAB_CPU_CACHE_SIZE - 1) |-> NULL],
   available |-> 0]

\* Sizes 0 and above a page are refused, and so is a call without memory.
slab_cache_create(c, size, align) ==
  /\ at[c] = "idle" /\ Cardinality(DOMAIN cache) < MaxCaches
  /\ \/ /\ size \in 1..BUDDY_PAGE_SIZE
        /\ \E p \in unmovable :
             /\ TakeUnmovable(p)
             /\ cache' = Put(cache, p, NewCache(size, align))
             /\ g_cache_list' = <<p>> \o g_cache_list
     \/ /\ size \notin 1..BUDDY_PAGE_SIZE \/ unmovable = {}
        /\ UNCHANGED <<cache, g_cache_list>> /\ UNCHANGED zoneVars
  /\ UNCHANGED <<slab, loans, at, arg>>

\* What a cache has taken from the page allocator.
CachePages(k) == {k} \cup SlabPages(k) \cup ({cache[k].objects} \ {NULL})

\* Mutant: the array of the CPU cache is not freed.
slab_cache_destroy_keeps(c, k) ==
  /\ at[c] = "idle"
  /\ \A d \in CPUs : at[d] # "idle" => arg[d][1] # k
  /\ g_cache_list' = Without(g_cache_list, k)
  /\ FreePages(CachePages(k) \ {cache[k].objects})
  /\ slab' = Drop(slab, SlabPages(k))
  /\ cache' = Drop(cache, {k})
  /\ loans' = [d \in CPUs |-> {x \in loans[d] : x[1] # k}]
  /\ UNCHANGED <<at, arg>>

\* Everything goes, objects callers still hold included.  The caller sees to
\* it that no other call uses the cache.
slab_cache_destroy(c, k) ==
  /\ at[c] = "idle"
  /\ \A d \in CPUs : at[d] # "idle" => arg[d][1] # k
  /\ g_cache_list' = Without(g_cache_list, k)
  /\ FreePages(CachePages(k))
  /\ slab' = Drop(slab, SlabPages(k))
  /\ cache' = Drop(cache, {k})
  /\ loans' = [d \in CPUs |-> {x \in loans[d] : x[1] # k}]
  /\ UNCHANGED <<at, arg>>

-----------------------------------------------------------------------------
(* slab_alloc *)

\* slab_create: every object is on the free list, the last one first.
NewSlab(p, k) ==
  LET base == FirstObject(p, k)
      n == cache[k].objects_per_slab
  IN [base |-> base, in_use |-> 0,
      free_list |-> [i \in 1..n |-> base + (n - i) * cache[k].object_size]]

\* Mutant: a slab without free objects stays on the partial list.
FilledStays(r, s, b) == r

\* Cache structure r after an object was taken from slab s, whose header
\* was b: slab_move_to_list when it was the last one.
Filled(r, s, b) ==
  IF b.in_use + 1 = r.objects_per_slab
    THEN [r EXCEPT !.partial = Without(@, s), !.full = <<s>> \o @]
    ELSE r

\* slab_alloc_from_slab: r has slab s at the head of its partial list.
Lend(c, k, r, s, b) ==
  /\ slab' = Put(slab, s, [b EXCEPT !.free_list = Tail(@), !.in_use = @ + 1])
  /\ cache' = [cache EXCEPT ![k] = Filled(r, s, b)]
  /\ loans' = [loans EXCEPT ![c] = @ \cup {<<k, Head(b.free_list)>>}]

\* `available' is loaded: a ready object, or the lock.
AllocLoad(c, k) ==
  /\ at[c] = "idle"
  /\ IF cache[k].available > 0 THEN Go(c, "alloc_store", <<k, cache[k].available>>)
                               ELSE Go(c, "alloc_slow", <<k>>)
  /\ UNCHANGED <<cache, loans>> /\ UNCHANGED slabLists /\ UNCHANGED zoneVars

\* Mutant: `available' is not counted down.
AllocStoreKeeps(c) ==
  /\ at[c] = "alloc_store"
  /\ Go(c, "alloc_read", arg[c])
  /\ UNCHANGED <<cache, loans>> /\ UNCHANGED slabLists /\ UNCHANGED zoneVars

AllocStore(c) ==
  /\ at[c] = "alloc_store"
  /\ cache' = [cache EXCEPT ![arg[c][1]].available = arg[c][2] - 1]
  /\ Go(c, "alloc_read", arg[c])
  /\ UNCHANGED loans /\ UNCHANGED slabLists /\ UNCHANGED zoneVars

AllocRead(c) ==
  /\ at[c] = "alloc_read"
  /\ LET k == arg[c][1] IN
     loans' = [loans EXCEPT ![c] = @ \cup {<<k, cache[k].slots[arg[c][2] - 1]>>}]
  /\ Go(c, "idle", <<>>)
  /\ UNCHANGED cache /\ UNCHANGED slabLists /\ UNCHANGED zoneVars

\* Nobody died with the lock of cache k.
Unlocked(k) == \A d \in CPUs : at[d] = "halted" => arg[d][1] # k

\* Under the lock: the first partial slab, the first free one, or a new one.
AllocSlow(c) ==
  LET k == arg[c][1]
      r == cache[k]
  IN
  /\ at[c] = "alloc_slow" /\ Unlocked(k)
  /\ \/ /\ r.partial # <<>>
        /\ Lend(c, k, r, Head(r.partial), slab[Head(r.partial)])
        /\ UNCHANGED zoneVars
     \/ /\ r.partial = <<>> /\ r.empty # <<>>
        /\ LET s == Head(r.empty) IN
           Lend(c, k, [r EXCEPT !.empty = Tail(@), !.partial = <<s>>], s, slab[s])
        /\ UNCHANGED zoneVars
     \/ /\ r.partial = <<>> /\ r.empty = <<>> /\ Slack(k) # 0
        /\ \E p \in reclaimable :
             /\ TakeReclaimable(p, 0)
             /\ Lend(c, k, [r EXCEPT !.partial = <<p>>,
                                     !.color_next = (@ + 1) % 8],
                     p, NewSlab(p, k))
     \/ /\ r.partial = <<>> /\ r.empty = <<>> /\ reclaimable = {}
        /\ UNCHANGED <<cache, slab, loans>> /\ UNCHANGED zoneVars
  /\ Go(c, "idle", <<>>)
  /\ UNCHANGED g_cache_list

\* The objects fill the page: slab_create takes a page for the slab and divides
\* by 0, and the exception handler stops the CPU for good, lock and page and all.
AllocDivides(c) ==
  LET k == arg[c][1] IN
  /\ at[c] = "alloc_slow" /\ Unlocked(k)
  /\ cache[k].partial = <<>> /\ cache[k].empty = <<>> /\ Slack(k) = 0
  /\ \E p \in reclaimable : reclaimable' = reclaimable \ {p}
  /\ damage' = damage \cup {"divide"}
  /\ Go(c, "halted", <<k>>)
  /\ UNCHANGED <<cache, loans, g_memory_start, g_memory_size, unmovable>>
  /\ UNCHANGED slabLists

\* interrupt_handler's loop around hlt.
Halted(c) == at[c] = "halted" /\ UNCHANGED slabVars /\ UNCHANGED zoneVars

-----------------------------------------------------------------------------
(* slab_free *)

\* available < limit
Room(k) == cache[k].available < SLAB_CPU_CACHE_SIZE

\* `available' is loaded: a slot for the object, an array for the slots, or
\* the lock.
FreeLoad(c, k, o) ==
  /\ at[c] = "idle" /\ <<k, o>> \in loans[c]
  /\ loans' = [loans EXCEPT ![c] = @ \ {<<k, o>>}]
  /\ Go(c, IF ~Room(k) THEN "free_slow"
           ELSE IF cache[k].objects = NULL THEN "free_array" ELSE "free_store",
        <<k, o, cache[k].available>>)
  /\ UNCHANGED cache /\ UNCHANGED slabLists /\ UNCHANGED zoneVars

\* A page for the array; without one, and no array from elsewhere, the lock.
FreeArray(c) ==
  LET k == arg[c][1] IN
  /\ at[c] = "free_array"
  /\ \/ \E p \in unmovable :
          /\ TakeUnmovable(p)
          /\ cache' = [cache EXCEPT ![k].objects = p]
          /\ Go(c, "free_store", <<k, arg[c][2], cache[k].available>>)
     \/ /\ unmovable = {}
        /\ Go(c, IF cache[k].objects = NULL THEN "free_slow" ELSE "free_store",
              <<k, arg[c][2], cache[k].available>>)
        /\ UNCHANGED cache /\ UNCHANGED zoneVars
  /\ UNCHANGED loans /\ UNCHANGED slabLists

FreeStore(c) ==
  /\ at[c] = "free_store"
  /\ cache' = [cache EXCEPT ![arg[c][1]].slots[arg[c][3]] = arg[c][2]]
  /\ Go(c, "free_count", arg[c])
  /\ UNCHANGED loans /\ UNCHANGED slabLists /\ UNCHANGED zoneVars

FreeCount(c) ==
  /\ at[c] = "free_count"
  /\ cache' = [cache EXCEPT ![arg[c][1]].available = arg[c][3] + 1]
  /\ Go(c, "idle", <<>>)
  /\ UNCHANGED loans /\ UNCHANGED slabLists /\ UNCHANGED zoneVars

\* The full and partial slabs are searched, not the free ones.
slab_find_for_object(k, o) ==
  LET found == {s \in Range(cache[k].full) \cup Range(cache[k].partial) :
                  o \div BUDDY_PAGE_SIZE = s}
  IN IF found = {} THEN NULL ELSE CHOOSE s \in found : TRUE

\* Cache structure r after an object went back to slab s, whose header was b.
Emptied(r, s, b) ==
  IF b.in_use = r.objects_per_slab
    THEN [r EXCEPT !.full = Without(@, s), !.partial = <<s>> \o @]
    ELSE IF b.in_use = 1
           THEN [r EXCEPT !.partial = Without(@, s), !.empty = <<s>> \o @]
           ELSE r

\* slab_free_to_slab
GivenBack(b, o) == [b EXCEPT !.free_list = <<o>> \o @, !.in_use = @ - 1]

\* An object that no slab has is only reported.
FreeSlow(c) ==
  LET k == arg[c][1]
      o == arg[c][2]
      s == slab_find_for_object(k, o)
  IN
  /\ at[c] = "free_slow" /\ Unlocked(k)
  /\ slab' = IF s = NULL THEN slab ELSE Put(slab, s, GivenBack(slab[s], o))
  /\ cache' = IF s = NULL THEN cache
              ELSE [cache EXCEPT ![k] = Emptied(@, s, slab[s])]
  /\ Go(c, "idle", <<>>)
  /\ UNCHANGED <<g_cache_list, loans>> /\ UNCHANGED zoneVars

SlabNext ==
  \E c \in CPUs :
    \/ \E f \in Formats : slab_cache_create(c, f[1], f[2])
    \/ \E k \in DOMAIN cache : slab_cache_destroy(c, k)
    \/ \E k \in DOMAIN cache : AllocLoad(c, k)
    \/ AllocStore(c) \/ AllocRead(c) \/ AllocSlow(c)
    \/ AllocDivides(c) \/ Halted(c)
    \/ \E x \in loans[c] : FreeLoad(c, x[1], x[2])
    \/ FreeArray(c) \/ FreeStore(c) \/ FreeCount(c) \/ FreeSlow(c)

-----------------------------------------------------------------------------
(* Properties *)

ObjectsOf(k) == UNION {ObjectsFrom(slab[s].base, k) : s \in SlabPages(k)}

\* An object on its way from or to a caller on CPU c.
InTransit(c) ==
  IF at[c] = "alloc_read"
    THEN {<<arg[c][1], cache[arg[c][1]].slots[arg[c][2] - 1]>>}
  ELSE IF at[c] \in {"free_array", "free_store", "free_count", "free_slow"}
    THEN {<<arg[c][1], arg[c][2]>>}
  ELSE {}

InHands(c) == loans[c] \cup InTransit(c)
Lent(k) == {x[2] : x \in {y \in UNION {InHands(c) : c \in CPUs} : y[1] = k}}
Ready(k) == {cache[k].slots[i] : i \in 0..(cache[k].available - 1)}
OnFreeLists(k) == UNION {Range(slab[s].free_list) : s \in SlabPages(k)}

\* Every object of every slab is in one place: with one caller, once in the CPU
\* cache, or on the free list of its slab; and nothing else is handed out.  The
\* CPU cache takes and gives objects without the lock (slab.c:212, :317), and a
\* free that finds no slab drops its object (slab.c:348).
ObjectsAccounted == Sound =>
  /\ \A c, d \in CPUs : c # d => InHands(c) \cap InHands(d) = {}
  /\ \A k \in DOMAIN cache :
       LET lent == Lent(k)
           ready == Ready(k)
           free == OnFreeLists(k)
       IN
       /\ Cardinality(ready) = cache[k].available
       /\ lent \cap ready = {} /\ free \cap (lent \cup ready) = {}
       /\ ObjectsOf(k) = lent \cup ready \cup free

\* A slab is on the list its number of used objects calls for, so that
\* slab_alloc never meets a partial slab without a free object and
\* slab_find_for_object finds every object in use.
ListsSorted == Sound =>
  /\ Range(g_cache_list) = DOMAIN cache
  /\ DOMAIN slab = UNION {SlabPages(k) : k \in DOMAIN cache}
  /\ \A k \in DOMAIN cache :
       LET r == cache[k] IN
       /\ Len(r.full) + Len(r.partial) + Len(r.empty) = Cardinality(SlabPages(k))
       /\ \A s \in SlabPages(k) :
            slab[s].in_use = r.objects_per_slab - Len(slab[s].free_list)
       /\ \A s \in Range(r.full) : slab[s].in_use = r.objects_per_slab
       /\ \A s \in Range(r.partial) : slab[s].in_use < r.objects_per_slab
       /\ \A s \in Range(r.empty) : slab[s].in_use = 0

\* Whatever its colour, a slab has its objects behind its header, inside its
\* page and aligned as the caller asked.
ObjectsPlaced ==
  \A k \in DOMAIN cache :
    \A s \in SlabPages(k) : \A o \in ObjectsFrom(slab[s].base, k) :
      /\ o >= s * BUDDY_PAGE_SIZE + SLAB_HEADER
      /\ o + cache[k].object_size <= (s + 1) * BUDDY_PAGE_SIZE
      /\ o % cache[k].align = 0

\* An object of any size the cache was created for can be allocated: no CPU
\* stops in slab_create (slab.c:156-158), whose modulus is 0 when the objects
\* fill the page.  With a header of 32 bytes those of 16 and 32 bytes do.
NoDivideError == \A c \in CPUs : at[c] # "halted"
=============================================================================
