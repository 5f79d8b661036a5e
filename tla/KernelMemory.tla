----------------------------- MODULE KernelMemory -----------------------------
(***************************************************************************)
(* The physical memory of the kernel from kernel_main on: the boot loader's *)
(* tags are searched for a memory map, the physical memory manager hands a  *)
(* region of it to the page allocator, and frames, slabs and pools come     *)
(* from there and go back in any order.                                     *)
(***************************************************************************)
EXTENDS Slab, Pool, Pmm

CONSTANT Infos    \* what the boot loader may hand over: functions from
                  \* offsets to tags [type, size, mmap], type 0 the last one
                  \* and type 6 the memory map, whose entries are mmap

\* Tags follow one another up to one of type 0, and the entries of a memory
\* map begin at a page's first byte.
ASSUME InfoAssumption ==
  \A i \in Infos :
    /\ 0 \in DOMAIN i
    /\ \A off \in DOMAIN i :
         /\ off \in Nat /\ i[off].type \in Nat /\ i[off].size \in Nat
         /\ i[off].mmap \in Seq([addr : Nat, len : Nat, type : Nat])
         /\ \A n \in DOMAIN i[off].mmap : i[off].mmap[n].addr % BUDDY_PAGE_SIZE = 0
         /\ i[off].type # 0 => off + align_up(i[off].size, 8) \in DOMAIN i

VARIABLES
  multiboot_info,
  tags,            \* the offset kernel_main is at
  boot             \* "tags", "pmm", then "ready"

bootVars == <<multiboot_info, tags, boot>>
vars == <<zoneVars, slabVars, poolVars, pmmVars, bootVars>>

Init ==
  /\ ZonesInit /\ SlabInit /\ PoolInit /\ PmmInit
  /\ multiboot_info \in Infos /\ tags = 0 /\ boot = "tags"

-----------------------------------------------------------------------------
(* kernel_main *)

\* One tag; the last memory map counts.
ReadTag ==
  LET t == multiboot_info[tags] IN
  /\ boot = "tags"
  /\ IF t.type = 0
       THEN boot' = "pmm" /\ UNCHANGED <<tags, mmap>>
       ELSE /\ mmap' = IF t.type = 6 THEN t.mmap ELSE mmap
            /\ tags' = tags + align_up(t.size, 8)
            /\ UNCHANGED boot
  /\ UNCHANGED <<multiboot_info, g_pmm_total, g_pmm_free, g_buddy_initialized, frames>>
  /\ UNCHANGED <<zoneVars, slabVars, poolVars>>

\* pmm_init if there is a map with entries, and slab_init.
InitMemory ==
  /\ boot = "pmm" /\ boot' = "ready"
  /\ IF mmap # <<>> THEN pmm_init ELSE UNCHANGED pmmVars /\ UNCHANGED zoneVars
  /\ g_cache_list' = <<>>
  /\ UNCHANGED <<cache, slab, loans, at, arg, poolVars, multiboot_info, tags>>

Boot == ReadTag \/ InitMemory

\* A CPU that can start a call: it is not inside one of the slab allocator.
Idle == boot = "ready" /\ \E c \in CPUs : at[c] = "idle"

Next ==
  \/ Boot
  \/ boot = "ready" /\ SlabNext /\ UNCHANGED <<poolVars, pmmVars, bootVars>>
  \/ Idle /\ PoolNext /\ UNCHANGED <<slabVars, pmmVars, bootVars>>
  \/ Idle /\ PmmNext /\ UNCHANGED <<slabVars, poolVars, bootVars>>

Spec == Init /\ [][Next]_vars

\* The one CPU that boots keeps running.
FairSpec == Spec /\ WF_vars(Boot)

-----------------------------------------------------------------------------
(* Properties *)

Held ==
  frames \cup (UNION {CachePages(k) : k \in DOMAIN cache})
         \cup (UNION {PoolPages(q) : q \in DOMAIN pool})

\* No two of the frames, the caches and the pools have a page in common.
OwnersApart ==
  /\ \A k \in DOMAIN cache : frames \cap CachePages(k) = {}
  /\ \A q \in DOMAIN pool : frames \cap PoolPages(q) = {}
  /\ \A k \in DOMAIN cache, q \in DOMAIN pool : CachePages(k) \cap PoolPages(q) = {}
  /\ \A j, k \in DOMAIN cache : j # k => CachePages(j) \cap CachePages(k) = {}
  /\ \A p, q \in DOMAIN pool : p # q => PoolPages(p) \cap PoolPages(q) = {}

\* Every page of the region is in one place: free in one zone, a frame of the
\* PMM, or of one cache or one pool.  It takes a call of one component and the
\* matching call later, with those of others between, to lose or to double one:
\* slab_cache_destroy must find all the pages of a cache, pool_destroy those of
\* its regions (pool.c:157-184).  The wrong guess of an order ends it
\* (FreedProperly), and so does a CPU that stops with a page (NoDivideError).
PagesAccounted ==
  Sound /\ boot = "ready" =>
    /\ unmovable \cup reclaimable \cup Held = RegionPages(g_memory_start, g_memory_size)
    /\ unmovable \cap reclaimable = {} /\ Held \cap (unmovable \cup reclaimable) = {}
    /\ OwnersApart

\* kernel_main's search of the boot loader's tags comes to an end (main.c:34-48).
\* It takes the first 8 bytes of the table, its size and a 0, for a tag, and a tag
\* of size 0 is never passed.
BootEnds == <>(boot = "ready")
=============================================================================
