----------------------------- MODULE DemandPaging -----------------------------
(***************************************************************************)
(* Demand paging, kernel/mm/demand_paging.c: regions of address spaces     *)
(* whose pages are allocated at the first access, each with a lock for its *)
(* page faults.                                                            *)
(*                                                                         *)
(* Addresses wrap at AddrMod.  A region structure is an object of the slab *)
(* cache; freeing it leaves its memory as it was until it is allocated     *)
(* again.  A section under an address space's lock is one step, and        *)
(* demand_paging_handle_fault is cut where it can be interleaved: after    *)
(* the region was found, before it takes the region's lock and at each     *)
(* step under it, those of vmm_map_page (kernel/mm/vmm.c) included.  The   *)
(* three levels of tables that vmm_map_page creates on its way, all in the *)
(* same manner, are one here.  The contents of pages, and so zero-filling, *)
(* are left out.                                                           *)
(*                                                                         *)
(* buddy_init gives the MOVABLE and RECLAIMABLE zones no page (Buddy,      *)
(* ZoneFlagsServed), so the kernel as it boots is the instance with no     *)
(* Objects and no Pages, in which every call fails.  The runs give the     *)
(* component the memory it is written for.                                 *)
(***************************************************************************)
EXTENDS Integers, Sequences, FiniteSets, Functions

CONSTANTS
  CPUs,
  Pml4s,                \* the page tables
  Objects,              \* the objects of vm_region_cache
  Pages,                \* the pages of the MOVABLE zone
  Frames,               \* the frames pmm_alloc_frame has for page tables
  None,
  MAX_ADDRESS_SPACES,
  BUDDY_PAGE_SIZE,
  AddrMod,              \* addresses are below this, 2^64 in the code
  TableSpan,            \* the addresses one page table covers
  Quiesce               \* TRUE: a caller unregisters a region only when no
                        \* fault is being handled in it

ASSUME PagingAssumption ==
  /\ None \notin CPUs \cup Pages \cup Objects \cup Frames
  /\ MAX_ADDRESS_SPACES \in Nat
  /\ BUDDY_PAGE_SIZE \in Nat \ {0} /\ AddrMod \in Nat \ {0}
  /\ AddrMod % BUDDY_PAGE_SIZE = 0
  /\ TableSpan \in Nat \ {0} /\ TableSpan % BUDDY_PAGE_SIZE = 0
  /\ Quiesce \in BOOLEAN

VARIABLES
  spaces,     \* address_spaces[0..address_space_count-1].pml4, in order
  regions,    \* regions[m]: the region list of page table m, head first
  start, end, demand,   \* the fields of each region object
  plock,      \* page_fault_lock of each region object
  dir,        \* dir[m][i]: the i-th table of page table m, or None
  pt,         \* pt[f][v]: the page that the table in frame f maps at v
  frames,     \* the frames left for page tables
  movable,    \* the MOVABLE zone's free pages
  unmovable,  \* pages of ours that are free in the UNMOVABLE zone
  pc,         \* pc[c]: where c is in demand_paging_handle_fault
  as, addr,   \* its arguments, the address aligned
  region,     \* its region
  phys,       \* its phys_addr
  table       \* the table vmm_map_page works on

regionVars == <<regions, start, end, demand>>
vmmVars == <<dir, pt, frames>>
zoneVars == <<movable, unmovable>>
callVars == <<as, addr, region, phys, table>>
vars == <<spaces, regions, start, end, demand, plock, dir, pt, frames,
          movable, unmovable, pc, as, addr, region, phys, table>>

Addresses == 0..(AddrMod - 1)
AlignDown(a) == a - (a % BUDDY_PAGE_SIZE)
AlignUp(a) == AlignDown((a + BUDDY_PAGE_SIZE - 1) % AddrMod)
PageAddrs == {a \in Addresses : AlignDown(a) = a}
TableOf(a) == a \div TableSpan
TableIndices == {TableOf(a) : a \in PageAddrs}
NoEntries == [v \in PageAddrs |-> None]

Goto(c, l) == pc' = [pc EXCEPT ![c] = l]

\* The call returns and its locals are gone.
Return(c) ==
  /\ Goto(c, "idle")
  /\ as' = [as EXCEPT ![c] = None]
  /\ addr' = [addr EXCEPT ![c] = 0]
  /\ region' = [region EXCEPT ![c] = None]
  /\ phys' = [phys EXCEPT ![c] = None]
  /\ table' = [table EXCEPT ![c] = None]

\* demand_paging_init
Init ==
  /\ spaces = <<>>
  /\ regions = [m \in Pml4s |-> <<>>]
  /\ start = [o \in Objects |-> 0]
  /\ end = [o \in Objects |-> 0]
  /\ demand = [o \in Objects |-> FALSE]
  /\ plock = [o \in Objects |-> None]
  /\ dir = [m \in Pml4s |-> [i \in TableIndices |-> None]]
  /\ pt = [f \in Frames |-> NoEntries]
  /\ frames = Frames
  /\ movable = Pages
  /\ unmovable = {}
  /\ pc = [c \in CPUs |-> "idle"]
  /\ as = [c \in CPUs |-> None]
  /\ addr = [c \in CPUs |-> 0]
  /\ region = [c \in CPUs |-> None]
  /\ phys = [c \in CPUs |-> None]
  /\ table = [c \in CPUs |-> None]

-----------------------------------------------------------------------------
(* The page tables, kernel/mm/vmm.c *)

vmm_get_physical_address(m, v) ==
  LET f == dir[m][TableOf(v)] IN IF f = None THEN None ELSE pt[f][v]

\* Mutant: the entries are left as they were.
vmm_unmap_pages_none(m, V) == UNCHANGED pt

\* vmm_unmap_page of every address in V.
vmm_unmap_pages(m, V) ==
  pt' = [f \in Frames |->
           IF f \in Range(dir[m])
             THEN [v \in PageAddrs |-> IF v \in V THEN None ELSE pt[f][v]]
             ELSE pt[f]]

-----------------------------------------------------------------------------
(* Address spaces *)

\* Mutant: the table of address spaces has no end.
HasSlotUnbounded(m) == TRUE

\* A page table has a slot or can get one.
HasSlot(m) == m \in Range(spaces) \/ Len(spaces) < MAX_ADDRESS_SPACES

\* demand_paging_get_address_space: every function takes a slot for a page
\* table it has not seen; no function gives one back.
get_address_space(m) ==
  spaces' = IF m \notin Range(spaces) /\ HasSlot(m)
              THEN Append(spaces, m) ELSE spaces

-----------------------------------------------------------------------------
(* demand_paging_register_region *)

\* Objects in use.
Live == UNION {Range(regions[m]) : m \in Pml4s}

\* Mutant: a new region around an old one is not seen.
OverlapsNoEnclosing(s, e, o) ==
  \/ s >= start[o] /\ s < end[o]
  \/ e > start[o] /\ e <= end[o]

\* The overlap check of [s, e) against region o.
Overlaps(s, e, o) ==
  \/ s >= start[o] /\ s < end[o]
  \/ e > start[o] /\ e <= end[o]
  \/ s <= start[o] /\ e >= end[o]

Register(m, s, size, dp) ==
  LET aligned_start == AlignDown(s)
      aligned_end == AlignUp((s + size) % AddrMod)
      overlap == \E o \in Range(regions[m]) :
                   Overlaps(aligned_start, aligned_end, o)
  IN
  /\ size > 0
  /\ get_address_space(m)
  /\ \/ /\ HasSlot(m) /\ ~overlap
        /\ \E o \in Objects \ Live :
             /\ start' = [start EXCEPT ![o] = aligned_start]
             /\ end' = [end EXCEPT ![o] = aligned_end]
             /\ demand' = [demand EXCEPT ![o] = dp]
             /\ plock' = [plock EXCEPT ![o] = None]
             /\ regions' = [regions EXCEPT ![m] = <<o>> \o @]
     \/ /\ ~HasSlot(m) \/ overlap \/ Objects = Live
        /\ UNCHANGED <<regionVars, plock>>
  /\ UNCHANGED <<vmmVars, zoneVars, pc, callVars>>

-----------------------------------------------------------------------------
(* demand_paging_handle_fault *)

\* The regions that contain address a.
Containing(a) == {o \in Objects : a >= start[o] /\ a < end[o]}

\* Where a walk along list stops: at the first of the regions S, if any.
First(list, S) ==
  {i \in 1..Len(list) :
     list[i] \in S /\ \A j \in 1..(i - 1) : list[j] \notin S}

\* demand_paging_find_region, whose result is used after its lock is gone; an
\* address in no region is refused.
FaultFind(c, m, v) ==
  LET aligned_addr == AlignDown(v)
      found == First(regions[m], Containing(aligned_addr))
  IN
  /\ pc[c] = "idle"
  /\ get_address_space(m)
  /\ \/ /\ found = {}
        /\ UNCHANGED <<pc, callVars>>
     \/ \E i \in found :
          /\ Goto(c, "fault_check")
          /\ as' = [as EXCEPT ![c] = m]
          /\ addr' = [addr EXCEPT ![c] = aligned_addr]
          /\ region' = [region EXCEPT ![c] = regions[m][i]]
          /\ UNCHANGED <<phys, table>>
  /\ UNCHANGED <<regionVars, plock, vmmVars, zoneVars>>

IsMapped(c) == vmm_get_physical_address(as[c], addr[c]) # None

\* The flag and the first, unlocked check.
FaultCheck(c) ==
  /\ pc[c] = "fault_check"
  /\ IF demand[region[c]] /\ ~IsMapped(c)
       THEN Goto(c, "fault_lock") /\ UNCHANGED callVars
       ELSE Return(c)
  /\ UNCHANGED <<spaces, regionVars, plock, vmmVars, zoneVars>>

\* Mutant: the lock is not waited for.
FaultLockFree(c) ==
  /\ pc[c] = "fault_lock"
  /\ plock' = [plock EXCEPT ![region[c]] = c]
  /\ Goto(c, "fault_recheck")
  /\ UNCHANGED <<spaces, regionVars, vmmVars, zoneVars, callVars>>

FaultLock(c) ==
  /\ pc[c] = "fault_lock"
  /\ plock[region[c]] = None
  /\ plock' = [plock EXCEPT ![region[c]] = c]
  /\ Goto(c, "fault_recheck")
  /\ UNCHANGED <<spaces, regionVars, vmmVars, zoneVars, callVars>>

Unlock(c) == plock' = [plock EXCEPT ![region[c]] = None]

\* Mutant: no second check.
FaultRecheckSkipped(c) ==
  /\ pc[c] = "fault_recheck"
  /\ Goto(c, "fault_alloc")
  /\ UNCHANGED <<spaces, regionVars, plock, vmmVars, zoneVars, callVars>>

\* The second check, with the lock.
FaultRecheck(c) ==
  /\ pc[c] = "fault_recheck"
  /\ IF IsMapped(c)
       THEN Unlock(c) /\ Return(c)
       ELSE Goto(c, "fault_alloc") /\ UNCHANGED <<plock, callVars>>
  /\ UNCHANGED <<spaces, regionVars, vmmVars, zoneVars>>

\* A page of the MOVABLE zone; without one the call returns -1.
FaultAlloc(c) ==
  /\ pc[c] = "fault_alloc"
  /\ \/ \E p \in movable :
          /\ movable' = movable \ {p}
          /\ phys' = [phys EXCEPT ![c] = p]
          /\ Goto(c, "map_walk")
          /\ UNCHANGED <<plock, as, addr, region, table>>
     \/ movable = {} /\ Unlock(c) /\ Return(c) /\ UNCHANGED movable
  /\ UNCHANGED <<spaces, regionVars, vmmVars, unmovable>>

\* vmm_map_page, which holds no lock of its own: get_or_alloc reads the entry
\* for the table and, if there is none, takes a frame and clears it.  Without
\* a frame vmm_map_page gives up; it returns nothing, so the fault returns 0.
MapWalk(c) ==
  LET f == dir[as[c]][TableOf(addr[c])] IN
  /\ pc[c] = "map_walk"
  /\ \/ /\ f # None
        /\ table' = [table EXCEPT ![c] = f]
        /\ Goto(c, "map_store")
        /\ UNCHANGED <<plock, pt, frames, as, addr, region, phys>>
     \/ /\ f = None
        /\ \E g \in frames :
             /\ frames' = frames \ {g}
             /\ pt' = [pt EXCEPT ![g] = NoEntries]
             /\ table' = [table EXCEPT ![c] = g]
        /\ Goto(c, "map_link")
        /\ UNCHANGED <<plock, as, addr, region, phys>>
     \/ /\ f = None /\ frames = {}
        /\ Unlock(c) /\ Return(c)
        /\ UNCHANGED <<pt, frames>>
  /\ UNCHANGED <<spaces, regionVars, dir, zoneVars>>

\* The new table is entered, whatever the entry holds by now.
MapLink(c) ==
  /\ pc[c] = "map_link"
  /\ dir' = [dir EXCEPT ![as[c]][TableOf(addr[c])] = table[c]]
  /\ Goto(c, "map_reload")
  /\ UNCHANGED <<spaces, regionVars, plock, pt, frames, zoneVars, callVars>>

\* get_or_alloc reads the entry back; as nothing orders that against other
\* CPUs, the compiler may use the value just stored instead.
MapReload(c) ==
  /\ pc[c] = "map_reload"
  /\ \E f \in {table[c], dir[as[c]][TableOf(addr[c])]} :
       table' = [table EXCEPT ![c] = f]
  /\ Goto(c, "map_store")
  /\ UNCHANGED <<spaces, regionVars, plock, vmmVars, zoneVars, as, addr,
                 region, phys>>

\* The page is entered, the lock released, and the fault returns 0.
MapStore(c) ==
  /\ pc[c] = "map_store"
  /\ pt' = [pt EXCEPT ![table[c]][addr[c]] = phys[c]]
  /\ Unlock(c)
  /\ Return(c)
  /\ UNCHANGED <<spaces, regionVars, dir, frames, zoneVars>>

-----------------------------------------------------------------------------
(* demand_paging_unregister_region *)

\* CPUs that handle a fault in region o.
Users(o) == {c \in CPUs : region[c] = o}

RegionPages(o) == {v \in PageAddrs : v >= start[o] /\ v < end[o]}

\* Mutant: the pages are unmapped, not freed.
FreedNone(m, o) == {}

\* The pages mapped in region o, which go back to the buddy allocator.
Freed(m, o) ==
  {vmm_get_physical_address(m, v) : v \in RegionPages(o)} \ {None}

StartingAt(a) == {o \in Objects : start[o] = a}

\* The i-th region leaves the list.
Unlink(list, i) == SubSeq(list, 1, i - 1) \o SubSeq(list, i + 1, Len(list))

\* The region that starts there leaves the list, its pages are unmapped and
\* freed (buddy_free_pages puts every page into the UNMOVABLE zone), and its
\* object goes back to the slab cache.
Unregister(m, s) ==
  LET found == First(regions[m], StartingAt(AlignDown(s))) IN
  /\ get_address_space(m)
  /\ \/ found = {} /\ UNCHANGED <<regions, pt, unmovable>>
     \/ \E i \in found :
          LET o == regions[m][i] IN
          /\ Quiesce => Users(o) = {}
          /\ regions' = [regions EXCEPT ![m] = Unlink(@, i)]
          /\ vmm_unmap_pages(m, RegionPages(o))
          /\ unmovable' = unmovable \cup Freed(m, o)
  /\ UNCHANGED <<start, end, demand, plock, dir, frames, movable, pc,
                 callVars>>

-----------------------------------------------------------------------------
(* The specification *)

Fault(c) ==
  \/ \E m \in Pml4s, v \in Addresses : FaultFind(c, m, v)
  \/ FaultCheck(c) \/ FaultLock(c) \/ FaultRecheck(c)
  \/ FaultAlloc(c) \/ MapWalk(c) \/ MapLink(c) \/ MapReload(c) \/ MapStore(c)

Next ==
  \/ \E m \in Pml4s, s \in Addresses :
       \/ \E size \in Addresses, dp \in BOOLEAN : Register(m, s, size, dp)
       \/ Unregister(m, s)
  \/ \E c \in CPUs : Fault(c)

Spec == Init /\ [][Next]_vars

-----------------------------------------------------------------------------
(* Properties *)

TypeOK ==
  /\ spaces \in Seq(Pml4s) /\ Len(spaces) <= MAX_ADDRESS_SPACES
  /\ regions \in [Pml4s -> Seq(Objects)]
  /\ start \in [Objects -> PageAddrs] /\ end \in [Objects -> PageAddrs]
  /\ demand \in [Objects -> BOOLEAN]
  /\ plock \in [Objects -> CPUs \cup {None}]
  /\ dir \in [Pml4s -> [TableIndices -> Frames \cup {None}]]
  /\ pt \in [Frames -> [PageAddrs -> Pages \cup {None}]]
  /\ frames \subseteq Frames
  /\ movable \subseteq Pages /\ unmovable \subseteq Pages
  /\ pc \in [CPUs -> {"idle", "fault_check", "fault_lock", "fault_recheck",
                      "fault_alloc", "map_walk", "map_link", "map_reload",
                      "map_store"}]
  /\ as \in [CPUs -> Pml4s \cup {None}]
  /\ addr \in [CPUs -> PageAddrs]
  /\ region \in [CPUs -> Objects \cup {None}]
  /\ phys \in [CPUs -> Pages \cup {None}]
  /\ table \in [CPUs -> Frames \cup {None}]

\* The page a space has at address v.
Mapping(m, v) == vmm_get_physical_address(m, v)

\* The regions of an address space share no page, though the check compares
\* bounds that aligning and wrapping have moved.
RegionsDisjoint ==
  \A m \in Pml4s : \A o, p \in Range(regions[m]) :
    o # p => RegionPages(o) \cap RegionPages(p) = {}

\* A registered region contains its start address, so that
\* demand_paging_find_region finds it there, as
\* kernel/tests/test_demand_paging.c expects.
RegisteredFound ==
  \A m \in Pml4s : \A o \in Range(regions[m]) : start[o] \in RegionPages(o)

\* A page is mapped in at most one place, and not while it is free or in the
\* hands of a fault.
MappedOnce ==
  /\ \A m, n \in Pml4s, v, w \in PageAddrs :
       Mapping(m, v) # None /\ Mapping(m, v) = Mapping(n, w)
         => m = n /\ v = w
  /\ \A m \in Pml4s, v \in PageAddrs :
       Mapping(m, v) \notin movable \cup unmovable
                             \cup ({phys[c] : c \in CPUs} \ {None})

\* No page is lost between faults that race for the same address and
\* unregistrations: it is free, mapped, or about to be.
NoPageLost ==
  \A p \in Pages :
    \/ p \in movable \cup unmovable
    \/ \E m \in Pml4s, v \in PageAddrs : Mapping(m, v) = p
    \/ \E c \in CPUs : phys[c] = p

\* Unregistering leaves nothing behind: every mapped page belongs to a region
\* that is still registered.
MappedInRegion ==
  \A m \in Pml4s, v \in PageAddrs :
    Mapping(m, v) # None => \E o \in Range(regions[m]) : v \in RegionPages(o)

\* A mapped page stays where it is until its region is unregistered: no fault,
\* of this region or of another, replaces it or takes it away.  The locking of
\* docs/memory_management.md is to see to that.
StableMapping ==
  [][\A m \in Pml4s, v \in PageAddrs :
       /\ Mapping(m, v) # None
       /\ v \in UNION {RegionPages(o)' : o \in Range(regions'[m])}
       => Mapping(m, v)' = Mapping(m, v)]_vars

\* A fault that returns 0 leaves the page mapped, as
\* kernel/tests/test_demand_paging.c expects.
FaultMaps ==
  [][\A c \in CPUs, m \in Pml4s, v \in PageAddrs :
       /\ pc[c] \in {"map_walk", "map_store"} /\ pc'[c] = "idle"
       /\ m = as[c] /\ v = addr[c]
       => Mapping(m, v)' # None]_vars

\* The limit of include/mm/demand_paging.h is on concurrent address spaces: a
\* page table goes without a slot only while that many others have regions.
SlotsForConcurrent ==
  \A m \in Pml4s :
    ~HasSlot(m) =>
      Cardinality({n \in Pml4s : regions[n] # <<>>}) >= MAX_ADDRESS_SPACES
=============================================================================
