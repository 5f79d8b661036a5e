-------------------------- MODULE DemandPagingProofs --------------------------
(***************************************************************************)
(* Proofs about demand paging, for any number of CPUs, address spaces,     *)
(* regions, pages and table frames and any page size: regions stay         *)
(* disjoint and no page is mapped twice; while regions are unregistered    *)
(* only at rest, nothing outside a region is mapped; and where the locks   *)
(* suffice no fault takes away what another mapped, and no page is lost.   *)
(***************************************************************************)
EXTENDS DemandPaging, MathLemmas, FiniteSetTheorems

-----------------------------------------------------------------------------
(* The inductive invariant *)

Mapping_pcs == {"map_walk", "map_link", "map_reload", "map_store"}

\* A call in progress has its arguments, and a page exactly while it maps one.
CallInv ==
  \A c \in CPUs :
    /\ pc[c] # "idle" => as[c] \in Pml4s /\ region[c] \in Objects
    /\ pc[c] = "idle" => region[c] = None
    /\ phys[c] # None <=> pc[c] \in Mapping_pcs

\* No region is listed twice.
ListOnce == \A m \in Pml4s : IsInjective(regions[m])

\* A table is entered in one place, and no free frame is entered.
DirOnce ==
  /\ \A m, n \in Pml4s, i, j \in TableIndices :
       dir[m][i] # None /\ dir[m][i] = dir[n][j] => m = n /\ i = j
  /\ \A m \in Pml4s, i \in TableIndices : dir[m][i] \notin frames

\* A new table is empty and known to its CPU only.
FreshTables ==
  \A c \in CPUs : pc[c] = "map_link" =>
    /\ table[c] \in Frames /\ table[c] \notin frames
    /\ \A m \in Pml4s, i \in TableIndices : dir[m][i] # table[c]
    /\ \A v \in PageAddrs : pt[table[c]][v] = None
    /\ \A d \in CPUs \ {c} :
         pc[d] \in {"map_link", "map_reload", "map_store"} => table[d] # table[c]

\* A table about to be written is entered where it belongs, or nowhere.
UsedTables ==
  \A c \in CPUs : pc[c] \in {"map_reload", "map_store"} =>
    /\ table[c] \in Frames /\ table[c] \notin frames
    /\ \A m \in Pml4s, i \in TableIndices :
         dir[m][i] = table[c] => m = as[c] /\ i = TableOf(addr[c])
    /\ pc[c] = "map_reload" => dir[as[c]][TableOf(addr[c])] # None

TablesInv == DirOnce /\ FreshTables /\ UsedTables

\* A page is in one place: in an entry of a table, in the hands of a fault or
\* free in a zone.
PagesOnce ==
  /\ \A f, g \in Frames, v, w \in PageAddrs :
       pt[f][v] # None /\ pt[f][v] = pt[g][w] => f = g /\ v = w
  /\ \A f \in Frames, v \in PageAddrs :
       /\ pt[f][v] \notin movable /\ pt[f][v] \notin unmovable
       /\ \A c \in CPUs : phys[c] # None => phys[c] # pt[f][v]
  /\ \A c, d \in CPUs : phys[c] # None /\ phys[c] = phys[d] => c = d
  /\ \A c \in CPUs : phys[c] \notin movable /\ phys[c] \notin unmovable
  /\ movable \cap unmovable = {}

DInv ==
  /\ TypeOK /\ RegionsDisjoint /\ ListOnce /\ CallInv /\ TablesInv /\ PagesOnce

\* When regions are unregistered at rest only: a fault works on a region that
\* stays registered and whose lock it holds.
Critical(c) ==
  pc[c] \in {"fault_recheck", "fault_alloc"} \cup Mapping_pcs

UsersInv ==
  \A c \in CPUs : pc[c] # "idle" =>
    region[c] \in Range(regions[as[c]]) /\ addr[c] \in RegionPages(region[c])

LockInv == \A c \in CPUs : Critical(c) => plock[region[c]] = c

QInv == UsersInv /\ LockInv /\ MappedInRegion

\* The region's lock orders all faults, on one CPU or with one region.
LocksEnough ==
  (\A c, d \in CPUs : c = d) \/ (\A o, p \in Objects : o = p)

\* Then the address being mapped has no page, and the new table no rival.
StoreInv ==
  \A c \in CPUs :
    /\ pc[c] \in {"fault_alloc"} \cup Mapping_pcs =>
         Mapping(as[c], addr[c]) = None
    /\ pc[c] = "map_link" => dir[as[c]][TableOf(addr[c])] = None
    /\ pc[c] \in {"map_reload", "map_store"} =>
         dir[as[c]][TableOf(addr[c])] = table[c]

\* All frames taken are tables in use.
FramesUsed ==
  \A f \in Frames \ frames :
    \/ \E m \in Pml4s, i \in TableIndices : dir[m][i] = f
    \/ \E c \in CPUs : pc[c] = "map_link" /\ table[c] = f

\* A frame for every table of every space.
FramesEnough ==
  /\ IsFiniteSet(Frames) /\ IsFiniteSet(Pml4s) /\ IsFiniteSet(TableIndices)
  /\ Cardinality(Pml4s \X TableIndices) <= Cardinality(Frames)

-----------------------------------------------------------------------------
(* Addresses and lists *)

\* Aligning gives page addresses, wherever the sum wraps.
LEMMA AlignFacts ==
  /\ PageAddrs \subseteq Nat /\ 0 \in PageAddrs
  /\ \A a \in Addresses : AlignDown(a) \in PageAddrs
  /\ \A x \in Nat : AlignUp(x % AddrMod) \in PageAddrs
<1> DEFINE P == BUDDY_PAGE_SIZE
<1>1. P \in Nat \ {0} /\ AddrMod \in Nat \ {0}
  BY PagingAssumption
<1> HIDE DEF P
<1>2. ASSUME NEW a \in Addresses PROVE AlignDown(a) \in PageAddrs
  <2> DEFINE q == a \div P
             r == a % P
             b == a - r
  <2>1. a \in Nat /\ a < AddrMod
    BY <1>1 DEF Addresses
  <2>2. q \in Int /\ r \in 0..(P - 1) /\ a = P * q + r
    BY <1>1, <2>1, DivMod
  <2>3. b = q * P + 0 /\ 0 \in 0..(P - 1)
    <3> HIDE DEF q, r
    <3> QED
      BY <1>1, <2>1, <2>2
  <2>4. b % P = 0
    <3> HIDE DEF q, b
    <3> QED
      BY <1>1, <2>2, <2>3, DivUnique
  <2>5. b >= 0
    <3>1. q >= 0
      <4> HIDE DEF q, r
      <4>1. CASE q <= -1
        <5>1. P * q <= -P
          BY <4>1, <1>1, <2>2
        <5> QED
          BY <5>1, <1>1, <2>1, <2>2
      <4> QED
        BY <4>1, <2>2
    <3> HIDE DEF q
    <3> QED
      BY <3>1, <1>1, <2>2, <2>3
  <2>6. b \in Addresses
    BY <1>1, <2>1, <2>2, <2>5 DEF Addresses
  <2>7. AlignDown(a) = b /\ AlignDown(b) = b - (b % P)
    BY DEF AlignDown, P
  <2> HIDE DEF b
  <2>8. AlignDown(b) = b
    BY <2>4, <2>6, <2>7, <1>1 DEF Addresses
  <2> QED
    BY <2>6, <2>7, <2>8 DEF PageAddrs
<1>3. PageAddrs \subseteq Nat
  BY <1>1 DEF PageAddrs, Addresses
<1>4. 0 \in PageAddrs
  BY <1>1 DEF PageAddrs, Addresses, AlignDown, P
<1>5. ASSUME NEW x \in Nat PROVE AlignUp(x % AddrMod) \in PageAddrs
  <2> DEFINE y == (x % AddrMod) + P - 1
  <2>1. x % AddrMod \in Nat
    BY <1>1
  <2>2. y \in Nat
    BY <1>1, <2>1
  <2>3. y % AddrMod \in Addresses
    <3> HIDE DEF y
    <3> QED
      BY <1>1, <2>2 DEF Addresses
  <2>4. AlignUp(x % AddrMod) = AlignDown(y % AddrMod)
    BY DEF AlignUp, P
  <2> QED
    BY <1>2, <2>3, <2>4
<1> QED
  BY <1>2, <1>3, <1>4, <1>5

\* Every page address has its table.
LEMMA TableFacts == \A a \in PageAddrs : TableOf(a) \in TableIndices
BY DEF TableIndices

\* What unlinking leaves on the list.
LEMMA UnlinkFacts ==
  ASSUME NEW s \in Seq(Objects), NEW i \in 1..Len(s)
  PROVE  /\ Unlink(s, i) \in Seq(Objects)
         /\ Range(Unlink(s, i)) \subseteq Range(s)
         /\ Range(s) \ {s[i]} \subseteq Range(Unlink(s, i))
         /\ IsInjective(s) =>
              IsInjective(Unlink(s, i)) /\ s[i] \notin Range(Unlink(s, i))
<1> DEFINE t == SubSeq(s, 1, i - 1) \o SubSeq(s, i + 1, Len(s))
<1>1. /\ t \in Seq(Objects) /\ Len(t) = Len(s) - 1
      /\ Range(t) \subseteq Range(s) /\ Range(s) \ {s[i]} \subseteq Range(t)
      /\ IsInjective(s) => IsInjective(t) /\ s[i] \notin Range(t)
  BY SeqCut, Zenon
<1>2. Unlink(s, i) = t
  BY DEF Unlink
<1> HIDE DEF t
<1> QED
  BY <1>1, <1>2

-----------------------------------------------------------------------------
(* Pieces of the steps *)

\* A slot is taken only if there is one.
LEMMA SpacesKept ==
  ASSUME TypeOK, NEW m \in Pml4s, get_address_space(m)
  PROVE  spaces' \in Seq(Pml4s) /\ Len(spaces') <= MAX_ADDRESS_SPACES
<1>1. spaces \in Seq(Pml4s) /\ Len(spaces) <= MAX_ADDRESS_SPACES
  BY DEF TypeOK
<1>2. CASE m \notin Range(spaces) /\ HasSlot(m)
  <2>1. spaces' = Append(spaces, m) /\ Len(spaces) < MAX_ADDRESS_SPACES
    BY <1>2 DEF get_address_space, HasSlot
  <2>2. Append(spaces, m) \in Seq(Pml4s) /\ Len(Append(spaces, m)) = Len(spaces) + 1
    BY <1>1
  <2>3. Len(spaces) \in Nat /\ MAX_ADDRESS_SPACES \in Nat
    BY <1>1, PagingAssumption
  <2> QED
    BY <2>1, <2>2, <2>3
<1>3. CASE ~(m \notin Range(spaces) /\ HasSlot(m))
  BY <1>1, <1>3 DEF get_address_space
<1> QED
  BY <1>2, <1>3

\* The calls of other CPUs are untouched by a step of c.
SameCall(d) ==
  /\ pc'[d] = pc[d] /\ as'[d] = as[d] /\ addr'[d] = addr[d]
  /\ region'[d] = region[d] /\ phys'[d] = phys[d] /\ table'[d] = table[d]

\* The types of the locals.
CallTypes ==
  /\ pc \in [CPUs -> {"idle", "fault_check", "fault_lock", "fault_recheck",
                      "fault_alloc", "map_walk", "map_link", "map_reload",
                      "map_store"}]
  /\ as \in [CPUs -> Pml4s \cup {None}]
  /\ addr \in [CPUs -> PageAddrs]
  /\ region \in [CPUs -> Objects \cup {None}]
  /\ phys \in [CPUs -> Pages \cup {None}]
  /\ table \in [CPUs -> Frames \cup {None}]

\* Returning clears the locals of the call.
LEMMA ReturnEffect ==
  ASSUME TypeOK, NEW c \in CPUs, Return(c)
  PROVE  /\ CallTypes'
         /\ pc'[c] = "idle" /\ region'[c] = None /\ phys'[c] = None
         /\ table'[c] = None
         /\ \A d \in CPUs \ {c} : SameCall(d)
BY AlignFacts DEF TypeOK, Return, Goto, CallTypes, SameCall

\* Unlocking touches one lock.
LEMMA UnlockEffect ==
  ASSUME TypeOK, NEW c \in CPUs, Unlock(c)
  PROVE  /\ plock' \in [Objects -> CPUs \cup {None}]
         /\ \A o \in Objects : o # region[c] => plock'[o] = plock[o]
BY DEF TypeOK, Unlock

\* A step that leaves tables, zones and pages in flight alone keeps the page
\* accounts.
LEMMA PagesFrame ==
  ASSUME DInv, UNCHANGED <<pt, movable, unmovable>>,
         \A d \in CPUs : phys'[d] = phys[d] \/ phys'[d] = None
  PROVE  PagesOnce'
<1>1. \A d \in CPUs : phys[d] \in Pages \cup {None}
  BY DEF DInv, TypeOK
<1>2. None \notin movable /\ None \notin unmovable
  BY PagingAssumption DEF DInv, TypeOK
<1> QED
  BY <1>1, <1>2 DEF DInv, PagesOnce

\* A step that leaves the tables alone and starts no mapping keeps theirs.
LEMMA TablesFrame ==
  ASSUME DInv, UNCHANGED <<dir, pt, frames>>,
         \A d \in CPUs : \/ SameCall(d)
                         \/ pc'[d] \notin {"map_link", "map_reload", "map_store"}
  PROVE  TablesInv'
<1>1. DirOnce'
  BY DEF DInv, TablesInv, DirOnce
<1>2. \A d \in CPUs : pc'[d] \in {"map_link", "map_reload", "map_store"} => SameCall(d)
  OBVIOUS
<1>3. FreshTables'
  <2> SUFFICES ASSUME NEW c \in CPUs, pc'[c] = "map_link"
               PROVE  /\ table'[c] \in Frames /\ table'[c] \notin frames'
                      /\ \A m \in Pml4s, i \in TableIndices : dir'[m][i] # table'[c]
                      /\ \A v \in PageAddrs : pt'[table'[c]][v] = None
                      /\ \A d \in CPUs \ {c} :
                           pc'[d] \in {"map_link", "map_reload", "map_store"}
                             => table'[d] # table'[c]
    BY DEF FreshTables
  <2>1. SameCall(c) /\ pc[c] = "map_link"
    BY <1>2 DEF SameCall
  <2>2. \A d \in CPUs \ {c} :
          pc'[d] \in {"map_link", "map_reload", "map_store"} => table'[d] # table[c]
    <3> SUFFICES ASSUME NEW d \in CPUs \ {c},
                        pc'[d] \in {"map_link", "map_reload", "map_store"}
                 PROVE  table'[d] # table[c]
      OBVIOUS
    <3>1. SameCall(d)
      BY <1>2
    <3>2. pc[d] \in {"map_link", "map_reload", "map_store"} /\ table'[d] = table[d]
      BY <3>1 DEF SameCall
    <3>3. table[d] # table[c]
      BY <3>2, <2>1 DEF DInv, TablesInv, FreshTables
    <3> QED
      BY <3>2, <3>3
  <2> QED
    BY <2>1, <2>2 DEF DInv, TablesInv, FreshTables, SameCall
<1>4. UsedTables'
  <2> SUFFICES ASSUME NEW c \in CPUs, pc'[c] \in {"map_reload", "map_store"}
               PROVE  /\ table'[c] \in Frames /\ table'[c] \notin frames'
                      /\ \A m \in Pml4s, i \in TableIndices :
                           dir'[m][i] = table'[c] =>
                             m = as'[c] /\ i = TableOf(addr'[c])
                      /\ pc'[c] = "map_reload" =>
                           dir'[as'[c]][TableOf(addr'[c])] # None
    BY DEF UsedTables
  <2>1. SameCall(c) /\ pc[c] \in {"map_reload", "map_store"}
    BY <1>2 DEF SameCall
  <2> QED
    BY <2>1 DEF DInv, TablesInv, UsedTables, SameCall
<1> QED
  BY <1>1, <1>3, <1>4 DEF TablesInv

\* A step that leaves the lists and the regions alone keeps theirs.
LEMMA RegionsFrame ==
  ASSUME DInv, UNCHANGED regionVars
  PROVE  RegionsDisjoint' /\ ListOnce'
BY DEF DInv, regionVars, RegionsDisjoint, ListOnce, RegionPages

\* The call of c stays in order, and those of the other CPUs as they were.
LEMMA CallsKept ==
  ASSUME DInv, NEW c \in CPUs, \A d \in CPUs \ {c} : SameCall(d),
         pc'[c] # "idle" => as'[c] \in Pml4s /\ region'[c] \in Objects,
         pc'[c] = "idle" => region'[c] = None,
         phys'[c] # None <=> pc'[c] \in Mapping_pcs
  PROVE  CallInv'
<1> SUFFICES ASSUME NEW d \in CPUs
             PROVE  /\ pc'[d] # "idle" => as'[d] \in Pml4s /\ region'[d] \in Objects
                    /\ pc'[d] = "idle" => region'[d] = None
                    /\ phys'[d] # None <=> pc'[d] \in Mapping_pcs
  BY DEF CallInv
<1>1. CASE d = c
  BY <1>1
<1>2. CASE d # c
  <2>1. SameCall(d)
    BY <1>2
  <2> QED
    BY <2>1 DEF DInv, CallInv, SameCall
<1> QED
  BY <1>1, <1>2

\* A step of a call that leaves regions, tables and zones alone.
LEMMA QuietStep ==
  ASSUME DInv, NEW c \in CPUs, UNCHANGED <<regionVars, vmmVars, zoneVars>>,
         spaces' \in Seq(Pml4s) /\ Len(spaces') <= MAX_ADDRESS_SPACES,
         plock' \in [Objects -> CPUs \cup {None}],
         CallTypes', \A d \in CPUs \ {c} : SameCall(d),
         pc'[c] # "idle" => as'[c] \in Pml4s /\ region'[c] \in Objects,
         pc'[c] = "idle" => region'[c] = None,
         phys'[c] # None <=> pc'[c] \in Mapping_pcs,
         phys'[c] = phys[c] \/ phys'[c] = None,
         pc'[c] \notin {"map_link", "map_reload", "map_store"}
  PROVE  DInv'
<1>1. TypeOK'
  BY DEF DInv, TypeOK, regionVars, vmmVars, zoneVars, CallTypes
<1>2. CallInv'
  BY CallsKept
<1>3. \A d \in CPUs : SameCall(d) \/ pc'[d] \notin {"map_link", "map_reload", "map_store"}
  OBVIOUS
<1>4. TablesInv'
  BY <1>3, TablesFrame DEF vmmVars
<1>5. \A d \in CPUs : phys'[d] = phys[d] \/ phys'[d] = None
  BY DEF SameCall
<1>6. PagesOnce'
  BY <1>5, PagesFrame DEF vmmVars, zoneVars
<1>7. RegionsDisjoint' /\ ListOnce'
  BY RegionsFrame
<1> QED
  BY <1>1, <1>2, <1>4, <1>6, <1>7 DEF DInv

\* Moving on leaves the other CPUs where they are.
LEMMA GotoEffect ==
  ASSUME TypeOK, NEW c \in CPUs, NEW l, Goto(c, l), UNCHANGED callVars
  PROVE  /\ pc'[c] = l
         /\ \A d \in CPUs \ {c} : SameCall(d)
         /\ UNCHANGED <<as, addr, region, phys, table>>
BY DEF TypeOK, Goto, callVars, SameCall

-----------------------------------------------------------------------------
(* The steps keep the invariant *)

\* It holds at the start.
LEMMA InitInv == Init => DInv
<1> SUFFICES ASSUME Init PROVE DInv
  OBVIOUS
<1>1. TypeOK
  <2>1. spaces \in Seq(Pml4s) /\ Len(spaces) <= MAX_ADDRESS_SPACES
    BY PagingAssumption DEF Init
  <2>2. regions \in [Pml4s -> Seq(Objects)]
    BY DEF Init
  <2> QED
    BY <2>1, <2>2, AlignFacts DEF Init, TypeOK, NoEntries
<1>2. RegionsDisjoint /\ ListOnce
  <2>1. \A m \in Pml4s : Range(regions[m]) = {} /\ IsInjective(regions[m])
    BY DEF Init, Range, IsInjective
  <2> QED
    BY <2>1 DEF RegionsDisjoint, ListOnce
<1>3. CallInv
  BY DEF Init, CallInv, Mapping_pcs
<1>4. TablesInv
  BY PagingAssumption DEF Init, TablesInv, DirOnce, FreshTables, UsedTables
<1>5. PagesOnce
  BY PagingAssumption DEF Init, PagesOnce, NoEntries
<1> QED
  BY <1>1, <1>2, <1>3, <1>4, <1>5 DEF DInv

\* demand_paging_find_region finds a region of the list that contains the
\* address.
LEMMA FindStep ==
  ASSUME DInv, NEW c \in CPUs, NEW m \in Pml4s, NEW v \in Addresses,
         FaultFind(c, m, v)
  PROVE  /\ DInv'
         /\ \/ UNCHANGED <<pc, callVars>>
            \/ /\ pc'[c] = "fault_check" /\ as'[c] = m
               /\ region'[c] \in Range(regions[m])
               /\ addr'[c] \in RegionPages(region'[c])
               /\ \A d \in CPUs \ {c} : SameCall(d)
               /\ phys' = phys /\ table' = table
<1> DEFINE a == AlignDown(v)
           found == First(regions[m], Containing(a))
<1>0. TypeOK /\ a \in PageAddrs /\ PageAddrs \subseteq Nat
  BY AlignFacts DEF DInv
<1>1. spaces' \in Seq(Pml4s) /\ Len(spaces') <= MAX_ADDRESS_SPACES
  BY <1>0, SpacesKept DEF FaultFind
<1>2. /\ plock' \in [Objects -> CPUs \cup {None}]
      /\ UNCHANGED <<regionVars, vmmVars, zoneVars>> /\ pc[c] = "idle"
  BY <1>0 DEF FaultFind, TypeOK
<1>3. phys[c] = None /\ region[c] = None
  BY <1>2 DEF DInv, CallInv, Mapping_pcs
<1>4. CASE UNCHANGED <<pc, callVars>>
  <2>1. CallTypes' /\ \A d \in CPUs \ {c} : SameCall(d)
    BY <1>0, <1>4 DEF TypeOK, CallTypes, callVars, SameCall
  <2>2. pc'[c] = "idle" /\ region'[c] = None /\ phys'[c] = None
    BY <1>2, <1>3, <1>4 DEF callVars
  <2> QED
    BY <1>1, <1>2, <1>4, <2>1, <2>2, QuietStep DEF Mapping_pcs
<1>5. ASSUME NEW i \in found,
             Goto(c, "fault_check"), as' = [as EXCEPT ![c] = m],
             addr' = [addr EXCEPT ![c] = a],
             region' = [region EXCEPT ![c] = regions[m][i]],
             UNCHANGED <<phys, table>>
      PROVE  /\ DInv'
             /\ pc'[c] = "fault_check" /\ as'[c] = m
             /\ region'[c] \in Range(regions[m])
             /\ addr'[c] \in RegionPages(region'[c])
             /\ \A d \in CPUs \ {c} : SameCall(d)
  <2>1. i \in 1..Len(regions[m]) /\ regions[m][i] \in Containing(a)
    BY DEF First
  <2>2. regions[m][i] \in Objects /\ regions[m][i] \in Range(regions[m])
    BY <1>0, <2>1 DEF TypeOK, Range
  <2> HIDE DEF a, found
  <2>3. CallTypes' /\ \A d \in CPUs \ {c} : SameCall(d)
    BY <1>0, <1>5, <2>2 DEF TypeOK, CallTypes, Goto, SameCall
  <2>4. /\ pc'[c] = "fault_check" /\ as'[c] = m /\ region'[c] = regions[m][i]
        /\ addr'[c] = a /\ phys'[c] = None
    BY <1>0, <1>3, <1>5 DEF TypeOK, Goto
  <2>5. addr'[c] \in RegionPages(region'[c])
    BY <1>0, <2>1, <2>4 DEF RegionPages, Containing
  <2>6. DInv'
    BY <1>1, <1>2, <2>2, <2>3, <2>4, QuietStep DEF Mapping_pcs
  <2> QED
    BY <2>2, <2>3, <2>4, <2>5, <2>6
<1> QED
  BY <1>4, <1>5 DEF FaultFind

\* The unlocked check.
LEMMA CheckStep ==
  ASSUME DInv, NEW c \in CPUs, FaultCheck(c)
  PROVE  DInv'
<1>0. TypeOK
  BY DEF DInv
<1>1. /\ spaces' \in Seq(Pml4s) /\ Len(spaces') <= MAX_ADDRESS_SPACES
      /\ plock' \in [Objects -> CPUs \cup {None}]
      /\ UNCHANGED <<regionVars, vmmVars, zoneVars>> /\ pc[c] = "fault_check"
  BY <1>0 DEF FaultCheck, TypeOK
<1>2. as[c] \in Pml4s /\ region[c] \in Objects /\ phys[c] = None
  BY <1>1 DEF DInv, CallInv, Mapping_pcs
<1>3. CASE Return(c)
  <2>1. /\ CallTypes' /\ \A d \in CPUs \ {c} : SameCall(d)
        /\ pc'[c] = "idle" /\ region'[c] = None /\ phys'[c] = None
    BY <1>0, <1>3, ReturnEffect
  <2> QED
    BY <1>1, <2>1, QuietStep DEF Mapping_pcs
<1>4. CASE Goto(c, "fault_lock") /\ UNCHANGED callVars
  <2>1. /\ pc'[c] = "fault_lock" /\ \A d \in CPUs \ {c} : SameCall(d)
        /\ UNCHANGED <<as, addr, region, phys, table>>
    BY <1>0, <1>4, GotoEffect
  <2>2. CallTypes'
    BY <1>0, <1>4, <2>1 DEF TypeOK, CallTypes, Goto
  <2>3. as'[c] \in Pml4s /\ region'[c] \in Objects /\ phys'[c] = None
    BY <1>2, <2>1
  <2> QED
    BY <1>1, <2>1, <2>2, <2>3, QuietStep DEF Mapping_pcs
<1> QED
  BY <1>3, <1>4 DEF FaultCheck

\* Taking the region's lock.
LEMMA LockStep ==
  ASSUME DInv, NEW c \in CPUs, FaultLock(c)
  PROVE  DInv'
<1>0. TypeOK
  BY DEF DInv
<1>1. /\ spaces' \in Seq(Pml4s) /\ Len(spaces') <= MAX_ADDRESS_SPACES
      /\ UNCHANGED <<regionVars, vmmVars, zoneVars>> /\ pc[c] = "fault_lock"
      /\ Goto(c, "fault_recheck") /\ UNCHANGED callVars
  BY <1>0 DEF FaultLock, TypeOK
<1>2. as[c] \in Pml4s /\ region[c] \in Objects /\ phys[c] = None
  BY <1>1 DEF DInv, CallInv, Mapping_pcs
<1>3. plock' \in [Objects -> CPUs \cup {None}]
  BY <1>0, <1>2 DEF FaultLock, TypeOK
<1>4. /\ pc'[c] = "fault_recheck" /\ \A d \in CPUs \ {c} : SameCall(d)
      /\ UNCHANGED <<as, addr, region, phys, table>>
  BY <1>0, <1>1, GotoEffect
<1>5. CallTypes'
  BY <1>0, <1>1, <1>4 DEF TypeOK, CallTypes, Goto
<1>6. as'[c] \in Pml4s /\ region'[c] \in Objects /\ phys'[c] = None
  BY <1>2, <1>4
<1> QED
  BY <1>1, <1>3, <1>4, <1>5, <1>6, QuietStep DEF Mapping_pcs

\* Giving up: the lock is released and the call returns with no page.
LEMMA GiveUpStep ==
  ASSUME DInv, NEW c \in CPUs, Unlock(c), Return(c), UNCHANGED spaces,
         UNCHANGED <<regionVars, vmmVars, zoneVars>>
  PROVE  DInv'
<1>0. TypeOK
  BY DEF DInv
<1>1. /\ spaces' \in Seq(Pml4s) /\ Len(spaces') <= MAX_ADDRESS_SPACES
      /\ plock' \in [Objects -> CPUs \cup {None}]
  BY <1>0, UnlockEffect DEF TypeOK
<1>2. /\ CallTypes' /\ \A d \in CPUs \ {c} : SameCall(d)
      /\ pc'[c] = "idle" /\ region'[c] = None /\ phys'[c] = None
  BY <1>0, ReturnEffect
<1> QED
  BY <1>1, <1>2, QuietStep DEF Mapping_pcs

\* The check under the lock.
LEMMA RecheckStep ==
  ASSUME DInv, NEW c \in CPUs, FaultRecheck(c)
  PROVE  DInv'
<1>0. TypeOK
  BY DEF DInv
<1>1. /\ spaces' \in Seq(Pml4s) /\ Len(spaces') <= MAX_ADDRESS_SPACES
      /\ UNCHANGED <<regionVars, vmmVars, zoneVars>> /\ pc[c] = "fault_recheck"
      /\ UNCHANGED spaces
  BY <1>0 DEF FaultRecheck, TypeOK
<1>2. as[c] \in Pml4s /\ region[c] \in Objects /\ phys[c] = None
  BY <1>1 DEF DInv, CallInv, Mapping_pcs
<1>3. CASE Unlock(c) /\ Return(c)
  BY <1>1, <1>3, GiveUpStep
<1>4. CASE Goto(c, "fault_alloc") /\ UNCHANGED <<plock, callVars>>
  <2>1. /\ pc'[c] = "fault_alloc" /\ \A d \in CPUs \ {c} : SameCall(d)
        /\ UNCHANGED <<as, addr, region, phys, table>>
    BY <1>0, <1>4, GotoEffect
  <2>2. CallTypes' /\ plock' \in [Objects -> CPUs \cup {None}]
    BY <1>0, <1>4, <2>1 DEF TypeOK, CallTypes, Goto
  <2>3. as'[c] \in Pml4s /\ region'[c] \in Objects /\ phys'[c] = None
    BY <1>2, <2>1
  <2> QED
    BY <1>1, <2>1, <2>2, <2>3, QuietStep DEF Mapping_pcs
<1> QED
  BY <1>3, <1>4 DEF FaultRecheck

\* Taking a page of the zone.
LEMMA AllocStep ==
  ASSUME DInv, NEW c \in CPUs, FaultAlloc(c)
  PROVE  DInv'
<1>0. TypeOK
  BY DEF DInv
<1>1. /\ UNCHANGED <<spaces, regionVars, vmmVars>> /\ UNCHANGED unmovable
      /\ pc[c] = "fault_alloc"
  BY DEF FaultAlloc
<1>2. as[c] \in Pml4s /\ region[c] \in Objects /\ phys[c] = None
  BY <1>1 DEF DInv, CallInv, Mapping_pcs
<1>3. CASE Unlock(c) /\ Return(c) /\ UNCHANGED movable
  <2>1. UNCHANGED <<regionVars, vmmVars, zoneVars>> /\ UNCHANGED spaces
    BY <1>1, <1>3 DEF zoneVars
  <2> QED
    BY <2>1, <1>3, GiveUpStep
<1>4. ASSUME NEW p \in movable,
             movable' = movable \ {p}, phys' = [phys EXCEPT ![c] = p],
             Goto(c, "map_walk"), UNCHANGED <<plock, as, addr, region, table>>
      PROVE  DInv'
  <2>1. /\ pc'[c] = "map_walk" /\ phys'[c] = p /\ p \in Pages /\ p # None
        /\ \A d \in CPUs \ {c} : SameCall(d)
    BY <1>0, <1>4, PagingAssumption DEF TypeOK, Goto, SameCall
  <2>2. TypeOK'
    BY <1>0, <1>1, <1>4, <2>1 DEF TypeOK, regionVars, vmmVars, Goto
  <2>3. as'[c] \in Pml4s /\ region'[c] \in Objects
    BY <1>2, <1>4
  <2>4. CallInv'
    BY <2>1, <2>3, CallsKept DEF Mapping_pcs
  <2>5. \A d \in CPUs : SameCall(d) \/ pc'[d] \notin {"map_link", "map_reload", "map_store"}
    BY <2>1
  <2>6. TablesInv'
    BY <1>1, <2>5, TablesFrame DEF vmmVars
  <2>7. RegionsDisjoint' /\ ListOnce'
    BY <1>1, RegionsFrame
  <2>8. PagesOnce'
    <3>1. \A d \in CPUs \ {c} : phys'[d] = phys[d] /\ phys[d] # p
      BY <2>1 DEF SameCall, DInv, PagesOnce
    <3>2. \A f \in Frames, v \in PageAddrs : pt[f][v] # p
      BY DEF DInv, PagesOnce
    <3>3. p \notin unmovable /\ p \notin movable' /\ movable' \subseteq movable
      BY <1>4 DEF DInv, PagesOnce
    <3>4. UNCHANGED <<pt, unmovable>>
      BY <1>1 DEF vmmVars
    <3>5. \A f \in Frames, v \in PageAddrs :
            \A d \in CPUs : phys'[d] # None => phys'[d] # pt[f][v]
      BY <2>1, <3>1, <3>2 DEF DInv, PagesOnce
    <3>6. \A d, e \in CPUs : phys'[d] # None /\ phys'[d] = phys'[e] => d = e
      BY <2>1, <3>1 DEF DInv, PagesOnce
    <3>7. \A d \in CPUs : phys'[d] \notin movable' /\ phys'[d] \notin unmovable
      BY <2>1, <3>1, <3>3 DEF DInv, PagesOnce
    <3> QED
      BY <3>3, <3>4, <3>5, <3>6, <3>7 DEF DInv, PagesOnce
  <2> QED
    BY <2>2, <2>4, <2>6, <2>7, <2>8 DEF DInv
<1> QED
  BY <1>3, <1>4 DEF FaultAlloc

\* Tables that are entered, new or about to be written are not free.
LEMMA TablesTaken ==
  ASSUME DInv, NEW c \in CPUs, pc[c] \in {"map_link", "map_reload", "map_store"}
  PROVE  table[c] \in Frames /\ table[c] \notin frames
BY DEF DInv, TablesInv, FreshTables, UsedTables

\* What a step must leave to a call it does not belong to: a new table stays
\* empty and unknown, a table to be written stays where it is entered.
StillFresh(d) ==
  pc[d] = "map_link" =>
    /\ \A m \in Pml4s, i \in TableIndices : dir'[m][i] # table[d]
    /\ \A v \in PageAddrs : pt'[table[d]][v] = None

StillUsed(d) ==
  pc[d] \in {"map_reload", "map_store"} =>
    /\ \A m \in Pml4s, i \in TableIndices :
         dir'[m][i] = table[d] => m = as[d] /\ i = TableOf(addr[d])
    /\ pc[d] = "map_reload" => dir'[as[d]][TableOf(addr[d])] # None

\* A step of c that keeps the tables in order.
LEMMA TablesStep ==
  ASSUME DInv, NEW c \in CPUs, \A d \in CPUs \ {c} : SameCall(d),
         frames' \subseteq frames, DirOnce',
         \A d \in CPUs \ {c} : StillFresh(d) /\ StillUsed(d),
         pc'[c] \in {"map_link", "map_reload", "map_store"} =>
           /\ table'[c] \in Frames /\ table'[c] \notin frames'
           /\ \A d \in CPUs \ {c} : pc[d] = "map_link" => table[d] # table'[c],
         pc'[c] = "map_link" =>
           /\ \A m \in Pml4s, i \in TableIndices : dir'[m][i] # table'[c]
           /\ \A v \in PageAddrs : pt'[table'[c]][v] = None
           /\ \A d \in CPUs \ {c} :
                pc[d] \in {"map_link", "map_reload", "map_store"} => table[d] # table'[c],
         pc'[c] \in {"map_reload", "map_store"} =>
           /\ \A m \in Pml4s, i \in TableIndices :
                dir'[m][i] = table'[c] => m = as'[c] /\ i = TableOf(addr'[c])
           /\ pc'[c] = "map_reload" => dir'[as'[c]][TableOf(addr'[c])] # None
  PROVE  TablesInv'
<1>1. FreshTables'
  <2> SUFFICES ASSUME NEW d \in CPUs, pc'[d] = "map_link"
               PROVE  /\ table'[d] \in Frames /\ table'[d] \notin frames'
                      /\ \A m \in Pml4s, i \in TableIndices : dir'[m][i] # table'[d]
                      /\ \A v \in PageAddrs : pt'[table'[d]][v] = None
                      /\ \A e \in CPUs \ {d} :
                           pc'[e] \in {"map_link", "map_reload", "map_store"}
                             => table'[e] # table'[d]
    BY DEF FreshTables
  <2>1. CASE d = c
    <3>1. ASSUME NEW e \in CPUs \ {d},
                 pc'[e] \in {"map_link", "map_reload", "map_store"}
          PROVE  table'[e] # table'[d]
      <4>1. SameCall(e)
        BY <2>1
      <4> QED
        BY <2>1, <3>1, <4>1 DEF SameCall
    <3> QED
      BY <2>1, <3>1
  <2>2. CASE d # c
    <3>1. SameCall(d) /\ StillFresh(d)
      BY <2>2
    <3>2. pc[d] = "map_link" /\ table'[d] = table[d]
      BY <3>1 DEF SameCall
    <3>3. /\ table[d] \in Frames /\ table[d] \notin frames'
          /\ \A m \in Pml4s, i \in TableIndices : dir'[m][i] # table[d]
          /\ \A v \in PageAddrs : pt'[table[d]][v] = None
      BY <3>1, <3>2, TablesTaken DEF StillFresh
    <3>4. ASSUME NEW e \in CPUs \ {d},
                 pc'[e] \in {"map_link", "map_reload", "map_store"}
          PROVE  table'[e] # table[d]
      <4>1. CASE e = c
        BY <4>1, <2>2, <3>2, <3>4
      <4>2. CASE e # c
        <5>1. SameCall(e)
          BY <4>2
        <5>2. pc[e] \in {"map_link", "map_reload", "map_store"} /\ table'[e] = table[e]
          BY <3>4, <5>1 DEF SameCall
        <5>3. table[e] # table[d]
          BY <5>2, <3>2 DEF DInv, TablesInv, FreshTables
        <5> QED
          BY <5>2, <5>3
      <4> QED
        BY <4>1, <4>2
    <3> QED
      BY <3>2, <3>3, <3>4
  <2> QED
    BY <2>1, <2>2
<1>2. UsedTables'
  <2> SUFFICES ASSUME NEW d \in CPUs, pc'[d] \in {"map_reload", "map_store"}
               PROVE  /\ table'[d] \in Frames /\ table'[d] \notin frames'
                      /\ \A m \in Pml4s, i \in TableIndices :
                           dir'[m][i] = table'[d] =>
                             m = as'[d] /\ i = TableOf(addr'[d])
                      /\ pc'[d] = "map_reload" =>
                           dir'[as'[d]][TableOf(addr'[d])] # None
    BY DEF UsedTables
  <2>1. CASE d = c
    BY <2>1
  <2>2. CASE d # c
    <3>1. SameCall(d) /\ StillUsed(d)
      BY <2>2
    <3>2. /\ pc[d] \in {"map_reload", "map_store"} /\ pc'[d] = pc[d]
          /\ table'[d] = table[d] /\ as'[d] = as[d] /\ addr'[d] = addr[d]
      BY <3>1 DEF SameCall
    <3>3. table[d] \in Frames /\ table[d] \notin frames'
      BY <3>2, TablesTaken
    <3> QED
      BY <3>1, <3>2, <3>3 DEF StillUsed
  <2> QED
    BY <2>1, <2>2
<1> QED
  BY <1>1, <1>2 DEF TablesInv

\* A table has one place.
LEMMA OneEntry ==
  ASSUME DInv, NEW m \in Pml4s, NEW n \in Pml4s,
         NEW i \in TableIndices, NEW j \in TableIndices,
         dir[m][i] # None, dir[m][i] = dir[n][j]
  PROVE  m = n /\ i = j
<1>1. DirOnce
  BY DEF DInv, TablesInv
<1> QED
  BY <1>1 DEF DirOnce

\* The table entered for a call is entered there only, and is nobody's new one.
LEMMA EntryFacts ==
  ASSUME DInv, NEW n \in Pml4s, NEW j \in TableIndices, dir[n][j] # None
  PROVE  /\ dir[n][j] \in Frames /\ dir[n][j] \notin frames
         /\ \A m \in Pml4s, i \in TableIndices : dir[m][i] = dir[n][j] => m = n /\ i = j
         /\ \A d \in CPUs : pc[d] = "map_link" => table[d] # dir[n][j]
<1>1. dir[n][j] \in Frames /\ dir[n][j] \notin frames
  BY DEF DInv, TypeOK, TablesInv, DirOnce
<1>2. ASSUME NEW m \in Pml4s, NEW i \in TableIndices, dir[m][i] = dir[n][j]
      PROVE  m = n /\ i = j
  <2>1. dir[m][i] # None
    BY <1>2
  <2> QED
    BY <1>2, <2>1, OneEntry
<1>3. \A d \in CPUs : pc[d] = "map_link" => table[d] # dir[n][j]
  BY DEF DInv, TablesInv, FreshTables
<1> QED
  BY <1>1, <1>2, <1>3

\* A call that is mapping has its space and its place there.
LEMMA MappingCall ==
  ASSUME DInv, NEW c \in CPUs, pc[c] \in Mapping_pcs
  PROVE  /\ as[c] \in Pml4s /\ region[c] \in Objects
         /\ phys[c] \in Pages /\ phys[c] # None
         /\ addr[c] \in PageAddrs /\ TableOf(addr[c]) \in TableIndices
<1>1. as[c] \in Pml4s /\ region[c] \in Objects /\ phys[c] # None
  BY DEF DInv, CallInv, Mapping_pcs
<1>2. phys[c] \in Pages /\ addr[c] \in PageAddrs
  BY <1>1 DEF DInv, TypeOK
<1> QED
  BY <1>1, <1>2, TableFacts

\* A step that settles on a table entered for the call.
LEMMA SettleStep ==
  ASSUME DInv, NEW c \in CPUs, pc[c] \in Mapping_pcs,
         NEW f \in Frames, f \notin frames,
         \A d \in CPUs \ {c} : pc[d] = "map_link" => table[d] # f,
         \A m \in Pml4s, i \in TableIndices :
           dir[m][i] = f => m = as[c] /\ i = TableOf(addr[c]),
         table' = [table EXCEPT ![c] = f], Goto(c, "map_store"),
         UNCHANGED <<plock, as, addr, region, phys>>,
         UNCHANGED <<spaces, regionVars, dir, pt, frames, zoneVars>>
  PROVE  DInv'
<1>0. TypeOK
  BY DEF DInv
<1>1. as[c] \in Pml4s /\ region[c] \in Objects /\ phys[c] # None
  BY MappingCall
<1>4. /\ pc'[c] = "map_store" /\ table'[c] = f /\ \A d \in CPUs \ {c} : SameCall(d)
      /\ \A d \in CPUs : phys'[d] = phys[d]
  BY <1>0 DEF TypeOK, Goto, SameCall
<1>5. TypeOK'
  BY <1>0, <1>4 DEF TypeOK, regionVars, zoneVars, Goto
<1>6. as'[c] \in Pml4s /\ region'[c] \in Objects /\ phys'[c] # None
  BY <1>1
<1>7. CallInv'
  BY <1>4, <1>6, CallsKept DEF Mapping_pcs
<1>8. RegionsDisjoint' /\ ListOnce'
  BY RegionsFrame
<1>9. PagesOnce'
  BY <1>4, PagesFrame DEF zoneVars
<1>10. TablesInv'
  <2>1. DirOnce' /\ frames' \subseteq frames
    BY DEF DInv, TablesInv, DirOnce
  <2>2. ASSUME NEW d \in CPUs \ {c}
        PROVE  StillFresh(d) /\ StillUsed(d)
    <3>1. StillFresh(d)
      BY DEF DInv, TablesInv, FreshTables, StillFresh
    <3>2. StillUsed(d)
      BY DEF DInv, TablesInv, UsedTables, StillUsed
    <3> QED
      BY <3>1, <3>2
  <2>3. pc'[c] \in {"map_link", "map_reload", "map_store"} =>
         /\ table'[c] \in Frames /\ table'[c] \notin frames'
         /\ \A d \in CPUs \ {c} : pc[d] = "map_link" => table[d] # table'[c]
    BY <1>4
  <2>4. pc'[c] \in {"map_reload", "map_store"} =>
         /\ \A m \in Pml4s, i \in TableIndices :
              dir'[m][i] = table'[c] => m = as'[c] /\ i = TableOf(addr'[c])
         /\ pc'[c] = "map_reload" => dir'[as'[c]][TableOf(addr'[c])] # None
    BY <1>4
  <2>5. pc'[c] # "map_link"
    BY <1>4
  <2> QED
    BY <1>4, <2>1, <2>2, <2>3, <2>4, <2>5, TablesStep
<1> QED
  BY <1>5, <1>7, <1>8, <1>9, <1>10 DEF DInv

\* vmm_map_page takes a frame for a new table.
LEMMA NewTableStep ==
  ASSUME DInv, NEW c \in CPUs, pc[c] = "map_walk",
         NEW g \in frames, frames' = frames \ {g},
         pt' = [pt EXCEPT ![g] = NoEntries],
         table' = [table EXCEPT ![c] = g], Goto(c, "map_link"),
         UNCHANGED <<plock, as, addr, region, phys>>,
         UNCHANGED <<spaces, regionVars, dir, zoneVars>>
  PROVE  DInv'
<1>0. TypeOK /\ g \in Frames
  BY DEF DInv, TypeOK
<1>1. as[c] \in Pml4s /\ region[c] \in Objects /\ phys[c] # None
  BY MappingCall DEF Mapping_pcs
<1>2. /\ pc'[c] = "map_link" /\ table'[c] = g /\ \A d \in CPUs \ {c} : SameCall(d)
      /\ \A d \in CPUs : phys'[d] = phys[d]
  BY <1>0 DEF TypeOK, Goto, SameCall
<1>3. /\ \A v \in PageAddrs : pt'[g][v] = None
      /\ \A f \in Frames : f # g => pt'[f] = pt[f]
  BY <1>0 DEF TypeOK, NoEntries
<1>4. TypeOK'
  <2>1. NoEntries \in [PageAddrs -> Pages \cup {None}]
    BY DEF NoEntries
  <2>2. pt' \in [Frames -> [PageAddrs -> Pages \cup {None}]]
    BY <1>0, <2>1 DEF TypeOK
  <2> QED
    BY <1>0, <1>2, <2>2 DEF TypeOK, regionVars, zoneVars, Goto
<1>5. as'[c] \in Pml4s /\ region'[c] \in Objects /\ phys'[c] # None
  BY <1>1
<1>6. CallInv'
  BY <1>2, <1>5, CallsKept DEF Mapping_pcs
<1>7. RegionsDisjoint' /\ ListOnce'
  BY RegionsFrame
<1>8. PagesOnce'
  <2>1. \A f \in Frames, v \in PageAddrs : pt'[f][v] = pt[f][v] \/ pt'[f][v] = None
    BY <1>3
  <2>2. None \notin movable /\ None \notin unmovable
    BY <1>0, PagingAssumption DEF TypeOK
  <2>3. UNCHANGED <<movable, unmovable, phys>>
    BY DEF zoneVars
  <2>4. \A f, h \in Frames, v, w \in PageAddrs :
          pt'[f][v] # None /\ pt'[f][v] = pt'[h][w] => f = h /\ v = w
    BY <2>1 DEF DInv, PagesOnce
  <2>5. \A f \in Frames, v \in PageAddrs :
          /\ pt'[f][v] \notin movable /\ pt'[f][v] \notin unmovable
          /\ \A d \in CPUs : phys[d] # None => phys[d] # pt'[f][v]
    BY <2>1, <2>2 DEF DInv, PagesOnce
  <2> QED
    BY <2>3, <2>4, <2>5 DEF DInv, PagesOnce
<1>9. TablesInv'
  <2>1. DirOnce' /\ frames' \subseteq frames
    BY DEF DInv, TablesInv, DirOnce
  <2>2. \A d \in CPUs \ {c} :
          pc[d] \in {"map_link", "map_reload", "map_store"} =>
            table[d] \in Frames /\ table[d] # g
    BY TablesTaken
  <2>3. ASSUME NEW d \in CPUs \ {c}
        PROVE  StillFresh(d) /\ StillUsed(d)
    <3>1. StillFresh(d)
      BY <1>3, <2>2 DEF DInv, TablesInv, FreshTables, StillFresh
    <3>2. StillUsed(d)
      BY DEF DInv, TablesInv, UsedTables, StillUsed
    <3> QED
      BY <3>1, <3>2
  <2>4. \A m \in Pml4s, i \in TableIndices : dir'[m][i] # g
    BY DEF DInv, TablesInv, DirOnce
  <2>5. pc'[c] \in {"map_link", "map_reload", "map_store"} =>
         /\ table'[c] \in Frames /\ table'[c] \notin frames'
         /\ \A d \in CPUs \ {c} : pc[d] = "map_link" => table[d] # table'[c]
    BY <1>0, <1>2, <2>2
  <2>6. pc'[c] = "map_link" =>
         /\ \A m \in Pml4s, i \in TableIndices : dir'[m][i] # table'[c]
         /\ \A v \in PageAddrs : pt'[table'[c]][v] = None
         /\ \A d \in CPUs \ {c} :
              pc[d] \in {"map_link", "map_reload", "map_store"} => table[d] # table'[c]
    BY <1>2, <1>3, <2>2, <2>4
  <2>7. pc'[c] \notin {"map_reload", "map_store"}
    BY <1>2
  <2> QED
    BY <1>2, <2>1, <2>3, <2>5, <2>6, <2>7, TablesStep
<1> QED
  BY <1>4, <1>6, <1>7, <1>8, <1>9 DEF DInv

\* vmm_map_page walks to the table.
LEMMA WalkStep ==
  ASSUME DInv, NEW c \in CPUs, MapWalk(c)
  PROVE  DInv'
<1> DEFINE f == dir[as[c]][TableOf(addr[c])]
<1>1. /\ pc[c] = "map_walk" /\ UNCHANGED <<spaces, regionVars, dir, zoneVars>>
      /\ pc[c] \in Mapping_pcs
  BY DEF MapWalk, Mapping_pcs
<1>2. as[c] \in Pml4s /\ TableOf(addr[c]) \in TableIndices
  BY <1>1, MappingCall
<1>3. CASE /\ f # None /\ table' = [table EXCEPT ![c] = f] /\ Goto(c, "map_store")
           /\ UNCHANGED <<plock, pt, frames, as, addr, region, phys>>
  <2>1. /\ f \in Frames /\ f \notin frames
        /\ \A m \in Pml4s, i \in TableIndices :
             dir[m][i] = f => m = as[c] /\ i = TableOf(addr[c])
        /\ \A d \in CPUs : pc[d] = "map_link" => table[d] # f
    BY <1>2, <1>3, EntryFacts
  <2>2. /\ UNCHANGED <<plock, as, addr, region, phys>>
        /\ UNCHANGED <<spaces, regionVars, dir, pt, frames, zoneVars>>
    BY <1>1, <1>3
  <2>3. \A d \in CPUs \ {c} : pc[d] = "map_link" => table[d] # f
    BY <2>1
  <2> HIDE DEF f
  <2> QED
    BY <1>1, <1>3, <2>1, <2>2, <2>3, SettleStep
<1>4. ASSUME NEW g \in frames, frames' = frames \ {g},
             pt' = [pt EXCEPT ![g] = NoEntries], table' = [table EXCEPT ![c] = g],
             Goto(c, "map_link"), UNCHANGED <<plock, as, addr, region, phys>>
      PROVE  DInv'
  BY <1>1, <1>4, NewTableStep
<1>5. CASE Unlock(c) /\ Return(c) /\ UNCHANGED <<pt, frames>>
  <2>1. UNCHANGED <<regionVars, vmmVars, zoneVars>> /\ UNCHANGED spaces
    BY <1>1, <1>5 DEF vmmVars
  <2> QED
    BY <2>1, <1>5, GiveUpStep
<1> QED
  BY <1>3, <1>4, <1>5 DEF MapWalk

\* The entry is read back.
LEMMA ReloadStep ==
  ASSUME DInv, NEW c \in CPUs, MapReload(c)
  PROVE  DInv'
<1>1. /\ pc[c] = "map_reload" /\ pc[c] \in Mapping_pcs /\ Goto(c, "map_store")
      /\ UNCHANGED <<plock, as, addr, region, phys>>
      /\ UNCHANGED <<spaces, regionVars, dir, pt, frames, zoneVars>>
  BY DEF MapReload, Mapping_pcs, vmmVars
<1>2. as[c] \in Pml4s /\ TableOf(addr[c]) \in TableIndices
  BY <1>1, MappingCall
<1>3. PICK f \in {table[c], dir[as[c]][TableOf(addr[c])]} :
         table' = [table EXCEPT ![c] = f]
  BY DEF MapReload
<1>4. CASE f = table[c]
  <2>1. /\ f \in Frames /\ f \notin frames
        /\ \A m \in Pml4s, i \in TableIndices :
             dir[m][i] = f => m = as[c] /\ i = TableOf(addr[c])
    BY <1>1, <1>4 DEF DInv, TablesInv, UsedTables
  <2>2. \A d \in CPUs \ {c} : pc[d] = "map_link" => table[d] # f
    BY <1>1, <1>4 DEF DInv, TablesInv, FreshTables
  <2> QED
    BY <1>1, <1>3, <2>1, <2>2, SettleStep
<1>5. CASE f = dir[as[c]][TableOf(addr[c])]
  <2>1. dir[as[c]][TableOf(addr[c])] # None
    BY <1>1 DEF DInv, TablesInv, UsedTables
  <2>2. /\ f \in Frames /\ f \notin frames
        /\ \A m \in Pml4s, i \in TableIndices :
             dir[m][i] = f => m = as[c] /\ i = TableOf(addr[c])
        /\ \A d \in CPUs : pc[d] = "map_link" => table[d] # f
    BY <1>2, <1>5, <2>1, EntryFacts
  <2>3. \A d \in CPUs \ {c} : pc[d] = "map_link" => table[d] # f
    BY <2>2
  <2> QED
    BY <1>1, <1>3, <2>2, <2>3, SettleStep
<1> QED
  BY <1>3, <1>4, <1>5

\* The new table is entered.
LEMMA LinkStep ==
  ASSUME DInv, NEW c \in CPUs, MapLink(c)
  PROVE  DInv'
<1> DEFINE n == as[c]
           j == TableOf(addr[c])
           t == table[c]
<1>0. TypeOK
  BY DEF DInv
<1>1. /\ pc[c] = "map_link" /\ pc[c] \in Mapping_pcs
      /\ dir' = [dir EXCEPT ![n][j] = t]
      /\ Goto(c, "map_reload") /\ UNCHANGED callVars
      /\ UNCHANGED <<spaces, regionVars, plock, pt, frames, zoneVars>>
  BY DEF MapLink, Mapping_pcs
<1>2. n \in Pml4s /\ j \in TableIndices /\ region[c] \in Objects /\ phys[c] # None
  BY <1>1, MappingCall
<1>3. /\ t \in Frames /\ t \notin frames /\ t # None
      /\ \A m \in Pml4s, i \in TableIndices : dir[m][i] # t
  BY <1>1, PagingAssumption DEF DInv, TablesInv, FreshTables
<1>4. /\ pc'[c] = "map_reload" /\ \A d \in CPUs \ {c} : SameCall(d)
      /\ UNCHANGED <<as, addr, region, phys, table>>
  BY <1>0, <1>1, GotoEffect
<1>5. \A d \in CPUs \ {c} :
        pc[d] \in {"map_link", "map_reload", "map_store"} => table[d] # t
  BY <1>1 DEF DInv, TablesInv, FreshTables
<1>5a. as'[c] = n /\ TableOf(addr'[c]) = j /\ table'[c] = t
  BY <1>4
<1> HIDE DEF n, j, t
<1>6. \A m \in Pml4s, i \in TableIndices :
        dir'[m][i] = IF m = n /\ i = j THEN t ELSE dir[m][i]
  BY <1>0, <1>1, <1>2 DEF TypeOK
<1>7. TypeOK'
  <2>1. dir' \in [Pml4s -> [TableIndices -> Frames \cup {None}]]
    BY <1>0, <1>1, <1>2, <1>3 DEF TypeOK
  <2> QED
    BY <1>0, <1>1, <1>4, <2>1 DEF TypeOK, regionVars, zoneVars, Goto
<1>8. CallInv'
  <2>1. as'[c] \in Pml4s /\ region'[c] \in Objects /\ phys'[c] # None
    BY <1>2, <1>4, <1>5a
  <2> QED
    BY <2>1, <1>4, CallsKept DEF Mapping_pcs
<1>9. RegionsDisjoint' /\ ListOnce'
  BY <1>1, RegionsFrame
<1>10. PagesOnce'
  <2>1. UNCHANGED <<pt, movable, unmovable>> /\ \A d \in CPUs : phys'[d] = phys[d]
    BY <1>1, <1>4 DEF zoneVars
  <2> QED
    BY <2>1, PagesFrame
<1>11. TablesInv'
  <2>1. DirOnce'
    <3>1. ASSUME NEW m \in Pml4s, NEW k \in Pml4s, NEW i \in TableIndices,
                 NEW h \in TableIndices, dir'[m][i] # None, dir'[m][i] = dir'[k][h]
          PROVE  m = k /\ i = h
      <4>1. CASE m = n /\ i = j
        BY <1>3, <1>6, <3>1, <4>1
      <4>2. CASE k = n /\ h = j
        BY <1>3, <1>6, <3>1, <4>2
      <4>3. CASE ~(m = n /\ i = j) /\ ~(k = n /\ h = j)
        <5>1. dir[m][i] # None /\ dir[m][i] = dir[k][h]
          BY <1>6, <3>1, <4>3
        <5> QED
          BY <5>1, OneEntry
      <4> QED
        BY <4>1, <4>2, <4>3
    <3>2. \A m \in Pml4s, i \in TableIndices : dir'[m][i] \notin frames'
      BY <1>1, <1>3, <1>6 DEF DInv, TablesInv, DirOnce
    <3> QED
      BY <3>1, <3>2 DEF DirOnce
  <2>2. frames' \subseteq frames
    BY <1>1
  <2>3. ASSUME NEW d \in CPUs \ {c}
        PROVE  StillFresh(d) /\ StillUsed(d)
    <3>1. StillFresh(d)
      <4> SUFFICES ASSUME pc[d] = "map_link"
                   PROVE  /\ \A m \in Pml4s, i \in TableIndices : dir'[m][i] # table[d]
                          /\ \A v \in PageAddrs : pt'[table[d]][v] = None
        BY DEF StillFresh
      <4>1. table[d] # t
        BY <1>5
      <4> QED
        BY <1>1, <1>6, <4>1 DEF DInv, TablesInv, FreshTables
    <3>2. StillUsed(d)
      <4> SUFFICES ASSUME pc[d] \in {"map_reload", "map_store"}
                   PROVE  /\ \A m \in Pml4s, i \in TableIndices :
                               dir'[m][i] = table[d] => m = as[d] /\ i = TableOf(addr[d])
                          /\ pc[d] = "map_reload" => dir'[as[d]][TableOf(addr[d])] # None
        BY DEF StillUsed
      <4>1. table[d] # t
        BY <1>5
      <4>2. as[d] \in Pml4s /\ TableOf(addr[d]) \in TableIndices
        BY MappingCall DEF Mapping_pcs
      <4>3. /\ \A m \in Pml4s, i \in TableIndices :
                 dir[m][i] = table[d] => m = as[d] /\ i = TableOf(addr[d])
            /\ pc[d] = "map_reload" => dir[as[d]][TableOf(addr[d])] # None
        BY DEF DInv, TablesInv, UsedTables
      <4>4. \A m \in Pml4s, i \in TableIndices :
              dir'[m][i] = table[d] => m = as[d] /\ i = TableOf(addr[d])
        <5> SUFFICES ASSUME NEW m \in Pml4s, NEW i \in TableIndices,
                            dir'[m][i] = table[d]
                     PROVE  m = as[d] /\ i = TableOf(addr[d])
          OBVIOUS
        <5>1. dir[m][i] = table[d]
          BY <1>6, <4>1
        <5> QED
          BY <4>3, <5>1, Zenon
      <4>5. pc[d] = "map_reload" => dir'[as[d]][TableOf(addr[d])] # None
        BY <1>3, <1>6, <4>2, <4>3
      <4> QED
        BY <4>4, <4>5
    <3> QED
      BY <3>1, <3>2
  <2>4. pc'[c] \in {"map_link", "map_reload", "map_store"} =>
         /\ table'[c] \in Frames /\ table'[c] \notin frames'
         /\ \A d \in CPUs \ {c} : pc[d] = "map_link" => table[d] # table'[c]
    BY <1>1, <1>3, <1>5, <1>5a
  <2>5. pc'[c] # "map_link"
    BY <1>4
  <2>6. /\ \A m \in Pml4s, i \in TableIndices : dir'[m][i] = t => m = n /\ i = j
        /\ dir'[n][j] # None
    BY <1>2, <1>3, <1>6
  <2>7. pc'[c] \in {"map_reload", "map_store"} =>
         /\ \A m \in Pml4s, i \in TableIndices :
              dir'[m][i] = table'[c] => m = as'[c] /\ i = TableOf(addr'[c])
         /\ pc'[c] = "map_reload" => dir'[as'[c]][TableOf(addr'[c])] # None
    BY <1>5a, <2>6
  <2> QED
    BY <1>4, <2>1, <2>2, <2>3, <2>4, <2>5, <2>7, TablesStep
<1> QED
  BY <1>7, <1>8, <1>9, <1>10, <1>11 DEF DInv

\* The page is entered.
LEMMA StoreStep ==
  ASSUME DInv, NEW c \in CPUs, MapStore(c)
  PROVE  DInv'
<1> DEFINE t == table[c]
           a == addr[c]
           p == phys[c]
<1>0. TypeOK
  BY DEF DInv
<1>1. /\ pc[c] = "map_store" /\ pc[c] \in Mapping_pcs
      /\ pt' = [pt EXCEPT ![t][a] = p] /\ Unlock(c) /\ Return(c)
      /\ UNCHANGED <<spaces, regionVars, dir, frames, zoneVars>>
  BY DEF MapStore, Mapping_pcs
<1>2. a \in PageAddrs /\ p \in Pages /\ p # None /\ t \in Frames
  BY <1>1, MappingCall, TablesTaken
<1>3. /\ CallTypes' /\ \A d \in CPUs \ {c} : SameCall(d)
      /\ pc'[c] = "idle" /\ region'[c] = None /\ phys'[c] = None
  BY <1>0, <1>1, ReturnEffect
<1>4. plock' \in [Objects -> CPUs \cup {None}]
  BY <1>0, <1>1, UnlockEffect
<1>5. /\ \A f \in Frames, v \in PageAddrs : pt[f][v] # p
      /\ p \notin movable /\ p \notin unmovable
      /\ \A d \in CPUs \ {c} : phys[d] # p
  BY <1>2 DEF DInv, PagesOnce
<1>6. \A d \in CPUs \ {c} : pc[d] = "map_link" => table[d] # t
  BY <1>1 DEF DInv, TablesInv, FreshTables
<1> HIDE DEF t, a, p
<1>7. /\ \A f \in Frames, v \in PageAddrs :
           pt'[f][v] = IF f = t /\ v = a THEN p ELSE pt[f][v]
      /\ \A f \in Frames : f # t => pt'[f] = pt[f]
  BY <1>0, <1>1, <1>2 DEF TypeOK
<1>8. TypeOK'
  <2>1. pt' \in [Frames -> [PageAddrs -> Pages \cup {None}]]
    BY <1>0, <1>1, <1>2 DEF TypeOK
  <2> QED
    BY <1>0, <1>1, <1>3, <1>4, <2>1 DEF TypeOK, regionVars, zoneVars, CallTypes
<1>9. CallInv'
  BY <1>3, CallsKept DEF Mapping_pcs
<1>10. RegionsDisjoint' /\ ListOnce'
  BY <1>1, RegionsFrame
<1>11. PagesOnce'
  <2>1. UNCHANGED <<movable, unmovable>>
    BY <1>1 DEF zoneVars
  <2>2. \A d \in CPUs : phys'[d] = None \/ (d # c /\ phys'[d] = phys[d])
    BY <1>3 DEF SameCall
  <2>3. None \notin movable /\ None \notin unmovable
    BY <1>0, PagingAssumption DEF TypeOK
  <2>4. ASSUME NEW f \in Frames, NEW g \in Frames, NEW v \in PageAddrs,
               NEW w \in PageAddrs, pt'[f][v] # None, pt'[f][v] = pt'[g][w]
        PROVE  f = g /\ v = w
    <3>1. CASE f = t /\ v = a
      BY <1>5, <1>7, <2>4, <3>1
    <3>2. CASE g = t /\ w = a
      BY <1>5, <1>7, <2>4, <3>2
    <3>3. CASE ~(f = t /\ v = a) /\ ~(g = t /\ w = a)
      <4>1. pt[f][v] # None /\ pt[f][v] = pt[g][w]
        BY <1>7, <2>4, <3>3
      <4> QED
        BY <4>1 DEF DInv, PagesOnce
    <3> QED
      BY <3>1, <3>2, <3>3
  <2>5. \A f \in Frames, v \in PageAddrs :
          /\ pt'[f][v] \notin movable' /\ pt'[f][v] \notin unmovable'
          /\ \A d \in CPUs : phys'[d] # None => phys'[d] # pt'[f][v]
    BY <1>5, <1>7, <2>1, <2>2 DEF DInv, PagesOnce
  <2>6. /\ \A d, e \in CPUs : phys'[d] # None /\ phys'[d] = phys'[e] => d = e
        /\ \A d \in CPUs : phys'[d] \notin movable' /\ phys'[d] \notin unmovable'
        /\ movable' \cap unmovable' = {}
    BY <2>1, <2>2, <2>3 DEF DInv, PagesOnce
  <2> QED
    BY <2>4, <2>5, <2>6 DEF PagesOnce
<1>12. TablesInv'
  <2>1. DirOnce' /\ frames' \subseteq frames
    BY <1>1 DEF DInv, TablesInv, DirOnce
  <2>2. ASSUME NEW d \in CPUs \ {c}
        PROVE  StillFresh(d) /\ StillUsed(d)
    <3>1. StillFresh(d)
      <4> SUFFICES ASSUME pc[d] = "map_link"
                   PROVE  /\ \A m \in Pml4s, i \in TableIndices : dir'[m][i] # table[d]
                          /\ \A v \in PageAddrs : pt'[table[d]][v] = None
        BY DEF StillFresh
      <4>1. table[d] # t /\ table[d] \in Frames
        BY <1>6, TablesTaken
      <4> QED
        BY <1>1, <1>7, <4>1 DEF DInv, TablesInv, FreshTables
    <3>2. StillUsed(d)
      BY <1>1 DEF DInv, TablesInv, UsedTables, StillUsed
    <3> QED
      BY <3>1, <3>2
  <2> QED
    BY <1>3, <2>1, <2>2, TablesStep
<1> QED
  BY <1>8, <1>9, <1>10, <1>11, <1>12 DEF DInv

\* Steps outside the calls leave their locals alone.
CallsIdle == UNCHANGED <<pc, as, addr, region, phys, table>>

\* What registering a region in object o changes.
Registered(m, o, s, e) ==
  /\ o \in Objects \ Live
  /\ start' = [start EXCEPT ![o] = s] /\ end' = [end EXCEPT ![o] = e]
  /\ regions' = [regions EXCEPT ![m] = <<o>> \o @]
  /\ plock' = [plock EXCEPT ![o] = None]

\* Registering a region either fails or enters a new one that overlaps none.
LEMMA RegisterEffect ==
  ASSUME DInv, NEW m \in Pml4s, NEW s \in Addresses, NEW size \in Addresses,
         NEW dp \in BOOLEAN, Register(m, s, size, dp)
  PROVE  /\ CallsIdle /\ UNCHANGED <<dir, pt, frames, movable, unmovable>>
         /\ spaces' \in Seq(Pml4s) /\ Len(spaces') <= MAX_ADDRESS_SPACES
         /\ demand' \in [Objects -> BOOLEAN]
         /\ \/ UNCHANGED <<regions, start, end, plock>>
            \/ \E o \in Objects, b, e \in PageAddrs :
                 /\ Registered(m, o, b, e)
                 /\ \A p \in Range(regions[m]) : ~Overlaps(b, e, p)
<1> DEFINE b == AlignDown(s)
           e == AlignUp((s + size) % AddrMod)
           overlap == \E p \in Range(regions[m]) : Overlaps(b, e, p)
<1>1. /\ CallsIdle /\ UNCHANGED <<dir, pt, frames, movable, unmovable>>
      /\ get_address_space(m)
  BY DEF Register, CallsIdle, callVars, vmmVars, zoneVars
<1>2. TypeOK
  BY DEF DInv
<1>3. spaces' \in Seq(Pml4s) /\ Len(spaces') <= MAX_ADDRESS_SPACES
  BY <1>1, <1>2, SpacesKept
<1>4. b \in PageAddrs /\ e \in PageAddrs
  <2>1. s + size \in Nat
    BY PagingAssumption DEF Addresses
  <2> QED
    BY <2>1, AlignFacts
<1>5. CASE UNCHANGED <<regionVars, plock>>
  BY <1>1, <1>2, <1>3, <1>5 DEF regionVars, TypeOK
<1>6. ASSUME ~overlap, NEW o \in Objects \ Live,
             start' = [start EXCEPT ![o] = b], end' = [end EXCEPT ![o] = e],
             demand' = [demand EXCEPT ![o] = dp],
             plock' = [plock EXCEPT ![o] = None],
             regions' = [regions EXCEPT ![m] = <<o>> \o @]
      PROVE  /\ demand' \in [Objects -> BOOLEAN]
             /\ \E q \in Objects, x, y \in PageAddrs :
                  /\ Registered(m, q, x, y)
                  /\ \A p \in Range(regions[m]) : ~Overlaps(x, y, p)
  <2>1. demand' \in [Objects -> BOOLEAN]
    BY <1>2, <1>6 DEF TypeOK
  <2>2. \A p \in Range(regions[m]) : ~Overlaps(b, e, p)
    BY <1>6
  <2> HIDE DEF b, e, overlap
  <2>3. Registered(m, o, b, e)
    BY <1>6 DEF Registered
  <2> QED
    BY <1>4, <2>1, <2>2, <2>3
<1>7. \/ UNCHANGED <<regionVars, plock>>
      \/ /\ ~overlap
         /\ \E o \in Objects \ Live :
             /\ start' = [start EXCEPT ![o] = b]
             /\ end' = [end EXCEPT ![o] = e]
             /\ demand' = [demand EXCEPT ![o] = dp]
             /\ plock' = [plock EXCEPT ![o] = None]
             /\ regions' = [regions EXCEPT ![m] = <<o>> \o @]
  BY Zenon DEF Register
<1> HIDE DEF b, e, overlap
<1> QED
  BY <1>1, <1>3, <1>5, <1>6, <1>7

\* The regions after one was registered: the old ones as they were, and o.
LEMMA RegisteredFacts ==
  ASSUME TypeOK, NEW m \in Pml4s, NEW o \in Objects, NEW b \in PageAddrs,
         NEW e \in PageAddrs, Registered(m, o, b, e)
  PROVE  /\ regions' \in [Pml4s -> Seq(Objects)]
         /\ start' \in [Objects -> PageAddrs] /\ end' \in [Objects -> PageAddrs]
         /\ plock' \in [Objects -> CPUs \cup {None}]
         /\ \A n \in Pml4s : n # m => regions'[n] = regions[n]
         /\ Range(regions'[m]) = Range(regions[m]) \cup {o}
         /\ IsInjective(regions[m]) => IsInjective(regions'[m])
         /\ \A n \in Pml4s : o \notin Range(regions[n])
         /\ start'[o] = b /\ end'[o] = e
         /\ \A p \in Objects \ {o} :
              start'[p] = start[p] /\ end'[p] = end[p] /\ plock'[p] = plock[p]
<1>1. regions[m] \in Seq(Objects)
  BY DEF TypeOK
<1>2. \A n \in Pml4s : o \notin Range(regions[n])
  BY DEF Registered, Live
<1> DEFINE t == <<o>> \o regions[m]
<1>3. t \in Seq(Objects) /\ Range(t) = Range(regions[m]) \cup {o}
  BY <1>1, SeqPush
<1>4. IsInjective(regions[m]) => IsInjective(t)
  BY <1>1, <1>2, SeqPush
<1>5. regions' = [regions EXCEPT ![m] = t]
  BY DEF Registered
<1> HIDE DEF t
<1>6. /\ regions' \in [Pml4s -> Seq(Objects)] /\ regions'[m] = t
      /\ \A n \in Pml4s : n # m => regions'[n] = regions[n]
  BY <1>3, <1>5 DEF TypeOK
<1>7. /\ start' \in [Objects -> PageAddrs] /\ end' \in [Objects -> PageAddrs]
      /\ plock' \in [Objects -> CPUs \cup {None}]
      /\ start'[o] = b /\ end'[o] = e
      /\ \A p \in Objects \ {o} :
           start'[p] = start[p] /\ end'[p] = end[p] /\ plock'[p] = plock[p]
  BY DEF Registered, TypeOK
<1> QED
  BY <1>2, <1>3, <1>4, <1>6, <1>7

\* Registering a region.
LEMMA RegisterStep ==
  ASSUME DInv, NEW m \in Pml4s, NEW s \in Addresses, NEW size \in Addresses,
         NEW dp \in BOOLEAN, Register(m, s, size, dp)
  PROVE  DInv'
<1>0. TypeOK
  BY DEF DInv
<1>1. /\ CallsIdle /\ UNCHANGED <<dir, pt, frames, movable, unmovable>>
      /\ spaces' \in Seq(Pml4s) /\ Len(spaces') <= MAX_ADDRESS_SPACES
      /\ demand' \in [Objects -> BOOLEAN]
  BY RegisterEffect
<1>2. CallInv'
  BY <1>1 DEF DInv, CallInv, CallsIdle
<1>3. PagesOnce'
  BY <1>1 DEF DInv, PagesOnce, CallsIdle
<1>4. TablesInv'
  <2>1. UNCHANGED <<dir, pt, frames>> /\ \A d \in CPUs : SameCall(d)
    BY <1>1 DEF CallsIdle, SameCall
  <2> QED
    BY <2>1, TablesFrame
<1>5. CASE UNCHANGED <<regions, start, end, plock>>
  <2>1. TypeOK'
    BY <1>0, <1>1, <1>5 DEF TypeOK, CallsIdle
  <2>2. RegionsDisjoint' /\ ListOnce'
    BY <1>5 DEF DInv, RegionsDisjoint, ListOnce, RegionPages
  <2> QED
    BY <1>2, <1>3, <1>4, <2>1, <2>2 DEF DInv
<1>6. ASSUME NEW o \in Objects, NEW b \in PageAddrs, NEW e \in PageAddrs,
             Registered(m, o, b, e),
             \A p \in Range(regions[m]) : ~Overlaps(b, e, p)
      PROVE  DInv'
  <2>1. /\ regions' \in [Pml4s -> Seq(Objects)]
        /\ start' \in [Objects -> PageAddrs] /\ end' \in [Objects -> PageAddrs]
        /\ plock' \in [Objects -> CPUs \cup {None}]
        /\ \A n \in Pml4s : n # m => regions'[n] = regions[n]
        /\ Range(regions'[m]) = Range(regions[m]) \cup {o}
        /\ IsInjective(regions[m]) => IsInjective(regions'[m])
        /\ \A n \in Pml4s : o \notin Range(regions[n])
        /\ start'[o] = b /\ end'[o] = e
        /\ \A p \in Objects \ {o} :
             start'[p] = start[p] /\ end'[p] = end[p] /\ plock'[p] = plock[p]
    BY <1>0, <1>6, RegisteredFacts
  <2>2. TypeOK'
    BY <1>0, <1>1, <2>1 DEF TypeOK, CallsIdle
  <2>3. ListOnce'
    BY <2>1 DEF DInv, ListOnce
  <2>4. \A n \in Pml4s : \A p \in Range(regions[n]) : p \in Objects \ {o}
    BY <1>0, <2>1 DEF TypeOK, Range
  <2>5. \A p \in Objects \ {o} : RegionPages(p)' = RegionPages(p)
    BY <2>1 DEF RegionPages
  <2>6. ASSUME NEW p \in Range(regions[m])
        PROVE  RegionPages(o)' \cap RegionPages(p)' = {}
    <3> SUFFICES ASSUME NEW v, v \in RegionPages(o)', v \in RegionPages(p)'
                 PROVE  FALSE
      OBVIOUS
    <3>1. p \in Objects \ {o} /\ v \in RegionPages(p)
      BY <2>4, <2>5
    <3>2. v \in Nat /\ v >= b /\ v < e /\ v >= start[p] /\ v < end[p]
      BY <2>1, <3>1, AlignFacts DEF RegionPages
    <3>3. b \in Nat /\ e \in Nat /\ start[p] \in Nat /\ end[p] \in Nat
      BY <1>0, <3>1, AlignFacts DEF TypeOK
    <3>4. ~Overlaps(b, e, p)
      BY <1>6
    <3> QED
      BY <3>2, <3>3, <3>4 DEF Overlaps
  <2>7. RegionsDisjoint'
    <3> SUFFICES ASSUME NEW n \in Pml4s, NEW p \in Range(regions'[n]),
                        NEW q \in Range(regions'[n]), p # q
                 PROVE  RegionPages(p)' \cap RegionPages(q)' = {}
      BY DEF RegionsDisjoint
    <3>1. CASE p \in Range(regions[n]) /\ q \in Range(regions[n])
      <4>1. RegionPages(p)' = RegionPages(p) /\ RegionPages(q)' = RegionPages(q)
        BY <2>4, <2>5, <3>1
      <4>2. RegionPages(p) \cap RegionPages(q) = {}
        BY <3>1 DEF DInv, RegionsDisjoint
      <4> QED
        BY <4>1, <4>2
    <3>2. CASE n = m /\ p = o /\ q \in Range(regions[m])
      BY <3>2, <2>6
    <3>3. CASE n = m /\ q = o /\ p \in Range(regions[m])
      BY <3>3, <2>6
    <3> QED
      BY <2>1, <3>1, <3>2, <3>3
  <2> QED
    BY <1>2, <1>3, <1>4, <2>2, <2>3, <2>7 DEF DInv
<1> QED
  BY <1>5, <1>6, RegisterEffect

\* What unregistering the i-th region of a list changes.
Unregistered(m, i) ==
  /\ Quiesce => Users(regions[m][i]) = {}
  /\ regions' = [regions EXCEPT ![m] = Unlink(@, i)]
  /\ vmm_unmap_pages(m, RegionPages(regions[m][i]))
  /\ unmovable' = unmovable \cup Freed(m, regions[m][i])

\* Unregistering a region either finds none or takes it away.
LEMMA UnregisterEffect ==
  ASSUME DInv, NEW m \in Pml4s, NEW s \in Addresses, Unregister(m, s)
  PROVE  /\ CallsIdle
         /\ UNCHANGED <<start, end, demand, plock, dir, frames, movable>>
         /\ spaces' \in Seq(Pml4s) /\ Len(spaces') <= MAX_ADDRESS_SPACES
         /\ \/ UNCHANGED <<regions, pt, unmovable>>
            \/ \E i \in 1..Len(regions[m]) : Unregistered(m, i)
<1>1. /\ CallsIdle /\ get_address_space(m) /\ TypeOK
      /\ UNCHANGED <<start, end, demand, plock, dir, frames, movable>>
  BY DEF Unregister, CallsIdle, callVars, DInv
<1>2. spaces' \in Seq(Pml4s) /\ Len(spaces') <= MAX_ADDRESS_SPACES
  BY <1>1, SpacesKept
<1>3. \A i \in First(regions[m], StartingAt(AlignDown(s))) : i \in 1..Len(regions[m])
  BY DEF First
<1>4. \/ UNCHANGED <<regions, pt, unmovable>>
      \/ \E i \in First(regions[m], StartingAt(AlignDown(s))) : Unregistered(m, i)
  BY DEF Unregister, Unregistered
<1> QED
  BY <1>1, <1>2, <1>3, <1>4

\* The regions and entries after a region was unregistered.
LEMMA UnregisteredFacts ==
  ASSUME DInv, NEW m \in Pml4s, NEW i \in 1..Len(regions[m]),
         Unregistered(m, i), UNCHANGED dir
  PROVE  /\ regions' \in [Pml4s -> Seq(Objects)]
         /\ regions[m][i] \in Objects /\ regions[m][i] \in Range(regions[m])
         /\ \A n \in Pml4s : n # m => regions'[n] = regions[n]
         /\ Range(regions'[m]) = Range(regions[m]) \ {regions[m][i]}
         /\ IsInjective(regions'[m])
         /\ pt' \in [Frames -> [PageAddrs -> Pages \cup {None}]]
         /\ \A f \in Frames, v \in PageAddrs :
              pt'[f][v] = IF f \in Range(dir[m]) /\ v \in RegionPages(regions[m][i])
                            THEN None ELSE pt[f][v]
<1>1. TypeOK /\ regions[m] \in Seq(Objects) /\ IsInjective(regions[m])
  BY DEF DInv, TypeOK, ListOnce
<1> DEFINE l == regions[m]
           o == l[i]
           t == Unlink(l, i)
<1>2. o \in Objects /\ o \in Range(l)
  BY <1>1 DEF Range
<1>3. /\ t \in Seq(Objects) /\ Range(t) \subseteq Range(l)
      /\ Range(l) \ {o} \subseteq Range(t)
      /\ IsInjective(t) /\ o \notin Range(t)
  BY <1>1, UnlinkFacts
<1>4. regions' = [regions EXCEPT ![m] = t]
  BY DEF Unregistered
<1>5. pt' = [f \in Frames |->
              IF f \in Range(dir[m])
                THEN [v \in PageAddrs |-> IF v \in RegionPages(o) THEN None ELSE pt[f][v]]
                ELSE pt[f]]
  BY DEF Unregistered, vmm_unmap_pages
<1> HIDE DEF o, t
<1>6. /\ regions' \in [Pml4s -> Seq(Objects)] /\ regions'[m] = t
      /\ \A n \in Pml4s : n # m => regions'[n] = regions[n]
  BY <1>1, <1>3, <1>4 DEF TypeOK
<1>7. Range(t) = Range(l) \ {o}
  BY <1>3
<1>8. ASSUME NEW f \in Frames, NEW v \in PageAddrs
      PROVE  pt'[f][v] = IF f \in Range(dir[m]) /\ v \in RegionPages(o)
                           THEN None ELSE pt[f][v]
  BY <1>5
<1>9. pt' \in [Frames -> [PageAddrs -> Pages \cup {None}]]
  <2>1. ASSUME NEW f \in Frames
        PROVE  (IF f \in Range(dir[m])
                  THEN [v \in PageAddrs |-> IF v \in RegionPages(o) THEN None ELSE pt[f][v]]
                  ELSE pt[f]) \in [PageAddrs -> Pages \cup {None}]
    <3>1. pt[f] \in [PageAddrs -> Pages \cup {None}]
      BY <1>1 DEF TypeOK
    <3> QED
      BY <3>1
  <2> QED
    BY <1>5, <2>1
<1> QED
  BY <1>2, <1>3, <1>6, <1>7, <1>8, <1>9 DEF o

\* Unregistering a region.
LEMMA UnregisterStep ==
  ASSUME DInv, NEW m \in Pml4s, NEW s \in Addresses, Unregister(m, s)
  PROVE  DInv'
<1>0. TypeOK
  BY DEF DInv
<1>1. /\ CallsIdle
      /\ UNCHANGED <<start, end, demand, plock, dir, frames, movable>>
      /\ spaces' \in Seq(Pml4s) /\ Len(spaces') <= MAX_ADDRESS_SPACES
  BY UnregisterEffect
<1>2. CallInv'
  BY <1>1 DEF DInv, CallInv, CallsIdle
<1>3. CASE UNCHANGED <<regions, pt, unmovable>>
  <2>1. TypeOK'
    BY <1>0, <1>1, <1>3 DEF TypeOK, CallsIdle
  <2>2. RegionsDisjoint' /\ ListOnce'
    BY <1>1, <1>3 DEF DInv, RegionsDisjoint, ListOnce, RegionPages
  <2>3. UNCHANGED <<dir, pt, frames, movable, unmovable>> /\ \A d \in CPUs : SameCall(d)
    BY <1>1, <1>3 DEF CallsIdle, SameCall
  <2>4. TablesInv'
    BY <2>3, TablesFrame
  <2>5. \A d \in CPUs : phys'[d] = phys[d]
    BY <2>3 DEF SameCall
  <2>6. PagesOnce'
    BY <2>3, <2>5, PagesFrame
  <2> QED
    BY <1>2, <2>1, <2>2, <2>4, <2>6 DEF DInv
<1>4. ASSUME NEW i \in 1..Len(regions[m]), Unregistered(m, i)
      PROVE  DInv'
  <2> DEFINE o == regions[m][i]
  <2>1. /\ regions' \in [Pml4s -> Seq(Objects)] /\ o \in Objects
        /\ \A n \in Pml4s : n # m => regions'[n] = regions[n]
        /\ Range(regions'[m]) = Range(regions[m]) \ {o}
        /\ IsInjective(regions'[m])
        /\ pt' \in [Frames -> [PageAddrs -> Pages \cup {None}]]
        /\ \A f \in Frames, v \in PageAddrs :
             pt'[f][v] = IF f \in Range(dir[m]) /\ v \in RegionPages(o)
                           THEN None ELSE pt[f][v]
    BY <1>1, <1>4, UnregisteredFacts
  <2>2. unmovable' = unmovable \cup Freed(m, o)
    BY <1>4 DEF Unregistered
  <2> HIDE DEF o
  <2>3. ASSUME NEW p \in Freed(m, o)
        PROVE  /\ p \in Pages /\ p # None
               /\ \E f \in Frames, v \in PageAddrs :
                    pt[f][v] = p /\ f \in Range(dir[m]) /\ v \in RegionPages(o)
    <3>1. PICK v \in RegionPages(o) : p = vmm_get_physical_address(m, v) /\ p # None
      BY DEF Freed
    <3>2. v \in PageAddrs /\ TableOf(v) \in TableIndices
      BY TableFacts DEF RegionPages
    <3>3. dir[m][TableOf(v)] \in Frames \cup {None} /\ dir[m][TableOf(v)] \in Range(dir[m])
      BY <1>0, <3>2 DEF TypeOK, Range
    <3>4. dir[m][TableOf(v)] \in Frames /\ p = pt[dir[m][TableOf(v)]][v]
      BY <3>1, <3>3 DEF vmm_get_physical_address
    <3>5. p \in Pages
      BY <1>0, <3>1, <3>2, <3>4 DEF TypeOK
    <3> QED
      BY <3>1, <3>2, <3>3, <3>4, <3>5
  <2>4. TypeOK'
    <3>1. unmovable' \subseteq Pages
      BY <1>0, <2>2, <2>3 DEF TypeOK
    <3> QED
      BY <1>0, <1>1, <2>1, <3>1 DEF TypeOK, CallsIdle
  <2>5. ListOnce'
    BY <2>1 DEF DInv, ListOnce
  <2>6. RegionsDisjoint'
    <3>1. \A p : RegionPages(p)' = RegionPages(p)
      BY <1>1 DEF RegionPages
    <3>2. \A n \in Pml4s : Range(regions'[n]) \subseteq Range(regions[n])
      BY <2>1
    <3> QED
      BY <3>1, <3>2 DEF DInv, RegionsDisjoint
  <2>7. TablesInv'
    <3>1. UNCHANGED <<dir, frames>> /\ UNCHANGED <<pc, as, addr, table>>
      BY <1>1 DEF CallsIdle
    <3>2. DirOnce'
      BY <3>1 DEF DInv, TablesInv, DirOnce
    <3>3. UsedTables'
      BY <3>1 DEF DInv, TablesInv, UsedTables
    <3>4. \A f \in Frames : \A v \in PageAddrs : pt[f][v] = None => pt'[f][v] = None
      BY <2>1
    <3>5. FreshTables'
      BY <3>1, <3>4 DEF DInv, TablesInv, FreshTables
    <3> QED
      BY <3>2, <3>3, <3>5 DEF TablesInv
  <2>8. PagesOnce'
    <3>1. UNCHANGED movable /\ UNCHANGED phys
      BY <1>1 DEF CallsIdle
    <3>2. \A f \in Frames, v \in PageAddrs : pt'[f][v] = pt[f][v] \/ pt'[f][v] = None
      BY <2>1
    <3>3. None \notin movable /\ None \notin unmovable
      BY <1>0, PagingAssumption DEF TypeOK
    <3>4. \A f, g \in Frames, v, w \in PageAddrs :
            pt'[f][v] # None /\ pt'[f][v] = pt'[g][w] => f = g /\ v = w
      BY <3>2 DEF DInv, PagesOnce
    <3>5. ASSUME NEW f \in Frames, NEW v \in PageAddrs
          PROVE  pt'[f][v] \notin Freed(m, o)
      <4> SUFFICES ASSUME pt'[f][v] \in Freed(m, o) PROVE FALSE
        OBVIOUS
      <4>1. pt'[f][v] = pt[f][v] /\ pt[f][v] # None
        BY <3>2, <2>3
      <4>2. PICK g \in Frames, w \in PageAddrs :
              pt[g][w] = pt[f][v] /\ g \in Range(dir[m]) /\ w \in RegionPages(o)
        BY <2>3, <4>1
      <4>3. g = f /\ w = v
        BY <4>1, <4>2 DEF DInv, PagesOnce
      <4>4. pt'[f][v] = None
        BY <2>1, <4>2, <4>3
      <4> QED
        BY <4>1, <4>4
    <3>6. \A d \in CPUs : phys[d] \notin Freed(m, o)
      BY <2>3 DEF DInv, PagesOnce
    <3>7. \A p \in Freed(m, o) : p \notin movable
      BY <2>3 DEF DInv, PagesOnce
    <3>8. \A f \in Frames, v \in PageAddrs :
            /\ pt'[f][v] \notin movable /\ pt'[f][v] \notin unmovable'
            /\ \A d \in CPUs : phys[d] # None => phys[d] # pt'[f][v]
      BY <2>2, <3>2, <3>3, <3>5 DEF DInv, PagesOnce
    <3>9. /\ \A d \in CPUs : phys[d] \notin movable /\ phys[d] \notin unmovable'
          /\ movable \cap unmovable' = {}
      BY <2>2, <3>6, <3>7 DEF DInv, PagesOnce
    <3> QED
      BY <3>1, <3>4, <3>8, <3>9 DEF DInv, PagesOnce
  <2> QED
    BY <1>2, <2>4, <2>5, <2>6, <2>7, <2>8 DEF DInv
<1> QED
  BY <1>3, <1>4, UnregisterEffect

-----------------------------------------------------------------------------
(* What holds whatever the callers do *)

\* No step changes the variables without being one of the steps.
LEMMA StutterStep == DInv /\ UNCHANGED vars => DInv'
<1> SUFFICES ASSUME DInv, UNCHANGED vars PROVE DInv'
  OBVIOUS
<1>1. /\ UNCHANGED <<spaces, regions, start, end, demand, plock>>
      /\ UNCHANGED <<dir, pt, frames, movable, unmovable>> /\ CallsIdle
  BY DEF vars, CallsIdle
<1>2. TypeOK'
  BY <1>1 DEF DInv, TypeOK, CallsIdle
<1>3. RegionsDisjoint' /\ ListOnce'
  BY <1>1 DEF DInv, RegionsDisjoint, ListOnce, RegionPages
<1>4. CallInv'
  BY <1>1 DEF DInv, CallInv, CallsIdle
<1>5. \A d \in CPUs : SameCall(d)
  BY <1>1 DEF CallsIdle, SameCall
<1>6. TablesInv'
  BY <1>1, <1>5, TablesFrame
<1>7. \A d \in CPUs : phys'[d] = phys[d]
  BY <1>5 DEF SameCall
<1>8. PagesOnce'
  BY <1>1, <1>7, PagesFrame
<1> QED
  BY <1>2, <1>3, <1>4, <1>6, <1>8 DEF DInv

\* Every step keeps the invariant.
LEMMA NextInv == DInv /\ [Next]_vars => DInv'
<1> SUFFICES ASSUME DInv, [Next]_vars PROVE DInv'
  OBVIOUS
<1>1. ASSUME NEW m \in Pml4s, NEW s \in Addresses, NEW size \in Addresses,
             NEW dp \in BOOLEAN, Register(m, s, size, dp)
      PROVE  DInv'
  BY <1>1, RegisterStep
<1>2. ASSUME NEW m \in Pml4s, NEW s \in Addresses, Unregister(m, s) PROVE DInv'
  BY <1>2, UnregisterStep
<1>3. ASSUME NEW c \in CPUs, NEW m \in Pml4s, NEW v \in Addresses, FaultFind(c, m, v)
      PROVE  DInv'
  BY <1>3, FindStep
<1>4. ASSUME NEW c \in CPUs, FaultCheck(c) PROVE DInv'
  BY <1>4, CheckStep
<1>5. ASSUME NEW c \in CPUs, FaultLock(c) PROVE DInv'
  BY <1>5, LockStep
<1>6. ASSUME NEW c \in CPUs, FaultRecheck(c) PROVE DInv'
  BY <1>6, RecheckStep
<1>7. ASSUME NEW c \in CPUs, FaultAlloc(c) PROVE DInv'
  BY <1>7, AllocStep
<1>8. ASSUME NEW c \in CPUs, MapWalk(c) PROVE DInv'
  BY <1>8, WalkStep
<1>9. ASSUME NEW c \in CPUs, MapLink(c) PROVE DInv'
  BY <1>9, LinkStep
<1>10. ASSUME NEW c \in CPUs, MapReload(c) PROVE DInv'
  BY <1>10, ReloadStep
<1>11. ASSUME NEW c \in CPUs, MapStore(c) PROVE DInv'
  BY <1>11, StoreStep
<1>12. CASE UNCHANGED vars
  BY <1>12, StutterStep
<1> QED
  BY <1>1, <1>2, <1>3, <1>4, <1>5, <1>6, <1>7, <1>8, <1>9, <1>10, <1>11, <1>12
     DEF Next, Fault

\* The regions, the tables and the pages stay in order in every interleaving of
\* faults, registrations and unregistrations, even those that unregister a
\* region under a fault: demand_paging.c as a whole.
THEOREM Invariance == Spec => []DInv
BY InitInv, NextInv, PTL DEF Spec

\* Every variable keeps its type: no list, table or local of
\* demand_paging_handle_fault ever holds anything else.
THEOREM TypeCorrect == Spec => []TypeOK
<1>1. DInv => TypeOK
  BY DEF DInv
<1> QED
  BY <1>1, Invariance, PTL

\* Regions of one address space never share a page: the overlap check of
\* demand_paging_register_region suffices, wherever aligning and wrapping put
\* the bounds.
THEOREM RegionsApart == Spec => []RegionsDisjoint
<1>1. DInv => RegionsDisjoint
  BY DEF DInv
<1> QED
  BY <1>1, Invariance, PTL

\* What a space has mapped is an entry of the table entered there.
LEMMA MappingFacts ==
  ASSUME TypeOK, NEW m \in Pml4s, NEW v \in PageAddrs
  PROVE  /\ Mapping(m, v) \in Pages \cup {None} /\ TableOf(v) \in TableIndices
         /\ dir[m][TableOf(v)] \in Frames \cup {None}
         /\ dir[m][TableOf(v)] = None => Mapping(m, v) = None
         /\ dir[m][TableOf(v)] # None => Mapping(m, v) = pt[dir[m][TableOf(v)]][v]
<1>1. TableOf(v) \in TableIndices
  BY TableFacts
<1>2. dir[m][TableOf(v)] \in Frames \cup {None}
  BY <1>1 DEF TypeOK
<1>3. CASE dir[m][TableOf(v)] = None
  BY <1>1, <1>2, <1>3 DEF Mapping, vmm_get_physical_address
<1>4. CASE dir[m][TableOf(v)] # None
  <2>1. Mapping(m, v) = pt[dir[m][TableOf(v)]][v]
    BY <1>4 DEF Mapping, vmm_get_physical_address
  <2>2. pt[dir[m][TableOf(v)]][v] \in Pages \cup {None}
    BY <1>2, <1>4 DEF TypeOK
  <2> QED
    BY <1>1, <1>2, <1>4, <2>1, <2>2
<1> QED
  BY <1>3, <1>4

\* A page is entered in one place.
LEMMA OnePlace ==
  ASSUME DInv, NEW f \in Frames, NEW g \in Frames, NEW v \in PageAddrs,
         NEW w \in PageAddrs, pt[f][v] # None, pt[f][v] = pt[g][w]
  PROVE  f = g /\ v = w
BY DEF DInv, PagesOnce

\* No page is ever mapped in two places, nor while it is free or held by a
\* fault: vmm_map_page may lose a table to a racing fault, but never gives two
\* addresses one page.
THEOREM PagesMappedOnce == Spec => []MappedOnce
<1>1. ASSUME DInv PROVE MappedOnce
  <2>0. TypeOK
    BY <1>1 DEF DInv
  <2>1. ASSUME NEW m \in Pml4s, NEW n \in Pml4s, NEW v \in PageAddrs,
               NEW w \in PageAddrs, Mapping(m, v) # None,
               Mapping(m, v) = Mapping(n, w)
        PROVE  m = n /\ v = w
    <3> DEFINE i == TableOf(v)
               j == TableOf(w)
    <3>1. /\ i \in TableIndices /\ dir[m][i] \in Frames /\ dir[m][i] # None
          /\ Mapping(m, v) = pt[dir[m][i]][v]
      BY <2>0, <2>1, MappingFacts, PagingAssumption
    <3>2. /\ j \in TableIndices /\ dir[n][j] \in Frames
          /\ Mapping(n, w) = pt[dir[n][j]][w]
      BY <2>0, <2>1, MappingFacts, PagingAssumption
    <3> HIDE DEF i, j
    <3>3. dir[m][i] = dir[n][j] /\ v = w
      <4> DEFINE f == dir[m][i]
                 g == dir[n][j]
      <4>1. f \in Frames /\ g \in Frames /\ pt[f][v] # None /\ pt[f][v] = pt[g][w]
        BY <2>1, <3>1, <3>2
      <4> HIDE DEF f, g
      <4>2. f = g /\ v = w
        BY <1>1, <4>1, OnePlace
      <4> QED
        BY <4>2 DEF f, g
    <3>4. m = n
      BY <1>1, <3>1, <3>2, <3>3, OneEntry
    <3> QED
      BY <3>3, <3>4
  <2>2. ASSUME NEW m \in Pml4s, NEW v \in PageAddrs
        PROVE  Mapping(m, v) \notin movable \cup unmovable
                                      \cup ({phys[c] : c \in CPUs} \ {None})
    <3>1. CASE Mapping(m, v) = None
      BY <2>0, <3>1, PagingAssumption DEF TypeOK
    <3>2. CASE Mapping(m, v) # None
      <4>1. dir[m][TableOf(v)] \in Frames /\ Mapping(m, v) = pt[dir[m][TableOf(v)]][v]
        BY <2>0, <3>2, MappingFacts
      <4> QED
        BY <1>1, <4>1 DEF DInv, PagesOnce
    <3> QED
      BY <3>1, <3>2
  <2> QED
    BY <2>1, <2>2 DEF MappedOnce
<1> QED
  BY <1>1, Invariance, PTL

-----------------------------------------------------------------------------
(* What the steps do to the mappings *)

\* With the tables as they were, every page stays where it is.
LEMMA MapsSame ==
  ASSUME UNCHANGED <<dir, pt>>
  PROVE  \A m \in Pml4s, v \in PageAddrs : Mapping(m, v)' = Mapping(m, v)
BY DEF Mapping, vmm_get_physical_address

\* Clearing a table that is entered nowhere changes no mapping.
LEMMA MapsNewTable ==
  ASSUME DInv, NEW g \in frames, pt' = [pt EXCEPT ![g] = NoEntries], UNCHANGED dir
  PROVE  \A m \in Pml4s, v \in PageAddrs : Mapping(m, v)' = Mapping(m, v)
<1> SUFFICES ASSUME NEW m \in Pml4s, NEW v \in PageAddrs
             PROVE  Mapping(m, v)' = Mapping(m, v)
  OBVIOUS
<1> DEFINE f == dir[m][TableOf(v)]
<1>1. f \in Frames \cup {None} /\ f # g
  BY TableFacts DEF DInv, TypeOK, TablesInv, DirOnce
<1>2. Mapping(m, v) = IF f = None THEN None ELSE pt[f][v]
  BY DEF Mapping, vmm_get_physical_address
<1>3. Mapping(m, v)' = IF f = None THEN None ELSE pt'[f][v]
  BY DEF Mapping, vmm_get_physical_address
<1> HIDE DEF f
<1>4. f \in Frames => pt'[f] = pt[f]
  BY <1>1 DEF DInv, TypeOK
<1> QED
  BY <1>1, <1>2, <1>3, <1>4

\* Entering a new table hides what the entry held before, and nothing else.
LEMMA MapsLink ==
  ASSUME DInv, NEW c \in CPUs, MapLink(c), NEW m \in Pml4s, NEW v \in PageAddrs
  PROVE  Mapping(m, v)' = IF m = as[c] /\ TableOf(v) = TableOf(addr[c])
                            THEN None ELSE Mapping(m, v)
<1> DEFINE n == as[c]
           j == TableOf(addr[c])
           t == table[c]
           i == TableOf(v)
<1>1. pc[c] = "map_link" /\ pc[c] \in Mapping_pcs /\ pt' = pt
      /\ dir' = [dir EXCEPT ![n][j] = t]
  BY DEF MapLink, Mapping_pcs
<1>2. n \in Pml4s /\ j \in TableIndices /\ i \in TableIndices
  BY <1>1, MappingCall, TableFacts
<1>3. t \in Frames /\ t # None /\ pt[t][v] = None
  BY <1>1, PagingAssumption DEF DInv, TablesInv, FreshTables
<1>4. Mapping(m, v) = IF dir[m][i] = None THEN None ELSE pt[dir[m][i]][v]
  BY DEF Mapping, vmm_get_physical_address
<1>5. Mapping(m, v)' = IF dir'[m][i] = None THEN None ELSE pt'[dir'[m][i]][v]
  BY DEF Mapping, vmm_get_physical_address
<1> HIDE DEF n, j, t, i
<1>6. dir'[m][i] = IF m = n /\ i = j THEN t ELSE dir[m][i]
  BY <1>1, <1>2 DEF DInv, TypeOK
<1>7. Mapping(m, v)' = IF m = n /\ i = j THEN None ELSE Mapping(m, v)
  <2>1. CASE m = n /\ i = j
    BY <2>1, <1>1, <1>3, <1>5, <1>6
  <2>2. CASE ~(m = n /\ i = j)
    BY <2>2, <1>1, <1>4, <1>5, <1>6
  <2> QED
    BY <2>1, <2>2
<1> QED
  BY <1>7 DEF n, j, i

\* Entering a page changes the mapping of the address that faulted at most.
LEMMA MapsStore ==
  ASSUME DInv, NEW c \in CPUs, MapStore(c), NEW m \in Pml4s, NEW v \in PageAddrs
  PROVE  Mapping(m, v)' =
           IF dir[m][TableOf(v)] = table[c] /\ v = addr[c] THEN phys[c] ELSE Mapping(m, v)
<1> DEFINE t == table[c]
           a == addr[c]
           p == phys[c]
           f == dir[m][TableOf(v)]
<1>1. pc[c] = "map_store" /\ pc[c] \in Mapping_pcs /\ pt' = [pt EXCEPT ![t][a] = p]
      /\ dir' = dir
  BY DEF MapStore, Mapping_pcs
<1>2. a \in PageAddrs /\ t \in Frames /\ t # None
  BY <1>1, MappingCall, TablesTaken, PagingAssumption
<1>3. f \in Frames \cup {None}
  BY TableFacts DEF DInv, TypeOK
<1>4. Mapping(m, v) = IF f = None THEN None ELSE pt[f][v]
  BY DEF Mapping, vmm_get_physical_address
<1>5. Mapping(m, v)' = IF f = None THEN None ELSE pt'[f][v]
  BY <1>1 DEF Mapping, vmm_get_physical_address
<1> HIDE DEF t, a, p, f
<1>6. f \in Frames => pt'[f][v] = IF f = t /\ v = a THEN p ELSE pt[f][v]
  BY <1>1, <1>2 DEF DInv, TypeOK
<1>7. Mapping(m, v)' = IF f = t /\ v = a THEN p ELSE Mapping(m, v)
  BY <1>2, <1>3, <1>4, <1>5, <1>6
<1> QED
  BY <1>7 DEF t, a, p, f

\* The address written belongs to the call's space.
LEMMA StorePlace ==
  ASSUME DInv, NEW c \in CPUs, pc[c] = "map_store", NEW m \in Pml4s,
         NEW v \in PageAddrs, dir[m][TableOf(v)] = table[c]
  PROVE  m = as[c]
<1>1. TableOf(v) \in TableIndices
  BY TableFacts
<1> QED
  BY <1>1 DEF DInv, TablesInv, UsedTables

\* Unregistering a region takes away its mappings and no others.
LEMMA MapsUnregister ==
  ASSUME DInv, NEW m \in Pml4s, NEW i \in 1..Len(regions[m]), Unregistered(m, i),
         UNCHANGED dir, NEW n \in Pml4s, NEW v \in PageAddrs
  PROVE  Mapping(n, v)' = IF n = m /\ v \in RegionPages(regions[m][i])
                            THEN None ELSE Mapping(n, v)
<1> DEFINE f == dir[n][TableOf(v)]
           V == RegionPages(regions[m][i])
<1>1. f \in Frames \cup {None} /\ TableOf(v) \in TableIndices
  BY TableFacts DEF DInv, TypeOK
<1>2. f \in Frames => pt'[f][v] = IF f \in Range(dir[m]) /\ v \in V THEN None ELSE pt[f][v]
  BY UnregisteredFacts
<1>3. n = m => f \in Range(dir[m])
  BY <1>1 DEF DInv, TypeOK, Range
<1>4. f # None /\ f \in Range(dir[m]) => n = m
  <2> SUFFICES ASSUME f # None, f \in Range(dir[m]) PROVE n = m
    OBVIOUS
  <2>1. PICK j \in TableIndices : dir[m][j] = f
    BY DEF Range, DInv, TypeOK
  <2> DEFINE h == TableOf(v)
  <2>2. h \in TableIndices /\ dir[n][h] # None /\ dir[n][h] = dir[m][j]
    BY <1>1, <2>1
  <2> HIDE DEF h, f
  <2> QED
    BY <2>2, OneEntry
<1>5. Mapping(n, v) = IF f = None THEN None ELSE pt[f][v]
  BY DEF Mapping, vmm_get_physical_address
<1>6. Mapping(n, v)' = IF f = None THEN None ELSE pt'[f][v]
  BY DEF Mapping, vmm_get_physical_address
<1> HIDE DEF f, V
<1>7. Mapping(n, v)' = IF n = m /\ v \in V THEN None ELSE Mapping(n, v)
  BY <1>1, <1>2, <1>3, <1>4, <1>5, <1>6
<1> QED
  BY <1>7 DEF V

-----------------------------------------------------------------------------
(* Regions unregistered at rest *)

\* At the start no call runs and nothing is mapped.
LEMMA InitQ == Init => QInv
<1> SUFFICES ASSUME Init PROVE QInv
  OBVIOUS
<1>1. \A c \in CPUs : pc[c] = "idle"
  BY DEF Init
<1>2. UsersInv /\ LockInv
  BY <1>1 DEF UsersInv, LockInv, Critical, Mapping_pcs
<1>3. \A m \in Pml4s, v \in PageAddrs : dir[m][TableOf(v)] = None
  BY TableFacts DEF Init
<1>4. MappedInRegion
  BY <1>3 DEF MappedInRegion, Mapping, vmm_get_physical_address
<1> QED
  BY <1>2, <1>4 DEF QInv

\* A step of a call that stays in its region, keeps the locks of the others and
\* maps nothing but the address that faulted.
LEMMA CallStepQ ==
  ASSUME DInv, QInv, NEW c \in CPUs, UNCHANGED regionVars,
         \A d \in CPUs \ {c} : SameCall(d),
         pc'[c] # "idle" => /\ region'[c] \in Range(regions[as'[c]])
                            /\ addr'[c] \in RegionPages(region'[c]),
         \A d \in CPUs \ {c} : Critical(d) => plock'[region[d]] = d,
         Critical(c)' => plock'[region'[c]] = c,
         \A m \in Pml4s, v \in PageAddrs :
           Mapping(m, v)' # None =>
             \/ Mapping(m, v) # None
             \/ pc[c] # "idle" /\ m = as[c] /\ v = addr[c]
  PROVE  QInv'
<1>1. UNCHANGED <<regions, start, end>>
  BY DEF regionVars
<1>2. \A o : RegionPages(o)' = RegionPages(o)
  BY <1>1 DEF RegionPages
<1>3. UsersInv'
  <2> SUFFICES ASSUME NEW d \in CPUs, pc'[d] # "idle"
               PROVE  /\ region'[d] \in Range(regions'[as'[d]])
                      /\ addr'[d] \in RegionPages(region[d])'
    BY DEF UsersInv
  <2>0. RegionPages(region[d])' = RegionPages(region'[d])
    BY <1>1 DEF RegionPages
  <2>1. CASE d = c
    BY <1>1, <2>0, <2>1
  <2>2. CASE d # c
    <3>1. SameCall(d)
      BY <2>2
    <3> QED
      BY <1>1, <2>0, <3>1 DEF SameCall, QInv, UsersInv
  <2> QED
    BY <2>1, <2>2
<1>4. LockInv'
  <2> SUFFICES ASSUME NEW d \in CPUs, Critical(d)'
               PROVE  plock'[region'[d]] = d
    BY DEF LockInv
  <2>1. CASE d = c
    BY <2>1
  <2>2. CASE d # c
    <3>1. SameCall(d)
      BY <2>2
    <3>2. Critical(d) /\ region'[d] = region[d]
      BY <3>1 DEF SameCall, Critical
    <3> QED
      BY <2>2, <3>2
  <2> QED
    BY <2>1, <2>2
<1>5. MappedInRegion'
  <2> SUFFICES ASSUME NEW m \in Pml4s, NEW v \in PageAddrs, Mapping(m, v)' # None
               PROVE  \E o \in Range(regions'[m]) : v \in RegionPages(o)'
    BY DEF MappedInRegion
  <2>1. \E o \in Range(regions[m]) : v \in RegionPages(o)
    <3>1. CASE Mapping(m, v) # None
      BY <3>1 DEF QInv, MappedInRegion
    <3>2. CASE pc[c] # "idle" /\ m = as[c] /\ v = addr[c]
      BY <3>2 DEF QInv, UsersInv
    <3> QED
      BY <3>1, <3>2
  <2> QED
    BY <1>1, <1>2, <2>1
<1> QED
  BY <1>3, <1>4, <1>5 DEF QInv

\* A critical call has its lock, so another's unlocking does not touch it.
LEMMA OthersLocked ==
  ASSUME DInv, QInv, NEW c \in CPUs, Critical(c), Unlock(c)
  PROVE  \A d \in CPUs \ {c} : Critical(d) => plock'[region[d]] = d
<1> SUFFICES ASSUME NEW d \in CPUs \ {c}, Critical(d)
             PROVE  plock'[region[d]] = d
  OBVIOUS
<1>1. plock[region[c]] = c /\ plock[region[d]] = d
  BY DEF QInv, LockInv
<1>2. region[d] # region[c]
  BY <1>1
<1>3. region[d] \in Objects
  BY DEF DInv, CallInv, Critical, Mapping_pcs
<1> QED
  BY <1>1, <1>2, <1>3, UnlockEffect DEF DInv

\* Leaving the critical section without mapping anything new.
LEMMA LeaveQ ==
  ASSUME DInv, QInv, NEW c \in CPUs, Critical(c), Unlock(c), Return(c),
         UNCHANGED regionVars,
         \A m \in Pml4s, v \in PageAddrs :
           Mapping(m, v)' # None =>
             \/ Mapping(m, v) # None
             \/ pc[c] # "idle" /\ m = as[c] /\ v = addr[c]
  PROVE  QInv'
<1>1. pc'[c] = "idle" /\ \A d \in CPUs \ {c} : SameCall(d)
  BY ReturnEffect DEF DInv
<1>2. \A d \in CPUs \ {c} : Critical(d) => plock'[region[d]] = d
  BY OthersLocked
<1>3. ~Critical(c)'
  BY <1>1 DEF Critical, Mapping_pcs
<1> QED
  BY <1>1, <1>2, <1>3, CallStepQ

\* Moving on inside a call, with the locks as they were.
LEMMA MoveQ ==
  ASSUME DInv, QInv, NEW c \in CPUs, UNCHANGED <<plock, as, addr, region>>,
         UNCHANGED regionVars, \A d \in CPUs \ {c} : SameCall(d),
         pc[c] # "idle", Critical(c)' => Critical(c),
         \A m \in Pml4s, v \in PageAddrs : Mapping(m, v)' # None => Mapping(m, v) # None
  PROVE  QInv'
<1>1. region[c] \in Range(regions[as[c]]) /\ addr[c] \in RegionPages(region[c])
  BY DEF QInv, UsersInv
<1>2. \A d \in CPUs : Critical(d) => plock'[region[d]] = d
  BY DEF QInv, LockInv
<1>3. Critical(c)' => plock'[region'[c]] = c
  BY <1>2
<1>4. region'[c] \in Range(regions[as'[c]]) /\ addr'[c] \in RegionPages(region'[c])
  BY <1>1
<1> QED
  BY <1>2, <1>3, <1>4, CallStepQ

\* Finding the region.
LEMMA FindQ ==
  ASSUME DInv, QInv, NEW c \in CPUs, NEW m \in Pml4s, NEW v \in Addresses,
         FaultFind(c, m, v)
  PROVE  QInv'
<1>1. pc[c] = "idle" /\ UNCHANGED regionVars /\ UNCHANGED plock /\ UNCHANGED <<dir, pt>>
  BY DEF FaultFind, vmmVars
<1>2. \A n \in Pml4s, w \in PageAddrs : Mapping(n, w)' = Mapping(n, w)
  BY <1>1, MapsSame
<1>3. \A d \in CPUs : Critical(d) => plock'[region[d]] = d
  BY <1>1 DEF QInv, LockInv
<1>4. CASE UNCHANGED <<pc, callVars>>
  <2>1. pc'[c] = "idle" /\ \A d \in CPUs \ {c} : SameCall(d)
    BY <1>1, <1>4 DEF callVars, SameCall
  <2>2. ~Critical(c)'
    BY <2>1 DEF Critical, Mapping_pcs
  <2> QED
    BY <1>1, <1>2, <1>3, <2>1, <2>2, CallStepQ
<1>5. CASE /\ pc'[c] = "fault_check" /\ as'[c] = m
           /\ region'[c] \in Range(regions[m])
           /\ addr'[c] \in RegionPages(region'[c])
           /\ \A d \in CPUs \ {c} : SameCall(d)
  <2>1. ~Critical(c)'
    BY <1>5 DEF Critical, Mapping_pcs
  <2> QED
    BY <1>1, <1>2, <1>3, <1>5, <2>1, CallStepQ
<1> QED
  BY <1>4, <1>5, FindStep

\* The checks and the lock.
LEMMA EnterQ ==
  ASSUME DInv, QInv, NEW c \in CPUs,
         FaultCheck(c) \/ FaultLock(c) \/ FaultRecheck(c)
  PROVE  QInv'
<1>0. TypeOK
  BY DEF DInv
<1>1. UNCHANGED regionVars /\ UNCHANGED <<dir, pt>> /\ pc[c] # "idle"
  BY DEF FaultCheck, FaultLock, FaultRecheck, vmmVars
<1>2. \A n \in Pml4s, w \in PageAddrs : Mapping(n, w)' = Mapping(n, w)
  BY <1>1, MapsSame
<1>3. CASE FaultCheck(c)
  <2>1. CASE Return(c)
    <3>1. pc'[c] = "idle" /\ \A d \in CPUs \ {c} : SameCall(d)
      BY <1>0, <2>1, ReturnEffect
    <3>2. ~Critical(c)'
      BY <3>1 DEF Critical, Mapping_pcs
    <3>3. \A d \in CPUs : Critical(d) => plock'[region[d]] = d
      BY <1>3 DEF FaultCheck, QInv, LockInv
    <3> QED
      BY <1>1, <1>2, <3>1, <3>2, <3>3, CallStepQ
  <2>2. CASE Goto(c, "fault_lock") /\ UNCHANGED callVars
    <3>1. /\ pc'[c] = "fault_lock" /\ \A d \in CPUs \ {c} : SameCall(d)
          /\ UNCHANGED <<as, addr, region, phys, table>>
      BY <1>0, <2>2, GotoEffect
    <3>2. ~Critical(c)' /\ UNCHANGED <<plock, as, addr, region>>
      BY <3>1, <1>3 DEF Critical, Mapping_pcs, FaultCheck
    <3> QED
      BY <1>1, <1>2, <3>1, <3>2, MoveQ
  <2> QED
    BY <1>3, <2>1, <2>2 DEF FaultCheck
<1>4. CASE FaultLock(c)
  <2>1. /\ pc[c] = "fault_lock" /\ plock[region[c]] = None
        /\ plock' = [plock EXCEPT ![region[c]] = c]
        /\ Goto(c, "fault_recheck") /\ UNCHANGED callVars
    BY <1>4 DEF FaultLock
  <2>2. /\ pc'[c] = "fault_recheck" /\ \A d \in CPUs \ {c} : SameCall(d)
        /\ UNCHANGED <<as, addr, region, phys, table>>
    BY <1>0, <2>1, GotoEffect
  <2>3. region[c] \in Objects
    BY <1>1 DEF DInv, CallInv
  <2>4. plock'[region'[c]] = c
    BY <1>0, <2>1, <2>2, <2>3 DEF TypeOK
  <2>5. ASSUME NEW d \in CPUs \ {c}, Critical(d)
        PROVE  plock'[region[d]] = d
    <3>1. plock[region[d]] = d /\ d # None
      BY <2>5, PagingAssumption DEF QInv, LockInv
    <3>2. region[d] \in Objects /\ region[d] # region[c]
      BY <2>1, <2>5, <3>1 DEF DInv, CallInv, Critical, Mapping_pcs
    <3> QED
      BY <1>0, <2>1, <3>1, <3>2 DEF TypeOK
  <2>6. region'[c] \in Range(regions[as'[c]]) /\ addr'[c] \in RegionPages(region'[c])
    BY <1>1, <2>2 DEF QInv, UsersInv
  <2> QED
    BY <1>1, <1>2, <2>2, <2>4, <2>5, <2>6, CallStepQ
<1>5. CASE FaultRecheck(c)
  <2>1. pc[c] = "fault_recheck" /\ Critical(c)
    BY <1>5 DEF FaultRecheck, Critical
  <2>2. CASE Unlock(c) /\ Return(c)
    BY <1>1, <1>2, <2>1, <2>2, LeaveQ
  <2>3. CASE Goto(c, "fault_alloc") /\ UNCHANGED <<plock, callVars>>
    <3>1. /\ pc'[c] = "fault_alloc" /\ \A d \in CPUs \ {c} : SameCall(d)
          /\ UNCHANGED <<as, addr, region, phys, table>>
      BY <1>0, <2>3, GotoEffect
    <3>2. UNCHANGED <<plock, as, addr, region>>
      BY <2>3, <3>1
    <3> QED
      BY <1>1, <1>2, <2>1, <3>1, <3>2, MoveQ
  <2> QED
    BY <1>5, <2>2, <2>3 DEF FaultRecheck
<1> QED
  BY <1>3, <1>4, <1>5

\* Taking a page and mapping it.
LEMMA MapQ ==
  ASSUME DInv, QInv, NEW c \in CPUs,
         \/ FaultAlloc(c) \/ MapWalk(c) \/ MapLink(c) \/ MapReload(c) \/ MapStore(c)
  PROVE  QInv'
<1>0. TypeOK
  BY DEF DInv
<1>1. UNCHANGED regionVars /\ pc[c] # "idle" /\ Critical(c)
  BY DEF FaultAlloc, MapWalk, MapLink, MapReload, MapStore, Critical, Mapping_pcs
<1>2. CASE FaultAlloc(c)
  <2>1. UNCHANGED <<dir, pt>>
    BY <1>2 DEF FaultAlloc, vmmVars
  <2>2. \A n \in Pml4s, w \in PageAddrs : Mapping(n, w)' = Mapping(n, w)
    BY <2>1, MapsSame
  <2>3. CASE Unlock(c) /\ Return(c)
    BY <1>1, <2>2, <2>3, LeaveQ
  <2>4. CASE /\ \E p \in movable : phys' = [phys EXCEPT ![c] = p]
             /\ Goto(c, "map_walk") /\ UNCHANGED <<plock, as, addr, region, table>>
    <3>1. \A d \in CPUs \ {c} : SameCall(d)
      BY <1>0, <2>4 DEF TypeOK, Goto, SameCall
    <3> QED
      BY <1>1, <2>2, <2>4, <3>1, MoveQ
  <2> QED
    BY <1>2, <2>3, <2>4 DEF FaultAlloc
<1>3. CASE MapWalk(c)
  <2>1. UNCHANGED dir
    BY <1>3 DEF MapWalk
  <2>2. CASE UNCHANGED <<pt, frames>> /\ Unlock(c) /\ Return(c)
    <3>1. \A n \in Pml4s, w \in PageAddrs : Mapping(n, w)' = Mapping(n, w)
      BY <2>1, <2>2, MapsSame
    <3> QED
      BY <1>1, <2>2, <3>1, LeaveQ
  <2>3. CASE /\ table' = [table EXCEPT ![c] = dir[as[c]][TableOf(addr[c])]]
             /\ Goto(c, "map_store")
             /\ UNCHANGED <<plock, pt, frames, as, addr, region, phys>>
    <3>1. \A n \in Pml4s, w \in PageAddrs : Mapping(n, w)' = Mapping(n, w)
      BY <2>1, <2>3, MapsSame
    <3>2. \A d \in CPUs \ {c} : SameCall(d)
      BY <1>0, <2>3 DEF TypeOK, Goto, SameCall
    <3> QED
      BY <1>1, <2>3, <3>1, <3>2, MoveQ
  <2>4. ASSUME NEW g \in frames, pt' = [pt EXCEPT ![g] = NoEntries],
               table' = [table EXCEPT ![c] = g], Goto(c, "map_link"),
               UNCHANGED <<plock, as, addr, region, phys>>
        PROVE  QInv'
    <3>1. \A n \in Pml4s, w \in PageAddrs : Mapping(n, w)' = Mapping(n, w)
      BY <2>1, <2>4, MapsNewTable
    <3>2. \A d \in CPUs \ {c} : SameCall(d)
      BY <1>0, <2>4 DEF TypeOK, Goto, SameCall
    <3> QED
      BY <1>1, <2>4, <3>1, <3>2, MoveQ
  <2> QED
    BY <1>3, <2>2, <2>3, <2>4 DEF MapWalk
<1>4. CASE MapLink(c)
  <2>1. Goto(c, "map_reload") /\ UNCHANGED callVars /\ UNCHANGED plock
    BY <1>4 DEF MapLink
  <2>2. /\ \A d \in CPUs \ {c} : SameCall(d)
        /\ UNCHANGED <<as, addr, region, phys, table>>
    BY <1>0, <2>1, GotoEffect
  <2>3. \A n \in Pml4s, w \in PageAddrs : Mapping(n, w)' # None => Mapping(n, w) # None
    BY <1>4, MapsLink
  <2>4. UNCHANGED <<plock, as, addr, region>>
    BY <2>1, <2>2
  <2> QED
    BY <1>1, <2>2, <2>3, <2>4, MoveQ
<1>5. CASE MapReload(c)
  <2>1. /\ \E f \in {table[c], dir[as[c]][TableOf(addr[c])]} :
             table' = [table EXCEPT ![c] = f]
        /\ Goto(c, "map_store") /\ UNCHANGED <<dir, pt>>
        /\ UNCHANGED <<plock, as, addr, region, phys>>
    BY <1>5 DEF MapReload, vmmVars
  <2>2. \A n \in Pml4s, w \in PageAddrs : Mapping(n, w)' = Mapping(n, w)
    BY <2>1, MapsSame
  <2>3. \A d \in CPUs \ {c} : SameCall(d)
    BY <1>0, <2>1 DEF TypeOK, Goto, SameCall
  <2> QED
    BY <1>1, <2>1, <2>2, <2>3, MoveQ
<1>6. CASE MapStore(c)
  <2>1. Unlock(c) /\ Return(c) /\ pc[c] = "map_store"
    BY <1>6 DEF MapStore
  <2>2. \A n \in Pml4s, w \in PageAddrs :
          Mapping(n, w)' # None =>
            Mapping(n, w) # None \/ (pc[c] # "idle" /\ n = as[c] /\ w = addr[c])
    BY <1>1, <1>6, <2>1, MapsStore, StorePlace
  <2> QED
    BY <1>1, <2>1, <2>2, LeaveQ
<1> QED
  BY <1>2, <1>3, <1>4, <1>5, <1>6

\* A region is registered in an object nobody uses.
LEMMA RegisterQ ==
  ASSUME DInv, QInv, NEW m \in Pml4s, NEW s \in Addresses, NEW size \in Addresses,
         NEW dp \in BOOLEAN, Register(m, s, size, dp)
  PROVE  QInv'
<1>0. TypeOK
  BY DEF DInv
<1>1. UNCHANGED <<pc, as, addr, region>> /\ UNCHANGED <<dir, pt>>
  BY RegisterEffect DEF CallsIdle
<1>2. \A n \in Pml4s, w \in PageAddrs : Mapping(n, w)' = Mapping(n, w)
  BY <1>1, MapsSame
<1>3. CASE UNCHANGED <<regions, start, end, plock>>
  <2>1. UsersInv'
    BY <1>1, <1>3 DEF QInv, UsersInv, RegionPages
  <2>2. LockInv'
    BY <1>1, <1>3 DEF QInv, LockInv, Critical
  <2>3. MappedInRegion'
    BY <1>2, <1>3 DEF QInv, MappedInRegion, RegionPages
  <2> QED
    BY <2>1, <2>2, <2>3 DEF QInv
<1>4. ASSUME NEW o \in Objects, NEW b \in PageAddrs, NEW e \in PageAddrs,
             Registered(m, o, b, e)
      PROVE  QInv'
  <2>1. /\ \A n \in Pml4s : n # m => regions'[n] = regions[n]
        /\ Range(regions'[m]) = Range(regions[m]) \cup {o}
        /\ \A n \in Pml4s : o \notin Range(regions[n])
        /\ \A p \in Objects \ {o} :
             start'[p] = start[p] /\ end'[p] = end[p] /\ plock'[p] = plock[p]
    BY <1>0, <1>4, RegisteredFacts
  <2>2. \A n \in Pml4s : \A p \in Range(regions[n]) :
          /\ p \in Objects \ {o} /\ p \in Range(regions'[n])
          /\ RegionPages(p)' = RegionPages(p)
    <3>1. \A n \in Pml4s : \A p \in Range(regions[n]) : p \in Objects \ {o}
      BY <1>0, <2>1 DEF TypeOK, Range
    <3> QED
      BY <2>1, <3>1 DEF RegionPages
  <2>3. \A d \in CPUs : pc[d] # "idle" =>
          /\ as[d] \in Pml4s /\ region[d] \in Range(regions[as[d]])
          /\ addr[d] \in RegionPages(region[d])
    BY DEF DInv, CallInv, QInv, UsersInv
  <2>4. UsersInv'
    <3> SUFFICES ASSUME NEW d \in CPUs, pc'[d] # "idle"
                 PROVE  /\ region'[d] \in Range(regions'[as'[d]])
                        /\ addr'[d] \in RegionPages(region[d])'
      BY DEF UsersInv
    <3>1. region[d] \in Objects \ {o} /\ region[d] \in Range(regions'[as[d]])
      BY <1>1, <2>2, <2>3
    <3>2. RegionPages(region[d])' = RegionPages(region[d])
      BY <1>1, <2>1, <3>1 DEF RegionPages
    <3> QED
      BY <1>1, <2>3, <3>1, <3>2
  <2>5. LockInv'
    <3> SUFFICES ASSUME NEW d \in CPUs, Critical(d)'
                 PROVE  plock'[region'[d]] = d
      BY DEF LockInv
    <3>1. Critical(d) /\ pc[d] # "idle"
      BY <1>1 DEF Critical, Mapping_pcs
    <3>2. region[d] \in Objects \ {o}
      BY <2>2, <2>3, <3>1
    <3> QED
      BY <1>1, <2>1, <3>1, <3>2 DEF QInv, LockInv
  <2>6. MappedInRegion'
    <3> SUFFICES ASSUME NEW n \in Pml4s, NEW v \in PageAddrs, Mapping(n, v)' # None
                 PROVE  \E p \in Range(regions'[n]) : v \in RegionPages(p)'
      BY DEF MappedInRegion
    <3>1. PICK p \in Range(regions[n]) : v \in RegionPages(p)
      BY <1>2 DEF QInv, MappedInRegion
    <3> QED
      BY <2>2, <3>1
  <2> QED
    BY <2>4, <2>5, <2>6 DEF QInv
<1> QED
  BY <1>3, <1>4, RegisterEffect

\* A region nobody uses is unregistered.
LEMMA UnregisterQ ==
  ASSUME DInv, QInv, Quiesce, NEW m \in Pml4s, NEW s \in Addresses, Unregister(m, s)
  PROVE  QInv'
<1>0. TypeOK
  BY DEF DInv
<1>1. /\ UNCHANGED <<pc, as, addr, region>> /\ UNCHANGED dir
      /\ UNCHANGED <<start, end, plock>>
  BY UnregisterEffect DEF CallsIdle
<1>2. LockInv'
  BY <1>1 DEF QInv, LockInv, Critical
<1>3. \A p : RegionPages(p)' = RegionPages(p)
  BY <1>1 DEF RegionPages
<1>4. CASE UNCHANGED <<regions, pt, unmovable>>
  <2>1. \A n \in Pml4s, w \in PageAddrs : Mapping(n, w)' = Mapping(n, w)
    BY <1>1, <1>4, MapsSame
  <2>2. UsersInv'
    BY <1>1, <1>4 DEF QInv, UsersInv, RegionPages
  <2>3. MappedInRegion'
    BY <1>3, <1>4, <2>1 DEF QInv, MappedInRegion
  <2> QED
    BY <1>2, <2>2, <2>3 DEF QInv
<1>5. ASSUME NEW i \in 1..Len(regions[m]), Unregistered(m, i)
      PROVE  QInv'
  <2> DEFINE o == regions[m][i]
  <2>1. /\ \A n \in Pml4s : n # m => regions'[n] = regions[n]
        /\ Range(regions'[m]) = Range(regions[m]) \ {o}
    BY <1>1, <1>5, UnregisteredFacts
  <2>2. \A d \in CPUs : region[d] # o
    BY <1>5 DEF Unregistered, Users
  <2>3. \A n \in Pml4s, v \in PageAddrs :
          Mapping(n, v)' = IF n = m /\ v \in RegionPages(o) THEN None ELSE Mapping(n, v)
    BY <1>1, <1>5, MapsUnregister
  <2> HIDE DEF o
  <2>4. UsersInv'
    <3> SUFFICES ASSUME NEW d \in CPUs, pc'[d] # "idle"
                 PROVE  /\ region'[d] \in Range(regions'[as'[d]])
                        /\ addr'[d] \in RegionPages(region[d])'
      BY DEF UsersInv
    <3>1. /\ as[d] \in Pml4s /\ region[d] \in Range(regions[as[d]])
          /\ addr[d] \in RegionPages(region[d])
      BY <1>1 DEF DInv, CallInv, QInv, UsersInv
    <3>2. RegionPages(region[d])' = RegionPages(region[d])
      BY <1>1 DEF RegionPages
    <3> QED
      BY <1>1, <2>1, <2>2, <3>1, <3>2
  <2>5. MappedInRegion'
    <3> SUFFICES ASSUME NEW n \in Pml4s, NEW v \in PageAddrs, Mapping(n, v)' # None
                 PROVE  \E p \in Range(regions'[n]) : v \in RegionPages(p)'
      BY DEF MappedInRegion
    <3>1. ~(n = m /\ v \in RegionPages(o)) /\ Mapping(n, v) # None
      BY <2>3
    <3>2. PICK p \in Range(regions[n]) : v \in RegionPages(p)
      BY <3>1 DEF QInv, MappedInRegion
    <3>3. p \in Range(regions'[n])
      BY <2>1, <3>1, <3>2
    <3> QED
      BY <1>3, <3>2, <3>3
  <2> QED
    BY <1>2, <2>4, <2>5 DEF QInv
<1> QED
  BY <1>4, <1>5, UnregisterEffect

\* Every step keeps QInv while regions are unregistered at rest only.
LEMMA NextQ ==
  ASSUME DInv, QInv, Quiesce, [Next]_vars
  PROVE  QInv'
<1>1. ASSUME NEW m \in Pml4s, NEW s \in Addresses, NEW size \in Addresses,
             NEW dp \in BOOLEAN, Register(m, s, size, dp)
      PROVE  QInv'
  BY <1>1, RegisterQ
<1>2. ASSUME NEW m \in Pml4s, NEW s \in Addresses, Unregister(m, s) PROVE QInv'
  BY <1>2, UnregisterQ
<1>3. ASSUME NEW c \in CPUs, NEW m \in Pml4s, NEW v \in Addresses, FaultFind(c, m, v)
      PROVE  QInv'
  BY <1>3, FindQ
<1>4. ASSUME NEW c \in CPUs, FaultCheck(c) \/ FaultLock(c) \/ FaultRecheck(c) PROVE QInv'
  BY <1>4, EnterQ
<1>5. ASSUME NEW c \in CPUs,
             \/ FaultAlloc(c) \/ MapWalk(c) \/ MapLink(c) \/ MapReload(c) \/ MapStore(c)
      PROVE  QInv'
  BY <1>5, MapQ
<1>6. CASE UNCHANGED vars
  BY <1>6 DEF vars, QInv, UsersInv, LockInv, Critical, MappedInRegion, RegionPages,
              Mapping, vmm_get_physical_address
<1> QED
  BY <1>1, <1>2, <1>3, <1>4, <1>5, <1>6 DEF Next, Fault

\* When no region is unregistered under a fault, no fault leaves a page behind
\* in a region that is gone: demand_paging_unregister_region unmaps everything.
THEOREM NothingLeftBehind ==
  ASSUME Quiesce
  PROVE  Spec => []MappedInRegion
<1>1. QInv => MappedInRegion
  BY DEF QInv
<1>2. DInv /\ QInv /\ [Next]_vars => QInv'
  BY NextQ
<1> QED
  BY <1>1, <1>2, InitQ, Invariance, PTL DEF Spec

-----------------------------------------------------------------------------
(* Where the locks suffice *)

\* Everything that holds when the region's lock orders all faults.
SInv == DInv /\ QInv /\ StoreInv /\ FramesUsed

\* Then one CPU at a time is past the lock.
LEMMA OneCritical ==
  ASSUME SInv, LocksEnough, NEW c \in CPUs, NEW d \in CPUs, Critical(c), Critical(d)
  PROVE  c = d
<1>1. plock[region[c]] = c /\ plock[region[d]] = d
  BY DEF SInv, QInv, LockInv
<1>2. region[c] \in Objects /\ region[d] \in Objects
  BY DEF SInv, DInv, CallInv, Critical, Mapping_pcs
<1>3. CASE \A x, y \in CPUs : x = y
  BY <1>3
<1>4. CASE \A o, p \in Objects : o = p
  BY <1>1, <1>2, <1>4
<1> QED
  BY <1>3, <1>4 DEF LocksEnough

\* At the start no frame is taken.
LEMMA InitS == Init => SInv
<1> SUFFICES ASSUME Init PROVE SInv
  OBVIOUS
<1>1. StoreInv /\ FramesUsed
  BY DEF Init, StoreInv, FramesUsed, Mapping_pcs
<1> QED
  BY <1>1, InitInv, InitQ DEF SInv

\* A step outside the critical section that leaves the tables alone.
LEMMA OutsideS ==
  ASSUME SInv, UNCHANGED <<dir, frames>>,
         \A m \in Pml4s, v \in PageAddrs : Mapping(m, v) = None => Mapping(m, v)' = None,
         \A d \in CPUs : \/ SameCall(d)
                         \/ /\ pc'[d] \notin {"fault_alloc"} \cup Mapping_pcs
                            /\ pc[d] # "map_link"
  PROVE  StoreInv' /\ FramesUsed'
<1>1. StoreInv'
  <2> SUFFICES ASSUME NEW d \in CPUs
               PROVE  /\ pc'[d] \in {"fault_alloc"} \cup Mapping_pcs =>
                           Mapping(as[d], addr[d])' = None
                      /\ pc'[d] = "map_link" => dir'[as'[d]][TableOf(addr'[d])] = None
                      /\ pc'[d] \in {"map_reload", "map_store"} =>
                           dir'[as'[d]][TableOf(addr'[d])] = table'[d]
    BY DEF StoreInv
  <2> SUFFICES ASSUME pc'[d] \in {"fault_alloc"} \cup Mapping_pcs
               PROVE  /\ Mapping(as[d], addr[d])' = None
                      /\ pc'[d] = "map_link" => dir'[as'[d]][TableOf(addr'[d])] = None
                      /\ pc'[d] \in {"map_reload", "map_store"} =>
                           dir'[as'[d]][TableOf(addr'[d])] = table'[d]
    BY DEF Mapping_pcs
  <2>1. SameCall(d)
    OBVIOUS
  <2>2. /\ pc[d] = pc'[d] /\ as'[d] = as[d] /\ addr'[d] = addr[d] /\ table'[d] = table[d]
    BY <2>1 DEF SameCall
  <2>3. as[d] \in Pml4s /\ addr[d] \in PageAddrs
    BY <2>2 DEF SInv, DInv, CallInv, TypeOK, Mapping_pcs
  <2> DEFINE m == as[d]
             v == addr[d]
  <2>4. Mapping(m, v) = None
    BY <2>2 DEF SInv, StoreInv
  <2>5. Mapping(m, v)' = Mapping(as[d], addr[d])'
    OBVIOUS
  <2>6. Mapping(as[d], addr[d])' = IF dir'[as'[d]][TableOf(addr'[d])] = None THEN None
                                     ELSE pt'[dir'[as'[d]][TableOf(addr'[d])]][addr'[d]]
    BY DEF Mapping, vmm_get_physical_address
  <2>7. \A n \in Pml4s, w \in PageAddrs : Mapping(n, w) = None =>
          (IF dir'[n][TableOf(w)] = None THEN None ELSE pt'[dir'[n][TableOf(w)]][w]) = None
    BY DEF Mapping, vmm_get_physical_address
  <2>8. Mapping(as[d], addr[d])' = None
    BY <2>2, <2>3, <2>4, <2>6, <2>7
  <2> QED
    BY <2>2, <2>8 DEF SInv, StoreInv
<1>2. FramesUsed'
  <2> SUFFICES ASSUME NEW f \in Frames \ frames
               PROVE  \/ \E m \in Pml4s, i \in TableIndices : dir[m][i] = f
                      \/ \E c \in CPUs : pc'[c] = "map_link" /\ table'[c] = f
    BY DEF FramesUsed
  <2>1. CASE \E m \in Pml4s, i \in TableIndices : dir[m][i] = f
    BY <2>1
  <2>2. ASSUME NEW c \in CPUs, pc[c] = "map_link", table[c] = f
        PROVE  pc'[c] = "map_link" /\ table'[c] = f
    BY <2>2 DEF SameCall
  <2> QED
    BY <2>1, <2>2 DEF SInv, FramesUsed
<1> QED
  BY <1>1, <1>2

\* A step in the critical section: only the call that takes it has claims.
LEMMA InsideS ==
  ASSUME SInv, LocksEnough, NEW c \in CPUs, Critical(c),
         \A d \in CPUs \ {c} : SameCall(d),
         pc'[c] \in {"fault_alloc"} \cup Mapping_pcs => Mapping(as[c], addr[c])' = None,
         pc'[c] = "map_link" => dir'[as'[c]][TableOf(addr'[c])] = None,
         pc'[c] \in {"map_reload", "map_store"} =>
           dir'[as'[c]][TableOf(addr'[c])] = table'[c]
  PROVE  StoreInv'
<1> SUFFICES ASSUME NEW d \in CPUs
             PROVE  /\ pc'[d] \in {"fault_alloc"} \cup Mapping_pcs =>
                         Mapping(as[d], addr[d])' = None
                    /\ pc'[d] = "map_link" => dir'[as'[d]][TableOf(addr'[d])] = None
                    /\ pc'[d] \in {"map_reload", "map_store"} =>
                         dir'[as'[d]][TableOf(addr'[d])] = table'[d]
  BY DEF StoreInv
<1>1. CASE d = c
  BY <1>1
<1>2. CASE d # c
  <2>1. ~Critical(d) /\ SameCall(d)
    BY <1>2, OneCritical
  <2>2. pc'[d] \notin {"fault_alloc"} \cup Mapping_pcs
    BY <2>1 DEF SameCall, Critical
  <2> QED
    BY <2>2 DEF Mapping_pcs
<1> QED
  BY <1>1, <1>2

\* In the critical section and not linking a table: all frames taken are
\* entered.
LEMMA AllEntered ==
  ASSUME SInv, LocksEnough, NEW c \in CPUs, Critical(c), pc[c] # "map_link",
         NEW f \in Frames \ frames
  PROVE  \E m \in Pml4s, i \in TableIndices : dir[m][i] = f
<1>1. \A d \in CPUs : pc[d] # "map_link"
  <2> SUFFICES ASSUME NEW d \in CPUs, pc[d] = "map_link" PROVE FALSE
    OBVIOUS
  <2>1. Critical(d)
    BY DEF Critical, Mapping_pcs
  <2> QED
    BY <2>1, OneCritical
<1> QED
  BY <1>1 DEF SInv, FramesUsed

\* The address being mapped, after a step that leaves its mapping alone.
LEMMA StillUnmapped ==
  ASSUME SInv, NEW c \in CPUs, pc[c] \in {"fault_alloc"} \cup Mapping_pcs,
         UNCHANGED <<as, addr>>,
         \A m \in Pml4s, v \in PageAddrs : Mapping(m, v) = None => Mapping(m, v)' = None
  PROVE  Mapping(as[c], addr[c])' = None
<1>1. as[c] \in Pml4s /\ addr[c] \in PageAddrs
  BY DEF SInv, DInv, CallInv, TypeOK, Mapping_pcs
<1>2. Mapping(as[c], addr[c]) = None
  BY DEF SInv, StoreInv
<1>3. \A n \in Pml4s, w \in PageAddrs : Mapping(n, w) = None =>
        (IF dir'[n][TableOf(w)] = None THEN None ELSE pt'[dir'[n][TableOf(w)]][w]) = None
  BY DEF Mapping, vmm_get_physical_address
<1>4. Mapping(as[c], addr[c])' = IF dir'[as'[c]][TableOf(addr'[c])] = None THEN None
                                   ELSE pt'[dir'[as'[c]][TableOf(addr'[c])]][addr'[c]]
  BY DEF Mapping, vmm_get_physical_address
<1> QED
  BY <1>1, <1>2, <1>3, <1>4

\* The steps up to the mapping.
LEMMA AllocS ==
  ASSUME SInv, LocksEnough, NEW c \in CPUs, FaultRecheck(c) \/ FaultAlloc(c)
  PROVE  StoreInv' /\ FramesUsed'
<1>0. TypeOK
  BY DEF SInv, DInv
<1>1. /\ Critical(c) /\ UNCHANGED <<dir, pt, frames>>
      /\ pc[c] \in {"fault_recheck", "fault_alloc"}
  BY DEF FaultRecheck, FaultAlloc, Critical, vmmVars
<1>2. \A n \in Pml4s, w \in PageAddrs : Mapping(n, w)' = Mapping(n, w)
  BY <1>1, MapsSame
<1>3. FramesUsed'
  <2>1. \A f \in Frames \ frames : \E m \in Pml4s, i \in TableIndices : dir[m][i] = f
    BY <1>1, AllEntered
  <2> QED
    BY <1>1, <2>1 DEF FramesUsed
<1>4. CASE Return(c)
  <2>1. pc'[c] = "idle" /\ \A d \in CPUs \ {c} : SameCall(d)
    BY <1>0, <1>4, ReturnEffect
  <2>2. pc'[c] \notin {"fault_alloc"} \cup Mapping_pcs
    BY <2>1 DEF Mapping_pcs
  <2>3. StoreInv'
    BY <1>1, <2>1, <2>2, InsideS
  <2> QED
    BY <1>3, <2>3
<1>5. CASE FaultRecheck(c) /\ Goto(c, "fault_alloc") /\ UNCHANGED callVars /\ ~IsMapped(c)
  <2>1. /\ pc'[c] = "fault_alloc" /\ \A d \in CPUs \ {c} : SameCall(d)
        /\ UNCHANGED <<as, addr, region, phys, table>>
    BY <1>0, <1>5, GotoEffect
  <2>2. Mapping(as[c], addr[c])' = Mapping(as[c], addr[c])
    BY <1>1, <2>1 DEF Mapping, vmm_get_physical_address
  <2>3. Mapping(as[c], addr[c]) = None
    BY <1>5 DEF IsMapped, Mapping
  <2>4. StoreInv'
    BY <1>1, <2>1, <2>2, <2>3, InsideS
  <2> QED
    BY <1>3, <2>4
<1>6. CASE /\ pc[c] = "fault_alloc" /\ \E p \in movable : phys' = [phys EXCEPT ![c] = p]
           /\ Goto(c, "map_walk") /\ UNCHANGED <<as, addr, region, table>>
  <2>1. pc'[c] = "map_walk" /\ \A d \in CPUs \ {c} : SameCall(d)
    BY <1>0, <1>6 DEF TypeOK, Goto, SameCall
  <2>2. Mapping(as[c], addr[c])' = None
    BY <1>2, <1>6, StillUnmapped
  <2>3. StoreInv'
    BY <1>1, <2>1, <2>2, InsideS
  <2> QED
    BY <1>3, <2>3
<1> QED
  BY <1>4, <1>5, <1>6 DEF FaultRecheck, FaultAlloc

\* The steps of vmm_map_page.
LEMMA MapS ==
  ASSUME SInv, LocksEnough, NEW c \in CPUs,
         MapWalk(c) \/ MapLink(c) \/ MapReload(c) \/ MapStore(c)
  PROVE  StoreInv' /\ FramesUsed'
<1>0. TypeOK /\ DInv
  BY DEF SInv, DInv
<1>1. Critical(c) /\ pc[c] \in Mapping_pcs
  BY DEF MapWalk, MapLink, MapReload, MapStore, Critical, Mapping_pcs
<1>2. /\ as[c] \in Pml4s /\ addr[c] \in PageAddrs /\ TableOf(addr[c]) \in TableIndices
      /\ Mapping(as[c], addr[c]) = None
  BY <1>0, <1>1, MappingCall DEF SInv, StoreInv
<1> DEFINE n == as[c]
           j == TableOf(addr[c])
           e == dir[n][j]
<1>3. pc[c] # "map_link" =>
        \A f \in Frames \ frames : \E m \in Pml4s, i \in TableIndices : dir[m][i] = f
  BY <1>1, AllEntered
<1>4. CASE Return(c) /\ UNCHANGED <<dir, frames>> /\ pc[c] # "map_link"
  <2>1. pc'[c] = "idle" /\ \A d \in CPUs \ {c} : SameCall(d)
    BY <1>0, <1>4, ReturnEffect
  <2>2. pc'[c] \notin {"fault_alloc"} \cup Mapping_pcs
    BY <2>1 DEF Mapping_pcs
  <2>3. pc'[c] # "map_link" /\ pc'[c] \notin {"map_reload", "map_store"}
    BY <2>1
  <2>4. StoreInv'
    BY <1>1, <2>1, <2>2, <2>3, InsideS
  <2>5. FramesUsed'
    BY <1>3, <1>4 DEF FramesUsed
  <2> QED
    BY <2>4, <2>5
<1>5. CASE /\ pc[c] # "map_link" /\ table' = [table EXCEPT ![c] = e]
           /\ Goto(c, "map_store") /\ UNCHANGED <<dir, pt, frames>>
           /\ UNCHANGED <<as, addr, region, phys>>
  <2>1. /\ pc'[c] = "map_store" /\ \A d \in CPUs \ {c} : SameCall(d)
        /\ table'[c] = e /\ dir'[as'[c]][TableOf(addr'[c])] = e
    BY <1>0, <1>5 DEF TypeOK, Goto, SameCall
  <2>2. \A m \in Pml4s, v \in PageAddrs : Mapping(m, v)' = Mapping(m, v)
    BY <1>5, MapsSame
  <2>3. Mapping(as[c], addr[c])' = None
    BY <1>1, <1>5, <2>2, StillUnmapped
  <2> HIDE DEF e
  <2>4. StoreInv'
    BY <1>1, <2>1, <2>3, InsideS
  <2>5. FramesUsed'
    BY <1>3, <1>5 DEF FramesUsed
  <2> QED
    BY <2>4, <2>5
<1>6. CASE MapReload(c)
  <2>1. pc[c] = "map_reload" /\ e = table[c]
    BY <1>6 DEF MapReload, SInv, StoreInv
  <2>2. table' = [table EXCEPT ![c] = e]
    BY <1>6, <2>1 DEF MapReload
  <2> QED
    BY <1>5, <1>6, <2>1, <2>2 DEF MapReload, vmmVars
<1>7. ASSUME NEW g \in frames, pc[c] = "map_walk", e = None, frames' = frames \ {g},
             pt' = [pt EXCEPT ![g] = NoEntries], table' = [table EXCEPT ![c] = g],
             Goto(c, "map_link"), UNCHANGED <<as, addr, region, phys>>, UNCHANGED dir
      PROVE  StoreInv' /\ FramesUsed'
  <2>1. /\ pc'[c] = "map_link" /\ \A d \in CPUs \ {c} : SameCall(d)
        /\ table'[c] = g /\ dir'[as'[c]][TableOf(addr'[c])] = None
    BY <1>0, <1>7 DEF TypeOK, Goto, SameCall
  <2>2. \A m \in Pml4s, v \in PageAddrs : Mapping(m, v)' = Mapping(m, v)
    BY <1>0, <1>7, MapsNewTable
  <2>3. Mapping(as[c], addr[c])' = None
    BY <1>1, <1>7, <2>2, StillUnmapped
  <2>4. StoreInv'
    BY <1>1, <2>1, <2>3, InsideS
  <2>5. FramesUsed'
    BY <1>3, <1>7, <2>1 DEF FramesUsed
  <2> QED
    BY <2>4, <2>5
<1>8. CASE MapLink(c)
  <2>1. /\ pc[c] = "map_link" /\ dir' = [dir EXCEPT ![n][j] = table[c]]
        /\ Goto(c, "map_reload") /\ UNCHANGED callVars /\ UNCHANGED frames
    BY <1>8 DEF MapLink
  <2>2. /\ pc'[c] = "map_reload" /\ \A d \in CPUs \ {c} : SameCall(d)
        /\ UNCHANGED <<as, addr, region, phys, table>>
    BY <1>0, <2>1, GotoEffect
  <2>3. e = None
    BY <2>1 DEF SInv, StoreInv
  <2>4. \A m \in Pml4s, v \in PageAddrs : Mapping(m, v) = None => Mapping(m, v)' = None
    BY <1>0, <1>8, MapsLink
  <2>5. Mapping(as[c], addr[c])' = None
    BY <1>1, <2>2, <2>4, StillUnmapped
  <2>6. as'[c] = n /\ TableOf(addr'[c]) = j /\ table'[c] = table[c] /\ n \in Pml4s
        /\ j \in TableIndices /\ dir[n][j] = None
    BY <1>2, <2>2, <2>3
  <2> HIDE DEF n, j
  <2>7. \A m \in Pml4s, i \in TableIndices :
          dir'[m][i] = IF m = n /\ i = j THEN table[c] ELSE dir[m][i]
    BY <1>0, <2>1, <2>6 DEF TypeOK
  <2>8. StoreInv'
    <3>1. dir'[as'[c]][TableOf(addr'[c])] = table'[c]
      BY <2>6, <2>7
    <3> QED
      BY <1>1, <2>2, <2>5, <3>1, InsideS
  <2>9. FramesUsed'
    <3> SUFFICES ASSUME NEW f \in Frames \ frames
                 PROVE  \E m \in Pml4s, i \in TableIndices : dir'[m][i] = f
      BY <2>1 DEF FramesUsed
    <3>1. CASE f = table[c]
      BY <2>6, <2>7, <3>1
    <3>2. CASE f # table[c]
      <4>1. \A d \in CPUs : pc[d] = "map_link" => d = c
        BY <1>1, OneCritical DEF Critical, Mapping_pcs
      <4>2. PICK m \in Pml4s, i \in TableIndices : dir[m][i] = f
        BY <3>2, <4>1 DEF SInv, FramesUsed
      <4>3. f # None
        BY PagingAssumption
      <4>4. ~(m = n /\ i = j)
        BY <2>6, <4>2, <4>3
      <4> QED
        BY <2>7, <4>2, <4>4
    <3> QED
      BY <3>1, <3>2
  <2> QED
    BY <2>8, <2>9
<1>9. CASE MapStore(c)
  <2>1. Return(c) /\ UNCHANGED <<dir, frames>> /\ pc[c] # "map_link"
    BY <1>9 DEF MapStore
  <2> QED
    BY <1>4, <2>1
<1>10. CASE MapWalk(c)
  <2>1. pc[c] = "map_walk" /\ UNCHANGED dir
    BY <1>10 DEF MapWalk
  <2>2. CASE Return(c) /\ UNCHANGED <<pt, frames>>
    BY <1>4, <2>1, <2>2
  <2>3. CASE /\ table' = [table EXCEPT ![c] = e] /\ Goto(c, "map_store")
             /\ UNCHANGED <<plock, pt, frames, as, addr, region, phys>>
    BY <1>5, <2>1, <2>3
  <2>4. CASE /\ e = None
             /\ \E g \in frames : /\ frames' = frames \ {g}
                                  /\ pt' = [pt EXCEPT ![g] = NoEntries]
                                  /\ table' = [table EXCEPT ![c] = g]
             /\ Goto(c, "map_link") /\ UNCHANGED <<plock, as, addr, region, phys>>
    BY <1>7, <2>1, <2>4
  <2> QED
    BY <1>10, <2>2, <2>3, <2>4 DEF MapWalk
<1> QED
  BY <1>6, <1>8, <1>9, <1>10

\* Every other step: it leaves the tables alone and keeps or clears entries.
LEMMA RestS ==
  ASSUME SInv,
         \/ \E m \in Pml4s, s \in Addresses :
              \/ \E size \in Addresses, dp \in BOOLEAN : Register(m, s, size, dp)
              \/ Unregister(m, s)
         \/ \E c \in CPUs : \/ \E m \in Pml4s, v \in Addresses : FaultFind(c, m, v)
                            \/ FaultCheck(c) \/ FaultLock(c)
         \/ UNCHANGED vars
  PROVE  StoreInv' /\ FramesUsed'
<1>0. DInv /\ TypeOK
  BY DEF SInv, DInv
<1>1. ASSUME NEW m \in Pml4s, NEW s \in Addresses, NEW size \in Addresses,
             NEW dp \in BOOLEAN, Register(m, s, size, dp)
      PROVE  StoreInv' /\ FramesUsed'
  <2>1. CallsIdle /\ UNCHANGED <<dir, pt, frames>>
    BY <1>0, <1>1, RegisterEffect
  <2>2. \A d \in CPUs : SameCall(d)
    BY <2>1 DEF CallsIdle, SameCall
  <2>3. \A n \in Pml4s, v \in PageAddrs : Mapping(n, v)' = Mapping(n, v)
    BY <2>1, MapsSame
  <2> QED
    BY <2>1, <2>2, <2>3, OutsideS
<1>2. ASSUME NEW m \in Pml4s, NEW s \in Addresses, Unregister(m, s)
      PROVE  StoreInv' /\ FramesUsed'
  <2>1. CallsIdle /\ UNCHANGED <<dir, frames>>
    BY <1>0, <1>2, UnregisterEffect
  <2>2. \A d \in CPUs : SameCall(d)
    BY <2>1 DEF CallsIdle, SameCall
  <2>3. \A n \in Pml4s, v \in PageAddrs : Mapping(n, v) = None => Mapping(n, v)' = None
    <3>1. CASE UNCHANGED pt
      <4>1. \A n \in Pml4s, v \in PageAddrs : Mapping(n, v)' = Mapping(n, v)
        BY <2>1, <3>1, MapsSame
      <4> QED
        BY <4>1
    <3>2. ASSUME NEW i \in 1..Len(regions[m]), Unregistered(m, i)
          PROVE  \A n \in Pml4s, v \in PageAddrs :
                   Mapping(n, v) = None => Mapping(n, v)' = None
      BY <1>0, <2>1, <3>2, MapsUnregister
    <3> QED
      BY <1>0, <1>2, <3>1, <3>2, UnregisterEffect
  <2> QED
    BY <2>1, <2>2, <2>3, OutsideS
<1>3. ASSUME NEW c \in CPUs, NEW m \in Pml4s, NEW v \in Addresses, FaultFind(c, m, v)
      PROVE  StoreInv' /\ FramesUsed'
  <2>1. pc[c] = "idle" /\ UNCHANGED <<dir, pt>> /\ UNCHANGED frames
    BY <1>3 DEF FaultFind, vmmVars
  <2>2. \A d \in CPUs : SameCall(d) \/ (d = c /\ pc'[d] = "fault_check")
    <3>1. CASE UNCHANGED <<pc, callVars>>
      BY <3>1 DEF SameCall, callVars
    <3> QED
      BY <1>0, <1>3, <3>1, FindStep
  <2>3. \A d \in CPUs : \/ SameCall(d)
                        \/ /\ pc'[d] \notin {"fault_alloc"} \cup Mapping_pcs
                           /\ pc[d] # "map_link"
    BY <2>1, <2>2 DEF Mapping_pcs
  <2>4. \A n \in Pml4s, w \in PageAddrs : Mapping(n, w)' = Mapping(n, w)
    BY <2>1, MapsSame
  <2> QED
    BY <2>1, <2>3, <2>4, OutsideS
<1>4. ASSUME NEW c \in CPUs, FaultCheck(c) \/ FaultLock(c)
      PROVE  StoreInv' /\ FramesUsed'
  <2>1. /\ pc[c] \in {"fault_check", "fault_lock"} /\ UNCHANGED <<dir, pt>>
        /\ UNCHANGED frames
    BY <1>4 DEF FaultCheck, FaultLock, vmmVars
  <2>2. \/ Return(c)
        \/ Goto(c, "fault_lock") /\ UNCHANGED callVars
        \/ Goto(c, "fault_recheck") /\ UNCHANGED callVars
    BY <1>4 DEF FaultCheck, FaultLock
  <2>3. /\ pc'[c] \in {"idle", "fault_lock", "fault_recheck"}
        /\ \A d \in CPUs \ {c} : SameCall(d)
    BY <1>0, <2>2, ReturnEffect, GotoEffect
  <2>4. \A d \in CPUs : \/ SameCall(d)
                        \/ /\ pc'[d] \notin {"fault_alloc"} \cup Mapping_pcs
                           /\ pc[d] # "map_link"
    BY <2>1, <2>3 DEF Mapping_pcs
  <2>5. \A n \in Pml4s, w \in PageAddrs : Mapping(n, w)' = Mapping(n, w)
    BY <2>1, MapsSame
  <2> QED
    BY <2>1, <2>4, <2>5, OutsideS
<1>5. CASE UNCHANGED vars
  <2>1. UNCHANGED <<dir, pt>> /\ UNCHANGED frames /\ \A d \in CPUs : SameCall(d)
    BY <1>5 DEF vars, SameCall
  <2>2. \A n \in Pml4s, w \in PageAddrs : Mapping(n, w)' = Mapping(n, w)
    BY <2>1, MapsSame
  <2> QED
    BY <2>1, <2>2, OutsideS
<1> QED
  BY <1>1, <1>2, <1>3, <1>4, <1>5

\* Every step keeps SInv.
LEMMA NextS ==
  ASSUME SInv, Quiesce, LocksEnough, [Next]_vars
  PROVE  SInv'
<1>1. DInv' /\ QInv'
  BY NextInv, NextQ DEF SInv
<1>2. ASSUME NEW c \in CPUs, FaultRecheck(c) \/ FaultAlloc(c)
      PROVE  StoreInv' /\ FramesUsed'
  BY <1>2, AllocS
<1>3. ASSUME NEW c \in CPUs, MapWalk(c) \/ MapLink(c) \/ MapReload(c) \/ MapStore(c)
      PROVE  StoreInv' /\ FramesUsed'
  BY <1>3, MapS
<1>4. StoreInv' /\ FramesUsed'
  BY <1>2, <1>3, RestS DEF Next, Fault
<1> QED
  BY <1>1, <1>4 DEF SInv

\* No step takes away a mapping, but unregistering its region.
LEMMA StableStep ==
  ASSUME SInv, [Next]_vars, NEW m \in Pml4s, NEW v \in PageAddrs,
         Mapping(m, v) # None,
         v \in UNION {RegionPages(o)' : o \in Range(regions'[m])}
  PROVE  Mapping(m, v)' = Mapping(m, v)
<1>0. DInv
  BY DEF SInv
<1>1. CASE UNCHANGED <<dir, pt>>
  BY <1>1, MapsSame
<1>2. ASSUME NEW n \in Pml4s, NEW s \in Addresses, Unregister(n, s)
      PROVE  Mapping(m, v)' = Mapping(m, v)
  <2>1. UNCHANGED <<start, end>> /\ UNCHANGED dir
    BY <1>0, <1>2, UnregisterEffect
  <2>2. ASSUME NEW i \in 1..Len(regions[n]), Unregistered(n, i)
        PROVE  Mapping(m, v)' = Mapping(m, v)
    <3> DEFINE o == regions[n][i]
    <3>1. /\ Range(regions'[n]) = Range(regions[n]) \ {o} /\ o \in Range(regions[n])
      BY <1>0, <2>1, <2>2, UnregisteredFacts
    <3>2. Mapping(m, v)' = IF m = n /\ v \in RegionPages(o) THEN None ELSE Mapping(m, v)
      BY <1>0, <2>1, <2>2, MapsUnregister
    <3> HIDE DEF o
    <3>3. \A q : RegionPages(q)' = RegionPages(q)
      BY <2>1 DEF RegionPages
    <3>4. ASSUME m = n, v \in RegionPages(o) PROVE FALSE
      <4>1. PICK q \in Range(regions'[m]) : v \in RegionPages(q)'
        OBVIOUS
      <4>2. q \in Range(regions[m]) /\ q # o /\ v \in RegionPages(q)
        BY <3>1, <3>3, <3>4, <4>1
      <4> QED
        BY <1>0, <3>1, <3>4, <4>2 DEF DInv, RegionsDisjoint
    <3> QED
      BY <3>2, <3>4
  <2> QED
    BY <1>0, <1>1, <1>2, <2>1, <2>2, UnregisterEffect
<1>3. ASSUME NEW n \in Pml4s, NEW s \in Addresses, NEW size \in Addresses,
             NEW dp \in BOOLEAN, Register(n, s, size, dp)
      PROVE  UNCHANGED <<dir, pt>>
  BY <1>0, <1>3, RegisterEffect
<1>4. ASSUME NEW c \in CPUs,
             \/ \E n \in Pml4s, w \in Addresses : FaultFind(c, n, w)
             \/ FaultCheck(c) \/ FaultLock(c) \/ FaultRecheck(c) \/ FaultAlloc(c)
             \/ MapReload(c)
      PROVE  UNCHANGED <<dir, pt>>
  BY <1>4 DEF FaultFind, FaultCheck, FaultLock, FaultRecheck, FaultAlloc, MapReload,
              vmmVars
<1>5. ASSUME NEW c \in CPUs, MapWalk(c) PROVE Mapping(m, v)' = Mapping(m, v)
  <2>1. UNCHANGED dir /\ (\/ UNCHANGED pt
                          \/ \E g \in frames : pt' = [pt EXCEPT ![g] = NoEntries])
    BY <1>5 DEF MapWalk
  <2> QED
    BY <1>0, <1>1, <2>1, MapsNewTable
<1>6. ASSUME NEW c \in CPUs, MapLink(c) PROVE Mapping(m, v)' = Mapping(m, v)
  <2>1. Mapping(m, v)' = IF m = as[c] /\ TableOf(v) = TableOf(addr[c])
                           THEN None ELSE Mapping(m, v)
    BY <1>0, <1>6, MapsLink
  <2>2. dir[as[c]][TableOf(addr[c])] = None
    BY <1>6 DEF MapLink, SInv, StoreInv
  <2>3. ~(m = as[c] /\ TableOf(v) = TableOf(addr[c]))
    BY <2>2 DEF Mapping, vmm_get_physical_address
  <2> QED
    BY <2>1, <2>3
<1>7. ASSUME NEW c \in CPUs, MapStore(c) PROVE Mapping(m, v)' = Mapping(m, v)
  <2>1. Mapping(m, v)' = IF dir[m][TableOf(v)] = table[c] /\ v = addr[c]
                           THEN phys[c] ELSE Mapping(m, v)
    BY <1>0, <1>7, MapsStore
  <2>2. pc[c] = "map_store" /\ Mapping(as[c], addr[c]) = None
    BY <1>7 DEF MapStore, SInv, StoreInv, Mapping_pcs
  <2>3. ~(dir[m][TableOf(v)] = table[c] /\ v = addr[c])
    BY <1>0, <2>2, StorePlace
  <2> QED
    BY <2>1, <2>3
<1>8. CASE UNCHANGED vars
  BY <1>1, <1>8 DEF vars
<1> QED
  BY <1>1, <1>2, <1>3, <1>4, <1>5, <1>6, <1>7, <1>8 DEF Next, Fault

\* On one CPU, or with one region, and regions unregistered at rest, a page
\* stays mapped where it is until its region is unregistered: there the region's
\* lock orders everything vmm_map_page reads and writes.  Between two regions it
\* does not, as the run demand_paging_race shows.
THEOREM MappingsStable ==
  ASSUME Quiesce, LocksEnough
  PROVE  Spec => StableMapping
<1>1. Spec => []SInv
  <2>1. SInv /\ [Next]_vars => SInv'
    BY NextS
  <2> QED
    BY <2>1, InitS, PTL DEF Spec
<1>2. SInv /\ [Next]_vars =>
        [\A m \in Pml4s, v \in PageAddrs :
           /\ Mapping(m, v) # None
           /\ v \in UNION {RegionPages(o)' : o \in Range(regions'[m])}
           => Mapping(m, v)' = Mapping(m, v)]_vars
  BY StableStep
<1> QED
  BY <1>1, <1>2, PTL DEF Spec, StableMapping

-----------------------------------------------------------------------------
(* No page is lost *)

\* A table is missing only while frames are left.
LEMMA FrameLeft ==
  ASSUME SInv, LocksEnough, FramesEnough, NEW c \in CPUs, pc[c] = "map_walk",
         dir[as[c]][TableOf(addr[c])] = None
  PROVE  frames # {}
<1> SUFFICES ASSUME frames = {} PROVE FALSE
  OBVIOUS
<1> DEFINE T == Pml4s \X TableIndices
           x0 == <<as[c], TableOf(addr[c])>>
           U == T \ {x0}
           g == [f \in Frames |-> CHOOSE x \in U : dir[x[1]][x[2]] = f]
<1>1. Critical(c) /\ pc[c] \in Mapping_pcs
  BY DEF Critical, Mapping_pcs
<1>2. as[c] \in Pml4s /\ TableOf(addr[c]) \in TableIndices
  BY <1>1, MappingCall DEF SInv
<1>3. x0 \in T
  BY <1>2
<1>4. ASSUME NEW f \in Frames PROVE \E x \in U : dir[x[1]][x[2]] = f
  <2>1. f \in Frames \ frames /\ f # None
    BY PagingAssumption
  <2>2. PICK m \in Pml4s, i \in TableIndices : dir[m][i] = f
    BY <1>1, <2>1, AllEntered
  <2> DEFINE x == <<m, i>>
  <2>3. x \in U
    BY <2>1, <2>2
  <2>4. dir[x[1]][x[2]] = f
    BY <2>2
  <2> HIDE DEF x, U
  <2> QED
    BY <2>3, <2>4
<1>5. \A f \in Frames : g[f] \in U /\ dir[g[f][1]][g[f][2]] = f
  BY <1>4
<1>6. g \in [Frames -> U]
  BY <1>5
<1>7. \A f, h \in Frames : g[f] = g[h] => f = h
  BY <1>5
<1> HIDE DEF g
<1>8. g \in Injection(Frames, U)
  BY <1>6, <1>7 DEF Injection, IsInjective
<1> HIDE DEF U
<1>9. IsFiniteSet(T) /\ Cardinality(T) <= Cardinality(Frames)
  BY FS_Product DEF FramesEnough
<1> HIDE DEF T, x0
<1>10. IsFiniteSet(U) /\ Cardinality(U) = Cardinality(T) - 1
  BY <1>3, <1>9, FS_RemoveElement DEF U
<1>11. Cardinality(Frames) <= Cardinality(U)
  BY <1>8, <1>10, FS_Injection
<1>12. /\ Cardinality(T) \in Nat /\ Cardinality(U) \in Nat
       /\ Cardinality(Frames) \in Nat
  BY <1>9, <1>10, FS_CardinalityType DEF FramesEnough
<1> QED
  BY <1>9, <1>10, <1>11, <1>12

\* A step after which every page is where it was.
LEMMA PagesStay ==
  ASSUME NoPageLost, movable \subseteq movable', unmovable \subseteq unmovable',
         \A m \in Pml4s, v \in PageAddrs :
           Mapping(m, v) # None => Mapping(m, v)' = Mapping(m, v),
         \A d \in CPUs : phys[d] # None => phys'[d] = phys[d]
  PROVE  NoPageLost'
<1> SUFFICES ASSUME NEW p \in Pages
             PROVE  \/ p \in movable' \cup unmovable'
                    \/ \E m \in Pml4s, v \in PageAddrs : Mapping(m, v)' = p
                    \/ \E c \in CPUs : phys'[c] = p
  BY DEF NoPageLost
<1>1. p # None
  BY PagingAssumption
<1>2. CASE p \in movable \cup unmovable
  BY <1>2
<1>3. CASE \E m \in Pml4s, v \in PageAddrs : Mapping(m, v) = p
  BY <1>1, <1>3
<1>4. CASE \E c \in CPUs : phys[c] = p
  BY <1>1, <1>4
<1> QED
  BY <1>2, <1>3, <1>4 DEF NoPageLost

\* A call that returns empty-handed loses nothing.
LEMMA EmptyHanded ==
  ASSUME DInv, NoPageLost, NEW c \in CPUs, phys[c] = None, Return(c),
         UNCHANGED <<dir, pt>>, UNCHANGED <<movable, unmovable>>
  PROVE  NoPageLost'
<1>1. \A d \in CPUs : phys[d] # None => phys'[d] = phys[d]
  BY ReturnEffect DEF DInv, SameCall
<1>2. \A m \in Pml4s, v \in PageAddrs : Mapping(m, v)' = Mapping(m, v)
  BY MapsSame
<1> QED
  BY <1>1, <1>2, PagesStay

\* The steps of a fault lose no page.
LEMMA FaultLoses ==
  ASSUME SInv, LocksEnough, FramesEnough, NoPageLost, NEW c \in CPUs, Fault(c)
  PROVE  NoPageLost'
<1>0. DInv /\ TypeOK
  BY DEF SInv, DInv
<1>1. ASSUME NEW m \in Pml4s, NEW v \in Addresses, FaultFind(c, m, v) PROVE NoPageLost'
  <2>1. UNCHANGED <<dir, pt>> /\ UNCHANGED <<movable, unmovable>> /\ UNCHANGED phys
    BY <1>1 DEF FaultFind, vmmVars, zoneVars, callVars
  <2>2. \A n \in Pml4s, w \in PageAddrs : Mapping(n, w)' = Mapping(n, w)
    BY <2>1, MapsSame
  <2> QED
    BY <2>1, <2>2, PagesStay
<1>2. CASE FaultCheck(c) \/ FaultLock(c) \/ FaultRecheck(c)
  <2>1. /\ UNCHANGED <<dir, pt>> /\ UNCHANGED <<movable, unmovable>>
        /\ pc[c] \in {"fault_check", "fault_lock", "fault_recheck"}
    BY <1>2 DEF FaultCheck, FaultLock, FaultRecheck, vmmVars, zoneVars
  <2>2. phys[c] = None
    BY <1>0, <2>1 DEF DInv, CallInv, Mapping_pcs
  <2>3. CASE Return(c)
    BY <1>0, <2>1, <2>2, <2>3, EmptyHanded
  <2>4. CASE UNCHANGED callVars
    <3>1. UNCHANGED phys
      BY <2>4 DEF callVars
    <3>2. \A n \in Pml4s, w \in PageAddrs : Mapping(n, w)' = Mapping(n, w)
      BY <2>1, MapsSame
    <3> QED
      BY <2>1, <3>1, <3>2, PagesStay
  <2> QED
    BY <1>2, <2>3, <2>4 DEF FaultCheck, FaultLock, FaultRecheck
<1>3. CASE FaultAlloc(c)
  <2>1. /\ UNCHANGED <<dir, pt>> /\ UNCHANGED unmovable /\ pc[c] = "fault_alloc"
    BY <1>3 DEF FaultAlloc, vmmVars
  <2>2. phys[c] = None
    BY <1>0, <2>1 DEF DInv, CallInv, Mapping_pcs
  <2>3. CASE Return(c) /\ UNCHANGED movable
    BY <1>0, <2>1, <2>2, <2>3, EmptyHanded
  <2>4. ASSUME NEW q \in movable, movable' = movable \ {q},
               phys' = [phys EXCEPT ![c] = q]
        PROVE  NoPageLost'
    <3> SUFFICES ASSUME NEW p \in Pages
                 PROVE  \/ p \in movable' \cup unmovable'
                        \/ \E m \in Pml4s, v \in PageAddrs : Mapping(m, v)' = p
                        \/ \E d \in CPUs : phys'[d] = p
      BY DEF NoPageLost
    <3>1. \A n \in Pml4s, w \in PageAddrs : Mapping(n, w)' = Mapping(n, w)
      BY <2>1, MapsSame
    <3>2. phys'[c] = q /\ \A d \in CPUs \ {c} : phys'[d] = phys[d]
      BY <1>0, <2>4 DEF TypeOK
    <3>3. p # None
      BY PagingAssumption
    <3>4. CASE p \in movable \cup unmovable
      BY <2>1, <2>4, <3>2, <3>4
    <3>5. CASE \E m \in Pml4s, v \in PageAddrs : Mapping(m, v) = p
      BY <3>1, <3>5
    <3>6. CASE \E d \in CPUs : phys[d] = p
      BY <2>2, <3>2, <3>3, <3>6
    <3> QED
      BY <3>4, <3>5, <3>6 DEF NoPageLost
  <2> QED
    BY <1>3, <2>3, <2>4 DEF FaultAlloc
<1>4. CASE MapWalk(c)
  <2>1. pc[c] = "map_walk" /\ UNCHANGED dir /\ UNCHANGED <<movable, unmovable>>
    BY <1>4 DEF MapWalk, zoneVars
  <2>2. ~(dir[as[c]][TableOf(addr[c])] = None /\ frames = {})
    BY <2>1, FrameLeft
  <2>3. UNCHANGED phys /\ (\/ UNCHANGED pt
                           \/ \E g \in frames : pt' = [pt EXCEPT ![g] = NoEntries])
    BY <1>4, <2>2 DEF MapWalk
  <2>4. \A n \in Pml4s, w \in PageAddrs : Mapping(n, w)' = Mapping(n, w)
    BY <1>0, <2>1, <2>3, MapsSame, MapsNewTable
  <2> QED
    BY <2>1, <2>3, <2>4, PagesStay
<1>5. CASE MapLink(c)
  <2>1. UNCHANGED phys /\ UNCHANGED <<movable, unmovable>>
    BY <1>5 DEF MapLink, zoneVars, callVars
  <2>2. dir[as[c]][TableOf(addr[c])] = None
    BY <1>5 DEF MapLink, SInv, StoreInv
  <2>3. \A m \in Pml4s, v \in PageAddrs :
          Mapping(m, v) # None => ~(m = as[c] /\ TableOf(v) = TableOf(addr[c]))
    BY <2>2 DEF Mapping, vmm_get_physical_address
  <2>4. \A m \in Pml4s, v \in PageAddrs :
          Mapping(m, v) # None => Mapping(m, v)' = Mapping(m, v)
    BY <1>0, <1>5, <2>3, MapsLink
  <2> QED
    BY <2>1, <2>4, PagesStay
<1>6. CASE MapReload(c)
  <2>1. UNCHANGED <<dir, pt>> /\ UNCHANGED <<movable, unmovable>> /\ UNCHANGED phys
    BY <1>6 DEF MapReload, vmmVars, zoneVars
  <2>2. \A n \in Pml4s, w \in PageAddrs : Mapping(n, w)' = Mapping(n, w)
    BY <2>1, MapsSame
  <2> QED
    BY <2>1, <2>2, PagesStay
<1>7. CASE MapStore(c)
  <2>1. /\ pc[c] = "map_store" /\ pc[c] \in Mapping_pcs /\ Return(c)
        /\ UNCHANGED <<movable, unmovable>>
    BY <1>7 DEF MapStore, zoneVars, Mapping_pcs
  <2>2. /\ as[c] \in Pml4s /\ addr[c] \in PageAddrs
        /\ dir[as[c]][TableOf(addr[c])] = table[c]
        /\ Mapping(as[c], addr[c]) = None
    BY <1>0, <2>1, MappingCall DEF SInv, StoreInv
  <2>3. \A m \in Pml4s, v \in PageAddrs :
          Mapping(m, v)' = IF dir[m][TableOf(v)] = table[c] /\ v = addr[c]
                             THEN phys[c] ELSE Mapping(m, v)
    BY <1>0, <1>7, MapsStore
  <2>4. \E m \in Pml4s, v \in PageAddrs : Mapping(m, v)' = phys[c]
    BY <2>2, <2>3
  <2>5. \A m \in Pml4s, v \in PageAddrs :
          dir[m][TableOf(v)] = table[c] => m = as[c]
    BY <1>0, <2>1, StorePlace
  <2>6. \A m \in Pml4s, v \in PageAddrs :
          Mapping(m, v) # None => Mapping(m, v)' = Mapping(m, v)
    BY <2>2, <2>3, <2>5
  <2>7. \A d \in CPUs \ {c} : phys'[d] = phys[d]
    BY <1>0, <2>1, ReturnEffect DEF SameCall
  <2> SUFFICES ASSUME NEW p \in Pages
               PROVE  \/ p \in movable' \cup unmovable'
                      \/ \E m \in Pml4s, v \in PageAddrs : Mapping(m, v)' = p
                      \/ \E d \in CPUs : phys'[d] = p
    BY DEF NoPageLost
  <2>8. p # None
    BY PagingAssumption
  <2>9. CASE p \in movable \cup unmovable
    BY <2>1, <2>9
  <2>10. CASE \E m \in Pml4s, v \in PageAddrs : Mapping(m, v) = p
    BY <2>6, <2>8, <2>10
  <2>11. CASE \E d \in CPUs : phys[d] = p
    BY <2>4, <2>7, <2>11
  <2> QED
    BY <2>9, <2>10, <2>11 DEF NoPageLost
<1> QED
  BY <1>1, <1>2, <1>3, <1>4, <1>5, <1>6, <1>7 DEF Fault

\* Unregistering frees what it unmaps.
LEMMA UnregisterLoses ==
  ASSUME DInv, NoPageLost, NEW m \in Pml4s, NEW s \in Addresses, Unregister(m, s)
  PROVE  NoPageLost'
<1>1. UNCHANGED phys /\ UNCHANGED dir /\ UNCHANGED movable
  BY UnregisterEffect DEF CallsIdle
<1>2. CASE UNCHANGED <<regions, pt, unmovable>>
  <2>1. \A n \in Pml4s, w \in PageAddrs : Mapping(n, w)' = Mapping(n, w)
    BY <1>1, <1>2, MapsSame
  <2> QED
    BY <1>1, <1>2, <2>1, PagesStay
<1>3. ASSUME NEW i \in 1..Len(regions[m]), Unregistered(m, i) PROVE NoPageLost'
  <2> DEFINE o == regions[m][i]
  <2>1. unmovable' = unmovable \cup Freed(m, o)
    BY <1>3 DEF Unregistered
  <2>2. \A n \in Pml4s, v \in PageAddrs :
          Mapping(n, v)' = IF n = m /\ v \in RegionPages(o) THEN None ELSE Mapping(n, v)
    BY <1>1, <1>3, MapsUnregister
  <2> HIDE DEF o
  <2> SUFFICES ASSUME NEW p \in Pages
               PROVE  \/ p \in movable' \cup unmovable'
                      \/ \E n \in Pml4s, v \in PageAddrs : Mapping(n, v)' = p
                      \/ \E d \in CPUs : phys'[d] = p
    BY DEF NoPageLost
  <2>3. CASE p \in movable \cup unmovable
    BY <1>1, <2>1, <2>3
  <2>4. ASSUME NEW n \in Pml4s, NEW v \in PageAddrs, Mapping(n, v) = p
        PROVE  \/ p \in unmovable'
               \/ \E k \in Pml4s, w \in PageAddrs : Mapping(k, w)' = p
    <3>1. p # None
      BY PagingAssumption
    <3>2. CASE n = m /\ v \in RegionPages(o)
      BY <2>1, <2>4, <3>1, <3>2 DEF Freed, Mapping
    <3>3. CASE ~(n = m /\ v \in RegionPages(o))
      BY <2>2, <2>4, <3>3
    <3> QED
      BY <3>2, <3>3
  <2>5. CASE \E d \in CPUs : phys[d] = p
    BY <1>1, <2>5
  <2> QED
    BY <2>3, <2>4, <2>5 DEF NoPageLost
<1> QED
  BY <1>2, <1>3, UnregisterEffect

\* On one CPU, or with one region, with regions unregistered at rest and a frame
\* for every page table, no page of the zone is ever lost, neither by a fault
\* that fails nor by one that races with another.
THEOREM PagesNotLost ==
  ASSUME Quiesce, LocksEnough, FramesEnough
  PROVE  Spec => []NoPageLost
<1>1. Init => NoPageLost
  BY DEF Init, NoPageLost
<1>2. ASSUME SInv, NoPageLost, [Next]_vars PROVE NoPageLost'
  <2>1. ASSUME NEW c \in CPUs, Fault(c) PROVE NoPageLost'
    BY <1>2, <2>1, FaultLoses
  <2>2. ASSUME NEW m \in Pml4s, NEW s \in Addresses, Unregister(m, s) PROVE NoPageLost'
    BY <1>2, <2>2, UnregisterLoses DEF SInv
  <2>3. ASSUME NEW m \in Pml4s, NEW s \in Addresses, NEW size \in Addresses,
               NEW dp \in BOOLEAN, Register(m, s, size, dp)
        PROVE  NoPageLost'
    <3>1. /\ UNCHANGED <<dir, pt>> /\ UNCHANGED <<movable, unmovable>>
          /\ UNCHANGED phys
      BY <1>2, <2>3, RegisterEffect DEF SInv, CallsIdle
    <3>2. \A n \in Pml4s, w \in PageAddrs : Mapping(n, w)' = Mapping(n, w)
      BY <3>1, MapsSame
    <3> QED
      BY <1>2, <3>1, <3>2, PagesStay
  <2>4. CASE UNCHANGED vars
    <3>1. /\ UNCHANGED <<dir, pt>> /\ UNCHANGED <<movable, unmovable>>
          /\ UNCHANGED phys
      BY <2>4 DEF vars
    <3>2. \A n \in Pml4s, w \in PageAddrs : Mapping(n, w)' = Mapping(n, w)
      BY <3>1, MapsSame
    <3> QED
      BY <1>2, <3>1, <3>2, PagesStay
  <2> QED
    BY <1>2, <2>1, <2>2, <2>3, <2>4 DEF Next
<1>3. SInv /\ [Next]_vars => SInv'
  BY NextS
<1> QED
  BY <1>1, <1>2, <1>3, InitS, PTL DEF Spec
=============================================================================
