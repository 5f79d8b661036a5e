----------------------------- MODULE BuddyProofs -----------------------------
(***************************************************************************)
(* Proofs about the buddy allocator, for any number of CPUs, any region,   *)
(* any page size and any maximum order: the zone locks exclude, and the    *)
(* blocks on the free lists, with callers and in flight always partition   *)
(* the region into aligned blocks; its accounts (bitmap, counters,         *)
(* statistics) are kept, two buddies are never left free, and it           *)
(* implements PageAllocator.                                               *)
(***************************************************************************)
EXTENDS Buddy, MathLemmas, FiniteSetTheorems

-----------------------------------------------------------------------------
(* Arithmetic *)

\* Being aligned is being a multiple.
LEMMA AlignedMultiple ==
  ASSUME NEW b \in Nat, NEW n \in Nat \ {0}
  PROVE  b % n = 0 <=> \E q \in Nat : b = q * n
<1>1. ASSUME b % n = 0 PROVE \E q \in Nat : b = q * n
  <2>1. b \div n \in Int /\ b = n * (b \div n)
    BY <1>1, DivMod
  <2>2. b \div n >= 0
    BY <2>1
  <2> QED
    BY <2>1, <2>2
<1>2. ASSUME NEW q \in Nat, b = q * n PROVE b % n = 0
  <2>1. b = q * n + 0
    BY <1>2
  <2> QED
    BY <2>1, DivUnique
<1> QED
  BY <1>1, <1>2

\* The halves of an aligned block of 2n pages are aligned blocks of n pages.
LEMMA SplitAligned ==
  ASSUME NEW b \in Nat, NEW n \in Nat \ {0}, b % (2 * n) = 0
  PROVE  b % n = 0 /\ (b + n) % n = 0
<1>1. PICK q \in Nat : b = q * (2 * n)
  BY AlignedMultiple
<1>2. b = (2 * q) * n /\ b + n = (2 * q + 1) * n
  BY <1>1
<1> QED
  BY <1>2, AlignedMultiple

\* The size of a block: positive, and doubling from one order to the next.
LEMMA OrderFacts ==
  /\ \A k \in Orders : OrderPages[k] \in Nat \ {0}
  /\ \A k \in Orders : k < BUDDY_MAX_ORDER =>
       k + 1 \in Orders /\ OrderPages[k + 1] = 2 * OrderPages[k]
  /\ \A k \in Orders : k > 0 =>
       k - 1 \in Orders /\ OrderPages[k] = 2 * OrderPages[k - 1]
  /\ 0 \in Orders /\ OrderPages[0] = 1
BY OrderAssumption DEF Orders

\* The region has at least one page.
LEMMA TotalPages == total_pages \in Nat \ {0}
<1> DEFINE m == memory_size + BUDDY_PAGE_SIZE - 1
<1>1. m \in Nat /\ m >= BUDDY_PAGE_SIZE /\ BUDDY_PAGE_SIZE \in Nat \ {0}
  BY MemoryAssumption
<1>2. total_pages = m \div BUDDY_PAGE_SIZE
  BY DEF total_pages, bytes_to_pages
<1> HIDE DEF m
<1>3. m \div BUDDY_PAGE_SIZE \in Nat \ {0}
  BY <1>1, DivMod
<1> QED
  BY <1>2, <1>3

\* addr_to_page_index undoes page_index_to_addr.
LEMMA AddressRoundTrip ==
  ASSUME NEW b \in Nat
  PROVE  addr_to_page_index(page_index_to_addr(b)) = b
<1>1. memory_start \in Nat /\ BUDDY_PAGE_SIZE \in Nat \ {0}
  BY MemoryAssumption
<1>2. page_index_to_addr(b) - memory_start = b * BUDDY_PAGE_SIZE + 0
  BY <1>1 DEF page_index_to_addr
<1> QED
  BY <1>1, <1>2, DivUnique DEF addr_to_page_index

\* Flipping bit n of a multiple of n gives the neighbour on the side that
\* makes the pair a multiple of 2n; flipping it again gives it back.
LEMMA FlipBitFacts ==
  ASSUME NEW b \in Nat, NEW n \in Nat \ {0}, b % n = 0
  PROVE  /\ FlipBit(b, n) \in Nat /\ FlipBit(b, n) % n = 0
         /\ FlipBit(b, n) = b + n \/ FlipBit(b, n) = b - n
         /\ FlipBit(FlipBit(b, n), n) = b
         /\ FlipBit(b, n) > b => b % (2 * n) = 0
         /\ FlipBit(b, n) < b => FlipBit(b, n) % (2 * n) = 0
<1>1. PICK q \in Nat : b = q * n
  BY AlignedMultiple
<1>2. b \div n = q
  <2>1. b = q * n + 0
    BY <1>1
  <2> QED
    BY <2>1, DivUnique
<1>3. CASE q % 2 = 0
  <2>1. PICK r \in Nat : q = 2 * r
    BY <1>3
  <2>2. FlipBit(b, n) = b + n
    BY <1>2, <1>3 DEF FlipBit
  <2>3. b = r * (2 * n)
    BY <2>1, <1>1
  <2>4. b + n = (q + 1) * n
    BY <1>1
  <2>5. b + n \in Nat /\ b % (2 * n) = 0 /\ (b + n) % n = 0
    BY <2>3, <2>4, AlignedMultiple
  <2>6. (b + n) \div n = q + 1
    <3>1. b + n = (q + 1) * n + 0
      BY <2>4
    <3> QED
      BY <3>1, DivUnique
  <2>7. (q + 1) % 2 # 0
    BY <2>1
  <2>8. FlipBit(b + n, n) = b
    BY <2>6, <2>7 DEF FlipBit
  <2> QED
    BY <2>2, <2>5, <2>8
<1>4. CASE q % 2 # 0
  <2>1. PICK r \in Nat : q = 2 * r + 1
    BY <1>4
  <2>2. FlipBit(b, n) = b - n
    BY <1>2, <1>4 DEF FlipBit
  <2>3. b - n = r * (2 * n) /\ 2 * n \in Nat \ {0}
    BY <2>1, <1>1
  <2>4. b - n = (q - 1) * n /\ q - 1 \in Nat
    BY <1>1, <2>1
  <2>5. b - n \in Nat
    BY <2>4
  <2>6. (b - n) % (2 * n) = 0
    BY <2>3, <2>5, AlignedMultiple
  <2>7. (b - n) % n = 0
    BY <2>4, <2>5, AlignedMultiple
  <2>8. (b - n) \div n = q - 1
    <3>1. b - n = (q - 1) * n + 0
      BY <2>4
    <3> QED
      BY <3>1, <2>4, DivUnique
  <2>9. (q - 1) % 2 = 0
    BY <2>1
  <2>10. FlipBit(b - n, n) = b
    BY <2>8, <2>9 DEF FlipBit
  <2> QED
    BY <2>2, <2>5, <2>6, <2>7, <2>10
<1> QED
  BY <1>3, <1>4

\* The same for the buddy of a block.
LEMMA BuddyFacts ==
  ASSUME NEW k \in Orders, NEW b \in Nat, b % OrderPages[k] = 0
  PROVE  /\ Buddy(b, k) \in Nat /\ Buddy(b, k) % OrderPages[k] = 0
         /\ \/ Buddy(b, k) = b + OrderPages[k]
            \/ Buddy(b, k) = b - OrderPages[k]
         /\ Buddy(Buddy(b, k), k) = b
         /\ Buddy(b, k) > b => b % (2 * OrderPages[k]) = 0
         /\ Buddy(b, k) < b => Buddy(b, k) % (2 * OrderPages[k]) = 0
BY OrderFacts, FlipBitFacts DEF Buddy

-----------------------------------------------------------------------------
(* Free lists *)

\* list_add links the block in front.
LEMMA ListAdd ==
  ASSUME NEW S, NEW s \in Seq(S), NEW b \in S
  PROVE  /\ list_add(s, b) \in Seq(S)
         /\ Len(list_add(s, b)) = Len(s) + 1
         /\ Range(list_add(s, b)) = Range(s) \cup {b}
         /\ IsInjective(s) /\ b \notin Range(s) =>
              IsInjective(list_add(s, b))
BY SeqPush DEF list_add

\* list_remove unlinks the block, wherever it is on the list.
LEMMA ListRemove ==
  ASSUME NEW S, NEW s \in Seq(S), NEW b \in Range(s), IsInjective(s)
  PROVE  /\ list_remove(s, b) \in Seq(S)
         /\ Len(list_remove(s, b)) = Len(s) - 1
         /\ Range(list_remove(s, b)) = Range(s) \ {b}
         /\ IsInjective(list_remove(s, b))
<1>1. PICK p \in 1..Len(s) :
        /\ s[p] = b
        /\ list_remove(s, b) = SubSeq(s, 1, p - 1) \o SubSeq(s, p + 1, Len(s))
  <2>1. \E i \in 1..Len(s) : s[i] = b
    BY DEF Range
  <2> QED
    BY <2>1 DEF list_remove
<1> DEFINE t == SubSeq(s, 1, p - 1) \o SubSeq(s, p + 1, Len(s))
<1>2. /\ t \in Seq(S) /\ Len(t) = Len(s) - 1
      /\ Range(t) \subseteq Range(s) /\ Range(s) \ {s[p]} \subseteq Range(t)
      /\ IsInjective(s) => IsInjective(t) /\ s[p] \notin Range(t)
  BY SeqCut, Zenon
<1>3. list_remove(s, b) = t /\ s[p] = b
  BY <1>1
<1> HIDE DEF t
<1>4. Range(t) = Range(s) \ {b}
  BY <1>2, <1>3
<1> QED
  BY <1>2, <1>3, <1>4

\* The head of a list is on it.
LEMMA HeadOnList ==
  ASSUME NEW S, NEW s \in Seq(S), s # <<>>
  PROVE  Head(s) \in Range(s)
<1>1. 1 \in DOMAIN s /\ Head(s) = s[1]
  OBVIOUS
<1> QED
  BY <1>1 DEF Range

-----------------------------------------------------------------------------
(* The inductive invariant *)

\* Whoever is in a critical section owns the lock of its zone.
LockInv == \A c \in CPUs : InCritical(c) => lock[zone[c]] = c

\* Only the UNMOVABLE zone ever has blocks.
ZonesEmpty ==
  \A z \in Zones \ {BUDDY_ZONE_UNMOVABLE}, k \in Orders :
    free_lists[z][k] = <<>>

\* A CPU with a block in its hands works on UNMOVABLE, and a block being
\* split is still at least as large as requested.
HeldInv ==
  \A c \in Holding :
    /\ zone[c] = BUDDY_ZONE_UNMOVABLE
    /\ cur_order[c] >= order[c]
    /\ pc[c] = "free_lock" => cur_order[c] = order[c]

\* Until buddy_init has carved the whole region nobody calls the allocator,
\* and the blocks made so far lie below the carving position.
BootInv ==
  /\ \A k \in Orders : \A b \in FreeSet(k) : b + OrderPages[k] <= carved
  /\ ~Ready => owned = {} /\ \A c \in CPUs : pc[c] = "idle"

IInv ==
  /\ TypeOK /\ LockInv /\ ZonesEmpty /\ HeldInv /\ BootInv
  /\ Aligned /\ NoOverlap /\ NoLeak

-----------------------------------------------------------------------------
(* What one step does to the free lists *)

\* The zone buddy_init fills is one of the zones.
LEMMA ZoneFacts == BUDDY_ZONE_UNMOVABLE \in Zones
BY DEF BUDDY_ZONE_UNMOVABLE, BUDDY_ZONE_COUNT, Zones

\* Linking a block adds it to its list and leaves the others alone.
LEMMA AddFreeEffect ==
  ASSUME TypeOK, NEW k \in Orders, NEW b \in PageIndex,
         AddFree(BUDDY_ZONE_UNMOVABLE, k, b)
  PROVE  /\ free_lists' \in [Zones -> [Orders -> Seq(PageIndex)]]
         /\ free_counts' \in [Zones -> [Orders -> Int]]
         /\ \A l \in Orders :
              FreeSet(l)' = IF l = k THEN FreeSet(l) \cup {b} ELSE FreeSet(l)
         /\ ZonesEmpty => ZonesEmpty'
         /\ LinkedOnce /\ b \notin FreeSet(k) => LinkedOnce'
<1> DEFINE z == BUDDY_ZONE_UNMOVABLE
           s == free_lists[z][k]
<1>1. s \in Seq(PageIndex)
  BY ZoneFacts DEF TypeOK
<1>2. /\ list_add(s, b) \in Seq(PageIndex)
      /\ Range(list_add(s, b)) = Range(s) \cup {b}
      /\ IsInjective(s) /\ b \notin Range(s) => IsInjective(list_add(s, b))
  <2> HIDE DEF s
  <2> QED
    BY <1>1, ListAdd
<1>3. free_lists' = [free_lists EXCEPT ![z][k] = list_add(s, b)]
  BY DEF AddFree
<1>4. free_lists' \in [Zones -> [Orders -> Seq(PageIndex)]]
  BY <1>2, <1>3 DEF TypeOK
<1>5. free_counts' \in [Zones -> [Orders -> Int]]
  BY ZoneFacts DEF AddFree, TypeOK
<1>6. \A l \in Orders :
        free_lists'[z][l] = IF l = k THEN list_add(s, b) ELSE free_lists[z][l]
  BY <1>3, ZoneFacts DEF TypeOK
<1>7. \A y \in Zones \ {z} : free_lists'[y] = free_lists[y]
  BY <1>3 DEF TypeOK
<1>8. \A l \in Orders :
        FreeSet(l)' = IF l = k THEN FreeSet(l) \cup {b} ELSE FreeSet(l)
  BY <1>2, <1>6 DEF FreeSet
<1>9. ZonesEmpty => ZonesEmpty'
  BY <1>7 DEF ZonesEmpty
<1>10. LinkedOnce /\ b \notin FreeSet(k) => LinkedOnce'
  BY <1>2, <1>6 DEF LinkedOnce, FreeSet
<1> QED
  BY <1>4, <1>5, <1>8, <1>9, <1>10

\* Unlinking a block takes it off its list and leaves the others alone.
LEMMA RemoveFreeEffect ==
  ASSUME TypeOK, LinkedOnce, NEW k \in Orders, NEW b \in FreeSet(k),
         RemoveFree(BUDDY_ZONE_UNMOVABLE, k, b)
  PROVE  /\ free_lists' \in [Zones -> [Orders -> Seq(PageIndex)]]
         /\ free_counts' \in [Zones -> [Orders -> Int]]
         /\ \A l \in Orders :
              FreeSet(l)' = IF l = k THEN FreeSet(l) \ {b} ELSE FreeSet(l)
         /\ ZonesEmpty => ZonesEmpty'
         /\ LinkedOnce'
<1> DEFINE z == BUDDY_ZONE_UNMOVABLE
           s == free_lists[z][k]
<1>1. s \in Seq(PageIndex) /\ IsInjective(s) /\ b \in Range(s)
  BY ZoneFacts DEF TypeOK, LinkedOnce, FreeSet
<1>2. /\ list_remove(s, b) \in Seq(PageIndex)
      /\ Range(list_remove(s, b)) = Range(s) \ {b}
      /\ IsInjective(list_remove(s, b))
  <2> HIDE DEF s
  <2> QED
    BY <1>1, ListRemove
<1>3. free_lists' = [free_lists EXCEPT ![z][k] = list_remove(s, b)]
  BY DEF RemoveFree
<1>4. free_lists' \in [Zones -> [Orders -> Seq(PageIndex)]]
  BY <1>2, <1>3 DEF TypeOK
<1>5. free_counts' \in [Zones -> [Orders -> Int]]
  BY ZoneFacts DEF RemoveFree, TypeOK
<1>6. \A l \in Orders :
        free_lists'[z][l] =
          IF l = k THEN list_remove(s, b) ELSE free_lists[z][l]
  BY <1>3, ZoneFacts DEF TypeOK
<1>7. \A y \in Zones \ {z} : free_lists'[y] = free_lists[y]
  BY <1>3 DEF TypeOK
<1>8. \A l \in Orders :
        FreeSet(l)' = IF l = k THEN FreeSet(l) \ {b} ELSE FreeSet(l)
  BY <1>2, <1>6 DEF FreeSet
<1>9. ZonesEmpty => ZonesEmpty'
  BY <1>7 DEF ZonesEmpty
<1>10. LinkedOnce'
  BY <1>2, <1>6 DEF LinkedOnce
<1> QED
  BY <1>4, <1>5, <1>8, <1>9, <1>10

-----------------------------------------------------------------------------
(* Shared facts of the step proofs *)

\* Blocks have natural numbers for first pages.
LEMMA FreeSetType ==
  ASSUME TypeOK
  PROVE  /\ \A k \in Orders : FreeSet(k) \subseteq PageIndex
         /\ PageIndex \subseteq Nat
<1>1. \A k \in Orders : free_lists[BUDDY_ZONE_UNMOVABLE][k] \in Seq(PageIndex)
  BY ZoneFacts DEF TypeOK
<1>2. \A k \in Orders : FreeSet(k) \subseteq PageIndex
  BY <1>1 DEF FreeSet, Range
<1> QED
  BY <1>2, TotalPages DEF PageIndex

\* A block's first page is a page of the region.
LEMMA BlockInRegion ==
  ASSUME NEW b, NEW k, IsBlock(b, k)
  PROVE  b \in PageIndex /\ k \in Orders
BY OrderFacts, TotalPages DEF IsBlock, PageIndex

\* A step that moves no block between lists, callers and hands keeps the
\* partition.
LEMMA Frame ==
  ASSUME IInv, UNCHANGED <<free_lists, owned, carved>>, Holding' = Holding,
         \A c \in Holding : block'[c] = block[c] /\ cur_order'[c] = cur_order[c]
  PROVE  /\ ZonesEmpty' /\ Aligned' /\ NoOverlap' /\ NoLeak'
         /\ \A k \in Orders : FreeSet(k)' = FreeSet(k)
<1>1. \A k \in Orders : FreeSet(k)' = FreeSet(k)
  BY DEF FreeSet
<1>2. ZonesEmpty'
  BY DEF IInv, ZonesEmpty
<1>3. Aligned'
  BY <1>1 DEF IInv, Aligned
<1>4. LinkedOnce' /\ FreeApart' /\ OwnedApart' /\ FreeFromOwned'
  BY <1>1 DEF IInv, NoOverlap, LinkedOnce, FreeApart, OwnedApart, FreeFromOwned
<1>5. HeldApart' /\ FreeFromHeld' /\ OwnedFromHeld'
  BY <1>1 DEF IInv, NoOverlap, HeldApart, FreeFromHeld, OwnedFromHeld
<1>6. NoLeak'
  BY <1>1 DEF IInv, NoLeak
<1> QED
  BY <1>1, <1>2, <1>3, <1>4, <1>5, <1>6 DEF NoOverlap

-----------------------------------------------------------------------------
(* Initially *)

\* The invariant holds before buddy_init carves the first block.
LEMMA InitInv == Init => IInv
<1> SUFFICES ASSUME Init PROVE IInv
  OBVIOUS
<1>1. \A k \in Orders : FreeSet(k) = {}
  BY ZoneFacts DEF Init, FreeSet, Range
<1>2. Holding = {}
  BY DEF Init, Holding
<1>3. TypeOK
  <2>1. 0 \in PageIndex /\ 0 \in Orders /\ total_pages \in Int
    BY TotalPages, OrderFacts DEF PageIndex
  <2>2. <<>> \in Seq(PageIndex)
    OBVIOUS
  <2>3. free_lists \in [Zones -> [Orders -> Seq(PageIndex)]]
    BY <2>2 DEF Init
  <2> QED
    BY <2>1, <2>3, ZoneFacts, TotalPages DEF Init, TypeOK, Labels
<1>4. LockInv /\ ZonesEmpty /\ HeldInv
  BY <1>2 DEF Init, LockInv, InCritical, ZonesEmpty, HeldInv
<1>5. BootInv /\ Aligned
  BY <1>1, <1>2 DEF Init, BootInv, Aligned
<1>6. NoOverlap
  <2>1. LinkedOnce
    BY ZoneFacts DEF Init, LinkedOnce, IsInjective
  <2> QED
    BY <2>1, <1>1, <1>2 DEF Init, NoOverlap, FreeApart, OwnedApart, HeldApart,
       FreeFromOwned, FreeFromHeld, OwnedFromHeld
<1>7. NoLeak
  BY DEF Init, NoLeak
<1> QED
  BY <1>3, <1>4, <1>5, <1>6, <1>7 DEF IInv

-----------------------------------------------------------------------------
(* buddy_init *)

\* An iteration of the carving loop links a new block behind the others.
LEMMA CarveStep == IInv /\ InitCarve => IInv'
<1> SUFFICES ASSUME IInv, InitCarve PROVE IInv'
  OBVIOUS
<1>1. PICK k \in Orders :
        /\ k = 0 \/ Fits(k)
        /\ AddFree(BUDDY_ZONE_UNMOVABLE, k, carved)
        /\ carved' = carved + OrderPages[k]
  BY DEF InitCarve
<1>2. carved \in Nat /\ carved < total_pages /\ OrderPages[k] \in Nat \ {0}
  BY OrderFacts, TotalPages DEF InitCarve, IInv, TypeOK
<1>3. IsBlock(carved, k)
  <2>1. CASE k = 0
    BY <2>1, <1>2, OrderFacts, TotalPages DEF IsBlock
  <2>2. CASE Fits(k)
    BY <2>2, <1>2, TotalPages DEF Fits, IsBlock
  <2> QED
    BY <2>1, <2>2, <1>1
<1>4. UNCHANGED <<free_pages, bitmap, lock, pc, order, zone, cur_order, block,
                  owned>>
  BY DEF InitCarve, callVars
<1>5. ~Ready /\ owned = {} /\ Holding = {} /\ Holding' = {}
  BY <1>2, <1>4 DEF Ready, IInv, BootInv, Holding
<1>6. carved \in PageIndex
  BY <1>3, BlockInRegion
<1>7. carved \notin FreeSet(k)
  BY <1>2, FreeSetType DEF IInv, BootInv
<1>8. TypeOK /\ ZonesEmpty /\ LinkedOnce
  BY DEF IInv, NoOverlap
<1>9. /\ free_lists' \in [Zones -> [Orders -> Seq(PageIndex)]]
      /\ free_counts' \in [Zones -> [Orders -> Int]]
      /\ \A l \in Orders : FreeSet(l)' =
           IF l = k THEN FreeSet(l) \cup {carved} ELSE FreeSet(l)
      /\ ZonesEmpty' /\ LinkedOnce'
  BY <1>1, <1>6, <1>7, <1>8, AddFreeEffect
<1>10. TypeOK'
  BY <1>1, <1>2, <1>3, <1>4, <1>8, <1>9, TotalPages DEF TypeOK, IsBlock
<1>11. LockInv' /\ HeldInv'
  BY <1>4, <1>5 DEF IInv, LockInv, InCritical, HeldInv
<1>12. BootInv'
  <2>1. \A l \in Orders : \A b \in FreeSet(l)' : b + OrderPages[l] <= carved'
    BY <1>1, <1>2, <1>9, <1>8, OrderFacts, FreeSetType DEF IInv, BootInv
  <2> QED
    BY <2>1, <1>4, <1>5 DEF IInv, BootInv
<1>13. Aligned'
  BY <1>3, <1>4, <1>5, <1>9 DEF IInv, Aligned
<1>14. NoOverlap'
  <2>1. FreeApart'
    <3> SUFFICES ASSUME NEW l \in Orders, NEW m \in Orders,
                        NEW b \in FreeSet(l)', NEW d \in FreeSet(m)',
                        l # m \/ b # d
                 PROVE  Disjoint(b, l, d, m)
      BY DEF FreeApart
    <3>1. \A n \in Orders : \A x \in FreeSet(n) :
            Disjoint(x, n, carved, k) /\ Disjoint(carved, k, x, n)
      BY DEF IInv, BootInv, Disjoint
    <3>2. \A n, o \in Orders : \A x \in FreeSet(n), y \in FreeSet(o) :
            n # o \/ x # y => Disjoint(x, n, y, o)
      BY DEF IInv, NoOverlap, FreeApart
    <3> QED
      BY <3>1, <3>2, <1>9
  <2> QED
    BY <2>1, <1>4, <1>5, <1>9 DEF NoOverlap, OwnedApart, HeldApart,
       FreeFromOwned, FreeFromHeld, OwnedFromHeld
<1>15. NoLeak'
  <2> SUFFICES ASSUME NEW p \in 0..(carved' - 1)
               PROVE  \E l \in Orders : \E b \in FreeSet(l)' :
                        p \in BlockPages(b, l)
    BY DEF NoLeak
  <2>0. p \in Nat /\ p < carved + OrderPages[k]
    BY <1>1, <1>2
  <2>1. CASE p < carved
    <3>1. p \in 0..(carved - 1)
      BY <2>0, <2>1, <1>2
    <3>2. \E l \in Orders : \E b \in FreeSet(l) : p \in BlockPages(b, l)
      BY <3>1, <1>5 DEF IInv, NoLeak
    <3> QED
      BY <3>2, <1>9
  <2>2. CASE p >= carved
    <3>1. p \in BlockPages(carved, k)
      BY <2>0, <2>2, <1>2 DEF BlockPages
    <3> QED
      BY <3>1, <1>9
  <2> QED
    BY <2>0, <2>1, <2>2, <1>2
<1> QED
  BY <1>9, <1>10, <1>11, <1>12, <1>13, <1>14, <1>15 DEF IInv

-----------------------------------------------------------------------------
(* Steps that move no block *)

\* A call of buddy_alloc_pages begins: no block moves.
LEMMA AllocCallStep ==
  ASSUME IInv, NEW c \in CPUs, NEW k \in Nat, NEW z \in Nat, AllocCall(c, k, z)
  PROVE  IInv'
<1>1. TypeOK /\ Ready /\ pc[c] = "idle"
  BY DEF AllocCall, IInv
<1>2. UNCHANGED <<free_lists, free_counts, free_pages, bitmap, lock, carved,
                  owned, cur_order, block>>
  BY DEF AllocCall, zoneVars, callVars
<1>3. /\ pc' \in [CPUs -> Labels]
      /\ pc'[c] \in {"failed", "alloc_lock"}
      /\ \A d \in CPUs \ {c} : pc'[d] = pc[d]
  BY <1>1 DEF AllocCall, Goto, TypeOK, Labels
<1>4. /\ order' \in [CPUs -> Orders] /\ zone' \in [CPUs -> Zones]
      /\ \A d \in CPUs \ {c} : order'[d] = order[d] /\ zone'[d] = zone[d]
  <2>1. CASE k > BUDDY_MAX_ORDER
    BY <2>1, <1>1 DEF AllocCall, callVars, TypeOK
  <2>2. CASE ~(k > BUDDY_MAX_ORDER)
    <3>1. k \in Orders
      BY <2>2, OrderAssumption DEF Orders
    <3>2. (IF z >= BUDDY_ZONE_COUNT THEN BUDDY_ZONE_UNMOVABLE ELSE z) \in Zones
      BY DEF Zones, BUDDY_ZONE_COUNT, BUDDY_ZONE_UNMOVABLE
    <3> QED
      BY <2>2, <3>1, <3>2, <1>1 DEF AllocCall, TypeOK
  <2> QED
    BY <2>1, <2>2
<1>5. TypeOK'
  BY <1>1, <1>2, <1>3, <1>4 DEF TypeOK
<1>6. Holding' = Holding
  BY <1>1, <1>3 DEF Holding
<1>7. /\ ZonesEmpty' /\ Aligned' /\ NoOverlap' /\ NoLeak'
      /\ \A l \in Orders : FreeSet(l)' = FreeSet(l)
  BY <1>2, <1>6, Frame
<1>8. LockInv'
  BY <1>2, <1>3, <1>4 DEF IInv, LockInv, InCritical
<1>9. HeldInv'
  <2>1. \A d \in Holding : d # c
    BY <1>1 DEF Holding
  <2> QED
    BY <2>1, <1>2, <1>3, <1>4, <1>6 DEF IInv, HeldInv, Holding
<1>10. BootInv'
  BY <1>1, <1>2, <1>7 DEF IInv, BootInv, Ready
<1> QED
  BY <1>5, <1>7, <1>8, <1>9, <1>10 DEF IInv

\* The allocating CPU gets the zone lock.
LEMMA AllocAcquireStep ==
  ASSUME IInv, NEW c \in CPUs, AllocAcquire(c)
  PROVE  IInv'
<1>1. TypeOK /\ pc[c] = "alloc_lock" /\ lock[zone[c]] = NoCPU
  BY DEF AllocAcquire, spinlock_acquire, IInv
<1>2. UNCHANGED <<free_lists, free_counts, free_pages, bitmap, carved, owned,
                  order, zone, cur_order, block>>
  BY DEF AllocAcquire, zoneVars, callVars
<1>3. /\ pc' = [pc EXCEPT ![c] = "alloc_find"]
      /\ lock' = [lock EXCEPT ![zone[c]] = c]
  BY DEF AllocAcquire, Goto, spinlock_acquire
<1>4. TypeOK'
  BY <1>1, <1>2, <1>3 DEF TypeOK, Labels
<1>5. Holding' = Holding
  BY <1>1, <1>3 DEF Holding, TypeOK
<1>6. /\ ZonesEmpty' /\ Aligned' /\ NoOverlap' /\ NoLeak'
      /\ \A l \in Orders : FreeSet(l)' = FreeSet(l)
  BY <1>2, <1>5, Frame
<1>7. LockInv'
  BY <1>1, <1>2, <1>3, CPUAssumption DEF IInv, LockInv, InCritical, TypeOK
<1>8. HeldInv'
  BY <1>1, <1>2, <1>3, <1>5 DEF IInv, HeldInv, Holding, TypeOK
<1>9. BootInv'
  BY <1>1, <1>2, <1>6 DEF IInv, BootInv, Ready
<1> QED
  BY <1>4, <1>6, <1>7, <1>8, <1>9 DEF IInv

\* No block is large enough: the lock is released.
LEMMA AllocFailStep ==
  ASSUME IInv, NEW c \in CPUs, AllocFail(c)
  PROVE  IInv'
<1>1. TypeOK /\ pc[c] = "alloc_find" /\ lock[zone[c]] = c
  BY DEF AllocFail, IInv, LockInv, InCritical
<1>2. UNCHANGED <<free_lists, free_counts, free_pages, bitmap, carved, owned,
                  order, zone, cur_order, block>>
  BY DEF AllocFail, zoneVars, callVars
<1>3. /\ pc' = [pc EXCEPT ![c] = "failed"]
      /\ lock' = [lock EXCEPT ![zone[c]] = NoCPU]
  BY DEF AllocFail, Goto, spinlock_release
<1>4. TypeOK'
  BY <1>1, <1>2, <1>3 DEF TypeOK, Labels
<1>5. Holding' = Holding
  BY <1>1, <1>3 DEF Holding, TypeOK
<1>6. /\ ZonesEmpty' /\ Aligned' /\ NoOverlap' /\ NoLeak'
      /\ \A l \in Orders : FreeSet(l)' = FreeSet(l)
  BY <1>2, <1>5, Frame
<1>7. LockInv'
  BY <1>1, <1>2, <1>3 DEF IInv, LockInv, InCritical, TypeOK
<1>8. HeldInv'
  BY <1>1, <1>2, <1>3, <1>5 DEF IInv, HeldInv, Holding, TypeOK
<1>9. BootInv'
  BY <1>1, <1>2, <1>6 DEF IInv, BootInv, Ready
<1> QED
  BY <1>4, <1>6, <1>7, <1>8, <1>9 DEF IInv

\* The caller takes the result.
LEMMA ReturnStep ==
  ASSUME IInv, NEW c \in CPUs, Return(c)
  PROVE  IInv'
<1>1. TypeOK /\ pc[c] \in {"allocated", "failed"}
  BY DEF Return, IInv
<1>2. UNCHANGED <<free_lists, free_counts, free_pages, bitmap, lock, carved,
                  owned>>
  BY DEF Return, zoneVars
<1>3. /\ pc' = [pc EXCEPT ![c] = "idle"]
      /\ order' = [order EXCEPT ![c] = 0]
      /\ zone' = [zone EXCEPT ![c] = BUDDY_ZONE_UNMOVABLE]
      /\ cur_order' = [cur_order EXCEPT ![c] = 0]
      /\ block' = [block EXCEPT ![c] = 0]
  BY DEF Return, Goto
<1>4. TypeOK'
  <2>1. 0 \in PageIndex /\ 0 \in Orders
    BY TotalPages, OrderFacts DEF PageIndex
  <2> QED
    BY <2>1, <1>1, <1>2, <1>3, ZoneFacts DEF TypeOK, Labels
<1>5. Holding' = Holding /\ c \notin Holding
  BY <1>1, <1>3 DEF Holding, TypeOK
<1>6. /\ ZonesEmpty' /\ Aligned' /\ NoOverlap' /\ NoLeak'
      /\ \A l \in Orders : FreeSet(l)' = FreeSet(l)
  <2>1. \A d \in Holding : block'[d] = block[d] /\ cur_order'[d] = cur_order[d]
    BY <1>1, <1>3, <1>5 DEF Holding, TypeOK
  <2> QED
    BY <2>1, <1>2, <1>5, Frame
<1>7. LockInv'
  BY <1>1, <1>2, <1>3 DEF IInv, LockInv, InCritical, TypeOK
<1>8. HeldInv'
  BY <1>1, <1>2, <1>3, <1>5 DEF IInv, HeldInv, Holding, TypeOK
<1>9. BootInv'
  BY <1>1, <1>2, <1>3, <1>6 DEF IInv, BootInv, Ready, TypeOK
<1> QED
  BY <1>4, <1>6, <1>7, <1>8, <1>9 DEF IInv

\* The freeing CPU gets the zone lock and clears the bit.
LEMMA FreeAcquireStep ==
  ASSUME IInv, NEW c \in CPUs, FreeAcquire(c)
  PROVE  IInv'
<1>1. TypeOK /\ pc[c] = "free_lock" /\ lock[zone[c]] = NoCPU
  BY DEF FreeAcquire, spinlock_acquire, IInv
<1>2. UNCHANGED <<free_lists, free_counts, free_pages, carved, owned,
                  order, zone, cur_order, block>>
  BY DEF FreeAcquire, zoneVars, callVars
<1>3. /\ pc' = [pc EXCEPT ![c] = "free_merge"]
      /\ lock' = [lock EXCEPT ![zone[c]] = c]
      /\ bitmap' = bitmap \ {block[c]}
  BY DEF FreeAcquire, Goto, spinlock_acquire, clear_allocation_bit
<1>4. TypeOK'
  BY <1>1, <1>2, <1>3 DEF TypeOK, Labels
<1>5. Holding' = Holding
  BY <1>1, <1>3 DEF Holding, TypeOK
<1>6. /\ ZonesEmpty' /\ Aligned' /\ NoOverlap' /\ NoLeak'
      /\ \A l \in Orders : FreeSet(l)' = FreeSet(l)
  BY <1>2, <1>5, Frame
<1>7. LockInv'
  BY <1>1, <1>2, <1>3, CPUAssumption DEF IInv, LockInv, InCritical, TypeOK
<1>8. HeldInv'
  BY <1>1, <1>2, <1>3, <1>5 DEF IInv, HeldInv, Holding, TypeOK
<1>9. BootInv'
  BY <1>1, <1>2, <1>6 DEF IInv, BootInv, Ready
<1> QED
  BY <1>4, <1>6, <1>7, <1>8, <1>9 DEF IInv

\* A stuttering step, and a call buddy_free_pages refuses.
LEMMA StutterStep == IInv /\ UNCHANGED vars => IInv'
<1> SUFFICES ASSUME IInv, UNCHANGED vars PROVE IInv'
  OBVIOUS
<1>1. UNCHANGED <<free_lists, free_counts, free_pages, bitmap, lock, carved, pc,
                  order, zone, cur_order, block, owned>>
  BY DEF vars
<1>2. Holding' = Holding
  BY <1>1 DEF Holding
<1>3. /\ ZonesEmpty' /\ Aligned' /\ NoOverlap' /\ NoLeak'
      /\ \A l \in Orders : FreeSet(l)' = FreeSet(l)
  BY <1>1, <1>2, Frame
<1>4. TypeOK'
  BY <1>1 DEF IInv, TypeOK
<1>5. LockInv' /\ HeldInv' /\ BootInv'
  BY <1>1, <1>2, <1>3 DEF IInv, LockInv, InCritical, HeldInv, BootInv, Ready
<1> QED
  BY <1>3, <1>4, <1>5 DEF IInv

-----------------------------------------------------------------------------
(* Steps that move a block *)

\* Overlap is symmetric.
LEMMA DisjointSym ==
  \A b, k, d, l : Disjoint(b, k, d, l) <=> Disjoint(d, l, b, k)
BY DEF Disjoint

\* From a free list into the hands of the allocating CPU.
LEMMA AllocFindStep ==
  ASSUME IInv, NEW c \in CPUs, AllocFind(c)
  PROVE  IInv'
<1>1. /\ TypeOK /\ ZonesEmpty /\ LinkedOnce
      /\ pc[c] = "alloc_find" /\ lock[zone[c]] = c
  BY DEF AllocFind, IInv, NoOverlap, LockInv, InCritical
<1>2. PICK k \in Candidates(c) :
        /\ RemoveFree(zone[c], k, Head(free_lists[zone[c]][k]))
        /\ block' = [block EXCEPT ![c] = Head(free_lists[zone[c]][k])]
        /\ cur_order' = [cur_order EXCEPT ![c] = k]
  BY DEF AllocFind
<1>3. k \in Orders /\ k >= order[c] /\ free_lists[zone[c]][k] # <<>>
  BY <1>2 DEF Candidates
<1>4. zone[c] = BUDDY_ZONE_UNMOVABLE
  BY <1>1, <1>3 DEF ZonesEmpty, TypeOK
<1> DEFINE b == Head(free_lists[BUDDY_ZONE_UNMOVABLE][k])
<1>5. b \in FreeSet(k)
  <2>1. free_lists[BUDDY_ZONE_UNMOVABLE][k] \in Seq(PageIndex)
    BY <1>1, <1>3, ZoneFacts DEF TypeOK
  <2> QED
    BY <2>1, <1>3, <1>4, HeadOnList DEF FreeSet
<1>6. /\ RemoveFree(BUDDY_ZONE_UNMOVABLE, k, b)
      /\ block' = [block EXCEPT ![c] = b]
  BY <1>2, <1>4
<1> HIDE DEF b
<1>7. /\ free_lists' \in [Zones -> [Orders -> Seq(PageIndex)]]
      /\ free_counts' \in [Zones -> [Orders -> Int]]
      /\ \A l \in Orders :
           FreeSet(l)' = IF l = k THEN FreeSet(l) \ {b} ELSE FreeSet(l)
      /\ ZonesEmpty' /\ LinkedOnce'
  BY <1>1, <1>3, <1>5, <1>6, RemoveFreeEffect
<1>8. UNCHANGED <<free_pages, bitmap, lock, carved, order, zone, owned>>
  BY DEF AllocFind
<1>9. pc' = [pc EXCEPT ![c] = "alloc_split"]
  BY DEF AllocFind, Goto
<1>10. b \in PageIndex
  BY <1>1, <1>3, <1>5, FreeSetType
<1>11. TypeOK'
  BY <1>1, <1>2, <1>3, <1>6, <1>7, <1>8, <1>9, <1>10, ZenonT(30) DEF TypeOK, Labels
<1>12. /\ c \notin Holding /\ Holding' = Holding \cup {c}
       /\ block'[c] = b /\ cur_order'[c] = k
       /\ \A d \in Holding : block'[d] = block[d] /\ cur_order'[d] = cur_order[d]
  BY <1>1, <1>2, <1>6, <1>9 DEF Holding, TypeOK
<1>13. LockInv'
  BY <1>1, <1>8, <1>9 DEF IInv, LockInv, InCritical, TypeOK
<1>14. HeldInv'
  BY <1>1, <1>3, <1>4, <1>8, <1>9, <1>12, ZenonT(30)
     DEF IInv, HeldInv, Holding, TypeOK
<1>15. BootInv'
  BY <1>1, <1>7, <1>8 DEF IInv, BootInv, Ready
<1>16. Aligned'
  BY <1>3, <1>5, <1>7, <1>8, <1>12 DEF IInv, Aligned
<1>17. NoOverlap'
  <2>1. FreeApart'
    BY <1>7 DEF IInv, NoOverlap, FreeApart
  <2>2. OwnedApart' /\ FreeFromOwned'
    BY <1>7, <1>8 DEF IInv, NoOverlap, OwnedApart, FreeFromOwned
  <2>3. HeldApart'
    BY <1>3, <1>5, <1>12, DisjointSym
       DEF IInv, NoOverlap, HeldApart, FreeFromHeld
  <2>4. FreeFromHeld'
    BY <1>3, <1>5, <1>7, <1>12 DEF IInv, NoOverlap, FreeFromHeld, FreeApart
  <2>5. OwnedFromHeld'
    BY <1>3, <1>5, <1>8, <1>12, DisjointSym
       DEF IInv, NoOverlap, OwnedFromHeld, FreeFromOwned
  <2> QED
    BY <1>7, <2>1, <2>2, <2>3, <2>4, <2>5 DEF NoOverlap
<1>18. NoLeak'
  BY <1>3, <1>5, <1>7, <1>8, <1>12 DEF IInv, NoLeak
<1> QED
  BY <1>7, <1>11, <1>13, <1>14, <1>15, <1>16, <1>17, <1>18 DEF IInv

\* The upper half of the block in hand onto its list.
LEMMA AllocSplitStep ==
  ASSUME IInv, NEW c \in CPUs, AllocSplit(c)
  PROVE  IInv'
<1> DEFINE k == cur_order[c] - 1
           b == block[c]
           u == block[c] + OrderPages[k]
<1>1. /\ TypeOK /\ ZonesEmpty /\ LinkedOnce /\ pc[c] = "alloc_split"
      /\ c \in Holding /\ zone[c] = BUDDY_ZONE_UNMOVABLE
      /\ cur_order[c] > order[c] /\ IsBlock(b, cur_order[c])
  BY DEF AllocSplit, IInv, NoOverlap, HeldInv, Holding, Aligned
<1>2. /\ k \in Orders /\ OrderPages[k] \in Nat \ {0} /\ cur_order[c] = k + 1
      /\ OrderPages[cur_order[c]] = 2 * OrderPages[k]
      /\ cur_order[c] \in Orders /\ b \in Nat /\ order[c] \in Nat
      /\ k >= order[c]
  <2>1. cur_order[c] \in Orders /\ order[c] \in Orders /\ block[c] \in Nat
    BY <1>1, FreeSetType DEF TypeOK
  <2>2. cur_order[c] \in Nat /\ order[c] \in Nat /\ cur_order[c] > 0
    BY <2>1, <1>1, OrderAssumption DEF Orders
  <2>3. k \in Orders /\ OrderPages[cur_order[c]] = 2 * OrderPages[k]
    BY <2>1, <2>2, OrderFacts
  <2> QED
    BY <2>1, <2>2, <2>3, <1>1, OrderFacts
<1>3. /\ AddFree(BUDDY_ZONE_UNMOVABLE, k, u)
      /\ cur_order' = [cur_order EXCEPT ![c] = k]
  BY <1>1 DEF AllocSplit
<1>4. UNCHANGED <<free_pages, bitmap, lock, carved, pc, order, zone, block,
                  owned>>
  BY DEF AllocSplit
<1>5. u = b + OrderPages[k]
  OBVIOUS
<1> HIDE DEF k, b, u
<1>6. IsBlock(b, k) /\ IsBlock(u, k)
  <2> DEFINE n == OrderPages[k]
  <2>1. b % (2 * n) = 0 /\ b + 2 * n <= total_pages
    BY <1>1, <1>2 DEF IsBlock
  <2>2. n \in Nat \ {0} /\ u = b + n /\ b \in Nat
    BY <1>2, <1>5
  <2>3. n = OrderPages[k] /\ k \in Orders
    BY <1>2
  <2> HIDE DEF n
  <2>4. b % n = 0 /\ (b + n) % n = 0
    BY <2>1, <2>2, SplitAligned
  <2>5. u % n = 0
    BY <2>2, <2>4
  <2>6. b + n <= total_pages /\ u + n <= total_pages /\ u \in Nat
    BY <2>1, <2>2, TotalPages
  <2> QED
    BY <2>2, <2>3, <2>4, <2>5, <2>6 DEF IsBlock
<1>7. u \in PageIndex
  BY <1>6, BlockInRegion
<1>8. /\ block[c] = b
      /\ \A x, l : Disjoint(x, l, block[c], cur_order[c]) /\ x \in Nat
           /\ l \in Orders => Disjoint(x, l, u, k) /\ Disjoint(x, l, b, k)
      /\ Disjoint(u, k, b, k)
  BY <1>2, <1>5, OrderFacts DEF Disjoint, b
<1>9. u \notin FreeSet(k)
  <2> SUFFICES ASSUME u \in FreeSet(k) PROVE FALSE
    OBVIOUS
  <2>1. Disjoint(u, k, u, k)
    BY <1>1, <1>2, <1>5, <1>8 DEF IInv, NoOverlap, FreeFromHeld
  <2> QED
    BY <2>1, <1>2, <1>5 DEF Disjoint
<1>10. /\ free_lists' \in [Zones -> [Orders -> Seq(PageIndex)]]
       /\ free_counts' \in [Zones -> [Orders -> Int]]
       /\ \A l \in Orders :
            FreeSet(l)' = IF l = k THEN FreeSet(l) \cup {u} ELSE FreeSet(l)
       /\ ZonesEmpty' /\ LinkedOnce'
  BY <1>1, <1>2, <1>3, <1>7, <1>9, AddFreeEffect
<1>11. TypeOK'
  BY <1>1, <1>2, <1>3, <1>4, <1>10 DEF TypeOK
<1>12. /\ Holding' = Holding /\ cur_order'[c] = k
       /\ \A d \in Holding : block'[d] = block[d]
       /\ \A d \in Holding \ {c} : cur_order'[d] = cur_order[d]
  BY <1>1, <1>3, <1>4 DEF Holding, TypeOK
<1>13. LockInv'
  BY <1>4 DEF IInv, LockInv, InCritical
<1>14. HeldInv'
  BY <1>1, <1>2, <1>4, <1>12 DEF IInv, HeldInv
<1>15. BootInv'
  <2>1. Ready
    BY <1>1 DEF IInv, BootInv
  <2>2. u + OrderPages[k] <= carved
    BY <2>1, <1>6 DEF Ready, IsBlock
  <2> QED
    BY <2>1, <2>2, <1>2, <1>4, <1>10 DEF IInv, BootInv, Ready
<1>16. Aligned'
  BY <1>2, <1>4, <1>6, <1>8, <1>10, <1>12, ZenonT(30) DEF IInv, Aligned
<1>17. NoOverlap'
  <2>0. /\ \A l \in Orders : \A x \in FreeSet(l) : x \in Nat
        /\ \A x \in owned : x[1] \in Nat /\ x[2] \in Orders
        /\ \A d \in Holding : block[d] \in Nat /\ cur_order[d] \in Orders
    BY <1>1, FreeSetType DEF TypeOK, Holding
  <2>1. \A l \in Orders : \A x \in FreeSet(l) :
          Disjoint(x, l, u, k) /\ Disjoint(x, l, b, k)
    BY <2>0, <1>1, <1>8 DEF IInv, NoOverlap, FreeFromHeld
  <2>2. \A x \in owned :
          Disjoint(x[1], x[2], u, k) /\ Disjoint(x[1], x[2], b, k)
    BY <2>0, <1>1, <1>8 DEF IInv, NoOverlap, OwnedFromHeld
  <2>3. \A d \in Holding \ {c} :
          /\ Disjoint(block[d], cur_order[d], u, k)
          /\ Disjoint(block[d], cur_order[d], b, k)
    BY <2>0, <1>1, <1>8 DEF IInv, NoOverlap, HeldApart
  <2>4. FreeApart'
    BY <2>1, <1>10, DisjointSym DEF IInv, NoOverlap, FreeApart
  <2>5. OwnedApart'
    BY <1>4 DEF IInv, NoOverlap, OwnedApart
  <2>6. HeldApart'
    BY <2>3, <1>8, <1>12, DisjointSym DEF IInv, NoOverlap, HeldApart
  <2>7. FreeFromOwned'
    BY <2>2, <1>4, <1>10, DisjointSym DEF IInv, NoOverlap, FreeFromOwned
  <2>8. FreeFromHeld'
    <3> SUFFICES ASSUME NEW l \in Orders, NEW x \in FreeSet(l)',
                        NEW d \in Holding'
                 PROVE  Disjoint(x, l, block'[d], cur_order'[d])
      BY DEF FreeFromHeld
    <3>1. CASE d = c
      BY <3>1, <2>1, <1>1, <1>8, <1>10, <1>12
    <3>2. CASE d # c
      BY <3>2, <2>3, <1>10, <1>12, DisjointSym, ZenonT(30)
         DEF IInv, NoOverlap, FreeFromHeld
    <3> QED
      BY <3>1, <3>2
  <2>9. OwnedFromHeld'
    BY <2>2, <1>4, <1>8, <1>12 DEF IInv, NoOverlap, OwnedFromHeld
  <2> QED
    BY <1>10, <2>4, <2>5, <2>6, <2>7, <2>8, <2>9 DEF NoOverlap
<1>18. NoLeak'
  <2> SUFFICES ASSUME NEW p \in 0..(carved - 1)
               PROVE  \/ \E l \in Orders : \E x \in FreeSet(l)' :
                           p \in BlockPages(x, l)
                      \/ \E x \in owned : p \in BlockPages(x[1], x[2])
                      \/ \E d \in Holding' :
                           p \in BlockPages(block'[d], cur_order'[d])
    BY <1>4 DEF NoLeak
  <2>1. \/ \E l \in Orders : \E x \in FreeSet(l) : p \in BlockPages(x, l)
        \/ \E x \in owned : p \in BlockPages(x[1], x[2])
        \/ \E d \in Holding : p \in BlockPages(block[d], cur_order[d])
    BY DEF IInv, NoLeak
  <2>2. p \in BlockPages(block[c], cur_order[c]) =>
          p \in BlockPages(b, k) \/ p \in BlockPages(u, k)
    BY <1>2, <1>5, <1>8 DEF BlockPages
  <2> QED
    BY <2>1, <2>2, <1>1, <1>2, <1>8, <1>10, <1>12
<1> QED
  BY <1>10, <1>11, <1>13, <1>14, <1>15, <1>16, <1>17, <1>18 DEF IInv

\* From the hands of the allocating CPU to its caller.
LEMMA AllocFinishStep ==
  ASSUME IInv, NEW c \in CPUs, AllocFinish(c)
  PROVE  IInv'
<1> DEFINE x == <<block[c], order[c]>>
<1>1. /\ TypeOK /\ pc[c] = "alloc_split" /\ c \in Holding
      /\ cur_order[c] = order[c] /\ zone[c] = BUDDY_ZONE_UNMOVABLE
      /\ lock[zone[c]] = c
  BY DEF AllocFinish, IInv, HeldInv, Holding, LockInv, InCritical
<1>2. /\ pc' = [pc EXCEPT ![c] = "allocated"]
      /\ lock' = [lock EXCEPT ![zone[c]] = NoCPU]
      /\ bitmap' \in {bitmap, bitmap \cup {block[c]}}
      /\ free_pages' =
           [free_pages EXCEPT ![zone[c]] = @ - OrderPages[order[c]]]
      /\ owned' = owned \cup {x}
  BY DEF AllocFinish, Goto, spinlock_release, set_allocation_bit
<1>3. UNCHANGED <<free_lists, free_counts, carved, order, zone, cur_order,
                  block>>
  BY DEF AllocFinish, callVars
<1>4. x \in PageIndex \X Orders /\ x[1] = block[c] /\ x[2] = cur_order[c]
  BY <1>1 DEF TypeOK
<1> HIDE DEF x
<1>5. TypeOK'
  <2>1. free_pages' \in [Zones -> Int]
    BY <1>1, <1>2, OrderFacts DEF TypeOK
  <2>2. owned' \subseteq PageIndex \X Orders /\ bitmap' \subseteq PageIndex
    BY <1>1, <1>2, <1>4 DEF TypeOK
  <2> QED
    BY <2>1, <2>2, <1>1, <1>2, <1>3 DEF TypeOK, Labels
<1>6. Holding' = Holding \ {c}
  BY <1>1, <1>2 DEF Holding, TypeOK
<1>7. \A l \in Orders : FreeSet(l)' = FreeSet(l)
  BY <1>3 DEF FreeSet
<1>8. LockInv'
  BY <1>1, <1>2, <1>3 DEF IInv, LockInv, InCritical, TypeOK
<1>9. HeldInv' /\ ZonesEmpty'
  BY <1>1, <1>2, <1>3, <1>6 DEF IInv, HeldInv, ZonesEmpty, Holding, TypeOK
<1>10. BootInv'
  BY <1>1, <1>3, <1>7 DEF IInv, BootInv, Ready
<1>11. Aligned'
  BY <1>1, <1>2, <1>3, <1>4, <1>6, <1>7 DEF IInv, Aligned
<1>12. NoOverlap'
  <2>1. LinkedOnce' /\ FreeApart'
    BY <1>3, <1>7 DEF IInv, NoOverlap, LinkedOnce, FreeApart
  <2>2. HeldApart' /\ FreeFromHeld'
    BY <1>3, <1>6, <1>7 DEF IInv, NoOverlap, HeldApart, FreeFromHeld
  <2>3. FreeFromOwned'
    BY <1>1, <1>2, <1>4, <1>7
       DEF IInv, NoOverlap, FreeFromOwned, FreeFromHeld
  <2>4. OwnedApart'
    BY <1>1, <1>2, <1>4, DisjointSym
       DEF IInv, NoOverlap, OwnedApart, OwnedFromHeld
  <2>5. OwnedFromHeld'
    BY <1>1, <1>2, <1>3, <1>4, <1>6
       DEF IInv, NoOverlap, OwnedFromHeld, HeldApart
  <2> QED
    BY <2>1, <2>2, <2>3, <2>4, <2>5 DEF NoOverlap
<1>13. NoLeak'
  BY <1>1, <1>2, <1>3, <1>4, <1>6, <1>7 DEF IInv, NoLeak
<1> QED
  BY <1>5, <1>8, <1>9, <1>10, <1>11, <1>12, <1>13 DEF IInv

\* From a caller into the hands of the CPU that frees it.
LEMMA FreeCallStep ==
  ASSUME IInv, NEW c \in CPUs, NEW b \in PageIndex, NEW k \in Orders,
         FreeCall(c, b, k)
  PROVE  IInv'
<1> DEFINE x == <<b, k>>
<1>1. TypeOK /\ pc[c] = "idle" /\ x \in owned /\ Ready
  BY DEF FreeCall, IInv
<1>2. b \in Nat
  BY <1>1, FreeSetType
<1>3. /\ pc' = [pc EXCEPT ![c] = "free_lock"]
      /\ owned' = owned \ {x}
      /\ order' = [order EXCEPT ![c] = k]
      /\ zone' = [zone EXCEPT ![c] = BUDDY_ZONE_UNMOVABLE]
      /\ cur_order' = [cur_order EXCEPT ![c] = k]
      /\ block' = [block EXCEPT ![c] = b]
  BY <1>2, AddressRoundTrip DEF FreeCall, Goto
<1>4. UNCHANGED <<free_lists, free_counts, free_pages, bitmap, lock, carved>>
  BY DEF FreeCall, zoneVars
<1>5. x[1] = b /\ x[2] = k
  OBVIOUS
<1> HIDE DEF x
<1>6. TypeOK'
  BY <1>1, <1>3, <1>4, ZoneFacts DEF TypeOK, Labels
<1>7. /\ c \notin Holding /\ Holding' = Holding \cup {c}
      /\ block'[c] = b /\ cur_order'[c] = k
      /\ \A d \in Holding : block'[d] = block[d] /\ cur_order'[d] = cur_order[d]
  BY <1>1, <1>3 DEF Holding, TypeOK
<1>8. \A l \in Orders : FreeSet(l)' = FreeSet(l)
  BY <1>4 DEF FreeSet
<1>9. LockInv'
  BY <1>1, <1>3, <1>4 DEF IInv, LockInv, InCritical, TypeOK
<1>10. HeldInv' /\ ZonesEmpty'
  <2>1. k >= k
    BY OrderAssumption DEF Orders
  <2>2. HeldInv'
    BY <2>1, <1>1, <1>3, <1>7 DEF IInv, HeldInv, Holding, TypeOK
  <2> QED
    BY <2>2, <1>4 DEF IInv, ZonesEmpty
<1>11. BootInv'
  BY <1>1, <1>4, <1>8 DEF IInv, BootInv, Ready
<1>12. Aligned'
  BY <1>1, <1>3, <1>5, <1>7, <1>8 DEF IInv, Aligned
<1>13. NoOverlap'
  <2>1. LinkedOnce' /\ FreeApart'
    BY <1>4, <1>8 DEF IInv, NoOverlap, LinkedOnce, FreeApart
  <2>2. OwnedApart' /\ FreeFromOwned'
    BY <1>3, <1>8 DEF IInv, NoOverlap, OwnedApart, FreeFromOwned
  <2>3. HeldApart'
    BY <1>1, <1>5, <1>7, DisjointSym
       DEF IInv, NoOverlap, HeldApart, OwnedFromHeld
  <2>4. FreeFromHeld'
    BY <1>1, <1>5, <1>7, <1>8
       DEF IInv, NoOverlap, FreeFromHeld, FreeFromOwned
  <2>5. OwnedFromHeld'
    BY <1>1, <1>3, <1>5, <1>7
       DEF IInv, NoOverlap, OwnedFromHeld, OwnedApart
  <2> QED
    BY <2>1, <2>2, <2>3, <2>4, <2>5 DEF NoOverlap
<1>14. NoLeak'
  BY <1>1, <1>3, <1>4, <1>5, <1>7, <1>8 DEF IInv, NoLeak
<1> QED
  BY <1>6, <1>9, <1>10, <1>11, <1>12, <1>13, <1>14 DEF IInv

\* An interval apart from two adjacent blocks of n pages is apart from both
\* together.
LEMMA JoinApart ==
  ASSUME NEW x \in Nat, NEW w \in Nat \ {0}, NEW b \in Nat, NEW n \in Nat \ {0},
         x + w <= b \/ b + n <= x,
         x + w <= b + n \/ (b + n) + n <= x
  PROVE  x + w <= b \/ b + 2 * n <= x
OBVIOUS

\* The buddy joins the block in hand.
LEMMA FreeMergeStep ==
  ASSUME IInv, NEW c \in CPUs, FreeMerge(c)
  PROVE  IInv'
<1> DEFINE k == cur_order[c]
           b == block[c]
           d == Buddy(b, k)
           m == IF b > d THEN d ELSE b
<1>1. /\ TypeOK /\ ZonesEmpty /\ LinkedOnce /\ pc[c] = "free_merge"
      /\ c \in Holding /\ zone[c] = BUDDY_ZONE_UNMOVABLE
      /\ k >= order[c] /\ IsBlock(b, k)
      /\ k < BUDDY_MAX_ORDER /\ d \in FreeSet(k)
  BY DEF FreeMerge, MergeGoesOn, IInv, NoOverlap, HeldInv, Holding, Aligned,
     FreeSet
<1>2. /\ RemoveFree(BUDDY_ZONE_UNMOVABLE, k, d)
      /\ block' = [block EXCEPT ![c] = m]
      /\ cur_order' = [cur_order EXCEPT ![c] = k + 1]
  BY <1>1 DEF FreeMerge
<1>3. UNCHANGED <<free_pages, bitmap, lock, carved, pc, order, zone, owned>>
  BY DEF FreeMerge
<1>4. /\ k \in Orders /\ OrderPages[k] \in Nat \ {0}
      /\ k + 1 \in Orders /\ OrderPages[k + 1] = 2 * OrderPages[k]
  BY <1>1, OrderFacts DEF IsBlock
<1>5. IsBlock(d, k)
  BY <1>1, <1>4 DEF IInv, Aligned
<1>6. /\ d = b + OrderPages[k] \/ d = b - OrderPages[k]
      /\ d > b => b % (2 * OrderPages[k]) = 0
      /\ d < b => d % (2 * OrderPages[k]) = 0
      /\ b \in Nat /\ d \in Nat
  <2>1. b \in Nat /\ b % OrderPages[k] = 0
    BY <1>1 DEF IsBlock
  <2> HIDE DEF k, b
  <2> QED
    BY <2>1, <1>4, BuddyFacts
<1>7. block[c] = b /\ cur_order[c] = k /\ (m = IF b > d THEN d ELSE b)
  OBVIOUS
<1>8. k \in Nat /\ order[c] \in Nat
  BY <1>1, <1>4, OrderAssumption DEF TypeOK, Orders
<1> HIDE DEF k, b, d, m
<1>9. IsBlock(m, k + 1)
  BY <1>1, <1>4, <1>5, <1>6, <1>7, TotalPages DEF IsBlock
<1>10. m \in PageIndex /\ m \in Nat
  BY <1>9, BlockInRegion DEF IsBlock
<1>11. \A x, l : x \in Nat /\ l \in Orders
                 /\ Disjoint(x, l, b, k) /\ Disjoint(x, l, d, k)
                   => Disjoint(x, l, m, k + 1)
  <2> SUFFICES ASSUME NEW x \in Nat, NEW l \in Orders,
                      Disjoint(x, l, b, k), Disjoint(x, l, d, k)
               PROVE  Disjoint(x, l, m, k + 1)
    OBVIOUS
  <2>1. OrderPages[l] \in Nat \ {0}
    BY OrderFacts
  <2>2. CASE d = b + OrderPages[k]
    <3>1. m = b
      BY <2>2, <1>4, <1>6, <1>7
    <3>2. /\ x + OrderPages[l] <= b \/ b + OrderPages[k] <= x
          /\ \/ x + OrderPages[l] <= b + OrderPages[k]
             \/ (b + OrderPages[k]) + OrderPages[k] <= x
      BY <2>2 DEF Disjoint
    <3>3. x + OrderPages[l] <= b \/ b + 2 * OrderPages[k] <= x
      BY <2>1, <3>2, <1>4, <1>6, JoinApart
    <3> QED
      BY <3>1, <3>3, <1>4 DEF Disjoint
  <2>3. CASE d = b - OrderPages[k]
    <3>1. m = d
      BY <2>3, <1>4, <1>6, <1>7
    <3>2. b = d + OrderPages[k]
      BY <2>3, <1>4, <1>6
    <3>3. /\ x + OrderPages[l] <= d \/ d + OrderPages[k] <= x
          /\ \/ x + OrderPages[l] <= d + OrderPages[k]
             \/ (d + OrderPages[k]) + OrderPages[k] <= x
      BY <3>2 DEF Disjoint
    <3>4. x + OrderPages[l] <= d \/ d + 2 * OrderPages[k] <= x
      BY <2>1, <3>3, <1>4, <1>6, JoinApart
    <3> QED
      BY <3>1, <3>4, <1>4 DEF Disjoint
  <2> QED
    BY <2>2, <2>3, <1>6
<1>12. /\ free_lists' \in [Zones -> [Orders -> Seq(PageIndex)]]
       /\ free_counts' \in [Zones -> [Orders -> Int]]
       /\ \A l \in Orders :
            FreeSet(l)' = IF l = k THEN FreeSet(l) \ {d} ELSE FreeSet(l)
       /\ ZonesEmpty' /\ LinkedOnce'
  BY <1>1, <1>2, <1>4, RemoveFreeEffect
<1>13. TypeOK'
  BY <1>1, <1>2, <1>3, <1>4, <1>10, <1>12 DEF TypeOK
<1>14. /\ Holding' = Holding /\ block'[c] = m /\ cur_order'[c] = k + 1
       /\ \A e \in Holding \ {c} :
            block'[e] = block[e] /\ cur_order'[e] = cur_order[e]
  BY <1>1, <1>2, <1>3 DEF Holding, TypeOK
<1>15. LockInv'
  BY <1>3 DEF IInv, LockInv, InCritical
<1>16. HeldInv'
  BY <1>1, <1>3, <1>8, <1>14 DEF IInv, HeldInv
<1>17. BootInv'
  BY <1>1, <1>3, <1>12 DEF IInv, BootInv, Ready
<1>18. Aligned'
  BY <1>3, <1>9, <1>12, <1>14 DEF IInv, Aligned
<1>19. NoOverlap'
  <2>0. /\ \A l \in Orders : \A x \in FreeSet(l) : x \in Nat
        /\ \A x \in owned : x[1] \in Nat /\ x[2] \in Orders
        /\ \A e \in Holding : block[e] \in Nat /\ cur_order[e] \in Orders
    BY <1>1, FreeSetType DEF TypeOK, Holding
  <2>1. \A l \in Orders : \A x \in FreeSet(l) : l # k \/ x # d =>
          Disjoint(x, l, m, k + 1)
    <3> SUFFICES ASSUME NEW l \in Orders, NEW x \in FreeSet(l), l # k \/ x # d
                 PROVE  Disjoint(x, l, m, k + 1)
      OBVIOUS
    <3>1. Disjoint(x, l, b, k)
      BY <1>1, <1>7 DEF IInv, NoOverlap, FreeFromHeld
    <3>2. Disjoint(x, l, d, k)
      BY <1>1, <1>4 DEF IInv, NoOverlap, FreeApart
    <3> QED
      BY <2>0, <3>1, <3>2, <1>11
  <2>2. \A x \in owned : Disjoint(x[1], x[2], m, k + 1)
    <3> SUFFICES ASSUME NEW x \in owned PROVE Disjoint(x[1], x[2], m, k + 1)
      OBVIOUS
    <3>1. Disjoint(x[1], x[2], b, k)
      BY <1>1, <1>7 DEF IInv, NoOverlap, OwnedFromHeld
    <3>2. Disjoint(x[1], x[2], d, k)
      BY <1>1, <1>4, DisjointSym DEF IInv, NoOverlap, FreeFromOwned
    <3> QED
      BY <2>0, <3>1, <3>2, <1>11
  <2>3. \A e \in Holding \ {c} : Disjoint(block[e], cur_order[e], m, k + 1)
    <3> SUFFICES ASSUME NEW e \in Holding \ {c}
                 PROVE  Disjoint(block[e], cur_order[e], m, k + 1)
      OBVIOUS
    <3>1. Disjoint(block[e], cur_order[e], b, k)
      BY <1>1, <1>7 DEF IInv, NoOverlap, HeldApart
    <3>2. Disjoint(block[e], cur_order[e], d, k)
      BY <1>1, <1>4, DisjointSym DEF IInv, NoOverlap, FreeFromHeld
    <3> QED
      BY <2>0, <3>1, <3>2, <1>11
  <2>4. FreeApart'
    BY <1>12 DEF IInv, NoOverlap, FreeApart
  <2>5. OwnedApart' /\ FreeFromOwned'
    BY <1>3, <1>12 DEF IInv, NoOverlap, OwnedApart, FreeFromOwned
  <2>6. HeldApart'
    BY <2>3, <1>14, DisjointSym DEF IInv, NoOverlap, HeldApart
  <2>7. FreeFromHeld'
    BY <2>1, <1>12, <1>14 DEF IInv, NoOverlap, FreeFromHeld
  <2>8. OwnedFromHeld'
    BY <2>2, <1>3, <1>14 DEF IInv, NoOverlap, OwnedFromHeld
  <2> QED
    BY <1>12, <2>4, <2>5, <2>6, <2>7, <2>8 DEF NoOverlap
<1>20. NoLeak'
  <2> SUFFICES ASSUME NEW p \in 0..(carved - 1)
               PROVE  \/ \E l \in Orders : \E x \in FreeSet(l)' :
                           p \in BlockPages(x, l)
                      \/ \E x \in owned : p \in BlockPages(x[1], x[2])
                      \/ \E e \in Holding' :
                           p \in BlockPages(block'[e], cur_order'[e])
    BY <1>3 DEF NoLeak
  <2>1. \/ \E l \in Orders : \E x \in FreeSet(l) : p \in BlockPages(x, l)
        \/ \E x \in owned : p \in BlockPages(x[1], x[2])
        \/ \E e \in Holding : p \in BlockPages(block[e], cur_order[e])
    BY DEF IInv, NoLeak
  <2>2. p \in BlockPages(b, k) \/ p \in BlockPages(d, k) =>
          p \in BlockPages(m, k + 1)
    BY <1>4, <1>6, <1>7 DEF BlockPages
  <2> QED
    BY <2>1, <2>2, <1>1, <1>4, <1>7, <1>12, <1>14
<1> QED
  BY <1>12, <1>13, <1>15, <1>16, <1>17, <1>18, <1>19, <1>20 DEF IInv

\* From the hands of the freeing CPU onto a free list.
LEMMA FreeFinishStep ==
  ASSUME IInv, NEW c \in CPUs, FreeFinish(c)
  PROVE  IInv'
<1> DEFINE k == cur_order[c]
           b == block[c]
<1>1. /\ TypeOK /\ ZonesEmpty /\ LinkedOnce /\ pc[c] = "free_merge"
      /\ c \in Holding /\ zone[c] = BUDDY_ZONE_UNMOVABLE
      /\ IsBlock(b, k) /\ lock[zone[c]] = c /\ Ready
  BY DEF FreeFinish, IInv, NoOverlap, HeldInv, Holding, Aligned, LockInv,
     InCritical, BootInv
<1>2. /\ AddFree(BUDDY_ZONE_UNMOVABLE, k, b)
      /\ free_pages' =
           [free_pages EXCEPT ![zone[c]] = @ + OrderPages[order[c]]]
      /\ lock' = [lock EXCEPT ![zone[c]] = NoCPU]
      /\ pc' = [pc EXCEPT ![c] = "idle"]
      /\ order' = [order EXCEPT ![c] = 0]
      /\ cur_order' = [cur_order EXCEPT ![c] = 0]
      /\ block' = [block EXCEPT ![c] = 0]
  BY <1>1 DEF FreeFinish, Goto, spinlock_release
<1>3. UNCHANGED <<bitmap, carved, zone, owned>>
  BY DEF FreeFinish
<1>4. k \in Orders /\ b \in PageIndex /\ OrderPages[k] \in Nat \ {0} /\ b \in Nat
  BY <1>1, BlockInRegion, OrderFacts DEF IsBlock
<1>5. block[c] = b /\ cur_order[c] = k
  OBVIOUS
<1> HIDE DEF b, k
<1>6. b \notin FreeSet(k)
  <2> SUFFICES ASSUME b \in FreeSet(k) PROVE FALSE
    OBVIOUS
  <2>1. Disjoint(b, k, b, k)
    BY <1>1, <1>4, <1>5 DEF IInv, NoOverlap, FreeFromHeld
  <2> QED
    BY <2>1, <1>4 DEF Disjoint
<1>7. /\ free_lists' \in [Zones -> [Orders -> Seq(PageIndex)]]
      /\ free_counts' \in [Zones -> [Orders -> Int]]
      /\ \A l \in Orders :
           FreeSet(l)' = IF l = k THEN FreeSet(l) \cup {b} ELSE FreeSet(l)
      /\ ZonesEmpty' /\ LinkedOnce'
  BY <1>1, <1>2, <1>4, <1>6, AddFreeEffect
<1>8. TypeOK'
  <2>1. 0 \in PageIndex /\ 0 \in Orders
    BY TotalPages, OrderFacts DEF PageIndex
  <2>2. free_pages' \in [Zones -> Int]
    BY <1>1, <1>2, OrderFacts DEF TypeOK
  <2> QED
    BY <2>1, <2>2, <1>1, <1>2, <1>3, <1>7 DEF TypeOK, Labels
<1>9. /\ Holding' = Holding \ {c}
      /\ \A e \in Holding \ {c} :
           block'[e] = block[e] /\ cur_order'[e] = cur_order[e]
  BY <1>1, <1>2 DEF Holding, TypeOK
<1>10. LockInv'
  BY <1>1, <1>2, <1>3 DEF IInv, LockInv, InCritical, TypeOK
<1>11. HeldInv'
  BY <1>1, <1>2, <1>3, <1>9 DEF IInv, HeldInv, Holding, TypeOK
<1>12. BootInv'
  <2>1. b + OrderPages[k] <= carved
    BY <1>1 DEF Ready, IsBlock
  <2> QED
    BY <2>1, <1>1, <1>3, <1>7 DEF IInv, BootInv, Ready
<1>13. Aligned'
  BY <1>1, <1>3, <1>7, <1>9 DEF IInv, Aligned
<1>14. NoOverlap'
  <2>1. FreeApart'
    <3>1. \A l \in Orders : \A x \in FreeSet(l) :
            Disjoint(x, l, b, k) /\ Disjoint(b, k, x, l)
      BY <1>1, <1>5, DisjointSym DEF IInv, NoOverlap, FreeFromHeld
    <3> QED
      BY <3>1, <1>7 DEF IInv, NoOverlap, FreeApart
  <2>2. OwnedApart' /\ HeldApart' /\ OwnedFromHeld'
    BY <1>3, <1>9 DEF IInv, NoOverlap, OwnedApart, HeldApart, OwnedFromHeld
  <2>3. FreeFromOwned'
    BY <1>1, <1>3, <1>5, <1>7, DisjointSym
       DEF IInv, NoOverlap, FreeFromOwned, OwnedFromHeld
  <2>4. FreeFromHeld'
    <3>1. \A e \in Holding \ {c} : Disjoint(b, k, block[e], cur_order[e])
      BY <1>1, <1>5 DEF IInv, NoOverlap, HeldApart
    <3>2. \A l \in Orders : \A x \in FreeSet(l) : \A e \in Holding \ {c} :
            Disjoint(x, l, block[e], cur_order[e])
      BY DEF IInv, NoOverlap, FreeFromHeld
    <3> QED
      BY <3>1, <3>2, <1>7, <1>9 DEF FreeFromHeld
  <2> QED
    BY <1>7, <2>1, <2>2, <2>3, <2>4 DEF NoOverlap
<1>15. NoLeak'
  BY <1>1, <1>3, <1>4, <1>5, <1>7, <1>9, ZenonT(30) DEF IInv, NoLeak
<1> QED
  BY <1>7, <1>8, <1>10, <1>11, <1>12, <1>13, <1>14, <1>15 DEF IInv

-----------------------------------------------------------------------------
(* The theorems *)

\* Every step keeps the invariant.
LEMMA NextInv == IInv /\ [Next]_vars => IInv'
<1> SUFFICES ASSUME IInv, [Next]_vars PROVE IInv'
  OBVIOUS
<1>1. CASE InitCarve
  BY <1>1, CarveStep
<1>2. ASSUME NEW c \in CPUs, Call(c) PROVE IInv'
  <2>0. CallOrders \subseteq Nat /\ 0..BUDDY_ZONE_COUNT \subseteq Nat
    BY OrderAssumption DEF CallOrders, BUDDY_ZONE_COUNT
  <2>1. ASSUME NEW k \in CallOrders, NEW z \in 0..BUDDY_ZONE_COUNT,
               AllocCall(c, k, z)
        PROVE  IInv'
    BY <2>0, <2>1, AllocCallStep
  <2>2. ASSUME NEW k \in CallOrders, NEW flags \in CallFlags,
               AllocFlagsCall(c, k, flags)
        PROVE  IInv'
    <3>1. GfpZone(flags) \in Nat
      BY DEF GfpZone, BUDDY_ZONE_MOVABLE, BUDDY_ZONE_RECLAIMABLE,
         BUDDY_ZONE_UNMOVABLE
    <3>2. AllocCall(c, k, GfpZone(flags))
      BY <2>2 DEF AllocFlagsCall
    <3> QED
      BY <2>0, <3>1, <3>2, AllocCallStep
  <2>3. ASSUME NEW b \in PageIndex, NEW k \in Orders, FreeCall(c, b, k)
        PROVE  IInv'
    BY <2>3, FreeCallStep
  <2>4. ASSUME NEW a \in CallAddresses, NEW k \in CallOrders,
               FreeReject(c, a, k)
        PROVE  IInv'
    BY <2>4, StutterStep DEF FreeReject
  <2> QED
    BY <1>2, <2>1, <2>2, <2>3, <2>4 DEF Call
<1>3. ASSUME NEW c \in CPUs, Step(c) PROVE IInv'
  BY <1>3, AllocAcquireStep, AllocFindStep, AllocFailStep, AllocSplitStep,
     AllocFinishStep, ReturnStep, FreeAcquireStep, FreeMergeStep,
     FreeFinishStep DEF Step
<1>4. CASE UNCHANGED vars
  BY <1>4, StutterStep
<1> QED
  BY <1>1, <1>2, <1>3, <1>4 DEF Next

\* The inductive invariant holds in every reachable state.
THEOREM Invariance == Spec => []IInv
<1>1. Init => IInv
  BY InitInv
<1>2. IInv /\ [Next]_vars => IInv'
  BY NextInv
<1> QED
  BY <1>1, <1>2, PTL DEF Spec

\* The state of buddy.c keeps its types: every list links pages of the region.
THEOREM TypeCorrect == Spec => []TypeOK
<1>1. IInv => TypeOK
  BY DEF IInv
<1> QED
  BY <1>1, Invariance, PTL

\* The zone locks work: no two CPUs are in a critical section of one zone.
THEOREM LocksExclude == Spec => []MutualExclusion
<1>1. IInv => MutualExclusion
  BY DEF IInv, LockInv, MutualExclusion
<1> QED
  BY <1>1, Invariance, PTL

\* buddy_alloc_pages never hands out a page twice, and no list ever links a
\* page a caller holds.
THEOREM BlocksDisjoint == Spec => []NoOverlap
<1>1. IInv => NoOverlap
  BY DEF IInv
<1> QED
  BY <1>1, Invariance, PTL

\* Splitting and merging lose no page.
THEOREM PagesKept == Spec => []NoLeak
<1>1. IInv => NoLeak
  BY DEF IInv
<1> QED
  BY <1>1, Invariance, PTL

\* Every block lies in the region and is aligned to its size.
THEOREM BlocksAligned == Spec => []Aligned
<1>1. IInv => Aligned
  BY DEF IInv
<1> QED
  BY <1>1, Invariance, PTL

-----------------------------------------------------------------------------
(* The accounts: bitmap, counters, statistics, and merging *)

\* The CPU of a step between taking a block off a list, or being about to link
\* one, and the update of free_pages.
Working(c) == pc[c] \in {"alloc_split", "free_merge"}

\* How far free_pages is ahead of the lists meanwhile.
Pending(c) ==
  IF pc[c] = "alloc_split" THEN OrderPages[cur_order[c]]
  ELSE OrderPages[cur_order[c]] - OrderPages[order[c]]

CountsLen ==
  \A z \in Zones, k \in Orders : free_counts[z][k] = Len(free_lists[z][k])

PagesExact ==
  /\ ~Ready => free_pages[BUDDY_ZONE_UNMOVABLE] = total_pages
  /\ Ready =>
       /\ (\A c \in CPUs : ~Working(c)) =>
            free_pages[BUDDY_ZONE_UNMOVABLE] = Cardinality(FreePageSet)
       /\ \A c \in CPUs : Working(c) =>
            free_pages[BUDDY_ZONE_UNMOVABLE] = Cardinality(FreePageSet) + Pending(c)

\* While buddy_init carves, every block is the largest that fits where it is.
Largest(b, k) ==
  \A j \in Orders : j > k => ~(b % OrderPages[j] = 0 /\ b + OrderPages[j] <= total_pages)
CarveInv == ~Ready => \A k \in Orders : \A b \in FreeSet(k) : Largest(b, k)

\* Coalesced, also inside the critical sections.
NoBuddies ==
  \A k \in Orders \ {BUDDY_MAX_ORDER} : \A b \in FreeSet(k) :
    Buddy(b, k) \notin FreeSet(k)

AInv ==
  /\ IInv /\ BitmapExact /\ CountsLen /\ PagesExact /\ CarveInv /\ NoBuddies

-----------------------------------------------------------------------------
(* Who may change the lists *)

\* Other CPUs are untouched by a step of c.
Same(d) ==
  /\ pc'[d] = pc[d] /\ order'[d] = order[d] /\ zone'[d] = zone[d]
  /\ cur_order'[d] = cur_order[d] /\ block'[d] = block[d]

\* With the lock of UNMOVABLE free or in c's hands, no other CPU works on it.
LEMMA NoOther ==
  ASSUME IInv, NEW c, lock[BUDDY_ZONE_UNMOVABLE] \in {c, NoCPU}
  PROVE  \A d \in CPUs : Working(d) => d = c
<1> SUFFICES ASSUME NEW d \in CPUs, Working(d) PROVE d = c
  OBVIOUS
<1>1. d \in Holding /\ InCritical(d)
  BY DEF Working, Holding, InCritical
<1>2. zone[d] = BUDDY_ZONE_UNMOVABLE /\ lock[zone[d]] = d
  BY <1>1 DEF IInv, HeldInv, LockInv
<1> QED
  BY <1>2, CPUAssumption

\* A step that leaves lists, counters and carving alone keeps what concerns
\* them.
LEMMA ListsKept ==
  ASSUME AInv, UNCHANGED <<free_lists, free_counts, carved>>
  PROVE  /\ CountsLen' /\ CarveInv' /\ NoBuddies'
         /\ FreePageSet' = FreePageSet /\ (Ready' <=> Ready)
<1>1. \A k \in Orders : FreeSet(k)' = FreeSet(k)
  BY DEF FreeSet
<1>2. CountsLen' /\ (Ready' <=> Ready)
  BY DEF AInv, CountsLen, Ready
<1>3. CarveInv' /\ NoBuddies'
  BY <1>1, <1>2 DEF AInv, CarveInv, NoBuddies
<1>4. FreePageSet' = FreePageSet
  BY <1>1 DEF FreePageSet
<1> QED
  BY <1>2, <1>3, <1>4

\* Moreover if no CPU starts or ends its work on them.
LEMMA PagesKept0 ==
  ASSUME AInv, UNCHANGED <<free_lists, free_counts, free_pages, carved>>, NEW c,
         \A d \in CPUs \ {c} : Same(d),
         c \in CPUs => ~Working(c) /\ ~Working(c)'
  PROVE  PagesExact'
<1>1. FreePageSet' = FreePageSet /\ (Ready' <=> Ready)
  BY ListsKept
<1>2. \A d \in CPUs : Working(d)' <=> Working(d)
  BY DEF Working, Same
<1>3. \A d \in CPUs : Working(d) => Pending(d)' = Pending(d)
  BY DEF Pending, Same
<1> QED
  BY <1>1, <1>2, <1>3 DEF AInv, PagesExact

-----------------------------------------------------------------------------
(* The bitmap *)

\* The pages that have, or would have, their bit set.
Marked ==
  {x[1] : x \in owned} \cup {block[c] : c \in {d \in CPUs : pc[d] = "free_lock"}}

\* A step that leaves bitmap and Marked alone keeps BitmapExact.
LEMMA BitmapKept ==
  ASSUME AInv, UNCHANGED <<bitmap, owned>>, NEW c,
         \A d \in CPUs \ {c} : Same(d),
         c \in CPUs => pc[c] # "free_lock" /\ pc'[c] # "free_lock"
  PROVE  BitmapExact'
<1>1. {d \in CPUs : pc'[d] = "free_lock"} = {d \in CPUs : pc[d] = "free_lock"}
  BY DEF Same
<1>2. \A d \in {e \in CPUs : pc[e] = "free_lock"} : block'[d] = block[d]
  BY DEF Same
<1>3. {block'[e] : e \in {d \in CPUs : pc'[d] = "free_lock"}} =
      {block[e] : e \in {d \in CPUs : pc[d] = "free_lock"}}
  BY <1>1, <1>2
<1> QED
  BY <1>3 DEF AInv, BitmapExact

-----------------------------------------------------------------------------
(* Counters and sizes *)

\* Linking counts the block.
LEMMA AddCounts ==
  ASSUME TypeOK, CountsLen, NEW k \in Orders, NEW b \in PageIndex,
         AddFree(BUDDY_ZONE_UNMOVABLE, k, b)
  PROVE  CountsLen'
<1> DEFINE z == BUDDY_ZONE_UNMOVABLE
           s == free_lists[z][k]
<1>1. s \in Seq(PageIndex) /\ z \in Zones
  BY ZoneFacts DEF TypeOK
<1>2. Len(list_add(s, b)) = Len(s) + 1
  <2> HIDE DEF s
  <2> QED
    BY <1>1, ListAdd
<1>3. \A y \in Zones, l \in Orders :
        /\ free_lists'[y][l] =
             IF y = z /\ l = k THEN list_add(s, b) ELSE free_lists[y][l]
        /\ free_counts'[y][l] =
             IF y = z /\ l = k THEN free_counts[z][k] + 1 ELSE free_counts[y][l]
  BY <1>1 DEF AddFree, TypeOK
<1> QED
  BY <1>1, <1>2, <1>3 DEF CountsLen

\* Unlinking a linked block uncounts it.
LEMMA RemoveCounts ==
  ASSUME TypeOK, LinkedOnce, CountsLen, NEW k \in Orders, NEW b \in FreeSet(k),
         RemoveFree(BUDDY_ZONE_UNMOVABLE, k, b)
  PROVE  CountsLen'
<1> DEFINE z == BUDDY_ZONE_UNMOVABLE
           s == free_lists[z][k]
<1>1. s \in Seq(PageIndex) /\ z \in Zones /\ IsInjective(s) /\ b \in Range(s)
  BY ZoneFacts DEF TypeOK, LinkedOnce, FreeSet
<1>2. Len(list_remove(s, b)) = Len(s) - 1
  <2> HIDE DEF s
  <2> QED
    BY <1>1, ListRemove
<1>3. \A y \in Zones, l \in Orders :
        /\ free_lists'[y][l] =
             IF y = z /\ l = k THEN list_remove(s, b) ELSE free_lists[y][l]
        /\ free_counts'[y][l] =
             IF y = z /\ l = k THEN free_counts[z][k] - 1 ELSE free_counts[y][l]
  BY <1>1 DEF RemoveFree, TypeOK
<1> QED
  BY <1>1, <1>2, <1>3 DEF CountsLen

\* Page sets are finite.
LEMMA PagesFinite ==
  ASSUME NEW S, S \subseteq PageIndex
  PROVE  IsFiniteSet(S) /\ Cardinality(S) \in Nat
<1>1. IsFiniteSet(PageIndex)
  BY TotalPages, FS_Interval DEF PageIndex
<1> QED
  BY <1>1, FS_Subset, FS_CardinalityType

\* A block adds its size to the pages it is disjoint from.
LEMMA BlockCard ==
  ASSUME NEW b, NEW k, IsBlock(b, k), NEW S, S \subseteq PageIndex,
         S \cap BlockPages(b, k) = {}
  PROVE  Cardinality(S \cup BlockPages(b, k)) = Cardinality(S) + OrderPages[k]
<1>1. b \in Int /\ OrderPages[k] \in Nat \ {0} /\ b + OrderPages[k] - 1 \in Int
  BY OrderFacts DEF IsBlock
<1>2. /\ IsFiniteSet(BlockPages(b, k))
      /\ Cardinality(BlockPages(b, k)) = OrderPages[k]
  <2> DEFINE e == b + OrderPages[k] - 1
  <2>1. e \in Int /\ BlockPages(b, k) = b..e
    BY <1>1 DEF BlockPages
  <2>2. /\ IsFiniteSet(b..e)
        /\ Cardinality(b..e) = IF b > e THEN 0 ELSE e - b + 1
    <3> HIDE DEF e
    <3> QED
      BY <1>1, <2>1, FS_Interval
  <2>3. e - b + 1 = OrderPages[k] /\ ~(b > e)
    BY <1>1
  <2> HIDE DEF e
  <2> QED
    BY <2>1, <2>2, <2>3
<1>3. IsFiniteSet(S) /\ Cardinality(S) \in Nat
  BY PagesFinite
<1>4. Cardinality(S \cup BlockPages(b, k)) =
        Cardinality(S) + Cardinality(BlockPages(b, k))
           - Cardinality(S \cap BlockPages(b, k))
  BY <1>2, <1>3, FS_Union
<1>5. Cardinality(S \cap BlockPages(b, k)) = 0
  BY FS_EmptySet
<1> QED
  BY <1>1, <1>2, <1>3, <1>4, <1>5

\* Disjoint blocks share no page.
LEMMA NoSharedPage ==
  ASSUME NEW b \in Nat, NEW k \in Orders, NEW d \in Nat, NEW l \in Orders,
         Disjoint(b, k, d, l)
  PROVE  BlockPages(b, k) \cap BlockPages(d, l) = {}
BY OrderFacts DEF Disjoint, BlockPages

\* The pages of a block that joins a list are added to the free ones.
LEMMA AddPages ==
  ASSUME TypeOK, NEW b, NEW k, IsBlock(b, k),
         \A l \in Orders :
           FreeSet(l)' = IF l = k THEN FreeSet(l) \cup {b} ELSE FreeSet(l),
         \A l \in Orders : \A d \in FreeSet(l) : Disjoint(d, l, b, k)
  PROVE  Cardinality(FreePageSet') = Cardinality(FreePageSet) + OrderPages[k]
<1>1. k \in Orders /\ b \in Nat /\ BlockPages(b, k) \subseteq PageIndex
  BY OrderFacts, TotalPages DEF IsBlock, BlockPages, PageIndex
<1>2. FreePageSet' = FreePageSet \cup BlockPages(b, k)
  <2>1. \A p \in PageIndex :
          p \in FreePageSet' <=> p \in FreePageSet \cup BlockPages(b, k)
    <3> TAKE p \in PageIndex
    <3>1. p \in FreePageSet' <=>
            \E l \in Orders : \E d \in FreeSet(l)' : p \in BlockPages(d, l)
      BY DEF FreePageSet
    <3>2. p \in FreePageSet <=>
            \E l \in Orders : \E d \in FreeSet(l) : p \in BlockPages(d, l)
      BY DEF FreePageSet
    <3> QED
      BY <1>1, <3>1, <3>2
  <2>2. FreePageSet' \subseteq PageIndex /\ FreePageSet \subseteq PageIndex
    BY DEF FreePageSet
  <2> QED
    BY <1>1, <2>1, <2>2
<1>3. FreePageSet \cap BlockPages(b, k) = {}
  <2>1. \A l \in Orders : \A d \in FreeSet(l) :
          BlockPages(d, l) \cap BlockPages(b, k) = {}
    BY <1>1, FreeSetType, NoSharedPage
  <2> QED
    BY <2>1 DEF FreePageSet
<1>4. FreePageSet \subseteq PageIndex
  BY DEF FreePageSet
<1> QED
  BY <1>2, <1>3, <1>4, BlockCard

\* The pages of a block that leaves its list are no longer free.
LEMMA RemovePages ==
  ASSUME TypeOK, Aligned, FreeApart, NEW k \in Orders, NEW b \in FreeSet(k),
         \A l \in Orders :
           FreeSet(l)' = IF l = k THEN FreeSet(l) \ {b} ELSE FreeSet(l)
  PROVE  Cardinality(FreePageSet) = Cardinality(FreePageSet') + OrderPages[k]
<1>1. IsBlock(b, k)
  BY DEF Aligned
<1>2. b \in Nat /\ BlockPages(b, k) \subseteq PageIndex
  BY <1>1, OrderFacts, TotalPages DEF IsBlock, BlockPages, PageIndex
<1>3. FreePageSet = FreePageSet' \cup BlockPages(b, k)
  <2>1. \A p \in PageIndex :
          p \in FreePageSet <=> p \in FreePageSet' \cup BlockPages(b, k)
    <3> TAKE p \in PageIndex
    <3>1. p \in FreePageSet' <=>
            \E l \in Orders : \E d \in FreeSet(l)' : p \in BlockPages(d, l)
      BY DEF FreePageSet
    <3>2. p \in FreePageSet <=>
            \E l \in Orders : \E d \in FreeSet(l) : p \in BlockPages(d, l)
      BY DEF FreePageSet
    <3> QED
      BY <1>2, <3>1, <3>2
  <2>2. FreePageSet' \subseteq PageIndex /\ FreePageSet \subseteq PageIndex
    BY DEF FreePageSet
  <2> QED
    BY <1>2, <2>1, <2>2
<1>4. FreePageSet' \cap BlockPages(b, k) = {}
  <2>1. \A l \in Orders : \A d \in FreeSet(l)' :
          d \in FreeSet(l) /\ Disjoint(d, l, b, k)
    BY DEF FreeApart
  <2>2. \A l \in Orders : \A d \in FreeSet(l)' :
          BlockPages(d, l) \cap BlockPages(b, k) = {}
    BY <1>2, <2>1, FreeSetType, NoSharedPage
  <2> QED
    BY <2>2 DEF FreePageSet
<1>5. FreePageSet' \subseteq PageIndex
  BY DEF FreePageSet
<1> QED
  BY <1>1, <1>3, <1>4, <1>5, BlockCard

-----------------------------------------------------------------------------
(* Steps that leave the lists alone *)

\* A CPU that neither holds a block before nor after the step, and changes
\* nothing but its own call, disturbs no account.
LEMMA QuietStep ==
  ASSUME AInv, IInv', NEW c \in CPUs, \A d \in CPUs \ {c} : Same(d),
         UNCHANGED <<free_lists, free_counts, free_pages, bitmap, owned, carved>>,
         c \notin Holding, c \notin Holding'
  PROVE  AInv'
<1>1. CountsLen' /\ CarveInv' /\ NoBuddies'
  BY ListsKept
<1>2. /\ ~Working(c) /\ ~Working(c)'
      /\ pc[c] # "free_lock" /\ pc'[c] # "free_lock"
  BY DEF Holding, Working
<1>3. PagesExact'
  BY <1>2, PagesKept0
<1>4. BitmapExact'
  BY <1>2, BitmapKept
<1> QED
  BY <1>1, <1>3, <1>4 DEF AInv

\* A call of buddy_alloc_pages begins.
LEMMA AllocCallA ==
  ASSUME AInv, NEW c \in CPUs, NEW k \in Nat, NEW z \in Nat, AllocCall(c, k, z)
  PROVE  AInv'
<1>1. IInv /\ TypeOK /\ IInv'
  BY AllocCallStep DEF AInv, IInv
<1>2. UNCHANGED <<free_lists, free_counts, free_pages, bitmap, owned, carved>>
  BY DEF AllocCall, zoneVars
<1>3. pc[c] = "idle" /\ pc'[c] \in {"failed", "alloc_lock"}
  BY <1>1 DEF AllocCall, Goto, TypeOK
<1>4. \A d \in CPUs \ {c} : Same(d)
  BY <1>1 DEF AllocCall, Goto, callVars, Same, TypeOK
<1> QED
  BY <1>1, <1>2, <1>3, <1>4, QuietStep DEF Holding

\* The allocating CPU takes the lock.
LEMMA AllocAcquireA ==
  ASSUME AInv, NEW c \in CPUs, AllocAcquire(c)
  PROVE  AInv'
<1>1. IInv /\ TypeOK /\ IInv'
  BY AllocAcquireStep DEF AInv, IInv
<1>2. UNCHANGED <<free_lists, free_counts, free_pages, bitmap, owned, carved>>
  BY DEF AllocAcquire, zoneVars
<1>3. pc[c] = "alloc_lock" /\ pc'[c] = "alloc_find"
  BY <1>1 DEF AllocAcquire, Goto, TypeOK
<1>4. \A d \in CPUs \ {c} : Same(d)
  BY <1>1 DEF AllocAcquire, Goto, callVars, Same, TypeOK
<1> QED
  BY <1>1, <1>2, <1>3, <1>4, QuietStep DEF Holding

\* Out of memory.
LEMMA AllocFailA ==
  ASSUME AInv, NEW c \in CPUs, AllocFail(c)
  PROVE  AInv'
<1>1. IInv /\ TypeOK /\ IInv'
  BY AllocFailStep DEF AInv, IInv
<1>2. UNCHANGED <<free_lists, free_counts, free_pages, bitmap, owned, carved>>
  BY DEF AllocFail, zoneVars
<1>3. pc[c] = "alloc_find" /\ pc'[c] = "failed"
  BY <1>1 DEF AllocFail, Goto, TypeOK
<1>4. \A d \in CPUs \ {c} : Same(d)
  BY <1>1 DEF AllocFail, Goto, callVars, Same, TypeOK
<1> QED
  BY <1>1, <1>2, <1>3, <1>4, QuietStep DEF Holding

\* A call returns.
LEMMA ReturnA ==
  ASSUME AInv, NEW c \in CPUs, Return(c)
  PROVE  AInv'
<1>1. IInv /\ TypeOK /\ IInv'
  BY ReturnStep DEF AInv, IInv
<1>2. UNCHANGED <<free_lists, free_counts, free_pages, bitmap, owned, carved>>
  BY DEF Return, zoneVars
<1>3. pc[c] \in {"allocated", "failed"} /\ pc'[c] = "idle"
  BY <1>1 DEF Return, Goto, TypeOK
<1>4. \A d \in CPUs \ {c} : Same(d)
  BY <1>1 DEF Return, Goto, Same, TypeOK
<1> QED
  BY <1>1, <1>2, <1>3, <1>4, QuietStep DEF Holding

\* Nothing happens.
LEMMA StutterA == AInv /\ UNCHANGED vars => AInv'
<1> SUFFICES ASSUME AInv, UNCHANGED vars PROVE AInv'
  OBVIOUS
<1>1. IInv'
  BY StutterStep DEF AInv
<1>2. UNCHANGED <<free_lists, free_counts, free_pages, bitmap, owned, carved>>
  BY DEF vars
<1>3. \A d \in CPUs : Same(d)
  BY DEF vars, Same
<1>4. CountsLen' /\ CarveInv' /\ NoBuddies'
  BY <1>2, ListsKept
<1>5. PagesExact' /\ BitmapExact'
  BY <1>2, <1>3, CPUAssumption, PagesKept0, BitmapKept
<1> QED
  BY <1>1, <1>4, <1>5 DEF AInv

\* A block on its way from its caller to the lists keeps its bit.
LEMMA FreeCallA ==
  ASSUME AInv, NEW c \in CPUs, NEW b \in PageIndex, NEW k \in Orders,
         FreeCall(c, b, k)
  PROVE  AInv'
<1>1. IInv /\ TypeOK /\ IInv'
  BY FreeCallStep DEF AInv, IInv
<1>2. /\ UNCHANGED <<free_lists, free_counts, free_pages, bitmap, carved>>
      /\ owned' = owned \ {<<b, k>>} /\ <<b, k>> \in owned
  BY DEF FreeCall, zoneVars
<1>3. b \in Nat /\ block'[c] = b
  BY <1>1, FreeSetType, AddressRoundTrip DEF FreeCall, TypeOK
<1>4. pc[c] = "idle" /\ pc'[c] = "free_lock"
  BY <1>1 DEF FreeCall, Goto, TypeOK
<1>5. \A d \in CPUs \ {c} : Same(d)
  BY <1>1 DEF FreeCall, Goto, Same, TypeOK
<1>6. CountsLen' /\ CarveInv' /\ NoBuddies'
  BY <1>2, ListsKept
<1>7. PagesExact'
  BY <1>2, <1>4, <1>5, PagesKept0 DEF Working
<1>8. Marked' = Marked
  <2>1. ASSUME NEW m \in Marked PROVE m \in Marked'
    <3>1. CASE \E x \in owned : m = x[1]
      BY <3>1, <1>2, <1>3, <1>4 DEF Marked
    <3>2. CASE \E d \in CPUs : pc[d] = "free_lock" /\ m = block[d]
      BY <3>2, <1>4, <1>5 DEF Marked, Same
    <3> QED
      BY <3>1, <3>2 DEF Marked
  <2>2. ASSUME NEW m \in Marked' PROVE m \in Marked
    <3>1. CASE \E x \in owned' : m = x[1]
      BY <3>1, <1>2 DEF Marked
    <3>2. CASE \E d \in CPUs : pc'[d] = "free_lock" /\ m = block'[d]
      <4>1. PICK d \in CPUs : pc'[d] = "free_lock" /\ m = block'[d]
        BY <3>2
      <4>2. CASE d = c
        BY <4>1, <4>2, <1>2, <1>3 DEF Marked
      <4>3. CASE d # c
        BY <4>1, <4>3, <1>5 DEF Marked, Same
      <4> QED
        BY <4>2, <4>3
    <3> QED
      BY <3>1, <3>2 DEF Marked
  <2> QED
    BY <2>1, <2>2
<1>9. BitmapExact'
  BY <1>2, <1>8 DEF AInv, BitmapExact, Marked
<1> QED
  BY <1>1, <1>6, <1>7, <1>9 DEF AInv

\* The freeing CPU takes the lock and clears the block's bit.
LEMMA FreeAcquireA ==
  ASSUME AInv, NEW c \in CPUs, FreeAcquire(c)
  PROVE  AInv'
<1>1. IInv /\ TypeOK /\ IInv'
  BY FreeAcquireStep DEF AInv, IInv
<1>2. /\ UNCHANGED <<free_lists, free_counts, free_pages, carved, owned, callVars>>
      /\ bitmap' = bitmap \ {block[c]}
  BY DEF FreeAcquire, zoneVars, clear_allocation_bit
<1>3. pc[c] = "free_lock" /\ pc'[c] = "free_merge"
  BY <1>1 DEF FreeAcquire, Goto, TypeOK
<1>4. \A d \in CPUs \ {c} : Same(d)
  BY <1>1 DEF FreeAcquire, Goto, callVars, Same, TypeOK
<1>5. /\ CountsLen' /\ CarveInv' /\ NoBuddies'
      /\ FreePageSet' = FreePageSet /\ (Ready' <=> Ready)
  BY <1>2, ListsKept
<1>6. /\ c \in Holding /\ zone[c] = BUDDY_ZONE_UNMOVABLE
      /\ cur_order[c] = order[c] /\ lock[BUDDY_ZONE_UNMOVABLE] = NoCPU
  BY <1>1, <1>3 DEF FreeAcquire, spinlock_acquire, Holding, IInv, HeldInv
<1>7. PagesExact'
  <2>1. \A d \in CPUs : ~Working(d)
    <3>1. lock[BUDDY_ZONE_UNMOVABLE] \in {c, NoCPU}
      BY <1>6
    <3>2. \A d \in CPUs : Working(d) => d = c
      BY <1>1, <3>1, NoOther
    <3> QED
      BY <3>2, <1>3 DEF Working
  <2>2. \A d \in CPUs : Working(d)' <=> d = c
    BY <2>1, <1>3, <1>4 DEF Working, Same
  <2>3. Ready /\ free_pages[BUDDY_ZONE_UNMOVABLE] = Cardinality(FreePageSet)
    BY <1>1, <1>3, <2>1 DEF IInv, BootInv, AInv, PagesExact
  <2>4. Pending(c)' = 0
    <3>1. OrderPages[order[c]] \in Nat
      BY <1>1, OrderFacts DEF TypeOK
    <3>2. Pending(c)' = OrderPages[cur_order[c]] - OrderPages[order[c]]
      BY <1>2, <1>3 DEF Pending, callVars
    <3> QED
      BY <1>6, <3>1, <3>2
  <2>5. FreePageSet \subseteq PageIndex
    BY DEF FreePageSet
  <2>6. Cardinality(FreePageSet) \in Nat
    BY <2>5, PagesFinite
  <2> QED
    BY <1>2, <1>5, <2>2, <2>3, <2>4, <2>6 DEF PagesExact
<1>8. Marked' = Marked \ {block[c]}
  <2>1. ASSUME NEW m \in Marked, m # block[c] PROVE m \in Marked'
    <3>1. CASE \E x \in owned : m = x[1]
      BY <3>1, <1>2 DEF Marked
    <3>2. CASE \E d \in CPUs : pc[d] = "free_lock" /\ m = block[d]
      BY <3>2, <2>1, <1>4 DEF Marked, Same
    <3> QED
      BY <3>1, <3>2 DEF Marked
  <2>2. \A x, k, l : x \in Nat /\ k \in Orders /\ l \in Orders => ~Disjoint(x, k, x, l)
    BY OrderFacts DEF Disjoint
  <2>3. block[c] \in Nat /\ cur_order[c] \in Orders
    BY <1>1, FreeSetType DEF TypeOK
  <2>4. ASSUME NEW m \in Marked' PROVE m \in Marked /\ m # block[c]
    <3>1. CASE \E x \in owned : m = x[1]
      <4>1. PICK x \in owned : m = x[1]
        BY <3>1
      <4>2. Disjoint(x[1], x[2], block[c], cur_order[c])
        BY <1>1, <1>6 DEF IInv, NoOverlap, OwnedFromHeld
      <4>3. x[2] \in Orders
        BY <1>1 DEF TypeOK
      <4> QED
        BY <4>1, <4>2, <4>3, <2>2, <2>3 DEF Marked
    <3>2. CASE \E d \in CPUs : pc'[d] = "free_lock" /\ m = block'[d]
      <4>1. PICK d \in CPUs : pc'[d] = "free_lock" /\ m = block'[d]
        BY <3>2
      <4>2. d # c /\ pc[d] = "free_lock" /\ m = block[d] /\ d \in Holding
        BY <4>1, <1>3, <1>4 DEF Same, Holding
      <4>3. Disjoint(block[d], cur_order[d], block[c], cur_order[c])
        BY <4>2, <1>1, <1>6 DEF IInv, NoOverlap, HeldApart
      <4>4. cur_order[d] \in Orders
        BY <1>1 DEF TypeOK
      <4> QED
        BY <4>2, <4>3, <4>4, <2>2, <2>3 DEF Marked
    <3> QED
      BY <3>1, <3>2, <1>2 DEF Marked
  <2> QED
    BY <2>1, <2>4
<1>9. BitmapExact'
  BY <1>2, <1>8 DEF AInv, BitmapExact, Marked
<1> QED
  BY <1>1, <1>5, <1>7, <1>9 DEF AInv

-----------------------------------------------------------------------------
(* Steps that change the lists *)

\* Linking a block whose buddy is not free leaves no two buddies free.
LEMMA BuddiesAdd ==
  ASSUME Aligned, NoBuddies, NEW b, NEW k, IsBlock(b, k),
         \A l \in Orders :
           FreeSet(l)' = IF l = k THEN FreeSet(l) \cup {b} ELSE FreeSet(l),
         k # BUDDY_MAX_ORDER => Buddy(b, k) \notin FreeSet(k)
  PROVE  NoBuddies'
<1> SUFFICES ASSUME NEW l \in Orders \ {BUDDY_MAX_ORDER}, NEW d \in FreeSet(l)',
                    Buddy(d, l) \in FreeSet(l)'
             PROVE  FALSE
  BY DEF NoBuddies
<1>1. CASE l # k
  BY <1>1 DEF NoBuddies
<1>2. CASE l = k
  <2>1. \A x : IsBlock(x, k) => Buddy(x, k) # x /\ Buddy(Buddy(x, k), k) = x
    BY <1>2, BuddyFacts, OrderFacts DEF IsBlock
  <2>2. CASE d = b
    BY <1>2, <2>1, <2>2
  <2>3. CASE d # b
    <3>1. d \in FreeSet(k) /\ IsBlock(d, k)
      BY <1>2, <2>3 DEF Aligned
    <3>2. Buddy(d, k) = b
      BY <1>2, <3>1 DEF NoBuddies
    <3> QED
      BY <1>2, <2>1, <3>1, <3>2
  <2> QED
    BY <2>2, <2>3
<1> QED
  BY <1>1, <1>2

\* Unlinking a block leaves no two buddies free.
LEMMA BuddiesRemove ==
  ASSUME NoBuddies, NEW b, NEW k,
         \A l \in Orders :
           FreeSet(l)' = IF l = k THEN FreeSet(l) \ {b} ELSE FreeSet(l)
  PROVE  NoBuddies'
BY DEF NoBuddies

\* An iteration of the carving loop: the block before the new one is not its
\* buddy, or it would have been cut larger.
LEMMA CarveA ==
  ASSUME AInv, InitCarve
  PROVE  AInv'
<1>1. IInv /\ IInv' /\ TypeOK
  BY CarveStep DEF AInv, IInv
<1>2. PICK k \in Orders :
        /\ k = 0 \/ Fits(k)
        /\ \A j \in Orders : j > k => ~Fits(j)
        /\ AddFree(BUDDY_ZONE_UNMOVABLE, k, carved)
        /\ carved' = carved + OrderPages[k]
  BY DEF InitCarve
<1>3. carved \in Nat /\ carved < total_pages /\ OrderPages[k] \in Nat \ {0}
  BY <1>1, OrderFacts, TotalPages DEF InitCarve, TypeOK
<1>4. IsBlock(carved, k) /\ carved \in PageIndex
  <2>1. CASE k = 0
    BY <2>1, <1>3, OrderFacts, TotalPages DEF IsBlock, PageIndex
  <2>2. CASE Fits(k)
    BY <2>2, <1>3, TotalPages DEF Fits, IsBlock, PageIndex
  <2> QED
    BY <2>1, <2>2, <1>2
<1>5. UNCHANGED <<free_pages, bitmap, lock, pc, order, zone, cur_order, block,
                  owned>>
  BY DEF InitCarve, callVars
<1>6. ~Ready /\ owned = {} /\ \A c \in CPUs : pc[c] = "idle" /\ pc'[c] = "idle"
  BY <1>1, <1>3, <1>5 DEF Ready, IInv, BootInv
<1>7. \A l \in Orders :
        FreeSet(l)' = IF l = k THEN FreeSet(l) \cup {carved} ELSE FreeSet(l)
  BY <1>1, <1>2, <1>4, AddFreeEffect
<1>8. CountsLen'
  BY <1>1, <1>2, <1>4, AddCounts DEF AInv
<1>9. CarveInv'
  <2>1. Largest(carved, k)
    <3> SUFFICES ASSUME NEW j \in Orders, j > k, carved % OrderPages[j] = 0,
                        carved + OrderPages[j] <= total_pages
                 PROVE  FALSE
      BY DEF Largest
    <3>1. OrderPages[j] \in Nat
      BY OrderFacts
    <3>2. Fits(j)
      BY <1>3, <3>1, TotalPages DEF Fits
    <3> QED
      BY <1>2, <3>2
  <2>2. \A l \in Orders : \A b \in FreeSet(l)' : Largest(b, l)
    BY <2>1, <1>6, <1>7 DEF AInv, CarveInv
  <2> QED
    BY <2>2 DEF CarveInv, Largest
<1>10. NoBuddies'
  <2>1. ASSUME k # BUDDY_MAX_ORDER, Buddy(carved, k) \in FreeSet(k) PROVE FALSE
    <3> DEFINE d == Buddy(carved, k)
    <3>1. d \in Nat /\ d + OrderPages[k] <= carved
      BY <1>1, <2>1, FreeSetType DEF IInv, BootInv
    <3>2. d < carved /\ carved % OrderPages[k] = 0
      BY <1>3, <1>4, <3>1 DEF IsBlock
    <3>3. d = carved - OrderPages[k] /\ d % (2 * OrderPages[k]) = 0
      BY <1>3, <3>1, <3>2, BuddyFacts
    <3>4. k + 1 \in Orders /\ OrderPages[k + 1] = 2 * OrderPages[k] /\ k + 1 > k
      BY <2>1, OrderFacts, OrderAssumption DEF Orders
    <3>5. Largest(d, k)
      BY <1>6, <2>1 DEF AInv, CarveInv
    <3>6. ~(d % OrderPages[k + 1] = 0 /\ d + OrderPages[k + 1] <= total_pages)
      BY <3>4, <3>5 DEF Largest
    <3>7. carved + OrderPages[k] <= total_pages
      BY <1>4 DEF IsBlock
    <3> HIDE DEF d
    <3> QED
      BY <1>3, <3>1, <3>3, <3>4, <3>6, <3>7, TotalPages
  <2>2. Aligned /\ NoBuddies
    BY <1>1 DEF AInv, IInv
  <2> QED
    BY <1>4, <1>7, <2>1, <2>2, BuddiesAdd
<1>11. PagesExact'
  <2>1. free_pages[BUDDY_ZONE_UNMOVABLE] = total_pages
    BY <1>6 DEF AInv, PagesExact
  <2>2. \A c \in CPUs : ~Working(c)'
    BY <1>6 DEF Working
  <2>3. ASSUME Ready' PROVE Cardinality(FreePageSet') = total_pages
    <3>1. carved' = total_pages /\ Holding' = {} /\ owned' = {}
      BY <2>3, <1>5, <1>6 DEF Ready, Holding
    <3>2. \A p \in 0..(carved' - 1) :
            \E l \in Orders : \E b \in FreeSet(l)' : p \in BlockPages(b, l)
      BY <1>1, <3>1 DEF IInv, NoLeak
    <3>3. FreePageSet' = PageIndex
      BY <3>1, <3>2 DEF FreePageSet, PageIndex
    <3>4. Cardinality(PageIndex) = total_pages
      <4> DEFINE e == total_pages - 1
      <4>1. e \in Int /\ PageIndex = 0..e /\ ~(0 > e) /\ e - 0 + 1 = total_pages
        BY TotalPages DEF PageIndex
      <4> HIDE DEF e
      <4> QED
        BY <4>1, FS_Interval
    <3> QED
      BY <3>3, <3>4
  <2> QED
    BY <1>5, <2>1, <2>2, <2>3 DEF PagesExact
<1>12. BitmapExact'
  BY <1>5, CPUAssumption, BitmapKept DEF Same
<1> QED
  BY <1>1, <1>8, <1>9, <1>10, <1>11, <1>12 DEF AInv

\* A block leaves its list for the hands of the allocating CPU.
LEMMA AllocFindA ==
  ASSUME AInv, NEW c \in CPUs, AllocFind(c)
  PROVE  AInv'
<1>1. /\ IInv /\ IInv' /\ TypeOK /\ ZonesEmpty /\ LinkedOnce /\ Aligned
      /\ FreeApart /\ pc[c] = "alloc_find" /\ lock[zone[c]] = c
  BY AllocFindStep DEF AllocFind, AInv, IInv, NoOverlap, LockInv, InCritical
<1>2. PICK k \in Candidates(c) :
        /\ RemoveFree(zone[c], k, Head(free_lists[zone[c]][k]))
        /\ cur_order' = [cur_order EXCEPT ![c] = k]
  BY DEF AllocFind
<1>3. k \in Orders /\ free_lists[zone[c]][k] # <<>>
  BY <1>2 DEF Candidates
<1>4. zone[c] = BUDDY_ZONE_UNMOVABLE
  BY <1>1, <1>3 DEF ZonesEmpty, TypeOK
<1> DEFINE b == Head(free_lists[BUDDY_ZONE_UNMOVABLE][k])
<1>5. b \in FreeSet(k)
  <2>1. free_lists[BUDDY_ZONE_UNMOVABLE][k] \in Seq(PageIndex)
    BY <1>1, <1>3, ZoneFacts DEF TypeOK
  <2> QED
    BY <2>1, <1>3, <1>4, HeadOnList DEF FreeSet
<1>6. RemoveFree(BUDDY_ZONE_UNMOVABLE, k, b)
  BY <1>2, <1>4
<1> HIDE DEF b
<1>7. \A l \in Orders :
        FreeSet(l)' = IF l = k THEN FreeSet(l) \ {b} ELSE FreeSet(l)
  BY <1>1, <1>3, <1>5, <1>6, RemoveFreeEffect
<1>8. UNCHANGED <<free_pages, bitmap, lock, carved, order, zone, owned>>
  BY DEF AllocFind
<1>9. pc' = [pc EXCEPT ![c] = "alloc_split"] /\ \A d \in CPUs \ {c} : Same(d)
  BY <1>1 DEF AllocFind, Goto, Same, TypeOK
<1>10. CountsLen'
  BY <1>1, <1>3, <1>5, <1>6, RemoveCounts DEF AInv
<1>11. Ready /\ Ready' /\ CarveInv'
  BY <1>1, <1>8 DEF IInv, BootInv, Ready, CarveInv
<1>12. NoBuddies'
  BY <1>7, BuddiesRemove DEF AInv
<1>13. PagesExact'
  <2>1. \A d \in CPUs : ~Working(d)
    <3>1. lock[BUDDY_ZONE_UNMOVABLE] \in {c, NoCPU}
      BY <1>1, <1>4
    <3>2. \A d \in CPUs : Working(d) => d = c
      BY <1>1, <3>1, NoOther
    <3> QED
      BY <3>2, <1>1 DEF Working
  <2>2. \A d \in CPUs : Working(d)' <=> d = c
    BY <2>1, <1>1, <1>9 DEF Working, Same, TypeOK
  <2>3. free_pages[BUDDY_ZONE_UNMOVABLE] = Cardinality(FreePageSet)
    BY <1>11, <2>1 DEF AInv, PagesExact
  <2>4. Pending(c)' = OrderPages[k]
    BY <1>1, <1>2, <1>9 DEF Pending, TypeOK
  <2>5. Cardinality(FreePageSet) = Cardinality(FreePageSet') + OrderPages[k]
    BY <1>1, <1>3, <1>5, <1>7, RemovePages
  <2> QED
    BY <1>8, <1>11, <2>2, <2>3, <2>4, <2>5 DEF PagesExact
<1>14. BitmapExact'
  <2>1. pc[c] # "free_lock" /\ pc'[c] # "free_lock"
    BY <1>1, <1>9 DEF TypeOK
  <2> QED
    BY <2>1, <1>8, <1>9, BitmapKept
<1> QED
  BY <1>1, <1>10, <1>11, <1>12, <1>13, <1>14 DEF AInv

\* The halves of a block are buddies.
LEMMA HalvesAreBuddies ==
  ASSUME NEW b \in Nat, NEW k \in Orders, b % (2 * OrderPages[k]) = 0
  PROVE  Buddy(b, k) = b + OrderPages[k] /\ Buddy(b + OrderPages[k], k) = b
<1> DEFINE n == OrderPages[k]
           w == 2 * n
<1>1. n \in Nat \ {0} /\ w \in Nat \ {0} /\ b % w = 0
  BY OrderFacts
<1>2. PICK q \in Nat : b = q * w
  <2> HIDE DEF w
  <2> QED
    BY <1>1, AlignedMultiple
<1> DEFINE r == 2 * q
<1>3. r \in Int /\ b = r * n + 0 /\ 0 \in 0..(n - 1) /\ r % 2 = 0
  BY <1>1, <1>2
<1>4. b \div n = r
  <2> HIDE DEF r, n
  <2> QED
    BY <1>1, <1>3, DivUnique
<1>5. Buddy(b, k) = b + OrderPages[k]
  BY <1>3, <1>4 DEF Buddy, FlipBit
<1>6. b % n = 0
  <2> HIDE DEF n
  <2> QED
    BY <1>1, SplitAligned DEF w
<1>7. Buddy(Buddy(b, k), k) = b
  BY <1>6, BuddyFacts
<1> QED
  BY <1>5, <1>7

\* The upper half of the block in hand joins its list: the lower one is not
\* free.
LEMMA AllocSplitA ==
  ASSUME AInv, NEW c \in CPUs, AllocSplit(c)
  PROVE  AInv'
<1> DEFINE k == cur_order[c] - 1
           b == block[c]
           u == block[c] + OrderPages[k]
<1>1. /\ IInv /\ IInv' /\ TypeOK /\ Aligned /\ pc[c] = "alloc_split"
      /\ c \in Holding /\ zone[c] = BUDDY_ZONE_UNMOVABLE
      /\ lock[BUDDY_ZONE_UNMOVABLE] = c
      /\ cur_order[c] > order[c] /\ IsBlock(b, cur_order[c])
  BY AllocSplitStep DEF AllocSplit, AInv, IInv, NoOverlap, HeldInv, Holding,
     Aligned, LockInv, InCritical
<1>2. /\ k \in Orders /\ OrderPages[k] \in Nat \ {0} /\ cur_order[c] = k + 1
      /\ OrderPages[cur_order[c]] = 2 * OrderPages[k] /\ b \in Nat
  <2>1. cur_order[c] \in Orders /\ order[c] \in Orders /\ block[c] \in Nat
    BY <1>1, FreeSetType DEF TypeOK
  <2>2. cur_order[c] \in Nat /\ order[c] \in Nat /\ cur_order[c] > 0
    BY <2>1, <1>1, OrderAssumption DEF Orders
  <2>3. k \in Orders /\ OrderPages[cur_order[c]] = 2 * OrderPages[k]
    BY <2>1, <2>2, OrderFacts
  <2> QED
    BY <2>1, <2>2, <2>3, <1>1, OrderFacts
<1>3. /\ AddFree(BUDDY_ZONE_UNMOVABLE, k, u)
      /\ cur_order' = [cur_order EXCEPT ![c] = k]
  BY <1>1 DEF AllocSplit
<1>4. UNCHANGED <<free_pages, bitmap, lock, carved, pc, order, zone, block,
                  owned>>
  BY DEF AllocSplit
<1>5. u = b + OrderPages[k] /\ b = block[c]
  OBVIOUS
<1> HIDE DEF k, b, u
<1>6. IsBlock(b, k) /\ IsBlock(u, k)
  <2> DEFINE n == OrderPages[k]
  <2>1. b % (2 * n) = 0 /\ b + 2 * n <= total_pages
    BY <1>1, <1>2 DEF IsBlock
  <2>2. n \in Nat \ {0} /\ u = b + n /\ b \in Nat
    BY <1>2, <1>5
  <2>3. n = OrderPages[k] /\ k \in Orders
    BY <1>2
  <2> HIDE DEF n
  <2>4. b % n = 0 /\ (b + n) % n = 0
    BY <2>1, <2>2, SplitAligned
  <2>5. u % n = 0
    BY <2>2, <2>4
  <2>6. b + n <= total_pages /\ u + n <= total_pages /\ u \in Nat
    BY <2>1, <2>2, TotalPages
  <2> QED
    BY <2>2, <2>3, <2>4, <2>5, <2>6 DEF IsBlock
<1>7. u \in PageIndex
  BY <1>6, BlockInRegion
<1>8. \A l \in Orders :
        FreeSet(l)' = IF l = k THEN FreeSet(l) \cup {u} ELSE FreeSet(l)
  BY <1>1, <1>2, <1>3, <1>7, AddFreeEffect
<1>9. \A l \in Orders : \A x \in FreeSet(l) :
        /\ Disjoint(x, l, block[c], cur_order[c])
        /\ Disjoint(x, l, u, k) /\ Disjoint(x, l, b, k)
  <2> SUFFICES ASSUME NEW l \in Orders, NEW x \in FreeSet(l)
               PROVE  /\ Disjoint(x, l, block[c], cur_order[c])
                      /\ Disjoint(x, l, u, k) /\ Disjoint(x, l, b, k)
    OBVIOUS
  <2>1. Disjoint(x, l, block[c], cur_order[c])
    BY <1>1 DEF IInv, NoOverlap, FreeFromHeld
  <2>2. x \in Nat /\ OrderPages[l] \in Nat
    BY <1>1, FreeSetType, OrderFacts
  <2> QED
    BY <2>1, <2>2, <1>2, <1>5 DEF Disjoint
<1>10. CountsLen'
  BY <1>1, <1>2, <1>3, <1>7, AddCounts DEF AInv
<1>11. Ready /\ Ready' /\ CarveInv'
  BY <1>1, <1>4 DEF IInv, BootInv, Ready, CarveInv
<1>12. NoBuddies'
  <2>1. Buddy(u, k) = b
    BY <1>1, <1>2, <1>5, HalvesAreBuddies DEF IsBlock
  <2>2. b \notin FreeSet(k)
    BY <1>2, <1>9 DEF Disjoint
  <2>3. Buddy(u, k) \notin FreeSet(k)
    BY <2>1, <2>2
  <2> QED
    BY <1>1, <1>6, <1>8, <2>3, BuddiesAdd DEF AInv
<1>13. PagesExact'
  <2>1. \A d \in CPUs : Working(d) <=> d = c
    <3>1. lock[BUDDY_ZONE_UNMOVABLE] \in {c, NoCPU}
      BY <1>1
    <3>2. \A d \in CPUs : Working(d) => d = c
      BY <1>1, <3>1, NoOther
    <3> QED
      BY <3>2, <1>1 DEF Working
  <2>2. \A d \in CPUs : Working(d)' <=> d = c
    BY <2>1, <1>4 DEF Working
  <2>3. free_pages[BUDDY_ZONE_UNMOVABLE] =
          Cardinality(FreePageSet) + OrderPages[cur_order[c]]
    BY <1>1, <1>11, <2>1 DEF AInv, PagesExact, Pending
  <2>4. Pending(c)' = OrderPages[k]
    BY <1>1, <1>3, <1>4 DEF Pending, TypeOK
  <2>5. Cardinality(FreePageSet') = Cardinality(FreePageSet) + OrderPages[k]
    BY <1>1, <1>6, <1>8, <1>9, AddPages
  <2>6. FreePageSet \subseteq PageIndex
    BY DEF FreePageSet
  <2>7. Cardinality(FreePageSet) \in Nat
    BY <2>6, PagesFinite
  <2>8. free_pages[BUDDY_ZONE_UNMOVABLE] = Cardinality(FreePageSet') + OrderPages[k]
    BY <1>2, <2>3, <2>5, <2>7
  <2> QED
    BY <1>4, <1>11, <2>2, <2>4, <2>8 DEF PagesExact
<1>14. BitmapExact'
  <2>1. \A d \in CPUs \ {c} : Same(d)
    BY <1>1, <1>3, <1>4 DEF Same, TypeOK
  <2>2. pc[c] # "free_lock" /\ pc'[c] # "free_lock"
    BY <1>1, <1>4
  <2> QED
    BY <2>1, <2>2, <1>4, BitmapKept
<1> QED
  BY <1>1, <1>10, <1>11, <1>12, <1>13, <1>14 DEF AInv

\* The block is marked, accounted for and handed to the caller.
LEMMA AllocFinishA ==
  ASSUME AInv, NEW c \in CPUs, AllocFinish(c)
  PROVE  AInv'
<1>1. /\ IInv /\ IInv' /\ TypeOK /\ pc[c] = "alloc_split"
      /\ c \in Holding /\ zone[c] = BUDDY_ZONE_UNMOVABLE
      /\ lock[BUDDY_ZONE_UNMOVABLE] = c /\ cur_order[c] = order[c]
  BY AllocFinishStep DEF AllocFinish, AInv, IInv, NoOverlap, HeldInv, Holding,
     LockInv, InCritical
<1>2. /\ UNCHANGED <<free_lists, free_counts, carved, order, zone, cur_order,
                     block>>
      /\ owned' = owned \cup {<<block[c], order[c]>>}
      /\ bitmap' = IF block[c] < BitmapBits THEN bitmap \cup {block[c]} ELSE bitmap
  BY DEF AllocFinish, callVars, set_allocation_bit
<1>3. pc' = [pc EXCEPT ![c] = "allocated"] /\ \A d \in CPUs \ {c} : Same(d)
  BY <1>1, <1>2 DEF AllocFinish, Goto, Same, TypeOK
<1>4. free_pages'[BUDDY_ZONE_UNMOVABLE] =
        free_pages[BUDDY_ZONE_UNMOVABLE] - OrderPages[order[c]]
  BY <1>1, ZoneFacts DEF AllocFinish, TypeOK
<1>5. /\ CountsLen' /\ CarveInv' /\ NoBuddies'
      /\ FreePageSet' = FreePageSet /\ (Ready' <=> Ready)
  BY <1>2, ListsKept
<1>6. PagesExact'
  <2>1. Ready
    BY <1>1 DEF IInv, BootInv
  <2>2. \A d \in CPUs : Working(d) => d = c
    <3>1. lock[BUDDY_ZONE_UNMOVABLE] \in {c, NoCPU}
      BY <1>1
    <3> QED
      BY <1>1, <3>1, NoOther
  <2>3. \A d \in CPUs : ~Working(d)'
    BY <2>2, <1>1, <1>3 DEF Working, Same, TypeOK
  <2>4. free_pages[BUDDY_ZONE_UNMOVABLE] =
          Cardinality(FreePageSet) + OrderPages[order[c]]
    BY <1>1, <2>1 DEF AInv, PagesExact, Pending, Working
  <2>5. FreePageSet \subseteq PageIndex
    BY DEF FreePageSet
  <2>6. Cardinality(FreePageSet) \in Nat /\ OrderPages[order[c]] \in Nat
    BY <2>5, <1>1, PagesFinite, OrderFacts DEF TypeOK
  <2>7. free_pages'[BUDDY_ZONE_UNMOVABLE] = Cardinality(FreePageSet)
    BY <1>4, <2>4, <2>6
  <2> QED
    BY <1>5, <2>1, <2>3, <2>7 DEF PagesExact
<1>7. Marked' = Marked \cup {block[c]}
  <2>1. {d \in CPUs : pc'[d] = "free_lock"} = {d \in CPUs : pc[d] = "free_lock"}
    BY <1>1, <1>3 DEF TypeOK
  <2>2. <<block[c], order[c]>>[1] = block[c]
    OBVIOUS
  <2>3. \A m : (\E x \in owned' : m = x[1])
              <=> (\E x \in owned : m = x[1]) \/ m = block[c]
    BY <1>2, <2>2
  <2>4. {x[1] : x \in owned'} = {x[1] : x \in owned} \cup {block[c]}
    BY <2>3
  <2> QED
    BY <2>1, <2>4, <1>2 DEF Marked
<1>8. BitmapExact'
  BY <1>2, <1>7 DEF AInv, BitmapExact, Marked
<1> QED
  BY <1>1, <1>5, <1>6, <1>8 DEF AInv

\* The buddy leaves its list and joins the block in hand.
LEMMA FreeMergeA ==
  ASSUME AInv, NEW c \in CPUs, FreeMerge(c)
  PROVE  AInv'
<1> DEFINE k == cur_order[c]
           d == Buddy(block[c], k)
<1>1. /\ IInv /\ IInv' /\ TypeOK /\ Aligned /\ LinkedOnce /\ FreeApart
      /\ pc[c] = "free_merge" /\ zone[c] = BUDDY_ZONE_UNMOVABLE
      /\ lock[BUDDY_ZONE_UNMOVABLE] = c
      /\ k < BUDDY_MAX_ORDER /\ d \in FreeSet(k)
  BY FreeMergeStep DEF FreeMerge, MergeGoesOn, AInv, IInv, NoOverlap, HeldInv,
     Holding, LockInv, InCritical, FreeSet
<1>2. /\ RemoveFree(BUDDY_ZONE_UNMOVABLE, k, d)
      /\ cur_order' = [cur_order EXCEPT ![c] = k + 1]
  BY <1>1 DEF FreeMerge
<1>3. UNCHANGED <<free_pages, bitmap, lock, carved, pc, order, zone, owned>>
  BY DEF FreeMerge
<1>4. \A e \in CPUs \ {c} : Same(e)
  BY <1>1, <1>3 DEF FreeMerge, Same, TypeOK
<1>5. /\ k \in Orders /\ OrderPages[k] \in Nat \ {0}
      /\ k + 1 \in Orders /\ OrderPages[k + 1] = 2 * OrderPages[k]
      /\ OrderPages[order[c]] \in Nat /\ cur_order[c] = k
  BY <1>1, OrderFacts DEF TypeOK
<1> HIDE DEF k, d
<1>6. \A l \in Orders :
        FreeSet(l)' = IF l = k THEN FreeSet(l) \ {d} ELSE FreeSet(l)
  BY <1>1, <1>2, <1>5, RemoveFreeEffect
<1>7. CountsLen'
  BY <1>1, <1>2, <1>5, RemoveCounts DEF AInv
<1>8. Ready /\ Ready' /\ CarveInv'
  BY <1>1, <1>3 DEF IInv, BootInv, Ready, CarveInv
<1>9. NoBuddies'
  BY <1>6, BuddiesRemove DEF AInv
<1>10. PagesExact'
  <2>1. \A e \in CPUs : Working(e) <=> e = c
    <3>1. lock[BUDDY_ZONE_UNMOVABLE] \in {c, NoCPU}
      BY <1>1
    <3>2. \A e \in CPUs : Working(e) => e = c
      BY <1>1, <3>1, NoOther
    <3> QED
      BY <3>2, <1>1 DEF Working
  <2>2. \A e \in CPUs : Working(e)' <=> e = c
    BY <2>1, <1>3 DEF Working
  <2>3. free_pages[BUDDY_ZONE_UNMOVABLE] =
          Cardinality(FreePageSet) + (OrderPages[k] - OrderPages[order[c]])
    BY <1>1, <1>5, <1>8, <2>1 DEF AInv, PagesExact, Pending
  <2>4. Pending(c)' = OrderPages[k + 1] - OrderPages[order[c]]
    BY <1>1, <1>2, <1>3 DEF Pending, TypeOK
  <2>5. Cardinality(FreePageSet) = Cardinality(FreePageSet') + OrderPages[k]
    BY <1>1, <1>5, <1>6, RemovePages
  <2>6. FreePageSet' \subseteq PageIndex
    BY DEF FreePageSet
  <2>7. Cardinality(FreePageSet') \in Nat
    BY <2>6, PagesFinite
  <2>8. free_pages[BUDDY_ZONE_UNMOVABLE] = Cardinality(FreePageSet') + Pending(c)'
    BY <1>5, <2>3, <2>4, <2>5, <2>7
  <2> QED
    BY <1>3, <1>8, <2>2, <2>8 DEF PagesExact
<1>11. BitmapExact'
  <2>1. pc[c] # "free_lock" /\ pc'[c] # "free_lock"
    BY <1>1, <1>3
  <2> QED
    BY <2>1, <1>3, <1>4, BitmapKept
<1> QED
  BY <1>1, <1>7, <1>8, <1>9, <1>10, <1>11 DEF AInv

\* The checks of the merging loop accept every page of the region.
LEMMA AddressInRegion ==
  ASSUME NEW b \in PageIndex
  PROVE  /\ page_index_to_addr(b) >= memory_start
         /\ page_index_to_addr(b) < memory_start + memory_size
<1> DEFINE a == memory_size + BUDDY_PAGE_SIZE - 1
           n == BUDDY_PAGE_SIZE
           t == a \div n
<1>1. a \in Int /\ n \in Nat \ {0} /\ memory_start \in Nat /\ memory_size \in Nat
  BY MemoryAssumption
<1>2. t \in Int /\ a = n * t + (a % n) /\ a % n \in 0..(n - 1)
  <2> HIDE DEF a, n
  <2> QED
    BY <1>1, DivMod
<1>3. t = total_pages /\ a = memory_size + n - 1
  BY DEF total_pages, bytes_to_pages
<1>4. b \in Nat /\ b <= t - 1
  BY <1>2, <1>3 DEF PageIndex
<1> HIDE DEF t, a
<1>5. n * t <= memory_size + n - 1
  BY <1>1, <1>2, <1>3
<1>6. b * n \in Nat /\ b * n <= (t - 1) * n
  <2> HIDE DEF n
  <2> QED
    BY <1>1, <1>2, <1>4
<1>7. (t - 1) * n = n * t - n
  <2> HIDE DEF n
  <2> QED
    BY <1>1, <1>2
<1>8. b * n < memory_size
  BY <1>1, <1>2, <1>5, <1>6, <1>7
<1> QED
  BY <1>1, <1>6, <1>8 DEF page_index_to_addr

\* When the merging loop ends, the buddy of the block in hand is not free: the
\* bitmap never hides a free buddy from it.
LEMMA MergeEnded ==
  ASSUME AInv, NEW c \in CPUs, pc[c] = "free_merge", ~MergeGoesOn(c),
         cur_order[c] < BUDDY_MAX_ORDER
  PROVE  Buddy(block[c], cur_order[c]) \notin FreeSet(cur_order[c])
<1> DEFINE k == cur_order[c]
           d == Buddy(block[c], k)
<1> SUFFICES ASSUME d \in FreeSet(k) PROVE FALSE
  OBVIOUS
<1>1. /\ TypeOK /\ k \in Orders /\ d \in PageIndex /\ d \in Nat
      /\ zone[c] = BUDDY_ZONE_UNMOVABLE
  BY FreeSetType DEF AInv, IInv, TypeOK, HeldInv, Holding
<1>2. /\ page_index_to_addr(d) >= memory_start
      /\ page_index_to_addr(d) < memory_start + memory_size
  <2> HIDE DEF d
  <2> QED
    BY <1>1, AddressInRegion
<1>3. d \notin bitmap
  <2>0. \A l \in Orders : ~Disjoint(d, k, d, l)
    BY <1>1, OrderFacts DEF Disjoint
  <2> HIDE DEF d, k
  <2>1. \A x \in owned : d # x[1]
    <3> SUFFICES ASSUME NEW x \in owned PROVE d # x[1]
      OBVIOUS
    <3>1. Disjoint(d, k, x[1], x[2]) /\ x[2] \in Orders
      BY <1>1 DEF AInv, IInv, NoOverlap, FreeFromOwned, TypeOK
    <3> QED
      BY <3>1, <2>0
  <2>2. \A e \in CPUs : pc[e] = "free_lock" => d # block[e]
    <3> SUFFICES ASSUME NEW e \in CPUs, pc[e] = "free_lock" PROVE d # block[e]
      OBVIOUS
    <3>1. e \in Holding /\ cur_order[e] \in Orders
      BY <1>1 DEF Holding, TypeOK
    <3>2. Disjoint(d, k, block[e], cur_order[e])
      BY <1>1, <3>1 DEF AInv, IInv, NoOverlap, FreeFromHeld
    <3> QED
      BY <3>1, <3>2, <2>0
  <2> QED
    BY <2>1, <2>2 DEF AInv, BitmapExact
<1> QED
  BY <1>1, <1>2, <1>3 DEF MergeGoesOn, FreeSet

\* The merged block joins its list and the statistics catch up.
LEMMA FreeFinishA ==
  ASSUME AInv, NEW c \in CPUs, FreeFinish(c)
  PROVE  AInv'
<1> DEFINE k == cur_order[c]
           b == block[c]
<1>1. /\ IInv /\ IInv' /\ TypeOK /\ Aligned /\ pc[c] = "free_merge"
      /\ c \in Holding /\ zone[c] = BUDDY_ZONE_UNMOVABLE
      /\ IsBlock(b, k) /\ lock[BUDDY_ZONE_UNMOVABLE] = c /\ Ready
  BY FreeFinishStep DEF FreeFinish, AInv, IInv, NoOverlap, HeldInv, Holding,
     Aligned, LockInv, InCritical, BootInv
<1>2. /\ AddFree(BUDDY_ZONE_UNMOVABLE, k, b)
      /\ free_pages' =
           [free_pages EXCEPT ![zone[c]] = @ + OrderPages[order[c]]]
      /\ pc' = [pc EXCEPT ![c] = "idle"]
  BY <1>1 DEF FreeFinish, Goto
<1>3. UNCHANGED <<bitmap, carved, zone, owned>> /\ \A d \in CPUs \ {c} : Same(d)
  BY <1>1 DEF FreeFinish, Goto, Same, TypeOK
<1>4. /\ k \in Orders /\ b \in PageIndex /\ OrderPages[k] \in Nat \ {0}
      /\ OrderPages[order[c]] \in Nat
  BY <1>1, BlockInRegion, OrderFacts DEF IsBlock, TypeOK
<1>5. block[c] = b /\ cur_order[c] = k
  OBVIOUS
<1>6. k # BUDDY_MAX_ORDER => Buddy(b, k) \notin FreeSet(k)
  <2>1. k # BUDDY_MAX_ORDER => k < BUDDY_MAX_ORDER
    BY <1>4, OrderAssumption DEF Orders
  <2>2. ~MergeGoesOn(c)
    BY DEF FreeFinish
  <2> QED
    BY <1>1, <2>1, <2>2, MergeEnded
<1> HIDE DEF b, k
<1>7. \A l \in Orders :
        FreeSet(l)' = IF l = k THEN FreeSet(l) \cup {b} ELSE FreeSet(l)
  BY <1>1, <1>2, <1>4, AddFreeEffect
<1>8. CountsLen'
  BY <1>1, <1>2, <1>4, AddCounts DEF AInv
<1>9. Ready' /\ CarveInv'
  BY <1>1, <1>3 DEF Ready, CarveInv
<1>10. NoBuddies'
  BY <1>1, <1>6, <1>7, BuddiesAdd DEF AInv
<1>11. PagesExact'
  <2>1. \A d \in CPUs : Working(d) <=> d = c
    <3>1. lock[BUDDY_ZONE_UNMOVABLE] \in {c, NoCPU}
      BY <1>1
    <3>2. \A d \in CPUs : Working(d) => d = c
      BY <1>1, <3>1, NoOther
    <3> QED
      BY <3>2, <1>1 DEF Working
  <2>2. \A d \in CPUs : ~Working(d)'
    BY <2>1, <1>1, <1>2, <1>3 DEF Working, Same, TypeOK
  <2>3. free_pages[BUDDY_ZONE_UNMOVABLE] =
          Cardinality(FreePageSet) + (OrderPages[k] - OrderPages[order[c]])
    BY <1>1, <1>5, <2>1 DEF AInv, PagesExact, Pending
  <2>4. \A l \in Orders : \A x \in FreeSet(l) : Disjoint(x, l, b, k)
    BY <1>1, <1>5 DEF IInv, NoOverlap, FreeFromHeld
  <2>5. Cardinality(FreePageSet') = Cardinality(FreePageSet) + OrderPages[k]
    BY <1>1, <1>7, <2>4, AddPages
  <2>6. FreePageSet \subseteq PageIndex
    BY DEF FreePageSet
  <2>7. Cardinality(FreePageSet) \in Nat
    BY <2>6, PagesFinite
  <2>8. free_pages'[BUDDY_ZONE_UNMOVABLE] =
          free_pages[BUDDY_ZONE_UNMOVABLE] + OrderPages[order[c]]
    BY <1>1, <1>2, ZoneFacts DEF TypeOK
  <2>9. free_pages'[BUDDY_ZONE_UNMOVABLE] = Cardinality(FreePageSet')
    BY <1>4, <2>3, <2>5, <2>7, <2>8
  <2> QED
    BY <1>9, <2>2, <2>9 DEF PagesExact
<1>12. BitmapExact'
  <2>1. pc[c] # "free_lock" /\ pc'[c] # "free_lock"
    BY <1>1, <1>2 DEF TypeOK
  <2> QED
    BY <2>1, <1>3, BitmapKept
<1> QED
  BY <1>1, <1>8, <1>9, <1>10, <1>11, <1>12 DEF AInv

-----------------------------------------------------------------------------
(* The accounts are kept *)

\* The accounts are right before buddy_init carves the first block.
LEMMA InitA == Init => AInv
<1> SUFFICES ASSUME Init PROVE AInv
  OBVIOUS
<1>1. IInv
  BY InitInv
<1>2. \A k \in Orders : FreeSet(k) = {}
  BY ZoneFacts DEF Init, FreeSet, Range
<1>3. BitmapExact
  <2>1. {d \in CPUs : pc[d] = "free_lock"} = {}
    BY DEF Init
  <2>2. owned = {} /\ bitmap = {}
    BY DEF Init
  <2> QED
    BY <2>1, <2>2 DEF BitmapExact
<1>4. CountsLen
  BY DEF Init, CountsLen
<1>5. PagesExact
  BY TotalPages, ZoneFacts DEF Init, PagesExact, Ready
<1>6. CarveInv /\ NoBuddies
  BY <1>2 DEF CarveInv, NoBuddies
<1> QED
  BY <1>1, <1>3, <1>4, <1>5, <1>6 DEF AInv

\* Every step keeps them.
LEMMA NextA == AInv /\ [Next]_vars => AInv'
<1> SUFFICES ASSUME AInv, [Next]_vars PROVE AInv'
  OBVIOUS
<1>1. CASE InitCarve
  BY <1>1, CarveA
<1>2. ASSUME NEW c \in CPUs, Call(c) PROVE AInv'
  <2>0. CallOrders \subseteq Nat /\ 0..BUDDY_ZONE_COUNT \subseteq Nat
    BY OrderAssumption DEF CallOrders, BUDDY_ZONE_COUNT
  <2>1. ASSUME NEW k \in CallOrders, NEW z \in 0..BUDDY_ZONE_COUNT,
               AllocCall(c, k, z)
        PROVE  AInv'
    BY <2>0, <2>1, AllocCallA
  <2>2. ASSUME NEW k \in CallOrders, NEW flags \in CallFlags,
               AllocFlagsCall(c, k, flags)
        PROVE  AInv'
    <3>1. GfpZone(flags) \in Nat
      BY DEF GfpZone, BUDDY_ZONE_MOVABLE, BUDDY_ZONE_RECLAIMABLE,
         BUDDY_ZONE_UNMOVABLE
    <3>2. AllocCall(c, k, GfpZone(flags))
      BY <2>2 DEF AllocFlagsCall
    <3> QED
      BY <2>0, <3>1, <3>2, AllocCallA
  <2>3. ASSUME NEW b \in PageIndex, NEW k \in Orders, FreeCall(c, b, k)
        PROVE  AInv'
    BY <2>3, FreeCallA
  <2>4. ASSUME NEW a \in CallAddresses, NEW k \in CallOrders,
               FreeReject(c, a, k)
        PROVE  AInv'
    BY <2>4, StutterA DEF FreeReject
  <2> QED
    BY <1>2, <2>1, <2>2, <2>3, <2>4 DEF Call
<1>3. ASSUME NEW c \in CPUs, Step(c) PROVE AInv'
  BY <1>3, AllocAcquireA, AllocFindA, AllocFailA, AllocSplitA, AllocFinishA,
     ReturnA, FreeAcquireA, FreeMergeA, FreeFinishA DEF Step
<1>4. CASE UNCHANGED vars
  BY <1>4, StutterA
<1> QED
  BY <1>1, <1>2, <1>3, <1>4 DEF Next

\* Bitmap, counters, statistics and merging state are right in every
\* reachable state, inside the critical sections too.
THEOREM AccountsInvariance == Spec => []AInv
<1>1. Init => AInv
  BY InitA
<1>2. AInv /\ [Next]_vars => AInv'
  BY NextA
<1> QED
  BY <1>1, <1>2, PTL DEF Spec

\* The allocation bitmap marks exactly the blocks in use.
THEOREM BitmapRight == Spec => []BitmapExact
<1>1. AInv => BitmapExact
  BY DEF AInv
<1> QED
  BY <1>1, AccountsInvariance, PTL

\* The counters say how long the lists are, and outside the critical sections
\* free_pages is the number of free pages.
THEOREM StatisticsRight == Spec => []CountsExact
<1>1. AInv => CountsExact
  <2> SUFFICES ASSUME AInv PROVE CountsExact
    OBVIOUS
  <2>1. \A z \in Zones, k \in Orders : free_counts[z][k] = Len(free_lists[z][k])
    BY DEF AInv, CountsLen
  <2>2. ASSUME Ready, lock[BUDDY_ZONE_UNMOVABLE] = NoCPU
        PROVE  free_pages[BUDDY_ZONE_UNMOVABLE] = Cardinality(FreePageSet)
    <3>1. IInv /\ lock[BUDDY_ZONE_UNMOVABLE] \in {NoCPU, NoCPU}
      BY <2>2 DEF AInv
    <3>2. \A d \in CPUs : Working(d) => d = NoCPU
      BY <3>1, NoOther
    <3>3. \A d \in CPUs : ~Working(d)
      BY <3>2, CPUAssumption
    <3> QED
      BY <2>2, <3>3 DEF AInv, PagesExact
  <2> QED
    BY <2>1, <2>2 DEF CountsExact
<1> QED
  BY <1>1, AccountsInvariance, PTL

\* Merging is complete: no two buddies below the maximum order stay free.
THEOREM MergingComplete == Spec => []Coalesced
<1>1. AInv => Coalesced
  BY DEF AInv, NoBuddies, Coalesced
<1> QED
  BY <1>1, AccountsInvariance, PTL

-----------------------------------------------------------------------------
(* Refusing only for lack of room *)

\* Two blocks of one order that share a page are the same block.
LEMMA SameBlock ==
  ASSUME NEW k \in Orders, NEW x \in Nat, NEW d \in Nat, NEW p \in Nat,
         x % OrderPages[k] = 0, d % OrderPages[k] = 0,
         p \in BlockPages(x, k), p \in BlockPages(d, k)
  PROVE  x = d
<1> DEFINE n == OrderPages[k]
<1>1. n \in Nat \ {0}
  BY OrderFacts
<1>2. p - x \in 0..(n - 1) /\ p - d \in 0..(n - 1)
  BY <1>1 DEF BlockPages
<1> HIDE DEF n
<1>3. PICK q \in Nat : x = q * n
  BY <1>1, AlignedMultiple DEF n
<1>4. PICK r \in Nat : d = r * n
  BY <1>1, AlignedMultiple DEF n
<1>5. p \div n = q
  <2> DEFINE e == p - x
  <2>1. e \in 0..(n - 1) /\ p = q * n + e
    BY <1>1, <1>2, <1>3
  <2> HIDE DEF e
  <2> QED
    BY <1>1, <2>1, DivUnique
<1>6. p \div n = r
  <2> DEFINE e == p - d
  <2>1. e \in 0..(n - 1) /\ p = r * n + e
    BY <1>1, <1>2, <1>4
  <2> HIDE DEF e
  <2> QED
    BY <1>1, <2>1, DivUnique
<1> QED
  BY <1>3, <1>4, <1>5, <1>6

\* Block x of order j consists of free blocks of smaller orders.
Crumbled(x, j) ==
  /\ x \in Nat /\ IsBlock(x, j)
  /\ \A p \in BlockPages(x, j) :
       \E l \in Orders : l < j /\ \E d \in FreeSet(l) : p \in BlockPages(d, l)

\* Since buddies are merged, no block consists of smaller free blocks: in a
\* smallest one both halves would be free.
LEMMA NeverCrumbled ==
  ASSUME AInv, NEW x, NEW j, Crumbled(x, j)
  PROVE  FALSE
<1> DEFINE T == {m \in Nat : \E y : Crumbled(y, m)}
<1>1. j \in T /\ T \in SUBSET Nat
  <2>1. j \in Nat
    BY OrderAssumption DEF Crumbled, IsBlock, Orders
  <2> QED
    BY <2>1
<1>2. PICK m \in T : \A i \in T : m <= i
  <2> HIDE DEF T
  <2> QED
    BY <1>1, LeastNat
<1>3. PICK y : Crumbled(y, m)
  BY <1>2
<1>4. y \in Nat /\ m \in Orders /\ m \in Nat /\ IsBlock(y, m)
  BY <1>2, <1>3 DEF Crumbled, IsBlock
<1>5. TypeOK /\ Aligned /\ NoBuddies
  BY DEF AInv, IInv
<1>6. m > 0
  <2>1. y \in BlockPages(y, m)
    BY <1>4, OrderFacts DEF BlockPages
  <2>2. PICK l \in Orders : l < m
    BY <2>1, <1>3 DEF Crumbled
  <2> QED
    BY <2>2, <1>4, OrderAssumption DEF Orders
<1> DEFINE h == m - 1
           n == OrderPages[h]
           z == y + n
<1>7. /\ h \in Orders /\ h \in Nat /\ OrderPages[m] = 2 * n /\ n \in Nat \ {0}
      /\ h < m /\ h # BUDDY_MAX_ORDER
  <2>1. h \in Orders /\ OrderPages[m] = 2 * OrderPages[h]
    BY <1>4, <1>6, OrderFacts
  <2> QED
    BY <2>1, <1>4, <1>6, OrderFacts, OrderAssumption DEF Orders
<1>8. h = m - 1 /\ n = OrderPages[h] /\ z = y + n
  OBVIOUS
<1> HIDE DEF h, n, z
<1>9. IsBlock(y, h) /\ IsBlock(z, h)
  <2>1. y % (2 * n) = 0 /\ y + 2 * n <= total_pages
    BY <1>4, <1>7 DEF IsBlock
  <2>2. y % n = 0 /\ z % n = 0
    BY <2>1, <1>4, <1>7, <1>8, SplitAligned
  <2>3. y + n <= total_pages /\ z + n <= total_pages /\ z \in Nat
    BY <2>1, <1>4, <1>7, <1>8, TotalPages
  <2> QED
    BY <2>2, <2>3, <1>4, <1>7, <1>8 DEF IsBlock
<1>10. ASSUME NEW w, IsBlock(w, h), BlockPages(w, h) \subseteq BlockPages(y, m)
       PROVE  w \in FreeSet(h)
  <2>1. w \in Nat /\ ~Crumbled(w, h)
    <3>1. h \notin T
      BY <1>2, <1>4, <1>7
    <3> QED
      BY <3>1, <1>7, <1>10 DEF IsBlock
  <2>2. PICK p \in BlockPages(w, h) :
          ~\E l \in Orders : l < h /\ \E d \in FreeSet(l) : p \in BlockPages(d, l)
    BY <2>1, <1>10 DEF Crumbled
  <2>3. PICK l \in Orders : l < m /\ \E d \in FreeSet(l) : p \in BlockPages(d, l)
    BY <2>2, <1>3, <1>10 DEF Crumbled
  <2>4. PICK d \in FreeSet(l) : l < m /\ p \in BlockPages(d, l)
    BY <2>3
  <2>5. l = h
    BY <2>2, <2>4, <1>4, <1>7, <1>8, OrderAssumption DEF Orders
  <2>6. IsBlock(d, h)
    BY <2>4, <2>5, <1>5 DEF Aligned
  <2>7. p \in Nat
    BY <2>1, <2>2, <1>7, <1>8 DEF BlockPages
  <2>8. w = d
    BY <2>1, <2>2, <2>4, <2>5, <2>6, <2>7, <1>7, <1>10, SameBlock DEF IsBlock
  <2> QED
    BY <2>4, <2>5, <2>8
<1>11. /\ BlockPages(y, h) \subseteq BlockPages(y, m)
       /\ BlockPages(z, h) \subseteq BlockPages(y, m)
  BY <1>4, <1>7, <1>8 DEF BlockPages
<1>12. y \in FreeSet(h) /\ z \in FreeSet(h)
  BY <1>9, <1>10, <1>11
<1>13. Buddy(y, h) = z
  BY <1>4, <1>7, <1>8, HalvesAreBuddies DEF IsBlock
<1> QED
  BY <1>5, <1>7, <1>12, <1>13 DEF NoBuddies

\* With c in the critical section and all lists from order k up empty, every
\* block of order k overlaps one in use.
LEMMA RefusedFull ==
  ASSUME AInv, NEW c \in CPUs, pc[c] = "alloc_find",
         zone[c] = BUDDY_ZONE_UNMOVABLE, Candidates(c) = {},
         NEW b, IsBlock(b, order[c])
  PROVE  \/ \E x \in owned : ~Disjoint(b, order[c], x[1], x[2])
         \/ \E e \in CPUs : /\ pc[e] = "free_lock"
                            /\ ~Disjoint(b, order[c], block[e], order[e])
<1> DEFINE k == order[c]
<1> SUFFICES ASSUME \A x \in owned : Disjoint(b, k, x[1], x[2]),
                    \A e \in CPUs : pc[e] = "free_lock" =>
                      Disjoint(b, k, block[e], order[e])
             PROVE  FALSE
  OBVIOUS
<1>0. IInv /\ TypeOK
  BY DEF AInv, IInv
<1>1. /\ IInv /\ TypeOK /\ k \in Orders /\ k \in Nat /\ b \in Nat
      /\ lock[BUDDY_ZONE_UNMOVABLE] = c /\ Ready
  <2>1. k \in Orders /\ k \in Nat /\ b \in Nat
    BY <1>0, OrderAssumption DEF TypeOK, IsBlock, Orders
  <2>2. lock[BUDDY_ZONE_UNMOVABLE] = c
    BY <1>0 DEF IInv, LockInv, InCritical
  <2>3. Ready
    BY <1>0 DEF IInv, BootInv
  <2> QED
    BY <1>0, <2>1, <2>2, <2>3
<1>2. \A e \in CPUs : ~Working(e)
  <2>1. lock[BUDDY_ZONE_UNMOVABLE] \in {c, NoCPU}
    BY <1>1
  <2>2. \A e \in CPUs : Working(e) => e = c
    BY <1>0, <2>1, NoOther
  <2> QED
    BY <2>2 DEF Working
<1>3. ASSUME NEW p \in BlockPages(b, k)
      PROVE  \E l \in Orders : l < k /\ \E d \in FreeSet(l) : p \in BlockPages(d, l)
  <2>1. p \in 0..(carved - 1)
    BY <1>1, OrderFacts, TotalPages DEF Ready, IsBlock, BlockPages
  <2>2. \A x \in owned : p \notin BlockPages(x[1], x[2])
    <3> SUFFICES ASSUME NEW x \in owned PROVE p \notin BlockPages(x[1], x[2])
      OBVIOUS
    <3>1. x[1] \in Nat /\ x[2] \in Orders
      BY <1>1, FreeSetType DEF TypeOK
    <3>2. Disjoint(b, k, x[1], x[2])
      OBVIOUS
    <3>3. BlockPages(b, k) \cap BlockPages(x[1], x[2]) = {}
      <4> HIDE DEF k
      <4> QED
        BY <3>1, <3>2, <1>1, NoSharedPage
    <3> QED
      BY <3>3
  <2>3. \A e \in Holding : p \notin BlockPages(block[e], cur_order[e])
    <3> SUFFICES ASSUME NEW e \in Holding
                 PROVE  p \notin BlockPages(block[e], cur_order[e])
      OBVIOUS
    <3>1. e \in CPUs /\ pc[e] = "free_lock" /\ cur_order[e] = order[e]
      BY <1>1, <1>2 DEF Holding, Working, IInv, HeldInv
    <3>2. block[e] \in Nat /\ cur_order[e] \in Orders
      BY <1>1, <3>1, FreeSetType DEF TypeOK
    <3>3. Disjoint(b, k, block[e], cur_order[e])
      BY <3>1
    <3>4. BlockPages(b, k) \cap BlockPages(block[e], cur_order[e]) = {}
      <4> HIDE DEF k
      <4> QED
        BY <3>2, <3>3, <1>1, NoSharedPage
    <3> QED
      BY <3>4
  <2>4. PICK l \in Orders : \E d \in FreeSet(l) : p \in BlockPages(d, l)
    BY <2>1, <2>2, <2>3, <1>1 DEF IInv, NoLeak
  <2>5. free_lists[BUDDY_ZONE_UNMOVABLE][l] # <<>>
    BY <2>4 DEF FreeSet, Range
  <2>6. ~(l >= k)
    BY <2>5 DEF Candidates
  <2>7. l \in Nat
    BY OrderAssumption DEF Orders
  <2> QED
    BY <2>4, <2>6, <2>7, <1>1
<1>4. Crumbled(b, k)
  BY <1>1, <1>3 DEF Crumbled
<1> QED
  BY <1>4, NeverCrumbled

-----------------------------------------------------------------------------
(* The steps as PageAllocator sees them *)

\* What PageAllocator sees of a CPU.
LEMMA AbsValue ==
  ASSUME NEW c \in CPUs
  PROVE  /\ pc[c] \in {"alloc_lock", "alloc_find", "alloc_split"} =>
              AbsCall(c) = <<"alloc", order[c], zone[c]>>
         /\ pc[c] = "allocated" => AbsCall(c) = <<"got", block[c], order[c]>>
         /\ pc[c] = "failed" => AbsCall(c) = <<"failed">>
         /\ pc[c] = "free_lock" => AbsCall(c) = <<"free", block[c], order[c]>>
         /\ pc[c] = "free_merge" => AbsCall(c) = <<"freed">>
         /\ pc[c] = "idle" => AbsCall(c) = <<"idle">>
BY DEF AbsCall

\* The same after a step.
LEMMA AbsValueNext ==
  ASSUME NEW c \in CPUs
  PROVE  /\ pc'[c] \in {"alloc_lock", "alloc_find", "alloc_split"} =>
              AbsCall(c)' = <<"alloc", order'[c], zone'[c]>>
         /\ pc'[c] = "allocated" => AbsCall(c)' = <<"got", block'[c], order'[c]>>
         /\ pc'[c] = "failed" => AbsCall(c)' = <<"failed">>
         /\ pc'[c] = "free_lock" => AbsCall(c)' = <<"free", block'[c], order'[c]>>
         /\ pc'[c] = "free_merge" => AbsCall(c)' = <<"freed">>
         /\ pc'[c] = "idle" => AbsCall(c)' = <<"idle">>
BY DEF AbsCall

\* A step of c changes c's call only.
LEMMA AbsSet ==
  ASSUME NEW c \in CPUs, \A d \in CPUs \ {c} : Same(d), NEW st, AbsCall(c)' = st
  PROVE  Abs!Set(c, st)
<1>1. \A d \in CPUs \ {c} : AbsCall(d)' = AbsCall(d)
  BY DEF AbsCall, Same
<1> QED
  BY <1>1 DEF Abs!Set

\* Or none, if c's call looks the same.
LEMMA AbsStutter ==
  ASSUME NEW c \in CPUs, \A d \in CPUs \ {c} : Same(d), AbsCall(c)' = AbsCall(c),
         UNCHANGED owned
  PROVE  UNCHANGED Abs!absVars
<1>1. \A d \in CPUs : AbsCall(d)' = AbsCall(d)
  BY DEF AbsCall, Same
<1>2. [d \in CPUs |-> AbsCall(d)]' = [d \in CPUs |-> AbsCall(d)]
  BY <1>1
<1> QED
  BY <1>2 DEF Abs!absVars

\* The blocks PageAllocator takes for used.
LEMMA AbsInUse ==
  ASSUME TypeOK
  PROVE  /\ owned \subseteq Abs!InUse
         /\ \A c \in CPUs : pc[c] = "free_lock" =>
              <<block[c], order[c]>> \in Abs!InUse
         /\ \A x \in Abs!InUse :
              \/ x \in owned
              \/ \E c \in CPUs : /\ pc[c] = "free_lock"
                                 /\ x[1] = block[c] /\ x[2] = order[c]
<1>1. \A c \in CPUs :
        /\ AbsCall(c)[1] = "free" <=> pc[c] = "free_lock"
        /\ pc[c] = "free_lock" =>
             AbsCall(c)[2] = block[c] /\ AbsCall(c)[3] = order[c]
  <2> TAKE c \in CPUs
  <2>1. pc[c] \in Labels
    BY DEF TypeOK
  <2> QED
    BY <2>1, AbsValue DEF Labels
<1> DEFINE call == [c \in CPUs |-> AbsCall(c)]
<1>2. \A c \in CPUs : call[c] = AbsCall(c)
  OBVIOUS
<1>3. Abs!InUse =
        owned \cup {<<call[c][2], call[c][3]>> :
                      c \in {d \in CPUs : call[d][1] = "free"}}
  BY DEF Abs!InUse
<1> HIDE DEF call
<1>4. \A x : x \in Abs!InUse <=>
              \/ x \in owned
              \/ \E c \in CPUs : /\ call[c][1] = "free"
                                 /\ x = <<call[c][2], call[c][3]>>
  BY <1>3
<1>5. \A x : x \in Abs!InUse <=>
              \/ x \in owned
              \/ \E c \in CPUs : /\ pc[c] = "free_lock"
                                 /\ x = <<block[c], order[c]>>
  BY <1>1, <1>2, <1>4
<1>6. \A c \in CPUs : /\ <<block[c], order[c]>>[1] = block[c]
                      /\ <<block[c], order[c]>>[2] = order[c]
  OBVIOUS
<1> QED
  BY <1>5, <1>6

\* A call of buddy_alloc_pages is a request, or is refused for its order.
LEMMA RequestStep ==
  ASSUME AInv, NEW c \in CPUs, NEW k \in Nat, NEW z \in Nat, AllocCall(c, k, z)
  PROVE  Abs!Request(c)
<1>1. TypeOK /\ pc[c] = "idle" /\ UNCHANGED owned
  BY DEF AllocCall, AInv, IInv
<1>2. \A d \in CPUs \ {c} : Same(d)
  BY <1>1 DEF AllocCall, Goto, callVars, Same, TypeOK
<1>3. AbsCall(c) = <<"idle">>
  BY <1>1, AbsValue
<1>4. CASE k > BUDDY_MAX_ORDER
  <2>1. pc'[c] = "failed"
    BY <1>1, <1>4 DEF AllocCall, Goto, TypeOK
  <2>2. Abs!Set(c, <<"failed">>)
    BY <1>2, <2>1, AbsValueNext, AbsSet
  <2> QED
    BY <1>1, <1>3, <2>2 DEF Abs!Request
<1>5. CASE ~(k > BUDDY_MAX_ORDER)
  <2> DEFINE zt == IF z >= BUDDY_ZONE_COUNT THEN BUDDY_ZONE_UNMOVABLE ELSE z
  <2>1. k \in Orders
    BY <1>5, OrderAssumption DEF Orders
  <2>2. zt \in Zones
    BY DEF Zones, BUDDY_ZONE_COUNT, BUDDY_ZONE_UNMOVABLE
  <2>3. pc'[c] = "alloc_lock" /\ order'[c] = k /\ zone'[c] = zt
    BY <1>1, <1>5 DEF AllocCall, Goto, TypeOK
  <2> HIDE DEF zt
  <2>4. Abs!Set(c, <<"alloc", k, zt>>)
    BY <1>2, <2>3, AbsValueNext, AbsSet
  <2> QED
    BY <1>1, <1>3, <2>1, <2>2, <2>4 DEF Abs!Request
<1> QED
  BY <1>4, <1>5

\* Running out of memory: there was no room.
LEMMA RefuseStep ==
  ASSUME AInv, NEW c \in CPUs, AllocFail(c)
  PROVE  Abs!Refuse(c)
<1>1. /\ TypeOK /\ pc[c] = "alloc_find" /\ Candidates(c) = {}
      /\ UNCHANGED <<owned, callVars>> /\ pc' = [pc EXCEPT ![c] = "failed"]
  BY DEF AllocFail, AInv, IInv, Goto
<1>2. /\ pc'[c] = "failed" /\ \A d \in CPUs \ {c} : Same(d)
  BY <1>1 DEF callVars, Same, TypeOK
<1>3. AbsCall(c) = <<"alloc", order[c], zone[c]>>
  BY <1>1, AbsValue
<1>4. Abs!Set(c, <<"failed">>)
  BY <1>2, AbsValueNext, AbsSet
<1>5. ASSUME zone[c] = BUDDY_ZONE_UNMOVABLE, NEW b \in PageIndex,
             Abs!Available(b, order[c])
      PROVE  FALSE
  <2>1. IsBlock(b, order[c])
    BY <1>1, <1>5, FreeSetType DEF Abs!Available, IsBlock, TypeOK
  <2>2. \A x \in Abs!InUse : Disjoint(b, order[c], x[1], x[2])
    BY <1>5 DEF Abs!Available, Abs!Apart, Disjoint
  <2>3. \A x \in owned : Disjoint(b, order[c], x[1], x[2])
    BY <1>1, <2>2, AbsInUse
  <2>4. \A e \in CPUs : pc[e] = "free_lock" =>
          Disjoint(b, order[c], block[e], order[e])
    <3> SUFFICES ASSUME NEW e \in CPUs, pc[e] = "free_lock"
                 PROVE  Disjoint(b, order[c], block[e], order[e])
      OBVIOUS
    <3>1. <<block[e], order[e]>> \in Abs!InUse
      BY <1>1, AbsInUse
    <3>2. Disjoint(b, order[c], <<block[e], order[e]>>[1],
                   <<block[e], order[e]>>[2])
      BY <3>1, <2>2
    <3> QED
      BY <3>2
  <2> QED
    BY <1>1, <1>5, <2>1, <2>3, <2>4, RefusedFull
<1>6. zone[c] = BUDDY_ZONE_UNMOVABLE =>
        \A b \in Abs!PageIndices : ~Abs!Available(b, order[c])
  BY <1>5 DEF Abs!PageIndices, PageIndex
<1> DEFINE call == [d \in CPUs |-> AbsCall(d)]
<1>7. call[c][1] = "alloc" /\ call[c][2] = order[c] /\ call[c][3] = zone[c]
  BY <1>3
<1> HIDE DEF call
<1>8. UNCHANGED owned
  BY <1>1
<1> QED
  BY <1>4, <1>6, <1>7, <1>8 DEF Abs!Refuse, call

\* The block handed to the caller was available.
LEMMA GrantStep ==
  ASSUME AInv, NEW c \in CPUs, AllocFinish(c)
  PROVE  Abs!Grant(c)
<1> DEFINE b == block[c]
           k == order[c]
<1>1. /\ IInv /\ TypeOK /\ pc[c] = "alloc_split" /\ c \in Holding
      /\ cur_order[c] = k /\ zone[c] = BUDDY_ZONE_UNMOVABLE
      /\ UNCHANGED callVars /\ pc' = [pc EXCEPT ![c] = "allocated"]
      /\ owned' = owned \cup {<<b, k>>}
  BY DEF AllocFinish, AInv, IInv, HeldInv, Holding, Goto
<1>2. pc'[c] = "allocated" /\ order'[c] = k /\ block'[c] = b
  BY <1>1 DEF callVars, TypeOK
<1>3. \A d \in CPUs \ {c} : Same(d)
  BY <1>1 DEF callVars, Same, TypeOK
<1>4. AbsCall(c) = <<"alloc", k, BUDDY_ZONE_UNMOVABLE>>
  BY <1>1, AbsValue
<1>5. Abs!Set(c, <<"got", b, k>>)
  <2> HIDE DEF b, k
  <2> QED
    BY <1>2, <1>3, AbsValueNext, AbsSet
<1>6. IsBlock(b, k) /\ b \in PageIndex
  BY <1>1, BlockInRegion DEF IInv, Aligned
<1>7. \A x \in Abs!InUse : Disjoint(b, k, x[1], x[2])
  <2> SUFFICES ASSUME NEW x \in Abs!InUse PROVE Disjoint(b, k, x[1], x[2])
    OBVIOUS
  <2>1. CASE x \in owned
    BY <2>1, <1>1, DisjointSym DEF IInv, NoOverlap, OwnedFromHeld
  <2>2. CASE \E e \in CPUs : /\ pc[e] = "free_lock"
                             /\ x[1] = block[e] /\ x[2] = order[e]
    <3>1. PICK e \in CPUs : pc[e] = "free_lock" /\ x[1] = block[e] /\ x[2] = order[e]
      BY <2>2
    <3>2. e \in Holding /\ cur_order[e] = order[e] /\ e # c
      BY <1>1, <3>1 DEF Holding, IInv, HeldInv
    <3>3. Disjoint(block[c], cur_order[c], block[e], cur_order[e])
      BY <1>1, <3>2 DEF IInv, NoOverlap, HeldApart
    <3> QED
      BY <1>1, <3>1, <3>2, <3>3
  <2> QED
    BY <2>1, <2>2, <1>1, AbsInUse
<1> HIDE DEF b, k
<1>8. Abs!Available(b, k) /\ b \in Abs!PageIndices
  BY <1>6, <1>7 DEF Abs!Available, Abs!Apart, Disjoint, IsBlock, Abs!PageIndices,
     PageIndex
<1> DEFINE call == [d \in CPUs |-> AbsCall(d)]
<1>9. /\ call[c][1] = "alloc" /\ call[c][2] = k
      /\ call[c][3] = BUDDY_ZONE_UNMOVABLE
  BY <1>4
<1> HIDE DEF call
<1> QED
  BY <1>1, <1>5, <1>8, <1>9 DEF Abs!Grant, call

\* A call of buddy_free_pages gives the block back.
LEMMA GiveBackStep ==
  ASSUME AInv, NEW c \in CPUs, NEW b \in PageIndex, NEW k \in Orders,
         FreeCall(c, b, k)
  PROVE  Abs!GiveBack(c)
<1>1. /\ TypeOK /\ pc[c] = "idle" /\ <<b, k>> \in owned
      /\ owned' = owned \ {<<b, k>>}
  BY DEF FreeCall, AInv, IInv
<1>2. b \in Nat
  BY <1>1, FreeSetType
<1>3. pc'[c] = "free_lock" /\ block'[c] = b /\ order'[c] = k
  BY <1>1, <1>2, AddressRoundTrip DEF FreeCall, Goto, TypeOK
<1>4. \A d \in CPUs \ {c} : Same(d)
  BY <1>1 DEF FreeCall, Goto, Same, TypeOK
<1>5. AbsCall(c) = <<"idle">>
  BY <1>1, AbsValue
<1>6. Abs!Set(c, <<"free", b, k>>)
  BY <1>3, <1>4, AbsValueNext, AbsSet
<1>7. PICK x \in owned : x = <<b, k>>
  BY <1>1
<1>8. x[1] = b /\ x[2] = k /\ owned' = owned \ {x}
  BY <1>1, <1>7
<1>9. Abs!Set(c, <<"free", x[1], x[2]>>)
  BY <1>6, <1>8
<1> QED
  BY <1>5, <1>8, <1>9 DEF Abs!GiveBack

\* Taking the lock to free a block is the moment it becomes free again.
LEMMA TakeEffectStep ==
  ASSUME AInv, NEW c \in CPUs, FreeAcquire(c)
  PROVE  Abs!TakeEffect(c)
<1>1. /\ TypeOK /\ pc[c] = "free_lock" /\ UNCHANGED <<owned, callVars>>
      /\ pc' = [pc EXCEPT ![c] = "free_merge"]
  BY DEF FreeAcquire, AInv, IInv, Goto
<1>2. pc'[c] = "free_merge" /\ \A d \in CPUs \ {c} : Same(d)
  BY <1>1 DEF callVars, Same, TypeOK
<1>3. AbsCall(c) = <<"free", block[c], order[c]>>
  BY <1>1, AbsValue
<1>4. Abs!Set(c, <<"freed">>)
  BY <1>2, AbsValueNext, AbsSet
<1> DEFINE call == [d \in CPUs |-> AbsCall(d)]
<1>5. call[c][1] = "free"
  BY <1>3
<1> HIDE DEF call
<1> QED
  BY <1>1, <1>4, <1>5 DEF Abs!TakeEffect, call

\* Calls end.
LEMMA DoneStep ==
  ASSUME AInv, NEW c \in CPUs, Return(c) \/ FreeFinish(c)
  PROVE  Abs!Done(c)
<1>1. /\ TypeOK /\ pc[c] \in {"allocated", "failed", "free_merge"}
      /\ UNCHANGED owned
      /\ pc' = [pc EXCEPT ![c] = "idle"]
  BY DEF Return, FreeFinish, AInv, IInv, Goto
<1>2. \A d \in CPUs \ {c} : Same(d)
  BY <1>1 DEF Return, FreeFinish, Same, TypeOK
<1>3. AbsCall(c)' = <<"idle">>
  BY <1>1, AbsValueNext DEF TypeOK
<1>4. Abs!Set(c, <<"idle">>)
  BY <1>2, <1>3, AbsSet
<1> DEFINE call == [d \in CPUs |-> AbsCall(d)]
<1>5. call[c][1] \in {"got", "failed", "freed"}
  BY <1>1, AbsValue
<1> HIDE DEF call
<1> QED
  BY <1>1, <1>4, <1>5 DEF Abs!Done, call

\* The other steps of a call are invisible.
LEMMA HiddenStep ==
  ASSUME AInv, NEW c \in CPUs,
         AllocAcquire(c) \/ AllocFind(c) \/ AllocSplit(c) \/ FreeMerge(c)
  PROVE  UNCHANGED Abs!absVars
<1>1. TypeOK /\ UNCHANGED <<owned, order, zone>>
  BY DEF AllocAcquire, AllocFind, AllocSplit, FreeMerge, AInv, IInv, callVars
<1>2. \A d \in CPUs \ {c} : Same(d)
  <2>1. CASE AllocAcquire(c)
    BY <2>1, <1>1 DEF AllocAcquire, Goto, callVars, Same, TypeOK
  <2>2. CASE AllocFind(c)
    BY <2>2, <1>1 DEF AllocFind, Goto, Same, TypeOK
  <2>3. CASE AllocSplit(c)
    BY <2>3, <1>1 DEF AllocSplit, Same, TypeOK
  <2>4. CASE FreeMerge(c)
    BY <2>4, <1>1 DEF FreeMerge, Same, TypeOK
  <2> QED
    BY <2>1, <2>2, <2>3, <2>4
<1>3. \/ /\ pc[c] \in {"alloc_lock", "alloc_find", "alloc_split"}
         /\ pc'[c] \in {"alloc_lock", "alloc_find", "alloc_split"}
      \/ pc[c] = "free_merge" /\ pc'[c] = "free_merge"
  BY <1>1 DEF AllocAcquire, AllocFind, AllocSplit, FreeMerge, Goto, TypeOK
<1>4. AbsCall(c)' = AbsCall(c)
  BY <1>1, <1>3, AbsValue, AbsValueNext
<1> QED
  BY <1>1, <1>2, <1>4, AbsStutter

\* Initially all CPUs are idle and no block is in use.
LEMMA AbsInit == Init => Abs!Init
<1> SUFFICES ASSUME Init PROVE Abs!Init
  OBVIOUS
<1>1. \A c \in CPUs : AbsCall(c) = <<"idle">>
  BY AbsValue DEF Init
<1> QED
  BY <1>1 DEF Init, Abs!Init

\* Every step is one of PageAllocator or leaves it alone.
LEMMA AbsNext == AInv /\ [Next]_vars => [Abs!Next]_(Abs!absVars)
<1> SUFFICES ASSUME AInv, [Next]_vars PROVE [Abs!Next]_(Abs!absVars)
  OBVIOUS
<1>1. ASSUME UNCHANGED <<pc, order, zone, cur_order, block, owned>>
      PROVE  UNCHANGED Abs!absVars
  <2>1. \A d \in CPUs : AbsCall(d)' = AbsCall(d)
    BY <1>1 DEF AbsCall
  <2> QED
    BY <1>1, <2>1 DEF Abs!absVars
<1>2. CASE InitCarve
  BY <1>1, <1>2 DEF InitCarve, callVars
<1>3. ASSUME NEW c \in CPUs, Call(c) PROVE [Abs!Next]_(Abs!absVars)
  <2>0. CallOrders \subseteq Nat /\ 0..BUDDY_ZONE_COUNT \subseteq Nat
    BY OrderAssumption DEF CallOrders, BUDDY_ZONE_COUNT
  <2>1. ASSUME NEW k \in CallOrders, NEW z \in 0..BUDDY_ZONE_COUNT,
               AllocCall(c, k, z)
        PROVE  Abs!Request(c)
    BY <2>0, <2>1, RequestStep
  <2>2. ASSUME NEW k \in CallOrders, NEW flags \in CallFlags,
               AllocFlagsCall(c, k, flags)
        PROVE  Abs!Request(c)
    <3>1. GfpZone(flags) \in Nat
      BY DEF GfpZone, BUDDY_ZONE_MOVABLE, BUDDY_ZONE_RECLAIMABLE,
         BUDDY_ZONE_UNMOVABLE
    <3>2. AllocCall(c, k, GfpZone(flags))
      BY <2>2 DEF AllocFlagsCall
    <3> QED
      BY <2>0, <3>1, <3>2, RequestStep
  <2>3. ASSUME NEW b \in PageIndex, NEW k \in Orders, FreeCall(c, b, k)
        PROVE  Abs!GiveBack(c)
    BY <2>3, GiveBackStep
  <2>4. ASSUME NEW a \in CallAddresses, NEW k \in CallOrders,
               FreeReject(c, a, k)
        PROVE  UNCHANGED Abs!absVars
    BY <2>4, <1>1 DEF FreeReject, vars
  <2>5. Abs!Request(c) \/ Abs!GiveBack(c) \/ UNCHANGED Abs!absVars
    BY <1>3, <2>1, <2>2, <2>3, <2>4 DEF Call
  <2> QED
    BY <2>5 DEF Abs!Next
<1>4. ASSUME NEW c \in CPUs, Step(c) PROVE [Abs!Next]_(Abs!absVars)
  <2>1. \/ Abs!Refuse(c) \/ Abs!Grant(c) \/ Abs!TakeEffect(c) \/ Abs!Done(c)
        \/ UNCHANGED Abs!absVars
    BY <1>4, RefuseStep, GrantStep, TakeEffectStep, DoneStep, HiddenStep DEF Step
  <2> QED
    BY <2>1 DEF Abs!Next
<1>5. CASE UNCHANGED vars
  BY <1>1, <1>5 DEF vars
<1> QED
  BY <1>2, <1>3, <1>4, <1>5 DEF Next

\* The buddy allocator implements PageAllocator: every block it hands out is
\* aligned, in the region and disjoint from all blocks in use, and an UNMOVABLE
\* request is refused only when no aligned run of free pages is left, on any
\* number of CPUs, for any region, page size and maximum order.
THEOREM Refinement == Spec => ImplementsPageAllocator
<1>1. Init => Abs!Init
  BY AbsInit
<1>2. AInv /\ [Next]_vars => [Abs!Next]_(Abs!absVars)
  BY AbsNext
<1> QED
  BY <1>1, <1>2, AccountsInvariance, PTL DEF Spec, ImplementsPageAllocator, Abs!Spec
=============================================================================
