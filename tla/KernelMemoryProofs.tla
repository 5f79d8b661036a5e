------------------------- MODULE KernelMemoryProofs -------------------------
(***************************************************************************)
(* The memory of the kernel is in order after any sequence of calls: pages, *)
(* slabs, pools and frames, for memory, formats and maps of any size.       *)
(***************************************************************************)
EXTENDS KernelMemory, MathLemmas, FiniteSetTheorems

-----------------------------------------------------------------------------
(* What the theorems assume *)

\* Only the CPU that boots runs (cf. MCKernelMemorySMP.cfg).
OneCPU == CPUs # {} /\ \A c, d \in CPUs : c = d

\* The entries of the memory maps end with a page (cf. MCKernelMemoryPartial.cfg).
MapsAligned ==
  \A i \in Infos : \A off \in DOMAIN i : \A n \in DOMAIN i[off].mmap :
    i[off].mmap[n].len % BUDDY_PAGE_SIZE = 0

\* A slab has room for an object, and its header, its page and the steps of the
\* colour keep the alignment asked for.
FormatsFit ==
  \A f \in Formats : f[1] \in 1..BUDDY_PAGE_SIZE =>
    LET r == NewCache(f[1], f[2]) IN
    /\ r.object_size <= UsableSize
    /\ BUDDY_PAGE_SIZE % r.align = 0 /\ SLAB_HEADER % r.align = 0
    /\ CACHE_LINE_SIZE % r.align = 0

\* A region by which a pool grows has room for an object (cf.
\* MCKernelMemoryEmpty.cfg).
GrowthFits ==
  \A f \in PoolFormats : f[1] # 0 /\ f[2] # 0 =>
    LET r == NewPool(f[1], f[2]) IN
    ObjectsInRegion(r, GrowOrder(r, r.grow_count)) > 0

\* No pool has as many objects as its counters can count.
CountsFit ==
  \A q \in DOMAIN pool :
    Cardinality(Range(pool[q].free_list) \cup pool_loans[q]) < CountMod

-----------------------------------------------------------------------------
(* Pages *)

MapEntries == [addr : Nat, len : Nat, type : Nat]
NothingTaken == DOMAIN cache = {} /\ DOMAIN pool = {} /\ frames = {}

\* Before pmm_init there is no memory, and nobody has any.
BootInv ==
  /\ boot \in {"tags", "pmm", "ready"} /\ multiboot_info \in Infos
  /\ tags \in DOMAIN multiboot_info /\ mmap \in Seq(MapEntries)
  /\ g_memory_start \in Nat /\ g_memory_size \in Nat
  /\ reclaimable \subseteq Nat
  /\ boot # "ready" => /\ g_memory_size = 0 /\ unmovable = {} /\ reclaimable = {}
                       /\ NothingTaken

\* The region is an available entry of the map.
RegionInv ==
  g_memory_size # 0 => \E i \in DOMAIN mmap :
    Available(i) /\ g_memory_start = mmap[i].addr /\ g_memory_size = mmap[i].len

CacheFields ==
  {"object_size", "align", "objects_per_slab", "color_next", "full", "partial",
   "empty", "objects", "slots", "available"}

CacheOK(r) ==
  /\ DOMAIN r = CacheFields
  /\ r.full \in Seq(Nat) /\ r.partial \in Seq(Nat) /\ r.empty \in Seq(Nat)

CachesOK(ca) == \A k \in DOMAIN ca : CacheOK(ca[k])

\* A call works on a cache there is; a CPU that looks for an array of slots
\* finds the cache still without one when it has a page for it.
OnCaches(ca, a, g) ==
  /\ DOMAIN a = CPUs /\ DOMAIN g = CPUs
  /\ \A c \in CPUs : a[c] # "idle" => g[c][1] \in DOMAIN ca
CallsOK(ca, a, g) ==
  /\ OnCaches(ca, a, g)
  /\ \A c \in CPUs : a[c] = "free_array" => ca[g[c][1]].objects = NULL

\* Callers hold objects of caches there are.
LoansOK(ca, lo) == DOMAIN lo = CPUs /\ \A c \in CPUs : \A x \in lo[c] : x[1] \in DOMAIN ca

PoolFields ==
  {"object_size", "initial_count", "grow_count", "total_objects", "free_objects",
   "free_list", "regions"}

Regions == [page : Nat, order : Orders]
PoolOK(r) == DOMAIN r = PoolFields /\ r.regions \in Seq(Regions)
RegionsOK(po) == \A q \in DOMAIN po : PoolOK(po[q])

AllOf(C) == UNION {C[k] : k \in DOMAIN C}

\* Pages R are split between the zones u and r, frames f, and the owners of
\* families C and P.
Split(u, r, f, C, P, R) ==
  /\ u \cup r \cup f \cup AllOf(C) \cup AllOf(P) = R
  /\ u \cap r = {} /\ (u \cup r) \cap f = {}
  /\ \A k \in DOMAIN C : C[k] \cap (u \cup r \cup f) = {}
  /\ \A q \in DOMAIN P : P[q] \cap (u \cup r \cup f) = {}
  /\ \A k \in DOMAIN C, q \in DOMAIN P : C[k] \cap P[q] = {}
  /\ \A j, k \in DOMAIN C : j # k => C[j] \cap C[k] = {}
  /\ \A p, q \in DOMAIN P : p # q => P[p] \cap P[q] = {}

ListPages(r) == Range(r.full) \cup Range(r.partial) \cup Range(r.empty)
OwnPages(k, r) == {k} \cup ListPages(r) \cup ({r.objects} \ {NULL})
OfCaches(ca) == [k \in DOMAIN ca |-> OwnPages(k, ca[k])]
RegPages(r) == UNION {Block(g.page, g.order) : g \in Range(r.regions)}
OfPools(po) == [q \in DOMAIN po |-> {q} \cup RegPages(po[q])]

\* The caches, the calls and the pages of the two zones.
SlabPart(ca, a, g, u, r) ==
  /\ CachesOK(ca) /\ CallsOK(ca, a, g)
  /\ Split(u, r, frames, OfCaches(ca), OfPools(pool),
           RegionPages(g_memory_start, g_memory_size))

PagesInv ==
  SlabPart(cache, at, arg, unmovable, reclaimable) /\ LoansOK(cache, loans) /\ RegionsOK(pool)

-----------------------------------------------------------------------------
(* Lists *)

\* The first element of a list and the others.
LEMMA Popped ==
  ASSUME NEW S, NEW s \in Seq(S), s # <<>>
  PROVE  /\ Head(s) \in S /\ Head(s) \in Range(s) /\ Tail(s) \in Seq(S)
         /\ Len(Tail(s)) = Len(s) - 1 /\ Len(s) \in Nat \ {0}
         /\ Range(s) = Range(Tail(s)) \cup {Head(s)}
         /\ IsInjective(s) => IsInjective(Tail(s)) /\ Head(s) \notin Range(Tail(s))
<1>1. /\ Head(s) \in S /\ Tail(s) \in Seq(S) /\ Len(Tail(s)) = Len(s) - 1
      /\ \A i \in 1..Len(Tail(s)) : Tail(s)[i] = s[i + 1]
  BY HeadTailProperties
<1>2. Len(s) \in Nat \ {0} /\ Head(s) = s[1]
  BY EmptySeq
<1> DEFINE t == Tail(s)
<1>3. DOMAIN s = 1..Len(s) /\ DOMAIN t = 1..(Len(s) - 1)
  BY <1>1
<1>4. \A i \in 1..(Len(s) - 1) : t[i] = s[i + 1]
  BY <1>1
<1>5. t \in Seq(S)
  BY <1>1
<1> HIDE DEF t
<1>6. Range(s) = Range(t) \cup {s[1]}
  <2>1. ASSUME NEW i \in DOMAIN s PROVE s[i] \in Range(t) \cup {s[1]}
    <3>1. i = 1 \/ (i - 1 \in DOMAIN t /\ t[i - 1] = s[i])
      BY <1>2, <1>3, <1>4
    <3> QED
      BY <3>1 DEF Range
  <2>2. ASSUME NEW i \in DOMAIN t PROVE t[i] \in Range(s)
    <3>1. i + 1 \in DOMAIN s /\ t[i] = s[i + 1]
      BY <1>2, <1>3, <1>4
    <3> QED
      BY <3>1 DEF Range
  <2>3. s[1] \in Range(s)
    <3>1. 1 \in DOMAIN s
      BY <1>2, <1>3
    <3> QED
      BY <3>1 DEF Range
  <2> QED
    BY <2>1, <2>2, <2>3 DEF Range
<1>7. ASSUME IsInjective(s) PROVE IsInjective(t) /\ s[1] \notin Range(t)
  <2>1. \A i, j \in 1..Len(s) : s[i] = s[j] => i = j
    BY <1>3, <1>7 DEF IsInjective
  <2>2. \A i, j \in DOMAIN t : t[i] = t[j] => i = j
    BY <2>1, <1>2, <1>3, <1>4
  <2>3. \A i \in DOMAIN t : t[i] # s[1]
    BY <2>1, <1>2, <1>3, <1>4
  <2> QED
    BY <2>2, <2>3 DEF IsInjective, Range
<1> QED
  BY <1>1, <1>2, <1>6, <1>7 DEF t

Push(x, s) == <<x>> \o s

\* A list with one more element.
LEMMA Pushed ==
  ASSUME NEW S, NEW s \in Seq(S), NEW x \in S
  PROVE  /\ Push(x, s) \in Seq(S) /\ Len(Push(x, s)) = Len(s) + 1
         /\ Range(Push(x, s)) = Range(s) \cup {x}
         /\ IsInjective(s) /\ x \notin Range(s) => IsInjective(Push(x, s))
<1>1. /\ (<<x>> \o s) \in Seq(S)
      /\ Len((<<x>> \o s)) = Len(s) + 1
      /\ Range((<<x>> \o s)) = Range(s) \cup {x}
      /\ IsInjective(s) /\ x \notin Range(s) => IsInjective((<<x>> \o s))
  BY SeqPush
<1> QED
  BY <1>1 DEF Push

\* Unlinking an element.
LEMMA Unlinked ==
  ASSUME NEW S, NEW s \in Seq(S), NEW x
  PROVE  /\ Without(s, x) \in Seq(S)
         /\ Range(Without(s, x)) \subseteq Range(s)
         /\ Range(s) \ {x} \subseteq Range(Without(s, x))
         /\ IsInjective(s) => /\ IsInjective(Without(s, x))
                              /\ Range(Without(s, x)) = Range(s) \ {x}
         /\ x \in Range(s) => Len(Without(s, x)) = Len(s) - 1
<1>1. CASE x \in Range(s)
  <2> DEFINE i == CHOOSE i \in DOMAIN s : s[i] = x
  <2>1. i \in DOMAIN s /\ s[i] = x
    BY <1>1 DEF Range
  <2>2. i \in 1..Len(s)
    BY <2>1
  <2> DEFINE t == SubSeq(s, 1, i - 1) \o SubSeq(s, i + 1, Len(s))
  <2>3. Without(s, x) = t
    BY <1>1 DEF Without
  <2> HIDE DEF i
  <2>4. /\ t \in Seq(S) /\ Len(t) = Len(s) - 1
        /\ Range(t) \subseteq Range(s) /\ Range(s) \ {s[i]} \subseteq Range(t)
        /\ IsInjective(s) => IsInjective(t) /\ s[i] \notin Range(t)
    BY <2>2, SeqCut
  <2> HIDE DEF t
  <2> QED
    BY <2>1, <2>3, <2>4
<1>2. CASE x \notin Range(s)
  <2>1. Without(s, x) = s
    BY <1>2 DEF Without
  <2> QED
    BY <2>1, <1>2
<1> QED
  BY <1>1, <1>2

-----------------------------------------------------------------------------
(* Pages change hands *)

\* Pages X are taken from zones u and r.
Takes(u, r, u2, r2, X) ==
  X \subseteq u \cup r /\ u2 \subseteq u /\ r2 \subseteq r /\ u2 \cup r2 = (u \cup r) \ X

\* Owner k of family C gets pages X; owner k is no more.
Gains(C, D, k, X) ==
  /\ DOMAIN D = DOMAIN C \cup {k}
  /\ k \in DOMAIN C => D[k] = C[k] \cup X
  /\ k \notin DOMAIN C => D[k] = X
  /\ \A j \in DOMAIN C : j # k => D[j] = C[j]
Loses(C, D, k) ==
  k \in DOMAIN C /\ DOMAIN D = DOMAIN C \ {k} /\ \A j \in DOMAIN D : D[j] = C[j]

\* Pages X go from the zones to owner k of the caches.
LEMMA CacheTakes ==
  ASSUME NEW u, NEW r, NEW f, NEW C, NEW P, NEW R, Split(u, r, f, C, P, R),
         NEW u2, NEW r2, NEW X, Takes(u, r, u2, r2, X), NEW k, NEW D, Gains(C, D, k, X)
  PROVE  Split(u2, r2, f, D, P, R)
<1>1. u2 \cup r2 \cup f \cup AllOf(D) \cup AllOf(P) = R
  BY DEF Split, Takes, Gains, AllOf
<1>2. u2 \cap r2 = {} /\ (u2 \cup r2) \cap f = {}
  BY DEF Split, Takes, Gains
<1>3. \A j \in DOMAIN D : D[j] \cap (u2 \cup r2 \cup f) = {}
  BY DEF Split, Takes, Gains
<1>4. \A q \in DOMAIN P : P[q] \cap (u2 \cup r2 \cup f) = {}
  BY DEF Split, Takes, Gains
<1>5. \A j \in DOMAIN D, q \in DOMAIN P : D[j] \cap P[q] = {}
  BY DEF Split, Takes, Gains
<1>6. \A i, j \in DOMAIN D : i # j => D[i] \cap D[j] = {}
  BY DEF Split, Takes, Gains
<1> QED
  BY <1>1, <1>2, <1>3, <1>4, <1>5, <1>6 DEF Split

\* Caches and pools have the same part.
LEMMA SplitSym ==
  ASSUME NEW u, NEW r, NEW f, NEW C, NEW P, NEW R, Split(u, r, f, C, P, R)
  PROVE  Split(u, r, f, P, C, R)
<1>1. u \cup r \cup f \cup AllOf(P) \cup AllOf(C) = R
  BY DEF Split
<1>2. \A q \in DOMAIN P, k \in DOMAIN C : P[q] \cap C[k] = {}
  BY DEF Split
<1>3. /\ u \cap r = {} /\ (u \cup r) \cap f = {}
      /\ \A k \in DOMAIN C : C[k] \cap (u \cup r \cup f) = {}
      /\ \A q \in DOMAIN P : P[q] \cap (u \cup r \cup f) = {}
      /\ \A j, k \in DOMAIN C : j # k => C[j] \cap C[k] = {}
      /\ \A p, q \in DOMAIN P : p # q => P[p] \cap P[q] = {}
  BY Zenon DEF Split
<1> QED
  BY <1>1, <1>2, <1>3, Zenon DEF Split

\* Pages X go from the zones to owner q of the pools.
LEMMA PoolTakes ==
  ASSUME NEW u, NEW r, NEW f, NEW C, NEW P, NEW R, Split(u, r, f, C, P, R),
         NEW u2, NEW r2, NEW X, Takes(u, r, u2, r2, X), NEW k, NEW D, Gains(P, D, k, X)
  PROVE  Split(u2, r2, f, C, D, R)
<1>1. Split(u, r, f, P, C, R)
  BY SplitSym
<1>2. Split(u2, r2, f, D, C, R)
  BY <1>1, CacheTakes
<1> QED
  BY <1>2, SplitSym

\* Owner k of the caches gives everything back to the zone u.
LEMMA CacheGives ==
  ASSUME NEW u, NEW r, NEW f, NEW C, NEW P, NEW R, Split(u, r, f, C, P, R),
         NEW k, NEW D, Loses(C, D, k)
  PROVE  Split(u \cup C[k], r, f, D, P, R)
<1>1. u \cup C[k] \cup r \cup f \cup AllOf(D)
        \cup AllOf(P) = R
  BY DEF Split, Loses, AllOf
<1>2. (u \cup C[k]) \cap r = {} /\ (u \cup C[k] \cup r) \cap f = {}
  BY DEF Split, Loses
<1>3. \A j \in DOMAIN D : D[j] \cap (u \cup C[k] \cup r \cup f) = {}
  BY DEF Split, Loses
<1>4. \A q \in DOMAIN P : P[q] \cap (u \cup C[k] \cup r \cup f) = {}
  BY DEF Split, Loses
<1>5. \A j \in DOMAIN D, q \in DOMAIN P : D[j] \cap P[q] = {}
  BY DEF Split, Loses
<1>6. \A i, j \in DOMAIN D : i # j => D[i] \cap D[j] = {}
  BY DEF Split, Loses
<1> QED
  BY <1>1, <1>2, <1>3, <1>4, <1>5, <1>6 DEF Split

\* Owner q of the pools gives everything back to the zone u.
LEMMA PoolGives ==
  ASSUME NEW u, NEW r, NEW f, NEW C, NEW P, NEW R, Split(u, r, f, C, P, R),
         NEW k, NEW D, Loses(P, D, k)
  PROVE  Split(u \cup P[k], r, f, C, D, R)
<1>1. Split(u, r, f, P, C, R)
  BY SplitSym
<1>2. Split(u \cup P[k], r, f, D, C, R)
  BY <1>1, CacheGives
<1> QED
  BY <1>2, SplitSym

\* A frame is taken from the zone u, or goes back to it.
LEMMA FrameMoves ==
  ASSUME NEW u, NEW r, NEW f, NEW C, NEW P, NEW R, Split(u, r, f, C, P, R), NEW p
  PROVE  /\ p \in u => Split(u \ {p}, r, f \cup {p}, C, P, R)
         /\ p \in f => Split(u \cup {p}, r, f \ {p}, C, P, R)
<1>1. ASSUME p \in u PROVE Split(u \ {p}, r, f \cup {p}, C, P, R)
  <2>1. (u \ {p}) \cup r \cup (f \cup {p}) \cup AllOf(C)
          \cup AllOf(P) = R
    BY <1>1 DEF Split
  <2>2. \A j \in DOMAIN C : C[j] \cap ((u \ {p}) \cup r \cup (f \cup {p})) = {}
    BY <1>1 DEF Split
  <2>3. \A q \in DOMAIN P : P[q] \cap ((u \ {p}) \cup r \cup (f \cup {p})) = {}
    BY <1>1 DEF Split
  <2>4. (u \ {p}) \cap r = {} /\ ((u \ {p}) \cup r) \cap (f \cup {p}) = {}
    BY <1>1 DEF Split
  <2> QED
    BY <2>1, <2>2, <2>3, <2>4 DEF Split
<1>2. ASSUME p \in f PROVE Split(u \cup {p}, r, f \ {p}, C, P, R)
  <2>1. u \cup {p} \cup r \cup (f \ {p}) \cup AllOf(C)
          \cup AllOf(P) = R
    BY <1>2 DEF Split
  <2>2. \A j \in DOMAIN C : C[j] \cap (u \cup {p} \cup r \cup (f \ {p})) = {}
    BY <1>2 DEF Split
  <2>3. \A q \in DOMAIN P : P[q] \cap (u \cup {p} \cup r \cup (f \ {p})) = {}
    BY <1>2 DEF Split
  <2>4. (u \cup {p}) \cap r = {} /\ (u \cup {p} \cup r) \cap (f \ {p}) = {}
    BY <1>2 DEF Split
  <2> QED
    BY <2>1, <2>2, <2>3, <2>4 DEF Split
<1> QED
  BY <1>1, <1>2

-----------------------------------------------------------------------------
(* The pages of a cache *)

\* Slabs are pages.
LEMMA ListPagesNat ==
  ASSUME NEW r, CacheOK(r)
  PROVE  ListPages(r) \subseteq Nat
<1>1. r.full \in Seq(Nat) /\ r.partial \in Seq(Nat) /\ r.empty \in Seq(Nat)
  BY DEF CacheOK
<1>2. Range(r.full) \in SUBSET Nat /\ Range(r.partial) \in SUBSET Nat
      /\ Range(r.empty) \in SUBSET Nat
  BY <1>1, RangeOfSeq
<1> QED
  BY <1>2 DEF ListPages

\* A slab that has lent an object is on another list, or where it was.
LEMMA FilledPages ==
  ASSUME NEW r, CacheOK(r), NEW s \in ListPages(r), NEW b
  PROVE  /\ CacheOK(Filled(r, s, b)) /\ Filled(r, s, b).objects = r.objects
         /\ ListPages(Filled(r, s, b)) = ListPages(r)
<1>1. CASE b.in_use + 1 = r.objects_per_slab
  <2> DEFINE t == Filled(r, s, b)
             w == Without(r.partial, s)
             p == Push(s, r.full)
  <2>1. t = [r EXCEPT !.partial = w, !.full = p]
    BY <1>1 DEF Filled, Push
  <2>2. DOMAIN r = CacheFields /\ r.full \in Seq(Nat) /\ r.partial \in Seq(Nat)
        /\ r.empty \in Seq(Nat)
    BY DEF CacheOK
  <2>3. s \in Nat
    BY ListPagesNat
  <2>4. w \in Seq(Nat) /\ Range(w) \subseteq Range(r.partial)
        /\ Range(r.partial) \ {s} \subseteq Range(w)
    BY <2>2, Unlinked
  <2>5. /\ p \in Seq(Nat) /\ Len(p) = Len(r.full) + 1
        /\ Range(p) = Range(r.full) \cup {s}
        /\ IsInjective(r.full) /\ s \notin Range(r.full) => IsInjective(p)
    BY <2>2, <2>3, Pushed
  <2> HIDE DEF t, w, p
  <2>6. DOMAIN t = CacheFields /\ t.full = p /\ t.partial = w /\ t.empty = r.empty
        /\ t.objects = r.objects
    BY <2>1, <2>2 DEF CacheFields
  <2>7. CacheOK(t)
    BY <2>2, <2>4, <2>5, <2>6 DEF CacheOK
  <2>8. ListPages(t) = ListPages(r)
    BY <2>4, <2>5, <2>6 DEF ListPages
  <2> QED
    BY <2>6, <2>7, <2>8 DEF t
<1>2. CASE b.in_use + 1 # r.objects_per_slab
  BY <1>2 DEF Filled
<1> QED
  BY <1>1, <1>2

\* A slab that got an object back is on another list, or where it was.
LEMMA EmptiedPages ==
  ASSUME NEW r, CacheOK(r), NEW s \in ListPages(r), NEW b
  PROVE  /\ CacheOK(Emptied(r, s, b)) /\ Emptied(r, s, b).objects = r.objects
         /\ ListPages(Emptied(r, s, b)) = ListPages(r)
<1> DEFINE t == Emptied(r, s, b)
<1>1. DOMAIN r = CacheFields /\ r.full \in Seq(Nat) /\ r.partial \in Seq(Nat)
      /\ r.empty \in Seq(Nat)
  BY DEF CacheOK
<1>2. s \in Nat
  BY ListPagesNat
<1>3. CASE b.in_use = r.objects_per_slab
  <2> DEFINE w == Without(r.full, s)
             p == Push(s, r.partial)
  <2>1. t = [r EXCEPT !.full = w, !.partial = p]
    BY <1>3 DEF Emptied, Push
  <2>2. w \in Seq(Nat) /\ Range(w) \subseteq Range(r.full)
        /\ Range(r.full) \ {s} \subseteq Range(w)
    BY <1>1, Unlinked
  <2>3. /\ p \in Seq(Nat) /\ Len(p) = Len(r.partial) + 1
        /\ Range(p) = Range(r.partial) \cup {s}
        /\ IsInjective(r.partial) /\ s \notin Range(r.partial) => IsInjective(p)
    BY <1>1, <1>2, Pushed
  <2> HIDE DEF t, w, p
  <2>4. DOMAIN t = CacheFields /\ t.full = w /\ t.partial = p /\ t.empty = r.empty
        /\ t.objects = r.objects
    BY <1>1, <2>1 DEF CacheFields
  <2>5. CacheOK(t)
    BY <1>1, <2>2, <2>3, <2>4 DEF CacheOK
  <2>6. ListPages(t) = ListPages(r)
    BY <2>2, <2>3, <2>4 DEF ListPages
  <2> QED
    BY <2>4, <2>5, <2>6 DEF t
<1>4. CASE b.in_use # r.objects_per_slab /\ b.in_use = 1
  <2> DEFINE w == Without(r.partial, s)
             p == Push(s, r.empty)
  <2>1. t = [r EXCEPT !.partial = w, !.empty = p]
    BY <1>4 DEF Emptied, Push
  <2>2. w \in Seq(Nat) /\ Range(w) \subseteq Range(r.partial)
        /\ Range(r.partial) \ {s} \subseteq Range(w)
    BY <1>1, Unlinked
  <2>3. /\ p \in Seq(Nat) /\ Len(p) = Len(r.empty) + 1
        /\ Range(p) = Range(r.empty) \cup {s}
        /\ IsInjective(r.empty) /\ s \notin Range(r.empty) => IsInjective(p)
    BY <1>1, <1>2, Pushed
  <2> HIDE DEF t, w, p
  <2>4. DOMAIN t = CacheFields /\ t.full = r.full /\ t.partial = w /\ t.empty = p
        /\ t.objects = r.objects
    BY <1>1, <2>1 DEF CacheFields
  <2>5. CacheOK(t)
    BY <1>1, <2>2, <2>3, <2>4 DEF CacheOK
  <2>6. ListPages(t) = ListPages(r)
    BY <2>2, <2>3, <2>4 DEF ListPages
  <2> QED
    BY <2>4, <2>5, <2>6 DEF t
<1>5. CASE b.in_use # r.objects_per_slab /\ b.in_use # 1
  BY <1>5 DEF Emptied
<1> QED
  BY <1>3, <1>4, <1>5

\* The structure of one cache changes, and its pages do not.
LEMMA CacheUpdated ==
  ASSUME NEW ca, CachesOK(ca), NEW k \in DOMAIN ca, NEW t, CacheOK(t),
         ListPages(t) = ListPages(ca[k]), t.objects = ca[k].objects,
         NEW cb, cb = [ca EXCEPT ![k] = t]
  PROVE  CachesOK(cb) /\ DOMAIN cb = DOMAIN ca /\ OfCaches(cb) = OfCaches(ca)
<1>1. DOMAIN cb = DOMAIN ca /\ cb[k] = t /\ \A j \in DOMAIN ca : j # k => cb[j] = ca[j]
  OBVIOUS
<1>2. CachesOK(cb)
  BY <1>1 DEF CachesOK
<1>3. \A j \in DOMAIN ca : OwnPages(j, cb[j]) = OwnPages(j, ca[j])
  BY <1>1 DEF OwnPages
<1> QED
  BY <1>1, <1>2, <1>3 DEF OfCaches

\* The structure of one cache changes and has pages X more.
LEMMA CacheGrown ==
  ASSUME NEW ca, CachesOK(ca), NEW k \in DOMAIN ca, NEW t, CacheOK(t),
         NEW X, OwnPages(k, t) = OwnPages(k, ca[k]) \cup X,
         NEW cb, cb = [ca EXCEPT ![k] = t]
  PROVE  /\ CachesOK(cb) /\ DOMAIN cb = DOMAIN ca
         /\ Gains(OfCaches(ca), OfCaches(cb), k, X)
<1>1. DOMAIN cb = DOMAIN ca /\ cb[k] = t /\ \A j \in DOMAIN ca : j # k => cb[j] = ca[j]
  OBVIOUS
<1>2. CachesOK(cb)
  BY <1>1 DEF CachesOK
<1>3. DOMAIN OfCaches(cb) = DOMAIN ca /\ DOMAIN OfCaches(ca) = DOMAIN ca
      /\ (\A j \in DOMAIN ca : OfCaches(ca)[j] = OwnPages(j, ca[j]))
      /\ (\A j \in DOMAIN ca : OfCaches(cb)[j] = OwnPages(j, cb[j]))
  BY <1>1 DEF OfCaches
<1>4. Gains(OfCaches(ca), OfCaches(cb), k, X)
  BY <1>1, <1>3 DEF Gains
<1> QED
  BY <1>1, <1>2, <1>4

\* The one CPU goes on with x at l.
LEMMA CallGoes ==
  ASSUME OneCPU, NEW ca, NEW a, NEW g, CallsOK(ca, a, g), NEW c \in CPUs, NEW cb,
         NEW l, NEW x, l # "idle" => x[1] \in DOMAIN cb,
         l = "free_array" => cb[x[1]].objects = NULL
  PROVE  CallsOK(cb, [a EXCEPT ![c] = l], [g EXCEPT ![c] = x])
BY DEF OneCPU, CallsOK, OnCaches

\* A page of one zone is taken; the zones are apart.
LEMMA PageTaken ==
  ASSUME NEW u, NEW r, u \cap r = {}, NEW X
  PROVE  /\ X \subseteq u => Takes(u, r, u \ X, r, X)
         /\ X \subseteq r => Takes(u, r, u, r \ X, X)
BY DEF Takes

\* The constants are numbers.
LEMMA ZoneNumbers ==
  /\ BUDDY_PAGE_SIZE \in Nat \ {0} /\ 0 \in Orders /\ BUDDY_MAX_ORDER \in Orders
  /\ Orders \subseteq Nat
  /\ \A k \in Orders : OrderPages[k] \in Nat \ {0}
  /\ OrderPages[0] = 1
BY ZoneAssumption DEF Orders

\* A block of order 0 is a page.
LEMMA BlockZero ==
  ASSUME NEW p \in Nat
  PROVE  Block(p, 0) = {p}
<1>1. OrderPages[0] = 1
  BY ZoneNumbers
<1> QED
  BY <1>1 DEF Block

\* The zones are apart.
LEMMA ZonesApart ==
  ASSUME PagesInv
  PROVE  unmovable \cap reclaimable = {}
BY DEF PagesInv, SlabPart, Split

-----------------------------------------------------------------------------
(* The calls of the slab allocator keep the pages *)

\* A new cache.
LEMMA CreatePages ==
  ASSUME OneCPU, PagesInv, unmovable \subseteq Nat, NEW c \in CPUs, NEW f \in Formats,
         slab_cache_create(c, f[1], f[2])
  PROVE  SlabPart(cache', at', arg', unmovable', reclaimable')
<1>0. /\ CachesOK(cache) /\ CallsOK(cache, at, arg)
      /\ Split(unmovable, reclaimable, frames, OfCaches(cache), OfPools(pool),
               RegionPages(g_memory_start, g_memory_size))
  BY DEF PagesInv, SlabPart
<1>1. at[c] = "idle" /\ at' = at /\ arg' = arg
  BY DEF slab_cache_create
<1>2. CASE UNCHANGED cache /\ UNCHANGED zoneVars
  BY <1>0, <1>1, <1>2 DEF zoneVars, SlabPart
<1>3. ASSUME NEW p \in unmovable, TakeUnmovable(p),
             cache' = Put(cache, p, NewCache(f[1], f[2]))
      PROVE  SlabPart(cache', at', arg', unmovable', reclaimable')
  <2>1. PICK t : t = NewCache(f[1], f[2])
    OBVIOUS
  <2>2. CacheOK(t) /\ OwnPages(p, t) = {p}
    <3>1. DOMAIN t = CacheFields /\ t.full = <<>> /\ t.partial = <<>> /\ t.empty = <<>>
          /\ t.objects = NULL
      BY <2>1 DEF NewCache, CacheFields
    <3>2. <<>> \in Seq(Nat) /\ Range(<<>>) = {}
      BY DEF Range
    <3> QED
      BY <3>1, <3>2 DEF CacheOK, OwnPages, ListPages
  <2>3. p \notin DOMAIN cache
    BY <1>0 DEF Split, OfCaches, OwnPages
  <2>4. /\ DOMAIN cache' = DOMAIN cache \cup {p} /\ cache'[p] = t
        /\ \A j \in DOMAIN cache : cache'[j] = cache[j]
    BY <1>3, <2>1, <2>3 DEF Put
  <2>5. CachesOK(cache')
    BY <1>0, <2>2, <2>4 DEF CachesOK
  <2>6. CallsOK(cache', at', arg')
    BY <1>0, <1>1 DEF CallsOK, OnCaches, OneCPU
  <2>7. Gains(OfCaches(cache), OfCaches(cache'), p, {p})
    <3>1. DOMAIN OfCaches(cache) = DOMAIN cache /\ DOMAIN OfCaches(cache') = DOMAIN cache'
      BY DEF OfCaches
    <3>2. \A j \in DOMAIN cache : OfCaches(cache')[j] = OfCaches(cache)[j]
      BY <2>4 DEF OfCaches
    <3>3. OfCaches(cache')[p] = {p}
      BY <2>2, <2>4 DEF OfCaches
    <3> QED
      BY <2>3, <2>4, <3>1, <3>2, <3>3 DEF Gains
  <2>8. Takes(unmovable, reclaimable, unmovable', reclaimable', {p})
    BY <1>3, ZonesApart, PageTaken DEF TakeUnmovable
  <2>9. Split(unmovable', reclaimable', frames, OfCaches(cache'), OfPools(pool),
              RegionPages(g_memory_start, g_memory_size))
    BY <1>0, <2>7, <2>8, CacheTakes
  <2> QED
    BY <2>5, <2>6, <2>9 DEF SlabPart
<1> QED
  BY <1>2, <1>3 DEF slab_cache_create

\* A cache that goes gives back what it had.
LEMMA DestroyPages ==
  ASSUME OneCPU, PagesInv, NEW c \in CPUs, NEW k \in DOMAIN cache,
         slab_cache_destroy(c, k)
  PROVE  SlabPart(cache', at', arg', unmovable', reclaimable')
<1>0. /\ CachesOK(cache) /\ CallsOK(cache, at, arg)
      /\ Split(unmovable, reclaimable, frames, OfCaches(cache), OfPools(pool),
               RegionPages(g_memory_start, g_memory_size))
  BY DEF PagesInv, SlabPart
<1>1. at[c] = "idle" /\ at' = at /\ arg' = arg
  BY DEF slab_cache_destroy
<1>2. DOMAIN cache' = DOMAIN cache \ {k} /\ \A j \in DOMAIN cache' : cache'[j] = cache[j]
  BY DEF slab_cache_destroy, Drop
<1>3. CachesOK(cache') /\ CallsOK(cache', at', arg')
  BY <1>0, <1>1, <1>2 DEF CachesOK, CallsOK, OnCaches, OneCPU
<1>4. Loses(OfCaches(cache), OfCaches(cache'), k)
  <2>1. DOMAIN OfCaches(cache) = DOMAIN cache /\ DOMAIN OfCaches(cache') = DOMAIN cache'
    BY DEF OfCaches
  <2>2. \A j \in DOMAIN cache' : OfCaches(cache')[j] = OfCaches(cache)[j]
    BY <1>2 DEF OfCaches
  <2> QED
    BY <1>2, <2>1, <2>2 DEF Loses
<1>5. OfCaches(cache)[k] = CachePages(k)
  BY DEF OfCaches, OwnPages, ListPages, CachePages, SlabPages
<1>6. unmovable' = unmovable \cup OfCaches(cache)[k] /\ reclaimable' = reclaimable
  BY <1>5 DEF slab_cache_destroy, FreePages
<1>7. Split(unmovable', reclaimable', frames, OfCaches(cache'), OfPools(pool),
            RegionPages(g_memory_start, g_memory_size))
  BY <1>0, <1>4, <1>6, CacheGives
<1> QED
  BY <1>3, <1>7 DEF SlabPart

\* A cache whose lists and array stay as they are keeps its pages.
LEMMA SlotsKeepPages ==
  ASSUME NEW ca, CachesOK(ca), NEW k \in DOMAIN ca, NEW t, DOMAIN t = CacheFields,
         t.full = ca[k].full, t.partial = ca[k].partial, t.empty = ca[k].empty,
         t.objects = ca[k].objects, NEW cb, cb = [ca EXCEPT ![k] = t]
  PROVE  CachesOK(cb) /\ DOMAIN cb = DOMAIN ca /\ OfCaches(cb) = OfCaches(ca)
<1>1. CacheOK(ca[k])
  BY DEF CachesOK
<1>2. CacheOK(t)
  BY <1>1 DEF CacheOK
<1>3. ListPages(t) = ListPages(ca[k])
  BY DEF ListPages
<1> QED
  BY <1>2, <1>3, CacheUpdated

\* What an action that leaves the zones and the pages of the caches alone has
\* to show.
LEMMA PagesUnmoved ==
  ASSUME PagesInv, NEW cb, CachesOK(cb), OfCaches(cb) = OfCaches(cache),
         NEW a, NEW g, CallsOK(cb, a, g)
  PROVE  SlabPart(cb, a, g, unmovable, reclaimable)
BY DEF PagesInv, SlabPart

\* The steps that only look at the caches.
LEMMA LoadPages ==
  ASSUME OneCPU, PagesInv, NEW c \in CPUs, NEW k \in DOMAIN cache,
         \/ AllocLoad(c, k)
         \/ \E o : FreeLoad(c, k, o)
         \/ AllocRead(c)
  PROVE  SlabPart(cache', at', arg', unmovable', reclaimable')
<1>0. CachesOK(cache) /\ CallsOK(cache, at, arg)
  BY DEF PagesInv, SlabPart
<1>1. cache' = cache /\ unmovable' = unmovable /\ reclaimable' = reclaimable
  BY DEF AllocLoad, FreeLoad, AllocRead, zoneVars
<1>2. CallsOK(cache, at', arg')
  <2>1. CASE AllocLoad(c, k)
    <3>1. CASE cache[k].available > 0
      <4>1. /\ at' = [at EXCEPT ![c] = "alloc_store"]
            /\ arg' = [arg EXCEPT ![c] = <<k, cache[k].available>>]
        BY <2>1, <3>1 DEF AllocLoad, Go
      <4> QED
        BY <1>0, <4>1, CallGoes
    <3>2. CASE ~(cache[k].available > 0)
      <4>1. at' = [at EXCEPT ![c] = "alloc_slow"] /\ arg' = [arg EXCEPT ![c] = <<k>>]
        BY <2>1, <3>2 DEF AllocLoad, Go
      <4> QED
        BY <1>0, <4>1, CallGoes
    <3> QED
      BY <3>1, <3>2
  <2>2. ASSUME NEW o, FreeLoad(c, k, o) PROVE CallsOK(cache, at', arg')
    <3>1. PICK l : l = IF ~Room(k) THEN "free_slow"
                       ELSE IF cache[k].objects = NULL THEN "free_array" ELSE "free_store"
      OBVIOUS
    <3>2. /\ at' = [at EXCEPT ![c] = l]
          /\ arg' = [arg EXCEPT ![c] = <<k, o, cache[k].available>>]
      BY <2>2, <3>1 DEF FreeLoad, Go
    <3>3. l = "free_array" => cache[k].objects = NULL
      BY <3>1
    <3>4. PICK x : x = <<k, o, cache[k].available>>
      OBVIOUS
    <3>5. x[1] = k
      BY <3>4
    <3> QED
      BY <1>0, <3>2, <3>3, <3>4, <3>5, CallGoes
  <2>3. CASE AllocRead(c)
    <3>1. at' = [at EXCEPT ![c] = "idle"] /\ arg' = [arg EXCEPT ![c] = <<>>]
      BY <2>3 DEF AllocRead, Go
    <3> QED
      BY <1>0, <3>1, CallGoes
  <2> QED
    BY <2>1, <2>2, <2>3
<1> QED
  BY <1>0, <1>1, <1>2, PagesUnmoved

\* The steps that write a slot or the count of a CPU cache.
LEMMA StorePages ==
  ASSUME OneCPU, PagesInv, NEW c \in CPUs, AllocStore(c) \/ FreeStore(c) \/ FreeCount(c)
  PROVE  SlabPart(cache', at', arg', unmovable', reclaimable')
<1>0. CachesOK(cache) /\ CallsOK(cache, at, arg)
  BY DEF PagesInv, SlabPart
<1>1. unmovable' = unmovable /\ reclaimable' = reclaimable
  BY DEF AllocStore, FreeStore, FreeCount, zoneVars
<1>2. PICK k : k = arg[c][1]
  OBVIOUS
<1>3. k \in DOMAIN cache
  BY <1>0, <1>2 DEF CallsOK, OnCaches, AllocStore, FreeStore, FreeCount
<1>4. DOMAIN cache[k] = CacheFields
  BY <1>0, <1>3 DEF CachesOK, CacheOK
<1>5. CachesOK(cache') /\ DOMAIN cache' = DOMAIN cache /\ OfCaches(cache') = OfCaches(cache)
  <2>1. CASE AllocStore(c)
    <3>1. PICK t : t = [cache[k] EXCEPT !.available = arg[c][2] - 1]
      OBVIOUS
    <3>2. cache' = [cache EXCEPT ![k] = t]
      BY <1>2, <2>1, <3>1 DEF AllocStore
    <3>3. DOMAIN t = CacheFields /\ t.full = cache[k].full /\ t.partial = cache[k].partial
          /\ t.empty = cache[k].empty /\ t.objects = cache[k].objects
      BY <1>4, <3>1 DEF CacheFields
    <3> QED
      BY <1>0, <1>3, <3>2, <3>3, SlotsKeepPages
  <2>2. CASE FreeStore(c)
    <3>1. PICK t : t = [cache[k] EXCEPT !.slots = [cache[k].slots EXCEPT ![arg[c][3]] = arg[c][2]]]
      OBVIOUS
    <3>2. cache' = [cache EXCEPT ![k] = t]
      BY <1>2, <2>2, <3>1 DEF FreeStore
    <3>3. DOMAIN t = CacheFields /\ t.full = cache[k].full /\ t.partial = cache[k].partial
          /\ t.empty = cache[k].empty /\ t.objects = cache[k].objects
      BY <1>4, <3>1 DEF CacheFields
    <3> QED
      BY <1>0, <1>3, <3>2, <3>3, SlotsKeepPages
  <2>3. CASE FreeCount(c)
    <3>1. PICK t : t = [cache[k] EXCEPT !.available = arg[c][3] + 1]
      OBVIOUS
    <3>2. cache' = [cache EXCEPT ![k] = t]
      BY <1>2, <2>3, <3>1 DEF FreeCount
    <3>3. DOMAIN t = CacheFields /\ t.full = cache[k].full /\ t.partial = cache[k].partial
          /\ t.empty = cache[k].empty /\ t.objects = cache[k].objects
      BY <1>4, <3>1 DEF CacheFields
    <3> QED
      BY <1>0, <1>3, <3>2, <3>3, SlotsKeepPages
  <2> QED
    BY <2>1, <2>2, <2>3
<1>6. CallsOK(cache', at', arg')
  <2>1. \/ at' = [at EXCEPT ![c] = "alloc_read"] /\ arg' = [arg EXCEPT ![c] = arg[c]]
        \/ at' = [at EXCEPT ![c] = "free_count"] /\ arg' = [arg EXCEPT ![c] = arg[c]]
        \/ at' = [at EXCEPT ![c] = "idle"] /\ arg' = [arg EXCEPT ![c] = <<>>]
    BY DEF AllocStore, FreeStore, FreeCount, Go
  <2>2. PICK x : x = arg[c]
    OBVIOUS
  <2>3. x[1] \in DOMAIN cache'
    BY <1>2, <1>3, <1>5, <2>2
  <2>4. /\ CallsOK(cache', [at EXCEPT ![c] = "alloc_read"], [arg EXCEPT ![c] = x])
        /\ CallsOK(cache', [at EXCEPT ![c] = "free_count"], [arg EXCEPT ![c] = x])
        /\ CallsOK(cache', [at EXCEPT ![c] = "idle"], [arg EXCEPT ![c] = <<>>])
    BY <1>0, <2>3, CallGoes
  <2> QED
    BY <2>1, <2>2, <2>4
<1> QED
  BY <1>1, <1>5, <1>6, PagesUnmoved

\* A page for the array of slots.
LEMMA ArrayPages ==
  ASSUME OneCPU, PagesInv, unmovable \subseteq Nat, NEW c \in CPUs, FreeArray(c)
  PROVE  SlabPart(cache', at', arg', unmovable', reclaimable')
<1>0. /\ CachesOK(cache) /\ CallsOK(cache, at, arg)
      /\ Split(unmovable, reclaimable, frames, OfCaches(cache), OfPools(pool),
               RegionPages(g_memory_start, g_memory_size))
  BY DEF PagesInv, SlabPart
<1>1. PICK k : k = arg[c][1]
  OBVIOUS
<1>2. k \in DOMAIN cache /\ cache[k].objects = NULL
  BY <1>0, <1>1 DEF CallsOK, OnCaches, FreeArray
<1>3. CacheOK(cache[k])
  BY <1>0, <1>2 DEF CachesOK
<1>4. PICK x : x = <<k, arg[c][2], cache[k].available>>
  OBVIOUS
<1>5. x[1] = k
  BY <1>4
<1>6. CASE UNCHANGED cache /\ UNCHANGED zoneVars
  <2>1. PICK l : l = IF cache[k].objects = NULL THEN "free_slow" ELSE "free_store"
    OBVIOUS
  <2>2. l # "free_array"
    BY <2>1
  <2>3. at' = [at EXCEPT ![c] = l] \/ at' = [at EXCEPT ![c] = "free_store"]
    BY <1>1, <2>1 DEF FreeArray, Go
  <2>4. arg' = [arg EXCEPT ![c] = x]
    BY <1>1, <1>4 DEF FreeArray, Go
  <2>5. /\ CallsOK(cache, [at EXCEPT ![c] = l], [arg EXCEPT ![c] = x])
        /\ CallsOK(cache, [at EXCEPT ![c] = "free_store"], [arg EXCEPT ![c] = x])
    BY <1>0, <1>2, <1>5, <2>2, CallGoes
  <2>6. CallsOK(cache, at', arg')
    BY <2>3, <2>4, <2>5
  <2> QED
    BY <1>0, <1>6, <2>6, PagesUnmoved DEF zoneVars
<1>7. ASSUME NEW p \in unmovable, TakeUnmovable(p),
             cache' = [cache EXCEPT ![k].objects = p], Go(c, "free_store", x)
      PROVE  SlabPart(cache', at', arg', unmovable', reclaimable')
  <2>1. PICK t : t = [cache[k] EXCEPT !.objects = p]
    OBVIOUS
  <2>2. DOMAIN t = CacheFields /\ t.full = cache[k].full /\ t.partial = cache[k].partial
        /\ t.empty = cache[k].empty /\ t.objects = p
    BY <1>3, <2>1 DEF CacheOK, CacheFields
  <2>3. CacheOK(t)
    BY <1>3, <2>2 DEF CacheOK
  <2>4. p # NULL
    BY SlabAssumption
  <2>5. OwnPages(k, t) = OwnPages(k, cache[k]) \cup {p}
    BY <1>2, <2>2, <2>4 DEF OwnPages, ListPages
  <2>6. cache' = [cache EXCEPT ![k] = t]
    BY <1>7, <2>1
  <2>7. /\ CachesOK(cache') /\ DOMAIN cache' = DOMAIN cache
        /\ Gains(OfCaches(cache), OfCaches(cache'), k, {p})
    BY <1>0, <1>2, <2>3, <2>5, <2>6, CacheGrown
  <2>8. CallsOK(cache', at', arg')
    <3>1. at' = [at EXCEPT ![c] = "free_store"] /\ arg' = [arg EXCEPT ![c] = x]
      BY <1>7 DEF Go
    <3>2. CallsOK(cache', [at EXCEPT ![c] = "free_store"], [arg EXCEPT ![c] = x])
      BY <1>0, <1>2, <1>5, <2>7, CallGoes
    <3> QED
      BY <3>1, <3>2
  <2>9. Takes(unmovable, reclaimable, unmovable', reclaimable', {p})
    BY <1>7, ZonesApart, PageTaken DEF TakeUnmovable
  <2>10. Split(unmovable', reclaimable', frames, OfCaches(cache'), OfPools(pool),
               RegionPages(g_memory_start, g_memory_size))
    BY <1>0, <2>7, <2>9, CacheTakes
  <2> QED
    BY <2>7, <2>8, <2>10 DEF SlabPart
<1> QED
  BY <1>1, <1>4, <1>6, <1>7 DEF FreeArray

\* An object of a slab is lent under the lock.
LEMMA LendPages ==
  ASSUME OneCPU, PagesInv, NEW c \in CPUs, NEW k \in DOMAIN cache, NEW r, CacheOK(r),
         r.objects = cache[k].objects, NEW s \in ListPages(r), NEW b, Lend(c, k, r, s, b),
         Go(c, "idle", <<>>)
  PROVE  /\ CachesOK(cache') /\ CallsOK(cache', at', arg')
         /\ ListPages(r) = ListPages(cache[k]) => OfCaches(cache') = OfCaches(cache)
         /\ \A X : ListPages(r) = ListPages(cache[k]) \cup X =>
              Gains(OfCaches(cache), OfCaches(cache'), k, X)
<1>0. CachesOK(cache) /\ CallsOK(cache, at, arg)
  BY DEF PagesInv, SlabPart
<1>1. PICK t : t = Filled(r, s, b)
  OBVIOUS
<1>2. CacheOK(t) /\ t.objects = r.objects /\ ListPages(t) = ListPages(r)
  BY <1>1, FilledPages
<1>3. cache' = [cache EXCEPT ![k] = t]
  BY <1>1 DEF Lend
<1>4. CachesOK(cache') /\ DOMAIN cache' = DOMAIN cache
  BY <1>0, <1>2, <1>3 DEF CachesOK
<1>5. CallsOK(cache', at', arg')
  <2>1. at' = [at EXCEPT ![c] = "idle"] /\ arg' = [arg EXCEPT ![c] = <<>>]
    BY DEF Go
  <2> QED
    BY <1>0, <2>1, CallGoes
<1>6. ASSUME ListPages(r) = ListPages(cache[k])
      PROVE  OfCaches(cache') = OfCaches(cache)
  BY <1>0, <1>2, <1>3, <1>6, CacheUpdated
<1>7. ASSUME NEW X, ListPages(r) = ListPages(cache[k]) \cup X
      PROVE  Gains(OfCaches(cache), OfCaches(cache'), k, X)
  <2>1. OwnPages(k, t) = OwnPages(k, cache[k]) \cup X
    BY <1>2, <1>7 DEF OwnPages
  <2> QED
    BY <1>0, <1>2, <1>3, <2>1, CacheGrown
<1> QED
  BY <1>4, <1>5, <1>6, <1>7

\* The four ways of an allocation under the lock, for cache k with structure r.
SlowWays(c, k, r) ==
  \/ /\ r.partial # <<>>
     /\ Lend(c, k, r, Head(r.partial), slab[Head(r.partial)])
     /\ UNCHANGED zoneVars
  \/ /\ r.partial = <<>> /\ r.empty # <<>>
     /\ Lend(c, k, [r EXCEPT !.empty = Tail(@), !.partial = <<Head(r.empty)>>],
             Head(r.empty), slab[Head(r.empty)])
     /\ UNCHANGED zoneVars
  \/ /\ r.partial = <<>> /\ r.empty = <<>> /\ Slack(k) # 0
     /\ \E p \in reclaimable :
          /\ TakeReclaimable(p, 0)
          /\ Lend(c, k, [r EXCEPT !.partial = <<p>>, !.color_next = (@ + 1) % 8],
                  p, NewSlab(p, k))
  \/ /\ r.partial = <<>> /\ r.empty = <<>> /\ reclaimable = {}
     /\ UNCHANGED <<cache, slab, loans>> /\ UNCHANGED zoneVars

\* AllocSlow goes one of these ways.
LEMMA SlowCases ==
  ASSUME NEW c, AllocSlow(c)
  PROVE  /\ at[c] = "alloc_slow" /\ Go(c, "idle", <<>>) /\ g_cache_list' = g_cache_list
         /\ SlowWays(c, arg[c][1], cache[arg[c][1]])
BY Zenon DEF AllocSlow, SlowWays

\* An allocation under the lock takes a page at most.
LEMMA SlowPages ==
  ASSUME OneCPU, PagesInv, reclaimable \subseteq Nat, NEW c \in CPUs, AllocSlow(c)
  PROVE  SlabPart(cache', at', arg', unmovable', reclaimable')
<1>0. /\ CachesOK(cache) /\ CallsOK(cache, at, arg)
      /\ Split(unmovable, reclaimable, frames, OfCaches(cache), OfPools(pool),
               RegionPages(g_memory_start, g_memory_size))
  BY DEF PagesInv, SlabPart
<1>1. PICK k : k = arg[c][1]
  OBVIOUS
<1>2. k \in DOMAIN cache
  BY <1>0, <1>1, SlowCases DEF CallsOK, OnCaches
<1>3. PICK r : r = cache[k]
  OBVIOUS
<1>4. CacheOK(r) /\ DOMAIN r = CacheFields /\ r.full \in Seq(Nat) /\ r.partial \in Seq(Nat)
      /\ r.empty \in Seq(Nat)
  BY <1>0, <1>2, <1>3 DEF CachesOK, CacheOK
<1>5. Go(c, "idle", <<>>) /\ SlowWays(c, k, r)
  BY <1>1, <1>3, SlowCases
<1>6. ASSUME r.partial # <<>>, Lend(c, k, r, Head(r.partial), slab[Head(r.partial)]),
             UNCHANGED zoneVars
      PROVE  SlabPart(cache', at', arg', unmovable', reclaimable')
  <2>1. PICK s : s = Head(r.partial)
    OBVIOUS
  <2>2. s \in ListPages(r)
    BY <1>4, <1>6, <2>1, Popped DEF ListPages
  <2>3. Lend(c, k, r, s, slab[s])
    BY <1>6, <2>1
  <2>4. CachesOK(cache') /\ CallsOK(cache', at', arg') /\ OfCaches(cache') = OfCaches(cache)
    BY <1>2, <1>3, <1>4, <1>5, <2>2, <2>3, LendPages
  <2> QED
    BY <1>6, <2>4, PagesUnmoved DEF zoneVars
<1>7. ASSUME r.partial = <<>>, r.empty # <<>>,
             Lend(c, k, [r EXCEPT !.empty = Tail(@), !.partial = <<Head(r.empty)>>],
                  Head(r.empty), slab[Head(r.empty)]),
             UNCHANGED zoneVars
      PROVE  SlabPart(cache', at', arg', unmovable', reclaimable')
  <2>0. PICK s : s = Head(r.empty)
    OBVIOUS
  <2>1. PICK t : t = [r EXCEPT !.empty = Tail(@), !.partial = <<s>>]
    OBVIOUS
  <2>2. /\ s \in Nat /\ Tail(r.empty) \in Seq(Nat)
        /\ Range(r.empty) = Range(Tail(r.empty)) \cup {s}
    BY <1>4, <1>7, <2>0, Popped
  <2>3. DOMAIN t = CacheFields /\ t.full = r.full /\ t.partial = <<s>>
        /\ t.empty = Tail(r.empty) /\ t.objects = r.objects
    BY <1>4, <2>1 DEF CacheFields
  <2>4. CacheOK(t)
    BY <1>4, <2>2, <2>3 DEF CacheOK
  <2>5. Range(<<s>>) = {s} /\ Range(r.partial) = {}
    BY <1>7 DEF Range
  <2>6. ListPages(t) = ListPages(r) /\ s \in ListPages(t)
    BY <2>2, <2>3, <2>5 DEF ListPages
  <2>7. Lend(c, k, t, s, slab[s])
    BY <1>7, <2>0, <2>1
  <2>8. CachesOK(cache') /\ CallsOK(cache', at', arg') /\ OfCaches(cache') = OfCaches(cache)
    BY <1>2, <1>3, <1>5, <2>3, <2>4, <2>6, <2>7, LendPages
  <2> QED
    BY <1>7, <2>8, PagesUnmoved DEF zoneVars
<1>8. ASSUME r.partial = <<>>, NEW p \in reclaimable, TakeReclaimable(p, 0),
             Lend(c, k, [r EXCEPT !.partial = <<p>>, !.color_next = (@ + 1) % 8],
                  p, NewSlab(p, k))
      PROVE  SlabPart(cache', at', arg', unmovable', reclaimable')
  <2>1. PICK t : t = [r EXCEPT !.partial = <<p>>, !.color_next = (@ + 1) % 8]
    OBVIOUS
  <2>2. DOMAIN t = CacheFields /\ t.full = r.full /\ t.partial = <<p>>
        /\ t.empty = r.empty /\ t.objects = r.objects
    BY <1>4, <2>1 DEF CacheFields
  <2>3. CacheOK(t)
    BY <1>4, <2>2 DEF CacheOK
  <2>4. Range(<<p>>) = {p} /\ Range(r.partial) = {}
    BY <1>8 DEF Range
  <2>5. ListPages(t) = ListPages(r) \cup {p} /\ p \in ListPages(t)
    BY <2>2, <2>4 DEF ListPages
  <2>6. PICK b : b = NewSlab(p, k)
    OBVIOUS
  <2>7. Lend(c, k, t, p, b)
    BY <1>8, <2>1, <2>6
  <2>8. /\ CachesOK(cache') /\ CallsOK(cache', at', arg')
        /\ \A X : ListPages(t) = ListPages(cache[k]) \cup X =>
             Gains(OfCaches(cache), OfCaches(cache'), k, X)
    BY <1>2, <1>3, <1>5, <2>2, <2>3, <2>5, <2>7, LendPages
  <2>9. Gains(OfCaches(cache), OfCaches(cache'), k, {p})
    BY <1>3, <2>5, <2>8
  <2>10. Takes(unmovable, reclaimable, unmovable', reclaimable', {p})
    <3>1. reclaimable' = reclaimable \ {p} /\ unmovable' = unmovable
      BY <1>8, BlockZero DEF TakeReclaimable
    <3> QED
      BY <3>1, ZonesApart, PageTaken
  <2>11. Split(unmovable', reclaimable', frames, OfCaches(cache'), OfPools(pool),
               RegionPages(g_memory_start, g_memory_size))
    BY <1>0, <2>9, <2>10, CacheTakes
  <2> QED
    BY <2>8, <2>11 DEF SlabPart
<1>9. CASE UNCHANGED <<cache, slab, loans>> /\ UNCHANGED zoneVars
  <2>1. at' = [at EXCEPT ![c] = "idle"] /\ arg' = [arg EXCEPT ![c] = <<>>]
    BY <1>5 DEF Go
  <2>2. CallsOK(cache, at', arg')
    BY <1>0, <2>1, CallGoes
  <2> QED
    BY <1>0, <1>9, <2>2, PagesUnmoved DEF zoneVars
<1> QED
  BY <1>5, <1>6, <1>7, <1>8, <1>9, Zenon DEF SlowWays

\* A slab found for an object is on a list.
LEMMA FoundListed ==
  ASSUME NEW k, NEW o
  PROVE  \/ slab_find_for_object(k, o) = NULL
         \/ /\ slab_find_for_object(k, o) \in Range(cache[k].full) \cup Range(cache[k].partial)
            /\ o \div BUDDY_PAGE_SIZE = slab_find_for_object(k, o)
BY DEF slab_find_for_object

\* A free under the lock moves slabs between lists.
LEMMA GiveBackPages ==
  ASSUME OneCPU, PagesInv, NEW c \in CPUs, FreeSlow(c)
  PROVE  SlabPart(cache', at', arg', unmovable', reclaimable')
<1>0. CachesOK(cache) /\ CallsOK(cache, at, arg)
  BY DEF PagesInv, SlabPart
<1>1. PICK k : k = arg[c][1]
  OBVIOUS
<1>2. PICK s : s = slab_find_for_object(k, arg[c][2])
  OBVIOUS
<1>3. k \in DOMAIN cache /\ CacheOK(cache[k])
  BY <1>0, <1>1 DEF CallsOK, OnCaches, CachesOK, FreeSlow
<1>4. unmovable' = unmovable /\ reclaimable' = reclaimable
  BY DEF FreeSlow, zoneVars
<1>5. CachesOK(cache') /\ OfCaches(cache') = OfCaches(cache)
  <2>1. CASE s = NULL
    <3>1. cache' = cache
      BY <1>1, <1>2, <2>1 DEF FreeSlow
    <3> QED
      BY <1>0, <3>1
  <2>2. CASE s # NULL
    <3>1. s \in ListPages(cache[k])
      BY <1>2, <2>2, FoundListed DEF ListPages
    <3>2. PICK t : t = Emptied(cache[k], s, slab[s])
      OBVIOUS
    <3>3. CacheOK(t) /\ t.objects = cache[k].objects /\ ListPages(t) = ListPages(cache[k])
      BY <1>3, <3>1, <3>2, EmptiedPages
    <3>4. cache' = [cache EXCEPT ![k] = t]
      BY <1>1, <1>2, <2>2, <3>2 DEF FreeSlow
    <3> QED
      BY <1>0, <1>3, <3>3, <3>4, CacheUpdated
  <2> QED
    BY <2>1, <2>2
<1>6. CallsOK(cache', at', arg')
  <2>1. at' = [at EXCEPT ![c] = "idle"] /\ arg' = [arg EXCEPT ![c] = <<>>]
    BY DEF FreeSlow, Go
  <2> QED
    BY <1>0, <2>1, CallGoes
<1> QED
  BY <1>4, <1>5, <1>6, PagesUnmoved

\* Callers get objects of the cache they ask.
LEMMA SlabStepLoans ==
  ASSUME OnCaches(cache, at, arg), LoansOK(cache, loans), SlabNext
  PROVE  LoansOK(cache', loans')
<1>0. OnCaches(cache, at, arg) /\ LoansOK(cache, loans)
  OBVIOUS
<1>1. ASSUME NEW c \in CPUs, NEW f \in Formats, slab_cache_create(c, f[1], f[2])
      PROVE  LoansOK(cache', loans')
  <2>1. loans' = loans /\ DOMAIN cache \subseteq DOMAIN cache'
    BY <1>1 DEF slab_cache_create, Put
  <2> QED
    BY <1>0, <2>1 DEF LoansOK
<1>2. ASSUME NEW c \in CPUs, NEW k \in DOMAIN cache, slab_cache_destroy(c, k)
      PROVE  LoansOK(cache', loans')
  <2>1. DOMAIN cache' = DOMAIN cache \ {k}
        /\ loans' = [d \in CPUs |-> {x \in loans[d] : x[1] # k}]
    BY <1>2 DEF slab_cache_destroy, Drop
  <2> QED
    BY <1>0, <2>1 DEF LoansOK
<1>3. ASSUME NEW c \in CPUs, NEW k \in DOMAIN cache, AllocLoad(c, k)
      PROVE  LoansOK(cache', loans')
  BY <1>0, <1>3 DEF AllocLoad
<1>4. ASSUME NEW c \in CPUs, AllocStore(c) \/ FreeStore(c) \/ FreeCount(c)
      PROVE  LoansOK(cache', loans')
  <2>1. loans' = loans /\ DOMAIN cache' = DOMAIN cache
    BY <1>4 DEF AllocStore, FreeStore, FreeCount
  <2> QED
    BY <1>0, <2>1 DEF LoansOK
<1>5. ASSUME NEW c \in CPUs, AllocRead(c)
      PROVE  LoansOK(cache', loans')
  <2>1. PICK x : x = <<arg[c][1], cache[arg[c][1]].slots[arg[c][2] - 1]>>
    OBVIOUS
  <2>2. cache' = cache /\ loans' = [loans EXCEPT ![c] = @ \cup {x}]
    BY <1>5, <2>1 DEF AllocRead
  <2>3. x[1] \in DOMAIN cache
    BY <1>0, <1>5, <2>1 DEF OnCaches, AllocRead
  <2> QED
    BY <1>0, <2>2, <2>3 DEF LoansOK
<1>6. ASSUME NEW c \in CPUs, AllocSlow(c)
      PROVE  LoansOK(cache', loans')
  <2>1. PICK k : k = arg[c][1]
    OBVIOUS
  <2>2. k \in DOMAIN cache
    BY <1>0, <1>6, <2>1, SlowCases DEF OnCaches
  <2>3. \/ cache' = cache /\ loans' = loans
        \/ \E r, s, b : Lend(c, k, r, s, b)
    BY <1>6, <2>1, SlowCases, Zenon DEF SlowWays
  <2>4. ASSUME NEW r, NEW s, NEW b, Lend(c, k, r, s, b)
        PROVE  LoansOK(cache', loans')
    <3>1. PICK x : x = <<k, Head(b.free_list)>>
      OBVIOUS
    <3>2. DOMAIN cache' = DOMAIN cache /\ loans' = [loans EXCEPT ![c] = @ \cup {x}]
      BY <2>4, <3>1 DEF Lend
    <3>3. x[1] = k
      BY <3>1
    <3> QED
      BY <1>0, <2>2, <3>2, <3>3 DEF LoansOK
  <2> QED
    BY <1>0, <2>3, <2>4
<1>7. ASSUME NEW c \in CPUs, NEW x \in loans[c], FreeLoad(c, x[1], x[2])
      PROVE  LoansOK(cache', loans')
  BY <1>0, <1>7 DEF FreeLoad, LoansOK
<1>8. ASSUME NEW c \in CPUs, FreeArray(c)
      PROVE  LoansOK(cache', loans')
  <2>1. loans' = loans /\ DOMAIN cache' = DOMAIN cache
    BY <1>8 DEF FreeArray
  <2> QED
    BY <1>0, <2>1 DEF LoansOK
<1>9. ASSUME NEW c \in CPUs, FreeSlow(c)
      PROVE  LoansOK(cache', loans')
  <2>1. loans' = loans /\ DOMAIN cache' = DOMAIN cache
    BY <1>9 DEF FreeSlow
  <2> QED
    BY <1>0, <2>1 DEF LoansOK
<1>10. ASSUME NEW c \in CPUs, AllocDivides(c) \/ Halted(c)
       PROVE  LoansOK(cache', loans')
  <2>1. loans' = loans /\ cache' = cache
    BY <1>10 DEF AllocDivides, Halted, slabVars
  <2> QED
    BY <1>0, <2>1
<1> QED
  BY <1>1, <1>2, <1>3, <1>4, <1>5, <1>6, <1>7, <1>8, <1>9, <1>10 DEF SlabNext

\* Whatever the slab allocator does, pages stay accounted for, unless it divides
\* by 0.
LEMMA SlabStepPages ==
  ASSUME OneCPU, PagesInv, unmovable \subseteq Nat, reclaimable \subseteq Nat, SlabNext, Sound'
  PROVE  SlabPart(cache', at', arg', unmovable', reclaimable')
<1>1. ASSUME NEW c \in CPUs, NEW x \in loans[c], FreeLoad(c, x[1], x[2])
      PROVE  SlabPart(cache', at', arg', unmovable', reclaimable')
  <2>1. x[1] \in DOMAIN cache
    BY DEF PagesInv, LoansOK
  <2> QED
    BY <1>1, <2>1, LoadPages
<1>2. ASSUME NEW c \in CPUs, AllocRead(c)
      PROVE  SlabPart(cache', at', arg', unmovable', reclaimable')
  <2>1. arg[c][1] \in DOMAIN cache
    BY <1>2 DEF PagesInv, SlabPart, CallsOK, OnCaches, AllocRead
  <2> QED
    BY <1>2, <2>1, LoadPages
<1>3. ASSUME NEW c \in CPUs, AllocDivides(c) \/ Halted(c)
      PROVE  SlabPart(cache', at', arg', unmovable', reclaimable')
  <2>1. ~AllocDivides(c)
    BY DEF AllocDivides, Sound
  <2>2. UNCHANGED slabVars /\ UNCHANGED zoneVars
    BY <1>3, <2>1 DEF Halted
  <2> QED
    BY <2>2 DEF PagesInv, SlabPart, slabVars, zoneVars
<1> QED
  BY <1>1, <1>2, <1>3, CreatePages, DestroyPages, LoadPages, StorePages, SlowPages, ArrayPages,
     GiveBackPages DEF SlabNext

-----------------------------------------------------------------------------
(* The calls of the pools keep the pages *)

\* The order a pool grows by is an order.
LEMMA GrowOrderOK ==
  ASSUME NEW r, NEW count
  PROVE  GrowOrder(r, count) \in Orders
<1> DEFINE enough == {k \in Orders : OrderPages[k] >= bytes_to_pages(count * r.object_size)}
<1>1. CASE enough = {}
  BY <1>1, ZoneNumbers DEF GrowOrder
<1>2. CASE enough # {}
  <2>1. enough \in SUBSET Nat /\ enough \subseteq Orders
    BY ZoneNumbers
  <2>2. GrowOrder(r, count) = CHOOSE k \in enough : \A j \in enough : k <= j
    BY <1>2 DEF GrowOrder
  <2> HIDE DEF enough
  <2>3. \E k \in enough : \A j \in enough : k <= j
    BY <1>2, <2>1, LeastNat
  <2>4. (CHOOSE k \in enough : \A j \in enough : k <= j) \in enough
    BY <2>3
  <2> QED
    BY <2>1, <2>2, <2>4
<1> QED
  BY <1>1, <1>2

\* A pool with a region more.
LEMMA GrownPages ==
  ASSUME NEW r, PoolOK(r), NEW p \in Nat, NEW k \in Orders
  PROVE  PoolOK(Grown(r, p, k)) /\ RegPages(Grown(r, p, k)) = RegPages(r) \cup Block(p, k)
<1>1. PICK t : t = Grown(r, p, k)
  OBVIOUS
<1>2. PICK g : g = [page |-> p, order |-> k]
  OBVIOUS
<1>3. g \in Regions /\ g.page = p /\ g.order = k
  BY <1>2 DEF Regions
<1>4. DOMAIN r = PoolFields /\ r.regions \in Seq(Regions)
  BY DEF PoolOK
<1>5. DOMAIN t = PoolFields /\ t.regions = Push(g, r.regions)
  BY <1>1, <1>2, <1>4 DEF Grown, PoolFields, Push
<1>6. Push(g, r.regions) \in Seq(Regions) /\ Range(Push(g, r.regions)) = Range(r.regions) \cup {g}
  <2>1. PICK w \in Seq(Regions) : w = r.regions
    BY <1>4
  <2>2. g \in Regions
    BY <1>3
  <2>3. /\ Push(g, w) \in Seq(Regions) /\ Len(Push(g, w)) = Len(w) + 1
        /\ Range(Push(g, w)) = Range(w) \cup {g}
        /\ IsInjective(w) /\ g \notin Range(w) => IsInjective(Push(g, w))
    BY <2>2, Pushed
  <2> QED
    BY <2>1, <2>3
<1>7. PoolOK(t)
  BY <1>5, <1>6 DEF PoolOK
<1>8. Range(t.regions) = Range(r.regions) \cup {g}
  BY <1>5, <1>6
<1>9. RegPages(t) = RegPages(r) \cup Block(p, k)
  <2>1. RegPages(t) = UNION {Block(h.page, h.order) : h \in Range(r.regions) \cup {g}}
    BY <1>8 DEF RegPages
  <2>2. RegPages(t) = RegPages(r) \cup Block(g.page, g.order)
    BY <2>1 DEF RegPages
  <2> QED
    BY <1>3, <2>2
<1> QED
  BY <1>1, <1>7, <1>9

\* The structure of a pool is put in place, with pages X more than before.
LEMMA PoolUpdated ==
  ASSUME NEW po, RegionsOK(po), NEW q, NEW t, PoolOK(t), NEW X,
         NEW pp, DOMAIN pp = DOMAIN po \cup {q}, pp[q] = t,
         \A j \in DOMAIN po : j # q => pp[j] = po[j],
         q \in DOMAIN po => {q} \cup RegPages(t) = {q} \cup RegPages(po[q]) \cup X,
         q \notin DOMAIN po => {q} \cup RegPages(t) = X
  PROVE  RegionsOK(pp) /\ Gains(OfPools(po), OfPools(pp), q, X)
<1>1. RegionsOK(pp)
  BY DEF RegionsOK
<1>2. DOMAIN OfPools(po) = DOMAIN po /\ DOMAIN OfPools(pp) = DOMAIN pp
      /\ (\A j \in DOMAIN po : OfPools(po)[j] = {j} \cup RegPages(po[j]))
      /\ (\A j \in DOMAIN pp : OfPools(pp)[j] = {j} \cup RegPages(pp[j]))
  BY DEF OfPools
<1>3. q \in DOMAIN pp /\ \A j \in DOMAIN po : j \in DOMAIN pp
  OBVIOUS
<1>4. q \in DOMAIN po => OfPools(pp)[q] = OfPools(po)[q] \cup X
  BY <1>2, <1>3
<1>5. q \notin DOMAIN po => OfPools(pp)[q] = X
  BY <1>2, <1>3
<1>6. \A j \in DOMAIN po : j # q => OfPools(pp)[j] = OfPools(po)[j]
  BY <1>2, <1>3
<1> QED
  BY <1>1, <1>2, <1>4, <1>5, <1>6 DEF Gains

\* The pools and the pages of the two zones.
PoolPart(po, u, r) ==
  /\ RegionsOK(po)
  /\ Split(u, r, frames, OfCaches(cache), OfPools(po),
           RegionPages(g_memory_start, g_memory_size))

\* pool_create leaves everything alone, or makes a pool of a page and a block.
LEMMA PoolCreateCases ==
  ASSUME NEW size, NEW count, pool_create(size, count)
  PROVE  \/ UNCHANGED poolVars /\ UNCHANGED zoneVars
         \/ LET r == NewPool(size, count)
                k == GrowOrder(r, count)
            IN
            /\ size # 0 /\ count # 0
            /\ \E q \in unmovable, p \in Blocks(reclaimable, k) :
                 /\ unmovable' = unmovable \ {q}
                 /\ reclaimable' = reclaimable \ Block(p, k)
                 /\ pool' = Put(pool, q, Grown(r, p, k))
                 /\ pool_loans' = Put(pool_loans, q, {})
                 /\ UNCHANGED <<g_memory_start, g_memory_size, damage>>
BY Zenon DEF pool_create

\* A new pool has no region yet.
LEMMA NewPoolPages ==
  ASSUME NEW size, NEW count
  PROVE  PoolOK(NewPool(size, count)) /\ RegPages(NewPool(size, count)) = {}
<1>1. PICK r : r = NewPool(size, count)
  OBVIOUS
<1>2. DOMAIN r = PoolFields /\ r.regions = <<>>
  BY <1>1 DEF NewPool, PoolFields
<1>3. <<>> \in Seq(Regions) /\ Range(<<>>) = {}
  BY DEF Range
<1>4. PoolOK(r)
  BY <1>2, <1>3 DEF PoolOK
<1>5. RegPages(r) = {}
  BY <1>2, <1>3 DEF RegPages
<1> QED
  BY <1>1, <1>4, <1>5

\* A new pool.
LEMMA PoolCreatePages ==
  ASSUME PagesInv, reclaimable \subseteq Nat, NEW size, NEW count, pool_create(size, count)
  PROVE  PoolPart(pool', unmovable', reclaimable')
<1>0. /\ RegionsOK(pool)
      /\ Split(unmovable, reclaimable, frames, OfCaches(cache), OfPools(pool),
               RegionPages(g_memory_start, g_memory_size))
  BY DEF PagesInv, SlabPart
<1>1. CASE UNCHANGED poolVars /\ UNCHANGED zoneVars
  BY <1>0, <1>1 DEF PoolPart, poolVars, zoneVars
<1>2. PICK r : r = NewPool(size, count)
  OBVIOUS
<1>3. PICK k : k = GrowOrder(r, count)
  OBVIOUS
<1>4. k \in Orders /\ PoolOK(r) /\ RegPages(r) = {}
  BY <1>2, <1>3, GrowOrderOK, NewPoolPages
<1>5. ASSUME NEW q \in unmovable, NEW p \in Blocks(reclaimable, k),
             unmovable' = unmovable \ {q}, reclaimable' = reclaimable \ Block(p, k),
             pool' = Put(pool, q, Grown(r, p, k))
      PROVE  PoolPart(pool', unmovable', reclaimable')
  <2>1. p \in reclaimable /\ p \in Nat /\ Block(p, k) \subseteq reclaimable
    BY DEF Blocks
  <2>2. PICK t : t = Grown(r, p, k)
    OBVIOUS
  <2>3. PoolOK(t) /\ RegPages(t) = Block(p, k)
    <3>1. PoolOK(t) /\ RegPages(t) = RegPages(r) \cup Block(p, k)
      BY <1>4, <2>1, <2>2, GrownPages
    <3> QED
      BY <1>4, <3>1
  <2>4. q \notin DOMAIN pool
    BY <1>0 DEF Split, OfPools
  <2>5. PICK X : X = {q} \cup Block(p, k)
    OBVIOUS
  <2>6. DOMAIN pool' = DOMAIN pool \cup {q} /\ pool'[q] = t
        /\ \A j \in DOMAIN pool : j # q => pool'[j] = pool[j]
    BY <1>5, <2>2 DEF Put
  <2>7. {q} \cup RegPages(t) = X
    BY <2>3, <2>5
  <2>8. RegionsOK(pool') /\ Gains(OfPools(pool), OfPools(pool'), q, X)
    BY <1>0, <2>3, <2>4, <2>6, <2>7, PoolUpdated
  <2>9. Takes(unmovable, reclaimable, unmovable', reclaimable', X)
    BY <1>5, <2>1, <2>5, ZonesApart DEF Takes
  <2>10. Split(unmovable', reclaimable', frames, OfCaches(cache), OfPools(pool'),
               RegionPages(g_memory_start, g_memory_size))
    BY <1>0, <2>8, <2>9, PoolTakes
  <2> QED
    BY <2>8, <2>10 DEF PoolPart
<1>6. \/ UNCHANGED poolVars /\ UNCHANGED zoneVars
      \/ \E q \in unmovable, p \in Blocks(reclaimable, k) :
           /\ unmovable' = unmovable \ {q} /\ reclaimable' = reclaimable \ Block(p, k)
           /\ pool' = Put(pool, q, Grown(r, p, k))
  BY <1>2, <1>3, PoolCreateCases, Zenon
<1> QED
  BY <1>1, <1>5, <1>6

\* Handing out an object leaves the regions alone.
LEMMA PopPages ==
  ASSUME NEW q \in DOMAIN pool, NEW r, PoolOK(r), Pop(q, r)
  PROVE  /\ DOMAIN pool' = DOMAIN pool /\ PoolOK(pool'[q])
         /\ RegPages(pool'[q]) = RegPages(r)
         /\ \A j \in DOMAIN pool : j # q => pool'[j] = pool[j]
<1>1. PICK l \in Rest(r.free_list) :
        pool' = [pool EXCEPT ![q] = [r EXCEPT !.free_objects = (@ - 1) % CountMod,
                                              !.free_list = l]]
  BY DEF Pop
<1>2. PICK t : t = [r EXCEPT !.free_objects = (@ - 1) % CountMod, !.free_list = l]
               /\ pool' = [pool EXCEPT ![q] = t]
  BY <1>1
<1>3. DOMAIN t = PoolFields /\ t.regions = r.regions
  BY <1>2 DEF PoolOK, PoolFields
<1>4. PoolOK(t) /\ RegPages(t) = RegPages(r)
  BY <1>3 DEF PoolOK, RegPages
<1> QED
  BY <1>2, <1>4

\* pool_alloc pops the free list, or grows first, or fails.
LEMMA PoolAllocCases ==
  ASSUME NEW q, pool_alloc(q)
  PROVE  \/ pool[q].free_list # <<>> /\ Pop(q, pool[q]) /\ UNCHANGED zoneVars
         \/ UNCHANGED poolVars /\ UNCHANGED zoneVars
         \/ /\ pool[q].free_list = <<>>
            /\ \E p \in Blocks(reclaimable, GrowOrder(pool[q], pool[q].grow_count)) :
                 /\ TakeReclaimable(p, GrowOrder(pool[q], pool[q].grow_count))
                 /\ Pop(q, Grown(pool[q], p, GrowOrder(pool[q], pool[q].grow_count)))
BY Zenon DEF pool_alloc

\* An allocation, after which the pool may have a region more.
LEMMA PoolAllocPages ==
  ASSUME PagesInv, reclaimable \subseteq Nat, NEW q \in DOMAIN pool, pool_alloc(q)
  PROVE  PoolPart(pool', unmovable', reclaimable')
<1>0. /\ RegionsOK(pool)
      /\ Split(unmovable, reclaimable, frames, OfCaches(cache), OfPools(pool),
               RegionPages(g_memory_start, g_memory_size))
  BY DEF PagesInv, SlabPart
<1>1. PICK r : r = pool[q]
  OBVIOUS
<1>2. PICK k : k = GrowOrder(r, r.grow_count)
  OBVIOUS
<1>3. PoolOK(r) /\ k \in Orders
  BY <1>0, <1>1, <1>2, GrowOrderOK DEF RegionsOK
<1>4. CASE UNCHANGED poolVars /\ UNCHANGED zoneVars
  BY <1>0, <1>4 DEF PoolPart, poolVars, zoneVars
<1>5. ASSUME NEW t, PoolOK(t), Pop(q, t), NEW X, RegPages(t) = RegPages(r) \cup X,
             Takes(unmovable, reclaimable, unmovable', reclaimable', X)
      PROVE  PoolPart(pool', unmovable', reclaimable')
  <2>1. DOMAIN pool' = DOMAIN pool /\ PoolOK(pool'[q]) /\ RegPages(pool'[q]) = RegPages(t)
        /\ \A j \in DOMAIN pool : j # q => pool'[j] = pool[j]
    BY <1>5, PopPages
  <2>2. {q} \cup RegPages(pool'[q]) = {q} \cup RegPages(pool[q]) \cup X
    BY <1>1, <1>5, <2>1
  <2>3. DOMAIN pool' = DOMAIN pool \cup {q}
    BY <2>1
  <2>4. RegionsOK(pool') /\ Gains(OfPools(pool), OfPools(pool'), q, X)
    BY <1>0, <2>1, <2>2, <2>3, PoolUpdated
  <2>5. Split(unmovable', reclaimable', frames, OfCaches(cache), OfPools(pool'),
              RegionPages(g_memory_start, g_memory_size))
    BY <1>0, <1>5, <2>4, PoolTakes
  <2> QED
    BY <2>4, <2>5 DEF PoolPart
<1>6. CASE Pop(q, r) /\ UNCHANGED zoneVars
  <2>1. RegPages(r) = RegPages(r) \cup {}
    OBVIOUS
  <2>2. Takes(unmovable, reclaimable, unmovable', reclaimable', {})
    BY <1>6 DEF Takes, zoneVars
  <2> QED
    BY <1>3, <1>5, <1>6, <2>1, <2>2
<1>7. ASSUME NEW p \in Blocks(reclaimable, k), TakeReclaimable(p, k), Pop(q, Grown(r, p, k))
      PROVE  PoolPart(pool', unmovable', reclaimable')
  <2>1. p \in Nat /\ Block(p, k) \subseteq reclaimable
    BY DEF Blocks
  <2>2. PICK t : t = Grown(r, p, k)
    OBVIOUS
  <2>3. PoolOK(t) /\ RegPages(t) = RegPages(r) \cup Block(p, k)
    BY <1>3, <2>1, <2>2, GrownPages
  <2>4. Takes(unmovable, reclaimable, unmovable', reclaimable', Block(p, k))
    BY <1>7, <2>1, ZonesApart, PageTaken DEF TakeReclaimable
  <2>5. Pop(q, t)
    BY <1>7, <2>2
  <2> QED
    BY <1>5, <2>3, <2>4, <2>5
<1> QED
  BY <1>1, <1>2, <1>4, <1>6, <1>7, PoolAllocCases

\* An object that comes back leaves the regions alone.
LEMMA PoolFreePages ==
  ASSUME PagesInv, NEW q \in DOMAIN pool, NEW o, pool_free(q, o)
  PROVE  PoolPart(pool', unmovable', reclaimable')
<1>0. /\ RegionsOK(pool)
      /\ Split(unmovable, reclaimable, frames, OfCaches(cache), OfPools(pool),
               RegionPages(g_memory_start, g_memory_size))
  BY DEF PagesInv, SlabPart
<1>1. PICK r : r = pool[q]
  OBVIOUS
<1>2. PICK t : t = [r EXCEPT !.free_list = <<o>> \o @, !.free_objects = (@ + 1) % CountMod]
  OBVIOUS
<1>3. pool' = [pool EXCEPT ![q] = t] /\ UNCHANGED zoneVars
  BY <1>1, <1>2 DEF pool_free
<1>4. PoolOK(r)
  BY <1>0, <1>1 DEF RegionsOK
<1>5. DOMAIN t = PoolFields /\ t.regions = r.regions
  BY <1>2, <1>4 DEF PoolOK, PoolFields
<1>6. PoolOK(t) /\ RegPages(t) = RegPages(r)
  BY <1>4, <1>5 DEF PoolOK, RegPages
<1>7. DOMAIN pool' = DOMAIN pool \cup {q} /\ pool'[q] = t
      /\ \A j \in DOMAIN pool : j # q => pool'[j] = pool[j]
  BY <1>3
<1>8. {q} \cup RegPages(t) = {q} \cup RegPages(pool[q]) \cup {}
  BY <1>1, <1>6
<1>9. RegionsOK(pool') /\ Gains(OfPools(pool), OfPools(pool'), q, {})
  BY <1>0, <1>6, <1>7, <1>8, PoolUpdated
<1>10. Takes(unmovable, reclaimable, unmovable', reclaimable', {})
  BY <1>3 DEF Takes, zoneVars
<1>11. Split(unmovable', reclaimable', frames, OfCaches(cache), OfPools(pool'),
             RegionPages(g_memory_start, g_memory_size))
  BY <1>0, <1>9, <1>10, PoolTakes
<1> QED
  BY <1>9, <1>11 DEF PoolPart

\* A pool that goes gives back what it had, if the orders are guessed right.
LEMMA PoolDestroyPages ==
  ASSUME PagesInv, NEW q \in DOMAIN pool, pool_destroy(q), Sound'
  PROVE  PoolPart(pool', unmovable', reclaimable')
<1>0. /\ RegionsOK(pool)
      /\ Split(unmovable, reclaimable, frames, OfCaches(cache), OfPools(pool),
               RegionPages(g_memory_start, g_memory_size))
  BY DEF PagesInv, SlabPart
<1>1. DOMAIN pool' = DOMAIN pool \ {q} /\ \A j \in DOMAIN pool' : pool'[j] = pool[j]
  BY DEF pool_destroy, Drop
<1>2. RegionsOK(pool')
  BY <1>0, <1>1 DEF RegionsOK
<1>3. Loses(OfPools(pool), OfPools(pool'), q)
  <2>1. DOMAIN OfPools(pool) = DOMAIN pool /\ DOMAIN OfPools(pool') = DOMAIN pool'
    BY DEF OfPools
  <2>2. \A j \in DOMAIN pool' : OfPools(pool')[j] = OfPools(pool)[j]
    BY <1>1 DEF OfPools
  <2> QED
    BY <1>1, <2>1, <2>2 DEF Loses
<1>4. UNION {Block(g.page, FreedOrder(g.page)) : g \in Range(pool[q].regions)}
        = RegPages(pool[q])
  <2>1. \A g \in Range(pool[q].regions) : FreedOrder(g.page) = g.order
    BY DEF pool_destroy, Sound
  <2> QED
    BY <2>1 DEF RegPages
<1>5. OfPools(pool)[q] = {q} \cup RegPages(pool[q])
  BY DEF OfPools
<1>6. unmovable' = unmovable \cup OfPools(pool)[q] /\ reclaimable' = reclaimable
  BY <1>4, <1>5 DEF pool_destroy
<1>7. Split(unmovable', reclaimable', frames, OfCaches(cache), OfPools(pool'),
            RegionPages(g_memory_start, g_memory_size))
  BY <1>0, <1>3, <1>6, PoolGives
<1> QED
  BY <1>2, <1>7 DEF PoolPart

\* Whatever the pools do, pages stay accounted for, unless an order is guessed
\* wrong.
LEMMA PoolStepPages ==
  ASSUME PagesInv, reclaimable \subseteq Nat, PoolNext, Sound'
  PROVE  PoolPart(pool', unmovable', reclaimable')
BY PoolCreatePages, PoolAllocPages, PoolFreePages, PoolDestroyPages DEF PoolNext

-----------------------------------------------------------------------------
(* Frames, and the boot *)

\* A frame is lent or comes back.
LEMMA PmmStepPages ==
  ASSUME PagesInv, PmmNext
  PROVE  Split(unmovable', reclaimable', frames', OfCaches(cache), OfPools(pool),
               RegionPages(g_memory_start, g_memory_size))
<1>0. Split(unmovable, reclaimable, frames, OfCaches(cache), OfPools(pool),
            RegionPages(g_memory_start, g_memory_size))
  BY DEF PagesInv, SlabPart
<1>1. CASE UNCHANGED pmmVars /\ UNCHANGED zoneVars
  BY <1>0, <1>1 DEF pmmVars, zoneVars
<1>2. ASSUME NEW p \in unmovable, TakeUnmovable(p), frames' = frames \cup {p}
      PROVE  Split(unmovable', reclaimable', frames', OfCaches(cache), OfPools(pool),
                   RegionPages(g_memory_start, g_memory_size))
  <2>1. Split(unmovable \ {p}, reclaimable, frames \cup {p}, OfCaches(cache), OfPools(pool),
              RegionPages(g_memory_start, g_memory_size))
    BY <1>0, FrameMoves
  <2> QED
    BY <1>2, <2>1 DEF TakeUnmovable
<1>3. ASSUME NEW p \in frames, pmm_free_frame(p)
      PROVE  Split(unmovable', reclaimable', frames', OfCaches(cache), OfPools(pool),
                   RegionPages(g_memory_start, g_memory_size))
  <2>1. Split(unmovable \cup {p}, reclaimable, frames \ {p}, OfCaches(cache), OfPools(pool),
              RegionPages(g_memory_start, g_memory_size))
    BY <1>0, FrameMoves
  <2> QED
    BY <1>3, <2>1 DEF pmm_free_frame, FreePages
<1> QED
  BY <1>1, <1>2, <1>3 DEF PmmNext, pmm_alloc_frame

\* The pages of a region are numbers, and a region without bytes has none.
LEMMA RegionNat ==
  ASSUME NEW start \in Nat, NEW size \in Nat
  PROVE  /\ RegionPages(start, size) \subseteq Nat /\ IsFiniteSet(RegionPages(start, size))
         /\ size = 0 => RegionPages(start, size) = {}
<1>1. PICK b \in Nat \ {0} : b = BUDDY_PAGE_SIZE
  BY ZoneNumbers
<1>2. PICK n : n = bytes_to_pages(size)
  OBVIOUS
<1>3. n \in Int /\ (size = 0 => n = 0)
  <2>1. n = (size + b - 1) \div b
    BY <1>1, <1>2 DEF bytes_to_pages
  <2>2. n \in Int
    BY <2>1
  <2>3. ASSUME size = 0 PROVE n = 0
    BY <2>1, <2>3
  <2> QED
    BY <2>2, <2>3
<1>4. PICK p : p = PageOf(start)
  OBVIOUS
<1>5. p \in Nat
  BY <1>1, <1>4 DEF PageOf
<1>6. RegionPages(start, size) = {p + i : i \in 0..(n - 1)}
  BY <1>2, <1>4 DEF RegionPages
<1>7. IsFiniteSet(RegionPages(start, size))
  <2>1. PICK x \in Int : x = p
    BY <1>5
  <2>2. PICK y \in Int : y = p + n - 1
    BY <1>3, <1>5
  <2>3. IsFiniteSet(x..y)
    BY FS_Interval
  <2>4. RegionPages(start, size) \in SUBSET (x..y)
    BY <1>3, <1>5, <1>6, <2>1, <2>2
  <2> QED
    BY <2>3, <2>4, FS_Subset
<1> QED
  BY <1>3, <1>5, <1>6, <1>7

\* pmm_init hands an available entry to the page allocator, or nothing.
LEMMA PmmInitRegion ==
  ASSUME mmap \in Seq(MapEntries), pmm_init
  PROVE  \/ UNCHANGED zoneVars /\ UNCHANGED <<g_pmm_free, g_buddy_initialized>>
         \/ \E i \in DOMAIN mmap :
              /\ Available(i) /\ mmap[i].addr \in Nat /\ mmap[i].len \in Nat
              /\ buddy_init(mmap[i].addr, mmap[i].len) /\ g_pmm_free' = mmap[i].len
<1>1. CASE Largest = {}
  BY <1>1 DEF pmm_init
<1>2. CASE Largest # {}
  <2>1. PICK i : i = CHOOSE n \in Largest : \A j \in Largest : n <= j
    OBVIOUS
  <2>2. Largest \subseteq DOMAIN mmap
    BY DEF Largest
  <2>3. Largest \in SUBSET Nat
    BY <2>2
  <2>4. \E n \in Largest : \A j \in Largest : n <= j
    BY <1>2, <2>3, LeastNat
  <2>5. i \in Largest
    BY <2>1, <2>4
  <2>6. i \in DOMAIN mmap /\ Available(i)
    BY <2>5 DEF Largest
  <2>7. mmap[i] \in MapEntries
    BY <2>6
  <2>8. mmap[i].addr \in Nat /\ mmap[i].len \in Nat
    BY <2>7 DEF MapEntries
  <2>9. buddy_init(mmap[i].addr, mmap[i].len) /\ g_pmm_free' = mmap[i].len
    BY <1>2, <2>1, Zenon DEF pmm_init
  <2> QED
    BY <2>6, <2>8, <2>9
<1> QED
  BY <1>1, <1>2

\* A step that reads a tag.
LEMMA TagRead ==
  ASSUME BootInv, ReadTag
  PROVE  /\ boot' \in {"tags", "pmm"} /\ tags' \in DOMAIN multiboot_info
         /\ mmap' \in Seq(MapEntries) /\ g_memory_size = 0 /\ boot # "ready"
<1>1. PICK i \in Infos : i = multiboot_info
  BY DEF BootInv
<1>2. tags \in DOMAIN i /\ mmap \in Seq(MapEntries) /\ boot = "tags" /\ g_memory_size = 0
  BY <1>1 DEF BootInv, ReadTag
<1>3. /\ i[tags].mmap \in Seq(MapEntries)
      /\ i[tags].type # 0 => tags + align_up(i[tags].size, 8) \in DOMAIN i
  BY <1>2, InfoAssumption DEF MapEntries
<1>4. /\ boot' = "pmm" \/ boot' = boot
      /\ mmap' = mmap \/ mmap' = i[tags].mmap
      /\ tags' = tags \/ (i[tags].type # 0 /\ tags' = tags + align_up(i[tags].size, 8))
  BY <1>1, Zenon DEF ReadTag
<1> QED
  BY <1>1, <1>2, <1>3, <1>4

\* The slab allocator never changes the region, and takes from RECLAIMABLE only.
LEMMA SlabZones ==
  ASSUME SlabNext
  PROVE  /\ UNCHANGED <<g_memory_start, g_memory_size>>
         /\ reclaimable' \subseteq reclaimable /\ damage \subseteq damage'
<1>1. ASSUME NEW c \in CPUs, AllocSlow(c)
      PROVE  /\ UNCHANGED <<g_memory_start, g_memory_size>>
             /\ reclaimable' \subseteq reclaimable /\ damage \subseteq damage'
  <2>1. UNCHANGED zoneVars \/ \E p \in reclaimable : TakeReclaimable(p, 0)
    BY <1>1, SlowCases, Zenon DEF SlowWays
  <2> QED
    BY <2>1 DEF TakeReclaimable, zoneVars
<1>2. ASSUME NEW c \in CPUs, AllocDivides(c) \/ Halted(c)
      PROVE  /\ UNCHANGED <<g_memory_start, g_memory_size>>
             /\ reclaimable' \subseteq reclaimable /\ damage \subseteq damage'
  BY <1>2 DEF AllocDivides, Halted, zoneVars
<1>3. ASSUME NEW c \in CPUs,
             \/ \E f \in Formats : slab_cache_create(c, f[1], f[2])
             \/ \E k \in DOMAIN cache : slab_cache_destroy(c, k)
             \/ \E k \in DOMAIN cache : AllocLoad(c, k)
             \/ AllocStore(c) \/ AllocRead(c)
             \/ \E x \in loans[c] : FreeLoad(c, x[1], x[2])
             \/ FreeArray(c) \/ FreeStore(c) \/ FreeCount(c) \/ FreeSlow(c)
      PROVE  UNCHANGED <<g_memory_start, g_memory_size, reclaimable, damage>>
  BY <1>3, Zenon DEF slab_cache_create, slab_cache_destroy, AllocLoad, AllocStore,
    AllocRead, FreeLoad, FreeArray, FreeStore, FreeCount, FreeSlow, zoneVars,
    TakeUnmovable, FreePages
<1> QED
  BY <1>1, <1>2, <1>3 DEF SlabNext

\* Neither do the pools.
LEMMA PoolZones ==
  ASSUME PoolNext
  PROVE  /\ UNCHANGED <<g_memory_start, g_memory_size>>
         /\ reclaimable' \subseteq reclaimable /\ damage \subseteq damage'
<1>1. ASSUME NEW f \in PoolFormats, pool_create(f[1], f[2])
      PROVE  /\ UNCHANGED <<g_memory_start, g_memory_size>>
             /\ reclaimable' \subseteq reclaimable /\ damage \subseteq damage'
  BY <1>1, PoolCreateCases DEF zoneVars
<1>2. ASSUME NEW q \in DOMAIN pool, pool_alloc(q)
      PROVE  /\ UNCHANGED <<g_memory_start, g_memory_size>>
             /\ reclaimable' \subseteq reclaimable /\ damage \subseteq damage'
  <2>1. UNCHANGED zoneVars \/ \E p, k : TakeReclaimable(p, k)
    BY <1>2, PoolAllocCases, Zenon
  <2> QED
    BY <2>1 DEF TakeReclaimable, zoneVars
<1>3. ASSUME NEW q \in DOMAIN pool, pool_destroy(q) \/ \E o : pool_free(q, o)
      PROVE  /\ UNCHANGED <<g_memory_start, g_memory_size>>
             /\ reclaimable' \subseteq reclaimable /\ damage \subseteq damage'
  BY <1>3 DEF pool_destroy, pool_free, zoneVars
<1> QED
  BY <1>1, <1>2, <1>3 DEF PoolNext

\* The region and the map keep their shape, whatever happens.
LEMMA BootStep ==
  ASSUME BootInv, RegionInv, Next
  PROVE  BootInv' /\ RegionInv'
<1>1. CASE ReadTag
  <2>1. /\ boot' \in {"tags", "pmm"} /\ tags' \in DOMAIN multiboot_info
        /\ mmap' \in Seq(MapEntries) /\ g_memory_size = 0 /\ boot # "ready"
    BY <1>1, TagRead
  <2>2. /\ multiboot_info' = multiboot_info /\ frames' = frames
        /\ UNCHANGED zoneVars /\ cache' = cache /\ pool' = pool
    BY <1>1 DEF ReadTag, slabVars, poolVars
  <2>3. BootInv'
    BY <2>1, <2>2 DEF BootInv, NothingTaken, zoneVars
  <2>4. RegionInv'
    BY <2>1, <2>2 DEF RegionInv, zoneVars
  <2> QED
    BY <2>3, <2>4
<1>2. CASE InitMemory
  <2>0. boot = "pmm" /\ boot' = "ready" /\ UNCHANGED <<multiboot_info, tags>>
    BY <1>2 DEF InitMemory
  <2>1. mmap' = mmap
    BY <1>2 DEF InitMemory, pmm_init, pmmVars
  <2>2. mmap \in Seq(MapEntries)
    BY DEF BootInv
  <2>3. CASE UNCHANGED zoneVars
    <3>1. BootInv'
      BY <2>0, <2>1, <2>3 DEF BootInv, zoneVars
    <3>2. RegionInv'
      BY <2>0, <2>1, <2>3 DEF BootInv, RegionInv, zoneVars
    <3> QED
      BY <3>1, <3>2
  <2>4. ASSUME NEW i \in DOMAIN mmap, Available(i), mmap[i].addr \in Nat, mmap[i].len \in Nat,
               buddy_init(mmap[i].addr, mmap[i].len)
        PROVE  BootInv' /\ RegionInv'
    <3>1. /\ g_memory_start' = mmap[i].addr /\ g_memory_size' = mmap[i].len
          /\ reclaimable' = RegionPages(mmap[i].addr, mmap[i].len) \cap ReclaimablePages
      BY <2>4 DEF buddy_init
    <3>2. reclaimable' \subseteq Nat
      BY <3>1, ZoneAssumption
    <3>3. BootInv'
      BY <2>0, <2>1, <2>4, <3>1, <3>2 DEF BootInv
    <3>4. RegionInv'
      BY <2>1, <2>4, <3>1 DEF RegionInv, Available
    <3> QED
      BY <3>3, <3>4
  <2>5. UNCHANGED zoneVars \/ pmm_init
    BY <1>2 DEF InitMemory
  <2> QED
    BY <2>2, <2>3, <2>4, <2>5, PmmInitRegion
<1>3. ASSUME boot = "ready", UNCHANGED bootVars, mmap' = mmap,
             UNCHANGED <<g_memory_start, g_memory_size>>, reclaimable' \subseteq reclaimable
      PROVE  BootInv' /\ RegionInv'
  <2>1. BootInv'
    BY <1>3 DEF BootInv, bootVars
  <2>2. RegionInv'
    BY <1>3 DEF RegionInv, Available
  <2> QED
    BY <2>1, <2>2
<1>4. CASE boot = "ready" /\ SlabNext /\ UNCHANGED <<poolVars, pmmVars, bootVars>>
  BY <1>3, <1>4, SlabZones DEF pmmVars
<1>5. CASE Idle /\ PoolNext /\ UNCHANGED <<slabVars, pmmVars, bootVars>>
  BY <1>3, <1>5, PoolZones DEF pmmVars, Idle
<1>6. CASE Idle /\ PmmNext /\ UNCHANGED <<slabVars, poolVars, bootVars>>
  <2>1. UNCHANGED <<g_memory_start, g_memory_size>> /\ reclaimable' \subseteq reclaimable
        /\ mmap' = mmap
    BY <1>6 DEF PmmNext, pmm_alloc_frame, pmm_free_frame, zoneVars, pmmVars, TakeUnmovable, FreePages
  <2> QED
    BY <1>3, <1>6, <2>1 DEF Idle
<1> QED
  BY <1>1, <1>2, <1>4, <1>5, <1>6 DEF Next, Boot

\* Free pages are numbers.
LEMMA ZonesNat ==
  ASSUME BootInv, PagesInv
  PROVE  unmovable \subseteq Nat /\ reclaimable \subseteq Nat
<1>1. g_memory_start \in Nat /\ g_memory_size \in Nat /\ reclaimable \subseteq Nat
  BY DEF BootInv
<1>2. RegionPages(g_memory_start, g_memory_size) \subseteq Nat
  BY <1>1, RegionNat
<1> QED
  BY <1>1, <1>2 DEF PagesInv, SlabPart, Split

\* The boot keeps the pages: nobody has any yet.
LEMMA BootPages ==
  ASSUME BootInv, PagesInv, Boot
  PROVE  PagesInv'
<1>1. CASE ReadTag
  <2>1. UNCHANGED <<cache, at, arg, loans, pool, frames, zoneVars>>
    BY <1>1 DEF ReadTag, slabVars, poolVars
  <2> QED
    BY <2>1 DEF PagesInv, SlabPart, zoneVars
<1>2. CASE InitMemory
  <2>1. /\ boot = "pmm" /\ UNCHANGED <<cache, at, arg, loans, pool>> /\ frames' = frames
        /\ UNCHANGED zoneVars \/ pmm_init
    BY <1>2 DEF InitMemory, pmm_init, poolVars, pmmVars
  <2>2. CASE UNCHANGED zoneVars
    BY <2>1, <2>2 DEF PagesInv, SlabPart, zoneVars
  <2>3. ASSUME NEW start, NEW size, buddy_init(start, size)
        PROVE  PagesInv'
    <3>1. DOMAIN cache' = {} /\ DOMAIN pool' = {} /\ frames' = {}
      BY <2>1 DEF BootInv, NothingTaken
    <3>2. DOMAIN OfCaches(cache') = {} /\ DOMAIN OfPools(pool') = {}
      BY <3>1 DEF OfCaches, OfPools
    <3>3. AllOf(OfCaches(cache')) = {} /\ AllOf(OfPools(pool')) = {}
      BY <3>2 DEF AllOf
    <3>4. PICK R : R = RegionPages(start, size)
      OBVIOUS
    <3>5. /\ RegionPages(g_memory_start', g_memory_size') = R
          /\ unmovable' = R \ ReclaimablePages /\ reclaimable' = R \cap ReclaimablePages
      BY <2>3, <3>4 DEF buddy_init
    <3>6. Split(unmovable', reclaimable', frames', OfCaches(cache'), OfPools(pool'), R)
      BY <3>1, <3>2, <3>3, <3>5 DEF Split
    <3>7. CachesOK(cache') /\ CallsOK(cache', at', arg') /\ LoansOK(cache', loans')
          /\ RegionsOK(pool')
      BY <2>1 DEF PagesInv, SlabPart
    <3> QED
      BY <3>5, <3>6, <3>7 DEF PagesInv, SlabPart
  <2> QED
    BY <2>1, <2>2, <2>3, PmmInitRegion DEF BootInv
<1> QED
  BY <1>1, <1>2 DEF Boot

\* What went wrong stays so.
LEMMA SoundBefore ==
  ASSUME [Next]_vars, Sound'
  PROVE  Sound
<1>1. CASE UNCHANGED vars
  BY <1>1 DEF vars, zoneVars, Sound
<1>2. CASE SlabNext
  BY <1>2, SlabZones DEF Sound
<1>3. CASE PoolNext
  BY <1>3, PoolZones DEF Sound
<1>4. CASE PmmNext
  BY <1>4 DEF PmmNext, pmm_alloc_frame, pmm_free_frame, zoneVars, TakeUnmovable, FreePages, Sound
<1>5. CASE Boot
  BY <1>5 DEF Boot, ReadTag, InitMemory, pmm_init, buddy_init, zoneVars, Sound
<1> QED
  BY <1>1, <1>2, <1>3, <1>4, <1>5 DEF Next

\* Every step keeps the pages, as long as nothing goes wrong.
LEMMA PagesStep ==
  ASSUME OneCPU, BootInv, PagesInv, [Next]_vars, Sound'
  PROVE  PagesInv'
<1>0. unmovable \subseteq Nat /\ reclaimable \subseteq Nat
  BY ZonesNat
<1>1. CASE UNCHANGED vars
  BY <1>1 DEF vars, zoneVars, slabVars, poolVars, pmmVars, PagesInv, SlabPart
<1>2. CASE SlabNext /\ UNCHANGED <<poolVars, pmmVars, bootVars>>
  <2>1. SlabPart(cache', at', arg', unmovable', reclaimable') /\ LoansOK(cache', loans')
    BY <1>0, <1>2, SlabStepPages, SlabStepLoans DEF PagesInv, SlabPart, CallsOK
  <2>2. frames' = frames /\ pool' = pool
    BY <1>2 DEF pmmVars, poolVars
  <2>3. UNCHANGED <<g_memory_start, g_memory_size>>
    BY <1>2, SlabZones
  <2> QED
    BY <2>1, <2>2, <2>3 DEF PagesInv, SlabPart
<1>3. CASE PoolNext /\ UNCHANGED <<slabVars, pmmVars, bootVars>>
  <2>1. PoolPart(pool', unmovable', reclaimable')
    BY <1>0, <1>3, PoolStepPages
  <2>2. UNCHANGED <<frames, cache, at, arg, loans, g_memory_start, g_memory_size>>
    BY <1>3, PoolZones DEF pmmVars, slabVars
  <2>3. CachesOK(cache) /\ CallsOK(cache, at, arg) /\ LoansOK(cache, loans)
    BY DEF PagesInv, SlabPart
  <2> QED
    BY <2>1, <2>2, <2>3 DEF PagesInv, SlabPart, PoolPart
<1>4. CASE PmmNext /\ UNCHANGED <<slabVars, poolVars, bootVars>>
  <2>1. Split(unmovable', reclaimable', frames', OfCaches(cache), OfPools(pool),
              RegionPages(g_memory_start, g_memory_size))
    BY <1>4, PmmStepPages
  <2>2. UNCHANGED <<cache, at, arg, loans, pool>>
    BY <1>4 DEF slabVars, poolVars
  <2>3. UNCHANGED <<g_memory_start, g_memory_size>>
    BY <1>4 DEF PmmNext, pmm_alloc_frame, pmm_free_frame, zoneVars, TakeUnmovable, FreePages
  <2> QED
    BY <2>1, <2>2, <2>3 DEF PagesInv, SlabPart
<1>5. CASE Boot
  BY <1>5, BootPages
<1> QED
  BY <1>1, <1>2, <1>3, <1>4, <1>5 DEF Next

\* At the start nobody has a page.
LEMMA BootStart ==
  ASSUME Init
  PROVE  BootInv /\ RegionInv /\ PagesInv
<1>1. /\ g_memory_start = 0 /\ g_memory_size = 0 /\ unmovable = {} /\ reclaimable = {}
      /\ DOMAIN cache = {} /\ DOMAIN pool = {} /\ frames = {} /\ mmap = <<>>
      /\ multiboot_info \in Infos /\ tags = 0 /\ boot = "tags"
      /\ loans = [c \in CPUs |-> {}]
      /\ at = [c \in CPUs |-> "idle"] /\ arg = [c \in CPUs |-> <<>>]
  BY DEF Init, ZonesInit, SlabInit, PoolInit, PmmInit
<1>2. BootInv /\ RegionInv
  BY <1>1, InfoAssumption DEF BootInv, RegionInv, NothingTaken
<1>3. DOMAIN OfCaches(cache) = {} /\ DOMAIN OfPools(pool) = {}
  BY <1>1 DEF OfCaches, OfPools
<1>4. AllOf(OfCaches(cache)) = {} /\ AllOf(OfPools(pool)) = {}
  BY <1>3 DEF AllOf
<1>5. RegionPages(g_memory_start, g_memory_size) = {}
  BY <1>1, RegionNat
<1>6. Split(unmovable, reclaimable, frames, OfCaches(cache), OfPools(pool),
            RegionPages(g_memory_start, g_memory_size))
  BY <1>1, <1>3, <1>4, <1>5 DEF Split
<1>7. CachesOK(cache) /\ CallsOK(cache, at, arg) /\ LoansOK(cache, loans) /\ RegionsOK(pool)
  BY <1>1 DEF CachesOK, CallsOK, OnCaches, LoansOK, RegionsOK
<1> QED
  BY <1>2, <1>6, <1>7 DEF PagesInv, SlabPart

\* The boot and the region, without any condition: the page allocator has an
\* available entry of the memory map that the boot loader left, or nothing.
THEOREM BootSafe == Spec => [](BootInv /\ RegionInv)
<1>1. Init => BootInv /\ RegionInv
  BY BootStart
<1>2. BootInv /\ RegionInv /\ [Next]_vars => (BootInv /\ RegionInv)'
  <2>1. ASSUME BootInv, RegionInv, UNCHANGED vars PROVE (BootInv /\ RegionInv)'
    BY <2>1 DEF BootInv, RegionInv, NothingTaken, Available, vars, zoneVars, slabVars, poolVars,
       pmmVars, bootVars
  <2> QED
    BY <2>1, BootStep
<1> QED
  BY <1>1, <1>2, PTL DEF Spec

\* What the boot, the slabs, the pools and the frames keep together, on one CPU
\* and until an order is guessed wrong or a CPU divides by 0.
THEOREM PagesSafe ==
  ASSUME OneCPU
  PROVE  Spec => [](Sound => PagesInv)
<1>1. Init => PagesInv
  BY BootStart
<1>2. BootInv /\ (Sound => PagesInv) /\ [Next]_vars => (Sound => PagesInv)'
  BY PagesStep, SoundBefore
<1> QED
  BY <1>1, <1>2, BootSafe, PTL DEF Spec

\* The pages are where the property says.
LEMMA PagesApart ==
  ASSUME PagesInv
  PROVE  /\ unmovable \cup reclaimable \cup Held = RegionPages(g_memory_start, g_memory_size)
         /\ unmovable \cap reclaimable = {} /\ Held \cap (unmovable \cup reclaimable) = {}
         /\ OwnersApart
<1>1. PICK C : C = OfCaches(cache)
  OBVIOUS
<1>2. PICK P : P = OfPools(pool)
  OBVIOUS
<1>3. DOMAIN C = DOMAIN cache /\ \A k \in DOMAIN cache : C[k] = CachePages(k)
  BY <1>1 DEF OfCaches, OwnPages, ListPages, CachePages, SlabPages
<1>4. DOMAIN P = DOMAIN pool /\ \A q \in DOMAIN pool : P[q] = PoolPages(q)
  BY <1>2 DEF OfPools, RegPages, PoolPages, RegionPagesOf
<1>5. AllOf(C) = UNION {CachePages(k) : k \in DOMAIN cache}
  BY <1>3 DEF AllOf
<1>6. AllOf(P) = UNION {PoolPages(q) : q \in DOMAIN pool}
  BY <1>4 DEF AllOf
<1>7. Held = frames \cup AllOf(C) \cup AllOf(P)
  <2>1. \A x : x \in Held <=>
          \/ x \in frames
          \/ \E k \in DOMAIN cache : x \in CachePages(k)
          \/ \E q \in DOMAIN pool : x \in PoolPages(q)
    BY DEF Held
  <2>2. \A x : x \in AllOf(C) <=> \E k \in DOMAIN cache : x \in CachePages(k)
    BY <1>5
  <2>3. \A x : x \in AllOf(P) <=> \E q \in DOMAIN pool : x \in PoolPages(q)
    BY <1>6
  <2> QED
    BY <2>1, <2>2, <2>3
<1>8. Split(unmovable, reclaimable, frames, C, P, RegionPages(g_memory_start, g_memory_size))
  BY <1>1, <1>2 DEF PagesInv, SlabPart
<1>9. unmovable \cup reclaimable \cup Held = RegionPages(g_memory_start, g_memory_size)
  BY <1>7, <1>8 DEF Split
<1>10. unmovable \cap reclaimable = {} /\ Held \cap (unmovable \cup reclaimable) = {}
  <2>1. unmovable \cap reclaimable = {} /\ (unmovable \cup reclaimable) \cap frames = {}
    BY <1>8 DEF Split
  <2>2. AllOf(C) \cap (unmovable \cup reclaimable) = {}
    BY <1>8 DEF Split, AllOf
  <2>3. AllOf(P) \cap (unmovable \cup reclaimable) = {}
    BY <1>8 DEF Split, AllOf
  <2> QED
    BY <1>7, <2>1, <2>2, <2>3
<1>11. OwnersApart
  BY <1>3, <1>4, <1>8 DEF Split, OwnersApart
<1> QED
  BY <1>9, <1>10, <1>11

\* Every page of the region is in one place, for memory, formats, frames, caches
\* and pools of any size and number, until an order is guessed wrong or a CPU
\* divides by 0.
THEOREM PagesTheorem ==
  ASSUME OneCPU
  PROVE  Spec => []PagesAccounted
<1>1. (Sound => PagesInv) => PagesAccounted
  BY PagesApart DEF PagesAccounted
<1> QED
  BY <1>1, PagesSafe, PTL

\* The map found so far has entries of whole pages.
MapWhole ==
  \A n \in DOMAIN mmap :
    mmap[n].addr % BUDDY_PAGE_SIZE = 0 /\ mmap[n].len % BUDDY_PAGE_SIZE = 0

\* A region of whole pages: its pages, how many they are, and where they lie.
LEMMA WholeRegion ==
  ASSUME NEW start \in Nat, NEW size \in Nat,
         start % BUDDY_PAGE_SIZE = 0, size % BUDDY_PAGE_SIZE = 0
  PROVE  /\ IsFiniteSet(RegionPages(start, size))
         /\ FRAME_SIZE * Cardinality(RegionPages(start, size)) = size
         /\ \A p \in RegionPages(start, size) :
              start <= p * BUDDY_PAGE_SIZE /\ (p + 1) * BUDDY_PAGE_SIZE <= start + size
<1>1. PICK b \in Nat \ {0} : b = BUDDY_PAGE_SIZE
  BY ZoneNumbers
<1>2. PICK a \in Int : a = start \div b
  OBVIOUS
<1>3. PICK n \in Int : n = size \div b
  OBVIOUS
<1>4. start = b * a /\ size = b * n
  BY <1>1, <1>2, <1>3, DivMod
<1>5. n \in Nat
  BY <1>4
<1>6. bytes_to_pages(size) = n
  <2>1. size + b - 1 = n * b + (b - 1)
    BY <1>4
  <2>2. b - 1 \in 0..(b - 1)
    OBVIOUS
  <2>3. (n * b + (b - 1)) \div b = n
    BY <2>2, DivUnique
  <2> QED
    BY <1>1, <2>1, <2>3 DEF bytes_to_pages
<1>7. RegionPages(start, size) = a..(a + n - 1)
  <2>1. RegionPages(start, size) = {a + i : i \in 0..(n - 1)}
    BY <1>1, <1>2, <1>6 DEF RegionPages, PageOf
  <2>2. ASSUME NEW x \in a..(a + n - 1) PROVE x \in {a + i : i \in 0..(n - 1)}
    <3>1. x - a \in 0..(n - 1) /\ x = a + (x - a)
      BY <1>5
    <3> QED
      BY <3>1
  <2> QED
    BY <2>1, <2>2, <1>5
<1>8. IsFiniteSet(a..(a + n - 1)) /\ Cardinality(a..(a + n - 1)) = n
  <2>1. a \in Int /\ a + n - 1 \in Int /\ (a > a + n - 1 <=> n = 0)
    BY <1>5
  <2>2. PICK z \in Int : z = a + n - 1
    BY <2>1
  <2>3. IsFiniteSet(a..z) /\ Cardinality(a..z) = IF a > z THEN 0 ELSE z - a + 1
    BY FS_Interval
  <2> QED
    BY <1>5, <2>1, <2>2, <2>3
<1>9. ASSUME NEW p \in a..(a + n - 1)
      PROVE  start <= p * b /\ (p + 1) * b <= start + size
  <2>1. p \in Int /\ p - a >= 0 /\ a + n - p - 1 >= 0
    BY <1>5
  <2>2. b * (p - a) >= 0 /\ b * (a + n - p - 1) >= 0
    BY <2>1, <1>5
  <2> QED
    BY <2>1, <2>2, <1>4
<1> QED
  BY <1>1, <1>4, <1>7, <1>8, <1>9 DEF FRAME_SIZE

\* The map keeps its whole pages.
LEMMA MapStep ==
  ASSUME MapsAligned, BootInv, MapWhole, [Next]_vars
  PROVE  MapWhole'
<1>1. CASE mmap' = mmap
  BY <1>1 DEF MapWhole
<1>2. CASE ReadTag
  <2>1. PICK i \in Infos : i = multiboot_info
    BY DEF BootInv
  <2>2. tags \in DOMAIN i
    BY <2>1 DEF BootInv
  <2>3. mmap' = mmap \/ mmap' = i[tags].mmap
    BY <1>2, <2>1, Zenon DEF ReadTag
  <2> QED
    BY <1>1, <2>2, <2>3, InfoAssumption DEF MapWhole, MapsAligned
<1>3. CASE InitMemory \/ PmmNext
  <2>1. mmap' = mmap
    BY <1>3 DEF InitMemory, pmm_init, pmmVars, PmmNext, pmm_alloc_frame, pmm_free_frame
  <2> QED
    BY <1>1, <2>1
<1>4. CASE UNCHANGED pmmVars
  BY <1>1, <1>4 DEF pmmVars
<1> QED
  BY <1>2, <1>3, <1>4 DEF Next, Boot, vars

\* The region is of whole pages.
LEMMA RegionWhole ==
  ASSUME BootInv, RegionInv, MapWhole, g_memory_size # 0
  PROVE  /\ g_memory_start \in Nat /\ g_memory_size \in Nat
         /\ g_memory_start % BUDDY_PAGE_SIZE = 0 /\ g_memory_size % BUDDY_PAGE_SIZE = 0
BY DEF BootInv, RegionInv, MapWhole

\* Frames are pages of the region.
LEMMA FramesInRegion ==
  ASSUME BootInv, PagesInv
  PROVE  /\ frames \cup unmovable \subseteq RegionPages(g_memory_start, g_memory_size)
         /\ frames \cap unmovable = {}
         /\ g_memory_size = 0 => frames = {} /\ unmovable = {}
<1>1. /\ frames \cup unmovable \subseteq RegionPages(g_memory_start, g_memory_size)
      /\ frames \cap unmovable = {}
  BY DEF PagesInv, SlabPart, Split
<1>2. g_memory_size = 0 => RegionPages(g_memory_start, g_memory_size) = {}
  BY RegionNat DEF BootInv
<1> QED
  BY <1>1, <1>2

\* A frame lies inside an available entry of the map.
LEMMA FramesInside ==
  ASSUME BootInv, RegionInv, MapWhole, PagesInv
  PROVE  FramesUsable
<1>1. SUFFICES ASSUME NEW p \in frames
               PROVE  \E i \in DOMAIN mmap :
                        /\ Available(i) /\ mmap[i].addr <= p * BUDDY_PAGE_SIZE
                        /\ (p + 1) * BUDDY_PAGE_SIZE <= mmap[i].addr + mmap[i].len
  BY DEF FramesUsable
<1>2. g_memory_size # 0 /\ p \in RegionPages(g_memory_start, g_memory_size)
  BY FramesInRegion
<1>3. PICK i \in DOMAIN mmap :
        Available(i) /\ g_memory_start = mmap[i].addr /\ g_memory_size = mmap[i].len
  BY <1>2 DEF RegionInv
<1>4. /\ g_memory_start <= p * BUDDY_PAGE_SIZE
      /\ (p + 1) * BUDDY_PAGE_SIZE <= g_memory_start + g_memory_size
  BY <1>2, RegionWhole, WholeRegion
<1> QED
  BY <1>3, <1>4

\* A frame lies inside an available entry of the boot loader's map, for maps of
\* whole pages and until an order is guessed wrong.
THEOREM FramesTheorem ==
  ASSUME OneCPU, MapsAligned
  PROVE  Spec => []FramesUsable
<1>1. Init => MapWhole
  BY DEF Init, PmmInit, MapWhole
<1>2. BootInv /\ MapWhole /\ [Next]_vars => MapWhole'
  BY MapStep
<1>3. BootInv /\ RegionInv /\ MapWhole /\ (Sound => PagesInv) => FramesUsable
  BY FramesInside DEF FramesUsable
<1> QED
  BY <1>1, <1>2, <1>3, BootSafe, PagesSafe, PTL DEF Spec

\* What the two properties of g_pmm_free say while nothing went wrong.
PmmExact ==
  g_buddy_initialized => g_pmm_free = g_memory_size - FRAME_SIZE * Cardinality(frames)
PmmCovers ==
  g_buddy_initialized =>
    g_pmm_free \in Int /\ g_pmm_free >= g_memory_size - FRAME_SIZE * Cardinality(frames)

\* Callers hold a number of frames.
LEMMA FramesFinite ==
  ASSUME BootInv, PagesInv
  PROVE  IsFiniteSet(frames) /\ Cardinality(frames) \in Nat
<1>1. IsFiniteSet(RegionPages(g_memory_start, g_memory_size))
  BY RegionNat DEF BootInv
<1>2. frames \in SUBSET RegionPages(g_memory_start, g_memory_size)
  BY FramesInRegion
<1>3. IsFiniteSet(frames)
  BY <1>1, <1>2, FS_Subset
<1> QED
  BY <1>3, FS_CardinalityType

\* A frame lent or given back moves the count at most to the one side.
LEMMA FramesCovered ==
  ASSUME BootInv, PagesInv, PmmCovers, g_buddy_initialized, PmmNext
  PROVE  PmmCovers'
<1>0. /\ FRAME_SIZE \in Nat \ {0} /\ g_memory_size \in Nat /\ g_pmm_free \in Int
      /\ g_pmm_free >= g_memory_size - FRAME_SIZE * Cardinality(frames)
  BY ZoneNumbers DEF FRAME_SIZE, PmmCovers, BootInv
<1>1. IsFiniteSet(frames)
  BY FramesFinite
<1>2. PICK m \in Nat : m = Cardinality(frames)
  BY FramesFinite
<1>3. PICK f \in Nat : f = FRAME_SIZE
  BY <1>0
<1>4. g_pmm_free >= g_memory_size - f * m
  BY <1>0, <1>2, <1>3
<1>5. CASE UNCHANGED pmmVars /\ UNCHANGED zoneVars
  BY <1>5 DEF pmmVars, zoneVars, PmmCovers
<1>6. ASSUME NEW p \in unmovable, TakeUnmovable(p), frames' = frames \cup {p},
             g_pmm_free' = IF g_pmm_free >= FRAME_SIZE THEN g_pmm_free - FRAME_SIZE
                                                       ELSE g_pmm_free
      PROVE  PmmCovers'
  <2>1. p \notin frames
    BY FramesInRegion
  <2>2. Cardinality(frames \cup {p}) = m + 1
    BY <1>1, <1>2, <2>1, FS_AddElement
  <2>3. f * (m + 1) = f * m + f
    OBVIOUS
  <2>4. PICK d \in Int : d = f * m
    OBVIOUS
  <2>5. g_pmm_free' \in Int /\ g_pmm_free' >= g_memory_size - (d + f)
    BY <1>0, <1>3, <1>4, <1>6, <2>4
  <2> QED
    BY <1>3, <1>6, <2>2, <2>3, <2>4, <2>5 DEF PmmCovers, TakeUnmovable
<1>7. ASSUME NEW p \in frames, pmm_free_frame(p)
      PROVE  PmmCovers'
  <2>1. Cardinality(frames \ {p}) = m - 1
    BY <1>1, <1>2, FS_RemoveElement
  <2>2. f * (m - 1) = f * m - f
    OBVIOUS
  <2>3. PICK d \in Int : d = f * m
    OBVIOUS
  <2>4. g_pmm_free' \in Int /\ g_pmm_free' >= g_memory_size - (d - f)
    BY <1>0, <1>3, <1>4, <1>7, <2>3 DEF pmm_free_frame
  <2> QED
    BY <1>3, <1>7, <2>1, <2>2, <2>3, <2>4 DEF PmmCovers, pmm_free_frame, FreePages
<1> QED
  BY <1>5, <1>6, <1>7 DEF PmmNext, pmm_alloc_frame

\* A frame more, a frame less.
LEMMA FramesCounted ==
  ASSUME BootInv, RegionInv, MapWhole, PagesInv, PmmExact, g_buddy_initialized, PmmNext
  PROVE  PmmExact'
<1> DEFINE free(f) == g_memory_size - FRAME_SIZE * Cardinality(f)
<1>0. FRAME_SIZE \in Nat \ {0} /\ g_memory_size \in Nat /\ g_pmm_free = free(frames)
  BY ZoneNumbers DEF FRAME_SIZE, PmmExact, BootInv
<1>1. IsFiniteSet(frames) /\ Cardinality(frames) \in Nat
  BY FramesFinite
<1>2. CASE UNCHANGED pmmVars /\ UNCHANGED zoneVars
  BY <1>2 DEF pmmVars, zoneVars, PmmExact
<1>3. ASSUME NEW p \in unmovable, TakeUnmovable(p), frames' = frames \cup {p},
             g_pmm_free' = IF g_pmm_free >= FRAME_SIZE THEN g_pmm_free - FRAME_SIZE
                                                       ELSE g_pmm_free
      PROVE  PmmExact'
  <2>1. g_memory_size # 0 /\ p \notin frames
        /\ frames \cup {p} \subseteq RegionPages(g_memory_start, g_memory_size)
    BY FramesInRegion
  <2>2. /\ IsFiniteSet(RegionPages(g_memory_start, g_memory_size))
        /\ FRAME_SIZE * Cardinality(RegionPages(g_memory_start, g_memory_size)) = g_memory_size
    BY <2>1, RegionWhole, WholeRegion
  <2>3. PICK n : n = Cardinality(RegionPages(g_memory_start, g_memory_size))
    OBVIOUS
  <2>4. PICK m \in Nat : m = Cardinality(frames)
    BY <1>1
  <2>5. n \in Nat
    BY <2>2, <2>3, FS_CardinalityType
  <2>6. Cardinality(frames \cup {p}) = m + 1
    BY <1>1, <2>1, <2>4, FS_AddElement
  <2>7. Cardinality(frames \cup {p}) <= n
    BY <2>1, <2>2, <2>3, FS_Subset
  <2>8. PICK f \in Nat : f = FRAME_SIZE
    BY <1>0
  <2>9. f * (n - m - 1) >= 0
    BY <2>5, <2>6, <2>7
  <2>10. g_memory_size = f * n /\ g_pmm_free = g_memory_size - f * m
    BY <1>0, <2>2, <2>3, <2>4, <2>8
  <2>11. g_pmm_free >= f
    BY <2>5, <2>9, <2>10
  <2>12. g_pmm_free' = g_memory_size - f * (m + 1)
    BY <1>3, <2>5, <2>8, <2>10, <2>11
  <2> QED
    BY <1>3, <2>6, <2>8, <2>12 DEF PmmExact, TakeUnmovable
<1>4. ASSUME NEW p \in frames, pmm_free_frame(p)
      PROVE  PmmExact'
  <2>1. Cardinality(frames \ {p}) = Cardinality(frames) - 1
    BY <1>1, FS_RemoveElement
  <2>2. PICK m \in Nat : m = Cardinality(frames)
    BY <1>1
  <2>3. PICK f \in Nat : f = FRAME_SIZE
    BY <1>0
  <2>4. g_memory_size - f * m + f = g_memory_size - f * (m - 1)
    BY <1>0
  <2> QED
    BY <1>0, <1>4, <2>1, <2>2, <2>3, <2>4 DEF PmmExact, pmm_free_frame, FreePages
<1> QED
  BY <1>2, <1>3, <1>4 DEF PmmNext, pmm_alloc_frame

\* Every step keeps the count of the physical memory manager.
LEMMA PmmCountStep ==
  ASSUME BootInv, RegionInv, PagesInv, PmmCovers, MapsAligned => MapWhole /\ PmmExact,
         [Next]_vars
  PROVE  PmmCovers' /\ (MapsAligned => PmmExact')
<1>1. CASE UNCHANGED <<g_pmm_free, g_buddy_initialized, frames, g_memory_size>>
  BY <1>1 DEF PmmExact, PmmCovers
<1>2. CASE PmmNext
  <2>1. CASE g_buddy_initialized
    BY <1>2, <2>1, FramesCounted, FramesCovered
  <2>2. CASE ~g_buddy_initialized
    <3>1. ~g_buddy_initialized'
      BY <1>2, <2>2, Zenon DEF PmmNext, pmm_alloc_frame, pmm_free_frame, pmmVars
    <3> QED
      BY <3>1 DEF PmmExact, PmmCovers
  <2> QED
    BY <2>1, <2>2
<1>3. CASE InitMemory
  <2>1. boot = "pmm" /\ frames' = frames
    BY <1>3 DEF InitMemory, pmm_init, pmmVars
  <2>2. frames' = {}
    BY <2>1 DEF BootInv, NothingTaken
  <2>3. CASE UNCHANGED zoneVars /\ UNCHANGED <<g_pmm_free, g_buddy_initialized>>
    BY <1>1, <2>1, <2>3 DEF zoneVars
  <2>4. ASSUME NEW start \in Nat, NEW size \in Nat, buddy_init(start, size), g_pmm_free' = size
        PROVE  PmmCovers' /\ PmmExact'
    <3>1. Cardinality(frames') = 0
      BY <2>2, FS_EmptySet
    <3>2. FRAME_SIZE \in Nat
      BY ZoneNumbers DEF FRAME_SIZE
    <3> QED
      BY <2>4, <3>1, <3>2 DEF buddy_init, PmmExact, PmmCovers
  <2>5. pmm_init \/ (UNCHANGED zoneVars /\ UNCHANGED <<g_pmm_free, g_buddy_initialized>>)
    BY <1>3 DEF InitMemory, pmmVars
  <2> QED
    BY <2>3, <2>4, <2>5, PmmInitRegion DEF BootInv
<1>4. CASE ReadTag
  BY <1>1, <1>4 DEF ReadTag, zoneVars
<1>5. CASE (SlabNext \/ PoolNext) /\ UNCHANGED pmmVars
  BY <1>1, <1>5, SlabZones, PoolZones DEF pmmVars
<1>6. CASE UNCHANGED vars
  BY <1>1, <1>6 DEF vars, pmmVars, zoneVars
<1> QED
  BY <1>2, <1>3, <1>4, <1>5, <1>6 DEF Next, Boot

\* g_pmm_free never says less than what the frames lent leave of the region, and
\* for maps of whole pages it says just that; for others it need not
\* (MCKernelMemoryPartial.cfg).
THEOREM PmmCountTheorem ==
  ASSUME OneCPU
  PROVE  Spec => [](PmmCountCovers /\ (MapsAligned => PmmCountExact))
<1> DEFINE Map == MapsAligned => MapWhole
           Inv == Sound => PmmCovers /\ (MapsAligned => PmmExact)
<1>1. Init => Map
  BY DEF Init, PmmInit, MapWhole
<1>2. BootInv /\ Map /\ [Next]_vars => Map'
  BY MapStep
<1>3. Init => Inv
  BY DEF Init, PmmInit, PmmExact, PmmCovers
<1>4. BootInv /\ RegionInv /\ Map /\ (Sound => PagesInv) /\ Inv /\ [Next]_vars => Inv'
  BY PmmCountStep, SoundBefore
<1>5. Inv => PmmCountCovers /\ (MapsAligned => PmmCountExact)
  BY DEF PmmCountCovers, PmmCountExact, PmmExact, PmmCovers
<1> HIDE DEF Map, Inv
<1> QED
  BY <1>1, <1>2, <1>3, <1>4, <1>5, BootSafe, PagesSafe, PTL DEF Spec

-----------------------------------------------------------------------------
(* The objects of the pools *)

ChunkCount(size, k) == (OrderPages[k] * BUDDY_PAGE_SIZE - REGION_HEADER) \div size

\* The objects a region of order k at page p is cut into.
Chunks(size, p, k) ==
  {p * BUDDY_PAGE_SIZE + REGION_HEADER + j * size : j \in 0..(ChunkCount(size, k) - 1)}

BlocksApart(regs) ==
  \A g, h \in regs : g # h => Block(g.page, g.order) \cap Block(h.page, h.order) = {}

\* A format asked for.
AskedFor(f) == f \in PoolFormats /\ f[1] # 0 /\ f[2] # 0

\* The size and the growth of a pool are those of a format.
OfFormat(r) ==
  \E f \in PoolFormats :
    /\ AskedFor(f) /\ r.object_size = ObjectSize(f[1])
    /\ r.grow_count = NewPool(f[1], f[2]).grow_count

\* A pool with structure r whose callers hold the objects lo: its regions are
\* apart and no longer in the zone rec, and its objects are cut from them.
PoolGood(r, lo, rec) ==
  /\ OfFormat(r)
  /\ PoolOK(r) /\ r.object_size \in Nat \ {0} /\ r.free_list \in Seq(Nat) /\ lo \subseteq Nat
  /\ BlocksApart(Range(r.regions))
  /\ \A g \in Range(r.regions) : Block(g.page, g.order) \cap rec = {}
  /\ \A o \in Range(r.free_list) \cup lo : \E g \in Range(r.regions) :
       o \in Chunks(r.object_size, g.page, g.order)

PoolsGood(po, lo, rec) ==
  DOMAIN lo = DOMAIN po /\ \A q \in DOMAIN po : PoolGood(po[q], lo[q], rec)

PoolInv == PoolsGood(pool, pool_loans, reclaimable)

\* Counters of a pool: the free list has no object twice and none that callers
\* hold.
CountGood(r, lo) ==
  /\ IsInjective(r.free_list) /\ Range(r.free_list) \cap lo = {} /\ IsFiniteSet(lo)
  /\ r.free_objects = Len(r.free_list)
  /\ r.total_objects = Len(r.free_list) + Cardinality(lo)

CountInv == \A q \in DOMAIN pool : CountGood(pool[q], pool_loans[q])

\* A region has a number of objects.
LEMMA ChunkCountInt ==
  ASSUME NEW size \in Nat \ {0}, NEW k \in Orders
  PROVE  ChunkCount(size, k) \in Nat
<1>1. PICK m \in Nat \ {0} : m = OrderPages[k]
  BY ZoneNumbers
<1>2. PICK b \in Nat \ {0} : b = BUDDY_PAGE_SIZE
  BY ZoneNumbers
<1>3. PICK h \in Nat : h = REGION_HEADER /\ h < b
  BY <1>2, PoolAssumption
<1>4. (m - 1) * b >= 0
  OBVIOUS
<1>5. PICK y \in Nat : y = m * b - h
  BY <1>3, <1>4
<1>6. y \div size \in Int /\ y % size \in 0..(size - 1) /\ y = size * (y \div size) + (y % size)
  BY DivMod
<1>7. y \div size >= 0
  BY <1>6
<1> QED
  BY <1>1, <1>2, <1>3, <1>5, <1>6, <1>7 DEF ChunkCount

\* An object lies behind the header of its region and inside it.
LEMMA ChunkSpan ==
  ASSUME NEW size \in Nat \ {0}, NEW p \in Nat, NEW k \in Orders, NEW o \in Chunks(size, p, k)
  PROVE  /\ o \in Nat /\ p * BUDDY_PAGE_SIZE + REGION_HEADER <= o
         /\ o + size <= (p + OrderPages[k]) * BUDDY_PAGE_SIZE
<1>1. PICK b \in Nat \ {0} : b = BUDDY_PAGE_SIZE
  BY ZoneNumbers
<1>2. PICK h \in Nat : h = REGION_HEADER
  BY PoolAssumption
<1>3. PICK m \in Nat \ {0} : m = OrderPages[k]
  BY ZoneNumbers
<1>4. PICK n \in Int : n = (m * b - h) \div size
  OBVIOUS
<1>5. PICK j \in 0..(n - 1) : o = p * b + h + j * size
  BY <1>1, <1>2, <1>3, <1>4 DEF Chunks, ChunkCount
<1>6. size * n <= m * b - h
  <2>1. PICK a \in Int : a = m * b - h
    OBVIOUS
  <2>2. n \in Int /\ a % size \in 0..(size - 1) /\ a = size * n + (a % size)
    BY <1>4, <2>1, DivMod
  <2> QED
    BY <2>1, <2>2
<1>7. j * size >= 0 /\ size * (n - 1 - j) >= 0
  BY <1>5
<1>8. o + size <= p * b + m * b
  BY <1>5, <1>6, <1>7
<1>9. (p + m) * b = p * b + m * b
  OBVIOUS
<1>10. p * b >= 0
  OBVIOUS
<1> QED
  BY <1>1, <1>2, <1>3, <1>5, <1>7, <1>8, <1>9, <1>10

\* Objects of two regions that are apart do not overlap.
LEMMA RegionsDisjoint ==
  ASSUME NEW size \in Nat \ {0}, NEW p \in Nat, NEW k \in Orders, NEW q \in Nat, NEW l \in Orders,
         Block(p, k) \cap Block(q, l) = {},
         NEW o1 \in Chunks(size, p, k), NEW o2 \in Chunks(size, q, l)
  PROVE  o1 + size <= o2 \/ o2 + size <= o1
<1>0. /\ o1 \in Nat /\ p * BUDDY_PAGE_SIZE + REGION_HEADER <= o1
      /\ o1 + size <= (p + OrderPages[k]) * BUDDY_PAGE_SIZE
      /\ o2 \in Nat /\ q * BUDDY_PAGE_SIZE + REGION_HEADER <= o2
      /\ o2 + size <= (q + OrderPages[l]) * BUDDY_PAGE_SIZE
  BY ChunkSpan
<1>1. PICK b \in Nat \ {0} : b = BUDDY_PAGE_SIZE
  BY ZoneNumbers
<1>2. PICK h \in Nat : h = REGION_HEADER
  BY PoolAssumption
<1>3. PICK m \in Nat \ {0} : m = OrderPages[k]
  BY ZoneNumbers
<1>4. PICK n \in Nat \ {0} : n = OrderPages[l]
  BY ZoneNumbers
<1>5. p + m <= q \/ q + n <= p
  <2>1. (p..(p + m - 1)) \cap (q..(q + n - 1)) = {}
    BY <1>3, <1>4 DEF Block
  <2>2. p \notin q..(q + n - 1) \/ p \notin p..(p + m - 1)
    BY <2>1
  <2>3. q \notin p..(p + m - 1) \/ q \notin q..(q + n - 1)
    BY <2>1
  <2> QED
    BY <2>2, <2>3
<1>6. CASE p + m <= q
  <2>1. (q - (p + m)) * b >= 0
    BY <1>6
  <2> QED
    BY <2>1, <1>0, <1>1, <1>2, <1>3, <1>4
<1>7. CASE q + n <= p
  <2>1. (p - (q + n)) * b >= 0
    BY <1>7
  <2> QED
    BY <2>1, <1>0, <1>1, <1>2, <1>3, <1>4
<1> QED
  BY <1>5, <1>6, <1>7

\* Two objects of one region, or of two regions that are apart, do not overlap.
LEMMA ChunksDisjoint ==
  ASSUME NEW size \in Nat \ {0}, NEW p \in Nat, NEW k \in Orders, NEW q \in Nat, NEW l \in Orders,
         (p = q /\ k = l) \/ Block(p, k) \cap Block(q, l) = {},
         NEW o1 \in Chunks(size, p, k), NEW o2 \in Chunks(size, q, l), o1 < o2
  PROVE  o1 + size <= o2
<1>1. o1 \in Nat /\ o2 \in Nat
  BY ChunkSpan
<1>2. CASE p = q /\ k = l
  <2>1. PICK a \in Int : a = p * BUDDY_PAGE_SIZE + REGION_HEADER
    BY ZoneNumbers, PoolAssumption
  <2>2. \A o \in Chunks(size, p, k) : \E i \in Int : o = a + i * size
    <3>1. PICK n \in Nat : n = ChunkCount(size, k)
      BY ChunkCountInt
    <3>2. Chunks(size, p, k) = {a + i * size : i \in 0..(n - 1)}
      BY <2>1, <3>1 DEF Chunks
    <3>3. \A o \in Chunks(size, p, k) : \E i \in 0..(n - 1) : o = a + i * size
      BY <3>2, Zenon
    <3>4. \A i \in 0..(n - 1) : i \in Int
      OBVIOUS
    <3> QED
      BY <3>3, <3>4, Zenon
  <2>7. PICK i \in Int : o1 = a + i * size
    BY <2>2
  <2>3. PICK j \in Int : o2 = a + j * size
    BY <1>2, <2>2
  <2>4. (j - i) * size > 0
    BY <2>3, <2>7
  <2>5. j - i >= 1
    <3>1. CASE j - i <= 0
      <4>1. (i - j) * size >= 0
        BY <3>1
      <4> QED
        BY <4>1, <2>4
    <3> QED
      BY <3>1
  <2>6. (j - i - 1) * size >= 0
    BY <2>5
  <2> QED
    BY <2>3, <2>6, <2>7
<1>3. CASE Block(p, k) \cap Block(q, l) = {}
  <2>1. o1 + size <= o2 \/ o2 + size <= o1
    BY <1>3, RegionsDisjoint
  <2> QED
    BY <1>1, <2>1
<1> QED
  BY <1>2, <1>3

\* The objects of a good pool are where the property wants them.
LEMMA GoodPoolApart ==
  ASSUME NEW r, NEW lo, NEW rec, PoolGood(r, lo, rec)
  PROVE  /\ \A o \in Range(r.free_list) \cup lo : \E g \in Range(r.regions) :
              /\ o >= g.page * BUDDY_PAGE_SIZE + REGION_HEADER
              /\ o + r.object_size <= (g.page + OrderPages[g.order]) * BUDDY_PAGE_SIZE
         /\ \A o1, o2 \in Range(r.free_list) \cup lo : o1 < o2 => o1 + r.object_size <= o2
<1>1. PICK w \in Seq(Regions) : w = r.regions
  BY DEF PoolGood, PoolOK
<1>2. Range(w) \in SUBSET Regions
  BY RangeOfSeq
<1>3. \A g \in Range(w) : g.page \in Nat /\ g.order \in Orders
  BY <1>2 DEF Regions
<1>4. PICK size \in Nat \ {0} : size = r.object_size
  BY DEF PoolGood
<1>5. /\ BlocksApart(Range(w))
      /\ \A o \in Range(r.free_list) \cup lo : \E g \in Range(w) : o \in Chunks(size, g.page, g.order)
  BY <1>1, <1>4 DEF PoolGood
<1>6. ASSUME NEW o \in Range(r.free_list) \cup lo
      PROVE  \E g \in Range(w) :
               /\ o >= g.page * BUDDY_PAGE_SIZE + REGION_HEADER
               /\ o + size <= (g.page + OrderPages[g.order]) * BUDDY_PAGE_SIZE
  <2>1. PICK g \in Range(w) : o \in Chunks(size, g.page, g.order)
    BY <1>5
  <2>2. PICK p \in Nat : p = g.page
    BY <1>3
  <2>3. PICK k \in Orders : k = g.order
    BY <1>3
  <2>4. /\ o \in Nat /\ p * BUDDY_PAGE_SIZE + REGION_HEADER <= o
        /\ o + size <= (p + OrderPages[k]) * BUDDY_PAGE_SIZE
    BY <2>1, <2>2, <2>3, ChunkSpan
  <2>5. p * BUDDY_PAGE_SIZE + REGION_HEADER \in Nat
    BY ZoneNumbers, PoolAssumption
  <2>6. o >= p * BUDDY_PAGE_SIZE + REGION_HEADER
    BY <2>4, <2>5
  <2> QED
    BY <2>2, <2>3, <2>4, <2>6
<1>7. ASSUME NEW o1 \in Range(r.free_list) \cup lo, NEW o2 \in Range(r.free_list) \cup lo, o1 < o2
      PROVE  o1 + size <= o2
  <2>1. PICK g \in Range(w) : o1 \in Chunks(size, g.page, g.order)
    BY <1>5
  <2>2. PICK h \in Range(w) : o2 \in Chunks(size, h.page, h.order)
    BY <1>5
  <2>3. g = h \/ Block(g.page, g.order) \cap Block(h.page, h.order) = {}
    BY <1>5 DEF BlocksApart
  <2> QED
    BY <1>3, <1>7, <2>1, <2>2, <2>3, ChunksDisjoint
<1> QED
  BY <1>1, <1>4, <1>6, <1>7

\* The free list a region is cut into: each of its objects once.
LEMMA RegionCut ==
  ASSUME NEW r, r.object_size \in Nat \ {0}, NEW p \in Nat, NEW k \in Orders
  PROVE  /\ RegionObjects(r, p, k) \in Seq(Nat) /\ IsInjective(RegionObjects(r, p, k))
         /\ Range(RegionObjects(r, p, k)) = Chunks(r.object_size, p, k)
         /\ Len(RegionObjects(r, p, k)) = ObjectsInRegion(r, k) /\ ObjectsInRegion(r, k) \in Nat
<1>1. PICK z \in Nat \ {0} : z = r.object_size
  OBVIOUS
<1>2. PICK a \in Nat : a = p * BUDDY_PAGE_SIZE + REGION_HEADER
  BY ZoneNumbers, PoolAssumption
<1>3. PICK n : n = ObjectsInRegion(r, k)
  OBVIOUS
<1>4. n = ChunkCount(z, k)
  BY <1>1, <1>3 DEF ObjectsInRegion, ChunkCount
<1>5. n \in Nat
  BY <1>4, ChunkCountInt
<1>6. PICK s : s = RegionObjects(r, p, k)
  OBVIOUS
<1>7. s = [i \in 1..n |-> a + (n - i) * z]
  BY <1>1, <1>2, <1>3, <1>6 DEF RegionObjects
<1>8. \A i \in 1..n : a + (n - i) * z \in Nat
  <2>1. ASSUME NEW i \in 1..n PROVE a + (n - i) * z \in Nat
    <3>1. (n - i) * z >= 0
      BY <1>5
    <3> QED
      BY <3>1, <1>5
  <2> QED
    BY <2>1
<1>9. s \in Seq(Nat) /\ Len(s) = n /\ DOMAIN s = 1..n
  BY <1>5, <1>7, <1>8
<1>10. IsInjective(s)
  <2>1. ASSUME NEW i \in 1..n, NEW j \in 1..n, a + (n - i) * z = a + (n - j) * z PROVE i = j
    <3>1. (j - i) * z = 0
      BY <2>1, <1>5
    <3> QED
      BY <3>1, <1>5
  <2> QED
    BY <1>7, <1>9, <2>1 DEF IsInjective
<1>11. Range(s) = Chunks(z, p, k)
  <2>1. Range(s) = {a + (n - i) * z : i \in 1..n}
    BY <1>7, <1>9 DEF Range
  <2>2. Chunks(z, p, k) = {a + j * z : j \in 0..(n - 1)}
    BY <1>2, <1>4 DEF Chunks
  <2>3. ASSUME NEW i \in 1..n PROVE n - i \in 0..(n - 1)
    BY <1>5
  <2>4. ASSUME NEW j \in 0..(n - 1) PROVE n - j \in 1..n /\ n - (n - j) = j
    BY <1>5
  <2>5. {a + (n - i) * z : i \in 1..n} \subseteq {a + j * z : j \in 0..(n - 1)}
    BY <2>3
  <2>6. {a + j * z : j \in 0..(n - 1)} \subseteq {a + (n - i) * z : i \in 1..n}
    BY <2>4
  <2> QED
    BY <2>1, <2>2, <2>5, <2>6
<1> QED
  BY <1>1, <1>3, <1>5, <1>6, <1>9, <1>10, <1>11

\* A list without repetitions has as many elements as places.
LEMMA ListCount ==
  ASSUME NEW S, NEW s \in Seq(S), IsInjective(s)
  PROVE  IsFiniteSet(Range(s)) /\ Cardinality(Range(s)) = Len(s)
<1>1. Len(s) \in Nat /\ DOMAIN s = 1..Len(s)
  OBVIOUS
<1>2. s \in [1..Len(s) -> Range(s)]
  BY <1>1 DEF Range
<1>3. s \in Bijection(1..Len(s), Range(s))
  BY <1>1, <1>2 DEF Bijection, Injection, Surjection, Range
<1>4. ExistsBijection(1..Len(s), Range(s))
  BY <1>3 DEF ExistsBijection
<1>5. IsFiniteSet(1..Len(s)) /\ Cardinality(1..Len(s)) = Len(s)
  <2>1. PICK n \in Nat : n = Len(s)
    BY <1>1, Zenon
  <2>2. IsFiniteSet(1..n) /\ Cardinality(1..n) = IF 1 > n THEN 0 ELSE n - 1 + 1
    BY FS_Interval
  <2> QED
    BY <2>1, <2>2
<1> QED
  BY <1>4, <1>5, FS_Bijection

\* A pool stays good when its objects only change hands.
LEMMA SameObjects ==
  ASSUME NEW r, NEW lo, NEW rec, PoolGood(r, lo, rec),
         NEW t, DOMAIN t = PoolFields, t.object_size = r.object_size, t.regions = r.regions,
         t.grow_count = r.grow_count, t.free_list \in Seq(Nat), NEW l2,
         Range(t.free_list) \cup l2 \subseteq Range(r.free_list) \cup lo, NEW rec2 \in SUBSET rec
  PROVE  PoolGood(t, l2, rec2)
<1>1. PoolOK(t) /\ t.object_size \in Nat \ {0}
  BY DEF PoolGood, PoolOK
<1>7. OfFormat(t)
  BY DEF PoolGood, OfFormat
<1>2. Range(r.free_list) \in SUBSET Nat
  BY RangeOfSeq DEF PoolGood
<1>3. l2 \subseteq Nat
  BY <1>2 DEF PoolGood
<1>4. BlocksApart(Range(t.regions))
  BY DEF PoolGood
<1>5. \A g \in Range(t.regions) : Block(g.page, g.order) \cap rec2 = {}
  BY DEF PoolGood
<1>6. \A o \in Range(t.free_list) \cup l2 : \E g \in Range(t.regions) :
        o \in Chunks(t.object_size, g.page, g.order)
  BY DEF PoolGood
<1> QED
  BY <1>1, <1>3, <1>4, <1>5, <1>6, <1>7 DEF PoolGood

\* What pool_grow makes of the fields of a pool without a free object.
LEMMA GrownFields ==
  ASSUME NEW r, PoolOK(r), r.object_size \in Nat \ {0}, r.free_list = <<>>,
         NEW p \in Nat, NEW k \in Orders, NEW t, t = Grown(r, p, k)
  PROVE  /\ DOMAIN t = PoolFields /\ t.object_size = r.object_size
         /\ t.grow_count = r.grow_count
         /\ t.regions = Push([page |-> p, order |-> k], r.regions)
         /\ t.free_list = RegionObjects(r, p, k)
         /\ t.total_objects = (r.total_objects + ObjectsInRegion(r, k)) % CountMod
         /\ t.free_objects = (r.free_objects + ObjectsInRegion(r, k)) % CountMod
<1>1. PICK s \in Seq(Nat) : s = RegionObjects(r, p, k)
  BY RegionCut
<1>2. PICK n : n = ObjectsInRegion(r, k)
  OBVIOUS
<1>3. PICK w : w = Push([page |-> p, order |-> k], r.regions)
  OBVIOUS
<1>4. s \o r.free_list = s
  BY ConcatEmptySeq
<1>5. t = [r EXCEPT !.regions = w, !.free_list = s,
                    !.total_objects = (r.total_objects + n) % CountMod,
                    !.free_objects = (r.free_objects + n) % CountMod]
  BY <1>1, <1>2, <1>3, <1>4, Zenon DEF Grown, Push
<1>6. DOMAIN r = PoolFields
  BY DEF PoolOK
<1> QED
  BY <1>1, <1>2, <1>3, <1>5, <1>6 DEF PoolFields

\* A region more, of pages that were free: its objects are new.
LEMMA GrownGood ==
  ASSUME NEW r, NEW lo, NEW rec, PoolGood(r, lo, rec), r.free_list = <<>>,
         NEW p \in Nat, NEW k \in Orders, Block(p, k) \subseteq rec
  PROVE  /\ PoolGood(Grown(r, p, k), lo, rec \ Block(p, k))
         /\ Range(Grown(r, p, k).free_list) \cap lo = {}
<1>1. PICK t : t = Grown(r, p, k)
  OBVIOUS
<1>2. PICK g : g = [page |-> p, order |-> k]
  OBVIOUS
<1>3. g \in Regions /\ g.page = p /\ g.order = k
  BY <1>2 DEF Regions
<1>4. PICK z \in Nat \ {0} : z = r.object_size
  BY DEF PoolGood
<1>5. PICK w \in Seq(Regions) : w = r.regions
  BY DEF PoolGood, PoolOK
<1>6. Range(w) \in SUBSET Regions
  BY RangeOfSeq
<1>7. /\ DOMAIN t = PoolFields /\ t.object_size = z /\ t.grow_count = r.grow_count
      /\ t.regions = Push(g, w) /\ t.free_list = RegionObjects(r, p, k)
  BY <1>1, <1>2, <1>4, <1>5, GrownFields DEF PoolGood
<1>8. /\ Push(g, w) \in Seq(Regions) /\ Len(Push(g, w)) = Len(w) + 1
      /\ Range(Push(g, w)) = Range(w) \cup {g}
      /\ IsInjective(w) /\ g \notin Range(w) => IsInjective(Push(g, w))
  BY <1>3, Pushed
<1>9. t.free_list \in Seq(Nat) /\ Range(t.free_list) = Chunks(z, p, k)
  BY <1>4, <1>7, RegionCut
<1>10. /\ BlocksApart(Range(w)) /\ lo \subseteq Nat
       /\ \A h \in Range(w) : Block(h.page, h.order) \cap rec = {}
       /\ \A o \in lo : \E h \in Range(w) : o \in Chunks(z, h.page, h.order)
  BY <1>4, <1>5 DEF PoolGood
<1>11. BlocksApart(Range(w) \cup {g})
  BY <1>3, <1>10 DEF BlocksApart
<1>12. \A h \in Range(w) \cup {g} : Block(h.page, h.order) \cap (rec \ Block(p, k)) = {}
  BY <1>3, <1>10
<1>13. \A o \in Range(t.free_list) \cup lo : \E h \in Range(w) \cup {g} :
         o \in Chunks(z, h.page, h.order)
  BY <1>3, <1>9, <1>10
<1>14. PoolGood(t, lo, rec \ Block(p, k))
  <2>1. PoolOK(t) /\ t.object_size \in Nat \ {0}
    BY <1>7, <1>8 DEF PoolOK
  <2>2. Range(t.regions) = Range(w) \cup {g}
    BY <1>7, <1>8
  <2>3. OfFormat(t)
    BY <1>4, <1>7 DEF PoolGood, OfFormat
  <2> QED
    BY <1>7, <1>9, <1>10, <1>11, <1>12, <1>13, <2>1, <2>2, <2>3 DEF PoolGood
<1>15. Range(t.free_list) \cap lo = {}
  <2>1. SUFFICES ASSUME NEW o \in Chunks(z, p, k), o \in lo PROVE FALSE
    BY <1>9
  <2>2. PICK h \in Range(w) : o \in Chunks(z, h.page, h.order)
    BY <1>10, <2>1
  <2>3. h.page \in Nat /\ h.order \in Orders /\ Block(p, k) \cap Block(h.page, h.order) = {}
    BY <1>6, <1>10 DEF Regions
  <2>4. o + z <= o /\ o \in Nat
    BY <2>2, <2>3, RegionsDisjoint, ChunkSpan
  <2> QED
    BY <2>4
<1> QED
  BY <1>1, <1>14, <1>15

\* A pool without a free object has one when it has grown.
LEMMA GrownNonempty ==
  ASSUME GrowthFits, NEW r, OfFormat(r), PoolOK(r), r.object_size \in Nat \ {0},
         r.free_list = <<>>, NEW p \in Nat, NEW k \in Orders, k = GrowOrder(r, r.grow_count)
  PROVE  Grown(r, p, k).free_list # <<>>
<1>1. PICK t : t = Grown(r, p, k)
  OBVIOUS
<1>2. PICK n \in Nat : n = ObjectsInRegion(r, k)
  BY RegionCut
<1>3. n > 0
  <2>1. PICK f \in PoolFormats :
          /\ AskedFor(f) /\ r.object_size = ObjectSize(f[1])
          /\ r.grow_count = NewPool(f[1], f[2]).grow_count
    BY Zenon DEF OfFormat
  <2>2. PICK w : w = NewPool(f[1], f[2])
    OBVIOUS
  <2>3. w.object_size = r.object_size /\ w.grow_count = r.grow_count
    BY <2>1, <2>2 DEF NewPool
  <2>4. GrowOrder(w, w.grow_count) = k
    BY <2>3 DEF GrowOrder
  <2>5. ObjectsInRegion(w, k) = n
    BY <1>2, <2>3 DEF ObjectsInRegion
  <2>6. ObjectsInRegion(w, GrowOrder(w, w.grow_count)) > 0
    BY <2>1, <2>2, Zenon DEF GrowthFits, AskedFor
  <2> QED
    BY <2>4, <2>5, <2>6
<1>4. t.free_list = RegionObjects(r, p, k) /\ Len(RegionObjects(r, p, k)) = n
  <2>1. /\ DOMAIN t = PoolFields /\ t.object_size = r.object_size
        /\ t.grow_count = r.grow_count
        /\ t.regions = Push([page |-> p, order |-> k], r.regions)
        /\ t.free_list = RegionObjects(r, p, k)
        /\ t.total_objects = (r.total_objects + ObjectsInRegion(r, k)) % CountMod
        /\ t.free_objects = (r.free_objects + ObjectsInRegion(r, k)) % CountMod
    BY <1>1, GrownFields
  <2>2. Len(RegionObjects(r, p, k)) = ObjectsInRegion(r, k)
    BY RegionCut
  <2> QED
    BY <1>2, <2>1, <2>2
<1> QED
  BY <1>1, <1>3, <1>4

\* How many objects a pool has.
LEMMA ObjectCount ==
  ASSUME NEW r, NEW lo, CountGood(r, lo), r.free_list \in Seq(Nat)
  PROVE  /\ r.free_objects \in Nat /\ r.total_objects \in Nat
         /\ r.free_objects <= r.total_objects /\ Cardinality(lo) \in Nat
         /\ Cardinality(Range(r.free_list) \cup lo) = r.total_objects
<1>1. IsFiniteSet(Range(r.free_list)) /\ Cardinality(Range(r.free_list)) = Len(r.free_list)
  BY ListCount DEF CountGood
<1>2. IsFiniteSet(lo) /\ Range(r.free_list) \cap lo = {} /\ Cardinality({}) = 0
      /\ r.free_objects = Len(r.free_list)
      /\ r.total_objects = Len(r.free_list) + Cardinality(lo)
  BY FS_EmptySet DEF CountGood
<1>3. Cardinality(lo) \in Nat /\ Len(r.free_list) \in Nat
  BY <1>2, FS_CardinalityType
<1>4. Cardinality(Range(r.free_list) \cup lo) = Len(r.free_list) + Cardinality(lo) - 0
  BY <1>1, <1>2, FS_Union
<1> QED
  BY <1>2, <1>3, <1>4

\* A number below the modulus is its own remainder.
LEMMA ModSmall ==
  ASSUME NEW n \in Nat \ {0}, NEW a \in Nat, a < n
  PROVE  a % n = a
<1>1. a \in 0..(n - 1) /\ a = 0 * n + a
  OBVIOUS
<1> QED
  BY <1>1, DivUnique

\* The head of the free list goes to a caller.
LEMMA PopCount ==
  ASSUME NEW r, NEW lo, CountGood(r, lo), r.free_list \in Seq(Nat), r.free_list # <<>>,
         r.total_objects < CountMod,
         NEW t, t.free_list = Tail(r.free_list),
         t.free_objects = (r.free_objects - 1) % CountMod, t.total_objects = r.total_objects
  PROVE  CountGood(t, lo \cup {Head(r.free_list)})
<1>1. PICK h : h = Head(r.free_list)
  OBVIOUS
<1>2. PICK s \in Seq(Nat) : s = r.free_list
  OBVIOUS
<1>3. /\ Head(s) \in Nat /\ Head(s) \in Range(s) /\ Tail(s) \in Seq(Nat)
      /\ Len(Tail(s)) = Len(s) - 1 /\ Len(s) \in Nat \ {0}
      /\ Range(s) = Range(Tail(s)) \cup {Head(s)}
      /\ IsInjective(s) => IsInjective(Tail(s)) /\ Head(s) \notin Range(Tail(s))
  BY <1>2, Popped
<1>4. /\ IsInjective(s) /\ Range(s) \cap lo = {} /\ IsFiniteSet(lo)
      /\ r.free_objects = Len(s) /\ r.total_objects = Len(s) + Cardinality(lo)
  BY <1>2 DEF CountGood
<1>5. IsInjective(Tail(s)) /\ Range(Tail(s)) \cap (lo \cup {h}) = {} /\ h \notin lo
  BY <1>1, <1>2, <1>3, <1>4
<1>6. IsFiniteSet(lo \cup {h}) /\ Cardinality(lo \cup {h}) = Cardinality(lo) + 1
  BY <1>4, <1>5, FS_AddElement
<1>7. Cardinality(lo) \in Nat
  BY <1>4, FS_CardinalityType
<1>8. t.free_objects = Len(Tail(s))
  <2>1. PICK n \in Nat \ {0} : n = CountMod
    BY PoolAssumption
  <2>5. Len(s) - 1 \in Nat
    BY <1>3
  <2>2. PICK a \in Nat : a = Len(s) - 1
    BY <2>5, Zenon
  <2>3. a < n
    BY <1>3, <1>4, <1>7, <2>1, <2>2
  <2>4. a % n = a
    BY <2>3, ModSmall
  <2> QED
    BY <1>3, <1>4, <2>1, <2>2, <2>4
<1>9. t.total_objects = Len(Tail(s)) + Cardinality(lo \cup {h})
  BY <1>3, <1>4, <1>6, <1>7
<1> QED
  BY <1>1, <1>2, <1>5, <1>6, <1>8, <1>9 DEF CountGood

\* A caller's object goes to the free list.
LEMMA PushCount ==
  ASSUME NEW r, NEW lo, CountGood(r, lo), r.free_list \in Seq(Nat), NEW o \in lo, o \in Nat,
         r.total_objects < CountMod,
         NEW t, t.free_list = Push(o, r.free_list),
         t.free_objects = (r.free_objects + 1) % CountMod, t.total_objects = r.total_objects
  PROVE  CountGood(t, lo \ {o})
<1>1. PICK s \in Seq(Nat) : s = r.free_list
  OBVIOUS
<1>2. /\ Push(o, s) \in Seq(Nat) /\ Len(Push(o, s)) = Len(s) + 1
      /\ Range(Push(o, s)) = Range(s) \cup {o}
      /\ IsInjective(s) /\ o \notin Range(s) => IsInjective(Push(o, s))
  BY Pushed
<1>3. /\ IsInjective(s) /\ Range(s) \cap lo = {} /\ IsFiniteSet(lo)
      /\ r.free_objects = Len(s) /\ r.total_objects = Len(s) + Cardinality(lo)
  BY <1>1 DEF CountGood
<1>4. IsInjective(Push(o, s)) /\ Range(Push(o, s)) \cap (lo \ {o}) = {}
  BY <1>2, <1>3
<1>5. IsFiniteSet(lo \ {o}) /\ Cardinality(lo \ {o}) = Cardinality(lo) - 1
  BY <1>3, FS_RemoveElement
<1>6. Cardinality(lo) \in Nat /\ Cardinality(lo \ {o}) \in Nat /\ Len(s) \in Nat
  BY <1>3, <1>5, FS_CardinalityType
<1>7. t.free_objects = Len(Push(o, s))
  <2>1. PICK n \in Nat \ {0} : n = CountMod
    BY PoolAssumption
  <2>2. PICK a \in Nat : a = Len(s) + 1
    BY <1>6
  <2>3. a < n
    BY <1>3, <1>5, <1>6, <2>1, <2>2
  <2>4. a % n = a
    BY <2>3, ModSmall
  <2> QED
    BY <1>2, <1>3, <2>1, <2>2, <2>4
<1>8. t.total_objects = Len(Push(o, s)) + Cardinality(lo \ {o})
  BY <1>2, <1>3, <1>5, <1>6
<1> QED
  BY <1>1, <1>4, <1>5, <1>7, <1>8 DEF CountGood

\* A region more: the counters grow by its objects, if they can count them.
LEMMA GrownCount ==
  ASSUME NEW r, NEW lo, NEW rec, PoolGood(r, lo, rec), CountGood(r, lo), r.free_list = <<>>,
         NEW p \in Nat, NEW k \in Orders, Block(p, k) \subseteq rec,
         NEW t, t = Grown(r, p, k), Cardinality(Range(t.free_list) \cup lo) < CountMod
  PROVE  CountGood(t, lo) /\ t.total_objects < CountMod
<1>1. PICK n \in Nat \ {0} : n = CountMod
  BY PoolAssumption
<1>2. PoolOK(r) /\ r.object_size \in Nat \ {0}
  BY DEF PoolGood
<1>3. PICK s \in Seq(Nat) : s = RegionObjects(r, p, k)
  BY <1>2, RegionCut
<1>4. IsInjective(s) /\ Len(s) = ObjectsInRegion(r, k)
  BY <1>2, <1>3, RegionCut
<1>5. /\ t.free_list = s
      /\ t.total_objects = (r.total_objects + Len(s)) % n
      /\ t.free_objects = (r.free_objects + Len(s)) % n
  <2>1. /\ DOMAIN t = PoolFields /\ t.object_size = r.object_size
        /\ t.grow_count = r.grow_count
        /\ t.regions = Push([page |-> p, order |-> k], r.regions)
        /\ t.free_list = RegionObjects(r, p, k)
        /\ t.total_objects = (r.total_objects + ObjectsInRegion(r, k)) % CountMod
        /\ t.free_objects = (r.free_objects + ObjectsInRegion(r, k)) % CountMod
    BY <1>2, GrownFields
  <2> QED
    BY <1>1, <1>3, <1>4, <2>1
<1>6. Range(s) \cap lo = {}
  BY <1>5, GrownGood
<1>7. /\ IsFiniteSet(lo) /\ r.free_objects = Len(r.free_list)
      /\ r.total_objects = Len(r.free_list) + Cardinality(lo)
  BY DEF CountGood
<1>8. Len(r.free_list) = 0 /\ Cardinality({}) = 0
  BY FS_EmptySet
<1>9. IsFiniteSet(Range(s)) /\ Cardinality(Range(s)) = Len(s)
  BY <1>4, ListCount
<1>10. Cardinality(Range(s) \cup lo) = Cardinality(Range(s)) + Cardinality(lo) - Cardinality(Range(s) \cap lo)
  BY <1>7, <1>9, FS_Union
<1>11. PICK a \in Nat : a = Len(s)
  BY Zenon, LenProperties
<1>12. PICK c \in Nat : c = Cardinality(lo)
  BY <1>7, FS_CardinalityType
<1>13. a + c < n
  <2>1. Cardinality(Range(s) \cup lo) = a + c - 0
    BY <1>6, <1>8, <1>9, <1>10, <1>11, <1>12
  <2>2. Cardinality(Range(s) \cup lo) < n
    BY <1>1, <1>5
  <2> QED
    BY <2>1, <2>2
<1>14. r.total_objects = c /\ r.free_objects = 0
  BY <1>7, <1>8, <1>12
<1>15. t.total_objects = a + c /\ t.free_objects = a
  <2>1. (c + a) % n = c + a /\ (0 + a) % n = a
    <3>1. PICK d \in Nat : d = c + a
      OBVIOUS
    <3>2. d < n /\ a < n
      BY <1>13, <3>1
    <3>3. d % n = d /\ a % n = a
      BY <3>2, ModSmall
    <3> QED
      BY <3>1, <3>3
  <2> QED
    BY <1>5, <1>11, <1>14, <2>1
<1>16. CountGood(t, lo)
  BY <1>4, <1>5, <1>6, <1>7, <1>11, <1>12, <1>15 DEF CountGood
<1> QED
  BY <1>1, <1>13, <1>15, <1>16

\* Objects take some bytes.
LEMMA ObjectSizeOK ==
  ASSUME NEW size \in Nat
  PROVE  ObjectSize(size) \in Nat \ {0}
<1>1. PICK c \in Nat \ {0} : c = CHUNK_SIZE
  BY PoolAssumption
<1>2. PICK m : m = IF size < c THEN c ELSE size
  OBVIOUS
<1>3. m \in Nat /\ m >= c
  BY <1>2
<1>4. PICK x \in Nat : x = m + c - 1
  BY <1>3
<1>5. x % c \in 0..(c - 1)
  BY DivMod
<1>6. ObjectSize(size) = x - (x % c)
  BY <1>1, <1>2, <1>4 DEF ObjectSize, align_up
<1> QED
  BY <1>3, <1>4, <1>5, <1>6

\* A pool that has no region yet.
LEMMA NewPoolGood ==
  ASSUME NEW f \in PoolFormats, f[1] # 0, f[2] # 0, NEW rec, NEW r, r = NewPool(f[1], f[2])
  PROVE  PoolGood(r, {}, rec) /\ CountGood(r, {}) /\ r.free_list = <<>>
<1>1. f[1] \in Nat
  BY PoolAssumption
<1>2. /\ r.object_size = ObjectSize(f[1]) /\ r.free_list = <<>> /\ r.regions = <<>>
      /\ r.free_objects = 0 /\ r.total_objects = 0
  BY DEF NewPool
<1>3. PoolOK(r) /\ r.object_size \in Nat \ {0}
  BY <1>1, <1>2, NewPoolPages, ObjectSizeOK
<1>4. <<>> \in Seq(Nat) /\ Range(<<>>) = {} /\ IsInjective(<<>>) /\ Len(<<>>) = 0
  BY DEF Range, IsInjective
<1>5. OfFormat(r)
  BY <1>2, Zenon DEF OfFormat, AskedFor
<1>6. PoolGood(r, {}, rec)
  BY <1>2, <1>3, <1>4, <1>5 DEF PoolGood, BlocksApart
<1>7. CountGood(r, {})
  BY <1>2, <1>4, FS_EmptySet DEF CountGood
<1> QED
  BY <1>2, <1>6, <1>7

\* Only pool q changes, or is new: it has structure t and callers hold l.
OnePool(po, lo, q, t, l, pp, ll) ==
  /\ DOMAIN pp = DOMAIN po \cup {q} /\ DOMAIN ll = DOMAIN po \cup {q}
  /\ pp[q] = t /\ ll[q] = l
  /\ \A j \in DOMAIN po : j # q => pp[j] = po[j] /\ ll[j] = lo[j]

\* One pool is put in place, the others stay.
LEMMA PoolsUpdated ==
  ASSUME NEW po, NEW lo, NEW rec, PoolsGood(po, lo, rec), NEW rec2 \in SUBSET rec,
         NEW q, NEW t, NEW l, NEW pp, NEW ll, OnePool(po, lo, q, t, l, pp, ll),
         PoolGood(t, l, rec2)
  PROVE  PoolsGood(pp, ll, rec2)
<1>1. ASSUME NEW j \in DOMAIN po, j # q PROVE PoolGood(pp[j], ll[j], rec2)
  BY <1>1 DEF PoolsGood, PoolGood, OnePool
<1> QED
  BY <1>1 DEF PoolsGood, OnePool

\* The free list without its head, which is an object's address.
LEMMA RestIsTail ==
  ASSUME NEW s \in Seq(Nat), s # <<>>
  PROVE  Rest(s) = {Tail(s)}
<1>1. s # <<WILD>>
  <2>1. s[1] \in Nat
    OBVIOUS
  <2> QED
    BY <2>1 DEF WILD
<1> QED
  BY <1>1 DEF Rest

\* What Pop leaves behind.
LEMMA PopFields ==
  ASSUME NEW q \in DOMAIN pool, DOMAIN pool_loans = DOMAIN pool, NEW r, PoolOK(r),
         r.free_list \in Seq(Nat), r.free_list # <<>>, Pop(q, r), NEW t, t = pool'[q]
  PROVE  /\ DOMAIN pool' = DOMAIN pool /\ DOMAIN pool_loans' = DOMAIN pool
         /\ \A j \in DOMAIN pool : j # q => pool'[j] = pool[j] /\ pool_loans'[j] = pool_loans[j]
         /\ DOMAIN t = PoolFields /\ t.object_size = r.object_size /\ t.regions = r.regions
         /\ t.grow_count = r.grow_count /\ t.total_objects = r.total_objects
         /\ t.free_objects = (r.free_objects - 1) % CountMod
         /\ t.free_list = Tail(r.free_list)
         /\ pool_loans'[q] = pool_loans[q] \cup {Head(r.free_list)}
<1>1. PICK s : s = Tail(r.free_list)
  OBVIOUS
<1>2. PICK n : n = (r.free_objects - 1) % CountMod
  OBVIOUS
<1>3. PICK l : l = pool_loans[q] \cup {Head(r.free_list)}
  OBVIOUS
<1>4. pool' = [pool EXCEPT ![q] = [r EXCEPT !.free_objects = n, !.free_list = s]]
  <2>1. Rest(r.free_list) = {s}
    BY <1>1, RestIsTail
  <2>2. \E x \in Rest(r.free_list) :
          pool' = [pool EXCEPT ![q] = [r EXCEPT !.free_objects = n, !.free_list = x]]
    BY <1>2, Zenon DEF Pop
  <2> QED
    BY <2>1, <2>2, Zenon
<1>5. pool_loans' = [pool_loans EXCEPT ![q] = l]
  BY <1>3, Zenon DEF Pop
<1>6. DOMAIN r = PoolFields
  BY DEF PoolOK
<1>7. t = [r EXCEPT !.free_objects = n, !.free_list = s]
  BY <1>4
<1>8. /\ DOMAIN t = PoolFields /\ t.object_size = r.object_size /\ t.regions = r.regions
      /\ t.grow_count = r.grow_count /\ t.total_objects = r.total_objects
      /\ t.free_objects = n /\ t.free_list = s
  BY <1>6, <1>7 DEF PoolFields
<1>9. /\ DOMAIN pool' = DOMAIN pool /\ DOMAIN pool_loans' = DOMAIN pool
      /\ \A j \in DOMAIN pool : j # q => pool'[j] = pool[j] /\ pool_loans'[j] = pool_loans[j]
      /\ pool_loans'[q] = l
  BY <1>4, <1>5
<1> QED
  BY <1>1, <1>2, <1>3, <1>8, <1>9

\* What callers get was free.
LEMMA PopGood ==
  ASSUME NEW q \in DOMAIN pool, DOMAIN pool_loans = DOMAIN pool, NEW r, NEW rec,
         PoolGood(r, pool_loans[q], rec), r.free_list # <<>>, Pop(q, r)
  PROVE  /\ PoolGood(pool'[q], pool_loans'[q], rec)
         /\ Range(pool'[q].free_list) \cup pool_loans'[q]
              = Range(r.free_list) \cup pool_loans[q]
<1>1. PICK t : t = pool'[q]
  OBVIOUS
<1>2. PICK s \in Seq(Nat) : s = r.free_list
  BY DEF PoolGood
<1>3. /\ DOMAIN t = PoolFields /\ t.object_size = r.object_size /\ t.regions = r.regions
      /\ t.grow_count = r.grow_count
      /\ t.free_list = Tail(r.free_list)
      /\ pool_loans'[q] = pool_loans[q] \cup {Head(r.free_list)}
  <2>1. PoolOK(r) /\ r.free_list \in Seq(Nat)
    BY DEF PoolGood
  <2> QED
    BY <1>1, <2>1, PopFields
<1>4. /\ Head(s) \in Nat /\ Head(s) \in Range(s) /\ Tail(s) \in Seq(Nat)
      /\ Len(Tail(s)) = Len(s) - 1 /\ Len(s) \in Nat \ {0}
      /\ Range(s) = Range(Tail(s)) \cup {Head(s)}
      /\ IsInjective(s) => IsInjective(Tail(s)) /\ Head(s) \notin Range(Tail(s))
  BY <1>2, Popped
<1>5. t.free_list = Tail(s) /\ pool_loans'[q] = pool_loans[q] \cup {Head(s)}
  BY <1>2, <1>3
<1>6. Range(t.free_list) \cup pool_loans'[q] = Range(r.free_list) \cup pool_loans[q]
  BY <1>2, <1>4, <1>5
<1>7. t.free_list \in Seq(Nat)
  BY <1>4, <1>5
<1>8. PoolGood(t, pool_loans'[q], rec)
  BY <1>3, <1>6, <1>7, SameObjects
<1> QED
  BY <1>1, <1>6, <1>8

\* An object comes back: what pool_free changes.
LEMMA FreeFields ==
  ASSUME PoolInv, NEW q \in DOMAIN pool, NEW o \in pool_loans[q], pool_free(q, o),
         NEW r, r = pool[q], NEW t, t = pool'[q]
  PROVE  /\ DOMAIN pool' = DOMAIN pool /\ DOMAIN pool_loans' = DOMAIN pool
         /\ \A j \in DOMAIN pool : j # q => pool'[j] = pool[j] /\ pool_loans'[j] = pool_loans[j]
         /\ DOMAIN t = PoolFields /\ t.object_size = r.object_size /\ t.regions = r.regions
         /\ t.grow_count = r.grow_count /\ t.total_objects = r.total_objects
         /\ t.free_objects = (r.free_objects + 1) % CountMod
         /\ t.free_list = Push(o, r.free_list) /\ pool_loans'[q] = pool_loans[q] \ {o}
         /\ o \in Nat /\ reclaimable' = reclaimable
<1>1. PICK s : s = Push(o, r.free_list)
  OBVIOUS
<1>2. PICK n : n = (r.free_objects + 1) % CountMod
  OBVIOUS
<1>3. pool' = [pool EXCEPT ![q] = [r EXCEPT !.free_list = s, !.free_objects = n]]
  BY <1>1, <1>2 DEF pool_free, Push
<1>4. pool_loans' = [pool_loans EXCEPT ![q] = pool_loans[q] \ {o}] /\ UNCHANGED zoneVars
  BY DEF pool_free
<1>5. DOMAIN pool_loans = DOMAIN pool /\ DOMAIN r = PoolFields /\ o \in Nat
  BY DEF PoolInv, PoolsGood, PoolGood, PoolOK
<1>6. t = [r EXCEPT !.free_list = s, !.free_objects = n]
  BY <1>3
<1>7. /\ DOMAIN t = PoolFields /\ t.object_size = r.object_size /\ t.regions = r.regions
      /\ t.grow_count = r.grow_count /\ t.total_objects = r.total_objects
      /\ t.free_objects = n /\ t.free_list = s
  BY <1>5, <1>6 DEF PoolFields
<1>8. /\ DOMAIN pool' = DOMAIN pool /\ DOMAIN pool_loans' = DOMAIN pool
      /\ \A j \in DOMAIN pool : j # q => pool'[j] = pool[j] /\ pool_loans'[j] = pool_loans[j]
      /\ pool_loans'[q] = pool_loans[q] \ {o}
  BY <1>3, <1>4, <1>5
<1> QED
  BY <1>1, <1>2, <1>4, <1>5, <1>7, <1>8 DEF zoneVars

\* The calls of the pools keep them good.
LEMMA PoolStepGood ==
  ASSUME GrowthFits, BootInv, PoolInv, PoolNext
  PROVE  PoolInv'
<1>0. reclaimable \subseteq Nat /\ DOMAIN pool_loans = DOMAIN pool
      /\ PoolsGood(pool, pool_loans, reclaimable)
  BY DEF BootInv, PoolInv, PoolsGood
<1>1. CASE UNCHANGED poolVars /\ UNCHANGED zoneVars
  BY <1>1 DEF PoolInv, poolVars, zoneVars
<1>2. ASSUME NEW f \in PoolFormats, pool_create(f[1], f[2])
      PROVE  PoolInv'
  <2>1. PICK r : r = NewPool(f[1], f[2])
    OBVIOUS
  <2>2. PICK k : k = GrowOrder(r, f[2])
    OBVIOUS
  <2>3. ASSUME f[1] # 0, f[2] # 0, NEW q \in unmovable, NEW p \in Blocks(reclaimable, k),
               reclaimable' = reclaimable \ Block(p, k),
               pool' = Put(pool, q, Grown(r, p, k)), pool_loans' = Put(pool_loans, q, {})
        PROVE  PoolInv'
    <3>1. k \in Orders /\ p \in Nat /\ Block(p, k) \subseteq reclaimable
      BY <1>0, <2>2, GrowOrderOK DEF Blocks
    <3>2. PoolGood(r, {}, reclaimable) /\ CountGood(r, {}) /\ r.free_list = <<>>
      BY <2>1, <2>3, NewPoolGood
    <3>3. PoolGood(Grown(r, p, k), {}, reclaimable \ Block(p, k))
      BY <3>1, <3>2, GrownGood
    <3>4. PICK t : t = Grown(r, p, k)
      OBVIOUS
    <3>5. OnePool(pool, pool_loans, q, t, {}, pool', pool_loans')
      BY <1>0, <2>3, <3>4 DEF Put, OnePool
    <3>6. reclaimable' \in SUBSET reclaimable /\ PoolGood(t, {}, reclaimable')
      BY <2>3, <3>3, <3>4
    <3>7. PoolsGood(pool', pool_loans', reclaimable')
      BY <1>0, <3>5, <3>6, PoolsUpdated
    <3> QED
      BY <3>7 DEF PoolInv
  <2>4. \/ UNCHANGED poolVars /\ UNCHANGED zoneVars
        \/ /\ f[1] # 0 /\ f[2] # 0
           /\ \E q \in unmovable, p \in Blocks(reclaimable, k) :
                /\ reclaimable' = reclaimable \ Block(p, k)
                /\ pool' = Put(pool, q, Grown(r, p, k))
                /\ pool_loans' = Put(pool_loans, q, {})
    BY <1>2, <2>1, <2>2, PoolCreateCases, Zenon
  <2> QED
    BY <1>1, <2>3, <2>4
<1>3. ASSUME NEW q \in DOMAIN pool, NEW r, Pop(q, r), reclaimable' \in SUBSET reclaimable,
             PoolGood(r, pool_loans[q], reclaimable'), r.free_list # <<>>
      PROVE  PoolInv'
  <2>1. PoolGood(pool'[q], pool_loans'[q], reclaimable')
    BY <1>0, <1>3, PopGood
  <2>2. OnePool(pool, pool_loans, q, pool'[q], pool_loans'[q], pool', pool_loans')
    <3>1. /\ DOMAIN pool' = DOMAIN pool /\ DOMAIN pool_loans' = DOMAIN pool
          /\ \A j \in DOMAIN pool : j # q => pool'[j] = pool[j] /\ pool_loans'[j] = pool_loans[j]
      BY <1>0, <1>3, PopFields DEF PoolGood
    <3> QED
      BY <3>1 DEF OnePool
  <2>3. PoolsGood(pool', pool_loans', reclaimable')
    BY <1>0, <1>3, <2>1, <2>2, PoolsUpdated
  <2> QED
    BY <2>3 DEF PoolInv
<1>4. ASSUME NEW q \in DOMAIN pool, pool_alloc(q)
      PROVE  PoolInv'
  <2>1. PICK r : r = pool[q]
    OBVIOUS
  <2>2. PICK k : k = GrowOrder(r, r.grow_count)
    OBVIOUS
  <2>3. PoolGood(r, pool_loans[q], reclaimable)
    BY <1>0, <2>1 DEF PoolsGood
  <2>4. CASE r.free_list # <<>> /\ Pop(q, r) /\ UNCHANGED zoneVars
    <3>1. reclaimable' = reclaimable
      BY <2>4 DEF zoneVars
    <3> QED
      BY <1>3, <2>3, <2>4, <3>1
  <2>5. ASSUME r.free_list = <<>>, NEW p \in Blocks(reclaimable, k), TakeReclaimable(p, k),
               Pop(q, Grown(r, p, k))
        PROVE  PoolInv'
    <3>1. k \in Orders /\ p \in Nat /\ Block(p, k) \subseteq reclaimable
      BY <1>0, <2>2, GrowOrderOK DEF Blocks
    <3>2. PoolGood(Grown(r, p, k), pool_loans[q], reclaimable \ Block(p, k))
      BY <2>3, <2>5, <3>1, GrownGood
    <3>3. reclaimable' = reclaimable \ Block(p, k) /\ reclaimable' \in SUBSET reclaimable
      BY <2>5 DEF TakeReclaimable
    <3>4. Grown(r, p, k).free_list # <<>>
      BY <2>2, <2>3, <2>5, <3>1, GrownNonempty DEF PoolGood
    <3> QED
      BY <1>3, <2>5, <3>2, <3>3, <3>4
  <2> QED
    BY <1>1, <1>4, <2>1, <2>2, <2>4, <2>5, PoolAllocCases
<1>5. ASSUME NEW q \in DOMAIN pool, NEW o \in pool_loans[q], pool_free(q, o)
      PROVE  PoolInv'
  <2>1. PICK r : r = pool[q]
    OBVIOUS
  <2>2. PICK t : t = pool'[q]
    OBVIOUS
  <2>3. /\ DOMAIN pool' = DOMAIN pool /\ DOMAIN pool_loans' = DOMAIN pool
        /\ \A j \in DOMAIN pool : j # q => pool'[j] = pool[j] /\ pool_loans'[j] = pool_loans[j]
        /\ DOMAIN t = PoolFields /\ t.object_size = r.object_size /\ t.regions = r.regions
        /\ t.grow_count = r.grow_count
        /\ t.free_list = Push(o, r.free_list) /\ pool_loans'[q] = pool_loans[q] \ {o}
        /\ o \in Nat /\ reclaimable' = reclaimable
    BY <1>5, <2>1, <2>2, FreeFields
  <2>4. PoolGood(r, pool_loans[q], reclaimable)
    BY <1>0, <2>1 DEF PoolsGood
  <2>5. PICK s \in Seq(Nat) : s = r.free_list
    BY <2>4 DEF PoolGood
  <2>6. /\ Push(o, s) \in Seq(Nat) /\ Len(Push(o, s)) = Len(s) + 1
        /\ Range(Push(o, s)) = Range(s) \cup {o}
        /\ IsInjective(s) /\ o \notin Range(s) => IsInjective(Push(o, s))
    BY <2>3, Pushed
  <2>7. /\ t.free_list \in Seq(Nat) /\ reclaimable \in SUBSET reclaimable
        /\ Range(t.free_list) \cup pool_loans'[q] \subseteq Range(r.free_list) \cup pool_loans[q]
    BY <2>3, <2>5, <2>6
  <2>8. PoolGood(t, pool_loans'[q], reclaimable)
    BY <2>3, <2>4, <2>7, SameObjects
  <2>9. OnePool(pool, pool_loans, q, t, pool_loans'[q], pool', pool_loans')
    BY <2>2, <2>3 DEF OnePool
  <2>10. PoolsGood(pool', pool_loans', reclaimable)
    BY <1>0, <2>7, <2>8, <2>9, PoolsUpdated
  <2> QED
    BY <2>3, <2>10 DEF PoolInv
<1>6. ASSUME NEW q \in DOMAIN pool, pool_destroy(q)
      PROVE  PoolInv'
  <2>1. /\ DOMAIN pool' = DOMAIN pool \ {q} /\ DOMAIN pool_loans' = DOMAIN pool \ {q}
        /\ \A j \in DOMAIN pool' : pool'[j] = pool[j] /\ pool_loans'[j] = pool_loans[j]
        /\ reclaimable' = reclaimable
    BY <1>0, <1>6 DEF pool_destroy, Drop
  <2> QED
    BY <1>0, <2>1 DEF PoolInv, PoolsGood
<1> QED
  BY <1>2, <1>4, <1>5, <1>6 DEF PoolNext

\* Everybody else leaves the pools alone, and never adds to RECLAIMABLE after the
\* boot.
LEMMA PoolInvStep ==
  ASSUME GrowthFits, BootInv, PoolInv, [Next]_vars
  PROVE  PoolInv'
<1>1. CASE PoolNext
  BY <1>1, PoolStepGood
<1>2. CASE UNCHANGED poolVars /\ reclaimable' \subseteq reclaimable
  <2>1. \A q \in DOMAIN pool : PoolGood(pool[q], pool_loans[q], reclaimable')
    BY <1>2 DEF PoolInv, PoolsGood, PoolGood
  <2> QED
    BY <1>2, <2>1 DEF PoolInv, PoolsGood, poolVars
<1>3. CASE UNCHANGED vars
  BY <1>2, <1>3 DEF vars, poolVars, zoneVars
<1>4. CASE ReadTag
  BY <1>2, <1>4 DEF ReadTag, poolVars, zoneVars
<1>5. CASE InitMemory
  <2>1. DOMAIN pool = {} /\ pool' = pool /\ pool_loans' = pool_loans
    BY <1>5 DEF InitMemory, BootInv, NothingTaken, poolVars
  <2> QED
    BY <2>1 DEF PoolInv, PoolsGood
<1>6. CASE SlabNext /\ UNCHANGED poolVars
  BY <1>2, <1>6, SlabZones
<1>7. CASE PmmNext /\ UNCHANGED poolVars
  <2>1. reclaimable' = reclaimable
    BY <1>7 DEF PmmNext, pmm_alloc_frame, pmm_free_frame, zoneVars, TakeUnmovable, FreePages
  <2> QED
    BY <1>2, <1>7, <2>1
<1> QED
  BY <1>1, <1>3, <1>4, <1>5, <1>6, <1>7 DEF Next, Boot

\* The pools are good after any sequence of calls, on any number of CPUs and
\* however pool_destroy guesses, if the regions a pool grows by have room for an
\* object.
THEOREM PoolSafe ==
  ASSUME GrowthFits
  PROVE  Spec => []PoolInv
<1>1. Init => PoolInv
  BY DEF Init, PoolInit, PoolInv, PoolsGood
<1>2. BootInv /\ PoolInv /\ [Next]_vars => PoolInv'
  BY PoolInvStep
<1> QED
  BY <1>1, <1>2, BootSafe, PTL DEF Spec

\* Objects of a pool never overlap each other, the header of a region or its
\* end, for pools, formats and regions of any size and number, if the regions a
\* pool grows by have room for an object.
THEOREM ChunksTheorem ==
  ASSUME GrowthFits
  PROVE  Spec => []ChunksApart
<1>1. PoolInv => ChunksApart
  BY GoodPoolApart, Zenon DEF PoolInv, PoolsGood, ChunksApart
<1> QED
  BY <1>1, PoolSafe, PTL

\* The structure of a pool that has just been popped.
LEMMA PoppedCount ==
  ASSUME PoolInv, NEW q \in DOMAIN pool, NEW r, NEW rec, PoolGood(r, pool_loans[q], rec),
         CountGood(r, pool_loans[q]), r.free_list # <<>>, r.total_objects < CountMod, Pop(q, r)
  PROVE  CountGood(pool'[q], pool_loans'[q])
<1>1. PICK t : t = pool'[q]
  OBVIOUS
<1>2. DOMAIN pool_loans = DOMAIN pool /\ PoolOK(r) /\ r.free_list \in Seq(Nat)
  BY DEF PoolInv, PoolsGood, PoolGood
<1>3. /\ t.total_objects = r.total_objects
      /\ t.free_objects = (r.free_objects - 1) % CountMod
      /\ t.free_list = Tail(r.free_list)
      /\ pool_loans'[q] = pool_loans[q] \cup {Head(r.free_list)}
  BY <1>1, <1>2, PopFields
<1>4. CountGood(t, pool_loans[q] \cup {Head(r.free_list)})
  BY <1>2, <1>3, PopCount
<1> QED
  BY <1>1, <1>3, <1>4

\* The calls of the pools keep the counters.
LEMMA CountStep ==
  ASSUME GrowthFits, BootInv, PoolInv, CountInv, CountsFit, CountsFit', PoolNext
  PROVE  CountInv'
<1>0. reclaimable \subseteq Nat /\ DOMAIN pool_loans = DOMAIN pool
      /\ PoolsGood(pool, pool_loans, reclaimable)
  BY DEF BootInv, PoolInv, PoolsGood
<1>1. CASE UNCHANGED poolVars
  BY <1>1 DEF CountInv, poolVars
<1>2. ASSUME NEW q, NEW t, NEW l, OnePool(pool, pool_loans, q, t, l, pool', pool_loans'),
             CountGood(t, l)
      PROVE  CountInv'
  <2>1. DOMAIN pool' = DOMAIN pool \cup {q} /\ CountGood(pool'[q], pool_loans'[q])
    BY <1>2 DEF OnePool
  <2>2. \A j \in DOMAIN pool : j # q => CountGood(pool'[j], pool_loans'[j])
    BY <1>2 DEF OnePool, CountInv
  <2> QED
    BY <2>1, <2>2 DEF CountInv
<1>3. ASSUME NEW f \in PoolFormats, pool_create(f[1], f[2])
      PROVE  CountInv'
  <2>1. PICK r : r = NewPool(f[1], f[2])
    OBVIOUS
  <2>2. PICK k : k = GrowOrder(r, f[2])
    OBVIOUS
  <2>3. ASSUME f[1] # 0, f[2] # 0, NEW q \in unmovable, NEW p \in Blocks(reclaimable, k),
               pool' = Put(pool, q, Grown(r, p, k)), pool_loans' = Put(pool_loans, q, {})
        PROVE  CountInv'
    <3>1. k \in Orders /\ p \in Nat /\ Block(p, k) \subseteq reclaimable
      BY <1>0, <2>2, GrowOrderOK DEF Blocks
    <3>2. PoolGood(r, {}, reclaimable) /\ CountGood(r, {}) /\ r.free_list = <<>>
      BY <2>1, <2>3, NewPoolGood
    <3>3. PICK t : t = Grown(r, p, k)
      OBVIOUS
    <3>4. OnePool(pool, pool_loans, q, t, {}, pool', pool_loans')
      BY <1>0, <2>3, <3>3 DEF Put, OnePool
    <3>5. Cardinality(Range(t.free_list) \cup {}) < CountMod
      BY <3>4 DEF CountsFit, OnePool
    <3>6. CountGood(t, {}) /\ t.total_objects < CountMod
      BY <3>1, <3>2, <3>3, <3>5, GrownCount
    <3> QED
      BY <1>2, <3>4, <3>6
  <2>4. \/ UNCHANGED poolVars
        \/ /\ f[1] # 0 /\ f[2] # 0
           /\ \E q \in unmovable, p \in Blocks(reclaimable, k) :
                /\ pool' = Put(pool, q, Grown(r, p, k))
                /\ pool_loans' = Put(pool_loans, q, {})
    BY <1>3, <2>1, <2>2, PoolCreateCases, Zenon
  <2> QED
    BY <1>1, <2>3, <2>4
<1>4. ASSUME NEW q \in DOMAIN pool, pool_alloc(q)
      PROVE  CountInv'
  <2>1. PICK r : r = pool[q]
    OBVIOUS
  <2>2. PICK k : k = GrowOrder(r, r.grow_count)
    OBVIOUS
  <2>3. PoolGood(r, pool_loans[q], reclaimable) /\ CountGood(r, pool_loans[q])
    BY <1>0, <2>1 DEF PoolsGood, CountInv
  <2>4. PoolOK(r) /\ r.free_list \in Seq(Nat) /\ r.object_size \in Nat \ {0}
    BY <2>3 DEF PoolGood
  <2>5. ASSUME NEW t, Pop(q, t), CountGood(pool'[q], pool_loans'[q]), PoolOK(t),
               t.free_list \in Seq(Nat), t.free_list # <<>>
        PROVE  CountInv'
    <3>1. /\ DOMAIN pool' = DOMAIN pool /\ DOMAIN pool_loans' = DOMAIN pool
          /\ \A j \in DOMAIN pool : j # q => pool'[j] = pool[j] /\ pool_loans'[j] = pool_loans[j]
      BY <1>0, <2>5, PopFields
    <3>2. OnePool(pool, pool_loans, q, pool'[q], pool_loans'[q], pool', pool_loans')
      BY <3>1 DEF OnePool
    <3> QED
      BY <1>2, <2>5, <3>2
  <2>6. CASE r.free_list # <<>> /\ Pop(q, r)
    <3>1. r.total_objects < CountMod
      <4>1. Cardinality(Range(r.free_list) \cup pool_loans[q]) = r.total_objects
        BY <2>3, <2>4, ObjectCount
      <4> QED
        BY <2>1, <4>1 DEF CountsFit
    <3>2. CountGood(pool'[q], pool_loans'[q])
      BY <2>3, <2>6, <3>1, PoppedCount
    <3> QED
      BY <2>4, <2>5, <2>6, <3>2
  <2>7. ASSUME r.free_list = <<>>, NEW p \in Blocks(reclaimable, k), Pop(q, Grown(r, p, k))
        PROVE  CountInv'
    <3>1. k \in Orders /\ p \in Nat /\ Block(p, k) \subseteq reclaimable
      BY <1>0, <2>2, GrowOrderOK DEF Blocks
    <3>2. PICK t : t = Grown(r, p, k)
      OBVIOUS
    <3>3. PoolGood(t, pool_loans[q], reclaimable \ Block(p, k))
      BY <2>3, <2>7, <3>1, <3>2, GrownGood
    <3>7. t.free_list # <<>>
      BY <2>2, <2>3, <2>4, <2>7, <3>1, <3>2, GrownNonempty DEF PoolGood
    <3>8. Pop(q, t)
      BY <2>7, <3>2
    <3>9. Range(pool'[q].free_list) \cup pool_loans'[q] = Range(t.free_list) \cup pool_loans[q]
      BY <1>0, <3>3, <3>7, <3>8, PopGood
    <3>10. q \in DOMAIN pool'
      BY <3>8 DEF Pop
    <3>11. Cardinality(Range(t.free_list) \cup pool_loans[q]) < CountMod
      BY <3>9, <3>10 DEF CountsFit
    <3>12. CountGood(t, pool_loans[q]) /\ t.total_objects < CountMod
      BY <2>3, <2>7, <3>1, <3>2, <3>11, GrownCount
    <3>13. CountGood(pool'[q], pool_loans'[q])
      BY <3>3, <3>7, <3>8, <3>12, PoppedCount
    <3> QED
      BY <2>5, <3>3, <3>7, <3>8, <3>13 DEF PoolGood
  <2> QED
    BY <1>1, <1>4, <2>1, <2>2, <2>6, <2>7, PoolAllocCases
<1>5. ASSUME NEW q \in DOMAIN pool, NEW o \in pool_loans[q], pool_free(q, o)
      PROVE  CountInv'
  <2>1. PICK r : r = pool[q]
    OBVIOUS
  <2>2. PICK t : t = pool'[q]
    OBVIOUS
  <2>3. /\ DOMAIN pool' = DOMAIN pool /\ DOMAIN pool_loans' = DOMAIN pool
        /\ \A j \in DOMAIN pool : j # q => pool'[j] = pool[j] /\ pool_loans'[j] = pool_loans[j]
        /\ t.object_size = r.object_size
        /\ t.grow_count = r.grow_count /\ t.total_objects = r.total_objects
        /\ t.free_objects = (r.free_objects + 1) % CountMod
        /\ t.free_list = Push(o, r.free_list) /\ pool_loans'[q] = pool_loans[q] \ {o}
        /\ o \in Nat
    BY <1>5, <2>1, <2>2, FreeFields
  <2>4. CountGood(r, pool_loans[q]) /\ r.free_list \in Seq(Nat)
    BY <1>0, <2>1 DEF PoolsGood, CountInv, PoolGood
  <2>5. r.total_objects < CountMod
    <3>1. Cardinality(Range(r.free_list) \cup pool_loans[q]) = r.total_objects
      BY <2>4, ObjectCount
    <3> QED
      BY <2>1, <3>1 DEF CountsFit
  <2>6. CountGood(t, pool_loans[q] \ {o})
    BY <2>3, <2>4, <2>5, PushCount
  <2>7. OnePool(pool, pool_loans, q, t, pool_loans[q] \ {o}, pool', pool_loans')
    BY <2>2, <2>3 DEF OnePool
  <2> QED
    BY <1>2, <2>6, <2>7
<1>6. ASSUME NEW q \in DOMAIN pool, pool_destroy(q)
      PROVE  CountInv'
  <2>1. /\ DOMAIN pool' = DOMAIN pool \ {q}
        /\ \A j \in DOMAIN pool' : pool'[j] = pool[j] /\ pool_loans'[j] = pool_loans[j]
    BY <1>0, <1>6 DEF pool_destroy, Drop
  <2> QED
    BY <2>1 DEF CountInv
<1> QED
  BY <1>3, <1>4, <1>5, <1>6 DEF PoolNext

\* Exact counters, in the form of the property.
LEMMA CountsAreExact ==
  ASSUME PoolInv, CountInv
  PROVE  PoolCountsExact
<1>1. SUFFICES ASSUME NEW q \in DOMAIN pool
               PROVE  LET free == Range(pool[q].free_list) IN
                      /\ Len(pool[q].free_list) = pool[q].free_objects
                      /\ Cardinality(free) = pool[q].free_objects
                      /\ Cardinality(pool_loans[q]) = pool[q].total_objects - pool[q].free_objects
                      /\ free \cap pool_loans[q] = {}
  BY Zenon DEF PoolCountsExact
<1>2. PICK r : r = pool[q]
  OBVIOUS
<1>3. CountGood(r, pool_loans[q]) /\ r.free_list \in Seq(Nat)
  BY <1>2 DEF CountInv, PoolInv, PoolsGood, PoolGood
<1>4. /\ r.free_objects = Len(r.free_list) /\ Range(r.free_list) \cap pool_loans[q] = {}
      /\ r.total_objects = Len(r.free_list) + Cardinality(pool_loans[q])
      /\ IsInjective(r.free_list)
  BY <1>3 DEF CountGood
<1>5. Cardinality(Range(r.free_list)) = Len(r.free_list)
  BY <1>3, <1>4, ListCount
<1>6. r.free_objects \in Nat /\ Cardinality(pool_loans[q]) \in Nat
  BY <1>3, ObjectCount
<1> QED
  BY <1>2, <1>4, <1>5, <1>6

\* The counters of the pools are exact, for pools and formats of any number, if
\* the regions a pool grows by have room for an object and no pool has more
\* objects than its counters can count.
THEOREM PoolCountTheorem ==
  ASSUME GrowthFits
  PROVE  Spec /\ []CountsFit => []PoolCountsExact
<1>1. Init => CountInv
  BY DEF Init, PoolInit, CountInv
<1>2. BootInv /\ PoolInv /\ CountInv /\ CountsFit /\ CountsFit' /\ [Next]_vars => CountInv'
  <2>1. ASSUME CountInv, UNCHANGED poolVars PROVE CountInv'
    BY <2>1 DEF CountInv, poolVars
  <2> QED
    BY <2>1, CountStep DEF Next, Boot, ReadTag, InitMemory, vars
<1>3. PoolInv /\ CountInv => PoolCountsExact
  BY CountsAreExact
<1> QED
  BY <1>1, <1>2, <1>3, BootSafe, PoolSafe, PTL DEF Spec

-----------------------------------------------------------------------------
(* Slabs *)

Spare(r) == UsableSize - r.objects_per_slab * r.object_size

\* The numbers of a cache, and what FormatsFit says of them.
Format(r) ==
  /\ r.object_size \in Nat \ {0} /\ r.align \in Nat \ {0}
  /\ r.objects_per_slab \in Nat \ {0} /\ r.color_next \in Nat
  /\ r.object_size % r.align = 0
Fits(r) ==
  /\ Spare(r) >= 0
  /\ BUDDY_PAGE_SIZE % r.align = 0 /\ SLAB_HEADER % r.align = 0
  /\ CACHE_LINE_SIZE % r.align = 0

HeaderFields == {"base", "in_use", "free_list"}

\* Header b of slab s has the first object behind the header and a colour.
Placed(r, s, b) ==
  \E off \in 0..(Spare(r) - 1) :
    off % r.align = 0 /\ b.base = s * BUDDY_PAGE_SIZE + SLAB_HEADER + off

CacheGood(r) == CacheOK(r) /\ Format(r) /\ (FormatsFit => Fits(r))
Headed(r, sl) ==
  \A s \in ListPages(r) :
    s \in DOMAIN sl /\ DOMAIN sl[s] = HeaderFields /\ (FormatsFit => Placed(r, s, sl[s]))

\* Caches ca with slabs sl, none of them one of the free pages.
CachesGood(ca, sl, free) ==
  /\ \A k \in DOMAIN ca :
       CacheGood(ca[k]) /\ Headed(ca[k], sl) /\ ListPages(ca[k]) \cap free = {}
  /\ \A j, k \in DOMAIN ca : j # k => ListPages(ca[j]) \cap ListPages(ca[k]) = {}

\* A slab belongs to one cache, and was not freed since.
SlabInv ==
  CachesGood(cache, slab, reclaimable) /\ OnCaches(cache, at, arg) /\ LoansOK(cache, loans)

\* Slab x has as many objects in use as are not on its free list.
CountOK(n, sl, x) ==
  /\ sl[x].free_list \in Seq(Range(sl[x].free_list))
  /\ sl[x].in_use = n - Len(sl[x].free_list)

\* Sets of full, partial and empty slabs with n objects each.
SetsSorted(F, P, E, n, sl) ==
  /\ F \cap P = {} /\ F \cap E = {} /\ P \cap E = {}
  /\ \A x \in F \cup P \cup E : CountOK(n, sl, x)
  /\ \A x \in F : Len(sl[x].free_list) = 0
  /\ \A x \in P : Len(sl[x].free_list) > 0
  /\ \A x \in E : Len(sl[x].free_list) = n

\* The lists of cache r hold different slabs, by how many objects they have free.
Sorted(r, sl) ==
  /\ IsInjective(r.full) /\ IsInjective(r.partial) /\ IsInjective(r.empty)
  /\ SetsSorted(Range(r.full), Range(r.partial), Range(r.empty), r.objects_per_slab, sl)

\* The list of caches and the slabs there are.
Listed(l, ca, sl) ==
  /\ l \in Seq(Nat) /\ IsInjective(l) /\ Range(l) = DOMAIN ca
  /\ DOMAIN sl = UNION {ListPages(ca[k]) : k \in DOMAIN ca}

SortedInv ==
  Listed(g_cache_list, cache, slab) /\ \A k \in DOMAIN cache : Sorted(cache[k], slab)

\* Where objects are: those of a slab, on the free lists, in the CPU cache, and
\* those of cache k among the pairs X.
ObjectsIn(r, b) == {b.base + i * r.object_size : i \in 0..(r.objects_per_slab - 1)}
AllObjects(r, sl) == UNION {ObjectsIn(r, sl[s]) : s \in ListPages(r)}
FreeObjects(r, sl) == UNION {Range(sl[s].free_list) : s \in ListPages(r)}
ReadyObjects(r) == {r.slots[i] : i \in 0..(r.available - 1)}
ObjectsAmong(X, k) == {x[2] : x \in {y \in X : y[1] = k}}

\* What a call at l with argument g has in its hands.
Transit(l, g, ca) ==
  IF l = "alloc_read" THEN {<<g[1], ca[g[1]].slots[g[2] - 1]>>}
  ELSE IF l \in {"free_array", "free_store", "free_count", "free_slow"}
    THEN {<<g[1], g[2]>>}
  ELSE {}

\* The CPU cache has room for what it holds, and holds it once.
SlotsOK(r) ==
  /\ r.available \in 0..SLAB_CPU_CACHE_SIZE
  /\ DOMAIN r.slots = 0..(SLAB_CPU_CACHE_SIZE - 1)
  /\ \A i, j \in 0..(r.available - 1) : r.slots[i] = r.slots[j] => i = j

\* A free list has objects of its slab, each once.
FreeOK(r, sl) ==
  \A s \in ListPages(r) :
    IsInjective(sl[s].free_list) /\ Range(sl[s].free_list) \subseteq ObjectsIn(r, sl[s])

\* What the call loaded is still so: nobody else runs.
CallOK(l, g, ca) ==
  LET r == ca[g[1]] IN
  /\ l = "alloc_store" => g[2] = r.available /\ r.available > 0
  /\ l = "alloc_read" => g[2] = r.available + 1
  /\ l \in {"free_array", "free_store", "free_count"} =>
       g[3] = r.available /\ r.available < SLAB_CPU_CACHE_SIZE
  /\ l = "free_count" => r.slots[g[3]] = g[2]

\* Objects O are lent, in transit, ready or free, and only one of these.
Parted(O, L, T, R, F) ==
  /\ O = L \cup T \cup R \cup F
  /\ L \cap T = {} /\ L \cap R = {} /\ L \cap F = {}
  /\ T \cap R = {} /\ T \cap F = {} /\ R \cap F = {}

\* Cache k with structure r, for a CPU with loans L and T in transit.
Accounted(k, r, sl, L, T) ==
  /\ SlotsOK(r) /\ FreeOK(r, sl)
  /\ Parted(AllObjects(r, sl), ObjectsAmong(L, k), ObjectsAmong(T, k), ReadyObjects(r),
            FreeObjects(r, sl))

AccountOf(ca, sl, L, l, g) ==
  /\ \A x \in L : x = <<x[1], x[2]>>
  /\ CallOK(l, g, ca)
  /\ \A k \in DOMAIN ca : Accounted(k, ca[k], sl, L, Transit(l, g, ca))

AccountInv == \A c \in CPUs : AccountOf(cache, slab, loans[c], at[c], arg[c])

\* The numbers and the CPU cache of a cache stay as they are.
SameNumbers(t, r) ==
  /\ t.object_size = r.object_size /\ t.align = r.align
  /\ t.objects_per_slab = r.objects_per_slab
SameReady(t, r) ==
  t.color_next = r.color_next /\ t.slots = r.slots /\ t.available = r.available

\* Moving a slab to another list changes nothing else.
LEMMA MovedShape ==
  ASSUME NEW r, CacheOK(r), NEW s, NEW b
  PROVE  /\ SameNumbers(Filled(r, s, b), r) /\ SameReady(Filled(r, s, b), r)
         /\ SameNumbers(Emptied(r, s, b), r) /\ SameReady(Emptied(r, s, b), r)
<1>1. DOMAIN r = CacheFields
  BY DEF CacheOK
<1>2. SameNumbers(Filled(r, s, b), r) /\ SameReady(Filled(r, s, b), r)
  BY <1>1 DEF Filled, SameNumbers, SameReady, CacheFields
<1>3. SameNumbers(Emptied(r, s, b), r) /\ SameReady(Emptied(r, s, b), r)
  BY <1>1 DEF Emptied, SameNumbers, SameReady, CacheFields
<1> QED
  BY <1>2, <1>3

\* What a good cache needs depends on its numbers and lists only.
LEMMA StillGood ==
  ASSUME NEW r, CacheGood(r), NEW t, CacheOK(t), SameNumbers(t, r), t.color_next \in Nat
  PROVE  /\ CacheGood(t)
         /\ \A s, b : Placed(t, s, b) <=> Placed(r, s, b)
<1>1. Spare(t) = Spare(r)
  BY DEF Spare, SameNumbers
<1>2. Format(t) /\ (FormatsFit => Fits(t))
  BY <1>1 DEF CacheGood, Format, Fits, SameNumbers
<1>3. \A s, b : Placed(t, s, b) <=> Placed(r, s, b)
  BY <1>1 DEF Placed, SameNumbers
<1> QED
  BY <1>2, <1>3 DEF CacheGood

\* The headers of all slabs but X stay as they are.
Untouched(sl, sb, X) == \A s \in DOMAIN sl : s \notin X => s \in DOMAIN sb /\ sb[s] = sl[s]

\* One cache of the good ones changes, and takes slabs that were free.
LEMMA GoodUpdated ==
  ASSUME NEW ca, NEW sl, NEW free, CachesGood(ca, sl, free), NEW k \in DOMAIN ca,
         NEW t, CacheGood(t), NEW sb, Headed(t, sb), NEW rest \in SUBSET free,
         ListPages(t) \subseteq ListPages(ca[k]) \cup (free \ rest),
         Untouched(sl, sb, ListPages(t)),
         NEW cb, cb = [ca EXCEPT ![k] = t]
  PROVE  CachesGood(cb, sb, rest) /\ DOMAIN cb = DOMAIN ca
<1>1. DOMAIN cb = DOMAIN ca /\ cb[k] = t /\ \A j \in DOMAIN ca : j # k => cb[j] = ca[j]
  OBVIOUS
<1>2. \A j \in DOMAIN ca : j # k => ListPages(ca[j]) \cap ListPages(t) = {}
  BY DEF CachesGood
<1>3. \A j \in DOMAIN ca : j # k => Headed(ca[j], sb)
  BY <1>2 DEF CachesGood, Headed, Untouched
<1>4. \A j \in DOMAIN ca : ListPages(cb[j]) \cap rest = {}
  BY <1>1 DEF CachesGood
<1>5. \A j \in DOMAIN ca : CacheGood(cb[j]) /\ Headed(cb[j], sb)
  BY <1>1, <1>3 DEF CachesGood
<1>6. \A i, j \in DOMAIN ca : i # j => ListPages(cb[i]) \cap ListPages(cb[j]) = {}
  BY <1>1, <1>2 DEF CachesGood
<1> QED
  BY <1>1, <1>4, <1>5, <1>6 DEF CachesGood

\* The numbers of a new cache.
LEMMA NewCacheGood ==
  ASSUME NEW f \in Formats, f[1] \in 1..BUDDY_PAGE_SIZE
  PROVE  /\ CacheGood(NewCache(f[1], f[2])) /\ ListPages(NewCache(f[1], f[2])) = {}
         /\ NewCache(f[1], f[2]).full = <<>> /\ NewCache(f[1], f[2]).partial = <<>>
         /\ NewCache(f[1], f[2]).empty = <<>> /\ NewCache(f[1], f[2]).available = 0
         /\ NewCache(f[1], f[2]).slots = [i \in 0..(SLAB_CPU_CACHE_SIZE - 1) |-> NULL]
<1>1. PICK t : t = NewCache(f[1], f[2])
  OBVIOUS
<1>2. PICK size \in Nat \ {0} : size = f[1]
  OBVIOUS
<1>3. f[2] \in Nat
  BY SlabAssumption
<1>4. PICK a \in Nat \ {0} : a = IF f[2] = 0 THEN 8 ELSE f[2]
  BY <1>3
<1>5. PICK n \in Nat : n = size + a - 1
  OBVIOUS
<1>6. n \div a \in Int /\ n % a \in 0..(a - 1) /\ n = a * (n \div a) + (n % a)
  BY DivMod
<1>7. PICK z \in Nat \ {0} : z = n - (n % a) /\ z % a = 0
  <2>1. n - (n % a) \in Nat \ {0}
    BY <1>5, <1>6
  <2>2. n - (n % a) = (n \div a) * a + 0
    BY <1>6
  <2>3. ((n \div a) * a + 0) % a = 0
    BY <1>6, DivUnique
  <2> QED
    BY <2>1, <2>2, <2>3
<1>8. PICK m \in Nat \ {0} : m = ObjectsPerSlab(z)
  <2>1. UsableSize \in Nat
    BY SlabAssumption, ZoneNumbers DEF UsableSize
  <2>2. UsableSize \div z \in Nat
    BY <2>1
  <2> QED
    BY <2>2 DEF ObjectsPerSlab
<1>9. /\ DOMAIN t = CacheFields /\ t.object_size = z /\ t.align = a
      /\ t.objects_per_slab = m /\ t.color_next = 0 /\ t.full = <<>>
      /\ t.partial = <<>> /\ t.empty = <<>> /\ t.available = 0
      /\ t.slots = [i \in 0..(SLAB_CPU_CACHE_SIZE - 1) |-> NULL]
  BY <1>1, <1>2, <1>4, <1>5, <1>7, <1>8 DEF NewCache, align_up, CacheFields
<1>10. <<>> \in Seq(Nat) /\ Range(<<>>) = {}
  BY DEF Range
<1>11. CacheOK(t) /\ ListPages(t) = {} /\ Format(t)
  BY <1>7, <1>9, <1>10 DEF CacheOK, ListPages, Format
<1>12. ASSUME FormatsFit PROVE Fits(t)
  <2>1. /\ t.object_size <= UsableSize
        /\ BUDDY_PAGE_SIZE % t.align = 0 /\ SLAB_HEADER % t.align = 0
        /\ CACHE_LINE_SIZE % t.align = 0
    BY <1>1, <1>12, Zenon DEF FormatsFit
  <2>2. UsableSize \in Nat
    BY SlabAssumption, ZoneNumbers DEF UsableSize
  <2>3. m * z <= UsableSize
    <3>1. PICK u \in Nat : u = UsableSize /\ z <= u
      BY <1>9, <2>1, <2>2
    <3>2. u = z * (u \div z) + (u % z) /\ u % z \in 0..(z - 1) /\ u \div z \in Int
      BY DivMod
    <3>3. u \div z # 0
      BY <3>1, <3>2
    <3>4. m = u \div z
      BY <1>8, <3>1, <3>3 DEF ObjectsPerSlab
    <3> QED
      BY <3>1, <3>2, <3>4
  <2>4. Spare(t) >= 0
    BY <1>9, <2>2, <2>3 DEF Spare
  <2> QED
    BY <2>1, <2>4 DEF Fits
<1> QED
  BY <1>1, <1>9, <1>11, <1>12 DEF CacheGood

\* A multiple of a number is so many times that number.
LEMMA Multiple ==
  ASSUME NEW a \in Nat \ {0}, NEW x \in Int, x % a = 0
  PROVE  \E q \in Int : x = q * a
<1>1. x \div a \in Int /\ x = a * (x \div a) + (x % a)
  BY DivMod
<1> QED
  BY <1>1

\* The remainder of a multiple by a multiple is a multiple.
LEMMA MultipleMod ==
  ASSUME NEW a \in Nat \ {0}, NEW x \in Int, x % a = 0, NEW n \in Nat \ {0}, n % a = 0
  PROVE  (x % n) % a = 0
<1>1. PICK q \in Int : x = q * a
  BY Multiple
<1>2. PICK t \in Int : n = t * a
  BY Multiple
<1>3. PICK d \in Int : d = x \div n /\ x = n * d + (x % n) /\ x % n \in 0..(n - 1)
  BY DivMod
<1>4. x % n = q * a - (t * a) * d
  BY <1>1, <1>2, <1>3
<1>5. q * a - (t * a) * d = (q - t * d) * a + 0
  OBVIOUS
<1>6. PICK y \in Int : y = q - t * d
  OBVIOUS
<1>7. (y * a + 0) % a = 0
  BY DivUnique
<1> QED
  BY <1>4, <1>5, <1>6, <1>7

\* Times a multiple is a multiple.
LEMMA MultipleTimes ==
  ASSUME NEW a \in Nat \ {0}, NEW x \in Int, x % a = 0, NEW y \in Int
  PROVE  (y * x) % a = 0
<1>1. PICK q \in Int : x = q * a
  BY Multiple
<1>2. y * x = (y * q) * a + 0
  BY <1>1
<1>3. PICK t \in Int : t = y * q
  OBVIOUS
<1>4. (t * a + 0) % a = 0
  BY DivUnique
<1> QED
  BY <1>2, <1>3, <1>4

\* Sums and differences of multiples are multiples.
LEMMA MultipleSum ==
  ASSUME NEW a \in Nat \ {0}, NEW x \in Int, x % a = 0, NEW y \in Int, y % a = 0
  PROVE  (x + y) % a = 0 /\ (x - y) % a = 0
<1>1. PICK q \in Int : x = q * a
  BY Multiple
<1>2. PICK t \in Int : y = t * a
  BY Multiple
<1>3. x + y = (q + t) * a + 0 /\ x - y = (q - t) * a + 0
  BY <1>1, <1>2
<1>4. PICK u \in Int : u = q + t
  OBVIOUS
<1>5. PICK v \in Int : v = q - t
  OBVIOUS
<1>6. (u * a + 0) % a = 0 /\ (v * a + 0) % a = 0
  BY DivUnique
<1> QED
  BY <1>3, <1>4, <1>5, <1>6

\* The numbers that place objects.
LEMMA PlaceNumbers ==
  ASSUME NEW r, CacheGood(r), FormatsFit
  PROVE  /\ r.object_size \in Nat \ {0} /\ r.align \in Nat \ {0}
         /\ r.objects_per_slab \in Nat \ {0} /\ SLAB_HEADER \in Nat
         /\ Spare(r) \in Nat
         /\ BUDDY_PAGE_SIZE = SLAB_HEADER + r.objects_per_slab * r.object_size + Spare(r)
         /\ r.object_size % r.align = 0 /\ SLAB_HEADER % r.align = 0
         /\ BUDDY_PAGE_SIZE % r.align = 0 /\ Spare(r) % r.align = 0
<1>1. PICK n \in Nat \ {0} : n = r.objects_per_slab
  BY DEF CacheGood, Format
<1>2. PICK z \in Nat \ {0} : z = r.object_size
  BY DEF CacheGood, Format
<1>3. PICK a \in Nat \ {0} : a = r.align
  BY DEF CacheGood, Format
<1>4. /\ Spare(r) >= 0 /\ BUDDY_PAGE_SIZE % a = 0 /\ SLAB_HEADER % a = 0 /\ z % a = 0
  BY <1>2, <1>3 DEF CacheGood, Fits, Format
<1>5. PICK m \in Nat : m = n * z
  OBVIOUS
<1>6. BUDDY_PAGE_SIZE \in Nat /\ SLAB_HEADER \in Nat /\ SLAB_HEADER < BUDDY_PAGE_SIZE
  BY SlabAssumption, ZoneNumbers
<1>7. Spare(r) = BUDDY_PAGE_SIZE - SLAB_HEADER - m
  BY <1>1, <1>2, <1>5 DEF Spare, UsableSize
<1>8. Spare(r) \in Nat
  BY <1>4, <1>6, <1>7
<1>9. m % a = 0
  <2>1. PICK x \in Int : x = z
    OBVIOUS
  <2>2. PICK y \in Int : y = n
    OBVIOUS
  <2>3. x % a = 0
    BY <1>4, <2>1
  <2>4. (y * x) % a = 0
    BY <2>3, MultipleTimes
  <2> QED
    BY <1>5, <2>1, <2>2, <2>4
<1>10. PICK u \in Int : u = BUDDY_PAGE_SIZE - SLAB_HEADER /\ u % a = 0
  <2>1. PICK x \in Int : x = BUDDY_PAGE_SIZE
    BY <1>6
  <2>2. PICK y \in Int : y = SLAB_HEADER
    BY <1>6
  <2>3. (x + y) % a = 0 /\ (x - y) % a = 0
    BY <1>4, <2>1, <2>2, MultipleSum
  <2> QED
    BY <2>1, <2>2, <2>3
<1>11. (u + m) % a = 0 /\ (u - m) % a = 0
  BY <1>9, <1>10, MultipleSum
<1> QED
  BY <1>1, <1>2, <1>3, <1>4, <1>5, <1>6, <1>7, <1>8, <1>10, <1>11

\* A new slab has its fields, and its first object in place.
LEMMA NewSlabPlaced ==
  ASSUME NEW k \in DOMAIN cache, CacheGood(cache[k]), Slack(k) # 0, NEW p \in Nat
  PROVE  /\ DOMAIN NewSlab(p, k) = HeaderFields
         /\ FormatsFit => Placed(cache[k], p, NewSlab(p, k))
<1>1. DOMAIN NewSlab(p, k) = HeaderFields /\ NewSlab(p, k).base = FirstObject(p, k)
  BY DEF NewSlab, HeaderFields
<1>2. PICK r : r = cache[k]
  OBVIOUS
<1>3. ASSUME FormatsFit PROVE Placed(r, p, NewSlab(p, k))
  <2>1. PICK a \in Nat \ {0} : a = r.align
    BY <1>2 DEF CacheGood, Format
  <2>2. PICK n \in Nat \ {0} : n = Spare(r)
    BY <1>2, <1>3, PlaceNumbers DEF Slack, Spare
  <2>3. n % a = 0 /\ CACHE_LINE_SIZE % a = 0 /\ CACHE_LINE_SIZE \in Nat
        /\ r.color_next \in Nat
    BY <1>2, <1>3, <2>1, <2>2, PlaceNumbers, SlabAssumption DEF CacheGood, Fits, Format
  <2>4. PICK i \in Int : i = r.color_next
    BY <2>3
  <2>5. PICK l \in Int : l = CACHE_LINE_SIZE
    BY <2>3
  <2>6. PICK x \in Int : x = i * l
    OBVIOUS
  <2>7. (i * l) % a = 0
    BY <2>3, <2>5, MultipleTimes
  <2>8. (x % n) % a = 0
    BY <2>3, <2>6, <2>7, MultipleMod
  <2>9. x % n \in 0..(n - 1)
    BY DivMod
  <2>10. ColorOffset(k) = x % n
    BY <1>2, <2>2, <2>4, <2>5, <2>6 DEF ColorOffset, Slack, Spare
  <2> QED
    BY <1>1, <2>1, <2>2, <2>8, <2>9, <2>10 DEF Placed, FirstObject
<1> QED
  BY <1>1, <1>2, <1>3

\* An object of a slab is lent: the cache stays good.
LEMMA LendGood ==
  ASSUME SlabInv, NEW c, NEW k \in DOMAIN cache, NEW r, CacheGood(r), NEW s \in ListPages(r),
         NEW b, Headed(r, Put(slab, s, b)), Lend(c, k, r, s, b),
         reclaimable' \subseteq reclaimable,
         ListPages(r) \subseteq ListPages(cache[k]) \cup (reclaimable \ reclaimable')
  PROVE  CachesGood(cache', slab', reclaimable') /\ DOMAIN cache' = DOMAIN cache
<1>1. PICK t : t = Filled(r, s, b)
  OBVIOUS
<1>2. CacheOK(r) /\ r.color_next \in Nat
  BY DEF CacheGood, Format
<1>3. CacheOK(t) /\ ListPages(t) = ListPages(r) /\ SameNumbers(t, r) /\ t.color_next \in Nat
  BY <1>1, <1>2, FilledPages, MovedShape DEF SameReady
<1>4. CacheGood(t) /\ \A x, y : Placed(t, x, y) <=> Placed(r, x, y)
  BY <1>3, StillGood
<1>5. PICK h : h = [b EXCEPT !.free_list = Tail(@), !.in_use = @ + 1]
  OBVIOUS
<1>6. DOMAIN b = HeaderFields /\ (FormatsFit => Placed(r, s, b))
  BY DEF Headed, Put
<1>7. DOMAIN h = HeaderFields /\ h.base = b.base
  BY <1>5, <1>6 DEF HeaderFields
<1>8. slab' = Put(slab, s, h) /\ cache' = [cache EXCEPT ![k] = t]
  BY <1>1, <1>5 DEF Lend
<1>9. FormatsFit => Placed(t, s, h)
  BY <1>4, <1>6, <1>7 DEF Placed
<1>10. Headed(t, slab')
  BY <1>3, <1>4, <1>7, <1>8, <1>9 DEF Headed, Put
<1>11. Untouched(slab, slab', ListPages(t))
  BY <1>3, <1>8 DEF Put, Untouched
<1>12. CachesGood(cache, slab, reclaimable)
  BY DEF SlabInv
<1>13. PICK rest \in SUBSET reclaimable : rest = reclaimable'
  OBVIOUS
<1>14. ListPages(t) \subseteq ListPages(cache[k]) \cup (reclaimable \ rest)
  BY <1>3, <1>13
<1>15. PICK sb : sb = slab'
  OBVIOUS
<1>16. PICK cb : cb = cache'
  OBVIOUS
<1>17. Headed(t, sb) /\ cb = [cache EXCEPT ![k] = t]
       /\ Untouched(slab, sb, ListPages(t))
  BY <1>8, <1>10, <1>11, <1>15, <1>16
<1>18. CachesGood(cb, sb, rest) /\ DOMAIN cb = DOMAIN cache
  BY <1>4, <1>12, <1>14, <1>17, GoodUpdated
<1> QED
  BY <1>13, <1>15, <1>16, <1>18

\* A cache with its first empty slab, or new slab p, on the partial list.
WithEmpty(r) == [r EXCEPT !.empty = Tail(@), !.partial = <<Head(r.empty)>>]
WithNew(r, p) == [r EXCEPT !.partial = <<p>>, !.color_next = (@ + 1) % 8]

\* An empty slab is the only one on the partial list.
LEMMA EmptyToPartial ==
  ASSUME NEW r, CacheOK(r), r.partial = <<>>, r.empty # <<>>,
         NEW t, t = WithEmpty(r)
  PROVE  /\ CacheOK(t) /\ SameNumbers(t, r) /\ SameReady(t, r)
         /\ ListPages(t) = ListPages(r) /\ Head(r.empty) \in ListPages(t)
         /\ t.full = r.full /\ t.partial = <<Head(r.empty)>> /\ t.empty = Tail(r.empty)
<1>1. /\ DOMAIN r = CacheFields /\ r.full \in Seq(Nat) /\ r.partial \in Seq(Nat)
      /\ r.empty \in Seq(Nat)
  BY DEF CacheOK
<1>2. PICK s : s = Head(r.empty)
  OBVIOUS
<1>3. /\ s \in Nat /\ Tail(r.empty) \in Seq(Nat)
      /\ Range(r.empty) = Range(Tail(r.empty)) \cup {s}
  BY <1>1, <1>2, Popped
<1>4. /\ DOMAIN t = CacheFields /\ t.full = r.full /\ t.partial = <<s>>
      /\ t.empty = Tail(r.empty) /\ SameNumbers(t, r) /\ SameReady(t, r)
  BY <1>1, <1>2 DEF WithEmpty, CacheFields, SameNumbers, SameReady
<1>5. CacheOK(t)
  BY <1>1, <1>3, <1>4 DEF CacheOK
<1>6. Range(<<s>>) = {s} /\ Range(r.partial) = {}
  BY DEF Range
<1>7. ListPages(t) = ListPages(r) /\ s \in ListPages(t)
  BY <1>3, <1>4, <1>6 DEF ListPages
<1> QED
  BY <1>2, <1>4, <1>5, <1>7

\* A new slab is the only one on the partial list.
LEMMA NewToPartial ==
  ASSUME NEW r, CacheGood(r), r.partial = <<>>, NEW p \in Nat,
         NEW t, t = WithNew(r, p)
  PROVE  /\ CacheGood(t) /\ SameNumbers(t, r) /\ t.slots = r.slots
         /\ t.available = r.available
         /\ ListPages(t) = ListPages(r) \cup {p} /\ p \in ListPages(t)
         /\ t.full = r.full /\ t.partial = <<p>> /\ t.empty = r.empty
         /\ \A s, b : Placed(t, s, b) <=> Placed(r, s, b)
<1>1. /\ DOMAIN r = CacheFields /\ r.full \in Seq(Nat) /\ r.partial \in Seq(Nat)
      /\ r.empty \in Seq(Nat) /\ r.color_next \in Nat
  BY DEF CacheGood, CacheOK, Format
<1>2. /\ DOMAIN t = CacheFields /\ t.full = r.full /\ t.partial = <<p>>
      /\ t.empty = r.empty /\ SameNumbers(t, r) /\ t.slots = r.slots
      /\ t.available = r.available /\ t.color_next = (r.color_next + 1) % 8
  BY <1>1 DEF WithNew, CacheFields, SameNumbers
<1>3. CacheOK(t)
  BY <1>1, <1>2 DEF CacheOK
<1>4. t.color_next \in Nat
  BY <1>1, <1>2
<1>5. Range(<<p>>) = {p} /\ Range(r.partial) = {}
  BY DEF Range
<1>6. ListPages(t) = ListPages(r) \cup {p} /\ p \in ListPages(t)
  BY <1>2, <1>5 DEF ListPages
<1>7. CacheGood(t) /\ \A s, b : Placed(t, s, b) <=> Placed(r, s, b)
  BY <1>2, <1>3, <1>4, StillGood
<1> QED
  BY <1>2, <1>6, <1>7

\* Everything but the CPU cache stays as it is.
SameSlabs(t, r) ==
  /\ DOMAIN t = CacheFields /\ SameNumbers(t, r) /\ t.color_next = r.color_next
  /\ t.full = r.full /\ t.partial = r.partial /\ t.empty = r.empty

\* The steps without the lock change one CPU cache at most.
LEMMA StoreEffect ==
  ASSUME NEW c \in CPUs, AllocStore(c) \/ FreeStore(c) \/ FreeCount(c) \/ FreeArray(c),
         NEW k \in DOMAIN cache, k = arg[c][1], DOMAIN cache[k] = CacheFields
  PROVE  /\ slab' = slab /\ g_cache_list' = g_cache_list /\ loans' = loans
         /\ reclaimable' = reclaimable
         /\ \/ cache' = cache
            \/ \E t : cache' = [cache EXCEPT ![k] = t] /\ SameSlabs(t, cache[k])
<1>0. slab' = slab /\ g_cache_list' = g_cache_list /\ loans' = loans
      /\ reclaimable' = reclaimable
  BY DEF AllocStore, FreeStore, FreeCount, FreeArray, slabLists, zoneVars, TakeUnmovable
<1>1. CASE AllocStore(c)
  <2>1. PICK t : t = [cache[k] EXCEPT !.available = arg[c][2] - 1]
    OBVIOUS
  <2>2. cache' = [cache EXCEPT ![k] = t]
    BY <1>1, <2>1 DEF AllocStore
  <2>3. SameSlabs(t, cache[k])
    BY <2>1 DEF SameSlabs, SameNumbers, CacheFields
  <2> QED
    BY <1>0, <2>2, <2>3
<1>2. CASE FreeStore(c)
  <2>1. PICK t : t = [cache[k] EXCEPT !.slots = [cache[k].slots EXCEPT ![arg[c][3]] = arg[c][2]]]
    OBVIOUS
  <2>2. cache' = [cache EXCEPT ![k] = t]
    BY <1>2, <2>1 DEF FreeStore
  <2>3. SameSlabs(t, cache[k])
    BY <2>1 DEF SameSlabs, SameNumbers, CacheFields
  <2> QED
    BY <1>0, <2>2, <2>3
<1>3. CASE FreeCount(c)
  <2>1. PICK t : t = [cache[k] EXCEPT !.available = arg[c][3] + 1]
    OBVIOUS
  <2>2. cache' = [cache EXCEPT ![k] = t]
    BY <1>3, <2>1 DEF FreeCount
  <2>3. SameSlabs(t, cache[k])
    BY <2>1 DEF SameSlabs, SameNumbers, CacheFields
  <2> QED
    BY <1>0, <2>2, <2>3
<1>4. CASE FreeArray(c)
  <2>1. cache' = cache \/ \E p : cache' = [cache EXCEPT ![k].objects = p]
    BY <1>4 DEF FreeArray
  <2>2. ASSUME NEW p, cache' = [cache EXCEPT ![k].objects = p]
        PROVE  \E t : cache' = [cache EXCEPT ![k] = t] /\ SameSlabs(t, cache[k])
    <3>1. PICK t : t = [cache[k] EXCEPT !.objects = p]
      OBVIOUS
    <3>2. cache' = [cache EXCEPT ![k] = t]
      BY <2>2, <3>1
    <3>3. SameSlabs(t, cache[k])
      BY <3>1 DEF SameSlabs, SameNumbers, CacheFields
    <3> QED
      BY <3>2, <3>3
  <2> QED
    BY <1>0, <2>1, <2>2
<1> QED
  BY <1>1, <1>2, <1>3, <1>4

\* A cache with the same slabs.
LEMMA SameSlabsGood ==
  ASSUME NEW r, CacheGood(r), NEW t, SameSlabs(t, r)
  PROVE  /\ CacheGood(t) /\ ListPages(t) = ListPages(r)
         /\ \A sl : Headed(r, sl) => Headed(t, sl)
<1>1. CacheOK(t) /\ t.color_next \in Nat /\ ListPages(t) = ListPages(r)
  BY DEF SameSlabs, CacheGood, CacheOK, Format, ListPages
<1>2. CacheGood(t) /\ \A s, b : Placed(t, s, b) <=> Placed(r, s, b)
  BY <1>1, StillGood DEF SameSlabs
<1> QED
  BY <1>1, <1>2 DEF Headed

\* The steps without the lock keep the caches good.
LEMMA StoreGood ==
  ASSUME SlabInv, NEW c \in CPUs, AllocStore(c) \/ FreeStore(c) \/ FreeCount(c) \/ FreeArray(c)
  PROVE  CachesGood(cache', slab', reclaimable') /\ DOMAIN cache' = DOMAIN cache
<1>1. PICK k : k = arg[c][1]
  OBVIOUS
<1>2. k \in DOMAIN cache
  BY <1>1 DEF SlabInv, OnCaches, AllocStore, FreeStore, FreeCount, FreeArray
<1>3. CacheGood(cache[k]) /\ Headed(cache[k], slab) /\ DOMAIN cache[k] = CacheFields
      /\ CachesGood(cache, slab, reclaimable)
  BY <1>2 DEF SlabInv, CachesGood, CacheGood, CacheOK
<1>4. slab' = slab /\ reclaimable' = reclaimable
  BY <1>1, <1>2, <1>3, StoreEffect
<1>5. CASE cache' = cache
  BY <1>3, <1>4, <1>5
<1>6. ASSUME NEW t, cache' = [cache EXCEPT ![k] = t], SameSlabs(t, cache[k])
      PROVE  CachesGood(cache', slab', reclaimable') /\ DOMAIN cache' = DOMAIN cache
  <2>1. CacheGood(t) /\ ListPages(t) = ListPages(cache[k]) /\ Headed(t, slab)
    BY <1>3, <1>6, SameSlabsGood
  <2>2. PICK cb : cb = cache'
    OBVIOUS
  <2>3. Untouched(slab, slab, ListPages(t)) /\ cb = [cache EXCEPT ![k] = t]
        /\ reclaimable \in SUBSET reclaimable
        /\ ListPages(t) \subseteq ListPages(cache[k]) \cup (reclaimable \ reclaimable)
    BY <1>6, <2>1, <2>2 DEF Untouched
  <2>4. CachesGood(cb, slab, reclaimable) /\ DOMAIN cb = DOMAIN cache
    BY <1>2, <1>3, <2>1, <2>3, GoodUpdated
  <2> QED
    BY <1>4, <2>2, <2>4
<1> QED
  BY <1>1, <1>2, <1>3, <1>5, <1>6, StoreEffect

\* A new cache has no slab yet.
LEMMA CreateGood ==
  ASSUME SlabInv, NEW c \in CPUs, NEW f \in Formats, slab_cache_create(c, f[1], f[2])
  PROVE  CachesGood(cache', slab', reclaimable') /\ DOMAIN cache \subseteq DOMAIN cache'
<1>1. CachesGood(cache, slab, reclaimable)
  BY DEF SlabInv
<1>2. slab' = slab /\ reclaimable' = reclaimable
  BY DEF slab_cache_create, zoneVars, TakeUnmovable
<1>3. ASSUME NEW p, f[1] \in 1..BUDDY_PAGE_SIZE, cache' = Put(cache, p, NewCache(f[1], f[2]))
      PROVE  CachesGood(cache', slab', reclaimable') /\ DOMAIN cache \subseteq DOMAIN cache'
  <2>1. PICK t : t = NewCache(f[1], f[2])
    OBVIOUS
  <2>2. CacheGood(t) /\ ListPages(t) = {}
    BY <1>3, <2>1, NewCacheGood
  <2>3. /\ DOMAIN cache' = DOMAIN cache \cup {p} /\ cache'[p] = t
        /\ \A j \in DOMAIN cache : j # p => cache'[j] = cache[j]
    BY <1>3, <2>1 DEF Put
  <2>4. Headed(t, slab)
    BY <2>2 DEF Headed
  <2>5. \A j \in DOMAIN cache' : /\ CacheGood(cache'[j]) /\ Headed(cache'[j], slab)
                                 /\ ListPages(cache'[j]) \cap reclaimable = {}
    BY <1>1, <2>2, <2>3, <2>4 DEF CachesGood
  <2>6. \A i, j \in DOMAIN cache' : i # j => ListPages(cache'[i]) \cap ListPages(cache'[j]) = {}
    BY <1>1, <2>2, <2>3 DEF CachesGood
  <2> QED
    BY <1>2, <2>3, <2>5, <2>6 DEF CachesGood
<1>4. CASE cache' = cache
  BY <1>1, <1>2, <1>4
<1> QED
  BY <1>3, <1>4 DEF slab_cache_create

\* The slabs of a cache that goes were nobody else's.
LEMMA DestroyGood ==
  ASSUME SlabInv, NEW c \in CPUs, NEW k \in DOMAIN cache, slab_cache_destroy(c, k)
  PROVE  CachesGood(cache', slab', reclaimable')
<1>1. CachesGood(cache, slab, reclaimable)
  BY DEF SlabInv
<1>2. DOMAIN cache' = DOMAIN cache \ {k} /\ \A j \in DOMAIN cache' : cache'[j] = cache[j]
  BY DEF slab_cache_destroy, Drop
<1>3. SlabPages(k) = ListPages(cache[k])
  BY DEF SlabPages, ListPages
<1>4. DOMAIN slab' = DOMAIN slab \ ListPages(cache[k])
      /\ \A s \in DOMAIN slab' : slab'[s] = slab[s]
  BY <1>3 DEF slab_cache_destroy, Drop
<1>5. reclaimable' = reclaimable
  BY DEF slab_cache_destroy, FreePages
<1>6. \A j \in DOMAIN cache' : ListPages(cache[j]) \cap ListPages(cache[k]) = {}
  BY <1>1, <1>2 DEF CachesGood
<1>7. \A j \in DOMAIN cache' : Headed(cache[j], slab')
  BY <1>1, <1>2, <1>4, <1>6 DEF CachesGood, Headed
<1> QED
  BY <1>1, <1>2, <1>5, <1>7 DEF CachesGood

\* An allocation under the lock keeps the caches good.
LEMMA SlowGood ==
  ASSUME SlabInv, reclaimable \subseteq Nat, NEW c \in CPUs, AllocSlow(c)
  PROVE  CachesGood(cache', slab', reclaimable') /\ DOMAIN cache' = DOMAIN cache
<1>1. PICK k : k = arg[c][1]
  OBVIOUS
<1>2. k \in DOMAIN cache
  BY <1>1, SlowCases DEF SlabInv, OnCaches
<1>3. PICK r : r = cache[k]
  OBVIOUS
<1>4. /\ CacheGood(r) /\ Headed(r, slab) /\ CacheOK(r) /\ r.color_next \in Nat
      /\ ListPages(r) \cap reclaimable = {} /\ CachesGood(cache, slab, reclaimable)
      /\ r.partial \in Seq(Nat)
  BY <1>2, <1>3 DEF SlabInv, CachesGood, CacheGood, CacheOK, Format
<1>5. SlowWays(c, k, r)
  BY <1>1, <1>3, SlowCases
<1>6. \A t : Headed(t, slab) => \A s \in ListPages(t) : Headed(t, Put(slab, s, slab[s]))
  BY DEF Headed, Put
<1>7. ASSUME r.partial # <<>>, Lend(c, k, r, Head(r.partial), slab[Head(r.partial)]),
             UNCHANGED zoneVars
      PROVE  CachesGood(cache', slab', reclaimable') /\ DOMAIN cache' = DOMAIN cache
  <2>1. PICK s : s = Head(r.partial)
    OBVIOUS
  <2>2. s \in ListPages(r)
    BY <1>4, <1>7, <2>1, Popped DEF ListPages
  <2>3. Headed(r, Put(slab, s, slab[s])) /\ Lend(c, k, r, s, slab[s])
    BY <1>4, <1>6, <1>7, <2>1, <2>2
  <2>4. reclaimable' \subseteq reclaimable
        /\ ListPages(r) \subseteq ListPages(cache[k]) \cup (reclaimable \ reclaimable')
    BY <1>3, <1>7 DEF zoneVars
  <2> QED
    BY <1>2, <1>4, <2>2, <2>3, <2>4, LendGood
<1>8. ASSUME r.partial = <<>>, r.empty # <<>>,
             Lend(c, k, [r EXCEPT !.empty = Tail(@), !.partial = <<Head(r.empty)>>],
                  Head(r.empty), slab[Head(r.empty)]),
             UNCHANGED zoneVars
      PROVE  CachesGood(cache', slab', reclaimable') /\ DOMAIN cache' = DOMAIN cache
  <2>1. PICK s : s = Head(r.empty)
    OBVIOUS
  <2>2. PICK t : t = WithEmpty(r)
    OBVIOUS
  <2>3. /\ CacheOK(t) /\ SameNumbers(t, r) /\ SameReady(t, r)
        /\ ListPages(t) = ListPages(r) /\ s \in ListPages(t)
    BY <1>4, <1>8, <2>1, <2>2, EmptyToPartial
  <2>4. CacheGood(t) /\ \A x, y : Placed(t, x, y) <=> Placed(r, x, y)
    BY <1>4, <2>3, StillGood DEF SameReady
  <2>5. Headed(t, slab)
    BY <1>4, <2>3, <2>4 DEF Headed
  <2>6. Headed(t, Put(slab, s, slab[s])) /\ Lend(c, k, t, s, slab[s])
    BY <1>6, <1>8, <2>1, <2>2, <2>3, <2>5 DEF WithEmpty
  <2>7. reclaimable' \subseteq reclaimable
        /\ ListPages(t) \subseteq ListPages(cache[k]) \cup (reclaimable \ reclaimable')
    BY <1>3, <1>8, <2>3 DEF zoneVars
  <2> QED
    BY <1>2, <2>3, <2>4, <2>6, <2>7, LendGood
<1>9. ASSUME r.partial = <<>>, Slack(k) # 0, NEW p \in reclaimable, TakeReclaimable(p, 0),
             Lend(c, k, [r EXCEPT !.partial = <<p>>, !.color_next = (@ + 1) % 8],
                  p, NewSlab(p, k))
      PROVE  CachesGood(cache', slab', reclaimable') /\ DOMAIN cache' = DOMAIN cache
  <2>0. p \in Nat
    OBVIOUS
  <2>1. PICK t : t = WithNew(r, p)
    OBVIOUS
  <2>2. PICK b : b = NewSlab(p, k)
    OBVIOUS
  <2>3. /\ CacheGood(t) /\ ListPages(t) = ListPages(r) \cup {p} /\ p \in ListPages(t)
        /\ \A x, y : Placed(t, x, y) <=> Placed(r, x, y)
    BY <1>4, <1>9, <2>0, <2>1, NewToPartial
  <2>4. DOMAIN b = HeaderFields /\ (FormatsFit => Placed(r, p, b))
    BY <1>2, <1>3, <1>4, <1>9, <2>0, <2>2, NewSlabPlaced
  <2>5. Headed(t, Put(slab, p, b))
    BY <1>4, <2>3, <2>4 DEF Headed, Put
  <2>6. reclaimable' = reclaimable \ {p}
    BY <1>9, <2>0, BlockZero DEF TakeReclaimable
  <2>7. ListPages(t) \subseteq ListPages(cache[k]) \cup (reclaimable \ reclaimable')
        /\ reclaimable' \subseteq reclaimable
    BY <1>3, <2>3, <2>6
  <2>8. Lend(c, k, t, p, b)
    BY <1>9, <2>1, <2>2 DEF WithNew
  <2> QED
    BY <1>2, <2>3, <2>5, <2>7, <2>8, LendGood
<1>10. CASE UNCHANGED <<cache, slab, loans>> /\ UNCHANGED zoneVars
  BY <1>4, <1>10 DEF zoneVars
<1> QED
  BY <1>5, <1>7, <1>8, <1>9, <1>10, Zenon DEF SlowWays

\* A free under the lock keeps the caches good.
LEMMA GiveBackGood ==
  ASSUME SlabInv, NEW c \in CPUs, FreeSlow(c)
  PROVE  CachesGood(cache', slab', reclaimable') /\ DOMAIN cache' = DOMAIN cache
<1>1. PICK k : k = arg[c][1]
  OBVIOUS
<1>2. PICK o : o = arg[c][2]
  OBVIOUS
<1>3. PICK s : s = slab_find_for_object(k, o)
  OBVIOUS
<1>4. k \in DOMAIN cache /\ reclaimable' = reclaimable
  BY <1>1 DEF SlabInv, OnCaches, FreeSlow, zoneVars
<1>5. /\ CacheGood(cache[k]) /\ Headed(cache[k], slab) /\ CacheOK(cache[k])
      /\ cache[k].color_next \in Nat /\ CachesGood(cache, slab, reclaimable)
  BY <1>4 DEF SlabInv, CachesGood, CacheGood, Format
<1>6. CASE s = NULL
  <2>1. cache' = cache /\ slab' = slab
    BY <1>1, <1>2, <1>3, <1>6 DEF FreeSlow
  <2> QED
    BY <1>4, <1>5, <2>1
<1>7. CASE s # NULL
  <2>1. s \in ListPages(cache[k])
    BY <1>3, <1>7, FoundListed DEF ListPages
  <2>2. PICK t : t = Emptied(cache[k], s, slab[s])
    OBVIOUS
  <2>3. CacheOK(t) /\ ListPages(t) = ListPages(cache[k]) /\ SameNumbers(t, cache[k])
        /\ t.color_next \in Nat
    BY <1>5, <2>1, <2>2, EmptiedPages, MovedShape DEF SameReady
  <2>4. CacheGood(t) /\ \A x, y : Placed(t, x, y) <=> Placed(cache[k], x, y)
    BY <1>5, <2>3, StillGood
  <2>5. PICK h : h = GivenBack(slab[s], o)
    OBVIOUS
  <2>6. s \in DOMAIN slab /\ DOMAIN slab[s] = HeaderFields
        /\ (FormatsFit => Placed(cache[k], s, slab[s]))
    BY <1>5, <2>1 DEF Headed
  <2>7. DOMAIN h = HeaderFields /\ h.base = slab[s].base
    BY <2>5, <2>6 DEF HeaderFields, GivenBack
  <2>8. cache' = [cache EXCEPT ![k] = t] /\ slab' = Put(slab, s, h)
    BY <1>1, <1>2, <1>3, <1>7, <2>2, <2>5 DEF FreeSlow
  <2>9. FormatsFit => Placed(t, s, h)
    BY <2>4, <2>6, <2>7 DEF Placed
  <2>10. PICK cb : cb = cache'
    OBVIOUS
  <2>11. PICK sb : sb = slab'
    OBVIOUS
  <2>12. Headed(t, sb)
    BY <1>5, <2>3, <2>4, <2>7, <2>8, <2>9, <2>11 DEF Headed, Put
  <2>13. Untouched(slab, sb, ListPages(t)) /\ cb = [cache EXCEPT ![k] = t]
         /\ reclaimable \in SUBSET reclaimable
         /\ ListPages(t) \subseteq ListPages(cache[k]) \cup (reclaimable \ reclaimable)
    BY <2>1, <2>3, <2>8, <2>10, <2>11 DEF Untouched, Put
  <2>14. CachesGood(cb, sb, reclaimable) /\ DOMAIN cb = DOMAIN cache
    BY <1>4, <1>5, <2>4, <2>12, <2>13, GoodUpdated
  <2> QED
    BY <1>4, <2>10, <2>11, <2>14
<1> QED
  BY <1>6, <1>7

\* A CPU goes on with x at l, on any number of CPUs.
LEMMA GoesOn ==
  ASSUME NEW c \in CPUs, NEW l, NEW x, Go(c, l, x), OnCaches(cache, at, arg),
         l = "idle" \/ x[1] \in DOMAIN cache, DOMAIN cache' = DOMAIN cache
  PROVE  OnCaches(cache', at', arg')
BY DEF Go, OnCaches

\* Whatever the slab allocator does, calls are on caches there are.
LEMMA OnCachesStep ==
  ASSUME SlabInv, SlabNext, reclaimable \subseteq Nat
  PROVE  OnCaches(cache', at', arg')
<1>0. OnCaches(cache, at, arg) /\ LoansOK(cache, loans)
  BY DEF SlabInv
<1>1. ASSUME NEW c \in CPUs, NEW f \in Formats, slab_cache_create(c, f[1], f[2])
      PROVE  OnCaches(cache', at', arg')
  <2>1. at' = at /\ arg' = arg /\ DOMAIN cache \subseteq DOMAIN cache'
    BY <1>1, CreateGood DEF slab_cache_create
  <2> QED
    BY <1>0, <2>1 DEF OnCaches
<1>2. ASSUME NEW c \in CPUs, NEW k \in DOMAIN cache, slab_cache_destroy(c, k)
      PROVE  OnCaches(cache', at', arg')
  <2>1. at' = at /\ arg' = arg /\ DOMAIN cache' = DOMAIN cache \ {k}
        /\ \A d \in CPUs : at[d] # "idle" => arg[d][1] # k
    BY <1>2 DEF slab_cache_destroy, Drop
  <2> QED
    BY <1>0, <2>1 DEF OnCaches
<1>3. ASSUME NEW c \in CPUs, NEW k \in DOMAIN cache, AllocLoad(c, k)
      PROVE  OnCaches(cache', at', arg')
  <2>1. PICK x : x = <<k, cache[k].available>>
    OBVIOUS
  <2>2. PICK y : y = <<k>>
    OBVIOUS
  <2>3. Go(c, "alloc_store", x) \/ Go(c, "alloc_slow", y)
    BY <1>3, <2>1, <2>2 DEF AllocLoad
  <2>4. x[1] = k /\ y[1] = k
    BY <2>1, <2>2
  <2>5. cache' = cache
    BY <1>3 DEF AllocLoad
  <2> QED
    BY <1>0, <2>3, <2>4, <2>5, GoesOn
<1>4. ASSUME NEW c \in CPUs, AllocStore(c) \/ FreeStore(c) \/ FreeCount(c) \/ FreeArray(c)
      PROVE  OnCaches(cache', at', arg')
  <2>1. arg[c][1] \in DOMAIN cache
    BY <1>0, <1>4 DEF OnCaches, AllocStore, FreeStore, FreeCount, FreeArray
  <2>2. PICK x : x = <<arg[c][1], arg[c][2], cache[arg[c][1]].available>>
    OBVIOUS
  <2>3. PICK y : y = arg[c]
    OBVIOUS
  <2>4. \/ Go(c, "alloc_read", y) \/ Go(c, "free_count", y) \/ Go(c, "idle", <<>>)
        \/ Go(c, "free_slow", x) \/ Go(c, "free_store", x)
    BY <1>4, <2>2, <2>3 DEF AllocStore, FreeStore, FreeCount, FreeArray
  <2>5. x[1] = arg[c][1] /\ y[1] = arg[c][1]
    BY <2>2, <2>3
  <2>6. DOMAIN cache' = DOMAIN cache
    BY <1>4, StoreGood
  <2> QED
    BY <1>0, <2>1, <2>4, <2>5, <2>6, GoesOn
<1>5. ASSUME NEW c \in CPUs, AllocRead(c) \/ AllocSlow(c) \/ FreeSlow(c)
      PROVE  OnCaches(cache', at', arg')
  <2>1. Go(c, "idle", <<>>)
    BY <1>5, SlowCases DEF AllocRead, FreeSlow
  <2>2. DOMAIN cache' = DOMAIN cache
    BY <1>5, SlowGood, GiveBackGood DEF AllocRead
  <2> QED
    BY <1>0, <2>1, <2>2, GoesOn
<1>6. ASSUME NEW c \in CPUs, NEW w \in loans[c], FreeLoad(c, w[1], w[2])
      PROVE  OnCaches(cache', at', arg')
  <2>1. PICK x : x = <<w[1], w[2], cache[w[1]].available>>
    OBVIOUS
  <2>2. \E l : Go(c, l, x)
    BY <1>6, <2>1 DEF FreeLoad
  <2>3. x[1] \in DOMAIN cache
    BY <1>0, <2>1 DEF LoansOK
  <2>4. cache' = cache
    BY <1>6 DEF FreeLoad
  <2> QED
    BY <1>0, <2>2, <2>3, <2>4, GoesOn
<1>7. ASSUME NEW c \in CPUs, AllocDivides(c) \/ Halted(c)
      PROVE  OnCaches(cache', at', arg')
  <2>1. CASE AllocDivides(c)
    <3>1. PICK x : x = <<arg[c][1]>>
      OBVIOUS
    <3>2. Go(c, "halted", x) /\ cache' = cache /\ at[c] = "alloc_slow"
      BY <2>1, <3>1 DEF AllocDivides
    <3>3. x[1] \in DOMAIN cache
      BY <1>0, <3>1, <3>2 DEF OnCaches
    <3> QED
      BY <1>0, <3>2, <3>3, GoesOn
  <2>2. CASE Halted(c)
    BY <1>0, <2>2 DEF Halted, slabVars
  <2> QED
    BY <1>7, <2>1, <2>2
<1> QED
  BY <1>1, <1>2, <1>3, <1>4, <1>5, <1>6, <1>7 DEF SlabNext

\* Whatever the slab allocator does, slabs have one owner each.
LEMMA SlabStepGood ==
  ASSUME SlabInv, SlabNext, reclaimable \subseteq Nat
  PROVE  SlabInv'
<1>1. OnCaches(cache', at', arg') /\ LoansOK(cache', loans')
  BY OnCachesStep, SlabStepLoans DEF SlabInv
<1>2. CachesGood(cache', slab', reclaimable')
  <2>1. ASSUME NEW c \in CPUs,
               \/ \E k \in DOMAIN cache : AllocLoad(c, k)
               \/ AllocRead(c) \/ AllocDivides(c) \/ Halted(c)
               \/ \E x \in loans[c] : FreeLoad(c, x[1], x[2])
        PROVE  cache' = cache /\ slab' = slab /\ reclaimable' \subseteq reclaimable
    BY <2>1 DEF AllocLoad, AllocRead, AllocDivides, Halted, FreeLoad, slabLists, slabVars, zoneVars
  <2>2. \A free \in SUBSET reclaimable : CachesGood(cache, slab, free)
    BY DEF SlabInv, CachesGood
  <2> QED
    BY <2>1, <2>2, CreateGood, DestroyGood, StoreGood, SlowGood, GiveBackGood DEF SlabNext
<1> QED
  BY <1>1, <1>2 DEF SlabInv

\* So it is whoever takes a step.
LEMMA SlabInvStep ==
  ASSUME BootInv, SlabInv, [Next]_vars
  PROVE  SlabInv'
<1>0. reclaimable \subseteq Nat
  BY DEF BootInv
<1>1. CASE SlabNext
  BY <1>0, <1>1, SlabStepGood
<1>2. CASE UNCHANGED slabVars /\ reclaimable' \subseteq reclaimable
  <2>1. CachesGood(cache, slab, reclaimable')
    BY <1>2 DEF SlabInv, CachesGood
  <2> QED
    BY <1>2, <2>1 DEF SlabInv, slabVars
<1>3. CASE UNCHANGED vars
  BY <1>2, <1>3 DEF vars, zoneVars
<1>4. CASE ReadTag
  BY <1>2, <1>4 DEF ReadTag, zoneVars
<1>5. CASE InitMemory
  <2>1. DOMAIN cache = {} /\ UNCHANGED <<cache, slab, loans, at, arg>>
    BY <1>5 DEF InitMemory, BootInv, NothingTaken
  <2>2. CachesGood(cache', slab', reclaimable')
    BY <2>1 DEF CachesGood
  <2> QED
    BY <2>1, <2>2 DEF SlabInv
<1>6. CASE PoolNext /\ UNCHANGED slabVars
  BY <1>2, <1>6, PoolZones
<1>7. CASE PmmNext /\ UNCHANGED slabVars
  <2>1. reclaimable' = reclaimable
    BY <1>7 DEF PmmNext, pmm_alloc_frame, pmm_free_frame, zoneVars, TakeUnmovable, FreePages
  <2> QED
    BY <1>2, <1>7, <2>1
<1> QED
  BY <1>1, <1>3, <1>4, <1>5, <1>6, <1>7 DEF Next, Boot

\* At the start there is no cache.
LEMMA SlabStart ==
  ASSUME Init
  PROVE  SlabInv
BY DEF Init, SlabInit, SlabInv, CachesGood, OnCaches, LoansOK

\* A slab belongs to one cache and was not freed since, on any number of CPUs.
THEOREM SlabSafe == Spec => []SlabInv
<1>1. Init => SlabInv
  BY SlabStart
<1>2. BootInv /\ SlabInv /\ [Next]_vars => SlabInv'
  BY SlabInvStep
<1> QED
  BY <1>1, <1>2, BootSafe, PTL DEF Spec

\* The objects of a slab: behind the header, in the page, aligned.
LEMMA ObjectPlaced ==
  ASSUME FormatsFit, NEW r, CacheGood(r), NEW s \in Nat, NEW b, Placed(r, s, b),
         NEW o \in ObjectsIn(r, b)
  PROVE  /\ o \in Nat /\ o >= s * BUDDY_PAGE_SIZE + SLAB_HEADER
         /\ o + r.object_size <= (s + 1) * BUDDY_PAGE_SIZE
         /\ o % r.align = 0 /\ o \div BUDDY_PAGE_SIZE = s
<1>1. PICK z \in Nat \ {0} : z = r.object_size
  BY PlaceNumbers
<1>2. PICK a \in Nat \ {0} : a = r.align
  BY PlaceNumbers
<1>3. PICK n \in Nat \ {0} : n = r.objects_per_slab
  BY PlaceNumbers
<1>4. PICK u \in Nat : u = Spare(r)
  BY PlaceNumbers
<1>5. PICK h \in Nat : h = SLAB_HEADER
  BY PlaceNumbers
<1>6. PICK g \in Nat \ {0} : g = BUDDY_PAGE_SIZE
  BY ZoneNumbers
<1>7. g = h + n * z + u /\ z % a = 0 /\ h % a = 0 /\ g % a = 0
  BY <1>1, <1>2, <1>3, <1>4, <1>5, <1>6, PlaceNumbers
<1>8. PICK off \in 0..(u - 1) : off % a = 0 /\ b.base = s * g + h + off
  BY <1>2, <1>4, <1>5, <1>6 DEF Placed
<1>9. PICK i \in 0..(n - 1) : o = s * g + h + off + i * z
  BY <1>1, <1>3, <1>8 DEF ObjectsIn
<1>10. PICK m \in Nat : m = i * z /\ m + z <= n * z
  <2>1. i * z \in Nat
    OBVIOUS
  <2>2. (i + 1) * z <= n * z
    <3>1. PICK d \in Nat : n = i + 1 + d
      OBVIOUS
    <3>2. n * z = (i + 1) * z + d * z /\ d * z \in Nat
      BY <3>1
    <3> QED
      BY <3>2
  <2>3. (i + 1) * z = i * z + z
    OBVIOUS
  <2> QED
    BY <2>1, <2>2, <2>3
<1>11. PICK w \in Nat : w = s * g
  OBVIOUS
<1>12. PICK v \in Nat : v = n * z
  OBVIOUS
<1>13. o = w + h + off + m /\ off < u /\ m + z <= v /\ g = h + v + u
  BY <1>7, <1>9, <1>10, <1>11, <1>12
<1>14. o \in Nat /\ o >= w + h /\ o + z <= w + g
  BY <1>13
<1>15. (s + 1) * g = w + g
  BY <1>11
<1>16. o % a = 0
  <2>1. w % a = 0
    <3>1. PICK x \in Int : x = g
      OBVIOUS
    <3>2. PICK y \in Int : y = s
      OBVIOUS
    <3>3. x % a = 0
      BY <1>7, <3>1
    <3>4. (y * x) % a = 0
      BY <3>3, MultipleTimes
    <3> QED
      BY <1>11, <3>1, <3>2, <3>4
  <2>2. m % a = 0
    <3>1. PICK x \in Int : x = z
      OBVIOUS
    <3>2. PICK y \in Int : y = i
      OBVIOUS
    <3>3. x % a = 0
      BY <1>7, <3>1
    <3>4. (y * x) % a = 0
      BY <3>3, MultipleTimes
    <3> QED
      BY <1>10, <3>1, <3>2, <3>4
  <2>3. PICK x \in Int : x = w + h /\ x % a = 0
    <3>1. PICK u1 \in Int : u1 = w /\ u1 % a = 0
      BY <2>1
    <3>2. PICK u2 \in Int : u2 = h /\ u2 % a = 0
      BY <1>7
    <3>3. (u1 + u2) % a = 0 /\ (u1 - u2) % a = 0
      BY <3>1, <3>2, MultipleSum
    <3> QED
      BY <3>1, <3>2, <3>3
  <2>4. PICK y \in Int : y = off + m /\ y % a = 0
    BY <1>8, <2>2, MultipleSum
  <2>5. (x + y) % a = 0 /\ (x - y) % a = 0
    BY <2>3, <2>4, MultipleSum
  <2> QED
    BY <1>13, <2>3, <2>4, <2>5
<1>17. o \div g = s
  <2>1. PICK e \in 0..(g - 1) : e = h + off + m
    BY <1>13
  <2>2. (s * g + e) \div g = s
    BY DivUnique
  <2> QED
    BY <1>11, <1>13, <2>1, <2>2
<1> QED
  BY <1>1, <1>2, <1>5, <1>6, <1>11, <1>14, <1>15, <1>16, <1>17

\* Objects are in place, for pages, headers, formats, caches and CPUs of any
\* size and number, whatever the colours, if objects fit into a slab and their
\* alignment into the header, the page and the steps of the colour.
THEOREM PlacedTheorem ==
  ASSUME FormatsFit
  PROVE  Spec => []ObjectsPlaced
<1>1. ASSUME SlabInv PROVE ObjectsPlaced
  <2>1. SUFFICES ASSUME NEW k \in DOMAIN cache
                 PROVE  \A s \in SlabPages(k) : \A o \in ObjectsFrom(slab[s].base, k) :
                          /\ o >= s * BUDDY_PAGE_SIZE + SLAB_HEADER
                          /\ o + cache[k].object_size <= (s + 1) * BUDDY_PAGE_SIZE
                          /\ o % cache[k].align = 0
    BY Zenon DEF ObjectsPlaced
  <2>2. PICK r : r = cache[k]
    OBVIOUS
  <2>3. CacheGood(r) /\ CacheOK(r) /\ Headed(r, slab)
    BY <1>1, <2>2 DEF SlabInv, CachesGood, CacheGood
  <2>4. ASSUME NEW s \in ListPages(r), NEW o \in ObjectsIn(r, slab[s])
        PROVE  /\ o >= s * BUDDY_PAGE_SIZE + SLAB_HEADER
               /\ o + r.object_size <= (s + 1) * BUDDY_PAGE_SIZE
               /\ o % r.align = 0
    <3>1. s \in Nat /\ Placed(r, s, slab[s])
      BY <2>3, ListPagesNat DEF Headed
    <3>2. PICK b : b = slab[s]
      OBVIOUS
    <3> QED
      BY <2>3, <3>1, <3>2, ObjectPlaced
  <2>5. SlabPages(k) = ListPages(r) /\ \A b : ObjectsFrom(b.base, k) = ObjectsIn(r, b)
    BY <2>2 DEF SlabPages, ListPages, ObjectsFrom, ObjectsIn
  <2> QED
    BY <2>2, <2>4, <2>5
<1> QED
  BY <1>1, SlabSafe, PTL

-----------------------------------------------------------------------------
(* The lists of slabs *)

\* A list is one of its own elements.
LEMMA OwnSeq ==
  ASSUME NEW S, NEW s \in Seq(S)
  PROVE  s \in Seq(Range(s)) /\ Len(s) \in Nat
<1>1. Len(s) \in Nat /\ DOMAIN s = 1..Len(s) /\ s \in [1..Len(s) -> S]
  OBVIOUS
<1>2. s \in [1..Len(s) -> Range(s)]
  BY <1>1 DEF Range
<1> QED
  BY <1>1, <1>2

\* A free list with an object less, or more.
LEMMA FreeListMoves ==
  ASSUME NEW n \in Nat, NEW f, f \in Seq(Range(f)), NEW o
  PROVE  /\ Len(f) \in Nat
         /\ f # <<>> => Tail(f) \in Seq(Range(Tail(f))) /\ Len(Tail(f)) = Len(f) - 1
         /\ Push(o, f) \in Seq(Range(Push(o, f))) /\ Len(Push(o, f)) = Len(f) + 1
<1>1. PICK S : S = Range(f) \cup {o}
  OBVIOUS
<1>2. f \in Seq(S)
  <2>1. Len(f) \in Nat /\ f \in [1..Len(f) -> Range(f)]
    OBVIOUS
  <2>2. f \in [1..Len(f) -> S]
    BY <1>1, <2>1
  <2> QED
    BY <2>1, <2>2
<1>3. PICK g \in Seq(S) : g = f
  BY <1>2
<1>4. o \in S
  BY <1>1
<1>5. /\ Push(o, g) \in Seq(S) /\ Len(Push(o, g)) = Len(g) + 1
      /\ Range(Push(o, g)) = Range(g) \cup {o}
      /\ IsInjective(g) /\ o \notin Range(g) => IsInjective(Push(o, g))
  BY <1>4, Pushed
<1>6. Push(o, g) \in Seq(Range(Push(o, g)))
  BY <1>5, OwnSeq
<1>7. ASSUME g # <<>>
      PROVE  Tail(g) \in Seq(Range(Tail(g))) /\ Len(Tail(g)) = Len(g) - 1
  <2>1. Tail(g) \in Seq(S) /\ Len(Tail(g)) = Len(g) - 1
    BY <1>7, Popped
  <2> QED
    BY <2>1, OwnSeq
<1>8. Len(g) \in Nat
  OBVIOUS
<1> QED
  BY <1>3, <1>5, <1>6, <1>7, <1>8

\* Only what the headers of its own slabs say counts for a cache.
LEMMA SortedFrame ==
  ASSUME NEW r, NEW sl, Sorted(r, sl), NEW sb, \A x \in ListPages(r) : sb[x] = sl[x],
         NEW t, t.full = r.full, t.partial = r.partial, t.empty = r.empty,
         t.objects_per_slab = r.objects_per_slab
  PROVE  Sorted(t, sb)
<1>1. SetsSorted(Range(r.full), Range(r.partial), Range(r.empty), r.objects_per_slab, sb)
  BY DEF Sorted, SetsSorted, CountOK, ListPages
<1> QED
  BY <1>1 DEF Sorted

\* The headers of all slabs X but s are the same.
SameBut(sl, sb, X, s) == \A x \in X : x # s => sb[x] = sl[x]

\* Partial slab s lends an object.
LEMMA LendSets ==
  ASSUME NEW F, NEW P, NEW E, NEW n \in Nat \ {0}, NEW sl, SetsSorted(F, P, E, n, sl),
         NEW s \in P, NEW sb, SameBut(sl, sb, F \cup P \cup E, s),
         sb[s].free_list = Tail(sl[s].free_list), sb[s].in_use = sl[s].in_use + 1
  PROVE  /\ sl[s].free_list # <<>>
         /\ sl[s].in_use + 1 = n => SetsSorted(F \cup {s}, P \ {s}, E, n, sb)
         /\ sl[s].in_use + 1 # n => SetsSorted(F, P, E, n, sb)
<1>1. PICK f : f = sl[s].free_list
  OBVIOUS
<1>2. f \in Seq(Range(f)) /\ sl[s].in_use = n - Len(f) /\ Len(f) > 0
  BY <1>1 DEF SetsSorted, CountOK
<1>3. f # <<>>
  BY <1>2
<1>4. Tail(f) \in Seq(Range(Tail(f))) /\ Len(Tail(f)) = Len(f) - 1 /\ Len(f) \in Nat
  BY <1>2, <1>3, FreeListMoves
<1>5. PICK m \in Nat : m = Len(f)
  BY <1>4, Zenon
<1>6. /\ sl[s].in_use = n - m /\ m > 0 /\ sb[s].in_use = n - (m - 1)
      /\ sb[s].free_list \in Seq(Range(sb[s].free_list)) /\ Len(sb[s].free_list) = m - 1
  BY <1>1, <1>2, <1>4, <1>5
<1>7. \A x \in F \cup P \cup E : CountOK(n, sb, x)
  BY <1>6 DEF SetsSorted, CountOK, SameBut
<1>8. s \notin F /\ s \notin E
  BY DEF SetsSorted
<1>9. ASSUME sl[s].in_use + 1 = n PROVE SetsSorted(F \cup {s}, P \ {s}, E, n, sb)
  <2>1. (n - m) + 1 = n
    BY <1>6, <1>9
  <2>2. m = 1
    BY <2>1
  <2>3. Len(sb[s].free_list) = 0
    BY <1>6, <2>2
  <2> QED
    BY <1>7, <1>8, <2>3 DEF SetsSorted, SameBut
<1>10. ASSUME sl[s].in_use + 1 # n PROVE SetsSorted(F, P, E, n, sb)
  <2>1. Len(sb[s].free_list) > 0
    BY <1>6, <1>10
  <2> QED
    BY <1>7, <1>8, <2>1 DEF SetsSorted, SameBut
<1> QED
  BY <1>1, <1>3, <1>9, <1>10

\* Header h is header b with object o back.
GotBack(h, b, o) == h.free_list = Push(o, b.free_list) /\ h.in_use = b.in_use - 1

\* Slab s, with objects in use, gets object o back.
LEMMA GiveSets ==
  ASSUME NEW F, NEW P, NEW E, NEW n \in Nat \ {0}, NEW sl, SetsSorted(F, P, E, n, sl),
         NEW s, s \in F \/ s \in P, NEW sb, SameBut(sl, sb, F \cup P \cup E, s),
         NEW o, GotBack(sb[s], sl[s], o)
  PROVE  /\ sl[s].in_use = n => s \in F /\ SetsSorted(F \ {s}, P \cup {s}, E, n, sb)
         /\ sl[s].in_use # n => s \in P
         /\ sl[s].in_use # n /\ sl[s].in_use = 1 => SetsSorted(F, P \ {s}, E \cup {s}, n, sb)
         /\ sl[s].in_use # n /\ sl[s].in_use # 1 => SetsSorted(F, P, E, n, sb)
<1>1. PICK f : f = sl[s].free_list
  OBVIOUS
<1>2. f \in Seq(Range(f)) /\ sl[s].in_use = n - Len(f)
  BY <1>1 DEF SetsSorted, CountOK
<1>3. /\ Push(o, f) \in Seq(Range(Push(o, f))) /\ Len(Push(o, f)) = Len(f) + 1
      /\ Len(f) \in Nat
  BY <1>2, FreeListMoves
<1>4. CountOK(n, sb, s)
  BY <1>1, <1>2, <1>3 DEF CountOK, GotBack
<1>5. \A x \in F \cup P \cup E : CountOK(n, sb, x)
  BY <1>4 DEF SetsSorted, CountOK, SameBut
<1>6. Len(sb[s].free_list) = Len(f) + 1 /\ s \notin E /\ ~(s \in F /\ s \in P)
  BY <1>1, <1>3 DEF SetsSorted, GotBack
<1>7. (s \in F => Len(f) = 0) /\ (s \in P => Len(f) > 0)
  BY <1>1 DEF SetsSorted
<1>8. ASSUME sl[s].in_use = n
      PROVE  s \in F /\ SetsSorted(F \ {s}, P \cup {s}, E, n, sb)
  <2>1. s \in F /\ s \notin P /\ Len(sb[s].free_list) > 0
    BY <1>2, <1>3, <1>6, <1>7, <1>8
  <2> QED
    BY <1>5, <1>6, <2>1 DEF SetsSorted, SameBut
<1>9. ASSUME sl[s].in_use # n PROVE s \in P /\ s \notin F
  BY <1>2, <1>3, <1>6, <1>7, <1>9
<1>10. ASSUME sl[s].in_use # n, sl[s].in_use = 1
       PROVE  SetsSorted(F, P \ {s}, E \cup {s}, n, sb)
  <2>1. Len(sb[s].free_list) = n
    BY <1>2, <1>3, <1>6, <1>10
  <2> QED
    BY <1>5, <1>6, <1>9, <1>10, <2>1 DEF SetsSorted, SameBut
<1>11. ASSUME sl[s].in_use # n, sl[s].in_use # 1
       PROVE  SetsSorted(F, P, E, n, sb)
  <2>1. Len(sb[s].free_list) > 0
    BY <1>3, <1>6
  <2> QED
    BY <1>5, <1>6, <1>9, <1>11, <2>1 DEF SetsSorted, SameBut
<1> QED
  BY <1>8, <1>9, <1>10, <1>11

\* A slab goes from one list to another.
LEMMA ListsMove ==
  ASSUME NEW a \in Seq(Nat), NEW b \in Seq(Nat), IsInjective(a), IsInjective(b),
         NEW s \in Nat, s \notin Range(b)
  PROVE  /\ IsInjective(Without(a, s)) /\ Range(Without(a, s)) = Range(a) \ {s}
         /\ IsInjective(Push(s, b)) /\ Range(Push(s, b)) = Range(b) \cup {s}
<1>1. /\ Without(a, s) \in Seq(Nat)
      /\ Range(Without(a, s)) \subseteq Range(a)
      /\ Range(a) \ {s} \subseteq Range(Without(a, s))
      /\ IsInjective(a) => /\ IsInjective(Without(a, s))
                           /\ Range(Without(a, s)) = Range(a) \ {s}
      /\ s \in Range(a) => Len(Without(a, s)) = Len(a) - 1
  BY Unlinked
<1>2. /\ Push(s, b) \in Seq(Nat) /\ Len(Push(s, b)) = Len(b) + 1
      /\ Range(Push(s, b)) = Range(b) \cup {s}
      /\ IsInjective(b) /\ s \notin Range(b) => IsInjective(Push(s, b))
  BY Pushed
<1> QED
  BY <1>1, <1>2

\* The lists of a cache that lent an object of slab s.
LEMMA FilledSorted ==
  ASSUME NEW r, CacheGood(r), NEW sl, Sorted(r, sl), NEW s \in Range(r.partial),
         NEW sb, SameBut(sl, sb, ListPages(r), s),
         sb[s].free_list = Tail(sl[s].free_list), sb[s].in_use = sl[s].in_use + 1
  PROVE  Sorted(Filled(r, s, sl[s]), sb) /\ sl[s].free_list # <<>>
<1>1. PICK n \in Nat \ {0} : n = r.objects_per_slab
  BY DEF CacheGood, Format
<1>2. /\ DOMAIN r = CacheFields /\ r.full \in Seq(Nat) /\ r.partial \in Seq(Nat)
      /\ r.empty \in Seq(Nat)
  BY DEF CacheGood, CacheOK
<1>3. PICK F : F = Range(r.full)
  OBVIOUS
<1>4. PICK P : P = Range(r.partial)
  OBVIOUS
<1>5. PICK E : E = Range(r.empty)
  OBVIOUS
<1>6. /\ SetsSorted(F, P, E, n, sl) /\ s \in P /\ F \cap P = {}
      /\ IsInjective(r.full) /\ IsInjective(r.partial) /\ IsInjective(r.empty)
      /\ SameBut(sl, sb, F \cup P \cup E, s)
  BY <1>1, <1>3, <1>4, <1>5 DEF Sorted, SetsSorted, ListPages, SameBut
<1>7. /\ sl[s].free_list # <<>>
      /\ sl[s].in_use + 1 = n => SetsSorted(F \cup {s}, P \ {s}, E, n, sb)
      /\ sl[s].in_use + 1 # n => SetsSorted(F, P, E, n, sb)
  BY <1>6, LendSets
<1>8. s \in Nat
  BY <1>2, RangeOfSeq
<1>9. PICK t : t = Filled(r, s, sl[s])
  OBVIOUS
<1>10. CASE sl[s].in_use + 1 = n
  <2>1. /\ t.full = Push(s, r.full) /\ t.partial = Without(r.partial, s)
        /\ t.empty = r.empty /\ t.objects_per_slab = n
    BY <1>1, <1>2, <1>9, <1>10 DEF Filled, Push, CacheFields
  <2>2. /\ IsInjective(Without(r.partial, s)) /\ Range(Without(r.partial, s)) = P \ {s}
        /\ IsInjective(Push(s, r.full)) /\ Range(Push(s, r.full)) = F \cup {s}
    BY <1>2, <1>3, <1>4, <1>6, <1>8, ListsMove
  <2>3. Sorted(t, sb)
    BY <1>5, <1>6, <1>7, <1>10, <2>1, <2>2 DEF Sorted
  <2> QED
    BY <1>7, <1>9, <2>3
<1>11. CASE sl[s].in_use + 1 # n
  <2>1. t = r
    BY <1>1, <1>9, <1>11 DEF Filled
  <2>2. Sorted(t, sb)
    BY <1>1, <1>3, <1>4, <1>5, <1>6, <1>7, <1>11, <2>1 DEF Sorted
  <2> QED
    BY <1>7, <1>9, <2>2
<1> QED
  BY <1>10, <1>11

\* The lists of a cache that got object o of slab s back.
LEMMA EmptiedSorted ==
  ASSUME NEW r, CacheGood(r), NEW sl, Sorted(r, sl),
         NEW s \in Range(r.full) \cup Range(r.partial),
         NEW sb, SameBut(sl, sb, ListPages(r), s),
         NEW o, GotBack(sb[s], sl[s], o)
  PROVE  Sorted(Emptied(r, s, sl[s]), sb)
<1>1. PICK n \in Nat \ {0} : n = r.objects_per_slab
  BY DEF CacheGood, Format
<1>2. /\ DOMAIN r = CacheFields /\ r.full \in Seq(Nat) /\ r.partial \in Seq(Nat)
      /\ r.empty \in Seq(Nat)
  BY DEF CacheGood, CacheOK
<1>3. PICK F : F = Range(r.full)
  OBVIOUS
<1>4. PICK P : P = Range(r.partial)
  OBVIOUS
<1>5. PICK E : E = Range(r.empty)
  OBVIOUS
<1>6. /\ SetsSorted(F, P, E, n, sl) /\ (s \in F \/ s \in P) /\ F \cap P = {} /\ s \notin E
      /\ IsInjective(r.full) /\ IsInjective(r.partial) /\ IsInjective(r.empty)
      /\ SameBut(sl, sb, F \cup P \cup E, s)
  BY <1>1, <1>3, <1>4, <1>5 DEF Sorted, SetsSorted, ListPages, SameBut
<1>7. /\ sl[s].in_use = n => s \in F /\ SetsSorted(F \ {s}, P \cup {s}, E, n, sb)
      /\ sl[s].in_use # n => s \in P
      /\ sl[s].in_use # n /\ sl[s].in_use = 1 => SetsSorted(F, P \ {s}, E \cup {s}, n, sb)
      /\ sl[s].in_use # n /\ sl[s].in_use # 1 => SetsSorted(F, P, E, n, sb)
  BY <1>6, GiveSets
<1>8. s \in Nat
  BY <1>2, RangeOfSeq
<1>9. PICK t : t = Emptied(r, s, sl[s])
  OBVIOUS
<1>10. CASE sl[s].in_use = n
  <2>1. /\ t.full = Without(r.full, s) /\ t.partial = Push(s, r.partial)
        /\ t.empty = r.empty /\ t.objects_per_slab = n
    BY <1>1, <1>2, <1>9, <1>10 DEF Emptied, Push, CacheFields
  <2>2. s \notin P
    BY <1>6, <1>7, <1>10
  <2>3. /\ IsInjective(Without(r.full, s)) /\ Range(Without(r.full, s)) = F \ {s}
        /\ IsInjective(Push(s, r.partial)) /\ Range(Push(s, r.partial)) = P \cup {s}
    BY <1>2, <1>3, <1>4, <1>6, <1>8, <2>2, ListsMove
  <2>4. Sorted(t, sb)
    BY <1>5, <1>6, <1>7, <1>10, <2>1, <2>3 DEF Sorted
  <2> QED
    BY <1>9, <2>4
<1>11. CASE sl[s].in_use # n /\ sl[s].in_use = 1
  <2>1. /\ t.full = r.full /\ t.partial = Without(r.partial, s)
        /\ t.empty = Push(s, r.empty) /\ t.objects_per_slab = n
    BY <1>1, <1>2, <1>9, <1>11 DEF Emptied, Push, CacheFields
  <2>2. /\ IsInjective(Without(r.partial, s)) /\ Range(Without(r.partial, s)) = P \ {s}
        /\ IsInjective(Push(s, r.empty)) /\ Range(Push(s, r.empty)) = E \cup {s}
    BY <1>2, <1>4, <1>5, <1>6, <1>8, ListsMove
  <2>3. Sorted(t, sb)
    BY <1>3, <1>6, <1>7, <1>11, <2>1, <2>2 DEF Sorted
  <2> QED
    BY <1>9, <2>3
<1>12. CASE sl[s].in_use # n /\ sl[s].in_use # 1
  <2>1. t = r
    BY <1>1, <1>9, <1>12 DEF Emptied
  <2>2. Sorted(t, sb)
    BY <1>1, <1>3, <1>4, <1>5, <1>6, <1>7, <1>12, <2>1 DEF Sorted
  <2> QED
    BY <1>9, <2>2
<1> QED
  BY <1>10, <1>11, <1>12

SortedPart(l, ca, sl) == Listed(l, ca, sl) /\ \A k \in DOMAIN ca : Sorted(ca[k], sl)

\* The structure of one cache changes, and the headers of its slabs.
LEMMA SortedUpdated ==
  ASSUME SlabInv, SortedInv, NEW k \in DOMAIN cache, NEW t, NEW sb, Sorted(t, sb),
         DOMAIN sb = DOMAIN slab \cup ListPages(t), ListPages(cache[k]) \subseteq ListPages(t),
         ListPages(t) \subseteq ListPages(cache[k]) \cup reclaimable,
         Untouched(slab, sb, ListPages(t)), NEW cb, cb = [cache EXCEPT ![k] = t]
  PROVE  SortedPart(g_cache_list, cb, sb)
<1>1. DOMAIN cb = DOMAIN cache /\ cb[k] = t /\ \A j \in DOMAIN cache : j # k => cb[j] = cache[j]
  OBVIOUS
<1>2. \A j \in DOMAIN cache : j # k => ListPages(cache[j]) \cap ListPages(t) = {}
  BY DEF SlabInv, CachesGood
<1>3. ASSUME NEW j \in DOMAIN cache PROVE Sorted(cb[j], sb)
  <2>1. CASE j = k
    BY <1>1, <2>1
  <2>2. CASE j # k
    <3>1. ListPages(cache[j]) \subseteq DOMAIN slab
      BY DEF SlabInv, CachesGood, Headed
    <3>2. \A x \in ListPages(cache[j]) : sb[x] = slab[x]
      BY <1>2, <2>2, <3>1 DEF Untouched
    <3>3. Sorted(cache[j], slab)
      BY DEF SortedInv
    <3>4. Sorted(cache[j], sb)
      BY <3>2, <3>3, SortedFrame
    <3> QED
      BY <1>1, <2>2, <3>4
  <2> QED
    BY <2>1, <2>2
<1>4. DOMAIN slab = UNION {ListPages(cache[j]) : j \in DOMAIN cache}
  BY DEF SortedInv, Listed
<1>5. DOMAIN sb = UNION {ListPages(cb[j]) : j \in DOMAIN cache}
  <2>1. \A x \in DOMAIN sb : \E j \in DOMAIN cache : x \in ListPages(cb[j])
    BY <1>1, <1>4
  <2>2. \A j \in DOMAIN cache : ListPages(cb[j]) \subseteq DOMAIN sb
    BY <1>1, <1>4
  <2> QED
    BY <2>1, <2>2
<1>6. Listed(g_cache_list, cb, sb)
  BY <1>1, <1>5 DEF SortedInv, Listed
<1> QED
  BY <1>1, <1>3, <1>6 DEF SortedPart

\* An object of slab s is lent; s is new or was on a list.
LEMMA LendSorted ==
  ASSUME SlabInv, SortedInv, NEW c, NEW k \in DOMAIN cache, NEW r, CacheGood(r), NEW s, NEW b,
         Lend(c, k, r, s, b), DOMAIN b = HeaderFields,
         s \in Range(r.partial), Sorted(r, Put(slab, s, b)),
         ListPages(r) = ListPages(cache[k]) \cup {s},
         s \in ListPages(cache[k]) \/ s \in reclaimable
  PROVE  SortedPart(g_cache_list, cache', slab') /\ b.free_list # <<>>
<1>1. PICK sl : sl = Put(slab, s, b)
  OBVIOUS
<1>2. PICK h : h = [b EXCEPT !.free_list = Tail(@), !.in_use = @ + 1]
  OBVIOUS
<1>3. h.free_list = Tail(b.free_list) /\ h.in_use = b.in_use + 1
  BY <1>2 DEF HeaderFields
<1>4. PICK t : t = Filled(r, s, b)
  OBVIOUS
<1>5. PICK sb : sb = slab'
  OBVIOUS
<1>6. PICK cb : cb = cache'
  OBVIOUS
<1>7. sb = Put(slab, s, h) /\ cb = [cache EXCEPT ![k] = t]
  BY <1>2, <1>4, <1>5, <1>6 DEF Lend
<1>8. sl[s] = b /\ sb[s] = h /\ SameBut(sl, sb, ListPages(r), s)
  <2>1. ListPages(r) \subseteq DOMAIN slab \cup {s}
    BY DEF SlabInv, CachesGood, Headed
  <2> QED
    BY <1>1, <1>7, <2>1 DEF Put, SameBut
<1>9. Sorted(r, sl) /\ sb[s].free_list = Tail(sl[s].free_list)
      /\ sb[s].in_use = sl[s].in_use + 1
  BY <1>1, <1>3, <1>8
<1>10. Sorted(Filled(r, s, sl[s]), sb) /\ sl[s].free_list # <<>>
  BY <1>8, <1>9, FilledSorted
<1>11. Sorted(t, sb)
  BY <1>4, <1>8, <1>10
<1>12. ListPages(t) = ListPages(cache[k]) \cup {s}
  <2>1. CacheOK(r) /\ s \in ListPages(r)
    BY DEF CacheGood, ListPages
  <2>2. ListPages(t) = ListPages(r)
    BY <1>4, <2>1, FilledPages
  <2> QED
    BY <2>2
<1>13. ListPages(cache[k]) \subseteq DOMAIN slab
  BY DEF SlabInv, CachesGood, Headed
<1>14. DOMAIN sb = DOMAIN slab \cup ListPages(t) /\ Untouched(slab, sb, ListPages(t))
  BY <1>7, <1>12, <1>13 DEF Put, Untouched
<1>15. ListPages(cache[k]) \subseteq ListPages(t)
       /\ ListPages(t) \subseteq ListPages(cache[k]) \cup reclaimable
  BY <1>12
<1>16. SortedPart(g_cache_list, cb, sb)
  BY <1>7, <1>11, <1>14, <1>15, SortedUpdated
<1> QED
  BY <1>5, <1>6, <1>8, <1>10, <1>16

\* A new slab has all its objects on the free list.
LEMMA NewSlabFree ==
  ASSUME NEW k \in DOMAIN cache, CacheGood(cache[k]), NEW p
  PROVE  LET b == NewSlab(p, k)
             n == cache[k].objects_per_slab
         IN
         /\ b.in_use = 0 /\ b.free_list \in Seq(Range(b.free_list)) /\ Len(b.free_list) = n
         /\ b.base = FirstObject(p, k)
         /\ b.free_list = [i \in 1..n |-> b.base + (n - i) * cache[k].object_size]
<1>1. PICK n \in Nat \ {0} : n = cache[k].objects_per_slab
  BY DEF CacheGood, Format
<1>2. PICK b : b = NewSlab(p, k)
  OBVIOUS
<1>3. /\ b.in_use = 0 /\ b.base = FirstObject(p, k)
      /\ b.free_list = [i \in 1..n |-> b.base + (n - i) * cache[k].object_size]
  BY <1>1, <1>2 DEF NewSlab
<1>4. PICK f : f = b.free_list
  OBVIOUS
<1>5. DOMAIN f = 1..n /\ f \in [1..n -> Range(f)]
  BY <1>3, <1>4 DEF Range
<1>6. f \in Seq(Range(f)) /\ Len(f) = n
  BY <1>5
<1> QED
  BY <1>1, <1>2, <1>3, <1>4, <1>6

\* An allocation under the lock keeps the lists sorted, and finds an object.
LEMMA SlowSorted ==
  ASSUME SlabInv, SortedInv, reclaimable \subseteq Nat, NEW c \in CPUs, AllocSlow(c)
  PROVE  SortedPart(g_cache_list', cache', slab')
<1>1. PICK k : k = arg[c][1]
  OBVIOUS
<1>2. k \in DOMAIN cache /\ g_cache_list' = g_cache_list
  BY <1>1, SlowCases DEF SlabInv, OnCaches
<1>3. PICK r : r = cache[k]
  OBVIOUS
<1>4. /\ CacheGood(r) /\ Headed(r, slab) /\ CacheOK(r) /\ r.color_next \in Nat
      /\ ListPages(r) \cap reclaimable = {} /\ CachesGood(cache, slab, reclaimable)
      /\ r.partial \in Seq(Nat) /\ r.empty \in Seq(Nat) /\ Sorted(r, slab)
  BY <1>2, <1>3 DEF SlabInv, CachesGood, CacheGood, CacheOK, Format, SortedInv
<1>5. SlowWays(c, k, r)
  BY <1>1, <1>3, SlowCases
<1>6. ASSUME NEW t, Sorted(t, slab), NEW s
      PROVE  Sorted(t, Put(slab, s, slab[s])) \/ ~(ListPages(t) \subseteq DOMAIN slab)
  <2>1. (ListPages(t) \subseteq DOMAIN slab) =>
          \A x \in ListPages(t) : Put(slab, s, slab[s])[x] = slab[x]
    BY DEF Put
  <2>2. PICK sb : sb = Put(slab, s, slab[s])
    OBVIOUS
  <2> QED
    BY <1>6, <2>1, <2>2, SortedFrame
<1>7. ListPages(r) \subseteq DOMAIN slab
  BY <1>4 DEF Headed
<1>8. ASSUME r.partial # <<>>, Lend(c, k, r, Head(r.partial), slab[Head(r.partial)])
      PROVE  SortedPart(g_cache_list', cache', slab')
  <2>1. PICK s : s = Head(r.partial)
    OBVIOUS
  <2>2. s \in Range(r.partial)
    BY <1>4, <1>8, <2>1, Popped
  <2>3. s \in ListPages(cache[k]) /\ ListPages(r) = ListPages(cache[k]) \cup {s}
    BY <1>3, <2>2 DEF ListPages
  <2>4. Sorted(r, Put(slab, s, slab[s])) /\ Lend(c, k, r, s, slab[s])
    BY <1>4, <1>6, <1>7, <1>8, <2>1
  <2>5. DOMAIN slab[s] = HeaderFields
    BY <1>3, <1>4, <2>3 DEF Headed
  <2> QED
    BY <1>2, <1>4, <2>2, <2>3, <2>4, <2>5, LendSorted
<1>9. ASSUME r.partial = <<>>, r.empty # <<>>,
             Lend(c, k, [r EXCEPT !.empty = Tail(@), !.partial = <<Head(r.empty)>>],
                  Head(r.empty), slab[Head(r.empty)])
      PROVE  SortedPart(g_cache_list', cache', slab')
  <2>1. PICK s : s = Head(r.empty)
    OBVIOUS
  <2>2. PICK t : t = WithEmpty(r)
    OBVIOUS
  <2>3. /\ CacheOK(t) /\ SameNumbers(t, r) /\ SameReady(t, r)
        /\ ListPages(t) = ListPages(r) /\ s \in ListPages(t)
        /\ t.full = r.full /\ t.partial = <<s>> /\ t.empty = Tail(r.empty)
    BY <1>4, <1>9, <2>1, <2>2, EmptyToPartial
  <2>4. CacheGood(t)
    BY <1>4, <2>3, StillGood DEF SameReady
  <2>5. Range(<<s>>) = {s} /\ IsInjective(<<s>>) /\ Range(r.partial) = {}
    BY <1>9 DEF Range, IsInjective
  <2>6. PICK e \in Seq(Nat) : e = r.empty
    BY <1>4
  <2>7. IsInjective(Tail(e)) /\ Range(Tail(e)) = Range(e) \ {s} /\ s \in Range(e)
    <3>1. /\ Head(e) \in Nat /\ Head(e) \in Range(e) /\ Tail(e) \in Seq(Nat)
          /\ Len(Tail(e)) = Len(e) - 1 /\ Len(e) \in Nat \ {0}
          /\ Range(e) = Range(Tail(e)) \cup {Head(e)}
          /\ IsInjective(e) => IsInjective(Tail(e)) /\ Head(e) \notin Range(Tail(e))
      BY <1>9, <2>6, Popped
    <3>2. IsInjective(e)
      BY <1>4, <2>6 DEF Sorted
    <3> QED
      BY <2>1, <2>6, <3>1, <3>2
  <2>8. PICK n \in Nat \ {0} : n = r.objects_per_slab
    BY <1>4 DEF CacheGood, Format
  <2>9. SetsSorted(Range(r.full), {}, Range(e), n, slab) /\ IsInjective(r.full)
    BY <1>4, <2>5, <2>6, <2>8 DEF Sorted
  <2>10. SetsSorted(Range(r.full), {s}, Range(e) \ {s}, n, slab)
    BY <2>7, <2>8, <2>9 DEF SetsSorted
  <2>11. Sorted(t, slab)
    BY <2>3, <2>5, <2>6, <2>7, <2>8, <2>9, <2>10 DEF Sorted, SameNumbers
  <2>12. Sorted(t, Put(slab, s, slab[s])) /\ Lend(c, k, t, s, slab[s])
    BY <1>6, <1>7, <1>9, <2>1, <2>2, <2>3, <2>11 DEF WithEmpty
  <2>13. DOMAIN slab[s] = HeaderFields
    BY <1>4, <2>3 DEF Headed
  <2>14. s \in Range(t.partial) /\ s \in ListPages(cache[k])
         /\ ListPages(t) = ListPages(cache[k]) \cup {s}
    BY <1>3, <2>3, <2>5
  <2> QED
    BY <1>2, <2>4, <2>12, <2>13, <2>14, LendSorted
<1>10. ASSUME r.partial = <<>>, Slack(k) # 0, NEW p \in reclaimable,
              Lend(c, k, [r EXCEPT !.partial = <<p>>, !.color_next = (@ + 1) % 8],
                   p, NewSlab(p, k))
       PROVE  SortedPart(g_cache_list', cache', slab')
  <2>0. p \in Nat
    OBVIOUS
  <2>1. PICK t : t = WithNew(r, p)
    OBVIOUS
  <2>2. PICK b : b = NewSlab(p, k)
    OBVIOUS
  <2>3. /\ CacheGood(t) /\ SameNumbers(t, r) /\ t.slots = r.slots
        /\ t.available = r.available
        /\ ListPages(t) = ListPages(r) \cup {p} /\ p \in ListPages(t)
        /\ t.full = r.full /\ t.partial = <<p>> /\ t.empty = r.empty
        /\ \A x, y : Placed(t, x, y) <=> Placed(r, x, y)
    BY <1>4, <1>10, <2>0, <2>1, NewToPartial
  <2>4. DOMAIN b = HeaderFields
    BY <1>2, <1>3, <1>4, <1>10, <2>0, <2>2, NewSlabPlaced
  <2>5. PICK n \in Nat \ {0} : n = r.objects_per_slab
    BY <1>4 DEF CacheGood, Format
  <2>6. b.in_use = 0 /\ b.free_list \in Seq(Range(b.free_list)) /\ Len(b.free_list) = n
    BY <1>2, <1>3, <1>4, <2>2, <2>5, NewSlabFree
  <2>7. PICK sl : sl = Put(slab, p, b)
    OBVIOUS
  <2>8. sl[p] = b /\ \A x \in ListPages(r) : sl[x] = slab[x]
    BY <1>4, <1>7, <2>7 DEF Put
  <2>9. Sorted(r, sl)
    BY <1>4, <2>8, SortedFrame
  <2>10. Range(<<p>>) = {p} /\ IsInjective(<<p>>) /\ Range(r.partial) = {}
    BY <1>10 DEF Range, IsInjective
  <2>11. SetsSorted(Range(r.full), {}, Range(r.empty), n, sl) /\ IsInjective(r.full)
         /\ IsInjective(r.empty)
    BY <2>5, <2>9, <2>10 DEF Sorted
  <2>12. p \notin ListPages(r)
    BY <1>4
  <2>13. CountOK(n, sl, p)
    BY <2>5, <2>6, <2>8 DEF CountOK
  <2>14. SetsSorted(Range(r.full), {p}, Range(r.empty), n, sl)
    BY <2>5, <2>6, <2>8, <2>11, <2>12, <2>13 DEF SetsSorted, ListPages
  <2>15. Sorted(t, sl)
    BY <2>3, <2>5, <2>10, <2>11, <2>14 DEF Sorted, SameNumbers
  <2>16. Lend(c, k, t, p, b) /\ p \in Range(t.partial)
         /\ ListPages(t) = ListPages(cache[k]) \cup {p}
    BY <1>3, <1>10, <2>1, <2>2, <2>3, <2>10 DEF WithNew
  <2> QED
    BY <1>2, <2>3, <2>4, <2>7, <2>15, <2>16, LendSorted
<1>11. CASE UNCHANGED <<cache, slab, loans>>
  BY <1>2, <1>11 DEF SortedInv, SortedPart
<1> QED
  BY <1>5, <1>8, <1>9, <1>10, <1>11, Zenon DEF SlowWays

\* A free under the lock keeps the lists sorted.
LEMMA GiveBackSorted ==
  ASSUME SlabInv, SortedInv, NEW c \in CPUs, FreeSlow(c)
  PROVE  SortedPart(g_cache_list', cache', slab')
<1>1. PICK k : k = arg[c][1]
  OBVIOUS
<1>2. PICK o : o = arg[c][2]
  OBVIOUS
<1>3. PICK s : s = slab_find_for_object(k, o)
  OBVIOUS
<1>4. k \in DOMAIN cache /\ g_cache_list' = g_cache_list
  BY <1>1 DEF SlabInv, OnCaches, FreeSlow
<1>5. CASE s = NULL
  <2>1. cache' = cache /\ slab' = slab
    BY <1>1, <1>2, <1>3, <1>5 DEF FreeSlow
  <2> QED
    BY <1>4, <2>1 DEF SortedInv, SortedPart
<1>6. CASE s # NULL
  <2>1. s \in Range(cache[k].full) \cup Range(cache[k].partial)
    BY <1>3, <1>6, FoundListed
  <2>2. PICK r : r = cache[k]
    OBVIOUS
  <2>3. CacheGood(r) /\ CacheOK(r) /\ Headed(r, slab) /\ Sorted(r, slab)
        /\ s \in ListPages(r)
    BY <1>4, <2>1, <2>2 DEF SlabInv, CachesGood, CacheGood, SortedInv, ListPages
  <2>4. PICK t : t = Emptied(r, s, slab[s])
    OBVIOUS
  <2>5. PICK h : h = GivenBack(slab[s], o)
    OBVIOUS
  <2>6. PICK sb : sb = slab'
    OBVIOUS
  <2>7. PICK cb : cb = cache'
    OBVIOUS
  <2>8. sb = Put(slab, s, h) /\ cb = [cache EXCEPT ![k] = t]
    BY <1>1, <1>2, <1>3, <1>6, <2>2, <2>4, <2>5, <2>6, <2>7 DEF FreeSlow
  <2>9. s \in DOMAIN slab /\ DOMAIN slab[s] = HeaderFields /\ ListPages(r) \subseteq DOMAIN slab
    BY <2>3 DEF Headed
  <2>10. GotBack(h, slab[s], o)
    BY <2>5, <2>9 DEF HeaderFields, GivenBack, GotBack, Push
  <2>11. sb[s] = h /\ SameBut(slab, sb, ListPages(r), s)
    BY <2>8, <2>9 DEF Put, SameBut
  <2>12. Sorted(Emptied(r, s, slab[s]), sb)
    BY <2>1, <2>2, <2>3, <2>10, <2>11, EmptiedSorted
  <2>13. ListPages(t) = ListPages(r)
    BY <2>3, <2>4, EmptiedPages
  <2>14. DOMAIN sb = DOMAIN slab \cup ListPages(t) /\ Untouched(slab, sb, ListPages(t))
         /\ ListPages(cache[k]) \subseteq ListPages(t) /\ Sorted(t, sb)
         /\ ListPages(t) \subseteq ListPages(cache[k]) \cup reclaimable
    BY <2>2, <2>3, <2>4, <2>8, <2>9, <2>12, <2>13 DEF Put, Untouched
  <2>15. SortedPart(g_cache_list, cb, sb)
    BY <1>4, <2>8, <2>14, SortedUpdated
  <2> QED
    BY <1>4, <2>6, <2>7, <2>15
<1> QED
  BY <1>5, <1>6

\* The steps without the lock leave the lists alone.
LEMMA StoreSorted ==
  ASSUME SlabInv, SortedInv, NEW c \in CPUs,
         AllocStore(c) \/ FreeStore(c) \/ FreeCount(c) \/ FreeArray(c)
  PROVE  SortedPart(g_cache_list', cache', slab')
<1>1. PICK k : k = arg[c][1]
  OBVIOUS
<1>2. k \in DOMAIN cache
  BY <1>1 DEF SlabInv, OnCaches, AllocStore, FreeStore, FreeCount, FreeArray
<1>3. DOMAIN cache[k] = CacheFields /\ ListPages(cache[k]) \subseteq DOMAIN slab
      /\ Sorted(cache[k], slab)
  BY <1>2 DEF SlabInv, CachesGood, CacheGood, CacheOK, Headed, SortedInv
<1>4. slab' = slab /\ g_cache_list' = g_cache_list
  BY <1>1, <1>2, <1>3, StoreEffect
<1>5. CASE cache' = cache
  BY <1>4, <1>5 DEF SortedInv, SortedPart
<1>6. ASSUME NEW t, cache' = [cache EXCEPT ![k] = t], SameSlabs(t, cache[k])
      PROVE  SortedPart(g_cache_list', cache', slab')
  <2>1. /\ t.full = cache[k].full /\ t.partial = cache[k].partial /\ t.empty = cache[k].empty
        /\ t.objects_per_slab = cache[k].objects_per_slab
        /\ \A x \in ListPages(cache[k]) : slab[x] = slab[x]
    BY <1>6 DEF SameSlabs, SameNumbers
  <2>2. Sorted(t, slab)
    BY <1>3, <2>1, SortedFrame
  <2>3. ListPages(t) = ListPages(cache[k])
    BY <2>1 DEF ListPages
  <2>4. PICK cb : cb = cache'
    OBVIOUS
  <2>5. DOMAIN slab = DOMAIN slab \cup ListPages(t) /\ Untouched(slab, slab, ListPages(t))
        /\ ListPages(cache[k]) \subseteq ListPages(t) /\ cb = [cache EXCEPT ![k] = t]
        /\ ListPages(t) \subseteq ListPages(cache[k]) \cup reclaimable
    BY <1>3, <1>6, <2>3, <2>4 DEF Untouched
  <2>6. SortedPart(g_cache_list, cb, slab)
    BY <1>2, <2>2, <2>5, SortedUpdated
  <2> QED
    BY <1>4, <2>4, <2>6
<1> QED
  BY <1>1, <1>2, <1>3, <1>5, <1>6, StoreEffect

\* A new cache is the first of the list.
LEMMA CreateSorted ==
  ASSUME SlabInv, SortedInv, PagesInv, unmovable \subseteq Nat, NEW c \in CPUs,
         NEW f \in Formats, slab_cache_create(c, f[1], f[2])
  PROVE  SortedPart(g_cache_list', cache', slab')
<1>1. slab' = slab
  BY DEF slab_cache_create
<1>2. CASE UNCHANGED <<cache, g_cache_list>>
  BY <1>1, <1>2 DEF SortedInv, SortedPart
<1>3. ASSUME NEW p \in unmovable, f[1] \in 1..BUDDY_PAGE_SIZE,
             cache' = Put(cache, p, NewCache(f[1], f[2])), g_cache_list' = <<p>> \o g_cache_list
      PROVE  SortedPart(g_cache_list', cache', slab')
  <2>0. p \in Nat
    OBVIOUS
  <2>1. PICK t : t = NewCache(f[1], f[2])
    OBVIOUS
  <2>2. CacheGood(t) /\ ListPages(t) = {} /\ t.full = <<>> /\ t.partial = <<>> /\ t.empty = <<>>
    BY <1>3, <2>1, NewCacheGood
  <2>3. p \notin DOMAIN cache
    BY DEF PagesInv, SlabPart, Split, OfCaches, OwnPages
  <2>4. /\ DOMAIN cache' = DOMAIN cache \cup {p} /\ cache'[p] = t
        /\ \A j \in DOMAIN cache : cache'[j] = cache[j]
    BY <1>3, <2>1, <2>3 DEF Put
  <2>5. IsInjective(<<>>) /\ Range(<<>>) = {}
    BY DEF IsInjective, Range
  <2>6. Sorted(t, slab)
    BY <2>2, <2>5 DEF Sorted, SetsSorted
  <2>7. \A j \in DOMAIN cache' : Sorted(cache'[j], slab)
    BY <2>4, <2>6 DEF SortedInv
  <2>8. PICK l \in Seq(Nat) : l = g_cache_list
    BY DEF SortedInv, Listed
  <2>9. IsInjective(l) /\ Range(l) = DOMAIN cache
        /\ DOMAIN slab = UNION {ListPages(cache[j]) : j \in DOMAIN cache}
    BY <2>8 DEF SortedInv, Listed
  <2>10. /\ Push(p, l) \in Seq(Nat) /\ Len(Push(p, l)) = Len(l) + 1
         /\ Range(Push(p, l)) = Range(l) \cup {p}
         /\ IsInjective(l) /\ p \notin Range(l) => IsInjective(Push(p, l))
    BY <2>0, Pushed
  <2>11. g_cache_list' = Push(p, l)
    BY <1>3, <2>8 DEF Push
  <2>12. DOMAIN slab = UNION {ListPages(cache'[j]) : j \in DOMAIN cache'}
    <3>1. \A x \in DOMAIN slab : \E j \in DOMAIN cache' : x \in ListPages(cache'[j])
      BY <2>4, <2>9
    <3>2. \A j \in DOMAIN cache' : ListPages(cache'[j]) \subseteq DOMAIN slab
      BY <2>2, <2>4, <2>9
    <3> QED
      BY <3>1, <3>2
  <2>13. Listed(g_cache_list', cache', slab')
    BY <1>1, <2>3, <2>4, <2>9, <2>10, <2>11, <2>12 DEF Listed
  <2> QED
    BY <1>1, <2>7, <2>13 DEF SortedPart
<1> QED
  BY <1>2, <1>3, Zenon DEF slab_cache_create

\* A cache goes with all its slabs.
LEMMA DestroySorted ==
  ASSUME SlabInv, SortedInv, NEW c \in CPUs, NEW k \in DOMAIN cache, slab_cache_destroy(c, k)
  PROVE  SortedPart(g_cache_list', cache', slab')
<1>1. DOMAIN cache' = DOMAIN cache \ {k} /\ \A j \in DOMAIN cache' : cache'[j] = cache[j]
  BY DEF slab_cache_destroy, Drop
<1>2. SlabPages(k) = ListPages(cache[k])
  BY DEF SlabPages, ListPages
<1>3. DOMAIN slab' = DOMAIN slab \ ListPages(cache[k])
      /\ \A s \in DOMAIN slab' : slab'[s] = slab[s]
  BY <1>2 DEF slab_cache_destroy, Drop
<1>4. \A j \in DOMAIN cache' : ListPages(cache[j]) \cap ListPages(cache[k]) = {}
  BY <1>1 DEF SlabInv, CachesGood
<1>5. DOMAIN slab = UNION {ListPages(cache[j]) : j \in DOMAIN cache}
  BY DEF SortedInv, Listed
<1>6. \A j \in DOMAIN cache' : ListPages(cache[j]) \subseteq DOMAIN slab'
  BY <1>1, <1>3, <1>4, <1>5
<1>7. \A x \in DOMAIN slab' : \E j \in DOMAIN cache' : x \in ListPages(cache[j])
  BY <1>1, <1>3, <1>5
<1>8. DOMAIN slab' = UNION {ListPages(cache'[j]) : j \in DOMAIN cache'}
  BY <1>1, <1>6, <1>7
<1>9. PICK sb : sb = slab'
  OBVIOUS
<1>10. ASSUME NEW j \in DOMAIN cache' PROVE Sorted(cache'[j], sb)
  <2>1. Sorted(cache[j], slab) /\ cache'[j] = cache[j]
    BY <1>1 DEF SortedInv
  <2>2. \A x \in ListPages(cache[j]) : sb[x] = slab[x]
    BY <1>3, <1>6, <1>9
  <2>3. Sorted(cache[j], sb)
    BY <2>1, <2>2, SortedFrame
  <2> QED
    BY <2>1, <2>3
<1>11. PICK l \in Seq(Nat) : l = g_cache_list
  BY DEF SortedInv, Listed
<1>12. IsInjective(l) /\ Range(l) = DOMAIN cache /\ g_cache_list' = Without(l, k)
  BY <1>11 DEF SortedInv, Listed, slab_cache_destroy
<1>13. /\ Without(l, k) \in Seq(Nat)
       /\ Range(Without(l, k)) \subseteq Range(l)
       /\ Range(l) \ {k} \subseteq Range(Without(l, k))
       /\ IsInjective(l) => /\ IsInjective(Without(l, k))
                            /\ Range(Without(l, k)) = Range(l) \ {k}
       /\ k \in Range(l) => Len(Without(l, k)) = Len(l) - 1
  BY Unlinked
<1>14. Listed(g_cache_list', cache', slab')
  BY <1>1, <1>8, <1>12, <1>13 DEF Listed
<1> QED
  BY <1>9, <1>10, <1>14 DEF SortedPart

\* Whatever the slab allocator does, its lists are sorted.
LEMMA SlabStepSorted ==
  ASSUME SlabInv, SortedInv, PagesInv, unmovable \subseteq Nat, reclaimable \subseteq Nat, SlabNext
  PROVE  SortedInv'
<1>1. ASSUME NEW c \in CPUs,
             \/ \E k \in DOMAIN cache : AllocLoad(c, k)
             \/ AllocRead(c) \/ AllocDivides(c) \/ Halted(c)
             \/ \E x \in loans[c] : FreeLoad(c, x[1], x[2])
      PROVE  cache' = cache /\ slab' = slab /\ g_cache_list' = g_cache_list
  BY <1>1 DEF AllocLoad, AllocRead, AllocDivides, Halted, FreeLoad, slabLists, slabVars
<1>2. SortedPart(g_cache_list, cache, slab)
  BY DEF SortedInv, SortedPart
<1>3. SortedPart(g_cache_list', cache', slab')
  BY <1>1, <1>2, CreateSorted, DestroySorted, StoreSorted, SlowSorted, GiveBackSorted DEF SlabNext
<1> QED
  BY <1>3 DEF SortedPart, SortedInv

\* Nobody else changes them.
LEMMA SortedStep ==
  ASSUME BootInv, PagesInv, SlabInv, SortedInv, [Next]_vars
  PROVE  SortedInv'
<1>0. unmovable \subseteq Nat /\ reclaimable \subseteq Nat
  BY ZonesNat
<1>1. CASE SlabNext
  BY <1>0, <1>1, SlabStepSorted
<1>2. CASE UNCHANGED slabVars
  BY <1>2 DEF SortedInv, slabVars
<1>3. CASE InitMemory
  <2>1. DOMAIN cache = {} /\ cache' = cache /\ slab' = slab /\ g_cache_list' = <<>>
    BY <1>3 DEF InitMemory, BootInv, NothingTaken
  <2>2. <<>> \in Seq(Nat) /\ IsInjective(<<>>) /\ Range(<<>>) = {}
    BY DEF IsInjective, Range
  <2>3. DOMAIN slab = UNION {ListPages(cache[k]) : k \in DOMAIN cache}
    BY DEF SortedInv, Listed
  <2>4. Listed(g_cache_list', cache', slab')
    BY <2>1, <2>2, <2>3 DEF Listed
  <2> QED
    BY <2>1, <2>4 DEF SortedInv
<1> QED
  BY <1>1, <1>2, <1>3 DEF Next, Boot, ReadTag, vars

\* At the start there are no lists.
LEMMA SortedStart ==
  ASSUME Init
  PROVE  SortedInv
<1>1. g_cache_list = <<>> /\ DOMAIN cache = {} /\ DOMAIN slab = {}
  BY DEF Init, SlabInit
<1>2. <<>> \in Seq(Nat) /\ IsInjective(<<>>) /\ Range(<<>>) = {}
  BY DEF IsInjective, Range
<1>3. UNION {ListPages(cache[k]) : k \in DOMAIN cache} = {}
  BY <1>1
<1> QED
  BY <1>1, <1>2, <1>3 DEF SortedInv, Listed

\* The lists of slabs are sorted, on one CPU and until something goes wrong.
THEOREM SortedSafe ==
  ASSUME OneCPU
  PROVE  Spec => [](Sound => SortedInv)
<1>1. Init => SortedInv
  BY SortedStart
<1>2. BootInv /\ (Sound => PagesInv) /\ SlabInv /\ (Sound => SortedInv) /\ [Next]_vars
        => (Sound => SortedInv)'
  BY SortedStep, SoundBefore
<1> QED
  BY <1>1, <1>2, BootSafe, PagesSafe, SlabSafe, PTL DEF Spec

\* The three lists of a cache have as many places as the cache has slabs.
LEMMA SlabCount ==
  ASSUME NEW r, CacheOK(r), NEW sl, Sorted(r, sl)
  PROVE  Len(r.full) + Len(r.partial) + Len(r.empty) = Cardinality(ListPages(r))
<1>1. r.full \in Seq(Nat) /\ r.partial \in Seq(Nat) /\ r.empty \in Seq(Nat)
  BY DEF CacheOK
<1>2. /\ IsInjective(r.full) /\ IsInjective(r.partial) /\ IsInjective(r.empty)
      /\ Range(r.full) \cap Range(r.partial) = {} /\ Range(r.full) \cap Range(r.empty) = {}
      /\ Range(r.partial) \cap Range(r.empty) = {}
  BY DEF Sorted, SetsSorted
<1>3. PICK F : F = Range(r.full)
  OBVIOUS
<1>4. PICK P : P = Range(r.partial)
  OBVIOUS
<1>5. PICK E : E = Range(r.empty)
  OBVIOUS
<1>6. IsFiniteSet(F) /\ Cardinality(F) = Len(r.full)
  BY <1>1, <1>2, <1>3, ListCount
<1>7. IsFiniteSet(P) /\ Cardinality(P) = Len(r.partial)
  BY <1>1, <1>2, <1>4, ListCount
<1>8. IsFiniteSet(E) /\ Cardinality(E) = Len(r.empty)
  BY <1>1, <1>2, <1>5, ListCount
<1>9. F \cap P = {} /\ (F \cup P) \cap E = {} /\ Cardinality({}) = 0
  BY <1>2, <1>3, <1>4, <1>5, FS_EmptySet
<1>10. IsFiniteSet(F \cup P)
       /\ Cardinality(F \cup P) = Cardinality(F) + Cardinality(P) - Cardinality(F \cap P)
  BY <1>6, <1>7, FS_Union
<1>11. Cardinality((F \cup P) \cup E)
         = Cardinality(F \cup P) + Cardinality(E) - Cardinality((F \cup P) \cap E)
  BY <1>8, <1>10, FS_Union
<1>12. ListPages(r) = (F \cup P) \cup E
  BY <1>3, <1>4, <1>5 DEF ListPages
<1>13. Len(r.full) \in Nat /\ Len(r.partial) \in Nat /\ Len(r.empty) \in Nat
  BY <1>1
<1>14. PICK z : z = {}
  OBVIOUS
<1>15. F \cap P = z /\ (F \cup P) \cap E = z /\ Cardinality(z) = 0
  BY <1>9, <1>14
<1>16. Cardinality(F \cup P) = Len(r.full) + Len(r.partial) - 0
  BY <1>6, <1>7, <1>10, <1>15
<1>17. Cardinality((F \cup P) \cup E) = Len(r.full) + Len(r.partial) - 0 + Len(r.empty) - 0
  BY <1>8, <1>11, <1>15, <1>16
<1> QED
  BY <1>12, <1>13, <1>17

\* What the invariants say of the lists of a cache.
LEMMA SortedCache ==
  ASSUME NEW r, CacheGood(r), NEW sl, Sorted(r, sl)
  PROVE  /\ \A s \in ListPages(r) :
              sl[s].in_use = r.objects_per_slab - Len(sl[s].free_list)
         /\ \A s \in Range(r.full) : sl[s].in_use = r.objects_per_slab
         /\ \A s \in Range(r.partial) : sl[s].in_use < r.objects_per_slab
         /\ \A s \in Range(r.empty) : sl[s].in_use = 0
<1>1. PICK n \in Nat \ {0} : n = r.objects_per_slab
  BY DEF CacheGood, Format
<1>2. SetsSorted(Range(r.full), Range(r.partial), Range(r.empty), n, sl)
  BY <1>1 DEF Sorted
<1>3. \A s \in ListPages(r) : Len(sl[s].free_list) \in Nat /\ sl[s].in_use = n - Len(sl[s].free_list)
  <2>1. SUFFICES ASSUME NEW s \in ListPages(r)
                 PROVE  Len(sl[s].free_list) \in Nat /\ sl[s].in_use = n - Len(sl[s].free_list)
    OBVIOUS
  <2>2. CountOK(n, sl, s)
    BY <1>2 DEF SetsSorted, ListPages
  <2>3. PICK f : f = sl[s].free_list
    OBVIOUS
  <2>4. f \in Seq(Range(f)) /\ sl[s].in_use = n - Len(f)
    BY <2>2, <2>3 DEF CountOK
  <2>5. Len(f) \in Nat
    BY <2>4
  <2> QED
    BY <2>3, <2>4, <2>5
<1>4. /\ \A s \in Range(r.full) : Len(sl[s].free_list) = 0 /\ s \in ListPages(r)
      /\ \A s \in Range(r.partial) : Len(sl[s].free_list) > 0 /\ s \in ListPages(r)
      /\ \A s \in Range(r.empty) : Len(sl[s].free_list) = n /\ s \in ListPages(r)
  BY <1>2 DEF SetsSorted, ListPages
<1> QED
  BY <1>1, <1>3, <1>4

\* A slab is on the list its objects in use call for, for caches and slabs of
\* any number, on one CPU and until something goes wrong.
THEOREM ListsTheorem ==
  ASSUME OneCPU
  PROVE  Spec => []ListsSorted
<1>1. ASSUME SlabInv, SortedInv PROVE ListsSorted
  <2>1. \A k : SlabPages(k) = ListPages(cache[k])
    BY DEF SlabPages, ListPages
  <2>2. Range(g_cache_list) = DOMAIN cache
        /\ DOMAIN slab = UNION {SlabPages(k) : k \in DOMAIN cache}
    BY <1>1, <2>1 DEF SortedInv, Listed
  <2>3. ASSUME NEW k \in DOMAIN cache
        PROVE  LET r == cache[k] IN
               /\ Len(r.full) + Len(r.partial) + Len(r.empty) = Cardinality(SlabPages(k))
               /\ \A s \in SlabPages(k) :
                    slab[s].in_use = r.objects_per_slab - Len(slab[s].free_list)
               /\ \A s \in Range(r.full) : slab[s].in_use = r.objects_per_slab
               /\ \A s \in Range(r.partial) : slab[s].in_use < r.objects_per_slab
               /\ \A s \in Range(r.empty) : slab[s].in_use = 0
    <3>1. PICK r : r = cache[k]
      OBVIOUS
    <3>2. CacheGood(r) /\ CacheOK(r) /\ Sorted(r, slab)
      BY <1>1, <3>1 DEF SlabInv, CachesGood, CacheGood, SortedInv
    <3>3. Len(r.full) + Len(r.partial) + Len(r.empty) = Cardinality(ListPages(r))
      BY <3>2, SlabCount
    <3>4. /\ \A s \in ListPages(r) :
               slab[s].in_use = r.objects_per_slab - Len(slab[s].free_list)
          /\ \A s \in Range(r.full) : slab[s].in_use = r.objects_per_slab
          /\ \A s \in Range(r.partial) : slab[s].in_use < r.objects_per_slab
          /\ \A s \in Range(r.empty) : slab[s].in_use = 0
      BY <3>2, SortedCache
    <3> QED
      BY <2>1, <3>1, <3>3, <3>4
  <2> QED
    BY <2>2, <2>3, Zenon DEF ListsSorted
<1>2. ~Sound => ListsSorted
  BY DEF ListsSorted
<1> QED
  BY <1>1, <1>2, SlabSafe, SortedSafe, PTL

-----------------------------------------------------------------------------
(* Objects *)

\* Pairs of a cache and an object.
Pairs(X) == \A x \in X : x = <<x[1], x[2]>>

\* Only objects of cache k come or go.
OnlyOf(X, Y, k) == \A j : j # k => ObjectsAmong(Y, j) = ObjectsAmong(X, j)

\* One object in transit, or none.
LEMMA OneInTransit ==
  ASSUME NEW k, NEW o, NEW E, E = {}, NEW T, T = {<<k, o>>}
  PROVE  /\ ObjectsAmong(E, k) = {} /\ ObjectsAmong(T, k) = {o}
         /\ OnlyOf(E, T, k) /\ OnlyOf(T, E, k)
<1>1. PICK p : p = <<k, o>>
  OBVIOUS
<1>2. p[1] = k /\ p[2] = o /\ T = {p}
  BY <1>1
<1>3. ObjectsAmong(T, k) = {o} /\ \A j : j # k => ObjectsAmong(T, j) = {}
  BY <1>2 DEF ObjectsAmong
<1>4. \A j : ObjectsAmong(E, j) = {}
  BY DEF ObjectsAmong
<1> QED
  BY <1>3, <1>4 DEF OnlyOf

\* Object o of cache k comes to pairs X, or goes.
Given(X, Y, k, o) == Y = X \cup {<<k, o>>}
Returned(X, Y, k, o) == <<k, o>> \in X /\ Y = X \ {<<k, o>>}

\* A caller gets an object.
LEMMA LoanGiven ==
  ASSUME NEW X, Pairs(X), NEW k, NEW o, NEW Y, Given(X, Y, k, o)
  PROVE  /\ Pairs(Y) /\ OnlyOf(X, Y, k)
         /\ ObjectsAmong(Y, k) = ObjectsAmong(X, k) \cup {o}
<1>1. PICK p : p = <<k, o>>
  OBVIOUS
<1>2. p[1] = k /\ p[2] = o /\ Y = X \cup {p}
  BY <1>1 DEF Given
<1>3. ObjectsAmong(Y, k) = ObjectsAmong(X, k) \cup {o}
  BY <1>2 DEF ObjectsAmong
<1>4. ASSUME NEW j, j # k PROVE ObjectsAmong(Y, j) = ObjectsAmong(X, j)
  BY <1>2, <1>4 DEF ObjectsAmong
<1>5. Pairs(Y)
  BY <1>1, <1>2 DEF Pairs
<1> QED
  BY <1>3, <1>4, <1>5 DEF OnlyOf

\* A caller gives an object back.
LEMMA LoanBack ==
  ASSUME NEW X, Pairs(X), NEW k, NEW o, NEW Y, Returned(X, Y, k, o)
  PROVE  /\ Pairs(Y) /\ OnlyOf(X, Y, k) /\ o \in ObjectsAmong(X, k)
         /\ ObjectsAmong(Y, k) = ObjectsAmong(X, k) \ {o}
<1>1. PICK p : p = <<k, o>>
  OBVIOUS
<1>2. p[1] = k /\ p[2] = o /\ Y = X \ {p} /\ p \in X
  BY <1>1 DEF Returned
<1>3. ASSUME NEW x \in X, x # p, x[1] = k PROVE x[2] # o
  BY <1>1, <1>3 DEF Pairs
<1>4. o \in ObjectsAmong(X, k) /\ ObjectsAmong(Y, k) = ObjectsAmong(X, k) \ {o}
  BY <1>2, <1>3 DEF ObjectsAmong
<1>5. ASSUME NEW j, j # k PROVE ObjectsAmong(Y, j) = ObjectsAmong(X, j)
  BY <1>2, <1>5 DEF ObjectsAmong
<1>6. Pairs(Y)
  BY <1>2 DEF Pairs
<1> QED
  BY <1>4, <1>5, <1>6 DEF OnlyOf

\* Cache j is unaffected by what happens to others.
LEMMA AccountFrame ==
  ASSUME NEW j, NEW r, NEW sl, NEW L, NEW T, Accounted(j, r, sl, L, T),
         NEW sb, \A x \in ListPages(r) : sb[x] = sl[x],
         NEW L2, ObjectsAmong(L2, j) = ObjectsAmong(L, j),
         NEW T2, ObjectsAmong(T2, j) = ObjectsAmong(T, j)
  PROVE  Accounted(j, r, sb, L2, T2)
<1>1. FreeOK(r, sb)
  BY DEF Accounted, FreeOK
<1>2. AllObjects(r, sb) = AllObjects(r, sl)
  BY DEF AllObjects
<1>3. FreeObjects(r, sb) = FreeObjects(r, sl)
  BY DEF FreeObjects
<1> QED
  BY <1>1, <1>2, <1>3 DEF Accounted

\* Caches ca and cb differ in cache k at most, which is t now.
OneChanged(ca, cb, k, t) ==
  DOMAIN cb = DOMAIN ca /\ cb[k] = t /\ \A j \in DOMAIN ca : j # k => cb[j] = ca[j]

\* One cache changes, its slabs, and the objects of it in the hands of the CPU.
LEMMA AccountUpdated ==
  ASSUME SlabInv, NEW L, NEW l, NEW g, AccountOf(cache, slab, L, l, g),
         NEW k \in DOMAIN cache, NEW t, NEW sb, Untouched(slab, sb, ListPages(t)),
         ListPages(t) \subseteq ListPages(cache[k]) \cup reclaimable,
         NEW cb, OneChanged(cache, cb, k, t), NEW L2, NEW l2, NEW g2,
         Pairs(L2), CallOK(l2, g2, cb), OnlyOf(L, L2, k), NEW T2, T2 = Transit(l2, g2, cb),
         OnlyOf(Transit(l, g, cache), T2, k), Accounted(k, t, sb, L2, T2)
  PROVE  AccountOf(cb, sb, L2, l2, g2)
<1>1. ASSUME NEW j \in DOMAIN cb PROVE Accounted(j, cb[j], sb, L2, T2)
  <2>1. CASE j = k
    BY <2>1 DEF OneChanged
  <2>2. CASE j # k
    <3>1. j \in DOMAIN cache /\ cb[j] = cache[j]
      BY <2>2 DEF OneChanged
    <3>2. ListPages(cache[j]) \cap ListPages(t) = {} /\ ListPages(cache[j]) \subseteq DOMAIN slab
      BY <2>2, <3>1 DEF SlabInv, CachesGood, Headed
    <3>3. \A x \in ListPages(cache[j]) : sb[x] = slab[x]
      BY <3>2 DEF Untouched
    <3>4. PICK T : T = Transit(l, g, cache)
      OBVIOUS
    <3>5. Accounted(j, cache[j], slab, L, T)
      BY <3>1, <3>4 DEF AccountOf
    <3>6. ObjectsAmong(L2, j) = ObjectsAmong(L, j) /\ ObjectsAmong(T2, j) = ObjectsAmong(T, j)
      BY <2>2, <3>4 DEF OnlyOf
    <3>7. Accounted(j, cache[j], sb, L2, T2)
      BY <3>3, <3>5, <3>6, AccountFrame
    <3> QED
      BY <3>1, <3>7
  <2> QED
    BY <2>1, <2>2
<1> QED
  BY <1>1 DEF AccountOf, Pairs

\* The CPU cache gives its last object, or takes one behind it.
LEMMA ReadyMoves ==
  ASSUME NEW r, SlotsOK(r), NEW t
  PROVE  /\ r.available > 0 /\ t.slots = r.slots /\ t.available = r.available - 1 =>
              /\ SlotsOK(t) /\ r.slots[r.available - 1] \in ReadyObjects(r)
              /\ ReadyObjects(t) = ReadyObjects(r) \ {r.slots[r.available - 1]}
         /\ /\ r.available < SLAB_CPU_CACHE_SIZE /\ r.slots[r.available] \notin ReadyObjects(r)
            /\ t.slots = r.slots /\ t.available = r.available + 1
            => SlotsOK(t) /\ ReadyObjects(t) = ReadyObjects(r) \cup {r.slots[r.available]}
<1>1. PICK m \in Nat \ {0} : m = SLAB_CPU_CACHE_SIZE
  BY SlabAssumption
<1>2. PICK a \in 0..m : a = r.available
  BY <1>1 DEF SlotsOK
<1>3. PICK f : f = r.slots
  OBVIOUS
<1>4. DOMAIN f = 0..(m - 1) /\ \A i, j \in 0..(a - 1) : f[i] = f[j] => i = j
  BY <1>1, <1>2, <1>3 DEF SlotsOK
<1>5. ReadyObjects(r) = {f[i] : i \in 0..(a - 1)}
  BY <1>2, <1>3 DEF ReadyObjects
<1>6. ASSUME a > 0, t.slots = f, t.available = a - 1
      PROVE  /\ SlotsOK(t) /\ f[a - 1] \in ReadyObjects(r)
             /\ ReadyObjects(t) = ReadyObjects(r) \ {f[a - 1]}
  <2>1. \A i, j \in 0..(a - 1 - 1) : f[i] = f[j] => i = j
    BY <1>4
  <2>2. SlotsOK(t)
    BY <1>1, <1>4, <1>6, <2>1 DEF SlotsOK
  <2>3. ReadyObjects(t) = {f[i] : i \in 0..(a - 1 - 1)}
    BY <1>6 DEF ReadyObjects
  <2>4. a - 1 \in 0..(a - 1) /\ 0..(a - 1 - 1) = 0..(a - 1) \ {a - 1}
    BY <1>6
  <2> QED
    BY <1>4, <1>5, <2>2, <2>3, <2>4
<1>7. ASSUME a < m, f[a] \notin ReadyObjects(r), t.slots = f, t.available = a + 1
      PROVE  SlotsOK(t) /\ ReadyObjects(t) = ReadyObjects(r) \cup {f[a]}
  <2>1. 0..(a + 1 - 1) = 0..(a - 1) \cup {a}
    OBVIOUS
  <2>2. \A i \in 0..(a - 1) : f[i] # f[a]
    BY <1>5, <1>7
  <2>3. \A i, j \in 0..(a + 1 - 1) : f[i] = f[j] => i = j
    BY <1>4, <2>1, <2>2
  <2>4. SlotsOK(t)
    BY <1>1, <1>4, <1>7, <2>3 DEF SlotsOK
  <2>5. ReadyObjects(t) = {f[i] : i \in 0..(a + 1 - 1)}
    BY <1>7 DEF ReadyObjects
  <2> QED
    BY <1>5, <2>1, <2>4, <2>5
<1> QED
  BY <1>1, <1>2, <1>3, <1>6, <1>7

Stored(t, r, o) ==
  t.available = r.available /\ t.slots = [r.slots EXCEPT ![r.available] = o]

\* A slot behind the ready objects is filled.
LEMMA ReadyStored ==
  ASSUME NEW r, SlotsOK(r), r.available < SLAB_CPU_CACHE_SIZE, NEW o, NEW t, Stored(t, r, o)
  PROVE  SlotsOK(t) /\ ReadyObjects(t) = ReadyObjects(r) /\ t.slots[t.available] = o
<1>1. PICK m \in Nat \ {0} : m = SLAB_CPU_CACHE_SIZE
  BY SlabAssumption
<1>2. PICK a \in 0..m : a = r.available
  BY <1>1 DEF SlotsOK
<1>3. PICK f : f = r.slots
  OBVIOUS
<1>4. PICK h : h = t.slots
  OBVIOUS
<1>5. DOMAIN f = 0..(m - 1) /\ (\A i, j \in 0..(a - 1) : f[i] = f[j] => i = j) /\ a < m
  BY <1>1, <1>2, <1>3 DEF SlotsOK
<1>6. h = [f EXCEPT ![a] = o] /\ t.available = a
  BY <1>2, <1>3, <1>4 DEF Stored
<1>7. DOMAIN h = 0..(m - 1) /\ h[a] = o /\ \A i \in 0..(a - 1) : h[i] = f[i]
  BY <1>5, <1>6
<1>8. \A i, j \in 0..(a - 1) : h[i] = h[j] => i = j
  BY <1>5, <1>7
<1>9. SlotsOK(t)
  BY <1>1, <1>4, <1>6, <1>7, <1>8 DEF SlotsOK
<1>10. ReadyObjects(t) = {h[i] : i \in 0..(a - 1)} /\ ReadyObjects(r) = {f[i] : i \in 0..(a - 1)}
  BY <1>2, <1>3, <1>4, <1>6 DEF ReadyObjects
<1>11. {h[i] : i \in 0..(a - 1)} = {f[i] : i \in 0..(a - 1)}
  BY <1>7
<1>12. t.slots[t.available] = o
  BY <1>4, <1>6, <1>7
<1> QED
  BY <1>9, <1>10, <1>11, <1>12

\* The objects of a cache are where its slabs are.
LEMMA SameSlabsObjects ==
  ASSUME NEW r, NEW t, SameSlabs(t, r), NEW sl
  PROVE  /\ ListPages(t) = ListPages(r) /\ AllObjects(t, sl) = AllObjects(r, sl)
         /\ FreeObjects(t, sl) = FreeObjects(r, sl) /\ (FreeOK(r, sl) => FreeOK(t, sl))
<1>1. ListPages(t) = ListPages(r) /\ \A b : ObjectsIn(t, b) = ObjectsIn(r, b)
  BY DEF SameSlabs, SameNumbers, ListPages, ObjectsIn
<1>2. AllObjects(t, sl) = AllObjects(r, sl)
  BY <1>1 DEF AllObjects
<1>3. FreeObjects(t, sl) = FreeObjects(r, sl)
  BY <1>1 DEF FreeObjects
<1>4. FreeOK(r, sl) => FreeOK(t, sl)
  BY <1>1 DEF FreeOK
<1> QED
  BY <1>1, <1>2, <1>3, <1>4

\* A step that leaves the slabs alone.
LEMMA CallStep ==
  ASSUME SlabInv, NEW L, NEW l, NEW g, AccountOf(cache, slab, L, l, g),
         NEW k \in DOMAIN cache, NEW t, SameSlabs(t, cache[k]), SlotsOK(t),
         NEW cb, OneChanged(cache, cb, k, t), NEW L2, NEW l2, NEW g2,
         Pairs(L2), CallOK(l2, g2, cb), OnlyOf(L, L2, k), NEW T2, T2 = Transit(l2, g2, cb),
         OnlyOf(Transit(l, g, cache), T2, k),
         Parted(AllObjects(cache[k], slab), ObjectsAmong(L2, k), ObjectsAmong(T2, k),
                ReadyObjects(t), FreeObjects(cache[k], slab))
  PROVE  AccountOf(cb, slab, L2, l2, g2)
<1>1. /\ ListPages(t) = ListPages(cache[k])
      /\ AllObjects(t, slab) = AllObjects(cache[k], slab)
      /\ FreeObjects(t, slab) = FreeObjects(cache[k], slab)
      /\ (FreeOK(cache[k], slab) => FreeOK(t, slab))
  BY SameSlabsObjects
<1>2. FreeOK(cache[k], slab)
  BY DEF AccountOf, Accounted
<1>3. Accounted(k, t, slab, L2, T2)
  BY <1>1, <1>2 DEF Accounted
<1>4. Untouched(slab, slab, ListPages(t))
      /\ ListPages(t) \subseteq ListPages(cache[k]) \cup reclaimable
  BY <1>1 DEF Untouched
<1> QED
  BY <1>3, <1>4, AccountUpdated

\* Where a CPU is after a step.
LEMMA GoneTo ==
  ASSUME SlabInv, NEW c \in CPUs, NEW l, NEW x, Go(c, l, x)
  PROVE  at'[c] = l /\ arg'[c] = x
BY DEF Go, SlabInv, OnCaches

\* What is known of the cache a call is on.
LEMMA OnCall ==
  ASSUME SlabInv, NEW L, NEW l, NEW g, AccountOf(cache, slab, L, l, g), NEW k \in DOMAIN cache
  PROVE  /\ DOMAIN cache[k] = CacheFields /\ CallOK(l, g, cache) /\ Pairs(L)
         /\ SlotsOK(cache[k]) /\ FreeOK(cache[k], slab)
         /\ Parted(AllObjects(cache[k], slab), ObjectsAmong(L, k),
                   ObjectsAmong(Transit(l, g, cache), k), ReadyObjects(cache[k]),
                   FreeObjects(cache[k], slab))
<1>1. Accounted(k, cache[k], slab, L, Transit(l, g, cache))
  BY DEF AccountOf
<1>2. DOMAIN cache[k] = CacheFields
  BY DEF SlabInv, CachesGood, CacheGood, CacheOK
<1> QED
  BY <1>1, <1>2 DEF AccountOf, Accounted, Pairs

\* slab_alloc loads `available'.
LEMMA LoadAccount ==
  ASSUME SlabInv, AccountInv, NEW c \in CPUs, NEW k \in DOMAIN cache, AllocLoad(c, k)
  PROVE  AccountOf(cache', slab', loans'[c], at'[c], arg'[c])
<1>1. AccountOf(cache, slab, loans[c], at[c], arg[c]) /\ at[c] = "idle"
  BY DEF AccountInv, AllocLoad
<1>2. cache' = cache /\ slab' = slab /\ loans' = loans
  BY DEF AllocLoad, slabLists
<1>3. PICK x : x = <<k, cache[k].available>>
  OBVIOUS
<1>4. PICK y : y = <<k>>
  OBVIOUS
<1>5. \/ cache[k].available > 0 /\ Go(c, "alloc_store", x)
      \/ Go(c, "alloc_slow", y)
  BY <1>3, <1>4 DEF AllocLoad
<1>6. \/ cache[k].available > 0 /\ at'[c] = "alloc_store" /\ arg'[c] = x
      \/ at'[c] = "alloc_slow" /\ arg'[c] = y
  BY <1>5, GoneTo
<1>7. PICK l2 : l2 = at'[c]
  OBVIOUS
<1>8. PICK g2 : g2 = arg'[c]
  OBVIOUS
<1>9. x[1] = k /\ x[2] = cache[k].available
  BY <1>3
<1>10. CallOK(l2, g2, cache)
  BY <1>6, <1>7, <1>8, <1>9 DEF CallOK
<1>11. Transit(l2, g2, cache) = {} /\ Transit(at[c], arg[c], cache) = {}
  BY <1>1, <1>6, <1>7 DEF Transit
<1>12. AccountOf(cache, slab, loans[c], l2, g2)
  BY <1>1, <1>10, <1>11 DEF AccountOf
<1> QED
  BY <1>2, <1>7, <1>8, <1>12

\* slab_alloc takes the last ready object.
LEMMA AllocStoreAccount ==
  ASSUME SlabInv, AccountInv, NEW c \in CPUs, AllocStore(c)
  PROVE  AccountOf(cache', slab', loans'[c], at'[c], arg'[c])
<1>1. PICK g : g = arg[c]
  OBVIOUS
<1>2. PICK k : k = g[1]
  OBVIOUS
<1>3. PICK L : L = loans[c]
  OBVIOUS
<1>4. at[c] = "alloc_store" /\ slab' = slab /\ loans' = loans /\ Go(c, "alloc_read", g)
      /\ cache' = [cache EXCEPT ![k].available = g[2] - 1]
  BY <1>1, <1>2 DEF AllocStore, slabLists
<1>5. k \in DOMAIN cache /\ AccountOf(cache, slab, L, "alloc_store", g)
  BY <1>1, <1>2, <1>3, <1>4 DEF AccountInv, SlabInv, OnCaches
<1>6. PICK r : r = cache[k]
  OBVIOUS
<1>7. PICK T : T = Transit("alloc_store", g, cache)
  OBVIOUS
<1>8. /\ DOMAIN r = CacheFields /\ CallOK("alloc_store", g, cache) /\ Pairs(L)
      /\ SlotsOK(r) /\ FreeOK(r, slab)
      /\ Parted(AllObjects(r, slab), ObjectsAmong(L, k), ObjectsAmong(T, k), ReadyObjects(r),
                FreeObjects(r, slab))
  BY <1>5, <1>6, <1>7, OnCall
<1>9. r.available > 0 /\ g[2] = r.available
  BY <1>2, <1>6, <1>8 DEF CallOK
<1>10. PICK t : t = [r EXCEPT !.available = r.available - 1]
  OBVIOUS
<1>11. PICK cb : cb = cache'
  OBVIOUS
<1>12. cb = [cache EXCEPT ![k] = t]
  BY <1>4, <1>6, <1>9, <1>10, <1>11
<1>13. OneChanged(cache, cb, k, t)
  BY <1>5, <1>12 DEF OneChanged
<1>14. SameSlabs(t, r) /\ t.slots = r.slots /\ t.available = r.available - 1
  BY <1>8, <1>10 DEF SameSlabs, SameNumbers, CacheFields
<1>15. PICK o : o = r.slots[r.available - 1]
  OBVIOUS
<1>16. SlotsOK(t) /\ o \in ReadyObjects(r) /\ ReadyObjects(t) = ReadyObjects(r) \ {o}
  BY <1>8, <1>9, <1>14, <1>15, ReadyMoves
<1>17. PICK T2 : T2 = Transit("alloc_read", g, cb)
  OBVIOUS
<1>18. T = {} /\ T2 = {<<k, o>>}
  BY <1>2, <1>7, <1>9, <1>13, <1>14, <1>15, <1>17 DEF Transit, OneChanged
<1>19. /\ ObjectsAmong(T, k) = {} /\ ObjectsAmong(T2, k) = {o} /\ OnlyOf(T, T2, k)
       /\ OnlyOf(L, L, k)
  <2>1. /\ ObjectsAmong(T, k) = {} /\ ObjectsAmong(T2, k) = {o}
        /\ OnlyOf(T, T2, k) /\ OnlyOf(T2, T, k)
    BY <1>18, OneInTransit
  <2>2. OnlyOf(L, L, k)
    BY DEF OnlyOf
  <2> QED
    BY <2>1, <2>2
<1>20. Parted(AllObjects(r, slab), ObjectsAmong(L, k), {o}, ReadyObjects(t),
              FreeObjects(r, slab))
  BY <1>8, <1>16, <1>19 DEF Parted
<1>21. r.available \in Nat
  BY <1>8, SlabAssumption DEF SlotsOK
<1>22. CallOK("alloc_read", g, cb)
  BY <1>2, <1>9, <1>13, <1>14, <1>21 DEF CallOK, OneChanged
<1>23. AccountOf(cb, slab, L, "alloc_read", g)
  BY <1>5, <1>6, <1>7, <1>8, <1>13, <1>14, <1>16, <1>17, <1>19, <1>20, <1>22, CallStep
<1>24. at'[c] = "alloc_read" /\ arg'[c] = g
  BY <1>4, GoneTo
<1> QED
  BY <1>3, <1>4, <1>11, <1>23, <1>24

\* slab_alloc hands it over.
LEMMA AllocReadAccount ==
  ASSUME SlabInv, AccountInv, NEW c \in CPUs, AllocRead(c)
  PROVE  AccountOf(cache', slab', loans'[c], at'[c], arg'[c])
<1>1. PICK g : g = arg[c]
  OBVIOUS
<1>2. PICK k : k = g[1]
  OBVIOUS
<1>3. PICK L : L = loans[c]
  OBVIOUS
<1>4. PICK o : o = cache[k].slots[g[2] - 1]
  OBVIOUS
<1>5. PICK L2 : L2 = L \cup {<<k, o>>}
  OBVIOUS
<1>6. at[c] = "alloc_read" /\ slab' = slab /\ cache' = cache /\ Go(c, "idle", <<>>)
      /\ loans' = [loans EXCEPT ![c] = @ \cup {<<k, o>>}]
  BY <1>1, <1>2, <1>4 DEF AllocRead, slabLists
<1>7. k \in DOMAIN cache /\ AccountOf(cache, slab, L, "alloc_read", g) /\ loans'[c] = L2
  BY <1>1, <1>2, <1>3, <1>5, <1>6 DEF AccountInv, SlabInv, OnCaches, LoansOK
<1>8. PICK r : r = cache[k]
  OBVIOUS
<1>9. PICK T : T = Transit("alloc_read", g, cache)
  OBVIOUS
<1>10. /\ DOMAIN r = CacheFields /\ CallOK("alloc_read", g, cache) /\ Pairs(L)
       /\ SlotsOK(r) /\ FreeOK(r, slab)
       /\ Parted(AllObjects(r, slab), ObjectsAmong(L, k), ObjectsAmong(T, k), ReadyObjects(r),
                 FreeObjects(r, slab))
  BY <1>7, <1>8, <1>9, OnCall
<1>11. OneChanged(cache, cache, k, r) /\ SameSlabs(r, r)
  BY <1>7, <1>8, <1>10 DEF OneChanged, SameSlabs, SameNumbers
<1>12. PICK x : x = <<>>
  OBVIOUS
<1>13. PICK T2 : T2 = Transit("idle", x, cache)
  OBVIOUS
<1>14. T = {<<k, o>>} /\ T2 = {}
  BY <1>2, <1>4, <1>9, <1>13 DEF Transit
<1>15. /\ ObjectsAmong(T, k) = {o} /\ ObjectsAmong(T2, k) = {} /\ OnlyOf(T, T2, k)
       /\ OnlyOf(L, L2, k) /\ Pairs(L2) /\ ObjectsAmong(L2, k) = ObjectsAmong(L, k) \cup {o}
  <2>1. /\ ObjectsAmong(T2, k) = {} /\ ObjectsAmong(T, k) = {o}
        /\ OnlyOf(T2, T, k) /\ OnlyOf(T, T2, k)
    BY <1>14, OneInTransit
  <2>2. Pairs(L) /\ Given(L, L2, k, o)
    BY <1>5, <1>10 DEF Given
  <2>3. Pairs(L2) /\ OnlyOf(L, L2, k) /\ ObjectsAmong(L2, k) = ObjectsAmong(L, k) \cup {o}
    BY <2>2, LoanGiven
  <2> QED
    BY <2>1, <2>3
<1>16. Parted(AllObjects(r, slab), ObjectsAmong(L2, k), {}, ReadyObjects(r), FreeObjects(r, slab))
  BY <1>10, <1>15 DEF Parted
<1>17. CallOK("idle", x, cache)
  BY DEF CallOK
<1>18. AccountOf(cache, slab, L2, "idle", x)
  BY <1>7, <1>8, <1>9, <1>10, <1>11, <1>13, <1>15, <1>16, <1>17, CallStep
<1>19. at'[c] = "idle" /\ arg'[c] = x
  BY <1>6, <1>12, GoneTo
<1> QED
  BY <1>6, <1>7, <1>18, <1>19

\* slab_free gets an object and loads `available'.
LEMMA FreeLoadAccount ==
  ASSUME SlabInv, AccountInv, NEW c \in CPUs, NEW w \in loans[c], FreeLoad(c, w[1], w[2])
  PROVE  AccountOf(cache', slab', loans'[c], at'[c], arg'[c])
<1>1. PICK k : k = w[1]
  OBVIOUS
<1>2. PICK o : o = w[2]
  OBVIOUS
<1>3. PICK L : L = loans[c]
  OBVIOUS
<1>4. PICK L2 : L2 = L \ {<<k, o>>}
  OBVIOUS
<1>5. PICK x : x = <<k, o, cache[k].available>>
  OBVIOUS
<1>6. PICK l2 : l2 = IF ~Room(k) THEN "free_slow"
                     ELSE IF cache[k].objects = NULL THEN "free_array" ELSE "free_store"
  OBVIOUS
<1>7. /\ at[c] = "idle" /\ slab' = slab /\ cache' = cache /\ Go(c, l2, x)
      /\ loans' = [loans EXCEPT ![c] = @ \ {<<k, o>>}] /\ <<k, o>> \in L
  BY <1>1, <1>2, <1>3, <1>5, <1>6 DEF FreeLoad, slabLists
<1>8. k \in DOMAIN cache /\ AccountOf(cache, slab, L, "idle", arg[c]) /\ loans'[c] = L2
  BY <1>1, <1>3, <1>4, <1>7 DEF AccountInv, SlabInv, LoansOK
<1>9. PICK r : r = cache[k]
  OBVIOUS
<1>10. PICK T : T = Transit("idle", arg[c], cache)
  OBVIOUS
<1>11. /\ DOMAIN r = CacheFields /\ CallOK("idle", arg[c], cache) /\ Pairs(L)
       /\ SlotsOK(r) /\ FreeOK(r, slab)
       /\ Parted(AllObjects(r, slab), ObjectsAmong(L, k), ObjectsAmong(T, k), ReadyObjects(r),
                 FreeObjects(r, slab))
  BY <1>8, <1>9, <1>10, OnCall
<1>12. OneChanged(cache, cache, k, r) /\ SameSlabs(r, r)
  BY <1>8, <1>9, <1>11 DEF OneChanged, SameSlabs, SameNumbers
<1>13. PICK T2 : T2 = Transit(l2, x, cache)
  OBVIOUS
<1>14. T = {} /\ T2 = {<<k, o>>}
  BY <1>5, <1>6, <1>10, <1>13 DEF Transit
<1>15. /\ ObjectsAmong(T, k) = {} /\ ObjectsAmong(T2, k) = {o} /\ OnlyOf(T, T2, k)
       /\ OnlyOf(L, L2, k) /\ Pairs(L2) /\ ObjectsAmong(L2, k) = ObjectsAmong(L, k) \ {o}
       /\ o \in ObjectsAmong(L, k)
  <2>1. /\ ObjectsAmong(T, k) = {} /\ ObjectsAmong(T2, k) = {o}
        /\ OnlyOf(T, T2, k) /\ OnlyOf(T2, T, k)
    BY <1>14, OneInTransit
  <2>2. Pairs(L) /\ Returned(L, L2, k, o)
    BY <1>4, <1>7, <1>11 DEF Returned
  <2>3. /\ Pairs(L2) /\ OnlyOf(L, L2, k) /\ o \in ObjectsAmong(L, k)
        /\ ObjectsAmong(L2, k) = ObjectsAmong(L, k) \ {o}
    BY <2>2, LoanBack
  <2> QED
    BY <2>1, <2>3
<1>16. Parted(AllObjects(r, slab), ObjectsAmong(L2, k), {o}, ReadyObjects(r), FreeObjects(r, slab))
  BY <1>11, <1>15 DEF Parted
<1>17. x[1] = k /\ x[3] = r.available
  BY <1>5, <1>9
<1>18. l2 = "free_slow" \/ (l2 \in {"free_array", "free_store"} /\ r.available < SLAB_CPU_CACHE_SIZE)
  BY <1>6, <1>9 DEF Room
<1>19. CallOK(l2, x, cache)
  BY <1>9, <1>17, <1>18 DEF CallOK
<1>20. AccountOf(cache, slab, L2, l2, x)
  BY <1>8, <1>9, <1>10, <1>11, <1>12, <1>13, <1>15, <1>16, <1>19, CallStep
<1>21. at'[c] = l2 /\ arg'[c] = x
  BY <1>7, GoneTo
<1> QED
  BY <1>7, <1>8, <1>20, <1>21

\* slab_free gets an array for the slots, or none.
LEMMA FreeArrayAccount ==
  ASSUME SlabInv, AccountInv, NEW c \in CPUs, FreeArray(c)
  PROVE  AccountOf(cache', slab', loans'[c], at'[c], arg'[c])
<1>1. PICK g : g = arg[c]
  OBVIOUS
<1>2. PICK k : k = g[1]
  OBVIOUS
<1>3. PICK L : L = loans[c]
  OBVIOUS
<1>4. PICK r : r = cache[k]
  OBVIOUS
<1>5. PICK x : x = <<k, g[2], r.available>>
  OBVIOUS
<1>6. at[c] = "free_array" /\ slab' = slab /\ loans' = loans
  BY DEF FreeArray, slabLists
<1>7. \E l2 \in {"free_store", "free_slow"} :
        /\ Go(c, l2, x)
        /\ cache' = cache \/ \E p : cache' = [cache EXCEPT ![k].objects = p]
  BY <1>1, <1>2, <1>4, <1>5 DEF FreeArray
<1>8. PICK l2 \in {"free_store", "free_slow"} :
        /\ Go(c, l2, x)
        /\ cache' = cache \/ \E p : cache' = [cache EXCEPT ![k].objects = p]
  BY <1>7
<1>9. k \in DOMAIN cache /\ AccountOf(cache, slab, L, "free_array", g)
  BY <1>1, <1>2, <1>3, <1>6 DEF AccountInv, SlabInv, OnCaches
<1>10. PICK T : T = Transit("free_array", g, cache)
  OBVIOUS
<1>11. /\ DOMAIN r = CacheFields /\ CallOK("free_array", g, cache) /\ Pairs(L)
       /\ SlotsOK(r) /\ FreeOK(r, slab)
       /\ Parted(AllObjects(r, slab), ObjectsAmong(L, k), ObjectsAmong(T, k), ReadyObjects(r),
                 FreeObjects(r, slab))
  BY <1>4, <1>9, <1>10, OnCall
<1>12. g[3] = r.available /\ r.available < SLAB_CPU_CACHE_SIZE
  BY <1>2, <1>4, <1>11 DEF CallOK
<1>13. PICK cb : cb = cache'
  OBVIOUS
<1>14. \E t : /\ OneChanged(cache, cb, k, t) /\ SameSlabs(t, r)
              /\ t.slots = r.slots /\ t.available = r.available
  <2>1. CASE cb = cache
    <3>1. OneChanged(cache, cb, k, r) /\ SameSlabs(r, r)
      BY <1>4, <1>9, <1>11, <2>1 DEF OneChanged, SameSlabs, SameNumbers
    <3> QED
      BY <3>1
  <2>2. ASSUME NEW p, cb = [cache EXCEPT ![k].objects = p]
        PROVE  \E t : /\ OneChanged(cache, cb, k, t) /\ SameSlabs(t, r)
                      /\ t.slots = r.slots /\ t.available = r.available
    <3>1. PICK t : t = [r EXCEPT !.objects = p]
      OBVIOUS
    <3>2. OneChanged(cache, cb, k, t)
      BY <1>4, <1>9, <2>2, <3>1 DEF OneChanged
    <3>3. SameSlabs(t, r) /\ t.slots = r.slots /\ t.available = r.available
      BY <1>11, <3>1 DEF SameSlabs, SameNumbers, CacheFields
    <3> QED
      BY <3>2, <3>3
  <2> QED
    BY <1>8, <1>13, <2>1, <2>2
<1>15. PICK t : /\ OneChanged(cache, cb, k, t) /\ SameSlabs(t, r)
                /\ t.slots = r.slots /\ t.available = r.available
  BY <1>14
<1>16. SlotsOK(t) /\ ReadyObjects(t) = ReadyObjects(r)
  BY <1>11, <1>15 DEF SlotsOK, ReadyObjects
<1>17. PICK T2 : T2 = Transit(l2, x, cb)
  OBVIOUS
<1>18. x[1] = k /\ x[2] = g[2] /\ x[3] = r.available
  BY <1>5
<1>19. T2 = T
  BY <1>2, <1>8, <1>10, <1>17, <1>18 DEF Transit
<1>20. OnlyOf(L, L, k) /\ OnlyOf(T, T2, k)
  BY <1>19 DEF OnlyOf
<1>21. CallOK(l2, x, cb)
  BY <1>8, <1>12, <1>15, <1>18 DEF CallOK, OneChanged
<1>22. Parted(AllObjects(r, slab), ObjectsAmong(L, k), ObjectsAmong(T2, k), ReadyObjects(t),
              FreeObjects(r, slab))
  BY <1>11, <1>16, <1>19
<1>23. AccountOf(cb, slab, L, l2, x)
  BY <1>4, <1>9, <1>10, <1>11, <1>15, <1>16, <1>17, <1>20, <1>21, <1>22, CallStep
<1>24. at'[c] = l2 /\ arg'[c] = x
  BY <1>8, GoneTo
<1> QED
  BY <1>3, <1>6, <1>13, <1>23, <1>24

\* slab_free puts the object behind the ready ones.
LEMMA FreeStoreAccount ==
  ASSUME SlabInv, AccountInv, NEW c \in CPUs, FreeStore(c)
  PROVE  AccountOf(cache', slab', loans'[c], at'[c], arg'[c])
<1>1. PICK g : g = arg[c]
  OBVIOUS
<1>2. PICK k : k = g[1]
  OBVIOUS
<1>3. PICK L : L = loans[c]
  OBVIOUS
<1>4. PICK r : r = cache[k]
  OBVIOUS
<1>5. /\ at[c] = "free_store" /\ slab' = slab /\ loans' = loans /\ Go(c, "free_count", g)
      /\ cache' = [cache EXCEPT ![k].slots[g[3]] = g[2]]
  BY <1>1, <1>2 DEF FreeStore, slabLists
<1>6. k \in DOMAIN cache /\ AccountOf(cache, slab, L, "free_store", g)
  BY <1>1, <1>2, <1>3, <1>5 DEF AccountInv, SlabInv, OnCaches
<1>7. PICK T : T = Transit("free_store", g, cache)
  OBVIOUS
<1>8. /\ DOMAIN r = CacheFields /\ CallOK("free_store", g, cache) /\ Pairs(L)
      /\ SlotsOK(r) /\ FreeOK(r, slab)
      /\ Parted(AllObjects(r, slab), ObjectsAmong(L, k), ObjectsAmong(T, k), ReadyObjects(r),
                FreeObjects(r, slab))
  BY <1>4, <1>6, <1>7, OnCall
<1>9. g[3] = r.available /\ r.available < SLAB_CPU_CACHE_SIZE
  BY <1>2, <1>4, <1>8 DEF CallOK
<1>10. PICK t : t = [r EXCEPT !.slots = [r.slots EXCEPT ![r.available] = g[2]]]
  OBVIOUS
<1>11. PICK cb : cb = cache'
  OBVIOUS
<1>12. cb = [cache EXCEPT ![k] = t]
  BY <1>4, <1>5, <1>9, <1>10, <1>11
<1>13. OneChanged(cache, cb, k, t)
  BY <1>6, <1>12 DEF OneChanged
<1>14. SameSlabs(t, r) /\ Stored(t, r, g[2]) /\ t.available = r.available
  BY <1>8, <1>10 DEF SameSlabs, SameNumbers, CacheFields, Stored
<1>15. SlotsOK(t) /\ ReadyObjects(t) = ReadyObjects(r) /\ t.slots[t.available] = g[2]
  BY <1>8, <1>9, <1>14, ReadyStored
<1>16. PICK T2 : T2 = Transit("free_count", g, cb)
  OBVIOUS
<1>17. T2 = T
  BY <1>7, <1>16 DEF Transit
<1>18. OnlyOf(L, L, k) /\ OnlyOf(T, T2, k)
  BY <1>17 DEF OnlyOf
<1>19. CallOK("free_count", g, cb)
  BY <1>2, <1>9, <1>13, <1>14, <1>15 DEF CallOK, OneChanged
<1>20. Parted(AllObjects(r, slab), ObjectsAmong(L, k), ObjectsAmong(T2, k), ReadyObjects(t),
              FreeObjects(r, slab))
  BY <1>8, <1>15, <1>17
<1>21. AccountOf(cb, slab, L, "free_count", g)
  BY <1>4, <1>6, <1>7, <1>8, <1>13, <1>14, <1>15, <1>16, <1>18, <1>19, <1>20, CallStep
<1>22. at'[c] = "free_count" /\ arg'[c] = g
  BY <1>5, GoneTo
<1> QED
  BY <1>3, <1>5, <1>11, <1>21, <1>22

\* slab_free counts it.
LEMMA FreeCountAccount ==
  ASSUME SlabInv, AccountInv, NEW c \in CPUs, FreeCount(c)
  PROVE  AccountOf(cache', slab', loans'[c], at'[c], arg'[c])
<1>1. PICK g : g = arg[c]
  OBVIOUS
<1>2. PICK k : k = g[1]
  OBVIOUS
<1>3. PICK L : L = loans[c]
  OBVIOUS
<1>4. PICK r : r = cache[k]
  OBVIOUS
<1>5. PICK x : x = <<>>
  OBVIOUS
<1>6. /\ at[c] = "free_count" /\ slab' = slab /\ loans' = loans /\ Go(c, "idle", x)
      /\ cache' = [cache EXCEPT ![k].available = g[3] + 1]
  BY <1>1, <1>2, <1>5 DEF FreeCount, slabLists
<1>7. k \in DOMAIN cache /\ AccountOf(cache, slab, L, "free_count", g)
  BY <1>1, <1>2, <1>3, <1>6 DEF AccountInv, SlabInv, OnCaches
<1>8. PICK T : T = Transit("free_count", g, cache)
  OBVIOUS
<1>9. /\ DOMAIN r = CacheFields /\ CallOK("free_count", g, cache) /\ Pairs(L)
      /\ SlotsOK(r) /\ FreeOK(r, slab)
      /\ Parted(AllObjects(r, slab), ObjectsAmong(L, k), ObjectsAmong(T, k), ReadyObjects(r),
                FreeObjects(r, slab))
  BY <1>4, <1>7, <1>8, OnCall
<1>10. PICK o : o = g[2]
  OBVIOUS
<1>11. /\ g[3] = r.available /\ r.available < SLAB_CPU_CACHE_SIZE
       /\ r.slots[r.available] = o
  BY <1>2, <1>4, <1>9, <1>10 DEF CallOK
<1>12. PICK t : t = [r EXCEPT !.available = r.available + 1]
  OBVIOUS
<1>13. PICK cb : cb = cache'
  OBVIOUS
<1>14. cb = [cache EXCEPT ![k] = t]
  BY <1>4, <1>6, <1>11, <1>12, <1>13
<1>15. OneChanged(cache, cb, k, t)
  BY <1>7, <1>14 DEF OneChanged
<1>16. SameSlabs(t, r) /\ t.slots = r.slots /\ t.available = r.available + 1
  BY <1>9, <1>12 DEF SameSlabs, SameNumbers, CacheFields
<1>17. PICK T2 : T2 = Transit("idle", x, cb)
  OBVIOUS
<1>18. T2 = {} /\ T = {<<k, o>>}
  BY <1>2, <1>8, <1>10, <1>17 DEF Transit
<1>19. /\ ObjectsAmong(T2, k) = {} /\ ObjectsAmong(T, k) = {o}
       /\ OnlyOf(T2, T, k) /\ OnlyOf(T, T2, k)
  BY <1>18, OneInTransit
<1>20. OnlyOf(L, L, k)
  BY DEF OnlyOf
<1>21. o \notin ReadyObjects(r)
  BY <1>9, <1>19 DEF Parted
<1>22. SlotsOK(t) /\ ReadyObjects(t) = ReadyObjects(r) \cup {o}
  BY <1>9, <1>11, <1>16, <1>21, ReadyMoves
<1>23. Parted(AllObjects(r, slab), ObjectsAmong(L, k), ObjectsAmong(T2, k), ReadyObjects(t),
              FreeObjects(r, slab))
  BY <1>9, <1>19, <1>22 DEF Parted
<1>24. CallOK("idle", x, cb)
  BY DEF CallOK
<1>25. AccountOf(cb, slab, L, "idle", x)
  BY <1>4, <1>7, <1>8, <1>9, <1>15, <1>16, <1>17, <1>19, <1>20, <1>22, <1>23, <1>24, CallStep
<1>26. at'[c] = "idle" /\ arg'[c] = x
  BY <1>6, GoneTo
<1> QED
  BY <1>3, <1>6, <1>13, <1>25, <1>26

\* An object tells its slab.
LEMMA ObjectTells ==
  ASSUME FormatsFit, NEW r, CacheGood(r), NEW sl, Headed(r, sl), NEW s \in ListPages(r),
         NEW o \in ObjectsIn(r, sl[s])
  PROVE  o \div BUDDY_PAGE_SIZE = s /\ s \in Nat
<1>1. CacheOK(r)
  BY DEF CacheGood
<1>2. s \in Nat /\ Placed(r, s, sl[s])
  BY <1>1, ListPagesNat DEF Headed
<1>3. PICK b : b = sl[s]
  OBVIOUS
<1> QED
  BY <1>2, <1>3, ObjectPlaced

\* The slabs of t are those of r, and a slab other than s is as it was.
SameOthers(t, r, sl, sb, s) ==
  /\ ListPages(t) = ListPages(r) /\ SameNumbers(t, r) /\ s \in ListPages(r)
  /\ SameBut(sl, sb, ListPages(r), s) /\ sb[s].base = sl[s].base

\* All objects of the cache are where they were.
LEMMA SamePlaces ==
  ASSUME NEW r, NEW t, NEW sl, NEW sb, NEW s, SameOthers(t, r, sl, sb, s)
  PROVE  /\ AllObjects(t, sb) = AllObjects(r, sl)
         /\ \A x \in ListPages(r) : ObjectsIn(t, sb[x]) = ObjectsIn(r, sl[x])
<1>1. \A x \in ListPages(r) : sb[x].base = sl[x].base
  BY DEF SameOthers, SameBut
<1>2. t.object_size = r.object_size /\ t.objects_per_slab = r.objects_per_slab
  BY DEF SameOthers, SameNumbers
<1>3. \A x \in ListPages(r) : ObjectsIn(t, sb[x]) = ObjectsIn(r, sl[x])
  BY <1>1, <1>2 DEF ObjectsIn
<1>4. AllObjects(t, sb) = AllObjects(r, sl)
  <2>1. ListPages(t) = ListPages(r)
    BY DEF SameOthers
  <2> QED
    BY <1>3, <2>1 DEF AllObjects
<1> QED
  BY <1>3, <1>4

\* The first object of the free list of slab s is lent.
LEMMA FreeListLends ==
  ASSUME FormatsFit, NEW r, CacheGood(r), NEW sl, Headed(r, sl), FreeOK(r, sl),
         NEW t, NEW sb, NEW s, SameOthers(t, r, sl, sb, s),
         sl[s].free_list \in Seq(Range(sl[s].free_list)), sl[s].free_list # <<>>,
         sb[s].free_list = Tail(sl[s].free_list)
  PROVE  LET o == Head(sl[s].free_list) IN
         /\ FreeOK(t, sb) /\ o \in FreeObjects(r, sl)
         /\ FreeObjects(t, sb) = FreeObjects(r, sl) \ {o}
<1>1. PICK f : f = sl[s].free_list
  OBVIOUS
<1>2. PICK S : S = Range(f)
  OBVIOUS
<1>3. PICK o : o = Head(f)
  OBVIOUS
<1>4. f \in Seq(S) /\ f # <<>> /\ sb[s].free_list = Tail(f) /\ s \in ListPages(r)
      /\ ListPages(t) = ListPages(r)
  BY <1>1, <1>2 DEF SameOthers
<1>5. /\ Head(f) \in S /\ Head(f) \in Range(f) /\ Tail(f) \in Seq(S)
      /\ Len(Tail(f)) = Len(f) - 1 /\ Len(f) \in Nat \ {0}
      /\ Range(f) = Range(Tail(f)) \cup {Head(f)}
      /\ IsInjective(f) => IsInjective(Tail(f)) /\ Head(f) \notin Range(Tail(f))
  BY <1>4, Popped
<1>6. IsInjective(f) /\ Range(f) \subseteq ObjectsIn(r, sl[s])
  BY <1>1, <1>4 DEF FreeOK
<1>7. IsInjective(sb[s].free_list) /\ Range(sb[s].free_list) = Range(f) \ {o} /\ o \in Range(f)
  BY <1>3, <1>4, <1>5, <1>6
<1>8. \A x \in ListPages(r) : x # s => sb[x] = sl[x]
  BY DEF SameOthers, SameBut
<1>9. \A x \in ListPages(r) : ObjectsIn(t, sb[x]) = ObjectsIn(r, sl[x])
  BY SamePlaces
<1>10. ASSUME NEW x \in ListPages(r)
       PROVE  IsInjective(sb[x].free_list) /\ Range(sb[x].free_list) \subseteq ObjectsIn(t, sb[x])
  <2>1. CASE x = s
    BY <1>4, <1>6, <1>7, <1>9, <2>1
  <2>2. CASE x # s
    BY <1>8, <1>9, <2>2 DEF FreeOK
  <2> QED
    BY <2>1, <2>2
<1>11. FreeOK(t, sb)
  BY <1>4, <1>10 DEF FreeOK
<1>12. o \in FreeObjects(r, sl)
  BY <1>1, <1>4, <1>7 DEF FreeObjects
<1>13. ASSUME NEW x \in ListPages(r), x # s PROVE o \notin Range(sl[x].free_list)
  <2>1. SUFFICES ASSUME o \in Range(sl[x].free_list) PROVE FALSE
    OBVIOUS
  <2>2. o \in ObjectsIn(r, sl[x]) /\ o \in ObjectsIn(r, sl[s])
    BY <1>6, <1>7, <2>1 DEF FreeOK
  <2>3. o \div BUDDY_PAGE_SIZE = x
    BY <2>2, ObjectTells
  <2>4. o \div BUDDY_PAGE_SIZE = s
    BY <1>4, <2>2, ObjectTells
  <2> QED
    BY <1>13, <2>3, <2>4
<1>14. \A x \in ListPages(r) : Range(sb[x].free_list) = Range(sl[x].free_list) \ {o}
  BY <1>1, <1>7, <1>8, <1>13
<1>15. FreeObjects(t, sb) = FreeObjects(r, sl) \ {o}
  <2>1. ASSUME NEW y \in FreeObjects(t, sb) PROVE y \in FreeObjects(r, sl) \ {o}
    <3>1. PICK x \in ListPages(r) : y \in Range(sb[x].free_list)
      BY <1>4 DEF FreeObjects
    <3>2. y \in Range(sl[x].free_list) /\ y # o
      BY <1>14, <3>1
    <3> QED
      BY <3>2 DEF FreeObjects
  <2>2. FreeObjects(r, sl) \ {o} \subseteq FreeObjects(t, sb)
    BY <1>4, <1>14 DEF FreeObjects
  <2> QED
    BY <2>1, <2>2
<1> QED
  BY <1>1, <1>3, <1>11, <1>12, <1>15

\* Object o of slab s goes back to the free list.
LEMMA FreeListTakes ==
  ASSUME NEW r, NEW sl, FreeOK(r, sl),
         NEW t, NEW sb, NEW s, SameOthers(t, r, sl, sb, s),
         sl[s].free_list \in Seq(Range(sl[s].free_list)),
         NEW o \in ObjectsIn(r, sl[s]), o \notin FreeObjects(r, sl),
         sb[s].free_list = Push(o, sl[s].free_list)
  PROVE  FreeOK(t, sb) /\ FreeObjects(t, sb) = FreeObjects(r, sl) \cup {o}
<1>1. PICK f : f = sl[s].free_list
  OBVIOUS
<1>2. PICK S : S = Range(f) \cup {o}
  OBVIOUS
<1>3. f \in Seq(S) /\ sb[s].free_list = Push(o, f) /\ s \in ListPages(r)
      /\ ListPages(t) = ListPages(r) /\ o \in S
  <2>1. Len(f) \in Nat /\ f \in [1..Len(f) -> Range(f)]
    BY <1>1
  <2>2. f \in [1..Len(f) -> S]
    BY <1>2, <2>1
  <2>3. f \in Seq(S)
    BY <2>1, <2>2
  <2> QED
    BY <1>1, <1>2, <2>3 DEF SameOthers
<1>4. /\ Push(o, f) \in Seq(S) /\ Len(Push(o, f)) = Len(f) + 1
      /\ Range(Push(o, f)) = Range(f) \cup {o}
      /\ IsInjective(f) /\ o \notin Range(f) => IsInjective(Push(o, f))
  BY <1>3, Pushed
<1>5. IsInjective(f) /\ Range(f) \subseteq ObjectsIn(r, sl[s])
  BY <1>1, <1>3 DEF FreeOK
<1>6. o \notin Range(f)
  BY <1>1, <1>3 DEF FreeObjects
<1>7. IsInjective(sb[s].free_list) /\ Range(sb[s].free_list) = Range(f) \cup {o}
  BY <1>3, <1>4, <1>5, <1>6
<1>8. \A x \in ListPages(r) : x # s => sb[x] = sl[x]
  BY DEF SameOthers, SameBut
<1>9. \A x \in ListPages(r) : ObjectsIn(t, sb[x]) = ObjectsIn(r, sl[x])
  BY SamePlaces
<1>10. ASSUME NEW x \in ListPages(r)
       PROVE  IsInjective(sb[x].free_list) /\ Range(sb[x].free_list) \subseteq ObjectsIn(t, sb[x])
  <2>1. CASE x = s
    BY <1>3, <1>5, <1>7, <1>9, <2>1
  <2>2. CASE x # s
    BY <1>8, <1>9, <2>2 DEF FreeOK
  <2> QED
    BY <2>1, <2>2
<1>11. FreeOK(t, sb)
  BY <1>3, <1>10 DEF FreeOK
<1>12. FreeObjects(t, sb) = FreeObjects(r, sl) \cup {o}
  <2>1. \A x \in ListPages(r) : x # s => Range(sb[x].free_list) = Range(sl[x].free_list)
    BY <1>8
  <2>2. Range(sb[s].free_list) = Range(sl[s].free_list) \cup {o}
    BY <1>1, <1>7
  <2>3. FreeObjects(t, sb) \subseteq FreeObjects(r, sl) \cup {o}
    BY <1>3, <2>1, <2>2 DEF FreeObjects
  <2>4. FreeObjects(r, sl) \cup {o} \subseteq FreeObjects(t, sb)
    BY <1>3, <2>1, <2>2 DEF FreeObjects
  <2> QED
    BY <2>3, <2>4
<1> QED
  BY <1>11, <1>12

\* A cache with the same slabs on other lists.
LEMMA MovedAccount ==
  ASSUME NEW k, NEW r, NEW sl, NEW L, NEW T, Accounted(k, r, sl, L, T),
         NEW t, ListPages(t) = ListPages(r), SameNumbers(t, r),
         t.slots = r.slots, t.available = r.available
  PROVE  Accounted(k, t, sl, L, T)
<1>1. \A b : ObjectsIn(t, b) = ObjectsIn(r, b)
  BY DEF SameNumbers, ObjectsIn
<1>2. AllObjects(t, sl) = AllObjects(r, sl)
  BY <1>1 DEF AllObjects
<1>3. FreeObjects(t, sl) = FreeObjects(r, sl)
  BY DEF FreeObjects
<1>4. FreeOK(t, sl)
  BY <1>1 DEF FreeOK, Accounted
<1>5. SlotsOK(t) /\ ReadyObjects(t) = ReadyObjects(r)
  BY DEF SlotsOK, ReadyObjects, Accounted
<1> QED
  BY <1>2, <1>3, <1>4, <1>5 DEF Accounted

\* Different multiples of a size.
LEMMA TimesApart ==
  ASSUME NEW z \in Nat \ {0}, NEW i \in Int, NEW j \in Int, i * z = j * z
  PROVE  i = j
<1>1. ASSUME NEW x \in Int, NEW y \in Int, x < y PROVE x * z < y * z
  <2>1. PICK d \in Nat \ {0} : y = x + d
    BY <1>1
  <2>2. y * z = x * z + d * z /\ d * z > 0
    BY <2>1
  <2> QED
    BY <2>2
<1> QED
  BY <1>1

\* The free list of a new slab has all its objects, each once.
LEMMA NewSlabObjects ==
  ASSUME FormatsFit, NEW k \in DOMAIN cache, CacheGood(cache[k]), Slack(k) # 0, NEW p \in Nat
  PROVE  LET b == NewSlab(p, k) IN
         /\ Placed(cache[k], p, b) /\ DOMAIN b = HeaderFields
         /\ IsInjective(b.free_list) /\ Range(b.free_list) = ObjectsIn(cache[k], b)
         /\ b.free_list \in Seq(Range(b.free_list)) /\ b.free_list # <<>>
<1>1. PICK r : r = cache[k]
  OBVIOUS
<1>2. PICK b : b = NewSlab(p, k)
  OBVIOUS
<1>3. PICK n \in Nat \ {0} : n = r.objects_per_slab
  BY <1>1 DEF CacheGood, Format
<1>4. PICK z \in Nat \ {0} : z = r.object_size
  BY <1>1 DEF CacheGood, Format
<1>5. Placed(r, p, b) /\ DOMAIN b = HeaderFields
  BY <1>1, <1>2, NewSlabPlaced
<1>6. PICK f : f = b.free_list
  OBVIOUS
<1>7. /\ f \in Seq(Range(f)) /\ Len(f) = n
      /\ f = [i \in 1..n |-> b.base + (n - i) * z]
  BY <1>1, <1>2, <1>3, <1>4, <1>6, NewSlabFree
<1>8. PICK base \in Nat : base = b.base
  <2>1. PICK h \in Nat : h = SLAB_HEADER
    BY SlabAssumption
  <2>2. PICK g \in Nat \ {0} : g = BUDDY_PAGE_SIZE
    BY ZoneNumbers
  <2>3. PICK u \in Nat : u = Spare(r)
    BY <1>1, PlaceNumbers
  <2>4. PICK off \in 0..(u - 1) : b.base = p * g + h + off
    BY <1>5, <2>1, <2>2, <2>3 DEF Placed
  <2>5. p * g \in Nat
    OBVIOUS
  <2> QED
    BY <2>4, <2>5
<1>9. DOMAIN f = 1..n /\ \A i \in 1..n : f[i] = base + (n - i) * z
  BY <1>7, <1>8
<1>10. ObjectsIn(r, b) = {base + i * z : i \in 0..(n - 1)}
  BY <1>3, <1>4, <1>8 DEF ObjectsIn
<1>11. Range(f) = ObjectsIn(r, b)
  <2>1. ASSUME NEW i \in 1..n PROVE f[i] \in ObjectsIn(r, b)
    <3>1. n - i \in 0..(n - 1)
      OBVIOUS
    <3> QED
      BY <1>9, <1>10, <3>1
  <2>2. ASSUME NEW i \in 0..(n - 1) PROVE base + i * z \in Range(f)
    <3>1. n - i \in 1..n /\ n - (n - i) = i
      OBVIOUS
    <3>2. f[n - i] = base + i * z
      BY <1>9, <3>1
    <3> QED
      BY <1>9, <3>1, <3>2 DEF Range
  <2> QED
    BY <1>9, <1>10, <2>1, <2>2 DEF Range
<1>12. IsInjective(f)
  <2>1. SUFFICES ASSUME NEW i \in 1..n, NEW j \in 1..n, f[i] = f[j] PROVE i = j
    BY <1>9 DEF IsInjective
  <2>2. PICK x \in Int : x = n - i
    OBVIOUS
  <2>3. PICK y \in Int : y = n - j
    OBVIOUS
  <2>4. x * z \in Int /\ y * z \in Int /\ base + x * z = base + y * z
    BY <1>9, <2>1, <2>2, <2>3
  <2>5. x * z = y * z
    BY <2>4
  <2>6. x = y
    BY <2>5, TimesApart
  <2> QED
    BY <2>2, <2>3, <2>6
<1>13. f # <<>>
  BY <1>7
<1> QED
  BY <1>1, <1>2, <1>5, <1>6, <1>7, <1>11, <1>12, <1>13

\* A cache with a new slab p, whose objects are all free.
LEMMA NewAccount ==
  ASSUME FormatsFit, NEW k, NEW r, CacheGood(r), NEW sl, Headed(r, sl), NEW L, NEW T,
         Accounted(k, r, sl, L, T), NEW t, NEW p \in Nat, ListPages(t) = ListPages(r) \cup {p},
         p \notin ListPages(r), SameNumbers(t, r), t.slots = r.slots, t.available = r.available,
         NEW sb, SameBut(sl, sb, ListPages(r), p), Placed(r, p, sb[p]),
         IsInjective(sb[p].free_list), Range(sb[p].free_list) = ObjectsIn(r, sb[p])
  PROVE  Accounted(k, t, sb, L, T)
<1>1. \A b : ObjectsIn(t, b) = ObjectsIn(r, b)
  BY DEF SameNumbers, ObjectsIn
<1>2. \A x \in ListPages(r) : sb[x] = sl[x]
  BY DEF SameBut
<1>3. PICK X : X = ObjectsIn(r, sb[p])
  OBVIOUS
<1>4. AllObjects(t, sb) = AllObjects(r, sl) \cup X
  BY <1>1, <1>2, <1>3 DEF AllObjects
<1>5. FreeObjects(t, sb) = FreeObjects(r, sl) \cup X
  BY <1>2, <1>3 DEF FreeObjects
<1>6. X \cap AllObjects(r, sl) = {}
  <2>1. SUFFICES ASSUME NEW o, o \in X, NEW x \in ListPages(r), o \in ObjectsIn(r, sl[x])
                 PROVE  FALSE
    BY DEF AllObjects
  <2>2. o \div BUDDY_PAGE_SIZE = x
    BY <2>1, ObjectTells
  <2>3. PICK b : b = sb[p]
    OBVIOUS
  <2>4. o \in ObjectsIn(r, b) /\ Placed(r, p, b)
    BY <1>3, <2>1, <2>3
  <2>5. o \div BUDDY_PAGE_SIZE = p
    BY <2>4, ObjectPlaced
  <2> QED
    BY <2>2, <2>5
<1>7. FreeOK(t, sb)
  BY <1>1, <1>2 DEF FreeOK, Accounted
<1>8. SlotsOK(t) /\ ReadyObjects(t) = ReadyObjects(r)
  BY DEF SlotsOK, ReadyObjects, Accounted
<1>9. PICK O : O = AllObjects(r, sl)
  OBVIOUS
<1>10. PICK F : F = FreeObjects(r, sl)
  OBVIOUS
<1>11. Parted(O \cup X, ObjectsAmong(L, k), ObjectsAmong(T, k), ReadyObjects(t), F \cup X)
  <2>1. Parted(O, ObjectsAmong(L, k), ObjectsAmong(T, k), ReadyObjects(t), F)
    BY <1>8, <1>9, <1>10 DEF Accounted
  <2> QED
    BY <1>6, <1>9, <2>1 DEF Parted
<1> QED
  BY <1>4, <1>5, <1>7, <1>8, <1>9, <1>10, <1>11 DEF Accounted

\* A free list there is something on.
Lendable(b) == b.free_list \in Seq(Range(b.free_list)) /\ b.free_list # <<>>

\* An object of slab s is lent; s is new or was on a list.
LEMMA LendAccount ==
  ASSUME FormatsFit, SlabInv, NEW c \in CPUs, NEW k \in DOMAIN cache, NEW g,
         AccountOf(cache, slab, loans[c], "alloc_slow", g),
         NEW r, CacheGood(r), NEW s \in ListPages(r), NEW b, Lend(c, k, r, s, b),
         DOMAIN b = HeaderFields, Lendable(b),
         Headed(r, Put(slab, s, b)), Accounted(k, r, Put(slab, s, b), loans[c], {}),
         ListPages(r) = ListPages(cache[k]) \cup {s},
         s \in ListPages(cache[k]) \/ s \in reclaimable
  PROVE  AccountOf(cache', slab', loans'[c], "idle", <<>>)
<1>1. PICK sl : sl = Put(slab, s, b)
  OBVIOUS
<1>2. PICK h : h = [b EXCEPT !.free_list = Tail(@), !.in_use = @ + 1]
  OBVIOUS
<1>3. h.free_list = Tail(b.free_list) /\ h.base = b.base
  BY <1>2 DEF HeaderFields
<1>4. PICK t : t = Filled(r, s, b)
  OBVIOUS
<1>5. PICK sb : sb = slab'
  OBVIOUS
<1>6. PICK cb : cb = cache'
  OBVIOUS
<1>7. PICK o : o = Head(b.free_list)
  OBVIOUS
<1>8. PICK L : L = loans[c]
  OBVIOUS
<1>9. PICK L2 : L2 = loans'[c]
  OBVIOUS
<1>10. /\ sb = Put(slab, s, h) /\ cb = [cache EXCEPT ![k] = t] /\ Given(L, L2, k, o)
  BY <1>2, <1>4, <1>5, <1>6, <1>7, <1>8, <1>9 DEF Lend, Given, SlabInv, LoansOK
<1>11. CacheOK(r)
  BY DEF CacheGood
<1>12. ListPages(t) = ListPages(r)
  BY <1>4, <1>11, FilledPages
<1>13. SameNumbers(t, r) /\ t.slots = r.slots /\ t.available = r.available
  BY <1>4, <1>11, MovedShape DEF SameReady
<1>14. ListPages(r) \subseteq DOMAIN slab \cup {s}
  BY DEF SlabInv, CachesGood, Headed
<1>15. sl[s] = b /\ sb[s] = h /\ SameBut(sl, sb, ListPages(r), s)
  BY <1>1, <1>10, <1>14 DEF Put, SameBut
<1>16. SameOthers(t, r, sl, sb, s)
  BY <1>3, <1>12, <1>13, <1>15 DEF SameOthers
<1>17. Headed(r, sl) /\ Accounted(k, r, sl, L, {})
  BY <1>1, <1>8
<1>18. /\ SlotsOK(r) /\ FreeOK(r, sl)
       /\ Parted(AllObjects(r, sl), ObjectsAmong(L, k), ObjectsAmong({}, k), ReadyObjects(r),
                 FreeObjects(r, sl))
  BY <1>17 DEF Accounted
<1>19. /\ sl[s].free_list \in Seq(Range(sl[s].free_list)) /\ sl[s].free_list # <<>>
       /\ sb[s].free_list = Tail(sl[s].free_list) /\ o = Head(sl[s].free_list)
  BY <1>3, <1>7, <1>15 DEF Lendable
<1>20. /\ FreeOK(t, sb) /\ o \in FreeObjects(r, sl)
       /\ FreeObjects(t, sb) = FreeObjects(r, sl) \ {o}
  BY <1>16, <1>17, <1>18, <1>19, FreeListLends
<1>21. AllObjects(t, sb) = AllObjects(r, sl)
  BY <1>16, SamePlaces
<1>22. SlotsOK(t) /\ ReadyObjects(t) = ReadyObjects(r)
  BY <1>13, <1>18 DEF SlotsOK, ReadyObjects
<1>23. Pairs(L)
  BY <1>8 DEF AccountOf, Pairs
<1>24. Pairs(L2) /\ OnlyOf(L, L2, k) /\ ObjectsAmong(L2, k) = ObjectsAmong(L, k) \cup {o}
  BY <1>10, <1>23, LoanGiven
<1>25. PICK x : x = <<>>
  OBVIOUS
<1>26. PICK T2 : T2 = Transit("idle", x, cb)
  OBVIOUS
<1>27. PICK T : T = Transit("alloc_slow", g, cache)
  OBVIOUS
<1>28. T = {} /\ T2 = {}
  BY <1>26, <1>27 DEF Transit
<1>29. OnlyOf(T, T2, k) /\ ObjectsAmong({}, k) = {}
  BY <1>28 DEF OnlyOf, ObjectsAmong
<1>30. Parted(AllObjects(t, sb), ObjectsAmong(L2, k), ObjectsAmong({}, k), ReadyObjects(t),
              FreeObjects(t, sb))
  BY <1>18, <1>20, <1>21, <1>22, <1>24, <1>29 DEF Parted
<1>31. Accounted(k, t, sb, L2, T2)
  BY <1>20, <1>22, <1>28, <1>30 DEF Accounted
<1>32. Untouched(slab, sb, ListPages(t))
       /\ ListPages(t) \subseteq ListPages(cache[k]) \cup reclaimable
  BY <1>10, <1>12 DEF Put, Untouched
<1>33. OneChanged(cache, cb, k, t)
  BY <1>10 DEF OneChanged
<1>34. CallOK("idle", x, cb)
  BY DEF CallOK
<1>35. AccountOf(cb, sb, L2, "idle", x)
  BY <1>8, <1>24, <1>26, <1>27, <1>29, <1>31, <1>32, <1>33, <1>34, AccountUpdated
<1> QED
  BY <1>5, <1>6, <1>9, <1>25, <1>35

\* A slab on the partial or the empty list has something to lend.
LEMMA SortedLendable ==
  ASSUME NEW r, CacheGood(r), NEW sl, Sorted(r, sl), NEW s \in Range(r.partial) \cup Range(r.empty)
  PROVE  Lendable(sl[s])
<1>1. PICK n \in Nat \ {0} : n = r.objects_per_slab
  BY DEF CacheGood, Format
<1>2. SetsSorted(Range(r.full), Range(r.partial), Range(r.empty), n, sl)
  BY <1>1 DEF Sorted
<1>3. CountOK(n, sl, s) /\ (Len(sl[s].free_list) > 0 \/ Len(sl[s].free_list) = n)
  BY <1>2 DEF SetsSorted
<1>4. PICK f : f = sl[s].free_list
  OBVIOUS
<1>5. f \in Seq(Range(f)) /\ (Len(f) > 0 \/ Len(f) = n)
  BY <1>3, <1>4 DEF CountOK
<1>6. f # <<>>
  BY <1>5
<1> QED
  BY <1>4, <1>5, <1>6 DEF Lendable

\* slab_alloc takes an object from a slab, under the lock.
LEMMA SlowAccount ==
  ASSUME FormatsFit, SlabInv, SortedInv, AccountInv, reclaimable \subseteq Nat,
         NEW c \in CPUs, AllocSlow(c)
  PROVE  AccountOf(cache', slab', loans'[c], at'[c], arg'[c])
<1>1. PICK g : g = arg[c]
  OBVIOUS
<1>2. PICK k : k = g[1]
  OBVIOUS
<1>3. PICK r : r = cache[k]
  OBVIOUS
<1>4. PICK L : L = loans[c]
  OBVIOUS
<1>5. at[c] = "alloc_slow" /\ Go(c, "idle", <<>>) /\ SlowWays(c, k, r)
  BY <1>1, <1>2, <1>3, SlowCases
<1>6. k \in DOMAIN cache /\ AccountOf(cache, slab, L, "alloc_slow", g)
  BY <1>1, <1>2, <1>4, <1>5 DEF AccountInv, SlabInv, OnCaches
<1>7. /\ CacheGood(r) /\ Headed(r, slab) /\ CacheOK(r)
      /\ ListPages(r) \cap reclaimable = {} /\ ListPages(r) \subseteq DOMAIN slab
      /\ r.partial \in Seq(Nat) /\ r.empty \in Seq(Nat) /\ Sorted(r, slab)
  BY <1>3, <1>6 DEF SlabInv, CachesGood, CacheGood, CacheOK, Headed, SortedInv
<1>8. Accounted(k, r, slab, L, {})
  BY <1>3, <1>6 DEF AccountOf, Transit
<1>9. SUFFICES AccountOf(cache', slab', loans'[c], "idle", <<>>)
  BY <1>5, GoneTo
<1>10. ASSUME NEW t, NEW s \in ListPages(r), ListPages(t) = ListPages(r), SameNumbers(t, r),
              t.slots = r.slots, t.available = r.available, CacheGood(t), Lendable(slab[s]),
              Lend(c, k, t, s, slab[s])
       PROVE  AccountOf(cache', slab', loans'[c], "idle", <<>>)
  <2>1. PICK b : b = slab[s]
    OBVIOUS
  <2>2. PICK sl : sl = Put(slab, s, b)
    OBVIOUS
  <2>3. \A x \in ListPages(r) : x \in DOMAIN sl /\ sl[x] = slab[x]
    BY <1>7, <2>1, <2>2 DEF Put
  <2>4. DOMAIN b = HeaderFields
    BY <1>7, <2>1 DEF Headed
  <2>5. \A x \in ListPages(r) : sl[x] = slab[x]
    BY <2>3
  <2>6. Accounted(k, r, sl, L, {})
    BY <1>8, <2>5, AccountFrame
  <2>7. Accounted(k, t, sl, L, {})
    BY <1>10, <2>6, MovedAccount
  <2>8. Spare(t) = Spare(r) /\ t.align = r.align
    BY <1>10 DEF SameNumbers, Spare
  <2>9. Headed(t, sl)
    BY <1>7, <1>10, <2>3, <2>8 DEF Headed, Placed
  <2>10. s \in ListPages(t) /\ ListPages(t) = ListPages(cache[k]) \cup {s}
         /\ s \in ListPages(cache[k])
    BY <1>3, <1>10
  <2>11. Lendable(b) /\ Lend(c, k, t, s, b)
    BY <1>10, <2>1
  <2> QED
    BY <1>4, <1>6, <1>10, <2>2, <2>4, <2>7, <2>9, <2>10, <2>11, LendAccount
<1>11. ASSUME r.partial # <<>>, Lend(c, k, r, Head(r.partial), slab[Head(r.partial)])
       PROVE  AccountOf(cache', slab', loans'[c], "idle", <<>>)
  <2>1. PICK s : s = Head(r.partial)
    OBVIOUS
  <2>2. s \in Range(r.partial)
    BY <1>7, <1>11, <2>1, Popped
  <2>3. s \in ListPages(r) /\ SameNumbers(r, r)
    BY <2>2 DEF ListPages, SameNumbers
  <2>4. Lendable(slab[s])
    BY <1>7, <2>2, SortedLendable
  <2> QED
    BY <1>7, <1>10, <1>11, <2>1, <2>3, <2>4
<1>12. ASSUME r.partial = <<>>, r.empty # <<>>,
              Lend(c, k, [r EXCEPT !.empty = Tail(@), !.partial = <<Head(r.empty)>>],
                   Head(r.empty), slab[Head(r.empty)])
       PROVE  AccountOf(cache', slab', loans'[c], "idle", <<>>)
  <2>1. PICK s : s = Head(r.empty)
    OBVIOUS
  <2>2. PICK t : t = WithEmpty(r)
    OBVIOUS
  <2>3. /\ CacheOK(t) /\ SameNumbers(t, r) /\ SameReady(t, r)
        /\ ListPages(t) = ListPages(r) /\ s \in ListPages(t)
        /\ t.full = r.full /\ t.partial = <<s>> /\ t.empty = Tail(r.empty)
    BY <1>7, <1>12, <2>1, <2>2, EmptyToPartial
  <2>4. t.slots = r.slots /\ t.available = r.available /\ t.color_next = r.color_next
    BY <2>3 DEF SameReady
  <2>5. r.color_next \in Nat
    BY <1>7 DEF CacheGood, Format
  <2>6. CacheGood(t)
    BY <1>7, <2>3, <2>4, <2>5, StillGood
  <2>7. s \in Range(r.empty)
    BY <1>7, <1>12, <2>1, Popped
  <2>8. Lendable(slab[s])
    BY <1>7, <2>7, SortedLendable
  <2>9. Lend(c, k, t, s, slab[s])
    BY <1>12, <2>1, <2>2 DEF WithEmpty
  <2> QED
    BY <1>10, <2>3, <2>4, <2>6, <2>8, <2>9
<1>13. ASSUME r.partial = <<>>, Slack(k) # 0, NEW p \in reclaimable,
              Lend(c, k, [r EXCEPT !.partial = <<p>>, !.color_next = (@ + 1) % 8],
                   p, NewSlab(p, k))
       PROVE  AccountOf(cache', slab', loans'[c], "idle", <<>>)
  <2>0. p \in Nat
    OBVIOUS
  <2>1. PICK t : t = WithNew(r, p)
    OBVIOUS
  <2>2. PICK b : b = NewSlab(p, k)
    OBVIOUS
  <2>3. /\ CacheGood(t) /\ SameNumbers(t, r) /\ t.slots = r.slots
        /\ t.available = r.available
        /\ ListPages(t) = ListPages(r) \cup {p} /\ p \in ListPages(t)
        /\ t.full = r.full /\ t.partial = <<p>> /\ t.empty = r.empty
        /\ \A x, y : Placed(t, x, y) <=> Placed(r, x, y)
    BY <1>7, <1>13, <2>0, <2>1, NewToPartial
  <2>4. /\ Placed(r, p, b) /\ DOMAIN b = HeaderFields
        /\ IsInjective(b.free_list) /\ Range(b.free_list) = ObjectsIn(r, b)
        /\ b.free_list \in Seq(Range(b.free_list)) /\ b.free_list # <<>>
    BY <1>3, <1>6, <1>7, <1>13, <2>0, <2>2, NewSlabObjects
  <2>5. PICK sl : sl = Put(slab, p, b)
    OBVIOUS
  <2>6. p \notin ListPages(r)
    BY <1>7
  <2>7. sl[p] = b /\ p \in DOMAIN sl /\ \A x \in ListPages(r) : x \in DOMAIN sl /\ sl[x] = slab[x]
    BY <1>7, <2>5, <2>6 DEF Put
  <2>8. SameBut(slab, sl, ListPages(r), p)
    BY <2>7 DEF SameBut
  <2>9. Accounted(k, t, sl, L, {})
    BY <1>7, <1>8, <2>0, <2>3, <2>4, <2>6, <2>7, <2>8, NewAccount
  <2>10. Headed(t, sl)
    BY <1>7, <2>3, <2>4, <2>7 DEF Headed
  <2>11. Lend(c, k, t, p, b) /\ ListPages(t) = ListPages(cache[k]) \cup {p} /\ Lendable(b)
    BY <1>3, <1>13, <2>1, <2>2, <2>3, <2>4 DEF WithNew, Lendable
  <2> QED
    BY <1>4, <1>6, <2>3, <2>4, <2>5, <2>9, <2>10, <2>11, LendAccount
<1>14. CASE UNCHANGED <<cache, slab, loans>>
  <2>1. PICK x : x = <<>>
    OBVIOUS
  <2>2. CallOK("idle", x, cache) /\ Transit("idle", x, cache) = {}
        /\ Transit("alloc_slow", g, cache) = {}
    BY DEF CallOK, Transit
  <2>3. AccountOf(cache, slab, L, "idle", x)
    BY <1>6, <2>2 DEF AccountOf
  <2> QED
    BY <1>4, <1>14, <2>1, <2>3
<1> QED
  BY <1>5, <1>11, <1>12, <1>13, <1>14, Zenon DEF SlowWays

\* A slab has no more objects than objects_per_slab.
LEMMA ObjectsBound ==
  ASSUME NEW r, NEW b, NEW n \in Nat \ {0}, n = r.objects_per_slab
  PROVE  IsFiniteSet(ObjectsIn(r, b)) /\ Cardinality(ObjectsIn(r, b)) <= n
<1>1. PICK z : z = r.object_size
  OBVIOUS
<1>2. PICK O : O = ObjectsIn(r, b)
  OBVIOUS
<1>3. O = {b.base + i * z : i \in 0..(n - 1)}
  BY <1>1, <1>2 DEF ObjectsIn
<1>4. PICK S : S = 0..(n - 1)
  OBVIOUS
<1>5. PICK f : f = [i \in S |-> b.base + i * z]
  OBVIOUS
<1>6. f \in Surjection(S, O)
  BY <1>3, <1>4, <1>5 DEF Surjection
<1>7. IsFiniteSet(S) /\ Cardinality(S) = n
  <2>1. PICK m \in Int : m = n - 1
    OBVIOUS
  <2>2. PICK low \in Int : low = 0
    OBVIOUS
  <2>3. IsFiniteSet(low..m) /\ Cardinality(low..m) = IF low > m THEN 0 ELSE m - low + 1
    BY FS_Interval
  <2> QED
    BY <1>4, <2>1, <2>2, <2>3
<1>8. IsFiniteSet(O) /\ Cardinality(O) <= Cardinality(S)
  BY <1>6, <1>7, FS_Surjection
<1> QED
  BY <1>2, <1>7, <1>8

\* Every object of a slab on the empty list is on its free list.
LEMMA EmptyHasAll ==
  ASSUME NEW r, CacheGood(r), NEW sl, Sorted(r, sl), FreeOK(r, sl), NEW s \in Range(r.empty)
  PROVE  ObjectsIn(r, sl[s]) = Range(sl[s].free_list)
<1>1. PICK n \in Nat \ {0} : n = r.objects_per_slab
  BY DEF CacheGood, Format
<1>2. CountOK(n, sl, s) /\ Len(sl[s].free_list) = n /\ s \in ListPages(r)
  BY <1>1 DEF Sorted, SetsSorted, ListPages
<1>3. PICK f : f = sl[s].free_list
  OBVIOUS
<1>4. PICK O : O = ObjectsIn(r, sl[s])
  OBVIOUS
<1>5. f \in Seq(Range(f)) /\ Len(f) = n /\ IsInjective(f) /\ Range(f) \subseteq O
  BY <1>2, <1>3, <1>4 DEF CountOK, FreeOK
<1>6. IsFiniteSet(Range(f)) /\ Cardinality(Range(f)) = n
  BY <1>5, ListCount
<1>7. IsFiniteSet(O) /\ Cardinality(O) <= n
  BY <1>1, <1>4, ObjectsBound
<1>8. PICK R \in SUBSET O : R = Range(f)
  BY <1>5
<1>9. /\ IsFiniteSet(R) /\ Cardinality(R) <= Cardinality(O)
      /\ Cardinality(O) = Cardinality(R) => O = R
  BY <1>7, FS_Subset
<1>10. Cardinality(O) \in Nat
  BY <1>7, FS_CardinalityType
<1> QED
  BY <1>3, <1>4, <1>6, <1>7, <1>8, <1>9, <1>10

\* slab_find_for_object finds the slab of an object in use.
LEMMA ObjectFound ==
  ASSUME FormatsFit, NEW k, CacheGood(cache[k]), Headed(cache[k], slab), Sorted(cache[k], slab),
         FreeOK(cache[k], slab), NEW o \in AllObjects(cache[k], slab),
         o \notin FreeObjects(cache[k], slab)
  PROVE  LET s == slab_find_for_object(k, o) IN
         /\ s # NULL /\ s \in Range(cache[k].full) \cup Range(cache[k].partial)
         /\ o \in ObjectsIn(cache[k], slab[s])
<1>1. PICK r : r = cache[k]
  OBVIOUS
<1>2. PICK x \in ListPages(r) : o \in ObjectsIn(r, slab[x])
  BY <1>1 DEF AllObjects
<1>3. o \div BUDDY_PAGE_SIZE = x /\ x \in Nat
  BY <1>1, <1>2, ObjectTells
<1>4. o \notin Range(slab[x].free_list)
  BY <1>1, <1>2 DEF FreeObjects
<1>5. x \notin Range(r.empty)
  BY <1>1, <1>2, <1>4, EmptyHasAll
<1>6. x \in Range(r.full) \cup Range(r.partial)
  BY <1>2, <1>5 DEF ListPages
<1>7. {y \in Range(r.full) \cup Range(r.partial) : o \div BUDDY_PAGE_SIZE = y} = {x}
  BY <1>3, <1>6
<1>8. slab_find_for_object(k, o) = x
  BY <1>1, <1>7 DEF slab_find_for_object
<1>9. x # NULL
  BY <1>3, SlabAssumption
<1> QED
  BY <1>1, <1>2, <1>6, <1>8, <1>9

\* slab_free gives an object back to its slab, under the lock.
LEMMA GiveBackAccount ==
  ASSUME FormatsFit, SlabInv, SortedInv, AccountInv, NEW c \in CPUs, FreeSlow(c)
  PROVE  AccountOf(cache', slab', loans'[c], at'[c], arg'[c])
<1>1. PICK g : g = arg[c]
  OBVIOUS
<1>2. PICK k : k = g[1]
  OBVIOUS
<1>3. PICK o : o = g[2]
  OBVIOUS
<1>4. PICK L : L = loans[c]
  OBVIOUS
<1>5. PICK r : r = cache[k]
  OBVIOUS
<1>6. PICK s : s = slab_find_for_object(k, o)
  OBVIOUS
<1>7. at[c] = "free_slow" /\ Go(c, "idle", <<>>) /\ loans' = loans
  BY DEF FreeSlow
<1>8. k \in DOMAIN cache /\ AccountOf(cache, slab, L, "free_slow", g)
  BY <1>1, <1>2, <1>4, <1>7 DEF AccountInv, SlabInv, OnCaches
<1>9. PICK T : T = Transit("free_slow", g, cache)
  OBVIOUS
<1>10. /\ DOMAIN r = CacheFields /\ CallOK("free_slow", g, cache) /\ Pairs(L)
       /\ SlotsOK(r) /\ FreeOK(r, slab)
       /\ Parted(AllObjects(r, slab), ObjectsAmong(L, k), ObjectsAmong(T, k), ReadyObjects(r),
                 FreeObjects(r, slab))
  BY <1>5, <1>8, <1>9, OnCall
<1>11. PICK x : x = <<>>
  OBVIOUS
<1>12. PICK cb : cb = cache'
  OBVIOUS
<1>13. PICK sb : sb = slab'
  OBVIOUS
<1>14. PICK T2 : T2 = Transit("idle", x, cb)
  OBVIOUS
<1>15. T2 = {} /\ T = {<<k, o>>}
  BY <1>2, <1>3, <1>9, <1>14 DEF Transit
<1>16. /\ ObjectsAmong(T2, k) = {} /\ ObjectsAmong(T, k) = {o}
       /\ OnlyOf(T2, T, k) /\ OnlyOf(T, T2, k)
  BY <1>15, OneInTransit
<1>17. o \in AllObjects(r, slab) /\ o \notin FreeObjects(r, slab)
  BY <1>10, <1>16 DEF Parted
<1>18. CacheGood(r) /\ CacheOK(r) /\ Headed(r, slab) /\ Sorted(r, slab)
  BY <1>5, <1>8 DEF SlabInv, CachesGood, CacheGood, SortedInv
<1>19. /\ s # NULL /\ s \in Range(r.full) \cup Range(r.partial)
       /\ o \in ObjectsIn(r, slab[s])
  BY <1>5, <1>6, <1>10, <1>17, <1>18, ObjectFound
<1>20. s \in ListPages(r) /\ ListPages(r) \subseteq DOMAIN slab /\ DOMAIN slab[s] = HeaderFields
  BY <1>18, <1>19 DEF ListPages, Headed
<1>21. PICK t : t = Emptied(r, s, slab[s])
  OBVIOUS
<1>22. PICK h : h = GivenBack(slab[s], o)
  OBVIOUS
<1>23. sb = Put(slab, s, h) /\ cb = [cache EXCEPT ![k] = t]
  BY <1>1, <1>2, <1>3, <1>5, <1>6, <1>12, <1>13, <1>19, <1>21, <1>22 DEF FreeSlow
<1>24. h.free_list = Push(o, slab[s].free_list) /\ h.base = slab[s].base
  BY <1>20, <1>22 DEF HeaderFields, GivenBack, Push
<1>25. ListPages(t) = ListPages(r)
  BY <1>18, <1>20, <1>21, EmptiedPages
<1>26. SameNumbers(t, r) /\ t.slots = r.slots /\ t.available = r.available
  BY <1>18, <1>21, MovedShape DEF SameReady
<1>27. sb[s] = h /\ SameBut(slab, sb, ListPages(r), s)
  BY <1>20, <1>23 DEF Put, SameBut
<1>28. SameOthers(t, r, slab, sb, s)
  BY <1>20, <1>24, <1>25, <1>26, <1>27 DEF SameOthers
<1>29. slab[s].free_list \in Seq(Range(slab[s].free_list))
  BY <1>18, <1>19 DEF Sorted, SetsSorted, CountOK
<1>30. sb[s].free_list = Push(o, slab[s].free_list)
  BY <1>24, <1>27
<1>31. FreeOK(t, sb) /\ FreeObjects(t, sb) = FreeObjects(r, slab) \cup {o}
  BY <1>10, <1>17, <1>19, <1>28, <1>29, <1>30, FreeListTakes
<1>32. AllObjects(t, sb) = AllObjects(r, slab)
  BY <1>28, SamePlaces
<1>33. SlotsOK(t) /\ ReadyObjects(t) = ReadyObjects(r)
  BY <1>10, <1>26 DEF SlotsOK, ReadyObjects
<1>34. Parted(AllObjects(t, sb), ObjectsAmong(L, k), ObjectsAmong(T2, k), ReadyObjects(t),
              FreeObjects(t, sb))
  BY <1>10, <1>16, <1>31, <1>32, <1>33 DEF Parted
<1>35. Accounted(k, t, sb, L, T2)
  BY <1>31, <1>33, <1>34 DEF Accounted
<1>36. Untouched(slab, sb, ListPages(t)) /\ OnlyOf(L, L, k)
       /\ ListPages(t) \subseteq ListPages(cache[k]) \cup reclaimable
  BY <1>5, <1>20, <1>23, <1>25 DEF Put, Untouched, OnlyOf
<1>37. OneChanged(cache, cb, k, t)
  BY <1>8, <1>23 DEF OneChanged
<1>38. CallOK("idle", x, cb)
  BY DEF CallOK
<1>39. AccountOf(cb, sb, L, "idle", x)
  BY <1>8, <1>9, <1>10, <1>14, <1>16, <1>35, <1>36, <1>37, <1>38, AccountUpdated
<1>40. at'[c] = "idle" /\ arg'[c] = x
  BY <1>7, <1>11, GoneTo
<1> QED
  BY <1>4, <1>7, <1>12, <1>13, <1>39, <1>40

\* A new cache has no objects.
LEMMA CreateAccount ==
  ASSUME SlabInv, AccountInv, PagesInv, NEW c \in CPUs,
         NEW f \in Formats, slab_cache_create(c, f[1], f[2])
  PROVE  AccountOf(cache', slab', loans'[c], at'[c], arg'[c])
<1>1. slab' = slab /\ loans' = loans /\ at' = at /\ arg' = arg /\ at[c] = "idle"
  BY DEF slab_cache_create
<1>2. PICK L : L = loans[c]
  OBVIOUS
<1>3. AccountOf(cache, slab, L, "idle", arg[c])
  BY <1>1, <1>2 DEF AccountInv
<1>4. CASE cache' = cache
  BY <1>1, <1>2, <1>3, <1>4
<1>5. ASSUME NEW p \in unmovable, f[1] \in 1..BUDDY_PAGE_SIZE,
             cache' = Put(cache, p, NewCache(f[1], f[2]))
      PROVE  AccountOf(cache', slab', loans'[c], at'[c], arg'[c])
  <2>1. PICK t : t = NewCache(f[1], f[2])
    OBVIOUS
  <2>2. /\ CacheGood(t) /\ ListPages(t) = {}
        /\ t.full = <<>> /\ t.partial = <<>> /\ t.empty = <<>> /\ t.available = 0
        /\ t.slots = [i \in 0..(SLAB_CPU_CACHE_SIZE - 1) |-> NULL]
    BY <1>5, <2>1, NewCacheGood
  <2>3. p \notin DOMAIN cache
    BY DEF PagesInv, SlabPart, Split, OfCaches, OwnPages
  <2>4. PICK cb : cb = cache'
    OBVIOUS
  <2>5. /\ DOMAIN cb = DOMAIN cache \cup {p} /\ cb[p] = t
        /\ \A j \in DOMAIN cache : cb[j] = cache[j]
    BY <1>5, <2>1, <2>3, <2>4 DEF Put
  <2>6. PICK g : g = arg[c]
    OBVIOUS
  <2>7. Transit("idle", g, cb) = {} /\ Transit("idle", g, cache) = {} /\ CallOK("idle", g, cb)
    BY DEF Transit, CallOK
  <2>8. ObjectsAmong(L, p) = {} /\ ObjectsAmong({}, p) = {}
    BY <1>2, <2>3 DEF SlabInv, LoansOK, ObjectsAmong
  <2>9. PICK m \in Nat \ {0} : m = SLAB_CPU_CACHE_SIZE
    BY SlabAssumption
  <2>10. 0..(0 - 1) = {}
    OBVIOUS
  <2>11. SlotsOK(t) /\ ReadyObjects(t) = {}
    BY <2>2, <2>9, <2>10 DEF SlotsOK, ReadyObjects
  <2>12. FreeOK(t, slab) /\ AllObjects(t, slab) = {} /\ FreeObjects(t, slab) = {}
    BY <2>2 DEF FreeOK, AllObjects, FreeObjects
  <2>13. Accounted(p, t, slab, L, {})
    BY <2>8, <2>11, <2>12 DEF Accounted, Parted
  <2>14. AccountOf(cb, slab, L, "idle", g)
    BY <1>3, <2>5, <2>6, <2>7, <2>13 DEF AccountOf
  <2> QED
    BY <1>1, <1>2, <2>4, <2>6, <2>14
<1> QED
  BY <1>4, <1>5, Zenon DEF slab_cache_create

\* A cache goes, and what callers hold of it.
LEMMA DestroyAccount ==
  ASSUME SlabInv, AccountInv, NEW c \in CPUs, NEW k \in DOMAIN cache, slab_cache_destroy(c, k)
  PROVE  AccountOf(cache', slab', loans'[c], at'[c], arg'[c])
<1>1. PICK L : L = loans[c]
  OBVIOUS
<1>2. PICK L2 : L2 = {x \in L : x[1] # k}
  OBVIOUS
<1>3. PICK g : g = arg[c]
  OBVIOUS
<1>4. at[c] = "idle" /\ at'[c] = "idle" /\ arg'[c] = g /\ loans'[c] = L2
  BY <1>1, <1>2, <1>3 DEF slab_cache_destroy
<1>5. AccountOf(cache, slab, L, "idle", g)
  BY <1>1, <1>3, <1>4 DEF AccountInv
<1>6. PICK cb : cb = cache'
  OBVIOUS
<1>7. PICK sb : sb = slab'
  OBVIOUS
<1>8. DOMAIN cb = DOMAIN cache \ {k} /\ \A j \in DOMAIN cb : cb[j] = cache[j]
  BY <1>6 DEF slab_cache_destroy, Drop
<1>9. SlabPages(k) = ListPages(cache[k])
  BY DEF SlabPages, ListPages
<1>10. \A x \in DOMAIN slab : x \notin ListPages(cache[k]) => sb[x] = slab[x]
  BY <1>7, <1>9 DEF slab_cache_destroy, Drop
<1>11. Transit("idle", g, cb) = {} /\ Transit("idle", g, cache) = {} /\ CallOK("idle", g, cb)
  BY DEF Transit, CallOK
<1>12. ASSUME NEW j \in DOMAIN cb PROVE Accounted(j, cb[j], sb, L2, {})
  <2>1. j \in DOMAIN cache /\ j # k /\ cb[j] = cache[j]
    BY <1>8
  <2>2. ListPages(cache[j]) \cap ListPages(cache[k]) = {} /\ ListPages(cache[j]) \subseteq DOMAIN slab
    BY <2>1 DEF SlabInv, CachesGood, Headed
  <2>3. \A x \in ListPages(cache[j]) : sb[x] = slab[x]
    BY <1>10, <2>2
  <2>4. ObjectsAmong(L2, j) = ObjectsAmong(L, j)
    BY <1>2, <2>1 DEF ObjectsAmong
  <2>5. Accounted(j, cache[j], slab, L, {})
    BY <1>5, <1>11, <2>1 DEF AccountOf
  <2>6. Accounted(j, cache[j], sb, L2, {})
    BY <2>3, <2>4, <2>5, AccountFrame
  <2> QED
    BY <2>1, <2>6
<1>13. \A x \in L2 : x = <<x[1], x[2]>>
  BY <1>2, <1>5 DEF AccountOf
<1>14. AccountOf(cb, sb, L2, "idle", g)
  BY <1>11, <1>12, <1>13 DEF AccountOf
<1> QED
  BY <1>4, <1>6, <1>7, <1>14

\* Whatever the slab allocator does, objects stay accounted for.
LEMMA SlabStepAccount ==
  ASSUME OneCPU, FormatsFit, SlabInv, SortedInv, AccountInv, PagesInv,
         reclaimable \subseteq Nat, SlabNext, Sound'
  PROVE  AccountInv'
<1>1. ASSUME NEW c \in CPUs,
             \/ \E f \in Formats : slab_cache_create(c, f[1], f[2])
             \/ \E k \in DOMAIN cache : slab_cache_destroy(c, k)
             \/ \E k \in DOMAIN cache : AllocLoad(c, k)
             \/ AllocStore(c) \/ AllocRead(c) \/ AllocSlow(c)
             \/ \E x \in loans[c] : FreeLoad(c, x[1], x[2])
             \/ FreeArray(c) \/ FreeStore(c) \/ FreeCount(c) \/ FreeSlow(c)
      PROVE  AccountOf(cache', slab', loans'[c], at'[c], arg'[c])
  BY <1>1, CreateAccount, DestroyAccount, LoadAccount, AllocStoreAccount, AllocReadAccount,
     SlowAccount, FreeLoadAccount, FreeArrayAccount, FreeStoreAccount, FreeCountAccount,
     GiveBackAccount
<1>2. ASSUME NEW c \in CPUs, AllocDivides(c) \/ Halted(c)
      PROVE  AccountOf(cache', slab', loans'[c], at'[c], arg'[c])
  <2>1. ~AllocDivides(c)
    BY DEF AllocDivides, Sound
  <2>2. UNCHANGED <<cache, slab, loans, at, arg>>
    BY <1>2, <2>1 DEF Halted, slabVars
  <2> QED
    BY <2>2 DEF AccountInv
<1>3. \E c \in CPUs : AccountOf(cache', slab', loans'[c], at'[c], arg'[c])
  BY <1>1, <1>2, Zenon DEF SlabNext
<1>4. PICK c \in CPUs : AccountOf(cache', slab', loans'[c], at'[c], arg'[c])
  BY <1>3
<1>5. \A d \in CPUs : d = c
  BY DEF OneCPU
<1> QED
  BY <1>4, <1>5 DEF AccountInv

\* Nobody else moves objects.
LEMMA AccountStep ==
  ASSUME OneCPU, FormatsFit, BootInv, PagesInv, SlabInv, SortedInv, AccountInv, [Next]_vars,
         Sound'
  PROVE  AccountInv'
<1>1. reclaimable \subseteq Nat
  BY ZonesNat
<1>2. CASE SlabNext
  BY <1>1, <1>2, SlabStepAccount
<1>3. CASE UNCHANGED <<cache, slab, loans, at, arg>>
  BY <1>3 DEF AccountInv
<1> QED
  BY <1>2, <1>3 DEF Next, Boot, ReadTag, InitMemory, vars, slabVars

\* Objects are accounted for, by the invariant that has the place of each.
THEOREM AccountSafe ==
  ASSUME OneCPU, FormatsFit
  PROVE  Spec => [](Sound => AccountInv)
<1>1. Init => AccountInv
  <2>1. SUFFICES ASSUME Init, NEW c \in CPUs
                 PROVE  AccountOf(cache, slab, loans[c], at[c], arg[c])
    BY DEF AccountInv
  <2>2. DOMAIN cache = {} /\ loans[c] = {} /\ at[c] = "idle"
    BY <2>1 DEF Init, SlabInit
  <2>3. CallOK("idle", arg[c], cache)
    BY DEF CallOK
  <2> QED
    BY <2>2, <2>3 DEF AccountOf
<1>2. BootInv /\ (Sound => PagesInv) /\ SlabInv /\ (Sound => SortedInv) /\ (Sound => AccountInv)
        /\ [Next]_vars => (Sound => AccountInv)'
  BY AccountStep, SoundBefore
<1> QED
  BY <1>1, <1>2, BootSafe, PagesSafe, SlabSafe, SortedSafe, PTL DEF Spec

\* The CPU cache has as many objects as it counts.
LEMMA ReadyCount ==
  ASSUME NEW r, SlotsOK(r)
  PROVE  Cardinality(ReadyObjects(r)) = r.available
<1>1. PICK a \in Nat : a = r.available
  BY SlabAssumption DEF SlotsOK
<1>2. PICK S : S = 0..(a - 1)
  OBVIOUS
<1>3. PICK R : R = ReadyObjects(r)
  OBVIOUS
<1>4. R = {r.slots[i] : i \in S} /\ \A i, j \in S : r.slots[i] = r.slots[j] => i = j
  BY <1>1, <1>2, <1>3 DEF SlotsOK, ReadyObjects
<1>5. PICK f : f = [i \in S |-> r.slots[i]]
  OBVIOUS
<1>6. f \in Bijection(S, R)
  <2>1. f \in [S -> R]
    BY <1>4, <1>5
  <2>2. \A i, j \in S : f[i] = f[j] => i = j
    BY <1>4, <1>5
  <2>3. \A x \in R : \E i \in S : f[i] = x
    BY <1>4, <1>5
  <2> QED
    BY <2>1, <2>2, <2>3 DEF Bijection, Injection, Surjection, IsInjective
<1>7. ExistsBijection(S, R)
  BY <1>6 DEF ExistsBijection
<1>8. IsFiniteSet(S) /\ Cardinality(S) = a
  <2>1. PICK m \in Int : m = a - 1
    OBVIOUS
  <2>2. PICK low \in Int : low = 0
    OBVIOUS
  <2>3. IsFiniteSet(low..m) /\ Cardinality(low..m) = IF low > m THEN 0 ELSE m - low + 1
    BY FS_Interval
  <2> QED
    BY <1>2, <2>1, <2>2, <2>3
<1> QED
  BY <1>1, <1>3, <1>7, <1>8, FS_Bijection

\* Every object of every slab is in one place, for caches, slabs, objects and
\* calls of any number, on one CPU, if the objects fit and until something goes
\* wrong.
THEOREM ObjectsTheorem ==
  ASSUME OneCPU, FormatsFit
  PROVE  Spec => []ObjectsAccounted
<1>1. ASSUME AccountInv PROVE ObjectsAccounted
  <2>1. PICK c \in CPUs : \A d \in CPUs : d = c
    BY DEF OneCPU
  <2>2. PICK T : T = Transit(at[c], arg[c], cache)
    OBVIOUS
  <2>3. InTransit(c) = T
    BY <2>2 DEF InTransit, Transit
  <2>4. ASSUME NEW k \in DOMAIN cache
        PROVE  LET lent == Lent(k)
                   ready == Ready(k)
                   free == OnFreeLists(k)
               IN
               /\ Cardinality(ready) = cache[k].available
               /\ lent \cap ready = {} /\ free \cap (lent \cup ready) = {}
               /\ ObjectsOf(k) = lent \cup ready \cup free
    <3>1. PICK r : r = cache[k]
      OBVIOUS
    <3>2. PICK L : L = loans[c]
      OBVIOUS
    <3>3. Accounted(k, r, slab, L, T)
      BY <1>1, <2>2, <3>1, <3>2 DEF AccountInv, AccountOf
    <3>4. UNION {InHands(d) : d \in CPUs} = L \cup T
      BY <2>1, <2>3, <3>2 DEF InHands
    <3>5. Lent(k) = ObjectsAmong(L \cup T, k)
      BY <3>4 DEF Lent, ObjectsAmong
    <3>6. ObjectsAmong(L \cup T, k) = ObjectsAmong(L, k) \cup ObjectsAmong(T, k)
      BY DEF ObjectsAmong
    <3>7. Ready(k) = ReadyObjects(r)
      BY <3>1 DEF Ready, ReadyObjects
    <3>8. SlabPages(k) = ListPages(r)
      BY <3>1 DEF SlabPages, ListPages
    <3>9. OnFreeLists(k) = FreeObjects(r, slab)
      BY <3>8 DEF OnFreeLists, FreeObjects
    <3>10. ObjectsOf(k) = AllObjects(r, slab)
      <4>1. \A b : ObjectsFrom(b.base, k) = ObjectsIn(r, b)
        BY <3>1 DEF ObjectsFrom, ObjectsIn
      <4> QED
        BY <3>8, <4>1 DEF ObjectsOf, AllObjects
    <3>11. Cardinality(ReadyObjects(r)) = r.available
      BY <3>3, ReadyCount DEF Accounted
    <3>12. Parted(AllObjects(r, slab), ObjectsAmong(L, k), ObjectsAmong(T, k), ReadyObjects(r),
                  FreeObjects(r, slab))
      BY <3>3 DEF Accounted
    <3>13. PICK l : l = Lent(k)
      OBVIOUS
    <3>14. l = ObjectsAmong(L, k) \cup ObjectsAmong(T, k)
      BY <3>5, <3>6, <3>13
    <3>15. /\ l \cap ReadyObjects(r) = {} /\ FreeObjects(r, slab) \cap (l \cup ReadyObjects(r)) = {}
           /\ AllObjects(r, slab) = l \cup ReadyObjects(r) \cup FreeObjects(r, slab)
      BY <3>12, <3>14 DEF Parted
    <3> QED
      BY <3>1, <3>7, <3>9, <3>10, <3>11, <3>13, <3>15
  <2>5. \A d, e \in CPUs : d # e => InHands(d) \cap InHands(e) = {}
    BY DEF OneCPU
  <2> QED
    BY <2>4, <2>5, Zenon DEF ObjectsAccounted
<1>2. ~Sound => ObjectsAccounted
  BY DEF ObjectsAccounted
<1> QED
  BY <1>1, <1>2, AccountSafe, PTL
=============================================================================
