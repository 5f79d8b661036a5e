----------------------------- MODULE HeapProofs -----------------------------
(***************************************************************************)
(* The blocks of the kernel heap tile it, no two free neighbours remain,    *)
(* and the blocks in use are those callers hold: for a heap of any size.    *)
(***************************************************************************)
EXTENDS Heap, MathLemmas

-----------------------------------------------------------------------------
(* The inductive invariant *)

\* The first address behind block b.
End(h, b) == b + BLOCK_HEADER + h[b].size

HeadersOK(h) ==
  DOMAIN h \subseteq Addrs /\ \A b \in DOMAIN h : h[b] \in BlockHeaders

StartOK(h) == HeapStart \in DOMAIN h /\ h[HeapStart].prev = NULL

NextOK(h) ==
  \A b \in DOMAIN h :
    /\ h[b].next = NULL => End(h, b) = HeapEnd
    /\ h[b].next # NULL =>
         h[b].next = End(h, b) /\ End(h, b) \in DOMAIN h /\ h[End(h, b)].prev = b

PrevOK(h) ==
  \A b \in DOMAIN h :
    b # HeapStart => h[b].prev \in DOMAIN h /\ h[h[b].prev].next = b

\* The list may not skip a block: no header lies inside another block.  The
\* properties do not say so, and without it a split could reuse an address.
Apart(h) == \A a, b \in DOMAIN h : a < b => End(h, a) <= b

Sound(h) == HeadersOK(h) /\ StartOK(h) /\ NextOK(h) /\ PrevOK(h) /\ Apart(h)

\* Block a and the block behind it are both free.
FreePair(h, a) == h[a].free /\ h[a].next # NULL /\ h[h[a].next].free

InUse(h) == {b \in DOMAIN h : ~h[b].free}

HInv ==
  /\ TypeOK /\ Coalesced
  /\ IF Booted THEN Sound(heap) ELSE DOMAIN heap = {}
  /\ InUse(heap) = DOMAIN live

\* No size callers ask for comes near the end of size_t: room for the
\* allocation header and for rounding up is left (cf. HeapWrap.cfg).
SizesFit ==
  /\ \A size \in Sizes : size + ALLOC_HEADER + 15 < SizeMod
  /\ \A num \in Counts, size \in Sizes :
       ~ProductWraps(num, size) => Product(num, size) + ALLOC_HEADER + 15 < SizeMod

-----------------------------------------------------------------------------
(* Blocks *)

\* Constants and addresses are numbers, NULL is none.
LEMMA Numbers ==
  /\ HeapStart \in Nat \ {0} /\ HeapSize \in Nat /\ HeapEnd \in Nat
  /\ BLOCK_HEADER \in Nat \ {0} /\ ALLOC_HEADER \in Nat \ {0}
  /\ SizeMod \in Nat \ {0} /\ HeaderMod \in Nat \ {0}
  /\ HeapEnd = HeapStart + HeapSize
  /\ BLOCK_HEADER < HeapSize /\ HeapSize < HeaderMod
  /\ Addrs \subseteq Nat /\ NULL \notin Nat /\ NULL \notin Addrs
BY HeapAssumption DEF HeapEnd, Addrs

\* The fields of a header.
LEMMA Fields ==
  ASSUME NEW r \in BlockHeaders
  PROVE  /\ r.size \in Nat /\ r.size <= HeapSize /\ r.free \in BOOLEAN
         /\ r.next \in Addrs \cup {NULL} /\ r.prev \in Addrs \cup {NULL}
         /\ r.asked \in 0..(HeaderMod - 1)
BY Numbers DEF BlockHeaders

\* A block of a sound heap ends inside the heap, behind its own header.
LEMMA BlockEnd ==
  ASSUME NEW h, Sound(h), NEW b \in DOMAIN h
  PROVE  /\ b \in Nat /\ b \in Addrs /\ HeapStart <= b
         /\ h[b].size \in Nat /\ h[b].next \in Addrs \cup {NULL}
         /\ End(h, b) \in Nat /\ b < End(h, b) /\ End(h, b) <= HeapEnd
<1>1. b \in Addrs /\ h[b] \in BlockHeaders
  BY DEF Sound, HeadersOK
<1>2. h[b].size \in Nat /\ h[b].next \in Addrs \cup {NULL}
  BY <1>1, Fields
<1>3. b \in Nat /\ HeapStart <= b
  BY <1>1, Numbers DEF Addrs
<1>4. End(h, b) \in Nat /\ b < End(h, b)
  BY <1>2, <1>3, Numbers DEF End
<1>5. End(h, b) <= HeapEnd
  <2>1. CASE h[b].next = NULL
    BY <2>1, <1>4, Numbers DEF Sound, NextOK
  <2>2. CASE h[b].next # NULL
    <3>1. End(h, b) \in Addrs
      BY <2>2 DEF Sound, NextOK, HeadersOK
    <3> QED
      BY <3>1, <1>4, Numbers DEF Addrs
  <2> QED
    BY <2>1, <2>2
<1> QED
  BY <1>1, <1>2, <1>3, <1>4, <1>5

\* Where a split would cut, and that it does.
Cut(h, b, size, n) ==
  n = b + BLOCK_HEADER + size /\ h[b].size >= size + BLOCK_HEADER + 16

\* g is h with block b cut at n.
IsSplit(h, b, size, n, g) ==
  /\ n \in Addrs /\ n \notin DOMAIN h /\ b < n /\ n < End(h, b)
  /\ DOMAIN g = DOMAIN h \cup {n}
  /\ g[b].size = size /\ g[b].next = n /\ g[b].prev = h[b].prev
  /\ g[b].free = h[b].free /\ g[b].asked = h[b].asked
  /\ g[n].size = h[b].size - size - BLOCK_HEADER /\ g[n].next = h[b].next
  /\ g[n].prev = b /\ g[n].free = TRUE /\ g[n].asked = 0
  /\ \A a \in DOMAIN h \ {b} :
       /\ g[a].size = h[a].size /\ g[a].next = h[a].next
       /\ g[a].prev = IF a = h[b].next THEN n ELSE h[a].prev
       /\ g[a].free = h[a].free /\ g[a].asked = h[a].asked
  /\ \A a \in DOMAIN g : g[a] \in BlockHeaders

\* The headers after a split.
LEMMA SplitFields ==
  ASSUME NEW h, Sound(h), NEW b \in DOMAIN h, NEW size \in Nat,
         NEW n, Cut(h, b, size, n),
         NEW g, g = split_block(h, b, size)
  PROVE  IsSplit(h, b, size, n, g)
<1>0. n = b + BLOCK_HEADER + size /\ h[b].size >= size + BLOCK_HEADER + 16
  BY DEF Cut
<1>1. /\ b \in Nat /\ b \in Addrs /\ HeapStart <= b /\ h[b].size \in Nat
      /\ h[b].size <= HeapSize
      /\ h[b].next \in Addrs \cup {NULL}
      /\ h[b].prev \in Addrs \cup {NULL}
      /\ End(h, b) \in Nat /\ End(h, b) <= HeapEnd
      /\ End(h, b) = b + BLOCK_HEADER + h[b].size
  BY BlockEnd, Fields DEF End, Sound, HeadersOK
<1>2. n \in Nat /\ b < n /\ n < End(h, b) /\ n \in Addrs
  BY <1>0, <1>1, Numbers DEF Addrs
<1>3. n \notin DOMAIN h
  <2> SUFFICES ASSUME n \in DOMAIN h PROVE FALSE
    OBVIOUS
  <2>1. End(h, b) <= n
    BY <1>2 DEF Sound, Apart
  <2> QED
    BY <2>1, <1>1, <1>2
<1>4. g = [a \in DOMAIN h \cup {n} |->
          IF a = n THEN Header(h[b].size - size - BLOCK_HEADER, h[b].next, b)
          ELSE IF a = b THEN [h[b] EXCEPT !.next = n, !.size = size]
          ELSE IF a = h[b].next THEN [h[a] EXCEPT !.prev = n]
          ELSE h[a]]
  BY <1>0, <1>1, Numbers DEF split_block
<1>5. /\ DOMAIN g = DOMAIN h \cup {n}
      /\ g[n] = Header(h[b].size - size - BLOCK_HEADER, h[b].next, b)
      /\ g[b] = [h[b] EXCEPT !.next = n, !.size = size]
      /\ \A a \in DOMAIN h \ {b} :
           g[a] = IF a = h[b].next THEN [h[a] EXCEPT !.prev = n] ELSE h[a]
  BY <1>2, <1>3, <1>4
<1>6. \A a \in DOMAIN h : h[a] \in BlockHeaders
  BY DEF Sound, HeadersOK
<1>7. /\ g[n].size = h[b].size - size - BLOCK_HEADER /\ g[n].next = h[b].next
      /\ g[n].prev = b /\ g[n].free = TRUE /\ g[n].asked = 0
      /\ g[n] \in BlockHeaders
  BY <1>0, <1>1, <1>5, Numbers DEF Header, BlockHeaders
<1>8. /\ g[b].size = size /\ g[b].next = n /\ g[b].prev = h[b].prev
      /\ g[b].free = h[b].free /\ g[b].asked = h[b].asked
      /\ g[b] \in BlockHeaders
  <2>1. size \in 0..HeapSize /\ n \in Addrs \cup {NULL}
    BY <1>0, <1>1, <1>2, Numbers
  <2> QED
    BY <1>5, <1>6, <2>1 DEF BlockHeaders
<1>9. ASSUME NEW a \in DOMAIN h \ {b}
      PROVE  /\ g[a].size = h[a].size /\ g[a].next = h[a].next
             /\ g[a].prev = IF a = h[b].next THEN n ELSE h[a].prev
             /\ g[a].free = h[a].free /\ g[a].asked = h[a].asked
             /\ g[a] \in BlockHeaders
  BY <1>2, <1>5, <1>6 DEF BlockHeaders
<1> QED
  BY <1>2, <1>3, <1>5, <1>7, <1>8, <1>9 DEF IsSplit

\* split_block keeps the heap sound.
LEMMA SplitSound ==
  ASSUME NEW h, Sound(h), NEW b \in DOMAIN h, NEW size \in Nat,
         NEW n, Cut(h, b, size, n),
         NEW g, IsSplit(h, b, size, n, g)
  PROVE  Sound(g)
<1>1. /\ n \in Addrs /\ n \notin DOMAIN h /\ b < n /\ n < End(h, b)
      /\ DOMAIN g = DOMAIN h \cup {n}
      /\ g[b].size = size /\ g[b].next = n /\ g[b].prev = h[b].prev
      /\ g[n].size = h[b].size - size - BLOCK_HEADER /\ g[n].next = h[b].next
      /\ g[n].prev = b
  BY DEF IsSplit
<1>2. \A a \in DOMAIN h \ {b} :
        /\ g[a].size = h[a].size /\ g[a].next = h[a].next
        /\ g[a].prev = IF a = h[b].next THEN n ELSE h[a].prev
  BY DEF IsSplit
<1>3. \A a \in DOMAIN g : g[a] \in BlockHeaders
  BY DEF IsSplit
<1>4. \A a \in DOMAIN h :
        /\ a \in Nat /\ a \in Addrs /\ h[a].size \in Nat
        /\ h[a].next \in Addrs \cup {NULL}
        /\ End(h, a) \in Nat /\ a < End(h, a)
  BY BlockEnd
<1>5. n \in Nat /\ n # NULL /\ b # n
  BY <1>1, <1>4, Numbers
<1>6. /\ End(g, b) = n /\ End(g, n) = End(h, b)
      /\ \A a \in DOMAIN h \ {b} : End(g, a) = End(h, a)
  BY <1>1, <1>2, <1>4, <1>5, Numbers DEF End, Cut
<1>7. HeadersOK(g)
  BY <1>1, <1>3 DEF HeadersOK, Sound
<1>8. StartOK(g)
  <2>1. HeapStart \in DOMAIN h /\ h[HeapStart].prev = NULL
    BY DEF Sound, StartOK
  <2>2. HeapStart # h[b].next
    <3>1. h[b].next # NULL => End(h, b) = h[b].next
      BY DEF Sound, NextOK
    <3>2. b < End(h, b) /\ HeapStart <= b /\ HeapStart \in Nat
      BY BlockEnd, Numbers
    <3> QED
      BY <3>1, <3>2, <1>4, Numbers
  <2> QED
    BY <2>1, <2>2, <1>1, <1>2 DEF StartOK
<1>9. NextOK(g)
  <2>1. /\ g[b].next # NULL
        /\ g[b].next = End(g, b) /\ End(g, b) \in DOMAIN g /\ g[End(g, b)].prev = b
    BY <1>1, <1>5, <1>6
  <2>2. /\ g[n].next = NULL => End(g, n) = HeapEnd
        /\ g[n].next # NULL =>
             g[n].next = End(g, n) /\ End(g, n) \in DOMAIN g /\ g[End(g, n)].prev = n
    <3>1. /\ h[b].next = NULL => End(h, b) = HeapEnd
          /\ h[b].next # NULL => h[b].next = End(h, b) /\ End(h, b) \in DOMAIN h
      BY DEF Sound, NextOK
    <3>2. End(h, b) # b
      BY <1>4
    <3> QED
      BY <3>1, <3>2, <1>1, <1>2, <1>6
  <2>3. ASSUME NEW a \in DOMAIN h \ {b}
        PROVE  /\ g[a].next = NULL => End(g, a) = HeapEnd
               /\ g[a].next # NULL =>
                    g[a].next = End(g, a) /\ End(g, a) \in DOMAIN g /\ g[End(g, a)].prev = a
    <3>1. /\ h[a].next = NULL => End(h, a) = HeapEnd
          /\ h[a].next # NULL =>
               h[a].next = End(h, a) /\ End(h, a) \in DOMAIN h /\ h[End(h, a)].prev = a
          /\ h[b].next # NULL =>
               h[b].next = End(h, b) /\ h[End(h, b)].prev = b
      BY DEF Sound, NextOK
    <3>2. g[a].next = h[a].next /\ End(g, a) = End(h, a)
      BY <1>2, <1>6
    <3>3. ASSUME h[a].next # NULL
          PROVE  g[End(h, a)].prev = a
      <4>1. End(h, a) # h[b].next
        BY <3>1, <3>3
      <4> QED
        BY <4>1, <3>1, <3>3, <1>1, <1>2
    <3> QED
      BY <3>1, <3>2, <3>3, <1>1
  <2> QED
    BY <2>1, <2>2, <2>3, <1>1 DEF NextOK
<1>10. PrevOK(g)
  <2>1. g[n].prev \in DOMAIN g /\ g[g[n].prev].next = n
    BY <1>1
  <2>2. ASSUME NEW a \in DOMAIN h, a # HeapStart
        PROVE  g[a].prev \in DOMAIN g /\ g[g[a].prev].next = a
    <3>1. h[a].prev \in DOMAIN h /\ h[h[a].prev].next = a
      BY <2>2 DEF Sound, PrevOK
    <3>2. h[a].prev # b => a # h[b].next
      <4>1. h[b].next # NULL => h[h[b].next].prev = b
        BY DEF Sound, NextOK
      <4> QED
        BY <4>1, <1>4, Numbers
    <3>3. h[b].next # b
      BY <1>4, Numbers DEF Sound, NextOK
    <3>4. CASE a = h[b].next
      BY <3>3, <3>4, <1>1, <1>2
    <3>5. CASE a # h[b].next
      <4>1. h[a].prev # b
        BY <3>1, <3>5
      <4>2. g[a].prev = h[a].prev
        BY <3>5, <1>1, <1>2
      <4> QED
        BY <4>1, <4>2, <3>1, <1>1, <1>2
    <3> QED
      BY <3>4, <3>5
  <2> QED
    BY <2>1, <2>2, <1>1 DEF PrevOK
<1>11. Apart(g)
  <2> SUFFICES ASSUME NEW a \in DOMAIN g, NEW d \in DOMAIN g, a < d
               PROVE  End(g, a) <= d
    BY DEF Apart
  <2>1. \A x, y \in DOMAIN h : x < y => End(h, x) <= y
    BY DEF Sound, Apart
  <2>2. CASE a = n
    <3>1. d \in DOMAIN h /\ b < d
      BY <2>2, <1>1, <1>4, <1>5
    <3> QED
      BY <3>1, <2>1, <2>2, <1>6
  <2>3. CASE a = b
    <3>1. CASE d = n
      BY <3>1, <2>3, <1>5, <1>6
    <3>2. CASE d \in DOMAIN h
      <4>1. End(h, b) <= d
        BY <3>2, <2>1, <2>3
      <4> QED
        BY <4>1, <3>2, <2>3, <1>1, <1>4, <1>5, <1>6
    <3> QED
      BY <3>1, <3>2, <1>1
  <2>4. CASE a \in DOMAIN h \ {b}
    <3>1. CASE d = n
      <4>1. ~(b < a)
        <5> SUFFICES ASSUME b < a PROVE FALSE
          OBVIOUS
        <5>1. End(h, b) <= a
          BY <2>1, <2>4
        <5> QED
          BY <5>1, <3>1, <2>4, <1>1, <1>4, <1>5
      <4>2. End(h, a) <= b
        BY <4>1, <2>1, <2>4, <1>4
      <4> QED
        BY <4>2, <3>1, <2>4, <1>1, <1>4, <1>5, <1>6
    <3>2. CASE d \in DOMAIN h
      BY <3>2, <2>1, <2>4, <1>6
    <3> QED
      BY <3>1, <3>2, <1>1
  <2> QED
    BY <2>2, <2>3, <2>4, <1>1
<1> QED
  BY <1>7, <1>8, <1>9, <1>10, <1>11 DEF Sound

\* g is h with block n, behind b and free, part of b.
IsMerge(h, b, n, g) ==
  /\ n \in DOMAIN h /\ n = h[b].next /\ n = End(h, b) /\ n # b /\ h[n].free
  /\ DOMAIN g = DOMAIN h \ {n}
  /\ g[b].size = h[b].size + BLOCK_HEADER + h[n].size
  /\ g[b].next = h[n].next /\ g[b].prev = h[b].prev
  /\ g[b].free = h[b].free /\ g[b].asked = h[b].asked
  /\ \A a \in DOMAIN h \ {b, n} :
       /\ g[a].size = h[a].size /\ g[a].next = h[a].next
       /\ g[a].prev = IF a = h[n].next THEN b ELSE h[a].prev
       /\ g[a].free = h[a].free /\ g[a].asked = h[a].asked
  /\ \A a \in DOMAIN g : g[a] \in BlockHeaders

\* What SwallowNext does: nothing, or merge.
LEMMA SwallowFields ==
  ASSUME NEW h, Sound(h), NEW b \in DOMAIN h, NEW g, g = SwallowNext(h, b)
  PROVE  \/ g = h /\ ~(h[b].next # NULL /\ h[h[b].next].free)
         \/ IsMerge(h, b, h[b].next, g)
<1> DEFINE n == h[b].next
<1>1. CASE n = NULL \/ ~h[n].free
  BY <1>1 DEF SwallowNext
<1>2. CASE n # NULL /\ h[n].free
  <2>1. /\ n = End(h, b) /\ n \in DOMAIN h /\ h[n].prev = b
        /\ \A a \in DOMAIN h : h[a] \in BlockHeaders
        /\ h[b] \in BlockHeaders /\ h[n] \in BlockHeaders
    BY <1>2 DEF Sound, NextOK, HeadersOK
  <2>2. /\ b \in Nat /\ n \in Nat /\ b < n /\ b \in Addrs
        /\ h[b].size \in Nat /\ h[n].size \in Nat
        /\ End(h, n) \in Nat /\ End(h, n) <= HeapEnd
        /\ h[n].next \in Addrs \cup {NULL} /\ HeapStart <= b
    BY <2>1, BlockEnd
  <2>3. /\ h[b].size + BLOCK_HEADER + h[n].size \in 0..HeapSize
        /\ End(h, n) = b + BLOCK_HEADER + h[b].size + BLOCK_HEADER + h[n].size
    <3>1. n = b + BLOCK_HEADER + h[b].size
      BY <2>1 DEF End
    <3>2. End(h, n) = n + BLOCK_HEADER + h[n].size
      BY DEF End
    <3> HIDE DEF n
    <3> QED
      BY <3>1, <3>2, <2>2, Numbers
  <2>4. g = [a \in DOMAIN h \ {n} |->
          IF a = b THEN [h[b] EXCEPT !.size = @ + BLOCK_HEADER + h[n].size,
                                     !.next = h[n].next]
          ELSE IF a = h[n].next THEN [h[a] EXCEPT !.prev = b]
          ELSE h[a]]
    BY <1>2 DEF SwallowNext
  <2>5. /\ DOMAIN g = DOMAIN h \ {n}
        /\ g[b] = [h[b] EXCEPT !.size = @ + BLOCK_HEADER + h[n].size,
                               !.next = h[n].next]
        /\ \A a \in DOMAIN h \ {b, n} :
             g[a] = IF a = h[n].next THEN [h[a] EXCEPT !.prev = b] ELSE h[a]
    BY <2>2, <2>4
  <2> DEFINE m == h[b].size + BLOCK_HEADER + h[n].size
             q == h[n].next
  <2>6. g[b] = [h[b] EXCEPT !.size = m, !.next = q]
    BY <2>5
  <2> HIDE DEF n, m, q
  <2>7. /\ g[b].size = m /\ g[b].next = q /\ g[b].prev = h[b].prev
        /\ g[b].free = h[b].free /\ g[b].asked = h[b].asked
        /\ g[b] \in BlockHeaders
    <3>1. m \in 0..HeapSize /\ q \in Addrs \cup {NULL}
      BY <2>2, <2>3 DEF m, q
    <3> QED
      BY <2>1, <2>6, <3>1 DEF BlockHeaders
  <2>8. ASSUME NEW a \in DOMAIN h \ {b, n}
        PROVE  /\ g[a].size = h[a].size /\ g[a].next = h[a].next
               /\ g[a].prev = IF a = q THEN b ELSE h[a].prev
               /\ g[a].free = h[a].free /\ g[a].asked = h[a].asked
               /\ g[a] \in BlockHeaders
    <3>1. g[a] = IF a = q THEN [h[a] EXCEPT !.prev = b] ELSE h[a]
      BY <2>5 DEF q
    <3> QED
      BY <3>1, <2>1, <2>2 DEF BlockHeaders
  <2>9. n # b
    BY <2>2
  <2> QED
    BY <1>2, <2>1, <2>5, <2>7, <2>8, <2>9 DEF IsMerge, n, m, q
<1> QED
  BY <1>1, <1>2

\* A merge keeps the heap sound.
LEMMA MergeSound ==
  ASSUME NEW h, Sound(h), NEW b \in DOMAIN h, NEW n, NEW g, IsMerge(h, b, n, g)
  PROVE  Sound(g)
<1>1. /\ n \in DOMAIN h /\ n = h[b].next /\ n = End(h, b) /\ n # b
      /\ DOMAIN g = DOMAIN h \ {n}
      /\ g[b].size = h[b].size + BLOCK_HEADER + h[n].size
      /\ g[b].next = h[n].next /\ g[b].prev = h[b].prev
  BY DEF IsMerge
<1>2. \A a \in DOMAIN h \ {b, n} :
        /\ g[a].size = h[a].size /\ g[a].next = h[a].next
        /\ g[a].prev = IF a = h[n].next THEN b ELSE h[a].prev
  BY DEF IsMerge
<1>3. \A a \in DOMAIN g : g[a] \in BlockHeaders
  BY DEF IsMerge
<1>4. \A a \in DOMAIN h :
        /\ a \in Nat /\ a \in Addrs /\ h[a].size \in Nat /\ HeapStart <= a
        /\ h[a].next \in Addrs \cup {NULL}
        /\ End(h, a) \in Nat /\ a < End(h, a) /\ a # NULL
  BY BlockEnd, Numbers
<1>5. \A a \in DOMAIN h :
        /\ h[a].next = NULL => End(h, a) = HeapEnd
        /\ h[a].next # NULL =>
             h[a].next = End(h, a) /\ End(h, a) \in DOMAIN h /\ h[End(h, a)].prev = a
  BY DEF Sound, NextOK
<1>6. h[n].prev = b /\ b < n
  BY <1>1, <1>4, <1>5
<1>7. /\ End(g, b) = End(h, n)
      /\ \A a \in DOMAIN h \ {b, n} : End(g, a) = End(h, a)
  <2>1. End(h, n) = n + BLOCK_HEADER + h[n].size /\ n = b + BLOCK_HEADER + h[b].size
    BY <1>1 DEF End
  <2>2. End(g, b) = End(h, n)
    BY <2>1, <1>1, <1>4, Numbers DEF End
  <2> QED
    BY <2>2, <1>2 DEF End
<1>8. HeadersOK(g)
  BY <1>1, <1>3, <1>4 DEF HeadersOK
<1>9. StartOK(g)
  <2>1. HeapStart \in DOMAIN h /\ h[HeapStart].prev = NULL
    BY DEF Sound, StartOK
  <2>2. HeapStart # n /\ HeapStart # h[n].next
    BY <1>1, <1>4, <1>5, <1>6, <2>1
  <2> QED
    BY <2>1, <2>2, <1>1, <1>2 DEF StartOK
<1>10. NextOK(g)
  <2>1. /\ g[b].next = NULL => End(g, b) = HeapEnd
        /\ g[b].next # NULL =>
             g[b].next = End(g, b) /\ End(g, b) \in DOMAIN g /\ g[End(g, b)].prev = b
    <3>1. End(h, n) # n /\ End(h, n) # b
      BY <1>1, <1>4, <1>6
    <3> QED
      BY <3>1, <1>1, <1>2, <1>5, <1>7
  <2>2. ASSUME NEW a \in DOMAIN h \ {b, n}
        PROVE  /\ g[a].next = NULL => End(g, a) = HeapEnd
               /\ g[a].next # NULL =>
                    g[a].next = End(g, a) /\ End(g, a) \in DOMAIN g /\ g[End(g, a)].prev = a
    <3>1. g[a].next = h[a].next /\ End(g, a) = End(h, a)
      BY <1>2, <1>7
    <3>2. ASSUME h[a].next # NULL
          PROVE  End(h, a) \in DOMAIN g /\ g[End(h, a)].prev = a
      <4>1. End(h, a) \in DOMAIN h /\ h[End(h, a)].prev = a
        BY <3>2, <1>5
      <4>2. End(h, a) # n
        BY <4>1, <1>6
      <4>3. End(h, a) # h[n].next
        BY <4>1, <1>1, <1>4, <1>5
      <4> QED
        BY <4>1, <4>2, <4>3, <1>1, <1>2
    <3> QED
      BY <3>1, <3>2, <1>5
  <2> QED
    BY <2>1, <2>2, <1>1 DEF NextOK
<1>11. PrevOK(g)
  <2> SUFFICES ASSUME NEW a \in DOMAIN g, a # HeapStart
               PROVE  g[a].prev \in DOMAIN g /\ g[g[a].prev].next = a
    BY DEF PrevOK
  <2>1. a \in DOMAIN h /\ a # n /\ h[a].prev \in DOMAIN h /\ h[h[a].prev].next = a
    BY <1>1 DEF Sound, PrevOK
  <2>2. CASE a = h[n].next
    BY <2>1, <2>2, <1>1, <1>2, <1>4, <1>5, <1>6
  <2>3. CASE a # h[n].next
    <3>1. h[a].prev # n /\ h[a].prev # b
      BY <2>1, <2>3, <1>1
    <3>2. g[a].prev = h[a].prev
      BY <2>1, <2>3, <1>1, <1>2
    <3> QED
      BY <3>1, <3>2, <2>1, <1>1, <1>2
  <2> QED
    BY <2>2, <2>3
<1>12. Apart(g)
  <2> SUFFICES ASSUME NEW a \in DOMAIN g, NEW d \in DOMAIN g, a < d
               PROVE  End(g, a) <= d
    BY DEF Apart
  <2>1. \A x, y \in DOMAIN h : x < y => End(h, x) <= y
    BY DEF Sound, Apart
  <2>2. CASE a = b
    <3>1. n <= d
      BY <2>1, <2>2, <1>1
    <3>2. n < d
      BY <3>1, <1>1, <1>4
    <3> QED
      BY <3>2, <2>1, <2>2, <1>1, <1>7
  <2>3. CASE a # b
    BY <2>1, <2>3, <1>1, <1>7
  <2> QED
    BY <2>2, <2>3
<1> QED
  BY <1>8, <1>9, <1>10, <1>11, <1>12 DEF Sound

\* g is h with the free flag and the size asked for of block b changed.
IsMark(h, b, f, q, g) ==
  /\ DOMAIN g = DOMAIN h /\ g[b].free = f /\ g[b].asked = q
  /\ \A a \in DOMAIN h :
       /\ g[a].size = h[a].size /\ g[a].next = h[a].next /\ g[a].prev = h[a].prev
       /\ a # b => g[a].free = h[a].free /\ g[a].asked = h[a].asked
  /\ \A a \in DOMAIN g : g[a] \in BlockHeaders

\* The headers after kmalloc or kfree has set the two fields.
LEMMA MarkFields ==
  ASSUME NEW h, Sound(h), NEW b \in DOMAIN h, NEW f \in BOOLEAN,
         NEW q \in 0..(HeaderMod - 1),
         NEW g, g = [h EXCEPT ![b].free = f, ![b].asked = q]
  PROVE  IsMark(h, b, f, q, g)
<1>1. \A a \in DOMAIN h : h[a] \in BlockHeaders
  BY DEF Sound, HeadersOK
<1>2. /\ DOMAIN g = DOMAIN h
      /\ \A a \in DOMAIN h \ {b} : g[a] = h[a]
      /\ g[b] = [h[b] EXCEPT !.free = f, !.asked = q]
  OBVIOUS
<1>3. /\ g[b].free = f /\ g[b].asked = q /\ g[b].size = h[b].size
      /\ g[b].next = h[b].next /\ g[b].prev = h[b].prev
      /\ g[b] \in BlockHeaders
  BY <1>1, <1>2 DEF BlockHeaders
<1> QED
  BY <1>1, <1>2, <1>3 DEF IsMark

\* Such a change keeps the heap sound.
LEMMA MarkSound ==
  ASSUME NEW h, Sound(h), NEW b \in DOMAIN h, NEW f, NEW q,
         NEW g, IsMark(h, b, f, q, g)
  PROVE  Sound(g)
<1>1. /\ DOMAIN g = DOMAIN h
      /\ \A a \in DOMAIN h :
           g[a].size = h[a].size /\ g[a].next = h[a].next /\ g[a].prev = h[a].prev
      /\ \A a \in DOMAIN g : g[a] \in BlockHeaders
  BY DEF IsMark
<1>2. \A a \in DOMAIN h : End(g, a) = End(h, a)
  BY <1>1 DEF End
<1>3. HeadersOK(g) /\ StartOK(g)
  BY <1>1 DEF Sound, HeadersOK, StartOK
<1>4. NextOK(g)
  BY <1>1, <1>2 DEF Sound, NextOK
<1>5. PrevOK(g)
  BY <1>1 DEF Sound, PrevOK
<1>6. Apart(g)
  BY <1>1, <1>2 DEF Sound, Apart
<1> QED
  BY <1>3, <1>4, <1>5, <1>6 DEF Sound

-----------------------------------------------------------------------------
(* kmalloc and kfree as changes of the heap *)

NoPair(h) == \A a \in DOMAIN h : ~FreePair(h, a)

\* Links of a sound heap: the block behind b is a block, lies higher, and is
\* behind no other.
LEMMA Links ==
  ASSUME NEW h, Sound(h), NEW b \in DOMAIN h, h[b].next # NULL
  PROVE  /\ h[b].next \in DOMAIN h /\ h[b].next # b
         /\ h[h[b].next].prev = b /\ h[h[b].next].next # b
         /\ \A a \in DOMAIN h : h[a].next = h[b].next => a = b
<1>1. \A a \in DOMAIN h : h[a].next # NULL =>
        h[a].next = End(h, a) /\ End(h, a) \in DOMAIN h /\ h[End(h, a)].prev = a
  BY DEF Sound, NextOK
<1>2. \A a \in DOMAIN h : a \in Nat /\ End(h, a) \in Nat /\ a < End(h, a) /\ a # NULL
  BY BlockEnd, Numbers
<1>3. h[b].next \in DOMAIN h /\ b < h[b].next /\ h[h[b].next].prev = b
  BY <1>1, <1>2
<1>4. h[h[b].next].next # b
  <2> SUFFICES ASSUME h[h[b].next].next = b PROVE FALSE
    OBVIOUS
  <2>1. h[b].next < b
    BY <1>1, <1>2, <1>3
  <2> QED
    BY <2>1, <1>2, <1>3
<1> QED
  BY <1>1, <1>2, <1>3, <1>4

\* What kmalloc does to the heap: the block found leaves the free ones, others
\* keep their memory, and no free neighbours come about.
IsTake(h, b, total, q, g) ==
  /\ Sound(g) /\ NoPair(g)
  /\ b \in DOMAIN g /\ b \in InUse(g) /\ InUse(g) = InUse(h) \cup {b}
  /\ g[b].asked = q /\ g[b].size >= total
  /\ \A a \in InUse(h) : g[a].size = h[a].size /\ g[a].asked = h[a].asked

\* Take is that change when the block found is free and large enough.
LEMMA TakeEffect ==
  ASSUME NEW h, Sound(h), NoPair(h), NEW b \in DOMAIN h, h[b].free,
         NEW size \in Nat, TotalSize(size) \in Nat, h[b].size >= TotalSize(size),
         NEW g, g = Take(h, b, size)
  PROVE  IsTake(h, b, TotalSize(size), size % HeaderMod, g)
<1> DEFINE t == TotalSize(size)
           n == b + BLOCK_HEADER + t
           k == split_block(h, b, t)
           q == size % HeaderMod
<1>1. q \in 0..(HeaderMod - 1)
  BY Numbers, DivMod
<1>2. h[b].size \in Nat
  BY BlockEnd
<1>3. g = [k EXCEPT ![b].free = FALSE, ![b].asked = q]
  BY DEF Take
<1>4. t \in Nat /\ h[b].size >= t
  OBVIOUS
<1>5. \/ k = h
      \/ Cut(h, b, t, n) /\ IsSplit(h, b, t, n, k)
  <2>1. CASE h[b].size < t + BLOCK_HEADER + 16
    BY <2>1 DEF split_block
  <2>2. CASE h[b].size >= t + BLOCK_HEADER + 16
    <3>1. Cut(h, b, t, n)
      BY <2>2 DEF Cut
    <3> HIDE DEF n, t
    <3> QED
      BY <3>1, <1>4, SplitFields
  <2> QED
    BY <2>1, <2>2, <1>2, <1>4, Numbers
<1> HIDE DEF t, n, k, q
<1>6. Sound(k) /\ b \in DOMAIN k
  BY <1>4, <1>5, SplitSound DEF IsSplit
<1>7. IsMark(k, b, FALSE, q, g)
  BY <1>1, <1>3, <1>6, MarkFields
<1>8. Sound(g)
  BY <1>6, <1>7, MarkSound
<1>9. \A a \in DOMAIN k : a # b => ~FreePair(k, a) \/ k[a].next = b
  <2> SUFFICES ASSUME NEW a \in DOMAIN k, a # b, FreePair(k, a)
               PROVE  k[a].next = b
    OBVIOUS
  <2>1. CASE k = h
    BY <2>1 DEF NoPair
  <2>2. CASE IsSplit(h, b, t, n, k)
    <3>1. CASE a = n
      <4>1. k[a].next = h[b].next /\ h[b].next # NULL
        BY <3>1, <2>2 DEF IsSplit, FreePair
      <4>2. h[b].next \in DOMAIN h /\ h[b].next # b
        BY <4>1, Links
      <4>3. h[h[b].next].free
        BY <4>1, <4>2, <2>2 DEF IsSplit, FreePair
      <4> QED
        BY <4>1, <4>3 DEF NoPair, FreePair
    <3>2. CASE a # n
      <4>1. a \in DOMAIN h \ {b} /\ k[a].next = h[a].next /\ k[a].free = h[a].free
        BY <3>2, <2>2 DEF IsSplit
      <4>2. h[a].next # NULL /\ h[a].next \in DOMAIN h
        BY <4>1, Links DEF FreePair
      <4>3. CASE h[a].next # b
        <5>1. k[h[a].next].free = h[h[a].next].free
          BY <4>2, <4>3, <2>2 DEF IsSplit
        <5> QED
          BY <5>1, <4>1, <4>2 DEF NoPair, FreePair
      <4> QED
        BY <4>1, <4>3
    <3> QED
      BY <3>1, <3>2
  <2> QED
    BY <2>1, <2>2, <1>5
<1>10. NoPair(g)
  <2> SUFFICES ASSUME NEW a \in DOMAIN g, FreePair(g, a) PROVE FALSE
    BY DEF NoPair
  <2>1. a \in DOMAIN k /\ a # b /\ k[a].free /\ k[a].next = g[a].next
    BY <1>7 DEF IsMark, FreePair
  <2>2. k[a].next # NULL /\ k[a].next \in DOMAIN k
    BY <2>1, <1>6, Links DEF FreePair
  <2>3. k[a].next # b /\ k[k[a].next].free
    BY <2>1, <2>2, <1>7 DEF IsMark, FreePair
  <2> QED
    BY <2>1, <2>2, <2>3, <1>9 DEF FreePair
<1>11. /\ b \in DOMAIN g /\ b \in InUse(g) /\ InUse(g) = InUse(k) \cup {b}
       /\ g[b].asked = q /\ g[b].size = k[b].size
       /\ \A a \in InUse(k) \ {b} : g[a].size = k[a].size /\ g[a].asked = k[a].asked
  BY <1>6, <1>7 DEF IsMark, InUse
<1>12. /\ InUse(k) = InUse(h) /\ k[b].size >= t /\ b \notin InUse(h)
       /\ \A a \in InUse(h) : k[a].size = h[a].size /\ k[a].asked = h[a].asked
  <2>1. CASE k = h
    BY <2>1, <1>4 DEF InUse
  <2>2. CASE IsSplit(h, b, t, n, k)
    <3>1. k[b].size = t /\ b \notin InUse(h)
      BY <2>2 DEF IsSplit, InUse
    <3>2. InUse(k) = InUse(h)
      BY <2>2 DEF IsSplit, InUse
    <3>3. \A a \in InUse(h) : k[a].size = h[a].size /\ k[a].asked = h[a].asked
      BY <2>2 DEF IsSplit, InUse
    <3> QED
      BY <3>1, <3>2, <3>3, <1>4
  <2> QED
    BY <2>1, <2>2, <1>5
<1> QED
  BY <1>8, <1>10, <1>11, <1>12 DEF IsTake, t, q

\* What SwallowNext does to the free neighbours: only the pair of b and the
\* block behind it goes away, and it leaves none behind b.
LEMMA SwallowPairs ==
  ASSUME NEW h, Sound(h), NEW b \in DOMAIN h, NEW g, g = SwallowNext(h, b)
  PROVE  /\ Sound(g) /\ b \in DOMAIN g /\ DOMAIN g \subseteq DOMAIN h
         /\ g[b].prev = h[b].prev /\ g[b].free = h[b].free
         /\ InUse(g) = InUse(h)
         /\ \A a \in InUse(h) \ {b} : g[a].size = h[a].size /\ g[a].asked = h[a].asked
         /\ \A a \in DOMAIN g \ {b} : g[a].next = h[a].next /\ g[a].free = h[a].free
         /\ \A a \in DOMAIN g \ {b} : FreePair(g, a) => FreePair(h, a)
         /\ FreePair(g, b) =>
              \E n \in DOMAIN h \ {b} : h[n].prev = b /\ h[n].next # b /\ FreePair(h, n)
<1>1. CASE g = h /\ ~(h[b].next # NULL /\ h[h[b].next].free)
  BY <1>1 DEF FreePair
<1>2. CASE IsMerge(h, b, h[b].next, g)
  <2> DEFINE n == h[b].next
  <2>1. Sound(g)
    BY <1>2, MergeSound
  <2>2. n \in DOMAIN h /\ n # b /\ h[n].free /\ DOMAIN g = DOMAIN h \ {n} /\ n # NULL
    BY <1>2, BlockEnd, Numbers DEF IsMerge
  <2>3. h[n].prev = b /\ h[n].next # b /\ \A a \in DOMAIN h : h[a].next = n => a = b
    BY <2>2, Links
  <2>4. \A a \in DOMAIN h \ {b, n} :
          /\ g[a].size = h[a].size /\ g[a].next = h[a].next
          /\ g[a].free = h[a].free /\ g[a].asked = h[a].asked
    BY <1>2 DEF IsMerge
  <2>5. g[b].free = h[b].free /\ g[b].next = h[n].next /\ g[b].prev = h[b].prev
    BY <1>2 DEF IsMerge
  <2> HIDE DEF n
  <2>6. InUse(g) = InUse(h)
    BY <2>2, <2>4, <2>5 DEF InUse
  <2>7. ASSUME NEW a \in DOMAIN g \ {b}, FreePair(g, a)
        PROVE  FreePair(h, a)
    <3>1. a \in DOMAIN h \ {b, n} /\ g[a].next = h[a].next /\ h[a].next # NULL /\ h[a].free
      BY <2>2, <2>4, <2>7 DEF FreePair
    <3>2. h[a].next # n /\ h[a].next \in DOMAIN h
      BY <3>1, <2>3, Links
    <3>3. g[h[a].next].free = h[h[a].next].free
      BY <3>2, <2>4, <2>5
    <3> QED
      BY <3>1, <3>3, <2>7 DEF FreePair
  <2>8. ASSUME FreePair(g, b)
        PROVE  FreePair(h, n)
    <3>1. h[n].next # NULL /\ g[h[n].next].free
      BY <2>5, <2>8 DEF FreePair
    <3>2. h[n].next \in DOMAIN h /\ h[n].next # n
      BY <3>1, <2>2, Links
    <3>3. g[h[n].next].free = h[h[n].next].free
      BY <3>2, <2>3, <2>4
    <3> QED
      BY <3>1, <3>3, <2>2 DEF FreePair
  <2>9. \A a \in InUse(h) \ {b} : g[a].size = h[a].size /\ g[a].asked = h[a].asked
    BY <2>2, <2>4 DEF InUse
  <2> QED
    BY <2>1, <2>2, <2>3, <2>4, <2>5, <2>6, <2>7, <2>8, <2>9
<1> QED
  BY <1>1, <1>2, SwallowFields

\* What kfree does to the heap: block b is free, others keep their memory, and
\* no free neighbours are left.
IsGive(h, b, g) ==
  /\ Sound(g) /\ NoPair(g) /\ InUse(g) = InUse(h) \ {b}
  /\ \A a \in InUse(g) : g[a].size = h[a].size /\ g[a].asked = h[a].asked

\* Give is that change when the block is in use.
LEMMA GiveEffect ==
  ASSUME NEW h, Sound(h), NoPair(h), NEW b \in DOMAIN h, ~h[b].free,
         NEW g, g = Give(h, b)
  PROVE  IsGive(h, b, g)
<1> DEFINE k == [h EXCEPT ![b].free = TRUE, ![b].asked = 0]
           s == SwallowNext(k, b)
           p == s[b].prev
<1>1. IsMark(h, b, TRUE, 0, k)
  <2>1. 0 \in 0..(HeaderMod - 1)
    BY Numbers
  <2>2. k = [h EXCEPT ![b].free = TRUE, ![b].asked = 0]
    OBVIOUS
  <2> HIDE DEF k
  <2> QED
    BY <2>1, <2>2, MarkFields
<1>2. s = SwallowNext(k, b)
  OBVIOUS
<1>3. g = IF p # NULL /\ s[p].free THEN SwallowNext(s, p) ELSE s
  BY DEF Give, coalesce
<1> HIDE DEF k, s
<1>4. Sound(k) /\ b \in DOMAIN k
  BY <1>1, MarkSound DEF IsMark
\* In k only b may be free beside a free block.
<1>5. /\ InUse(k) = InUse(h) \ {b}
      /\ \A a \in InUse(k) : k[a].size = h[a].size /\ k[a].asked = h[a].asked
      /\ \A a \in DOMAIN k \ {b} : FreePair(k, a) => k[a].next = b
  <2>1. InUse(k) = InUse(h) \ {b}
    BY <1>1 DEF IsMark, InUse
  <2>2. \A a \in InUse(k) : k[a].size = h[a].size /\ k[a].asked = h[a].asked
    BY <1>1 DEF IsMark, InUse
  <2>3. ASSUME NEW a \in DOMAIN k \ {b}, FreePair(k, a), k[a].next # b
        PROVE  FALSE
    <3>1. /\ a \in DOMAIN h /\ k[a].next = h[a].next /\ h[a].next # NULL /\ h[a].free
          /\ h[a].next # b
      BY <1>1, <2>3 DEF IsMark, FreePair
    <3>2. h[a].next \in DOMAIN h
      BY <3>1, Links
    <3>3. h[h[a].next].free
      BY <1>1, <2>3, <3>1, <3>2 DEF IsMark, FreePair
    <3> QED
      BY <3>1, <3>3 DEF NoPair, FreePair
  <2> QED
    BY <2>1, <2>2, <2>3
<1>6. /\ Sound(s) /\ b \in DOMAIN s /\ DOMAIN s \subseteq DOMAIN k
      /\ InUse(s) = InUse(k)
      /\ \A a \in InUse(k) : s[a].size = k[a].size /\ s[a].asked = k[a].asked
      /\ \A a \in DOMAIN s : FreePair(s, a) => s[a].next = b /\ a # b
      /\ s[b].free
  <2>1. k[b].free /\ b \notin InUse(k)
    BY <1>1 DEF IsMark, InUse
  <2>2. /\ Sound(s) /\ b \in DOMAIN s /\ DOMAIN s \subseteq DOMAIN k
        /\ InUse(s) = InUse(k) /\ s[b].free = k[b].free
        /\ \A a \in InUse(k) \ {b} : s[a].size = k[a].size /\ s[a].asked = k[a].asked
        /\ \A a \in DOMAIN s \ {b} : s[a].next = k[a].next
        /\ \A a \in DOMAIN s \ {b} : FreePair(s, a) => FreePair(k, a)
        /\ FreePair(s, b) =>
             \E n \in DOMAIN k \ {b} : k[n].prev = b /\ k[n].next # b /\ FreePair(k, n)
    BY <1>2, <1>4, SwallowPairs
  <2>3. ~FreePair(s, b)
    BY <2>2, <1>5
  <2>4. ASSUME NEW a \in DOMAIN s, FreePair(s, a) PROVE s[a].next = b /\ a # b
    BY <2>2, <2>3, <2>4, <1>5
  <2> QED
    BY <2>1, <2>2, <2>4
<1>7. /\ p # NULL => p \in DOMAIN s /\ s[p].next = b /\ p # b
      /\ \A a \in DOMAIN s : s[a].next = b => a = p /\ p # NULL
  <2>1. \A a \in DOMAIN s : a # NULL /\ a \in Nat
    BY <1>6, BlockEnd, Numbers
  <2>2. p # NULL => p \in DOMAIN s /\ s[p].next = b
    BY <1>6 DEF Sound, StartOK, PrevOK
  <2>3. ASSUME NEW a \in DOMAIN s, s[a].next = b PROVE a = p /\ a # b
    BY <2>1, <2>3, <1>6, Links
  <2> QED
    BY <2>1, <2>2, <2>3
<1> HIDE DEF p
<1>8. CASE p # NULL /\ s[p].free
  <2>1. g = SwallowNext(s, p) /\ p \in DOMAIN s
    BY <1>3, <1>7, <1>8
  <2>2. /\ Sound(g) /\ DOMAIN g \subseteq DOMAIN s /\ InUse(g) = InUse(s)
        /\ \A a \in InUse(s) \ {p} : g[a].size = s[a].size /\ g[a].asked = s[a].asked
        /\ \A a \in DOMAIN g \ {p} : FreePair(g, a) => FreePair(s, a)
        /\ FreePair(g, p) =>
             \E n \in DOMAIN s \ {p} : s[n].prev = p /\ s[n].next # p /\ FreePair(s, n)
    BY <2>1, <1>6, SwallowPairs
  <2>3. p \notin InUse(s)
    BY <1>8 DEF InUse
  <2>4. NoPair(g)
    <3>1. \A a \in DOMAIN s \ {p} : ~FreePair(s, a)
      BY <1>6, <1>7
    <3> QED
      BY <3>1, <2>2 DEF NoPair
  <2> QED
    BY <2>2, <2>3, <2>4, <1>5, <1>6 DEF IsGive
<1>9. CASE ~(p # NULL /\ s[p].free)
  <2>1. g = s
    BY <1>3, <1>9
  <2>2. NoPair(s)
    BY <1>6, <1>7, <1>9 DEF NoPair, FreePair
  <2> QED
    BY <2>1, <2>2, <1>5, <1>6 DEF IsGive
<1> QED
  BY <1>8, <1>9

-----------------------------------------------------------------------------
(* The sizes kmalloc works with *)

\* The size fits in size_t with its header and the rounding.
Fit(size) == size + ALLOC_HEADER + 15 < SizeMod

\* The size of the block kmalloc looks for: a number even if it has wrapped,
\* and, when it has not, room for the header and what is asked for.
LEMMA TotalRoom ==
  ASSUME NEW size \in Nat
  PROVE  /\ TotalSize(size) \in Nat
         /\ Fit(size) => size + ALLOC_HEADER <= TotalSize(size)
<1> DEFINE a == ALLOC_HEADER + size
           x == a % SizeMod
           y == x + 15
           m == y % SizeMod
           r == m % 16
<1>1. a \in Nat /\ a = size + ALLOC_HEADER
  BY Numbers
<1>2. x \in Nat
  <2> HIDE DEF a
  <2> QED
    BY <1>1, Numbers, DivMod
<1>3. m \in Nat
  <2>1. y \in Nat
    BY <1>2
  <2> HIDE DEF y
  <2> QED
    BY <2>1, Numbers, DivMod
<1>4. r \in Nat /\ r <= 15 /\ r <= m
  <2> HIDE DEF m
  <2>1. /\ m \div 16 \in Int /\ m % 16 \in 0..15 /\ m = 16 * (m \div 16) + (m % 16)
    BY <1>3, DivMod
  <2> QED
    BY <1>3, <2>1
<1>5. TotalSize(size) = m - r
  BY DEF TotalSize, align16
<1>6. ASSUME Fit(size)
      PROVE  m = a + 15
  <2>1. a + 15 < SizeMod /\ a < SizeMod
    BY <1>1, <1>6, Numbers DEF Fit
  <2>2. x = a
    <3> HIDE DEF a
    <3>1. -SizeMod <= a /\ a < 2 * SizeMod /\ a \in Int /\ a < SizeMod /\ ~(a < 0)
      BY <1>1, <2>1, Numbers
    <3> QED
      BY <3>1, Numbers, ModOnce
  <2>3. y \in Nat /\ y = a + 15
    BY <1>1, <2>2
  <2> HIDE DEF y
  <2>4. -SizeMod <= y /\ y < 2 * SizeMod /\ y \in Int /\ y < SizeMod /\ ~(y < 0)
    BY <1>1, <2>1, <2>3, Numbers
  <2>5. m = y
    BY <2>4, Numbers, ModOnce
  <2> QED
    BY <2>3, <2>5
<1> HIDE DEF m, r, a
<1>7. TotalSize(size) \in Nat
  BY <1>3, <1>4, <1>5
<1>8. Fit(size) => size + ALLOC_HEADER <= TotalSize(size)
  BY <1>1, <1>3, <1>4, <1>5, <1>6
<1> QED
  BY <1>7, <1>8

\* A size that some block has room for is the size its header records.
LEMMA AskedExact ==
  ASSUME NEW size \in Nat, size <= HeapSize
  PROVE  size % HeaderMod = size
<1>1. size \in Int /\ -HeaderMod <= size /\ size < 2 * HeaderMod
      /\ size < HeaderMod /\ ~(size < 0)
  BY Numbers
<1> QED
  BY <1>1, Numbers, ModOnce

\* The list search returns a block that fits.
LEMMA FirstFits ==
  ASSUME HInv, boot = "up", NEW size, Fits(size) # {}
  PROVE  FirstFit(size) \in Fits(size)
<1>1. Fits(size) \in SUBSET Nat
  BY Numbers DEF Fits, HInv, TypeOK
<1>2. \E b \in Fits(size) : \A d \in Fits(size) : b <= d
  BY <1>1, LeastNat
<1> QED
  BY <1>2 DEF FirstFit

-----------------------------------------------------------------------------
(* The steps *)

\* Each block in use has room for its header and for what its caller may use.
Room ==
  \A p \in DOMAIN live :
    live[p] <= heap[p].asked /\ heap[p].asked + ALLOC_HEADER <= heap[p].size

\* What the calls leave alone.
OtherKept == UNCHANGED <<g_slab_initialized, caches, boot>>

\* A call that leaves a sound heap, no free neighbours and the right blocks in
\* use keeps the invariant.
LEMMA Reassemble ==
  ASSUME HInv, boot = "up", OtherKept,
         Sound(heap'), NoPair(heap'), InUse(heap') = DOMAIN live',
         \A p \in DOMAIN live' : live'[p] \in 1..(SizeMod - 1)
  PROVE  HInv'
<1>1. TypeOK'
  BY DEF HInv, TypeOK, OtherKept, Sound, HeadersOK, InUse
<1>2. Coalesced'
  BY DEF NoPair, FreePair, Coalesced
<1>3. Booted'
  BY DEF Booted, OtherKept
<1> QED
  BY <1>1, <1>2, <1>3 DEF HInv

\* The invariant when the system is up.
LEMMA UpFacts ==
  ASSUME HInv, boot = "up"
  PROVE  /\ Sound(heap) /\ NoPair(heap) /\ InUse(heap) = DOMAIN live
         /\ DOMAIN live \subseteq DOMAIN heap
         /\ \A p \in DOMAIN live : ~heap[p].free /\ p \in Nat /\ p # NULL
         /\ \A p \in DOMAIN live : live[p] \in 1..(SizeMod - 1)
<1>1. Sound(heap) /\ InUse(heap) = DOMAIN live /\ TypeOK
  BY DEF HInv, Booted
<1>2. NoPair(heap)
  BY DEF HInv, Coalesced, NoPair, FreePair
<1> QED
  BY <1>1, <1>2, Numbers DEF InUse, TypeOK

\* kmalloc, also as called by kcalloc and krealloc.
LEMMA AllocateStep ==
  ASSUME HInv, boot = "up", OtherKept,
         NEW size \in 0..(SizeMod - 1), Allocate(size)
  PROVE  HInv' /\ (Room /\ Fit(size) => Room')
<1>0. size \in Nat /\ TotalSize(size) \in Nat
  BY Numbers, TotalRoom
<1>1. CASE UNCHANGED <<heap, live>>
  BY <1>1, UpFacts, Reassemble DEF Room
<1>2. CASE /\ size # 0 /\ Fits(size) # {}
           /\ heap' = Take(heap, FirstFit(size), size)
           /\ live' = With(live, FirstFit(size), size)
  <2> DEFINE b == FirstFit(size)
  <2>1. b \in DOMAIN heap /\ heap[b].free /\ heap[b].size >= TotalSize(size)
    BY <1>2, FirstFits DEF Fits
  <2>2. heap' = Take(heap, b, size) /\ live' = With(live, b, size)
    BY <1>2
  <2> HIDE DEF b
  <2>3. IsTake(heap, b, TotalSize(size), size % HeaderMod, heap')
    BY <1>0, <2>1, <2>2, UpFacts, TakeEffect
  <2>4. DOMAIN live' = DOMAIN live \cup {b} /\ live'[b] = size
        /\ \A a \in DOMAIN live \ {b} : live'[a] = live[a]
    BY <2>2 DEF With
  <2>5. b \notin DOMAIN live
    BY <2>1, UpFacts
  <2>6. HInv'
    <3>1. InUse(heap') = DOMAIN live'
      BY <2>3, <2>4, UpFacts DEF IsTake
    <3>2. \A p \in DOMAIN live' : live'[p] \in 1..(SizeMod - 1)
      BY <1>2, <2>4, UpFacts
    <3> QED
      BY <2>3, <3>1, <3>2, Reassemble DEF IsTake
  <2>7. ASSUME Room, Fit(size)
        PROVE  Room'
    <3>1. size + ALLOC_HEADER <= TotalSize(size)
      BY <1>0, <2>7, TotalRoom
    <3>2. heap'[b].size \in Nat /\ heap'[b].size <= HeapSize
          /\ heap'[b].size >= TotalSize(size) /\ heap'[b].asked = size % HeaderMod
      BY <2>3, Fields DEF IsTake, Sound, HeadersOK
    <3>3. size <= HeapSize
      BY <3>1, <3>2, <1>0, Numbers
    <3>4. heap'[b].asked = size
      BY <3>2, <3>3, <1>0, AskedExact
    <3>5. ASSUME NEW p \in DOMAIN live'
          PROVE  live'[p] <= heap'[p].asked /\ heap'[p].asked + ALLOC_HEADER <= heap'[p].size
      <4>1. CASE p = b
        BY <4>1, <3>1, <3>2, <3>4, <2>4, <1>0, Numbers
      <4>2. CASE p # b
        <5>1. p \in DOMAIN live /\ p \in InUse(heap) /\ live'[p] = live[p]
          BY <4>2, <3>5, <2>4, UpFacts
        <5>2. heap'[p].size = heap[p].size /\ heap'[p].asked = heap[p].asked
          BY <5>1, <2>3 DEF IsTake
        <5> QED
          BY <5>1, <5>2, <2>7 DEF Room
      <4> QED
        BY <4>1, <4>2
    <3> QED
      BY <3>5 DEF Room
  <2> QED
    BY <2>6, <2>7
<1> QED
  BY <1>1, <1>2 DEF Allocate

\* kfree, also as called by krealloc.
LEMMA ReleaseStep ==
  ASSUME HInv, boot = "up", OtherKept, NEW p \in DOMAIN live, Release(p)
  PROVE  HInv' /\ (Room => Room')
<1>1. heap' = Give(heap, p) /\ live' = [a \in DOMAIN live \ {p} |-> live[a]]
  BY DEF Release, Without
<1>2. IsGive(heap, p, heap')
  BY <1>1, UpFacts, GiveEffect
<1>3. DOMAIN live' = DOMAIN live \ {p} /\ \A a \in DOMAIN live' : live'[a] = live[a]
  BY <1>1
<1>4. HInv'
  <2>1. InUse(heap') = DOMAIN live'
    BY <1>2, <1>3, UpFacts DEF IsGive
  <2>2. \A a \in DOMAIN live' : live'[a] \in 1..(SizeMod - 1)
    BY <1>3, UpFacts
  <2> QED
    BY <1>2, <2>1, <2>2, Reassemble DEF IsGive
<1>5. ASSUME Room PROVE Room'
  <2>1. ASSUME NEW a \in DOMAIN live'
        PROVE  live'[a] <= heap'[a].asked /\ heap'[a].asked + ALLOC_HEADER <= heap'[a].size
    <3>1. a \in DOMAIN live /\ a \in InUse(heap') /\ live'[a] = live[a]
      BY <1>2, <1>3, <2>1, UpFacts DEF IsGive
    <3>2. heap'[a].size = heap[a].size /\ heap'[a].asked = heap[a].asked
      BY <3>1, <1>2 DEF IsGive
    <3> QED
      BY <3>1, <3>2, <1>5 DEF Room
  <2> QED
    BY <2>1 DEF Room
<1> QED
  BY <1>4, <1>5

\* krealloc to a larger block: a kmalloc and a kfree of the old block.
LEMMA MoveStep ==
  ASSUME HInv, boot = "up", OtherKept, NEW p \in DOMAIN live,
         NEW size \in 1..(SizeMod - 1), Move(p, size)
  PROVE  HInv' /\ (Room /\ Fit(size) => Room')
<1>0. size \in Nat /\ TotalSize(size) \in Nat
  BY Numbers, TotalRoom
<1>1. CASE UNCHANGED <<heap, live>>
  BY <1>1, UpFacts, Reassemble DEF Room
<1>2. CASE /\ Fits(size) # {}
           /\ heap' = Give(Take(heap, FirstFit(size), size), p)
           /\ live' = With(Without(p), FirstFit(size), size)
  <2> DEFINE b == FirstFit(size)
             k == Take(heap, b, size)
  <2>1. b \in DOMAIN heap /\ heap[b].free /\ heap[b].size >= TotalSize(size)
    BY <1>2, FirstFits DEF Fits
  <2>2. k = Take(heap, b, size) /\ heap' = Give(k, p) /\ live' = With(Without(p), b, size)
    BY <1>2
  <2> HIDE DEF b, k
  <2>3. IsTake(heap, b, TotalSize(size), size % HeaderMod, k)
    BY <1>0, <2>1, <2>2, UpFacts, TakeEffect
  <2>4. b \notin DOMAIN live /\ p # b
    BY <2>1, UpFacts
  <2>5. Sound(k) /\ NoPair(k) /\ p \in DOMAIN k /\ ~k[p].free
    <3>1. p \in InUse(k)
      BY <2>3, UpFacts DEF IsTake
    <3> QED
      BY <3>1, <2>3 DEF IsTake, InUse
  <2>6. IsGive(k, p, heap')
    BY <2>2, <2>5, GiveEffect
  <2>7. /\ DOMAIN live' = (DOMAIN live \ {p}) \cup {b} /\ live'[b] = size
        /\ \A a \in DOMAIN live \ {p} : live'[a] = live[a]
    BY <2>2, <2>4 DEF With, Without
  <2>8. HInv'
    <3>1. InUse(heap') = DOMAIN live'
      BY <2>3, <2>4, <2>6, <2>7, UpFacts DEF IsTake, IsGive
    <3>2. \A a \in DOMAIN live' : live'[a] \in 1..(SizeMod - 1)
      BY <2>7, UpFacts
    <3> QED
      BY <2>6, <3>1, <3>2, Reassemble DEF IsGive
  <2>9. ASSUME Room, Fit(size)
        PROVE  Room'
    <3>0. b \in InUse(heap')
      BY <2>3, <2>4, <2>6 DEF IsTake, IsGive
    <3>1. size + ALLOC_HEADER <= TotalSize(size)
      BY <1>0, <2>9, TotalRoom
    <3>2. k[b].size \in Nat /\ k[b].size <= HeapSize
          /\ k[b].size >= TotalSize(size) /\ k[b].asked = size % HeaderMod
      BY <2>3, Fields DEF IsTake, Sound, HeadersOK
    <3>3. size <= HeapSize
      BY <3>1, <3>2, <1>0, Numbers
    <3>4. k[b].asked = size
      BY <3>2, <3>3, <1>0, AskedExact
    <3>5. ASSUME NEW a \in DOMAIN live'
          PROVE  live'[a] <= heap'[a].asked /\ heap'[a].asked + ALLOC_HEADER <= heap'[a].size
      <4>1. CASE a = b
        <5>1. heap'[b].size = k[b].size /\ heap'[b].asked = k[b].asked
          BY <3>0, <2>6 DEF IsGive
        <5> QED
          BY <5>1, <4>1, <3>1, <3>2, <3>4, <2>7, <1>0, Numbers
      <4>2. CASE a # b
        <5>1. a \in DOMAIN live \ {p} /\ a \in InUse(heap) /\ live'[a] = live[a]
          BY <4>2, <3>5, <2>7, UpFacts
        <5>2. k[a].size = heap[a].size /\ k[a].asked = heap[a].asked
          BY <5>1, <2>3 DEF IsTake
        <5>3. a \in InUse(heap')
          BY <5>1, <2>3, <2>6 DEF IsTake, IsGive
        <5>4. heap'[a].size = k[a].size /\ heap'[a].asked = k[a].asked
          BY <5>3, <2>6 DEF IsGive
        <5> QED
          BY <5>1, <5>2, <5>4, <2>9 DEF Room
      <4> QED
        BY <4>1, <4>2
    <3> QED
      BY <3>5 DEF Room
  <2> QED
    BY <2>8, <2>9
<1> QED
  BY <1>1, <1>2 DEF Move

\* krealloc to a size the block has room for: only what the caller may use
\* changes.
LEMMA ShrinkStep ==
  ASSUME HInv, boot = "up", OtherKept, NEW p \in DOMAIN live,
         NEW size \in 1..(SizeMod - 1), size <= heap[p].asked,
         DOMAIN live' = DOMAIN live, live'[p] = size,
         \A a \in DOMAIN live \ {p} : live'[a] = live[a],
         UNCHANGED heap
  PROVE  HInv' /\ (Room => Room')
<1>1. /\ DOMAIN live' = DOMAIN live /\ live'[p] = size
      /\ \A a \in DOMAIN live \ {p} : live'[a] = live[a]
  OBVIOUS
<1>2. HInv'
  <2>1. \A a \in DOMAIN live' : live'[a] \in 1..(SizeMod - 1)
    BY <1>1, UpFacts
  <2> QED
    BY <1>1, <2>1, UpFacts, Reassemble
<1> QED
  BY <1>1, <1>2 DEF Room

\* heap_init: one free block that fills the heap.
LEMMA InitHeapStep ==
  ASSUME HInv, heap_init
  PROVE  HInv' /\ (Room => Room')
<1> DEFINE r == Header(HeapSize - BLOCK_HEADER, NULL, NULL)
<1>1. /\ DOMAIN heap' = {HeapStart} /\ heap'[HeapStart] = r
      /\ boot = "heap_init" /\ boot' = "heap_enable_slab"
      /\ live' = live /\ g_slab_initialized' = g_slab_initialized
      /\ caches' = IF g_slab_initialized THEN "created" ELSE caches
  BY DEF heap_init
<1>2. /\ r.size = HeapSize - BLOCK_HEADER /\ r.free = TRUE
      /\ r.next = NULL /\ r.prev = NULL /\ r \in BlockHeaders
  BY Numbers DEF Header, BlockHeaders
<1> HIDE DEF r
<1>3. DOMAIN live = {} /\ g_slab_initialized = FALSE /\ caches \in {NULL, "created"}
  BY <1>1 DEF HInv, TypeOK, Booted, InUse
<1>4. HeapStart \in Addrs
  BY Numbers DEF Addrs, HeapEnd
<1>5. Sound(heap')
  <2>1. End(heap', HeapStart) = HeapEnd
    BY <1>1, <1>2, Numbers DEF End
  <2> QED
    BY <2>1, <1>1, <1>2, <1>4, Numbers
       DEF Sound, HeadersOK, StartOK, NextOK, PrevOK, Apart
<1>6. InUse(heap') = {} /\ Coalesced'
  BY <1>1, <1>2 DEF InUse, Coalesced
<1>7. TypeOK'
  BY <1>1, <1>2, <1>3, <1>4 DEF TypeOK
<1>8. HInv'
  BY <1>1, <1>3, <1>5, <1>6, <1>7 DEF HInv, Booted
<1> QED
  BY <1>1, <1>3, <1>8 DEF Room

\* heap_enable_slab and steps of others: the heap is left alone.
LEMMA IdleStep ==
  ASSUME HInv, heap_enable_slab \/ UNCHANGED vars
  PROVE  HInv' /\ (Room => Room')
<1>1. UNCHANGED <<heap, live, caches>> /\ (Booted' <=> Booted)
  BY DEF heap_enable_slab, vars, Booted
<1>2. TypeOK'
  BY <1>1 DEF HInv, TypeOK, heap_enable_slab, vars
<1> QED
  BY <1>1, <1>2 DEF HInv, Coalesced, Room

\* One step.  The sizes callers ask for need not fit for the invariant, but
\* must for the blocks to have room.
LEMMA NextStep ==
  ASSUME HInv, [Next]_vars
  PROVE  HInv' /\ (SizesFit /\ Room => Room')
<1>0. \A size \in Sizes : size \in 0..(SizeMod - 1) /\ (SizesFit => Fit(size))
  BY HeapAssumption DEF SizesFit, Fit
<1>1. CASE heap_init
  BY <1>1, InitHeapStep
<1>2. CASE heap_enable_slab \/ UNCHANGED vars
  BY <1>2, IdleStep
<1>3. ASSUME NEW size \in Sizes, kmalloc(size)
      PROVE  HInv' /\ (SizesFit /\ Room => Room')
  BY <1>0, <1>3, AllocateStep DEF kmalloc, OtherKept
<1>4. ASSUME NEW num \in Counts, NEW size \in Sizes, kcalloc(num, size)
      PROVE  HInv' /\ (SizesFit /\ Room => Room')
  <2>1. boot = "up" /\ OtherKept
    BY <1>4 DEF kcalloc, OtherKept
  <2>2. CASE UNCHANGED <<heap, live>>
    BY <2>1, <2>2, UpFacts, Reassemble DEF Room
  <2>3. CASE ~ProductWraps(num, size) /\ Allocate(Product(num, size))
    <3>1. Product(num, size) \in 0..(SizeMod - 1)
      <4> DEFINE m == num * size
      <4>1. m \in Int
        BY HeapAssumption
      <4> HIDE DEF m
      <4> QED
        BY <4>1, Numbers, DivMod DEF Product, m
    <3>2. SizesFit => Fit(Product(num, size))
      BY <2>3 DEF SizesFit, Fit
    <3> QED
      BY <2>1, <2>3, <3>1, <3>2, AllocateStep
  <2> QED
    BY <1>4, <2>2, <2>3 DEF kcalloc
<1>5. ASSUME NEW p \in DOMAIN live \cup {NULL}, NEW size \in Sizes, krealloc(p, size)
      PROVE  HInv' /\ (SizesFit /\ Room => Room')
  <2>1. boot = "up" /\ OtherKept
    BY <1>5 DEF krealloc, OtherKept
  <2>2. size \in 0..(SizeMod - 1) /\ size \in Nat /\ (SizesFit => Fit(size))
    BY <1>0, Numbers
  <2>3. CASE p = NULL /\ Allocate(size)
    BY <2>1, <2>2, <2>3, AllocateStep
  <2>4. CASE p # NULL /\ size = 0 /\ Release(p)
    BY <2>1, <2>4, ReleaseStep
  <2>5. CASE /\ p # NULL /\ size # 0 /\ size <= heap[p].asked
             /\ live' = [live EXCEPT ![p] = size]
             /\ UNCHANGED heap
    <3>1. p \in DOMAIN live /\ size \in 1..(SizeMod - 1)
      BY <2>2, <2>5, Numbers
    <3>2. /\ DOMAIN live' = DOMAIN live /\ live'[p] = size
          /\ \A a \in DOMAIN live \ {p} : live'[a] = live[a]
          /\ size <= heap[p].asked /\ UNCHANGED heap
      BY <2>5, <3>1
    <3> QED
      BY <2>1, <3>1, <3>2, ShrinkStep
  <2>6. CASE p # NULL /\ size > heap[p].asked /\ Move(p, size)
    <3>1. p \in DOMAIN live /\ heap[p].asked \in Nat
      BY <2>1, <2>6, UpFacts, Fields, Numbers DEF Sound, HeadersOK
    <3>2. size \in 1..(SizeMod - 1)
      BY <2>2, <2>6, <3>1
    <3> QED
      BY <2>1, <2>2, <2>6, <3>1, <3>2, MoveStep
  <2> QED
    BY <1>5, <2>3, <2>4, <2>5, <2>6 DEF krealloc
<1>6. ASSUME NEW p \in DOMAIN live, kfree(p)
      PROVE  HInv' /\ (SizesFit /\ Room => Room')
  BY <1>6, ReleaseStep DEF kfree, OtherKept
<1> QED
  BY <1>1, <1>2, <1>3, <1>4, <1>5, <1>6 DEF Next

-----------------------------------------------------------------------------
(* The theorems *)

\* The invariant holds at the start.
LEMMA InitHInv == Init => HInv /\ Room
BY DEF Init, HInv, Room, TypeOK, Coalesced, Booted, InUse

\* The headers stay sound: the inductive invariant.
THEOREM Invariance == Spec => []HInv
<1>1. Init => HInv
  BY InitHInv
<1>2. HInv /\ [Next]_vars => HInv'
  BY NextStep
<1> QED
  BY <1>1, <1>2, PTL DEF Spec

\* Types: every header stays a header, at an address of the heap.
THEOREM TypeCorrect == Spec => []TypeOK
<1>1. HInv => TypeOK
  BY DEF HInv
<1> QED
  BY <1>1, Invariance, PTL

\* Whatever is allocated and freed, the blocks tile the heap and the list joins
\* them in both directions, even when the sizes asked for wrap around size_t.
THEOREM BlocksTile == Spec => []Tiles
<1>1. HInv => Tiles
  BY DEF HInv, Tiles, Sound, StartOK, NextOK, PrevOK, End
<1> QED
  BY <1>1, Invariance, PTL

\* No two neighbours are free: one coalesce per kfree is enough.
THEOREM FreeCoalesced == Spec => []Coalesced
<1>1. HInv => Coalesced
  BY DEF HInv
<1> QED
  BY <1>1, Invariance, PTL

\* If no size asked for comes within a header of the end of size_t, the blocks
\* in use are those callers hold, each with room for what its caller may use.
THEOREM CallersServed ==
  ASSUME SizesFit
  PROVE  Spec => []Served
<1>1. Init => HInv /\ Room
  BY InitHInv
<1>2. HInv /\ Room /\ [Next]_vars => (HInv /\ Room)'
  BY NextStep
<1>3. HInv /\ Room => Served
  BY DEF HInv, Room, Served, InUse
<1> QED
  BY <1>1, <1>2, <1>3, PTL DEF Spec
=============================================================================
