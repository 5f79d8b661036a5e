--------------------------- MODULE MCKernelMemory ---------------------------
(* Instances of KernelMemory for TLC: pages of 32 bytes, the table 1 << k,  *)
(* and what a boot loader may hand over.                                    *)
EXTENDS KernelMemory, TLC

MCOrderPages == [k \in 0..BUDDY_MAX_ORDER |-> 2^k]

Entry(page, pages, type) == [addr |-> 32 * page, len |-> 32 * pages, type |-> type]
Tag(type, size, map) == [type |-> type, size |-> size, mmap |-> map]
End == Tag(0, 8, <<>>)

\* Low memory, a long reserved entry, then the region; and two regions of the
\* same size, neither of which has RECLAIMABLE pages.
Map1 == <<Entry(0, 1, 1), Entry(10, 9, 2), Entry(2, 5, 1)>>
Map2 == <<Entry(16, 4, 1), Entry(24, 4, 1)>>

\* What a Multiboot2 loader hands over: 8 bytes with the total size and a 0
\* come first, and kernel_main takes them for a tag of size 0.
Multiboot2Infos == { (0 :> Tag(112, 0, <<>>)) @@ (8 :> Tag(6, 88, Map1)) @@ (96 :> End) }

\* That, and what kernel_main would get through with: a map after another tag,
\* two maps of which the last counts, a map without an available entry, no map.
MCInfos == Multiboot2Infos \cup
  { (0 :> Tag(1, 12, <<>>)) @@ (16 :> Tag(6, 88, Map1)) @@ (104 :> End),
    (0 :> Tag(6, 88, Map1)) @@ (88 :> Tag(6, 64, Map2)) @@ (152 :> End),
    (0 :> Tag(6, 40, <<Entry(0, 20, 2)>>)) @@ (40 :> End),
    (0 :> End) }

\* The region ends in the middle of its last page.
PartialInfos == { (0 :> Tag(6, 40, <<[addr |-> 64, len |-> 80, type |-> 1]>>)) @@ (40 :> End) }

\* A slab has two objects and 6 bytes more, one object, or two objects that just
\* fill it; a size above a page is refused.
MCFormats == {<<11, 2>>, <<20, 2>>, <<15, 1>>, <<33, 2>>}

\* A region of two pages for two objects, of one page for one; size 0 is refused.
MCPoolFormats == {<<23, 2>>, <<23, 1>>, <<0, 1>>}
\* A region without room for an object; one without room for all the objects
\* asked for.
EmptyFormats == {<<28, 2>>}
FullFormats == {<<12, 5>>}
=============================================================================
