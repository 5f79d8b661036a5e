\* Two CPUs, 5 pages of 2 bytes cut as 4 + 1, orders 0..2.  The region ends in
\* the middle of its last page, as bytes_to_pages rounds up, and the bitmap
\* covers only the first four pages.
CONSTANTS
  CPUs = {c1, c2}
  NoCPU = NoCPU
  memory_start = 4
  memory_size = 9
  BUDDY_PAGE_SIZE = 2
  BUDDY_MAX_ORDER = 2
  OrderPages <- MCOrderPages
  BitmapBits = 4
SPECIFICATION FairSpec
INVARIANTS
  TypeOK
  MutualExclusion
  NoOverlap
  NoLeak
  Aligned
  CountsExact
  BitmapExact
  Coalesced
PROPERTIES
  ImplementsPageAllocator
  LockReleased
