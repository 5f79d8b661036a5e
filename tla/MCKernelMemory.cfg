\* One CPU, 5 pages of 32 bytes of which three are RECLAIMABLE: boot with and
\* without a usable map, then every sequence of calls of the PMM, a cache with a
\* CPU cache of two, and a pool that grows, with memory running out anywhere.
\* Orders are guessed wrong, and slabs are filled to the last byte, too.
CONSTANTS
  BUDDY_PAGE_SIZE = 32
  BUDDY_MAX_ORDER = 1
  OrderPages <- MCOrderPages
  ReclaimablePages = {3, 4, 5}
  CPUs = {c1}
  NULL = NULL
  SLAB_HEADER = 2
  CACHE_LINE_SIZE = 4
  SLAB_CPU_CACHE_SIZE = 2
  Formats <- MCFormats
  MaxCaches = 1
  CHUNK_SIZE = 4
  REGION_HEADER = 8
  CountMod = 64
  PoolFormats <- MCPoolFormats
  MaxPools = 1
  MaxFrames = 2
  Infos <- MCInfos
SPECIFICATION Spec
INVARIANTS
  PagesAccounted
  ObjectsAccounted
  ListsSorted
  ObjectsPlaced
  PoolCountsExact
  ChunksApart
  FramesUsable
  PmmCountExact
