\* The objects asked for just fill the pages of the region.
CONSTANTS
  BUDDY_PAGE_SIZE = 32
  BUDDY_MAX_ORDER = 1
  OrderPages <- MCOrderPages
  ReclaimablePages = {3, 4, 5}
  CPUs = {c1}
  NULL = NULL
  SLAB_HEADER = 2
  CACHE_LINE_SIZE = 4
  SLAB_CPU_CACHE_SIZE = 2
  Formats <- MCFormats
  MaxCaches = 1
  CHUNK_SIZE = 4
  REGION_HEADER = 8
  CountMod = 64
  PoolFormats <- FullFormats
  MaxPools = 1
  MaxFrames = 1
  Infos <- MCInfos
SPECIFICATION Spec
INVARIANT InitialObjects
