\* As Heap.cfg: whether small sizes have a slab cache.
CONSTANTS
  HeapStart = 16
  HeapSize = 256
  NULL = NULL
  BLOCK_HEADER = 32
  ALLOC_HEADER = 12
  SLAB_MAX = 2048
  SizeMod = 1024
  HeaderMod = 512
  Sizes = {0, 4, 5, 40, 212, 213}
  Counts = {0, 2, 64}
SPECIFICATION Spec
INVARIANTS
  SmallFromSlab
