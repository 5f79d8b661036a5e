\* As Heap.cfg, with a size that wraps when the allocation header is added.
CONSTANTS
  HeapStart = 16
  HeapSize = 256
  NULL = NULL
  BLOCK_HEADER = 32
  ALLOC_HEADER = 12
  SLAB_MAX = 2048
  SizeMod = 1024
  HeaderMod = 512
  Sizes = {0, 4, 5, 40, 212, 1020}
  Counts = {0, 2, 64}
SPECIFICATION Spec
INVARIANTS
  Served
