\* A heap of 256 bytes with the code's header sizes: room for five blocks.
\* Sizes on both sides of a 16-byte boundary, one that needs the whole heap and
\* one that never fits; a product that wraps.
CONSTANTS
  HeapStart = 16
  HeapSize = 256
  NULL = NULL
  BLOCK_HEADER = 32
  ALLOC_HEADER = 12
  SLAB_MAX = 2048
  SizeMod = 1024
  HeaderMod = 512
  Sizes = {0, 4, 5, 40, 212, 213}
  Counts = {0, 2, 64}
SPECIFICATION Spec
INVARIANTS
  TypeOK
  Tiles
  Coalesced
  Served
