\* One CPU is enough: the zone flags of kernel/tests/test_buddy.c.
CONSTANTS
  CPUs = {c1}
  NoCPU = NoCPU
  memory_start = 4
  memory_size = 8
  BUDDY_PAGE_SIZE = 2
  BUDDY_MAX_ORDER = 2
  OrderPages <- MCOrderPages
  BitmapBits = 64
SPECIFICATION Spec
PROPERTY ZoneFlagsServed
