\* A region is unregistered while a fault is handled in it.
CONSTANTS
  CPUs = {c1, c2}
  Pml4s = {m1}
  Objects = {o1}
  Pages = {p1}
  Frames = {f1}
  None = None
  MAX_ADDRESS_SPACES = 1
  BUDDY_PAGE_SIZE = 1
  AddrMod = 2
  TableSpan = 2
  Quiesce = FALSE
SPECIFICATION Spec
INVARIANT MappedInRegion
