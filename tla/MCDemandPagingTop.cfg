\* One page table; a region may reach the end of the address space.
CONSTANTS
  CPUs = {c1}
  Pml4s = {m1}
  Objects = {o1}
  Pages = {p1}
  Frames = {f1}
  None = None
  MAX_ADDRESS_SPACES = 1
  BUDDY_PAGE_SIZE = 1
  AddrMod = 2
  TableSpan = 2
  Quiesce = TRUE
SPECIFICATION Spec
INVARIANT RegisteredFound
