\* The VMM has no frame for a page table.
CONSTANTS
  CPUs = {c1}
  Pml4s = {m1}
  Objects = {o1}
  Pages = {p1}
  Frames = {}
  None = None
  MAX_ADDRESS_SPACES = 1
  BUDDY_PAGE_SIZE = 1
  AddrMod = 2
  TableSpan = 2
  Quiesce = TRUE
SPECIFICATION Spec
PROPERTY FaultMaps
