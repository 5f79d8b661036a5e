\* One CPU, two page tables, one slot, two region objects, two pages, addresses
\* that wrap, a frame for one table of two: every sequence of calls.
CONSTANTS
  CPUs = {c1}
  Pml4s = {m1, m2}
  Objects = {o1, o2}
  Pages = {p1, p2}
  Frames = {f1}
  None = None
  MAX_ADDRESS_SPACES = 1
  BUDDY_PAGE_SIZE = 2
  AddrMod = 8
  TableSpan = 4
  Quiesce = TRUE
SPECIFICATION Spec
SYMMETRY Symmetry
INVARIANTS
  TypeOK
  RegionsDisjoint
  MappedInRegion
