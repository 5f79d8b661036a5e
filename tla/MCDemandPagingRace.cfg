\* Two CPUs fault in two regions of one space that share a table.
CONSTANTS
  CPUs = {c1, c2}
  Pml4s = {m1}
  Objects = {o1, o2}
  Pages = {p1, p2}
  Frames = {f1, f2}
  None = None
  MAX_ADDRESS_SPACES = 1
  BUDDY_PAGE_SIZE = 1
  AddrMod = 3
  TableSpan = 3
  Quiesce = TRUE
SPECIFICATION Spec
SYMMETRY Symmetry
PROPERTY StableMapping
