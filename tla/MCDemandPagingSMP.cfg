\* Two CPUs fault in one region after another of a space with two tables.
CONSTANTS
  CPUs = {c1, c2}
  Pml4s = {m1}
  Objects = {o1}
  Pages = {p1, p2}
  Frames = {f1, f2}
  None = None
  MAX_ADDRESS_SPACES = 1
  BUDDY_PAGE_SIZE = 1
  AddrMod = 4
  TableSpan = 2
  Quiesce = TRUE
SPECIFICATION Spec
SYMMETRY Symmetry
INVARIANTS
  MappedOnce
  NoPageLost
PROPERTY StableMapping
