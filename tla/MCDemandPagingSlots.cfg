\* Two page tables, one after the other, and one slot.
CONSTANTS
  CPUs = {c1}
  Pml4s = {m1, m2}
  Objects = {o1}
  Pages = {p1}
  Frames = {f1}
  None = None
  MAX_ADDRESS_SPACES = 1
  BUDDY_PAGE_SIZE = 1
  AddrMod = 2
  TableSpan = 2
  Quiesce = TRUE
SPECIFICATION Spec
INVARIANT SlotsForConcurrent
