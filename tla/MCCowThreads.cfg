\* Two CPUs run the same space and fault on the same page.
CONSTANTS
  CPUs = {c1, c2}
  Pinners = {}
  Spaces = {s1, s2}
  Pages = {p1, p2, p3, p4}
  Contents = {0}
  None = None
  CountMod = 8
  MemoryFails = FALSE
  OneThread = FALSE
SPECIFICATION Spec
SYMMETRY Symmetry
INVARIANT RefCountExact
