\* Two CPUs fault on the same page in two spaces and memory runs out.
CONSTANTS
  CPUs = {c1, c2}
  Pinners = {c1}
  Spaces = {s1, s2}
  Pages = {p1, p2, p3, p4}
  Contents = {0, 1}
  None = None
  CountMod = 8
  MemoryFails = TRUE
  OneThread = TRUE
SPECIFICATION Spec
SYMMETRY Symmetry
INVARIANT RefCountExact
