\* One CPU, three spaces, four pages: every sequence of calls, with memory
\* running out at any point.
CONSTANTS
  CPUs = {c1}
  Pinners = {c1}
  Spaces = {s1, s2, s3}
  Pages = {p1, p2, p3, p4}
  Contents = {0, 1}
  None = None
  CountMod = 8
  MemoryFails = TRUE
  OneThread = TRUE
SPECIFICATION Spec
SYMMETRY Symmetry
INVARIANTS
  RefCountExact
  Isolation
  NoEarlyFree
  NoPageLost
