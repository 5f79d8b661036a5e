\* Two CPUs, three spaces and enough pages for all of them.
CONSTANTS
  CPUs = {c1, c2}
  Pinners = {c1}
  Spaces = {s1, s2, s3}
  Pages = {p1, p2, p3, p4, p5}
  Contents = {0}
  None = None
  CountMod = 8
  MemoryFails = FALSE
  OneThread = TRUE
SPECIFICATION Spec
SYMMETRY Symmetry
INVARIANTS
  RefCountExact
  NoPageLost
  OneWriter
