\* The caller frees the page of a key it removes, evicted or not.
CONSTANTS
  CPUs = {c1}
  Keys <- MCKeys
  HashOf <- MCHashOf
  Pages = {p1, p2, p3, p4, p5, p6}
  None = None
  MaxHeld = 1
  max_pages = 2
  BlindRemove = TRUE
  HASH_SIZE = 1024
  PTR_SIZE = 8
  BUDDY_PAGE_SIZE = 4096
SPECIFICATION Spec
SYMMETRY Symmetry
INVARIANT OneUse
