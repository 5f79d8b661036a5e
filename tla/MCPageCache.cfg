\* Two CPUs, four files of which two share a bucket, room for one page: inserts
\* overlap in the unlocked window of page_cache_insert, the cache fills and
\* evicts, and memory runs out.
CONSTANTS
  CPUs = {c1, c2}
  Keys <- MCKeys
  HashOf <- MCHashOf
  Pages = {p1, p2, p3, p4, p5, p6, p7}
  None = None
  MaxHeld = 1
  max_pages = 1
  BlindRemove = FALSE
  HASH_SIZE = 1024
  PTR_SIZE = 8
  BUDDY_PAGE_SIZE = 4096
SPECIFICATION Spec
SYMMETRY Symmetry
INVARIANTS
  ListsAgree
  OneUse
  NoOtherLost
  Overshoot
