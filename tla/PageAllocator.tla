---------------------------- MODULE PageAllocator ----------------------------
(***************************************************************************)
(* What a page allocator promises its callers, without lists, bitmap or    *)
(* lock: blocks handed out are aligned, lie in the region and overlap no   *)
(* block in use; a request is refused only for lack of an aligned run of   *)
(* free pages, or because it names a zone that has no pages.               *)
(***************************************************************************)
EXTENDS Integers

CONSTANTS
  CPUs,
  Orders,                \* the orders a block can have
  OrderPages,            \* pages of a block of each order
  total_pages,
  Zones,
  BUDDY_ZONE_UNMOVABLE   \* the zone that owns the pages

VARIABLES
  owned,   \* the blocks callers hold: <<first page, order>>
  call     \* call[c]: the state of CPU c's call

absVars == <<owned, call>>

PageIndices == 0..(total_pages - 1)

Set(c, st) == call' = [call EXCEPT ![c] = st]

Init == owned = {} /\ call = [c \in CPUs |-> <<"idle">>]

Apart(b, k, d, l) == b + OrderPages[k] <= d \/ d + OrderPages[l] <= b

\* Blocks in use: with a caller, or handed back but not yet free again.
InUse ==
  owned \cup {<<call[c][2], call[c][3]>> :
                c \in {d \in CPUs : call[d][1] = "free"}}

\* A block of order k that could be handed out.
Available(b, k) ==
  /\ b % OrderPages[k] = 0
  /\ b + OrderPages[k] <= total_pages
  /\ \A x \in InUse : Apart(b, k, x[1], x[2])

Request(c) ==
  /\ call[c] = <<"idle">>
  /\ \/ \E k \in Orders, z \in Zones : Set(c, <<"alloc", k, z>>)
     \/ Set(c, <<"failed">>)     \* an order no block has
  /\ UNCHANGED owned

Grant(c) ==
  /\ call[c][1] = "alloc" /\ call[c][3] = BUDDY_ZONE_UNMOVABLE
  /\ \E b \in PageIndices :
       /\ Available(b, call[c][2])
       /\ owned' = owned \cup {<<b, call[c][2]>>}
       /\ Set(c, <<"got", b, call[c][2]>>)

Refuse(c) ==
  /\ call[c][1] = "alloc"
  /\ call[c][3] = BUDDY_ZONE_UNMOVABLE =>
       \A b \in PageIndices : ~Available(b, call[c][2])
  /\ Set(c, <<"failed">>)
  /\ UNCHANGED owned

GiveBack(c) ==
  /\ call[c] = <<"idle">>
  /\ \E x \in owned :
       /\ owned' = owned \ {x}
       /\ Set(c, <<"free", x[1], x[2]>>)

TakeEffect(c) == call[c][1] = "free" /\ Set(c, <<"freed">>) /\ UNCHANGED owned

Done(c) ==
  /\ call[c][1] \in {"got", "failed", "freed"}
  /\ Set(c, <<"idle">>)
  /\ UNCHANGED owned

Next ==
  \E c \in CPUs : \/ Request(c) \/ Grant(c) \/ Refuse(c)
                  \/ GiveBack(c) \/ TakeEffect(c) \/ Done(c)

Spec == Init /\ [][Next]_absVars
=============================================================================
