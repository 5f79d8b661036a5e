---------------------------- MODULE BoundedQueue ----------------------------
(***************************************************************************)
(* What an input buffer promises: first in, first out, and when Capacity   *)
(* items wait, new ones are dropped and the waiting ones are kept.         *)
(***************************************************************************)
EXTENDS Naturals, Sequences

CONSTANTS Items, Capacity, Nothing

VARIABLES
  q,     \* the items that wait, oldest first
  got    \* what the last read returned

Init == q = <<>> /\ got = Nothing

Put(x) ==
  /\ q' = IF Len(q) < Capacity THEN Append(q, x) ELSE q
  /\ UNCHANGED got

Get == q # <<>> /\ got' = Head(q) /\ q' = Tail(q)
GetNothing == q = <<>> /\ got' = Nothing /\ UNCHANGED q

Next == (\E x \in Items : Put(x)) \/ Get \/ GetNothing

Spec == Init /\ [][Next]_<<q, got>>
=============================================================================
