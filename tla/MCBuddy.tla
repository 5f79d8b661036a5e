------------------------------- MODULE MCBuddy -------------------------------
(* Instances of Buddy for TLC: the table 1ULL << k, and CPU symmetry.       *)
EXTENDS Buddy, TLC

MCOrderPages == [k \in 0..BUDDY_MAX_ORDER |-> 2^k]
Symmetry == Permutations(CPUs)
=============================================================================
