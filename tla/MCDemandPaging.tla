---------------------------- MODULE MCDemandPaging ----------------------------
(* Instances of DemandPaging for TLC.                                       *)
EXTENDS DemandPaging, TLC

Symmetry == Permutations(Pages) \cup Permutations(Objects)
              \cup Permutations(CPUs) \cup Permutations(Frames)
=============================================================================
