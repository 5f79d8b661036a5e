-------------------------------- MODULE MCCow --------------------------------
(* Instances of Cow for TLC.                                                *)
EXTENDS Cow, TLC

Symmetry == Permutations(Pages) \cup Permutations(Spaces)
=============================================================================
