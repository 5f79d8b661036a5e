---------------------------- MODULE MCPageCache ----------------------------
(* Instances of PageCache for TLC.                                          *)
EXTENDS PageCache, TLC

\* Four files at offset 0.  hash_function multiplies file_id by 2654435761
\* and keeps the low 10 bits; 433 has the same low 10 bits.  Files 1 and 1025
\* collide, and file 2 falls into the upper half of the table.
MCKeys == {1, 2, 3, 1025}
MCHashOf == [k \in MCKeys |-> (k * 433) % 1024]
Symmetry == Permutations(Pages)
=============================================================================
