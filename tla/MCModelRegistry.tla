-------------------------- MODULE MCModelRegistry --------------------------
(* ModelRegistry with two training jobs whose run ids differ, and none of  *)
(* their names the same as another's.                                      *)
EXTENDS ModelRegistry, TLC

MCRunIdOf == [j \in Jobs |-> j]

Symmetry == Permutations(Jobs) \cup Permutations(Scripts)
=============================================================================
