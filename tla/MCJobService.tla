---------------------------- MODULE MCJobService ----------------------------
(* Symmetry for the safety runs of JobService: job ids and requests are     *)
(* only ever compared for equality.                                         *)
EXTENDS JobService, TLC

JobSymmetry == Permutations(Jobs) \cup Permutations(Requests)
=============================================================================
