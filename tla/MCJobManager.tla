----------------------------- MODULE MCJobManager -----------------------------
(* Constants of the runs of JobManager. *)
EXTENDS JobManager, TLC

Symmetry == Permutations(Jobs)
=============================================================================
