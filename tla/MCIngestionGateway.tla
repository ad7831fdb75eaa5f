-------------------------- MODULE MCIngestionGateway --------------------------
(* Constants of the runs of IngestionGateway: requests and commits are      *)
(* interchangeable, attempts are not.                                       *)
EXTENDS IngestionGateway, TLC

Symmetry == Permutations(Requests) \cup Permutations(Commits)
=============================================================================
