-------------------------- MODULE MCIngestionService --------------------------
(* Constants of the runs of IngestionService: the attempts are interchangeable. *)
EXTENDS IngestionService, TLC

Symmetry == Permutations(Jobs)

(* No guard reads the vector store or the history `told`.  A run whose       *)
(* properties do not read them either takes states that differ in them alone *)
(* for one state.                                                            *)
WithoutVectors == <<storeVars, processVars, history>>
WithoutVectorsAndTold == <<storeVars, processVars, opened, buried>>
=============================================================================
