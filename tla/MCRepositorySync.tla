--------------------------- MODULE MCRepositorySync ---------------------------
(* Two requests at a time, each drawn from its own set of handlers: the cast *)
(* is chosen in the initial state, so that the state spaces of the pairs of  *)
(* handlers that share rows add up instead of multiplying.                   *)
EXTENDS RepositorySync

CONSTANTS Casts
VARIABLE cast

\* The pairs that write, or read and use, the same rows.
SyncCasts ==
  {<<{"branches", "commits"}, {"commits", "content"}>>,
   <<{"evolution"}, {"commits"}>>,
   <<{"analyse"}, {"branches"}>>,
   <<{"analyse"}, {"getAnalysis"}>>,
   <<{"graph", "files"}, {"branches"}>>,
   <<{"graph"}, {"dashboard"}>>}

Slot(r) == IF r = "r1" THEN 1 ELSE 2

MCInit == Init /\ cast \in Casts

MCNext ==
  /\ cast' = cast
  /\ \/ \E b \in Branches, c \in Commits : Push(b, c)
     \/ \E b, from \in Branches : FastForward(b, from)
     \/ \E r \in Requests, b \in Branches :
          \E k \in Kinds \cap cast[Slot(r)] : Begin(r, k, b)
     \/ \E r \in Requests : Step(r)
     \/ \E c \in Commits : EnrichmentLands(c)
     \/ Restart

MCSpec == MCInit /\ [][MCNext]_<<vars, cast>>
===============================================================================
