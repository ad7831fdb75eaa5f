----------------------------- MODULE AttemptLedger -----------------------------
(***************************************************************************)
(* What the ingestion service promises about the attempts on one           *)
(* repository, whatever processes, locks, leases and scripts it is made    *)
(* of: at most one attempt is open at a time, an attempt opens once, it is *)
(* settled as failed or ready, only a failure may still be corrected, and  *)
(* no attempt stays open for ever.  IngestionService is shown to implement *)
(* this specification.                                                     *)
(***************************************************************************)
CONSTANTS Jobs, NoJob

VARIABLES
  owner,     \* the attempt the repository's status is about
  phase,     \* "none", "open", "failed" or "ready"
  used       \* attempts that were ever opened

ledger == <<owner, phase, used>>

Init ==
  /\ owner = NoJob
  /\ phase = "none"
  /\ used = {}

Open(j) ==
  /\ phase # "open"
  /\ j \notin used
  /\ owner' = j
  /\ phase' = "open"
  /\ used' = used \cup {j}

Close ==
  /\ phase = "open"
  /\ phase' \in {"failed", "ready"}
  /\ UNCHANGED <<owner, used>>

(* A worker that was given up for dead reports success after all. *)
Correct ==
  /\ phase = "failed"
  /\ phase' = "ready"
  /\ UNCHANGED <<owner, used>>

(* The status is forgotten some hours after its last change. *)
Forget ==
  /\ phase # "none"
  /\ owner' = NoJob
  /\ phase' = "none"
  /\ UNCHANGED used

Next == (\E j \in Jobs : Open(j)) \/ Close \/ Correct \/ Forget

Spec == Init /\ [][Next]_ledger /\ WF_ledger(phase = "open" /\ (Close \/ Forget))
=============================================================================
