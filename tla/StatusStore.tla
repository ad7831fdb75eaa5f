------------------------------ MODULE StatusStore ------------------------------
(***************************************************************************)
(* What Redis holds about the ingestion of ONE repository, and the two Lua *)
(* scripts through which the AI service changes it                         *)
(* (fastapi-ai-service/app/infra/cache/cache_client.py).  A script runs    *)
(* atomically, so each is one action on the variables below; the           *)
(* processes that call the scripts are in module IngestionService.         *)
(*                                                                         *)
(* Data is abstracted: commit, counts and error texts are left out, a      *)
(* processing stage is its number, and heartbeat_at is a stamp: stamps are  *)
(* only ever compared, and a new one differs from any that is still held.  *)
(***************************************************************************)
EXTENDS Naturals

CONSTANTS
  Jobs,        \* attempt identities, each minted once by submit_ingestion_job
  NoJob,       \* the empty expected_job_id, and the owner of an absent record
  Stamps       \* values of heartbeat_at

ASSUME JobsAssumption == NoJob \notin Jobs

(* Whatever stamps the attempts and one more process hold, there is another. *)
ASSUME StampsAssumption ==
  /\ Stamps # {}
  /\ \A held \in [Jobs -> Stamps], s \in Stamps :
       \E now \in Stamps : now \notin {held[j] : j \in Jobs} \cup {s}

VARIABLES
  record,      \* the status record (seis:repo-processing-status:{repository})
  fresh,       \* heartbeat_at is at most ingestion_heartbeat_timeout_seconds old
  indexed,     \* the repository is a member of seis:active-ingestions
  staged       \* per attempt: the terminal status of its staged callback, or "none"

storeVars == <<record, fresh, indexed, staged>>

InFlight == {"pending", "queued", "processing"}
Terminal == {"ready", "failed"}

(* GET answers nil / the empty string, which neither cjson nor pydantic decodes. *)
NoStamp    == CHOOSE s \in Stamps : TRUE
Absent     == [job |-> NoJob, status |-> "absent",     stage |-> 0, beat |-> NoStamp]
Unreadable == [job |-> NoJob, status |-> "unreadable", stage |-> 0, beat |-> NoStamp]

Records == [job    : Jobs \cup {NoJob},
            status : InFlight \cup Terminal \cup {"absent", "unreadable"},
            stage  : Nat,
            beat   : Stamps]

StoreTypeOK ==
  /\ record \in Records
  /\ record.job = NoJob <=> record \in {Absent, Unreadable}
  /\ record.job \in Jobs => record.status \in InFlight \cup Terminal
  /\ fresh \in BOOLEAN
  /\ indexed \in BOOLEAN
  /\ staged \in [Jobs -> Terminal \cup {"none"}]

StoreInit ==
  /\ record = Absent
  /\ fresh = TRUE
  /\ indexed = FALSE
  /\ staged = [j \in Jobs |-> "none"]

-----------------------------------------------------------------------------
(* The verdict of the transition script.  Each conjunct is one of its      *)
(* numbered checks; all of them are inside `if current then`, so an absent *)
(* record is never checked.                                                *)

(* Operators named ..._Without... or ..._As... are defective variants of    *)
(* the definition that follows them; the mutant runs put them in its place. *)

OwnedBy_WithoutCheck(expected) == TRUE

(* 1. Attempt ownership. *)
OwnedBy(expected) == expected # NoJob => record.job = expected

NotInFlight_WithoutCheck(expected) == TRUE

(* 2. A new admission may replace a terminal attempt only. *)
NotInFlight(expected) == expected = NoJob => record.status \notin InFlight

TerminalKept_WithoutProgressCheck(expected, mode, status) ==
  (expected # NoJob /\ record.status = "ready") => mode # "heartbeat" /\ status = "ready"

TerminalKept_WithoutReadyCheck(expected, mode, status) ==
  (expected # NoJob /\ record.status \in Terminal) =>
    mode # "heartbeat" /\ status \in Terminal

(* 3. What may still be written over the attempt's own terminal status. *)
TerminalKept(expected, mode, status) ==
  (expected # NoJob /\ record.status \in Terminal) =>
    /\ mode # "heartbeat"
    /\ status \in Terminal
    /\ ~ (record.status = "ready" /\ status = "failed")

(* 4. processing never goes back to pending or queued. *)
NoRegression(expected, status) ==
  (expected # NoJob /\ record.status = "processing")
    => status \notin {"pending", "queued"}

LeaseUnchanged_WithoutStamp(mode, beat) ==
  mode = "reconcile" => record.status \in InFlight

(* 5. Reconciliation fails an attempt only if its lease was not renewed. *)
LeaseUnchanged(mode, beat) ==
  mode = "reconcile" => record.status \in InFlight /\ record.beat = beat

Allows(expected, mode, status, beat) ==
  \/ record = Absent
  \/ /\ record # Unreadable
     /\ OwnedBy(expected)
     /\ NotInFlight(expected)
     /\ TerminalKept(expected, mode, status)
     /\ NoRegression(expected, status)
     /\ LeaseUnchanged(mode, beat)

Commit_WithoutSadd(j, status, stage, beat) ==
  /\ record' = [job |-> j, status |-> status, stage |-> stage, beat |-> beat]
  /\ fresh' = TRUE
  /\ indexed' = FALSE
  /\ staged' = IF status \in Terminal THEN [staged EXCEPT ![j] = status] ELSE staged

(* The write at the end of the script: SET, then SREM and the staging of   *)
(* the terminal callback, or SADD.                                         *)
Commit(j, status, stage, beat) ==
  /\ record' = [job |-> j, status |-> status, stage |-> stage, beat |-> beat]
  /\ fresh' = TRUE
  /\ indexed' = (status \notin Terminal)
  /\ staged' = IF status \in Terminal THEN [staged EXCEPT ![j] = status] ELSE staged

-----------------------------------------------------------------------------
(* The scripts as their callers invoke them. *)

(* Admission: expected_job_id = "", a new PENDING record. *)
CanAdmit == Allows(NoJob, "transition", "pending", NoStamp)
Admit(j, now) == CanAdmit /\ Commit(j, "pending", 0, now)

(* A worker's transition to a stage, to READY or to FAILED. *)
CanMove(j, status) == Allows(j, "transition", status, NoStamp)
Move(j, status, stage, now) == CanMove(j, status) /\ Commit(j, status, stage, now)

(* Reconciliation: FAILED on the evidence of the stamp that was read; the  *)
(* copied record keeps its heartbeat_at.                                   *)
CanReconcile(j, beat) == Allows(j, "reconcile", "failed", beat)
Reconcile(j, beat) == CanReconcile(j, beat) /\ Commit(j, "failed", 0, beat)

(* Heartbeat: only the stamp of an existing record changes; without one    *)
(* the script falls through to the final write with an empty new_json.     *)
CanRenew(j) == Allows(j, "heartbeat", "none", NoStamp)
Renew(j, now) ==
  /\ CanRenew(j)
  /\ record' = IF record = Absent THEN Unreadable ELSE [record EXCEPT !.beat = now]
  /\ indexed' = (indexed \/ record = Absent)
  /\ fresh' = TRUE
  /\ UNCHANGED staged

(* The delete-attempt script. *)
CanDelete(j) == record = Absent \/ (record # Unreadable /\ record.job = j)
Delete(j) ==
  /\ CanDelete(j)
  /\ record' = Absent
  /\ fresh' = TRUE
  /\ indexed' = FALSE
  /\ UNCHANGED staged

(* acknowledge_pending_callback: payload and delivery member go together. *)
Acknowledge(j) ==
  /\ staged' = [staged EXCEPT ![j] = "none"]
  /\ UNCHANGED <<record, fresh, indexed>>

(* remove_from_set(seis:active-ingestions), unconditional. *)
Unindex ==
  /\ indexed' = FALSE
  /\ UNCHANGED <<record, fresh, staged>>

(* Time: ingestion_heartbeat_timeout_seconds pass without a stamp. *)
LeaseExpires ==
  /\ fresh
  /\ record.status \in InFlight
  /\ fresh' = FALSE
  /\ UNCHANGED <<record, indexed, staged>>

(* Time: the record's TTL (six hours after the last write) runs out. *)
RecordExpires ==
  /\ record # Absent
  /\ record' = Absent
  /\ fresh' = TRUE
  /\ UNCHANGED <<indexed, staged>>
=============================================================================
