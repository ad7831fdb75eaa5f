--------------------------- MODULE IngestionService ---------------------------
(***************************************************************************)
(* The AI service's ingestion of ONE repository: the HTTP submissions, the *)
(* background task of each attempt, its heartbeat loop, the recovery loop, *)
(* shutdown and restart, all around the record of StatusStore.             *)
(*                                                                         *)
(* The service is one asyncio process: what runs between two awaits is one *)
(* action, every await is a point where any other process may run.  An     *)
(* attempt and the submission that mints it share the identity j \in Jobs. *)
(* Express is the environment: it accepts a callback or it does not.       *)
(***************************************************************************)
EXTENDS StatusStore

CONSTANTS
  NumStages,     \* document processing, chunking, embedding, indexing: 4 in the code
  MaxStarts,     \* bound: starts of the service process, the first one included
  MayShutDown    \* the service may be shut down in an orderly way (SIGTERM)

ASSUME ServiceAssumption ==
  /\ NumStages \in Nat \ {0}
  /\ MaxStarts \in Nat \ {0}
  /\ MayShutDown \in BOOLEAN

VARIABLES
  lock,        \* holder of the submission lock (seis:repo-processing-lock:{repository})
  accepting,   \* IngestionJobManager._accepting; FALSE also means _shutting_down
  starts,      \* starts of the process so far
  sub,         \* where each submission is
  sight,       \* the stale record a submission has read
  task,        \* where each attempt's background task is
  stage,       \* stages each task has reported
  beating,     \* where each attempt's heartbeat loop is
  rec,         \* where the recovery loop is, and what it carries
  vectors,     \* the attempt whose chunks were last upserted into the vector store
  told,        \* history, per attempt: the last terminal status Express accepted
  opened,      \* history: attempts whose PENDING record was ever written
  buried       \* history: attempts that were reconciled as FAILED

taskVars    == <<task, stage, beating>>
processVars == <<lock, accepting, starts, sub, sight, taskVars, rec>>
history     == <<told, opened, buried>>
vars        == <<storeVars, processVars, vectors, history>>

SubPc  == {"new", "reading", "reconciling", "telling", "acking", "persisting",
           "dispatching", "discarding", "over"}
TaskPc == {"off", "waiting", "settling", "reporting", "working", "failing",
           "tellready", "ackready", "tellfailed", "ackfailed"}
BeatPc == {"off", "on", "seen"}
RecPc  == {"idle", "scanned", "reconciling", "telling", "acking", "unindexing",
           "listing", "flushing", "checking", "sending", "dropping"}

Sight   == [job : Jobs \cup {NoJob}, beat : Stamps]
Nothing == [job |-> NoJob, beat |-> NoStamp]
Seen    == [job |-> record.job, beat |-> record.beat]
RecIdle == [pc |-> "idle", job |-> NoJob, beat |-> NoStamp, payload |-> "none", todo |-> {}]

TypeOK ==
  /\ StoreTypeOK
  /\ lock \in Jobs \cup {NoJob}
  /\ accepting \in BOOLEAN
  /\ starts \in 1..MaxStarts
  /\ sub \in [Jobs -> SubPc]
  /\ sight \in [Jobs -> Sight]
  /\ task \in [Jobs -> TaskPc]
  /\ stage \in [Jobs -> 0..NumStages]
  /\ beating \in [Jobs -> BeatPc]
  /\ rec \in [pc : RecPc, job : Jobs \cup {NoJob}, beat : Stamps,
              payload : Terminal \cup {"none"}, todo : SUBSET Jobs]
  /\ vectors \in Jobs \cup {NoJob}
  /\ told \in [Jobs -> Terminal \cup {"none"}]
  /\ opened \in SUBSET Jobs
  /\ buried \in SUBSET Jobs

Init ==
  /\ StoreInit
  /\ lock = NoJob
  /\ accepting = TRUE
  /\ starts = 1
  /\ sub = [j \in Jobs |-> "new"]
  /\ sight = [j \in Jobs |-> Nothing]
  /\ task = [j \in Jobs |-> "off"]
  /\ stage = [j \in Jobs |-> 0]
  /\ beating = [j \in Jobs |-> "off"]
  /\ rec = RecIdle
  /\ vectors = NoJob
  /\ told = [j \in Jobs |-> "none"]
  /\ opened = {}
  /\ buried = {}

(* datetime.now(UTC): unlike any stamp somebody has read and still holds. *)
Now == CHOOSE now \in Stamps : now \notin {sight[j].beat : j \in Jobs} \cup {rec.beat}

Stale_WithoutPending == record.status = "processing" /\ ~fresh

Stale == record.status \in InFlight /\ ~fresh

Bury(j) == buried' = buried \cup {j}

Send_AsAlwaysConfirmed(j, status, confirmed) ==
  \/ told' = [told EXCEPT ![j] = status]
  \/ UNCHANGED told

(* A POST to Express: accepted (applied, or ignored for a reason that      *)
(* settles it) and confirmed, accepted but the answer lost, or not         *)
(* accepted.  `confirmed` is what send_status_update returns.              *)
Send(j, status, confirmed) ==
  \/ told' = [told EXCEPT ![j] = status]
  \/ ~confirmed /\ UNCHANGED told

-----------------------------------------------------------------------------
(* submit_ingestion_job. *)

Free(j) == IF lock = j THEN NoJob ELSE lock      \* Lock.release checks the token

Refuse(j) ==
  /\ sub' = [sub EXCEPT ![j] = "over"]
  /\ lock' = Free(j)

(* reserve_admission: refused when shutting down, or when the slots are    *)
(* taken (by other repositories too, hence at any time).                   *)
Reserve(j) ==
  \/ accepting /\ sub' = [sub EXCEPT ![j] = "persisting"] /\ UNCHANGED lock
  \/ Refuse(j)

subOthers == <<accepting, starts, taskVars, rec, vectors>>

(* Acquiring does not wait.  When the reply is lost the retry finds the    *)
(* lock taken, by this very submission: it is refused and the lock stays.  *)
SubmitLock(j) ==
  /\ sub[j] = "new"
  /\ \/ lock = NoJob /\ lock' = j /\ sub' \in {[sub EXCEPT ![j] = pc] : pc \in {"reading", "over"}}
     \/ lock # NoJob /\ Refuse(j)
  /\ UNCHANGED <<storeVars, sight, subOthers, history>>

SubmitRead(j) ==
  /\ sub[j] = "reading"
  /\ \/ /\ Stale
        /\ sub' = [sub EXCEPT ![j] = "reconciling"]
        /\ sight' = [sight EXCEPT ![j] = Seen]
        /\ UNCHANGED lock
     \/ Refuse(j) /\ UNCHANGED sight     \* in flight, undecodable, or Redis fails
     \/ /\ record.status \in Terminal \cup {"absent"}
        /\ Reserve(j)
        /\ UNCHANGED sight
  /\ UNCHANGED <<storeVars, subOthers, history>>

(* _reconcile_stale_record: its result is not used, the submission goes on. *)
(* When the script's reply is lost, its retry is rejected: not_in_flight.   *)
SubmitReconcile(j) ==
  /\ sub[j] = "reconciling"
  /\ \/ /\ Reconcile(sight[j].job, sight[j].beat)
        /\ Bury(sight[j].job)
        /\ sub' = [sub EXCEPT ![j] = "telling"]
        /\ UNCHANGED <<lock, sight>>
     \/ /\ \/ Reconcile(sight[j].job, sight[j].beat) /\ Bury(sight[j].job)
           \/ /\ ~ CanReconcile(sight[j].job, sight[j].beat)
              /\ UNCHANGED <<storeVars, buried>>
        /\ Reserve(j)
        /\ sight' = [sight EXCEPT ![j] = Nothing]
  /\ UNCHANGED <<subOthers, told, opened>>

SubmitTell(j) ==
  /\ sub[j] = "telling"
  /\ \E confirmed \in BOOLEAN :
       /\ Send(sight[j].job, "failed", confirmed)
       /\ \/ /\ confirmed
             /\ sub' = [sub EXCEPT ![j] = "acking"]
             /\ UNCHANGED <<lock, sight>>
          \/ /\ ~ confirmed
             /\ Reserve(j)
             /\ sight' = [sight EXCEPT ![j] = Nothing]
  /\ UNCHANGED <<storeVars, subOthers, opened, buried>>

SubmitAck(j) ==
  /\ sub[j] = "acking"
  /\ Acknowledge(sight[j].job) \/ UNCHANGED storeVars
  /\ Reserve(j)
  /\ sight' = [sight EXCEPT ![j] = Nothing]
  /\ UNCHANGED <<subOthers, history>>

(* The admission script.  When the reply is lost the Redis client runs it  *)
(* again at once, and now it is rejected by the attempt's own PENDING      *)
(* record: the submission fails and leaves a record that has no task.      *)
SubmitPersist(j) ==
  /\ sub[j] = "persisting"
  /\ \/ /\ Admit(j, Now)
        /\ opened' = opened \cup {j}
        /\ UNCHANGED <<told, buried>>
        /\ \/ sub' = [sub EXCEPT ![j] = "dispatching"] /\ UNCHANGED lock
           \/ Refuse(j)
     \/ /\ Refuse(j)             \* rejected, or Redis could not be reached
        /\ UNCHANGED <<storeVars, history>>
  /\ UNCHANGED <<sight, subOthers>>

SubmitDispatch(j) ==
  /\ sub[j] = "dispatching"
  /\ \/ /\ accepting
        /\ sub' = [sub EXCEPT ![j] = "over"]
        /\ lock' = Free(j)
        /\ task' = [task EXCEPT ![j] = "waiting"]
        /\ beating' = [beating EXCEPT ![j] = "on"]
     \/ /\ ~ accepting
        /\ sub' = [sub EXCEPT ![j] = "discarding"]
        /\ UNCHANGED <<lock, task, beating>>
  /\ UNCHANGED <<storeVars, accepting, starts, sight, stage, rec, vectors, history>>

(* eval_atomic_delete_attempt; a failure of it is suppressed. *)
SubmitDiscard(j) ==
  /\ sub[j] = "discarding"
  /\ Delete(j) \/ UNCHANGED storeVars
  /\ Refuse(j)
  /\ UNCHANGED <<sight, subOthers, history>>

Submit(j) ==
  \/ SubmitLock(j) \/ SubmitRead(j) \/ SubmitReconcile(j) \/ SubmitTell(j)
  \/ SubmitAck(j) \/ SubmitPersist(j) \/ SubmitDispatch(j) \/ SubmitDiscard(j)

-----------------------------------------------------------------------------
(* The background task: _run_job and process_ingestion_job.                *)
(*                                                                         *)
(* _transition reads the record before it runs the script, and stops if    *)
(* another attempt owns it.  The script would reject that attempt too, so  *)
(* the read and the script are one action here.                            *)

taskOthers == <<lock, accepting, starts, sub, sight, rec>>

Goto(j, pc) == task' = [task EXCEPT ![j] = pc]

(* The task ends: its heartbeat loop is cancelled with it. *)
End(j) ==
  /\ Goto(j, "off")
  /\ stage' = [stage EXCEPT ![j] = 0]
  /\ beating' = [beating EXCEPT ![j] = "off"]

(* A concurrency slot is free: the queued heartbeat stops, the worker and  *)
(* its own heartbeat start.  Otherwise (shutdown, cancellation while       *)
(* waiting, or a worker that cannot be built) the attempt is settled, with *)
(* the queued heartbeat still running if it is a cancellation.             *)
StartWorker(j) ==
  /\ task[j] = "waiting"
  /\ accepting
  /\ Goto(j, "reporting")
  /\ beating' = [beating EXCEPT ![j] = "on"]
  /\ UNCHANGED <<storeVars, taskOthers, stage, vectors, history>>

AbandonUnstarted(j) ==
  /\ task[j] = "waiting"
  /\ Goto(j, "settling")
  /\ UNCHANGED beating \/ beating' = [beating EXCEPT ![j] = "off"]
  /\ UNCHANGED <<storeVars, taskOthers, stage, vectors, history>>

(* _settle_unstarted_job: FAILED is written if the script allows it, and   *)
(* FAILED is sent whatever the script answered.                            *)
Settle(j) ==
  /\ task[j] = "settling"
  /\ Move(j, "failed", 0, Now) \/ UNCHANGED storeVars
  /\ Goto(j, "tellfailed")
  /\ UNCHANGED <<taskOthers, stage, beating, vectors, history>>

(* The script rejects the attempt: AttemptSupersededError, a clean return. *)
Superseded(j, status) ==
  /\ record # Unreadable
  /\ ~ CanMove(j, status)
  /\ End(j)
  /\ UNCHANGED storeVars

MoreStages_OffByOne(j) == stage[j] <= NumStages

MoreStages(j) == stage[j] < NumStages

ReportStage(j) ==
  /\ task[j] = "reporting"
  /\ MoreStages(j)
  /\ \/ /\ Move(j, "processing", stage[j] + 1, Now)
        /\ stage' = [stage EXCEPT ![j] = @ + 1]
        /\ Goto(j, "working")
        /\ UNCHANGED beating
     \/ Superseded(j, "processing")
  /\ UNCHANGED <<taskOthers, vectors, history>>

ReportReady(j) ==
  /\ task[j] = "reporting"
  /\ ~ MoreStages(j)
  /\ \/ /\ Move(j, "ready", 0, Now)
        /\ Goto(j, "tellready")
        /\ UNCHANGED <<stage, beating>>
     \/ Superseded(j, "ready")
  /\ UNCHANGED <<taskOthers, vectors, history>>

(* A stage's work; after the last report it is upsert_chunks, which asks   *)
(* nobody whether the attempt still owns the repository.                   *)
Work(j) ==
  /\ task[j] = "working"
  /\ vectors' = IF stage[j] = NumStages THEN j ELSE vectors
  /\ Goto(j, "reporting")
  /\ UNCHANGED <<storeVars, taskOthers, stage, beating, history>>

(* A stage raises (an upsert may have written some batches), the record    *)
(* cannot be read or written, the reply of the READY script is lost, or    *)
(* the shutdown's grace period ends and the task is cancelled.             *)
Fail(j) ==
  /\ \/ task[j] \in {"reporting", "working", "tellready"}
     \/ ~ accepting /\ task[j] = "ackready"
  /\ Goto(j, "failing")
  /\ \/ UNCHANGED vectors
     \/ task[j] = "working" /\ stage[j] = NumStages /\ vectors' = j
  /\ UNCHANGED <<storeVars, taskOthers, stage, beating, history>>

(* _mark_failed. *)
MarkFailed(j) ==
  /\ task[j] = "failing"
  /\ \/ /\ Move(j, "failed", 0, Now)
        /\ Goto(j, "tellfailed")
        /\ UNCHANGED <<stage, beating>>
     \/ Superseded(j, "failed")
  /\ UNCHANGED <<taskOthers, vectors, history>>

(* Redis cannot be reached, or the cleanup itself is cancelled: the task   *)
(* ends with the record as it is.                                          *)
GiveUp(j) ==
  /\ task[j] \in {"settling", "failing", "tellfailed", "ackfailed"}
  /\ End(j)
  /\ UNCHANGED <<storeVars, taskOthers, vectors, history>>

Tell(j, status) ==
  /\ task[j] = IF status = "ready" THEN "tellready" ELSE "tellfailed"
  /\ \/ /\ Send(j, status, TRUE)
        /\ Goto(j, IF status = "ready" THEN "ackready" ELSE "ackfailed")
        /\ UNCHANGED <<stage, beating>>
     \/ Send(j, status, FALSE) /\ End(j)
  /\ UNCHANGED <<storeVars, taskOthers, vectors, opened, buried>>

Ack(j) ==
  /\ task[j] \in {"ackready", "ackfailed"}
  /\ Acknowledge(j) \/ UNCHANGED storeVars
  /\ End(j)
  /\ UNCHANGED <<taskOthers, vectors, history>>

Run(j) ==
  \/ StartWorker(j) \/ AbandonUnstarted(j) \/ Settle(j) \/ ReportStage(j) \/ ReportReady(j)
  \/ Work(j) \/ Fail(j) \/ MarkFailed(j) \/ GiveUp(j) \/ Ack(j)
  \/ \E status \in Terminal : Tell(j, status)

-----------------------------------------------------------------------------
(* The heartbeat loops: _queued_heartbeat_loop while the task waits,       *)
(* _heartbeat_loop while the worker runs.                                  *)

beatOthers == <<lock, accepting, starts, sub, sight, task, stage, rec, vectors, history>>

KeepsBeating(j) ==
  /\ record.job = j
  /\ task[j] \in {"waiting", "settling"} => record.status \in {"pending", "queued"}

BeatRead(j) ==
  /\ beating[j] = "on"
  /\ record # Unreadable                 \* the exception is logged, the loop goes on
  /\ beating' = [beating EXCEPT ![j] = IF KeepsBeating(j) THEN "seen" ELSE "off"]
  /\ UNCHANGED <<storeVars, beatOthers>>

BeatRenew(j) ==
  /\ beating[j] = "seen"
  /\ \/ Renew(j, Now) /\ beating' = [beating EXCEPT ![j] = "on"]
     \/ record # Unreadable /\ ~ CanRenew(j) /\ beating' = [beating EXCEPT ![j] = "off"]
        /\ UNCHANGED storeVars
     \/ beating' = [beating EXCEPT ![j] = "on"] /\ UNCHANGED storeVars     \* the call fails
  /\ UNCHANGED beatOthers

Beat(j) == BeatRead(j) \/ BeatRenew(j)

-----------------------------------------------------------------------------
(* reconcile_interrupted_jobs, at startup and in the recovery loop, and    *)
(* the flush of staged callbacks that ends it.                             *)

recOthers == <<lock, accepting, starts, sub, sight, taskVars, vectors>>

RecGoto(pc) == rec' = [rec EXCEPT !.pc = pc]
ToFlush     == rec' = [RecIdle EXCEPT !.pc = "listing"]

(* SSCAN of the active set.  At startup the same pass is made before the   *)
(* first request, but it may fail (Redis), so nothing relies on it.        *)
RecoverScan ==
  /\ accepting
  /\ rec.pc = "idle"
  /\ \/ indexed /\ RecGoto("scanned")
     \/ ~ indexed /\ (\E j \in Jobs : staged[j] # "none") /\ ToFlush
  /\ UNCHANGED <<storeVars, recOthers, history>>

RecoverRead ==
  /\ rec.pc = "scanned"
  /\ \/ Stale /\ rec' = [rec EXCEPT !.pc = "reconciling",
                                    !.job = record.job, !.beat = record.beat]
     \/ record.status \in InFlight /\ fresh /\ ToFlush
     \/ record = Unreadable /\ ToFlush       \* the exception ends the scan
     \/ record.status \in Terminal \cup {"absent"} /\ RecGoto("unindexing")
  /\ UNCHANGED <<storeVars, recOthers, history>>

RecoverUnindex ==
  /\ rec.pc = "unindexing"
  /\ Unindex
  /\ ToFlush
  /\ UNCHANGED <<recOthers, history>>

RecoverReconcile ==
  /\ rec.pc = "reconciling"
  /\ \/ /\ Reconcile(rec.job, rec.beat)
        /\ Bury(rec.job)
        /\ RecGoto("telling") \/ ToFlush           \* ToFlush: the reply is lost
     \/ /\ ~ CanReconcile(rec.job, rec.beat)
        /\ ToFlush
        /\ UNCHANGED <<storeVars, buried>>
  /\ UNCHANGED <<recOthers, told, opened>>

RecoverTell ==
  /\ rec.pc = "telling"
  /\ \/ Send(rec.job, "failed", TRUE) /\ RecGoto("acking")
     \/ Send(rec.job, "failed", FALSE) /\ ToFlush
  /\ UNCHANGED <<storeVars, recOthers, opened, buried>>

RecoverAck ==
  /\ rec.pc = "acking"
  /\ Acknowledge(rec.job) \/ UNCHANGED storeVars
  /\ ToFlush
  /\ UNCHANGED <<recOthers, history>>

(* flush_pending_callbacks: SSCAN of the delivery set, then one member of  *)
(* it after another.                                                       *)
FlushList ==
  /\ rec.pc = "listing"
  /\ rec' = [rec EXCEPT !.pc = "flushing", !.todo = {j \in Jobs : staged[j] # "none"}]
  /\ UNCHANGED <<storeVars, recOthers, history>>

FlushGet ==
  /\ rec.pc = "flushing"
  /\ \/ \E j \in rec.todo :
          rec' = [rec EXCEPT !.job = j, !.payload = staged[j], !.todo = @ \ {j},
                             !.pc = IF staged[j] = "none" THEN "dropping" ELSE "checking"]
     \/ rec.todo = {} /\ rec' = RecIdle
  /\ UNCHANGED <<storeVars, recOthers, history>>

NextMember == rec' = [rec EXCEPT !.pc = "flushing", !.job = NoJob, !.payload = "none"]

FlushCheck_WithoutAbsent ==
  /\ rec.pc = "checking"
  /\ \/ record.job \notin {rec.job, NoJob} /\ RecGoto("dropping")
     \/ record.job = rec.job /\ RecGoto("sending")
     \/ record.job = NoJob /\ NextMember
  /\ UNCHANGED <<storeVars, recOthers, history>>

(* A callback of an attempt that no longer owns the record is dropped. *)
FlushCheck ==
  /\ rec.pc = "checking"
  /\ \/ record.job \notin {rec.job, NoJob} /\ RecGoto("dropping")
     \/ (record.job = rec.job \/ record = Absent) /\ RecGoto("sending")
     \/ record = Unreadable /\ NextMember
  /\ UNCHANGED <<storeVars, recOthers, history>>

FlushSend ==
  /\ rec.pc = "sending"
  /\ \/ Send(rec.job, rec.payload, TRUE) /\ RecGoto("dropping")
     \/ Send(rec.job, rec.payload, FALSE) /\ NextMember
  /\ UNCHANGED <<storeVars, recOthers, opened, buried>>

FlushAck ==
  /\ rec.pc = "dropping"
  /\ Acknowledge(rec.job)
  /\ NextMember
  /\ UNCHANGED <<recOthers, history>>

Recover ==
  \/ RecoverScan \/ RecoverRead \/ RecoverUnindex \/ RecoverReconcile \/ RecoverTell
  \/ RecoverAck \/ FlushList \/ FlushGet \/ FlushCheck \/ FlushSend \/ FlushAck

-----------------------------------------------------------------------------
(* Shutdown, restart, and time. *)

Live(j)       == task[j] # "off"
Submitting(j) == sub[j] \notin {"new", "over"}

(* IngestionJobManager.shutdown: admissions stop, the recovery loop is     *)
(* cancelled; running tasks go on until the grace period cancels them.     *)
ShutDown ==
  /\ MayShutDown
  /\ accepting
  /\ accepting' = FALSE
  /\ rec' = RecIdle
  /\ UNCHANGED <<storeVars, lock, starts, sub, sight, taskVars, vectors, history>>

(* The process exits, at any point, and a new one starts: what was in its  *)
(* memory is gone.  (While it is down only time passes, which the actions  *)
(* below may do as well after the restart.)                                *)
Restart ==
  /\ starts < MaxStarts
  /\ starts' = starts + 1
  /\ accepting' = TRUE
  /\ sub' = [j \in Jobs |-> IF Submitting(j) THEN "over" ELSE sub[j]]
  /\ sight' = [j \in Jobs |-> Nothing]
  /\ task' = [j \in Jobs |-> "off"]
  /\ stage' = [j \in Jobs |-> 0]
  /\ beating' = [j \in Jobs |-> "off"]
  /\ rec' = RecIdle
  /\ UNCHANGED <<storeVars, lock, vectors, history>>

(* The submission lock's ten-second lease runs out, whoever holds it. *)
LockExpires ==
  /\ lock # NoJob
  /\ lock' = NoJob
  /\ UNCHANGED <<storeVars, accepting, starts, sub, sight, taskVars, rec, vectors, history>>

StampExpires ==
  /\ LeaseExpires
  /\ UNCHANGED <<processVars, vectors, history>>

(* Six hours without a write outlast every step in progress. *)
TtlExpires ==
  /\ \A j \in Jobs : ~ Live(j) /\ ~ Submitting(j)
  /\ rec.pc = "idle"
  /\ ~ (record.status \in InFlight /\ fresh)
  /\ RecordExpires
  /\ UNCHANGED <<processVars, vectors, history>>

Next ==
  \/ \E j \in Jobs : Submit(j) \/ Run(j) \/ Beat(j)
  \/ Recover
  \/ ShutDown \/ Restart \/ LockExpires \/ StampExpires \/ TtlExpires

Spec == Init /\ [][Next]_vars

-----------------------------------------------------------------------------
(* Properties. *)

(* An attempt in flight keeps the record: another attempt comes to own it  *)
(* only after this one was settled, or its record was deleted or expired.  *)
(* The submission lock cannot promise this (its lease may end while the    *)
(* holder still runs), the admission script must.                          *)
InFlightNotDisplaced ==
  [][record.status \in InFlight /\ record'.job # record.job => record'.job = NoJob]_vars

(* "Older attempt cannot overwrite newer attempt": an attempt that lost    *)
(* the record to another one never takes it back from that one, however    *)
(* late its worker, its heartbeat or a reconciliation writes.              *)
NoTakeBack ==
  [][record.job # NoJob /\ record'.job \notin {record.job, NoJob}
       => record'.job \notin opened]_vars

(* READY is final for its attempt: neither a late progress report, a       *)
(* reconciliation on an old stamp nor the cancellation of a task that has  *)
(* already reported READY changes it.                                      *)
ReadyIsFinal ==
  [][record.status = "ready" /\ record'.job = record.job => record' = record]_vars

(* The record of an attempt never goes back to an earlier stage or status: *)
(* a worker given up for dead cannot put it in flight again.               *)
Rank(r) == IF r.status \in {"pending", "queued"} THEN 0
           ELSE IF r.status = "processing" THEN r.stage ELSE NumStages + 1
ProgressIsMonotone ==
  [][record'.job = record.job /\ record.job # NoJob => Rank(record') >= Rank(record)]_vars

(* Neither a submission nor the recovery loop fails an attempt whose lease *)
(* is current: a heartbeat or a report that arrives after they judged the  *)
(* record stale saves the attempt.  Only its own task may fail it.         *)
LivingNotReconciled ==
  [][record.status \in InFlight /\ fresh /\ record'.status = "failed"
       => task[record.job] \in {"failing", "settling"}]_vars

(* Durable delivery: the terminal status of the owner has been accepted by *)
(* Express, or its callback is still staged for the flush, whatever        *)
(* crashes, lost answers and races of acknowledgements came between.  (An  *)
(* attempt that was reconciled as failed and reported READY after all, to  *)
(* its record or to Express, is set apart: see TerminalNeverLost.)         *)
Delivered == record.status \in {told[record.job], staged[record.job]}
Corrected == record.job \in buried /\ "ready" \in {record.status, told[record.job]}
TerminalKeptUntilTold == record.status \in Terminal /\ ~ Corrected => Delivered

(* The same without the exception: "Delivery failed, so pending callback   *)
(* MUST remain durably staged in Redis" (the recovery tests).              *)
TerminalNeverLost == record.status \in Terminal => Delivered

(* The active set is all the recovery loop looks at.  An attempt in flight *)
(* is missing from it only because the sweep, which reads the record and   *)
(* removes the member in two steps, removed it.                            *)
Missing == record.status \in InFlight /\ ~ indexed
MissingOnlyBySweep == [][Missing' => Missing \/ rec.pc = "unindexing"]_vars

(* The vectors of a repository that is READY are those of its attempt: a   *)
(* superseded worker has written nothing since.                            *)
ReadyOwnsVectors == record.status = "ready" => vectors = record.job

-----------------------------------------------------------------------------
(* Fairness.  The event loop runs every task that is ready, and every call *)
(* the code awaits has a timeout, so an admitted submission, a background  *)
(* task and the recovery loop never stop between two steps; ninety seconds *)
(* without a stamp pass for an attempt that has no task, and six hours     *)
(* pass for a record nobody writes.  Nothing makes a client submit, a      *)
(* process exit, a lock lease end, or the lease of a living attempt end.   *)
Orphan == record.status \in InFlight /\ \A j \in Jobs : ~ Live(j) /\ ~ Submitting(j)

Fairness ==
  /\ \A j \in Jobs : WF_vars(Submitting(j) /\ Submit(j)) /\ WF_vars(Run(j))
  /\ WF_vars(Recover)
  /\ WF_vars(Orphan /\ StampExpires)
  /\ WF_vars(TtlExpires)

(* Express answers a flushed callback again and again, not every time: an  *)
(* outage ends before the callback does (24 hours).                        *)
ExpressReachable == \A j \in Jobs :
  SF_vars(rec.job = j /\ FlushSend /\ rec'.pc = "dropping")

FairSpec == Init /\ [][Next]_vars /\ Fairness /\ ExpressReachable

(* An attempt in flight whose process died, or whose submission failed     *)
(* after its record was written, is settled by the recovery loop, provided *)
(* the active set still names the repository.                              *)
OrphansAreSettled ==
  (Orphan /\ indexed /\ rec.pc # "unindexing") ~> ~ Orphan

(* A staged terminal callback does not stay staged for ever.               *)
StagedIsFlushed == \A j \in Jobs : staged[j] # "none" ~> staged[j] = "none"

(* The abstract specification: every step of the service is a step of the  *)
(* ledger or leaves it alone, and no attempt stays open for ever.          *)
Phase == IF record.status \in InFlight THEN "open"
         ELSE IF record.status \in Terminal THEN record.status ELSE "none"

Ledger == INSTANCE AttemptLedger
            WITH owner <- record.job, phase <- Phase, used <- opened

LedgerSteps      == Ledger!Init /\ [][Ledger!Next]_(Ledger!ledger)
ImplementsLedger == Ledger!Spec
=============================================================================
