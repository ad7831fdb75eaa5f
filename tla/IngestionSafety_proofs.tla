------------------------ MODULE IngestionSafety_proofs ------------------------
(***************************************************************************)
(* The safety properties of IngestionService that the runs check on small  *)
(* instances, for every value of the constants.                            *)
(***************************************************************************)
EXTENDS IngestionService_proofs

-----------------------------------------------------------------------------
(* Who may call which script.  Every step of the service is, for the       *)
(* store, one of these.                                                    *)

StoreStep ==
  \/ \E j \in Jobs : /\ sub[j] = "persisting"
                     /\ Admit(j, Now)
                     /\ opened' = opened \cup {j}
  \/ /\ UNCHANGED opened
     /\ \/ \E j \in Jobs :
             \/ sub[j] = "reconciling" /\ Reconcile(sight[j].job, sight[j].beat)
             \/ sub[j] = "discarding" /\ Delete(j)
             \/ task[j] \in {"settling", "failing"} /\ Move(j, "failed", 0, Now)
             \/ /\ task[j] = "reporting"
                /\ MoreStages(j)
                /\ Move(j, "processing", stage[j] + 1, Now)
             \/ task[j] = "reporting" /\ Move(j, "ready", 0, Now)
             \/ beating[j] = "seen" /\ Renew(j, Now)
             \/ Acknowledge(j)
        \/ rec.pc = "reconciling" /\ Reconcile(rec.job, rec.beat)
        \/ rec.pc = "unindexing" /\ Unindex
        \/ LeaseExpires
        \/ ((\A j \in Jobs : ~ Live(j) /\ ~ Submitting(j)) /\ rec.pc = "idle" /\ RecordExpires)
        \/ UNCHANGED storeVars

LEMMA StoreSteps ==
  ASSUME TypeInv, [Next]_vars
  PROVE  StoreStep
<1> USE DEF history, beatOthers
<1>1. ASSUME NEW j \in Jobs, Submit(j)
      PROVE  StoreStep
  <2>1. CASE SubmitLock(j)
    BY <2>1 DEF StoreStep, SubmitLock
  <2>2. CASE SubmitRead(j)
    BY <2>2 DEF StoreStep, SubmitRead
  <2>3. CASE SubmitReconcile(j)
    BY <2>3 DEF StoreStep, SubmitReconcile
  <2>4. CASE SubmitTell(j)
    BY <2>4 DEF StoreStep, SubmitTell
  <2>5. CASE SubmitAck(j)
    BY <2>5 DEF StoreStep, SubmitAck, TypeInv, CarriedJobs
  <2>6. CASE SubmitPersist(j)
    BY <2>6 DEF StoreStep, SubmitPersist
  <2>7. CASE SubmitDispatch(j)
    BY <2>7 DEF StoreStep, SubmitDispatch
  <2>8. CASE SubmitDiscard(j)
    BY <2>8 DEF StoreStep, SubmitDiscard
  <2>9. QED
    BY <1>1, <2>1, <2>2, <2>3, <2>4, <2>5, <2>6, <2>7, <2>8 DEF Submit
<1>2. ASSUME NEW j \in Jobs, Run(j)
      PROVE  StoreStep
  <2>1. CASE StartWorker(j)
    BY <2>1 DEF StoreStep, StartWorker
  <2>2. CASE AbandonUnstarted(j)
    BY <2>2 DEF StoreStep, AbandonUnstarted
  <2>3. CASE Settle(j)
    BY <2>3 DEF StoreStep, Settle
  <2>4. CASE ReportStage(j)
    BY <2>4 DEF StoreStep, ReportStage, Superseded
  <2>5. CASE ReportReady(j)
    BY <2>5 DEF StoreStep, ReportReady, Superseded
  <2>6. CASE Work(j)
    BY <2>6 DEF StoreStep, Work
  <2>7. CASE Fail(j)
    BY <2>7 DEF StoreStep, Fail
  <2>8. CASE MarkFailed(j)
    BY <2>8 DEF StoreStep, MarkFailed, Superseded
  <2>9. CASE GiveUp(j)
    BY <2>9 DEF StoreStep, GiveUp
  <2>10. CASE Ack(j)
    BY <2>10 DEF StoreStep, Ack, TypeInv, CarriedJobs
  <2>11. CASE \E status \in Terminal : Tell(j, status)
    BY <2>11 DEF StoreStep, Tell, history
  <2>12. QED
    BY <1>2, <2>1, <2>2, <2>3, <2>4, <2>5, <2>6, <2>7, <2>8, <2>9, <2>10, <2>11 DEF Run
<1>3. ASSUME NEW j \in Jobs, Beat(j)
      PROVE  StoreStep
  <2>1. CASE BeatRead(j)
    BY <2>1 DEF StoreStep, BeatRead
  <2>2. CASE BeatRenew(j)
    BY <2>2 DEF StoreStep, BeatRenew
  <2>3. QED
    BY <1>3, <2>1, <2>2 DEF Beat
<1>4. CASE Recover
  <2>1. CASE RecoverScan
    BY <2>1 DEF StoreStep, RecoverScan
  <2>2. CASE RecoverRead
    BY <2>2 DEF StoreStep, RecoverRead
  <2>3. CASE RecoverUnindex
    BY <2>3 DEF StoreStep, RecoverUnindex
  <2>4. CASE RecoverReconcile
    BY <2>4 DEF StoreStep, RecoverReconcile
  <2>5. CASE RecoverTell
    BY <2>5 DEF StoreStep, RecoverTell
  <2>6. CASE RecoverAck
    BY <2>6 DEF StoreStep, RecoverAck, TypeInv, CarriedJobs
  <2>7. CASE FlushList
    BY <2>7 DEF StoreStep, FlushList
  <2>8. CASE FlushGet
    BY <2>8 DEF StoreStep, FlushGet
  <2>9. CASE FlushCheck
    BY <2>9 DEF StoreStep, FlushCheck
  <2>10. CASE FlushSend
    BY <2>10 DEF StoreStep, FlushSend
  <2>11. CASE FlushAck
    BY <2>11 DEF StoreStep, FlushAck, TypeInv, CarriedJobs
  <2>12. QED
    BY <1>4, <2>1, <2>2, <2>3, <2>4, <2>5, <2>6, <2>7, <2>8, <2>9, <2>10, <2>11 DEF Recover
<1>5. CASE ShutDown \/ Restart \/ LockExpires \/ StampExpires \/ TtlExpires \/ UNCHANGED vars
  BY <1>5 DEF StoreStep, ShutDown, Restart, LockExpires, StampExpires, TtlExpires, vars, history
<1>6. QED
  BY <1>1, <1>2, <1>3, <1>4, <1>5 DEF Next

(* An attempt in flight is never displaced by another one: not by a new    *)
(* submission whose lock ran out, nor by a late worker, heartbeat or       *)
(* reconciliation of an older attempt.                                     *)
THEOREM NotDisplaced == Spec => InFlightNotDisplaced
<1>1. ASSUME TypeInv, [Next]_vars
      PROVE  record.status \in InFlight /\ record'.job # record.job => record'.job = NoJob
  <2> SUFFICES ASSUME record.status \in InFlight, record'.job # record.job
               PROVE  record'.job = NoJob
    OBVIOUS
  <2>1. StoreTypeOK /\ record.job \in Jobs /\ record # Absent /\ record # Unreadable
    BY <1>1, InFlightIsOwned, JobsAssumption DEF TypeInv, TypeOK, Absent, Unreadable
  <2>2. ASSUME NEW j \in Jobs, Move(j, "failed", 0, Now) \/ Move(j, "ready", 0, Now)
                                \/ Move(j, "processing", stage[j] + 1, Now)
        PROVE  FALSE
    BY <2>1, <2>2, JobsAssumption DEF Move, CanMove, Allows, OwnedBy, Commit
  <2>3. ASSUME NEW j \in Jobs, NEW b \in Stamps, Reconcile(j, b)
        PROVE  FALSE
    BY <2>1, <2>3, JobsAssumption DEF Reconcile, CanReconcile, Allows, OwnedBy, Commit
  <2>4. ASSUME NEW j \in Jobs, Admit(j, Now)
        PROVE  FALSE
    BY <2>1, <2>4 DEF Admit, CanAdmit, Allows, NotInFlight
  <2>5. ASSUME NEW j \in Jobs, Renew(j, Now)
        PROVE  FALSE
    BY <2>1, <2>5, <1>1 DEF Renew, StoreTypeOK, Records
  <2>6. ASSUME NEW j \in Jobs, Delete(j)
        PROVE  record'.job = NoJob
    BY <2>6 DEF Delete, Absent
  <2>7. ASSUME UNCHANGED record
        PROVE  FALSE
    BY <2>7
  <2>8. RecordExpires => record'.job = NoJob
    BY DEF RecordExpires, Absent
  <2>9. \A j \in Jobs : sub[j] = "reconciling" => sight[j].job \in Jobs /\ sight[j].beat \in Stamps
    BY <1>1 DEF TypeInv, TypeOK, CarriedJobs, Sight
  <2>10. rec.pc = "reconciling" => rec.job \in Jobs /\ rec.beat \in Stamps
    BY <1>1 DEF TypeInv, TypeOK, CarriedJobs
  <2>11. StoreStep
    BY <1>1, StoreSteps
  <2>12. QED
    BY <2>2, <2>3, <2>4, <2>5, <2>6, <2>7, <2>8, <2>9, <2>10, <2>11
       DEF StoreStep, Acknowledge, Unindex, LeaseExpires, storeVars
<1>2. QED
  BY <1>1, TypeInvariance, PTL DEF Spec, InFlightNotDisplaced

-----------------------------------------------------------------------------
(* An attempt is admitted once.  Everything that can write for an attempt  *)
(* (its task, its discarding submission, whoever is about to reconcile it) *)
(* exists only after its admission, and its submission never returns to    *)
(* the point where it is admitted.                                         *)

AttemptInv ==
  /\ \A j \in opened : sub[j] \in {"dispatching", "discarding", "over"}
  /\ \A j \in Jobs : sub[j] \in {"dispatching", "discarding"} => j \in opened
  /\ \A j \in Jobs : task[j] # "off" => j \in opened /\ sub[j] = "over"
  /\ \A j \in Jobs : sub[j] = "reconciling" => sight[j].job \in opened
  /\ rec.pc = "reconciling" => rec.job \in opened
  /\ record.job # NoJob => record.job \in opened

LEMMA AttemptInvStep ==
  ASSUME TypeInv, AttemptInv, [Next]_vars
  PROVE  AttemptInv'
<1> USE JobsAssumption, ServiceAssumption DEF TypeInv, TypeOK, StoreTypeOK, AttemptInv,
        CarriedJobs, taskVars, processVars, history, storeVars, subOthers, taskOthers,
        beatOthers, recOthers
<1>1. ASSUME NEW j \in Jobs, Submit(j)
      PROVE  AttemptInv'
  <2>1. CASE SubmitLock(j)
    BY <2>1 DEF SubmitLock, Refuse
  <2>2. CASE SubmitRead(j)
    <3>1. UNCHANGED <<record, task, opened, rec>>
      BY <2>2 DEF SubmitRead
    <3>2. Stale => Seen \in Sight /\ Seen.job = record.job /\ record.job \in Jobs
      BY InFlightIsOwned DEF Stale, Seen, Sight
    <3>3. /\ \A k \in Jobs \ {j} : sub'[k] = sub[k] /\ sight'[k] = sight[k]
          /\ sub'[j] \in {"reconciling", "persisting", "over"}
          /\ sub'[j] = "reconciling" => Stale /\ sight'[j] = Seen
          /\ sub[j] = "reading"
      BY <2>2 DEF SubmitRead, Reserve, Refuse
    <3>4. QED
      BY <3>1, <3>2, <3>3
  <2>3. CASE SubmitReconcile(j)
    BY <2>3 DEF SubmitReconcile, Refuse, Reserve, Reconcile, Commit
  <2>4. CASE SubmitTell(j)
    BY <2>4 DEF SubmitTell, Refuse, Reserve
  <2>5. CASE SubmitAck(j)
    BY <2>5 DEF SubmitAck, Refuse, Reserve, Acknowledge
  <2>6. CASE SubmitPersist(j)
    BY <2>6 DEF SubmitPersist, Refuse, Admit, Commit
  <2>7. CASE SubmitDispatch(j)
    BY <2>7 DEF SubmitDispatch
  <2>8. CASE SubmitDiscard(j)
    BY <2>8 DEF SubmitDiscard, Refuse, Delete, Absent
  <2>9. QED
    BY <1>1, <2>1, <2>2, <2>3, <2>4, <2>5, <2>6, <2>7, <2>8 DEF Submit
<1>2. ASSUME NEW j \in Jobs, Run(j)
      PROVE  AttemptInv'
  <2>1. CASE StartWorker(j)
    BY <2>1 DEF StartWorker, Goto
  <2>2. CASE AbandonUnstarted(j)
    BY <2>2 DEF AbandonUnstarted, Goto
  <2>3. CASE Settle(j)
    BY <2>3 DEF Settle, Goto, Move, Commit
  <2>4. CASE ReportStage(j)
    BY <2>4 DEF ReportStage, Goto, End, Superseded, Move, Commit
  <2>5. CASE ReportReady(j)
    BY <2>5 DEF ReportReady, Goto, End, Superseded, Move, Commit
  <2>6. CASE Work(j)
    BY <2>6 DEF Work, Goto
  <2>7. CASE Fail(j)
    BY <2>7 DEF Fail, Goto
  <2>8. CASE MarkFailed(j)
    BY <2>8 DEF MarkFailed, Goto, End, Superseded, Move, Commit
  <2>9. CASE GiveUp(j)
    BY <2>9 DEF GiveUp, Goto, End
  <2>10. CASE Ack(j)
    BY <2>10 DEF Ack, Goto, End, Acknowledge
  <2>11. CASE \E status \in Terminal : Tell(j, status)
    BY <2>11 DEF Tell, Goto, End, Send
  <2>12. QED
    BY <1>2, <2>1, <2>2, <2>3, <2>4, <2>5, <2>6, <2>7, <2>8, <2>9, <2>10, <2>11 DEF Run
<1>3. ASSUME NEW j \in Jobs, Beat(j)
      PROVE  AttemptInv'
  <2>1. CASE BeatRead(j)
    BY <2>1 DEF BeatRead
  <2>2. CASE BeatRenew(j)
    <3>1. UNCHANGED <<sub, sight, task, rec, opened>>
      BY <2>2 DEF BeatRenew
    <3>2. record'.job \in {record.job, NoJob}
      BY <2>2 DEF BeatRenew, Renew, Records, Unreadable
    <3>3. QED
      BY <3>1, <3>2
  <2>3. QED
    BY <1>3, <2>1, <2>2 DEF Beat
<1>4. CASE Recover
  <2>1. CASE RecoverScan
    BY <2>1 DEF RecoverScan, RecGoto, ToFlush, RecIdle
  <2>2. CASE RecoverRead
    <3>1. UNCHANGED <<record, sub, sight, task, opened>>
      BY <2>2 DEF RecoverRead
    <3>2. rec'.pc = "reconciling" => Stale /\ rec'.job = record.job
      BY <2>2 DEF RecoverRead, RecGoto, ToFlush, RecIdle
    <3>3. Stale => record.job \in Jobs
      BY InFlightIsOwned DEF Stale
    <3>4. QED
      BY <3>1, <3>2, <3>3
  <2>3. CASE RecoverUnindex
    BY <2>3 DEF RecoverUnindex, Unindex, ToFlush, RecIdle
  <2>4. CASE RecoverReconcile
    BY <2>4 DEF RecoverReconcile, Reconcile, Commit, RecGoto, ToFlush, RecIdle
  <2>5. CASE RecoverTell
    <3>1. rec'.pc # "reconciling" /\ UNCHANGED <<record, sub, sight, task, opened>>
      BY <2>5 DEF RecoverTell, Send, RecGoto, ToFlush, RecIdle
    <3>2. QED
      BY <3>1
  <2>6. CASE RecoverAck
    BY <2>6 DEF RecoverAck, ToFlush, RecIdle, Acknowledge
  <2>7. CASE FlushList
    BY <2>7 DEF FlushList
  <2>8. CASE FlushGet
    <3>1. UNCHANGED <<record, sub, sight, task, opened>>
      BY <2>8 DEF FlushGet
    <3>2. \A k \in rec.todo :
            [rec EXCEPT !.job = k, !.payload = staged[k], !.todo = @ \ {k},
               !.pc = IF staged[k] = "none" THEN "dropping" ELSE "checking"].pc # "reconciling"
      BY rec \in [pc : RecPc, job : Jobs \cup {NoJob}, beat : Stamps,
                  payload : Terminal \cup {"none"}, todo : SUBSET Jobs]
    <3>3. CASE rec' = RecIdle
      BY <3>1, <3>3 DEF RecIdle
    <3>4. ASSUME NEW k \in rec.todo,
                 rec' = [rec EXCEPT !.job = k, !.payload = staged[k], !.todo = @ \ {k},
                           !.pc = IF staged[k] = "none" THEN "dropping" ELSE "checking"]
          PROVE  AttemptInv'
      <4>1. rec'.pc # "reconciling"
        BY <3>2, <3>4
      <4>2. QED
        BY <3>1, <4>1
    <3>5. QED
      BY <2>8, <3>3, <3>4 DEF FlushGet
  <2>9. CASE FlushCheck
    <3>1. rec'.pc # "reconciling" /\ UNCHANGED <<record, sub, sight, task, opened>>
      BY <2>9 DEF FlushCheck, RecGoto, NextMember
    <3>2. QED
      BY <3>1
  <2>10. CASE FlushSend
    <3>1. rec'.pc # "reconciling" /\ UNCHANGED <<record, sub, sight, task, opened>>
      BY <2>10 DEF FlushSend, Send, RecGoto, NextMember
    <3>2. QED
      BY <3>1
  <2>11. CASE FlushAck
    BY <2>11 DEF FlushAck, NextMember, Acknowledge
  <2>12. QED
    BY <1>4, <2>1, <2>2, <2>3, <2>4, <2>5, <2>6, <2>7, <2>8, <2>9, <2>10, <2>11 DEF Recover
<1>5. CASE ShutDown
  BY <1>5 DEF ShutDown, RecIdle
<1>6. CASE Restart
  BY <1>6 DEF Restart, RecIdle, Submitting
<1>7. CASE LockExpires
  BY <1>7 DEF LockExpires
<1>8. CASE StampExpires
  BY <1>8 DEF StampExpires, LeaseExpires
<1>9. CASE TtlExpires
  BY <1>9 DEF TtlExpires, RecordExpires, Absent
<1>10. CASE UNCHANGED vars
  BY <1>10 DEF vars
<1>11. QED
  BY <1>1, <1>2, <1>3, <1>4, <1>5, <1>6, <1>7, <1>8, <1>9, <1>10 DEF Next

-----------------------------------------------------------------------------
(* Once an attempt is recorded READY its task has only the callback left,  *)
(* or the failure of a cancelled task, which the script will reject.       *)

ReadyInv ==
  \A j \in Jobs : record.job = j /\ record.status = "ready" =>
    /\ sub[j] = "over"
    /\ task[j] \in {"off", "tellready", "ackready", "failing"}

LEMMA ReadyInvStep ==
  ASSUME TypeInv, AttemptInv, ReadyInv, [Next]_vars
  PROVE  ReadyInv'
<1> USE JobsAssumption, ServiceAssumption DEF TypeInv, TypeOK, StoreTypeOK, AttemptInv,
        ReadyInv, taskVars, processVars, history, storeVars, subOthers, taskOthers,
        beatOthers, recOthers
<1>1. ASSUME NEW j \in Jobs, Submit(j)
      PROVE  ReadyInv'
  <2>1. CASE SubmitLock(j)
    BY <2>1 DEF SubmitLock, Refuse
  <2>2. CASE SubmitRead(j)
    BY <2>2 DEF SubmitRead, Refuse, Reserve, Seen, Stale, InFlight
  <2>3. CASE SubmitReconcile(j)
    BY <2>3 DEF SubmitReconcile, Refuse, Reserve, Reconcile, Commit
  <2>4. CASE SubmitTell(j)
    BY <2>4 DEF SubmitTell, Refuse, Reserve
  <2>5. CASE SubmitAck(j)
    BY <2>5 DEF SubmitAck, Refuse, Reserve, Acknowledge
  <2>6. CASE SubmitPersist(j)
    BY <2>6 DEF SubmitPersist, Refuse, Admit, Commit
  <2>7. CASE SubmitDispatch(j)
    BY <2>7 DEF SubmitDispatch
  <2>8. CASE SubmitDiscard(j)
    BY <2>8 DEF SubmitDiscard, Refuse, Delete, Absent
  <2>9. QED
    BY <1>1, <2>1, <2>2, <2>3, <2>4, <2>5, <2>6, <2>7, <2>8 DEF Submit
<1>2. ASSUME NEW j \in Jobs, Run(j)
      PROVE  ReadyInv'
  <2>1. CASE StartWorker(j)
    BY <2>1 DEF StartWorker, Goto
  <2>2. CASE AbandonUnstarted(j)
    BY <2>2 DEF AbandonUnstarted, Goto
  <2>3. CASE Settle(j)
    BY <2>3 DEF Settle, Goto, Move, Commit
  <2>4. CASE ReportStage(j)
    BY <2>4 DEF ReportStage, Goto, End, Superseded, Move, Commit
  <2>5. CASE ReportReady(j)
    BY <2>5 DEF ReportReady, Goto, End, Superseded, Move, Commit
  <2>6. CASE Work(j)
    BY <2>6 DEF Work, Goto
  <2>7. CASE Fail(j)
    BY <2>7 DEF Fail, Goto
  <2>8. CASE MarkFailed(j)
    BY <2>8 DEF MarkFailed, Goto, End, Superseded, Move, Commit
  <2>9. CASE GiveUp(j)
    BY <2>9 DEF GiveUp, Goto, End
  <2>10. CASE Ack(j)
    BY <2>10 DEF Ack, Goto, End, Acknowledge
  <2>11. CASE \E status \in Terminal : Tell(j, status)
    BY <2>11 DEF Tell, Goto, End, Send
  <2>12. QED
    BY <1>2, <2>1, <2>2, <2>3, <2>4, <2>5, <2>6, <2>7, <2>8, <2>9, <2>10, <2>11 DEF Run
<1>3. ASSUME NEW j \in Jobs, Beat(j)
      PROVE  ReadyInv'
  <2>1. CASE BeatRead(j)
    BY <2>1 DEF BeatRead
  <2>2. CASE BeatRenew(j)
    <3>1. UNCHANGED <<sub, task>>
      BY <2>2 DEF BeatRenew
    <3>2. record'.status = "ready" => record'.job = record.job /\ record.status = "ready"
      BY <2>2 DEF BeatRenew, Renew, Records, Unreadable
    <3>3. QED
      BY <3>1, <3>2
  <2>3. QED
    BY <1>3, <2>1, <2>2 DEF Beat
<1>4. CASE Recover
  <2>1. CASE RecoverScan
    BY <2>1 DEF RecoverScan, RecGoto, ToFlush, RecIdle
  <2>2. CASE RecoverRead
    BY <2>2 DEF RecoverRead, RecGoto, ToFlush, RecIdle, Stale, InFlight
  <2>3. CASE RecoverUnindex
    BY <2>3 DEF RecoverUnindex, Unindex, ToFlush, RecIdle
  <2>4. CASE RecoverReconcile
    BY <2>4 DEF RecoverReconcile, Reconcile, Commit, RecGoto, ToFlush, RecIdle
  <2>5. CASE RecoverTell
    BY <2>5 DEF RecoverTell, RecGoto, ToFlush, RecIdle
  <2>6. CASE RecoverAck
    BY <2>6 DEF RecoverAck, ToFlush, RecIdle, Acknowledge
  <2>7. CASE FlushList
    BY <2>7 DEF FlushList
  <2>8. CASE FlushGet
    BY <2>8 DEF FlushGet, RecIdle
  <2>9. CASE FlushCheck
    BY <2>9 DEF FlushCheck, RecGoto, NextMember
  <2>10. CASE FlushSend
    BY <2>10 DEF FlushSend, RecGoto, NextMember
  <2>11. CASE FlushAck
    BY <2>11 DEF FlushAck, NextMember, Acknowledge
  <2>12. QED
    BY <1>4, <2>1, <2>2, <2>3, <2>4, <2>5, <2>6, <2>7, <2>8, <2>9, <2>10, <2>11 DEF Recover
<1>5. CASE ShutDown
  BY <1>5 DEF ShutDown, RecIdle
<1>6. CASE Restart
  BY <1>6 DEF Restart, RecIdle, Submitting
<1>7. CASE LockExpires
  BY <1>7 DEF LockExpires
<1>8. CASE StampExpires
  BY <1>8 DEF StampExpires, LeaseExpires
<1>9. CASE TtlExpires
  BY <1>9 DEF TtlExpires, RecordExpires, Absent
<1>10. CASE UNCHANGED vars
  BY <1>10 DEF vars
<1>11. QED
  BY <1>1, <1>2, <1>3, <1>4, <1>5, <1>6, <1>7, <1>8, <1>9, <1>10 DEF Next

-----------------------------------------------------------------------------
(* A record in processing is not ahead of the task that reports it.        *)

StageInv ==
  \A j \in Jobs : record.job = j /\ record.status = "processing" =>
    /\ record.stage <= NumStages
    /\ sub[j] = "over"
    /\ task[j] = "off" \/ record.stage <= stage[j]

LEMMA StageInvStep ==
  ASSUME TypeInv, AttemptInv, StageInv, [Next]_vars
  PROVE  StageInv'
<1> USE JobsAssumption, ServiceAssumption DEF TypeInv, TypeOK, StoreTypeOK, AttemptInv,
        StageInv, taskVars, processVars, history, storeVars, subOthers, taskOthers,
        beatOthers, recOthers
<1>1. ASSUME NEW j \in Jobs, Submit(j)
      PROVE  StageInv'
  <2>1. CASE SubmitLock(j)
    BY <2>1 DEF SubmitLock, Refuse
  <2>2. CASE SubmitRead(j)
    BY <2>2 DEF SubmitRead, Refuse, Reserve, Seen, Stale, InFlight
  <2>3. CASE SubmitReconcile(j)
    BY <2>3 DEF SubmitReconcile, Refuse, Reserve, Reconcile, Commit
  <2>4. CASE SubmitTell(j)
    BY <2>4 DEF SubmitTell, Refuse, Reserve
  <2>5. CASE SubmitAck(j)
    BY <2>5 DEF SubmitAck, Refuse, Reserve, Acknowledge
  <2>6. CASE SubmitPersist(j)
    BY <2>6 DEF SubmitPersist, Refuse, Admit, Commit
  <2>7. CASE SubmitDispatch(j)
    BY <2>7 DEF SubmitDispatch
  <2>8. CASE SubmitDiscard(j)
    BY <2>8 DEF SubmitDiscard, Refuse, Delete, Absent
  <2>9. QED
    BY <1>1, <2>1, <2>2, <2>3, <2>4, <2>5, <2>6, <2>7, <2>8 DEF Submit
<1>2. ASSUME NEW j \in Jobs, Run(j)
      PROVE  StageInv'
  <2>1. CASE StartWorker(j)
    BY <2>1 DEF StartWorker, Goto
  <2>2. CASE AbandonUnstarted(j)
    BY <2>2 DEF AbandonUnstarted, Goto
  <2>3. CASE Settle(j)
    BY <2>3 DEF Settle, Goto, Move, Commit
  <2>4. CASE ReportStage(j)
    BY <2>4 DEF ReportStage, Goto, End, Superseded, Move, Commit, MoreStages
  <2>5. CASE ReportReady(j)
    BY <2>5 DEF ReportReady, Goto, End, Superseded, Move, Commit
  <2>6. CASE Work(j)
    BY <2>6 DEF Work, Goto
  <2>7. CASE Fail(j)
    BY <2>7 DEF Fail, Goto
  <2>8. CASE MarkFailed(j)
    BY <2>8 DEF MarkFailed, Goto, End, Superseded, Move, Commit
  <2>9. CASE GiveUp(j)
    BY <2>9 DEF GiveUp, Goto, End
  <2>10. CASE Ack(j)
    BY <2>10 DEF Ack, Goto, End, Acknowledge
  <2>11. CASE \E status \in Terminal : Tell(j, status)
    BY <2>11 DEF Tell, Goto, End, Send
  <2>12. QED
    BY <1>2, <2>1, <2>2, <2>3, <2>4, <2>5, <2>6, <2>7, <2>8, <2>9, <2>10, <2>11 DEF Run
<1>3. ASSUME NEW j \in Jobs, Beat(j)
      PROVE  StageInv'
  <2>1. CASE BeatRead(j)
    BY <2>1 DEF BeatRead
  <2>2. CASE BeatRenew(j)
    <3>1. UNCHANGED <<sub, task, stage>>
      BY <2>2 DEF BeatRenew
    <3>2. record'.status = "processing"
            => record'.job = record.job /\ record'.stage = record.stage /\ record.status = "processing"
      BY <2>2 DEF BeatRenew, Renew, Records, Unreadable
    <3>3. QED
      BY <3>1, <3>2
  <2>3. QED
    BY <1>3, <2>1, <2>2 DEF Beat
<1>4. CASE Recover
  <2>1. CASE RecoverScan
    BY <2>1 DEF RecoverScan, RecGoto, ToFlush, RecIdle
  <2>2. CASE RecoverRead
    BY <2>2 DEF RecoverRead, RecGoto, ToFlush, RecIdle, Stale, InFlight
  <2>3. CASE RecoverUnindex
    BY <2>3 DEF RecoverUnindex, Unindex, ToFlush, RecIdle
  <2>4. CASE RecoverReconcile
    BY <2>4 DEF RecoverReconcile, Reconcile, Commit, RecGoto, ToFlush, RecIdle
  <2>5. CASE RecoverTell
    BY <2>5 DEF RecoverTell, RecGoto, ToFlush, RecIdle
  <2>6. CASE RecoverAck
    BY <2>6 DEF RecoverAck, ToFlush, RecIdle, Acknowledge
  <2>7. CASE FlushList
    BY <2>7 DEF FlushList
  <2>8. CASE FlushGet
    BY <2>8 DEF FlushGet, RecIdle
  <2>9. CASE FlushCheck
    BY <2>9 DEF FlushCheck, RecGoto, NextMember
  <2>10. CASE FlushSend
    BY <2>10 DEF FlushSend, RecGoto, NextMember
  <2>11. CASE FlushAck
    BY <2>11 DEF FlushAck, NextMember, Acknowledge
  <2>12. QED
    BY <1>4, <2>1, <2>2, <2>3, <2>4, <2>5, <2>6, <2>7, <2>8, <2>9, <2>10, <2>11 DEF Recover
<1>5. CASE ShutDown
  BY <1>5 DEF ShutDown, RecIdle
<1>6. CASE Restart
  BY <1>6 DEF Restart, RecIdle, Submitting
<1>7. CASE LockExpires
  BY <1>7 DEF LockExpires
<1>8. CASE StampExpires
  BY <1>8 DEF StampExpires, LeaseExpires
<1>9. CASE TtlExpires
  BY <1>9 DEF TtlExpires, RecordExpires, Absent
<1>10. CASE UNCHANGED vars
  BY <1>10 DEF vars
<1>11. QED
  BY <1>1, <1>2, <1>3, <1>4, <1>5, <1>6, <1>7, <1>8, <1>9, <1>10 DEF Next

-----------------------------------------------------------------------------
(* Whoever is about to reconcile an attempt on the stamp it has read holds *)
(* a stamp that is out of date, or one that is no longer the record's.     *)

LeaseInv ==
  /\ \A j \in Jobs :
       sub[j] = "reconciling" /\ record.status \in InFlight
         /\ record.job = sight[j].job /\ record.beat = sight[j].beat => ~ fresh
  /\ rec.pc = "reconciling" /\ record.status \in InFlight
       /\ record.job = rec.job /\ record.beat = rec.beat => ~ fresh

LEMMA LeaseInvStep ==
  ASSUME TypeInv, LeaseInv, [Next]_vars
  PROVE  LeaseInv'
<1>0. Now # rec.beat /\ \A j \in Jobs : Now # sight[j].beat
  BY NowIsNew DEF TypeInv, TypeOK
<1> USE JobsAssumption, ServiceAssumption DEF TypeInv, TypeOK, StoreTypeOK, LeaseInv,
        InFlight, taskVars, processVars, history, storeVars, subOthers, taskOthers,
        beatOthers, recOthers
<1>1. ASSUME NEW j \in Jobs, Submit(j)
      PROVE  LeaseInv'
  <2>1. CASE SubmitLock(j)
    BY <2>1, <1>0 DEF SubmitLock, Refuse
  <2>2. CASE SubmitRead(j)
    <3>1. UNCHANGED <<record, fresh, rec>>
      BY <2>2 DEF SubmitRead
    <3>2. /\ \A k \in Jobs \ {j} : sub'[k] = sub[k] /\ sight'[k] = sight[k]
          /\ sub'[j] = "reconciling" => Stale
      BY <2>2 DEF SubmitRead, Reserve, Refuse
    <3>3. QED
      BY <3>1, <3>2 DEF Stale
  <2>3. CASE SubmitReconcile(j)
    BY <2>3, <1>0 DEF SubmitReconcile, Refuse, Reserve, Reconcile, Commit
  <2>4. CASE SubmitTell(j)
    BY <2>4, <1>0 DEF SubmitTell, Refuse, Reserve
  <2>5. CASE SubmitAck(j)
    BY <2>5, <1>0 DEF SubmitAck, Refuse, Reserve, Acknowledge
  <2>6. CASE SubmitPersist(j)
    BY <2>6, <1>0 DEF SubmitPersist, Refuse, Admit, Commit
  <2>7. CASE SubmitDispatch(j)
    BY <2>7, <1>0 DEF SubmitDispatch
  <2>8. CASE SubmitDiscard(j)
    BY <2>8, <1>0 DEF SubmitDiscard, Refuse, Delete, Absent
  <2>9. QED
    BY <1>1, <2>1, <2>2, <2>3, <2>4, <2>5, <2>6, <2>7, <2>8 DEF Submit
<1>2. ASSUME NEW j \in Jobs, Run(j)
      PROVE  LeaseInv'
  <2>1. CASE StartWorker(j)
    BY <2>1, <1>0 DEF StartWorker, Goto
  <2>2. CASE AbandonUnstarted(j)
    BY <2>2, <1>0 DEF AbandonUnstarted, Goto
  <2>3. CASE Settle(j)
    BY <2>3, <1>0 DEF Settle, Goto, Move, Commit
  <2>4. CASE ReportStage(j)
    BY <2>4, <1>0 DEF ReportStage, Goto, End, Superseded, Move, Commit
  <2>5. CASE ReportReady(j)
    BY <2>5, <1>0 DEF ReportReady, Goto, End, Superseded, Move, Commit
  <2>6. CASE Work(j)
    BY <2>6, <1>0 DEF Work, Goto
  <2>7. CASE Fail(j)
    BY <2>7, <1>0 DEF Fail, Goto
  <2>8. CASE MarkFailed(j)
    BY <2>8, <1>0 DEF MarkFailed, Goto, End, Superseded, Move, Commit
  <2>9. CASE GiveUp(j)
    BY <2>9, <1>0 DEF GiveUp, Goto, End
  <2>10. CASE Ack(j)
    BY <2>10, <1>0 DEF Ack, Goto, End, Acknowledge
  <2>11. CASE \E status \in Terminal : Tell(j, status)
    BY <2>11 DEF Tell, Goto, End, Send
  <2>12. QED
    BY <1>2, <2>1, <2>2, <2>3, <2>4, <2>5, <2>6, <2>7, <2>8, <2>9, <2>10, <2>11 DEF Run
<1>3. ASSUME NEW j \in Jobs, Beat(j)
      PROVE  LeaseInv'
  <2>1. CASE BeatRead(j)
    BY <2>1, <1>0 DEF BeatRead
  <2>2. CASE BeatRenew(j)
    <3>1. UNCHANGED <<sub, sight, rec>>
      BY <2>2 DEF BeatRenew
    <3>2. \/ UNCHANGED <<record, fresh>>
          \/ record' = Unreadable
          \/ record'.beat = Now
      BY <2>2 DEF BeatRenew, Renew, Records
    <3>3. QED
      BY <1>0, <3>1, <3>2 DEF Unreadable
  <2>3. QED
    BY <1>3, <2>1, <2>2 DEF Beat
<1>4. CASE Recover
  <2>1. CASE RecoverScan
    BY <2>1, <1>0 DEF RecoverScan, RecGoto, ToFlush, RecIdle
  <2>2. CASE RecoverRead
    <3>1. UNCHANGED <<record, fresh, sub, sight>>
      BY <2>2 DEF RecoverRead
    <3>2. rec'.pc = "reconciling" => Stale
      BY <2>2 DEF RecoverRead, RecGoto, ToFlush, RecIdle
    <3>3. QED
      BY <3>1, <3>2 DEF Stale
  <2>3. CASE RecoverUnindex
    BY <2>3, <1>0 DEF RecoverUnindex, Unindex, ToFlush, RecIdle
  <2>4. CASE RecoverReconcile
    BY <2>4, <1>0 DEF RecoverReconcile, Reconcile, Commit, RecGoto, ToFlush, RecIdle
  <2>5. CASE RecoverTell
    <3>1. rec'.pc # "reconciling" /\ UNCHANGED <<record, fresh, sub, sight>>
      BY <2>5 DEF RecoverTell, Send, RecGoto, ToFlush, RecIdle
    <3>2. QED
      BY <3>1
  <2>6. CASE RecoverAck
    BY <2>6, <1>0 DEF RecoverAck, ToFlush, RecIdle, Acknowledge
  <2>7. CASE FlushList
    BY <2>7, <1>0 DEF FlushList
  <2>8. CASE FlushGet
    <3>1. UNCHANGED <<record, fresh, sub, sight>>
      BY <2>8 DEF FlushGet
    <3>2. \A k \in rec.todo :
            [rec EXCEPT !.job = k, !.payload = staged[k], !.todo = @ \ {k},
               !.pc = IF staged[k] = "none" THEN "dropping" ELSE "checking"].pc # "reconciling"
      BY rec \in [pc : RecPc, job : Jobs \cup {NoJob}, beat : Stamps,
                  payload : Terminal \cup {"none"}, todo : SUBSET Jobs]
    <3>3. CASE rec' = RecIdle
      BY <3>1, <3>3 DEF RecIdle
    <3>4. ASSUME NEW k \in rec.todo,
                 rec' = [rec EXCEPT !.job = k, !.payload = staged[k], !.todo = @ \ {k},
                           !.pc = IF staged[k] = "none" THEN "dropping" ELSE "checking"]
          PROVE  LeaseInv'
      <4>1. rec'.pc # "reconciling"
        BY <3>2, <3>4
      <4>2. QED
        BY <3>1, <4>1
    <3>5. QED
      BY <2>8, <3>3, <3>4 DEF FlushGet
  <2>9. CASE FlushCheck
    <3>1. rec'.pc # "reconciling" /\ UNCHANGED <<record, fresh, sub, sight>>
      BY <2>9 DEF FlushCheck, RecGoto, NextMember
    <3>2. QED
      BY <3>1
  <2>10. CASE FlushSend
    <3>1. rec'.pc # "reconciling" /\ UNCHANGED <<record, fresh, sub, sight>>
      BY <2>10 DEF FlushSend, Send, RecGoto, NextMember
    <3>2. QED
      BY <3>1
  <2>11. CASE FlushAck
    BY <2>11, <1>0 DEF FlushAck, NextMember, Acknowledge
  <2>12. QED
    BY <1>4, <2>1, <2>2, <2>3, <2>4, <2>5, <2>6, <2>7, <2>8, <2>9, <2>10, <2>11 DEF Recover
<1>5. CASE ShutDown
  BY <1>5 DEF ShutDown, RecIdle
<1>6. CASE Restart
  BY <1>6 DEF Restart, RecIdle, Submitting
<1>7. CASE LockExpires
  BY <1>7 DEF LockExpires
<1>8. CASE StampExpires
  BY <1>8 DEF StampExpires, LeaseExpires
<1>9. CASE TtlExpires
  BY <1>9 DEF TtlExpires, RecordExpires, Absent
<1>10. CASE UNCHANGED vars
  BY <1>10 DEF vars
<1>11. QED
  BY <1>1, <1>2, <1>3, <1>4, <1>5, <1>6, <1>7, <1>8, <1>9, <1>10 DEF Next

-----------------------------------------------------------------------------
(* The inductive invariant, and the action properties that follow from it. *)

IInv == TypeInv /\ AttemptInv /\ ReadyInv /\ StageInv /\ LeaseInv

LEMMA Invariance == Spec => []IInv
<1>1. Init => IInv
  <2> SUFFICES ASSUME Init PROVE IInv
    OBVIOUS
  <2>1. TypeInv
    BY TypeInit
  <2>2. AttemptInv /\ ReadyInv /\ StageInv /\ LeaseInv
    BY JobsAssumption
       DEF Init, StoreInit, Absent, RecIdle, AttemptInv, ReadyInv, StageInv, LeaseInv, InFlight
  <2>3. QED
    BY <2>1, <2>2 DEF IInv
<1>2. IInv /\ [Next]_vars => IInv'
  BY TypeStep, AttemptInvStep, ReadyInvStep, StageInvStep, LeaseInvStep DEF IInv
<1>3. QED
  BY <1>1, <1>2, PTL DEF Spec

(* What is carried to a reconciliation is an attempt and a stamp. *)
LEMMA CarriedEvidence ==
  ASSUME TypeInv
  PROVE  /\ \A j \in Jobs : sub[j] = "reconciling" => sight[j].job \in Jobs /\ sight[j].beat \in Stamps
         /\ rec.pc = "reconciling" => rec.job \in Jobs /\ rec.beat \in Stamps
BY DEF TypeInv, TypeOK, CarriedJobs, Sight

(* An attempt that lost the repository never takes it back from the one    *)
(* that replaced it.                                                       *)
THEOREM NeverTakenBack == Spec => NoTakeBack
<1>1. ASSUME IInv, [Next]_vars
      PROVE  record.job # NoJob /\ record'.job \notin {record.job, NoJob} => record'.job \notin opened
  <2> SUFFICES ASSUME record.job # NoJob, record'.job \notin {record.job, NoJob}
               PROVE  record'.job \notin opened
    OBVIOUS
  <2>1. record # Absent
    BY DEF Absent
  <2>2. ASSUME NEW j \in Jobs, sub[j] = "persisting", Admit(j, Now)
        PROVE  record'.job \notin opened
    BY <1>1, <2>2 DEF IInv, AttemptInv, Admit, Commit
  <2>3. ASSUME NEW j \in Jobs, Move(j, "failed", 0, Now) \/ Move(j, "ready", 0, Now)
                                \/ Move(j, "processing", stage[j] + 1, Now)
        PROVE  FALSE
    BY <2>1, <2>3, JobsAssumption DEF Move, CanMove, Allows, OwnedBy, Commit
  <2>4. ASSUME NEW j \in Jobs, NEW b \in Stamps, Reconcile(j, b)
        PROVE  FALSE
    BY <2>1, <2>4, JobsAssumption DEF Reconcile, CanReconcile, Allows, OwnedBy, Commit
  <2>5. ASSUME NEW j \in Jobs, Renew(j, Now)
        PROVE  FALSE
    BY <1>1, <2>1, <2>5 DEF IInv, TypeInv, TypeOK, StoreTypeOK, Renew, Records
  <2>6. ASSUME NEW j \in Jobs, Delete(j)
        PROVE  FALSE
    BY <2>6 DEF Delete, Absent
  <2>7. ASSUME RecordExpires
        PROVE  FALSE
    BY <2>7 DEF RecordExpires, Absent
  <2>8. ASSUME UNCHANGED record
        PROVE  FALSE
    BY <2>8
  <2>9. StoreStep
    BY <1>1, StoreSteps DEF IInv
  <2>10. QED
    BY <1>1, <2>2, <2>3, <2>4, <2>5, <2>6, <2>7, <2>8, <2>9, CarriedEvidence
       DEF IInv, StoreStep, Acknowledge, Unindex, LeaseExpires, storeVars
<1>2. QED
  BY <1>1, Invariance, PTL DEF Spec, NoTakeBack

(* READY is final for its attempt. *)
THEOREM ReadyNeverChanged == Spec => ReadyIsFinal
<1>1. ASSUME IInv, [Next]_vars
      PROVE  record.status = "ready" /\ record'.job = record.job => record' = record
  <2> SUFFICES ASSUME record.status = "ready", record'.job = record.job
               PROVE  record' = record
    OBVIOUS
  <2>1. record.job \in Jobs /\ record # Absent /\ record # Unreadable /\ record.job # NoJob
    BY <1>1, InFlightIsOwned, JobsAssumption
       DEF IInv, TypeInv, TypeOK, Terminal, Absent, Unreadable
  <2>2. sub[record.job] = "over" /\ task[record.job] \in {"off", "tellready", "ackready", "failing"}
    BY <1>1, <2>1 DEF IInv, ReadyInv
  <2>3. ASSUME NEW j \in Jobs, sub[j] = "persisting", Admit(j, Now)
        PROVE  FALSE
    BY <2>2, <2>3 DEF Admit, Commit
  <2>4. ASSUME NEW j \in Jobs, Move(j, "failed", 0, Now) \/ Move(j, "processing", stage[j] + 1, Now)
        PROVE  FALSE
    BY <2>1, <2>4, JobsAssumption DEF Move, CanMove, Allows, TerminalKept, Terminal
  <2>5. ASSUME NEW j \in Jobs, task[j] = "reporting", Move(j, "ready", 0, Now)
        PROVE  FALSE
    BY <2>2, <2>5 DEF Move, Commit
  <2>6. ASSUME NEW j \in Jobs, NEW b \in Stamps, Reconcile(j, b)
        PROVE  FALSE
    BY <2>1, <2>6, JobsAssumption DEF Reconcile, CanReconcile, Allows, LeaseUnchanged, InFlight
  <2>7. ASSUME NEW j \in Jobs, Renew(j, Now)
        PROVE  FALSE
    BY <2>1, <2>7, JobsAssumption DEF Renew, CanRenew, Allows, TerminalKept, Terminal
  <2>8. ASSUME NEW j \in Jobs, Delete(j)
        PROVE  FALSE
    BY <2>1, <2>8 DEF Delete, Absent
  <2>9. ASSUME RecordExpires
        PROVE  FALSE
    BY <2>1, <2>9 DEF RecordExpires, Absent
  <2>10. StoreStep
    BY <1>1, StoreSteps DEF IInv
  <2>11. QED
    BY <1>1, <2>3, <2>4, <2>5, <2>6, <2>7, <2>8, <2>9, <2>10, CarriedEvidence
       DEF IInv, StoreStep, Acknowledge, Unindex, LeaseExpires, storeVars
<1>2. QED
  BY <1>1, Invariance, PTL DEF Spec, ReadyIsFinal

(* The record of an attempt never goes back to an earlier stage or status. *)
THEOREM NeverGoesBack == Spec => ProgressIsMonotone
<1>1. ASSUME IInv, [Next]_vars
      PROVE  record'.job = record.job /\ record.job # NoJob => Rank(record') >= Rank(record)
  <2> SUFFICES ASSUME record'.job = record.job, record.job # NoJob
               PROVE  Rank(record') >= Rank(record)
    OBVIOUS
  <2> USE DEF Rank
  <2>1. /\ record \in Records /\ record' \in Records /\ record.job \in Jobs
        /\ record # Absent /\ record # Unreadable /\ record.status \in InFlight \cup Terminal
    BY <1>1, TypeStep, JobsAssumption
       DEF IInv, TypeInv, TypeOK, StoreTypeOK, Records, Absent, Unreadable
  <2>2. record.job \in opened /\ (record.status = "processing" =>
          /\ record.stage <= NumStages
          /\ sub[record.job] = "over"
          /\ task[record.job] = "off" \/ record.stage <= stage[record.job])
    BY <1>1, <2>1 DEF IInv, AttemptInv, StageInv
  <2>3. \A j \in Jobs : stage[j] \in 0..NumStages
    BY <1>1 DEF IInv, TypeInv, TypeOK
  <2>4. Rank(record) \in 0..NumStages + 1 /\ NumStages \in Nat
    BY <2>1, <2>2, ServiceAssumption DEF Records
  <2>5. ASSUME record'.status \in Terminal
        PROVE  Rank(record') >= Rank(record)
    BY <2>4, <2>5 DEF Terminal
  <2>6. ASSUME NEW j \in Jobs, sub[j] = "persisting", Admit(j, Now)
        PROVE  FALSE
    BY <1>1, <2>2, <2>6 DEF IInv, AttemptInv, Admit, Commit
  <2>7. ASSUME NEW j \in Jobs, Move(j, "failed", 0, Now) \/ Move(j, "ready", 0, Now)
        PROVE  record'.status \in Terminal
    BY <2>7 DEF Move, Commit, Terminal
  <2>8. ASSUME NEW j \in Jobs, task[j] = "reporting", MoreStages(j),
               Move(j, "processing", stage[j] + 1, Now)
        PROVE  Rank(record') >= Rank(record)
    <3>1. record.job = j /\ record'.stage = stage[j] + 1 /\ record'.status = "processing"
      BY <2>8 DEF Move, Commit
    <3>2. record.status \notin Terminal
      BY <2>1, <2>8, JobsAssumption DEF Move, CanMove, Allows, TerminalKept, Terminal
    <3>3. record.status = "processing" => record.stage <= stage[j]
      BY <2>2, <2>8, <3>1
    <3>4. QED
      BY <2>1, <2>3, <2>8, <3>1, <3>2, <3>3, ServiceAssumption DEF InFlight, Records, MoreStages
  <2>9. ASSUME NEW j \in Jobs, NEW b \in Stamps, Reconcile(j, b)
        PROVE  record'.status \in Terminal
    BY <2>9 DEF Reconcile, Commit, Terminal
  <2>10. ASSUME NEW j \in Jobs, Renew(j, Now)
         PROVE  record'.status = record.status /\ record'.stage = record.stage
    BY <2>1, <2>10 DEF Renew, Records
  <2>11. ASSUME (\E j \in Jobs : Delete(j)) \/ RecordExpires
         PROVE  FALSE
    BY <2>11 DEF Delete, RecordExpires, Absent
  <2>12. ASSUME record'.status = record.status, record'.stage = record.stage
         PROVE  Rank(record') >= Rank(record)
    BY <2>4, <2>12
  <2>13. ASSUME UNCHANGED record
         PROVE  Rank(record') >= Rank(record)
    BY <2>4, <2>13
  <2>14. StoreStep
    BY <1>1, StoreSteps DEF IInv
  <2>15. QED
    BY <1>1, <2>5, <2>6, <2>7, <2>8, <2>9, <2>10, <2>11, <2>12, <2>13, <2>14, CarriedEvidence
       DEF IInv, StoreStep, Acknowledge, Unindex, LeaseExpires, storeVars
<1>2. QED
  BY <1>1, Invariance, PTL DEF Spec, ProgressIsMonotone

(* An attempt whose lease is current is failed by its own task only. *)
THEOREM LivingKept == Spec => LivingNotReconciled
<1>1. ASSUME IInv, [Next]_vars
      PROVE  record.status \in InFlight /\ fresh /\ record'.status = "failed"
               => task[record.job] \in {"failing", "settling"}
  <2> SUFFICES ASSUME record.status \in InFlight, fresh, record'.status = "failed"
               PROVE  task[record.job] \in {"failing", "settling"}
    OBVIOUS
  <2>1. record.job \in Jobs /\ record # Absent /\ record.status # "failed"
    BY <1>1, InFlightIsOwned DEF IInv, TypeInv, TypeOK, InFlight, Absent
  <2>2. ASSUME NEW j \in Jobs, task[j] \in {"settling", "failing"}, Move(j, "failed", 0, Now)
        PROVE  task[record.job] \in {"failing", "settling"}
    BY <2>1, <2>2, JobsAssumption DEF Move, CanMove, Allows, OwnedBy
  <2>3. ASSUME NEW j \in Jobs, Move(j, "ready", 0, Now) \/ Move(j, "processing", stage[j] + 1, Now)
        PROVE  FALSE
    BY <2>3 DEF Move, Commit
  <2>4. ASSUME NEW j \in Jobs, NEW b \in Stamps, Reconcile(j, b)
        PROVE  record.job = j /\ record.beat = b
    BY <2>1, <2>4, JobsAssumption DEF Reconcile, CanReconcile, Allows, OwnedBy, LeaseUnchanged
  <2>5. ASSUME NEW j \in Jobs, sub[j] = "reconciling", Reconcile(sight[j].job, sight[j].beat)
        PROVE  FALSE
    BY <1>1, <2>4, <2>5, CarriedEvidence DEF IInv, LeaseInv
  <2>6. ASSUME rec.pc = "reconciling", Reconcile(rec.job, rec.beat)
        PROVE  FALSE
    BY <1>1, <2>4, <2>6, CarriedEvidence DEF IInv, LeaseInv
  <2>7. ASSUME NEW j \in Jobs, Admit(j, Now)
        PROVE  FALSE
    BY <2>7 DEF Admit, Commit
  <2>8. ASSUME NEW j \in Jobs, Renew(j, Now)
        PROVE  FALSE
    BY <1>1, <2>1, <2>8 DEF IInv, TypeInv, TypeOK, StoreTypeOK, Renew, Records
  <2>9. ASSUME (\E j \in Jobs : Delete(j)) \/ RecordExpires
        PROVE  FALSE
    BY <2>9 DEF Delete, RecordExpires, Absent
  <2>10. ASSUME UNCHANGED record
         PROVE  FALSE
    BY <2>1, <2>10
  <2>11. StoreStep
    BY <1>1, StoreSteps DEF IInv
  <2>12. QED
    BY <2>2, <2>3, <2>5, <2>6, <2>7, <2>8, <2>9, <2>10, <2>11
       DEF StoreStep, Acknowledge, Unindex, LeaseExpires, storeVars
<1>2. QED
  BY <1>1, Invariance, PTL DEF Spec, LivingNotReconciled

(* The active set names every attempt in flight, unless the sweep took it  *)
(* out after reading the record.                                           *)
THEOREM OnlySweepUnindexes == Spec => MissingOnlyBySweep
<1>1. ASSUME TypeInv, [Next]_vars
      PROVE  Missing' => Missing \/ rec.pc = "unindexing"
  <2> SUFFICES ASSUME Missing', rec.pc # "unindexing"
               PROVE  Missing
    OBVIOUS
  <2>1. record'.status \in InFlight /\ ~ indexed'
    BY DEF Missing
  <2>2. ASSUME NEW j, NEW status, NEW s, NEW b, Commit(j, status, s, b)
        PROVE  FALSE
    BY <2>1, <2>2 DEF Commit, InFlight, Terminal
  <2>3. ASSUME NEW j \in Jobs, Renew(j, Now)
        PROVE  Missing
    BY <1>1, <2>1, <2>3 DEF Renew, Missing, Unreadable, InFlight, TypeInv, TypeOK,
       StoreTypeOK, Records
  <2>4. ASSUME (\E j \in Jobs : Delete(j)) \/ RecordExpires
        PROVE  FALSE
    BY <2>1, <2>4 DEF Delete, RecordExpires, Absent, InFlight
  <2>5. ASSUME UNCHANGED <<record, indexed>>
        PROVE  Missing
    BY <2>1, <2>5 DEF Missing
  <2>6. StoreStep
    BY <1>1, StoreSteps
  <2>7. QED
    BY <2>2, <2>3, <2>4, <2>5, <2>6
       DEF StoreStep, Admit, Move, Reconcile, Acknowledge, LeaseExpires, storeVars
<1>2. QED
  BY <1>1, TypeInvariance, PTL DEF Spec, MissingOnlyBySweep
==============================================================================
