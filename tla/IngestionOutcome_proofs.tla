------------------------ MODULE IngestionOutcome_proofs ------------------------
(***************************************************************************)
(* What becomes of an attempt, for every value of the constants: what the  *)
(* service does to the record is what AttemptLedger allows (as long as it  *)
(* is not shut down in an orderly way), and the terminal status of the     *)
(* record's owner is staged until Express has accepted it.                 *)
(***************************************************************************)
EXTENDS IngestionSafety_proofs

-----------------------------------------------------------------------------
(* While the service accepts submissions no admitted record is discarded:  *)
(* there is no record only while nobody works on an attempt.  (A shutdown  *)
(* between the admission and the dispatch deletes the record, and an older *)
(* worker may then write over its absence.)                                *)

NotAlone(j) ==
  \/ task[j] # "off" \/ beating[j] # "off"
  \/ sub[j] \in {"reconciling", "telling", "acking", "dispatching", "discarding"}

Kept ==
  /\ accepting
  /\ \A j \in Jobs : sub[j] # "discarding" /\ (beating[j] # "off" => task[j] # "off")

QuietInv ==
  /\ MayShutDown = FALSE => accepting /\ record # Unreadable
  /\ rec.pc # "idle" => accepting
  /\ accepting =>
       /\ Kept
       /\ record.job = NoJob => (\A j \in Jobs : ~ NotAlone(j)) /\ rec.pc # "reconciling"

(* A step that leaves the record with an owner has only Kept to preserve. *)
LEMMA OwnedIsQuiet ==
  ASSUME Kept', record'.job \in Jobs
  PROVE  QuietInv'
BY JobsAssumption DEF QuietInv, Kept, Unreadable

(* A step that leaves the record alone must not start anything without it. *)
LEMMA IdleIsQuiet ==
  ASSUME QuietInv, accepting, Kept', UNCHANGED record,
         record.job = NoJob => (\A j \in Jobs : ~ NotAlone(j)') /\ rec'.pc # "reconciling"
  PROVE  QuietInv'
BY DEF QuietInv, Kept, Unreadable, NotAlone

LEMMA RecordOwned ==
  ASSUME TypeInv, QuietInv, accepting
  PROVE  /\ record.job \in Jobs \cup {NoJob}
         /\ \A j \in Jobs : NotAlone(j) => record.job \in Jobs
         /\ rec.pc = "reconciling" => record.job \in Jobs
BY JobsAssumption DEF TypeInv, TypeOK, StoreTypeOK, Records, QuietInv

LEMMA QuietSubmit ==
  ASSUME TypeInv, QuietInv, accepting, NEW j \in Jobs, Submit(j)
  PROVE  QuietInv'
<1> USE DEF subOthers, taskVars, history, storeVars
<1>1. CASE SubmitLock(j) \/ SubmitRead(j)
  <2>1. UNCHANGED <<record, accepting, task, beating, rec>>
    BY <1>1 DEF SubmitLock, SubmitRead
  <2>2. \E pc \in {"reading", "over", "reconciling", "persisting"} :
           /\ sub' = [sub EXCEPT ![j] = pc]
           /\ pc = "reconciling" => record.status \in InFlight
    BY <1>1 DEF SubmitLock, SubmitRead, Refuse, Reserve, Stale
  <2>3. record.status \in InFlight => record.job # NoJob
    BY InFlightIsOwned, JobsAssumption DEF TypeInv, TypeOK
  <2>4. sub \in [Jobs -> SubPc]
    BY DEF TypeInv, TypeOK
  <2>5. Kept'
    BY <2>1, <2>2, <2>4 DEF QuietInv, Kept
  <2>6. record.job = NoJob => (\A k \in Jobs : ~ NotAlone(k)') /\ rec'.pc # "reconciling"
    BY <2>1, <2>2, <2>3, <2>4 DEF QuietInv, NotAlone
  <2>7. QED
    BY <2>1, <2>5, <2>6, IdleIsQuiet
<1>2. CASE SubmitReconcile(j) \/ SubmitTell(j) \/ SubmitAck(j)
  <2>1. NotAlone(j) /\ UNCHANGED <<accepting, task, beating>>
    BY <1>2 DEF SubmitReconcile, SubmitTell, SubmitAck, NotAlone
  <2>2. \E pc \in {"telling", "acking", "persisting", "over"} : sub' = [sub EXCEPT ![j] = pc]
    BY <1>2 DEF SubmitReconcile, SubmitTell, SubmitAck, Refuse, Reserve
  <2>3. Kept'
    BY <2>1, <2>2 DEF TypeInv, TypeOK, QuietInv, Kept
  <2>4. record'.job \in Jobs
    <3>1. CASE Reconcile(sight[j].job, sight[j].beat) /\ sub[j] = "reconciling"
      BY <3>1, CarriedEvidence DEF Reconcile, Commit
    <3>2. CASE UNCHANGED record
      BY <2>1, <3>2, RecordOwned
    <3>3. QED
      BY <1>2, <3>1, <3>2 DEF SubmitReconcile, SubmitTell, SubmitAck, Acknowledge
  <2>5. QED
    BY <2>3, <2>4, OwnedIsQuiet
<1>3. CASE SubmitPersist(j)
  <2>1. UNCHANGED <<accepting, task, beating, rec>>
    BY <1>3 DEF SubmitPersist
  <2>2. \E pc \in {"dispatching", "over"} :
           /\ sub' = [sub EXCEPT ![j] = pc]
           /\ record'.job = j \/ (UNCHANGED record /\ pc = "over")
    BY <1>3 DEF SubmitPersist, Refuse, Admit, Commit
  <2>3. Kept'
    BY <2>1, <2>2 DEF TypeInv, TypeOK, QuietInv, Kept
  <2>4. CASE record'.job = j
    BY <2>3, <2>4, OwnedIsQuiet
  <2>5. CASE UNCHANGED record /\ sub' = [sub EXCEPT ![j] = "over"]
    <3>1. record.job = NoJob => (\A k \in Jobs : ~ NotAlone(k)') /\ rec'.pc # "reconciling"
      BY <2>1, <2>5 DEF TypeInv, TypeOK, QuietInv, NotAlone
    <3>2. QED
      BY <2>3, <2>5, <3>1, IdleIsQuiet
  <2>6. QED
    BY <2>2, <2>4, <2>5
<1>4. CASE SubmitDispatch(j)
  <2>1. NotAlone(j) /\ UNCHANGED <<record, accepting>>
    BY <1>4 DEF SubmitDispatch, NotAlone
  <2>2. Kept'
    BY <1>4 DEF SubmitDispatch, TypeInv, TypeOK, QuietInv, Kept
  <2>3. QED
    BY <2>1, <2>2, RecordOwned, OwnedIsQuiet
<1>5. CASE SubmitDiscard(j)
  BY <1>5 DEF SubmitDiscard, QuietInv, Kept
<1>6. QED
  BY <1>1, <1>2, <1>3, <1>4, <1>5 DEF Submit

(* A task or heartbeat loop that runs has a record, which it can only keep. *)
LEMMA QuietRun ==
  ASSUME TypeInv, QuietInv, accepting, NEW j \in Jobs, Run(j) \/ Beat(j)
  PROVE  QuietInv'
<1>1. NotAlone(j)
  BY DEF Run, Beat, StartWorker, AbandonUnstarted, Settle, ReportStage, ReportReady, Work, Fail,
         MarkFailed, GiveUp, Tell, Ack, BeatRead, BeatRenew, NotAlone
<1>2. record.job \in Jobs /\ record # Absent
  BY <1>1, RecordOwned, JobsAssumption DEF Absent
<1>3. record'.job \in Jobs
  <2>1. ASSUME NEW status, NEW s, Move(j, status, s, Now)
        PROVE  record'.job \in Jobs
    BY <2>1 DEF Move, Commit
  <2>2. ASSUME Renew(j, Now)
        PROVE  record'.job \in Jobs
    BY <1>2, <2>2 DEF TypeInv, TypeOK, StoreTypeOK, Records, Renew
  <2>3. ASSUME UNCHANGED record
        PROVE  record'.job \in Jobs
    BY <1>2, <2>3
  <2>4. QED
    BY <2>1, <2>2, <2>3
       DEF Run, Beat, StartWorker, AbandonUnstarted, Settle, ReportStage, ReportReady, Work, Fail,
           MarkFailed, GiveUp, Tell, Ack, BeatRead, BeatRenew, Superseded, Acknowledge, storeVars
<1>4. Kept'
  <2> USE DEF TypeInv, TypeOK, QuietInv, Kept, taskOthers, beatOthers, Goto, End
  <2>1. CASE StartWorker(j) \/ AbandonUnstarted(j) \/ Settle(j)
    BY <2>1 DEF StartWorker, AbandonUnstarted, Settle
  <2>2. CASE ReportStage(j) \/ ReportReady(j) \/ MarkFailed(j)
    BY <2>2 DEF ReportStage, ReportReady, MarkFailed, Superseded
  <2>3. CASE Work(j) \/ Fail(j) \/ GiveUp(j) \/ Ack(j)
    BY <2>3 DEF Work, Fail, GiveUp, Ack
  <2>4. CASE \E status \in Terminal : Tell(j, status)
    BY <2>4 DEF Tell
  <2>5. CASE Beat(j)
    BY <2>5 DEF Beat, BeatRead, BeatRenew
  <2>6. QED
    BY <2>1, <2>2, <2>3, <2>4, <2>5 DEF Run
<1>5. QED
  BY <1>3, <1>4, OwnedIsQuiet

LEMMA QuietRecover ==
  ASSUME TypeInv, QuietInv, accepting, Recover
  PROVE  QuietInv'
<1> USE DEF storeVars, recOthers, taskVars, RecGoto, ToFlush, RecIdle, NextMember
<1>1. Kept'
  BY DEF QuietInv, Kept, Recover, RecoverScan, RecoverRead, RecoverUnindex, RecoverReconcile,
         RecoverTell, RecoverAck, FlushList, FlushGet, FlushCheck, FlushSend, FlushAck
<1>2. CASE RecoverReconcile
  <2>1. CASE Reconcile(rec.job, rec.beat)
    BY <1>1, <1>2, <2>1, CarriedEvidence, OwnedIsQuiet DEF RecoverReconcile, Reconcile, Commit
  <2>2. CASE UNCHANGED record
    BY <1>1, <1>2, <2>2, RecordOwned, OwnedIsQuiet DEF RecoverReconcile
  <2>3. QED
    BY <1>2, <2>1, <2>2 DEF RecoverReconcile
<1>3. CASE ~ RecoverReconcile
  <2>1. UNCHANGED <<record, sub, task, beating>>
    BY <1>3 DEF Recover, RecoverScan, RecoverRead, RecoverUnindex, RecoverTell, RecoverAck,
       FlushList,
       FlushGet, FlushCheck, FlushSend, FlushAck, Unindex, Acknowledge
  <2>2. record.job = NoJob => rec'.pc # "reconciling"
    <3>1. CASE RecoverRead
      <4>1. record.status \in InFlight => record.job # NoJob
        BY InFlightIsOwned, JobsAssumption DEF TypeInv, TypeOK
      <4>2. QED
        BY <3>1, <4>1 DEF RecoverRead, Stale, TypeInv, TypeOK
    <3>2. CASE RecoverScan \/ RecoverUnindex \/ RecoverAck \/ FlushList
      BY <3>2 DEF RecoverScan, RecoverUnindex, RecoverAck, FlushList, TypeInv, TypeOK
    <3>3. CASE RecoverTell
      BY <3>3 DEF RecoverTell, TypeInv, TypeOK
    <3>4. CASE FlushGet
      <4>1. CASE rec' = RecIdle
        BY <4>1
      <4>2. CASE \E j \in rec.todo : rec' = [rec EXCEPT !.job = j, !.payload = staged[j], !.todo = @ \ {j},
                             !.pc = IF staged[j] = "none" THEN "dropping" ELSE "checking"]
        BY <4>2 DEF TypeInv, TypeOK
      <4>3. QED
        BY <3>4, <4>1, <4>2 DEF FlushGet
    <3>5. CASE FlushCheck \/ FlushSend \/ FlushAck
      BY <3>5 DEF FlushCheck, FlushSend, FlushAck, TypeInv, TypeOK
    <3>6. QED
      BY <1>3, <3>1, <3>2, <3>3, <3>4, <3>5 DEF Recover
  <2>3. record.job = NoJob => \A j \in Jobs : ~ NotAlone(j)'
    BY <2>1 DEF QuietInv, NotAlone
  <2>4. QED
    BY <1>1, <2>1, <2>2, <2>3, IdleIsQuiet
<1>4. QED
  BY <1>2, <1>3

LEMMA QuietRestart ==
  ASSUME TypeInv, QuietInv, Restart
  PROVE  QuietInv'
<1>1. sub \in [Jobs -> SubPc]
  BY DEF TypeInv, TypeOK
<1>2. Kept'
  BY <1>1 DEF Restart, Submitting, Kept, SubPc
<1>3. UNCHANGED record /\ rec'.pc = "idle"
  BY DEF Restart, storeVars, RecIdle
<1>4. \A j \in Jobs : ~ NotAlone(j)'
  BY <1>1 DEF Restart, Submitting, NotAlone, SubPc
<1>5. QED
  BY <1>2, <1>3, <1>4 DEF QuietInv, Kept

LEMMA QuietInvStep ==
  ASSUME TypeInv, QuietInv, [Next]_vars
  PROVE  QuietInv'
<1>1. CASE TtlExpires
  BY <1>1 DEF TtlExpires, RecordExpires, processVars, taskVars, Live, Submitting, QuietInv,
     Kept,
              NotAlone, Absent, Unreadable
<1>2. CASE LockExpires \/ StampExpires \/ UNCHANGED vars
  BY <1>2 DEF LockExpires, StampExpires, LeaseExpires, vars, storeVars, processVars, taskVars,
              QuietInv, Kept, NotAlone, Unreadable
<1>3. CASE ShutDown
  BY <1>3 DEF ShutDown, QuietInv, RecIdle
<1>4. ASSUME ~ accepting, \E j \in Jobs : Submit(j) \/ Run(j) \/ Beat(j)
      PROVE  QuietInv'
  <2>1. UNCHANGED <<accepting, rec>>
    BY <1>4 DEF Submit, SubmitLock, SubmitRead, SubmitReconcile, SubmitTell, SubmitAck,
       SubmitPersist,
       SubmitDispatch, SubmitDiscard, subOthers, Run, StartWorker, AbandonUnstarted, Settle, ReportStage,
       ReportReady, Work, Fail, MarkFailed, GiveUp, Tell, Ack, taskOthers, Beat, BeatRead, BeatRenew,
       beatOthers
  <2>2. QED
    BY <1>4, <2>1 DEF QuietInv
<1>5. ASSUME ~ accepting, Recover
      PROVE  FALSE
  BY <1>5 DEF QuietInv, Recover, RecoverScan, RecoverRead, RecoverUnindex, RecoverReconcile,
     RecoverTell, RecoverAck, FlushList, FlushGet, FlushCheck, FlushSend, FlushAck
<1>6. QED
  BY <1>1, <1>2, <1>3, <1>4, <1>5, QuietRestart, QuietSubmit, QuietRun, QuietRecover DEF Next

LEMMA Quietness == Spec => []QuietInv
<1>1. Init => QuietInv
  BY DEF Init, StoreInit, Absent, Unreadable, RecIdle, QuietInv, Kept, NotAlone
<1>2. IInv /\ QuietInv /\ [Next]_vars => QuietInv'
  BY QuietInvStep DEF IInv
<1>3. QED
  BY <1>1, <1>2, Invariance, PTL DEF Spec

-----------------------------------------------------------------------------
(* What each script call is to the ledger. *)

LEMMA PhaseValues ==
  /\ record.status \in InFlight => Phase = "open"
  /\ record.status \in Terminal => Phase = record.status
  /\ record.status \notin InFlight \cup Terminal => Phase = "none"
BY DEF Phase, InFlight, Terminal

LEMMA PhaseValuesNext ==
  /\ record'.status \in InFlight => Phase' = "open"
  /\ record'.status \in Terminal => Phase' = record'.status
  /\ record'.status \notin InFlight \cup Terminal => Phase' = "none"
BY DEF Phase, InFlight, Terminal

LEMMA AdmitOpens ==
  ASSUME NEW j \in Jobs, j \notin opened, opened' = opened \cup {j}, record # Unreadable, Admit(j, Now)
  PROVE  Ledger!Next
<1>1. record.status \notin InFlight
  BY DEF Admit, CanAdmit, Allows, NotInFlight, InFlight, Absent
<1>2. Phase # "open"
  BY <1>1, PhaseValues DEF Terminal
<1>3. record'.job = j /\ record'.status = "pending"
  BY DEF Admit, Commit
<1>4. Phase' = "open"
  BY <1>3, PhaseValuesNext DEF InFlight
<1>5. QED
  BY <1>2, <1>3, <1>4 DEF Ledger!Next, Ledger!Open

(* A record that has an owner changes its phase as the ledger allows. *)
LEMMA OwnedSteps ==
  ASSUME UNCHANGED opened, record'.job = record.job,
         \/ record.status \in InFlight /\ record'.status \in InFlight \cup Terminal
         \/ record.status = "failed" /\ record'.status \in Terminal
         \/ record'.status = record.status
  PROVE  Ledger!Next \/ UNCHANGED Ledger!ledger
<1>1. CASE record.status \in InFlight /\ record'.status \in Terminal
  BY <1>1, PhaseValues, PhaseValuesNext DEF Ledger!Next, Ledger!Close, Terminal
<1>2. CASE record.status = "failed" /\ record'.status = "ready"
  BY <1>2, PhaseValues, PhaseValuesNext DEF Ledger!Next, Ledger!Correct, Terminal
<1>3. CASE \/ record.status \in InFlight /\ record'.status \in InFlight
           \/ record.status = record'.status
  <2>1. Phase' = Phase
    BY <1>3, PhaseValues, PhaseValuesNext
  <2>2. QED
    BY <2>1 DEF Ledger!ledger
<1>4. QED
  BY <1>1, <1>2, <1>3 DEF Terminal

LEMMA MoveSteps ==
  ASSUME NEW j \in Jobs, NEW status \in {"processing", "ready", "failed"}, NEW s,
         StoreTypeOK, record.job \in Jobs, UNCHANGED opened, Move(j, status, s, Now)
  PROVE  Ledger!Next \/ UNCHANGED Ledger!ledger
<1>1. record'.job = j /\ record'.status = status
  BY DEF Move, Commit
<1>2. record # Absent /\ record.status \in InFlight \cup Terminal
  BY JobsAssumption DEF StoreTypeOK, Absent
<1>3. record.job = j /\ TerminalKept(j, "transition", status)
  BY <1>2, JobsAssumption DEF Move, CanMove, Allows, OwnedBy
<1>4. record.status \in Terminal => status \in Terminal /\ ~ (record.status = "ready" /\ status = "failed")
  BY <1>3, JobsAssumption DEF TerminalKept
<1>5. QED
  BY <1>1, <1>2, <1>3, <1>4, OwnedSteps DEF InFlight, Terminal

LEMMA ReconcileSteps ==
  ASSUME NEW j \in Jobs, NEW b \in Stamps,
         record.job \in Jobs, UNCHANGED opened, Reconcile(j, b)
  PROVE  Ledger!Next \/ UNCHANGED Ledger!ledger
<1>1. record'.job = j /\ record'.status = "failed"
  BY DEF Reconcile, Commit
<1>2. record.job = j /\ record.status \in InFlight
  BY JobsAssumption DEF Reconcile, CanReconcile, Allows, OwnedBy, LeaseUnchanged, Absent
<1>3. QED
  BY <1>1, <1>2, OwnedSteps DEF Terminal

(* As long as the service is not shut down in an orderly way, what it does *)
(* to the record is what the ledger promises: an attempt opens once, when  *)
(* no other is open, it is settled by its own worker or a reconciliation,  *)
(* only a failure is ever corrected, and the record is forgotten whole.    *)
THEOREM StepsAreLedgerSteps == MayShutDown = FALSE => (Spec => LedgerSteps)
<1> SUFFICES ASSUME MayShutDown = FALSE
             PROVE  Spec => LedgerSteps
  OBVIOUS
<1>1. Init => Ledger!Init
  BY DEF Init, StoreInit, Absent, Ledger!Init, Phase, InFlight, Terminal
<1>2. ASSUME IInv, QuietInv, [Next]_vars
      PROVE  Ledger!Next \/ UNCHANGED Ledger!ledger
  <2>1. TypeInv /\ StoreTypeOK /\ record # Unreadable /\ accepting
    BY <1>2 DEF IInv, TypeInv, TypeOK, QuietInv
  <2>2. StoreStep
    BY <1>2, <2>1, StoreSteps
  <2>3. ASSUME NEW j \in Jobs, sub[j] = "persisting", Admit(j, Now), opened' = opened \cup {j}
        PROVE  Ledger!Next
    BY <1>2, <2>1, <2>3, AdmitOpens DEF IInv, AttemptInv
  <2>4. ASSUME NEW j \in Jobs, UNCHANGED opened,
               \/ task[j] \in {"settling", "failing"} /\ Move(j, "failed", 0, Now)
               \/ task[j] = "reporting" /\ Move(j, "processing", stage[j] + 1, Now)
               \/ task[j] = "reporting" /\ Move(j, "ready", 0, Now)
        PROVE  Ledger!Next \/ UNCHANGED Ledger!ledger
    <3>1. record.job \in Jobs
      BY <1>2, <2>1, <2>4, RecordOwned DEF NotAlone
    <3>2. QED
      BY <2>1, <2>4, <3>1, MoveSteps
  <2>5. ASSUME NEW j \in Jobs, UNCHANGED opened,
               sub[j] = "reconciling", Reconcile(sight[j].job, sight[j].beat)
        PROVE  Ledger!Next \/ UNCHANGED Ledger!ledger
    <3>1. record.job \in Jobs
      BY <1>2, <2>1, <2>5, RecordOwned DEF NotAlone
    <3>2. QED
      BY <2>1, <2>5, <3>1, ReconcileSteps, CarriedEvidence
  <2>6. ASSUME UNCHANGED opened, rec.pc = "reconciling", Reconcile(rec.job, rec.beat)
        PROVE  Ledger!Next \/ UNCHANGED Ledger!ledger
    BY <1>2, <2>1, <2>6, RecordOwned, ReconcileSteps, CarriedEvidence
  <2>7. ASSUME NEW j \in Jobs, UNCHANGED opened, beating[j] = "seen", Renew(j, Now)
        PROVE  Ledger!Next \/ UNCHANGED Ledger!ledger
    <3>1. record.job \in Jobs /\ record # Absent
      BY <1>2, <2>1, <2>7, RecordOwned, JobsAssumption DEF NotAlone, Absent
    <3>2. record'.job = record.job /\ record'.status = record.status
      BY <2>1, <2>7, <3>1 DEF Renew, StoreTypeOK, Records
    <3>3. QED
      BY <2>7, <3>2, OwnedSteps
  <2>8. ASSUME NEW j \in Jobs, sub[j] = "discarding"
        PROVE  FALSE
    BY <1>2, <2>8 DEF QuietInv, Kept
  <2>9. ASSUME UNCHANGED opened, RecordExpires
        PROVE  Ledger!Next
    <3>1. record.status \in InFlight \cup Terminal
      BY <2>1, <2>9, JobsAssumption DEF RecordExpires, StoreTypeOK, Records
    <3>2. Phase # "none"
      BY <3>1, PhaseValues DEF Terminal
    <3>3. record' = Absent
      BY <2>9 DEF RecordExpires
    <3>4. record'.job = NoJob /\ Phase' = "none"
      BY <3>3, PhaseValuesNext DEF Absent, InFlight, Terminal
    <3>5. QED
      BY <2>9, <3>2, <3>4 DEF Ledger!Next, Ledger!Forget
  <2>10. ASSUME UNCHANGED <<opened, record>>
         PROVE  UNCHANGED Ledger!ledger
    BY <2>10 DEF Ledger!ledger, Phase
  <2>11. QED
    BY <2>2, <2>3, <2>4, <2>5, <2>6, <2>7, <2>8, <2>9, <2>10
       DEF StoreStep, Acknowledge, Unindex, LeaseExpires, storeVars
<1>3. IInv /\ QuietInv /\ [Next]_vars => [Ledger!Next]_(Ledger!ledger)
  BY <1>2
<1>4. QED
  BY <1>1, <1>3, Invariance, Quietness, PTL DEF Spec, LedgerSteps

-----------------------------------------------------------------------------
(* What one step may do to the delivery of the terminal status of attempt  *)
(* k: to its record, to its staged callback, to what Express was told, and *)
(* to the three kinds of process that deliver it.                          *)

Early    == {"waiting", "settling", "reporting", "working"}
Flushers == {"checking", "sending", "dropping"}

RecordEffect(k) ==
  \/ record'.job = record.job /\ record'.status = record.status
  \/ record'.job # k
  \/ /\ record'.job = k
     /\ \/ sub[k] = "persisting" /\ record'.status = "pending"
        \/ record'.status = "failed" /\ k \in buried' /\ staged'[k] = "failed"
        \/ task[k] = "reporting" /\ record'.status = "processing" /\ task'[k] = "working"
        \/ /\ task[k] = "reporting" /\ task'[k] = "tellready"
           /\ record'.status = "ready" /\ staged'[k] = "ready"
        \/ /\ task[k] \in {"settling", "failing"} /\ task'[k] = "tellfailed"
           /\ record'.status = "failed" /\ staged'[k] = "failed"
           /\ record.job = k => record.status # "ready"

Acker(k) ==
  \/ \E j \in Jobs : sub[j] = "acking" /\ sight[j].job = k
  \/ rec.pc \in {"acking", "dropping"} /\ rec.job = k
  \/ task[k] \in {"ackready", "ackfailed"}

StagedEffect(k) ==
  \/ staged'[k] = staged[k]
  \/ staged'[k] = "none" /\ Acker(k) /\ UNCHANGED <<record, told>>
  \/ staged'[k] = record'.status /\ record'.job = k /\ record'.status \in Terminal

ToldEffect(k) ==
  \/ told'[k] = told[k]
  \/ /\ UNCHANGED <<record, staged>>
     /\ \/ k \in buried /\ told'[k] = "failed"
        \/ task[k] = "tellready" /\ told'[k] = "ready"
        \/ task[k] = "tellfailed" /\ told'[k] = "failed"
        \/ rec.pc = "sending" /\ rec.job = k /\ told'[k] = rec.payload

TaskEffect(k) ==
  /\ task'[k] \in Early => task[k] \in Early \/ sub[k] = "dispatching"
  /\ task'[k] = "tellready" =>
       task[k] = "tellready" \/ (record'.job = k /\ record'.status = "ready")
  /\ task'[k] = "ackready" =>
       task[k] = "ackready" \/ (task[k] = "tellready" /\ told'[k] = "ready")
  /\ task'[k] = "ackfailed" =>
       task[k] = "ackfailed" \/ (task[k] = "tellfailed" /\ told'[k] = "failed")

FlushEffect(k) ==
  /\ k \in rec'.todo => k \in rec.todo \/ (rec.pc = "listing" /\ staged[k] # "none")
  /\ rec'.todo # {} => rec'.pc \in Flushers \cup {"flushing"}
  /\ rec'.pc \in Flushers /\ rec'.job = k /\ rec' # rec =>
       /\ UNCHANGED <<record, staged>>
       /\ \/ k \in rec.todo /\ rec'.payload = staged[k]
             /\ (rec'.pc = "dropping" <=> staged[k] = "none")
             /\ rec'.pc # "sending"
             /\ rec.pc = "flushing" /\ UNCHANGED told
          \/ rec.pc = "checking" /\ rec.job = k /\ rec'.payload = rec.payload /\ rec'.pc = "sending"
             /\ UNCHANGED told
          \/ rec.pc = "checking" /\ rec.job = k /\ record.job # k /\ rec'.pc = "dropping"
             /\ UNCHANGED told
          \/ rec.pc = "sending" /\ rec.job = k /\ told'[k] = rec.payload /\ rec'.pc = "dropping"

SubEffect(k) ==
  /\ sub[k] = "over" => sub'[k] = "over"
  /\ opened \subseteq opened' /\ buried \subseteq buried'
  /\ sub'[k] = "telling" =>
       sight'[k] = sight[k] /\ (sub[k] = "telling" \/ sight[k].job \in buried')
  /\ sub'[k] = "acking" =>
       /\ sight'[k] = sight[k]
       /\ sub[k] = "acking" \/ (sub[k] = "telling" /\ told'[sight[k].job] = "failed")
  /\ rec'.pc = "telling" => rec'.job = rec.job /\ (rec.pc = "telling" \/ rec.job \in buried')
  /\ rec'.pc = "acking" =>
       /\ rec'.job = rec.job
       /\ rec.pc = "acking" \/ (rec.pc = "telling" /\ told'[rec.job] = "failed")

Effects(k) ==
  /\ RecordEffect(k) /\ StagedEffect(k) /\ ToldEffect(k) /\ TaskEffect(k)
  /\ FlushEffect(k) /\ SubEffect(k)

(* Only an attempt that was reconciled is told failed by somebody else. *)
BuriedInv ==
  /\ \A j \in Jobs : sub[j] \in {"telling", "acking"} => sight[j].job \in buried
  /\ rec.pc \in {"telling", "acking"} => rec.job \in buried

(* What the effects of a step rest on. *)
DeliveryTypes ==
  /\ BuriedInv
  /\ sub \in [Jobs -> SubPc] /\ task \in [Jobs -> TaskPc]
  /\ sight \in [Jobs -> Sight]
  /\ staged \in [Jobs -> Terminal \cup {"none"}] /\ told \in [Jobs -> Terminal \cup {"none"}]
  /\ rec \in [pc : RecPc, job : Jobs \cup {NoJob}, beat : Stamps,
              payload : Terminal \cup {"none"}, todo : SUBSET Jobs]
  /\ record \in Records
  /\ rec.todo # {} => rec.pc \in Flushers \cup {"flushing"}
  /\ CarriedJobs

LEMMA ReadyNotFailed ==
  ASSUME NEW j \in Jobs, Move(j, "failed", 0, Now), record.job = j
  PROVE  record.status # "ready"
BY JobsAssumption DEF Move, CanMove, Allows, TerminalKept, Terminal, Absent

LEMMA SubmitEffects ==
  ASSUME DeliveryTypes, NEW j \in Jobs, Submit(j), NEW k \in Jobs
  PROVE  Effects(k)
<1> USE DEF DeliveryTypes, Effects, RecordEffect, StagedEffect, ToldEffect, TaskEffect,
        FlushEffect, SubEffect, subOthers, taskVars, history, storeVars, Refuse, Reserve,
        Early, Terminal
<1>1. CASE SubmitLock(j)
  BY <1>1 DEF SubmitLock
<1>2. CASE SubmitRead(j)
  BY <1>2 DEF SubmitRead
<1>3. CASE SubmitReconcile(j)
  BY <1>3 DEF SubmitReconcile, Reconcile, Commit, Bury, CarriedJobs
<1>4. CASE SubmitTell(j)
  <2>1. /\ UNCHANGED <<record, staged, opened, buried, task, rec>>
        /\ sub[j] = "telling" /\ sight[j].job \in Jobs /\ sight[j].job \in buried
        /\ \/ told' = [told EXCEPT ![sight[j].job] = "failed"]
           \/ UNCHANGED told /\ sub'[j] # "acking"
        /\ \A i \in Jobs \ {j} : sub'[i] = sub[i] /\ sight'[i] = sight[i]
        /\ sub'[j] \in {"acking", "persisting", "over"}
        /\ sub'[j] = "acking" => sight'[j] = sight[j]
    BY <1>4 DEF SubmitTell, Send, CarriedJobs, BuriedInv
  <2>2. QED
    BY <2>1
<1>5. CASE SubmitAck(j)
  BY <1>5 DEF SubmitAck, Acknowledge, Acker, CarriedJobs
<1>6. CASE SubmitPersist(j)
  BY <1>6 DEF SubmitPersist, Admit, Commit
<1>7. CASE SubmitDispatch(j)
  BY <1>7 DEF SubmitDispatch
<1>8. CASE SubmitDiscard(j)
  BY <1>8, JobsAssumption DEF SubmitDiscard, Delete, Absent
<1>9. QED
  BY <1>1, <1>2, <1>3, <1>4, <1>5, <1>6, <1>7, <1>8 DEF Submit

LEMMA RunEffects ==
  ASSUME DeliveryTypes, NEW j \in Jobs, Run(j), NEW k \in Jobs
  PROVE  Effects(k)
<1> USE DEF DeliveryTypes, Effects, RecordEffect, StagedEffect, ToldEffect, TaskEffect,
        FlushEffect, SubEffect, taskOthers, history, storeVars, Goto, End, Early, Terminal
<1>1. CASE StartWorker(j)
  BY <1>1 DEF StartWorker
<1>2. CASE AbandonUnstarted(j)
  BY <1>2 DEF AbandonUnstarted
<1>3. CASE Settle(j)
  <2>1. Move(j, "failed", 0, Now) => (record.job = j => record.status # "ready")
    BY ReadyNotFailed
  <2>2. QED
    BY <1>3, <2>1 DEF Settle, Move, Commit
<1>4. CASE ReportStage(j)
  BY <1>4 DEF ReportStage, Move, Commit, Superseded
<1>5. CASE ReportReady(j)
  BY <1>5 DEF ReportReady, Move, Commit, Superseded
<1>6. CASE Work(j)
  BY <1>6 DEF Work
<1>7. CASE Fail(j)
  BY <1>7 DEF Fail
<1>8. CASE MarkFailed(j)
  <2>1. Move(j, "failed", 0, Now) => (record.job = j => record.status # "ready")
    BY ReadyNotFailed
  <2>2. QED
    BY <1>8, <2>1 DEF MarkFailed, Move, Commit, Superseded
<1>9. CASE GiveUp(j)
  BY <1>9 DEF GiveUp
<1>10. CASE Ack(j)
  BY <1>10 DEF Ack, Acknowledge, Acker
<1>11. CASE \E status \in Terminal : Tell(j, status)
  BY <1>11 DEF Tell, Send
<1>12. QED
  BY <1>1, <1>2, <1>3, <1>4, <1>5, <1>6, <1>7, <1>8, <1>9, <1>10, <1>11 DEF Run

LEMMA BeatEffects ==
  ASSUME DeliveryTypes, NEW j \in Jobs, Beat(j), NEW k \in Jobs
  PROVE  Effects(k)
<1> USE DEF DeliveryTypes, Effects, RecordEffect, StagedEffect, ToldEffect, TaskEffect,
        FlushEffect, SubEffect, beatOthers, history, storeVars, Early, Terminal
<1>1. CASE BeatRead(j)
  BY <1>1 DEF BeatRead
<1>2. CASE BeatRenew(j)
  <2>1. UNCHANGED <<staged, told, opened, buried, sub, sight, task, rec>>
    BY <1>2 DEF BeatRenew, Renew
  <2>2. (record'.job = record.job /\ record'.status = record.status) \/ record'.job # k
    BY <1>2, JobsAssumption DEF BeatRenew, Renew, Records, Unreadable
  <2>3. QED
    BY <2>1, <2>2
<1>3. QED
  BY <1>1, <1>2 DEF Beat

LEMMA RecoverEffects ==
  ASSUME DeliveryTypes, Recover, NEW k \in Jobs
  PROVE  Effects(k)
<1> USE DEF DeliveryTypes, Effects, RecordEffect, StagedEffect, ToldEffect, TaskEffect,
        FlushEffect, SubEffect, recOthers, taskVars, history, storeVars, Early, Terminal,
        Flushers, CarriedJobs, RecGoto, ToFlush, RecIdle, NextMember
<1>1. CASE RecoverScan
  BY <1>1 DEF RecoverScan
<1>2. CASE RecoverRead
  <2>1. UNCHANGED <<record, staged, told, opened, buried, sub, sight, task>>
    BY <1>2 DEF RecoverRead
  <2>2. rec'.todo \subseteq rec.todo /\ rec'.pc \in {"reconciling", "listing", "unindexing"}
    BY <1>2 DEF RecoverRead
  <2>3. rec.todo = {}
    BY <1>2 DEF RecoverRead
  <2>4. QED
    BY <2>1, <2>2, <2>3
<1>3. CASE RecoverUnindex
  BY <1>3 DEF RecoverUnindex, Unindex
<1>4. CASE RecoverReconcile
  BY <1>4 DEF RecoverReconcile, Reconcile, Commit, Bury
<1>5. CASE RecoverTell
  BY <1>5 DEF RecoverTell, Send, BuriedInv
<1>6. CASE RecoverAck
  BY <1>6 DEF RecoverAck, Acknowledge, Acker
<1>7. CASE FlushList
  BY <1>7 DEF FlushList
<1>8. CASE FlushGet
  <2>1. UNCHANGED <<record, staged, told, opened, buried, sub, sight, task>> /\ rec.pc = "flushing"
    BY <1>8 DEF FlushGet
  <2>2. CASE rec' = RecIdle
    BY <2>1, <2>2
  <2>3. ASSUME NEW i \in rec.todo,
               rec' = [rec EXCEPT !.job = i, !.payload = staged[i], !.todo = @ \ {i},
                                  !.pc = IF staged[i] = "none" THEN "dropping" ELSE "checking"]
        PROVE  Effects(k)
    <3>1. /\ rec'.job = i /\ rec'.payload = staged[i] /\ rec'.todo \subseteq rec.todo
          /\ rec'.pc = IF staged[i] = "none" THEN "dropping" ELSE "checking"
      BY <2>3
    <3>2. QED
      BY <2>1, <3>1
  <2>4. QED
    BY <1>8, <2>2, <2>3 DEF FlushGet
<1>9. CASE FlushCheck
  <2>1. UNCHANGED <<record, staged, told, opened, buried, sub, sight, task>> /\ rec.pc = "checking"
    BY <1>9 DEF FlushCheck
  <2>2. \/ /\ rec'.job = rec.job /\ rec'.payload = rec.payload /\ rec'.todo = rec.todo
           /\ rec'.pc = "sending" \/ (rec'.pc = "dropping" /\ record.job # rec.job)
        \/ rec'.pc = "flushing" /\ rec'.todo = rec.todo
    BY <1>9 DEF FlushCheck
  <2>3. QED
    BY <2>1, <2>2
<1>10. CASE FlushSend
  BY <1>10 DEF FlushSend, Send
<1>11. CASE FlushAck
  BY <1>11 DEF FlushAck, Acknowledge, Acker
<1>12. QED
  BY <1>1, <1>2, <1>3, <1>4, <1>5, <1>6, <1>7, <1>8, <1>9, <1>10, <1>11 DEF Recover

LEMMA EnvironmentEffects ==
  ASSUME DeliveryTypes, ShutDown \/ Restart \/ LockExpires \/ StampExpires \/ TtlExpires \/ UNCHANGED vars,
         NEW k \in Jobs
  PROVE  Effects(k)
<1> USE DEF DeliveryTypes, Effects, RecordEffect, StagedEffect, ToldEffect, TaskEffect,
        FlushEffect, SubEffect, processVars, taskVars, history, storeVars, Early, Terminal,
        Flushers, RecIdle
<1>1. CASE ShutDown
  BY <1>1 DEF ShutDown
<1>2. CASE Restart
  BY <1>2 DEF Restart, Submitting
<1>3. CASE LockExpires \/ UNCHANGED vars
  BY <1>3 DEF LockExpires, vars
<1>4. CASE StampExpires
  BY <1>4 DEF StampExpires, LeaseExpires
<1>5. CASE TtlExpires
  BY <1>5, JobsAssumption DEF TtlExpires, RecordExpires, Absent
<1>6. QED
  BY <1>1, <1>2, <1>3, <1>4, <1>5

LEMMA StepEffects ==
  ASSUME DeliveryTypes, [Next]_vars, NEW k \in Jobs
  PROVE  Effects(k)
BY SubmitEffects, RunEffects, BeatEffects, RecoverEffects, EnvironmentEffects DEF Next

(* While the service accepts submissions, an attempt that does not own the *)
(* record does not come to own it again.                                   *)
LEMMA NoReturn ==
  ASSUME IInv, QuietInv, [Next]_vars, accepting, NEW k \in opened, record.job # k
  PROVE  record'.job # k
<1>1. TypeInv /\ TypeOK /\ AttemptInv
  BY DEF IInv, TypeInv
<1>2. k \in Jobs /\ k # NoJob
  BY <1>1, JobsAssumption DEF TypeOK
<1>3. ASSUME NEW j \in Jobs, sub[j] = "persisting", Admit(j, Now)
      PROVE  record'.job # k
  BY <1>1, <1>3 DEF AttemptInv, Admit, Commit
<1>4. ASSUME NEW j \in Jobs, task[j] # "off",
             Move(j, "failed", 0, Now) \/ Move(j, "ready", 0, Now)
               \/ Move(j, "processing", stage[j] + 1, Now)
      PROVE  record'.job # k
  <2>1. record # Absent
    BY <1>1, <1>4, RecordOwned, JobsAssumption DEF NotAlone, Absent
  <2>2. record.job = j /\ record'.job = j
    BY <1>4, <2>1, JobsAssumption DEF Move, CanMove, Allows, OwnedBy, Commit
  <2>3. QED
    BY <2>2
<1>5. ASSUME NEW j \in Jobs, NEW b \in Stamps, Reconcile(j, b),
             rec.pc = "reconciling" \/ \E i \in Jobs : sub[i] = "reconciling"
      PROVE  record'.job # k
  <2>1. record # Absent
    BY <1>1, <1>5, RecordOwned, JobsAssumption DEF NotAlone, Absent
  <2>2. record.job = j /\ record'.job = j
    BY <1>5, <2>1, JobsAssumption DEF Reconcile, CanReconcile, Allows, OwnedBy, Commit
  <2>3. QED
    BY <2>2
<1>6. ASSUME NEW j \in Jobs, Renew(j, Now)
      PROVE  record'.job # k
  BY <1>1, <1>2, <1>6 DEF Renew, Unreadable, TypeOK, StoreTypeOK, Records
<1>7. ASSUME (\E j \in Jobs : Delete(j)) \/ RecordExpires
      PROVE  record'.job # k
  BY <1>2, <1>7 DEF Delete, RecordExpires, Absent
<1>8. StoreStep
  BY <1>1, StoreSteps
<1>9. QED
  BY <1>1, <1>3, <1>4, <1>5, <1>6, <1>7, <1>8, CarriedEvidence
     DEF StoreStep, Acknowledge, Unindex, LeaseExpires, storeVars

-----------------------------------------------------------------------------
(* The inductive invariant of durable delivery.                            *)

(* Whoever is about to acknowledge an attempt has seen Express accept it.  *)
AckInv ==
  /\ \A j \in Jobs : sub[j] = "acking" => told[sight[j].job] # "none"
  /\ rec.pc = "acking" => told[rec.job] # "none"
  /\ \A j \in Jobs : task[j] \in {"ackready", "ackfailed"} => told[j] # "none"

Flushed(k) == rec.pc \in Flushers /\ rec.job = k

(* What a flush carries was opened once, and it drops only what Express    *)
(* has accepted or what no longer owns the record.                         *)
FlushInv ==
  /\ rec.todo # {} => rec.pc \in Flushers \cup {"flushing"}
  /\ \A k \in Jobs : staged[k] # "none" \/ k \in rec.todo \/ Flushed(k) => k \in opened
  /\ \A k \in rec.todo : staged[k] # "none" \/ told[k] # "none" \/ record.job # k
  /\ rec.pc = "dropping" => told[rec.job] # "none" \/ record.job # rec.job

Settled(k) == record.job = k /\ record.status \in Terminal

Carried(k) == staged[k] # "none" \/ k \in rec.todo \/ Flushed(k) \/ Settled(k)

(* An attempt that is being delivered has nothing left to report but a     *)
(* failure, unless it was reconciled.                                      *)
DoneInv ==
  \A k \in Jobs : k \notin buried /\ Carried(k) =>
    /\ sub[k] = "over"
    /\ task[k] \notin Early
    /\ record.job = k => record.status \in Terminal

(* Whoever delivers the owner's status delivers the one in the record.     *)
AgreeInv ==
  \A k \in Jobs : Settled(k) =>
    /\ staged[k] \in {"none", record.status}
    /\ k \notin buried =>
         /\ task[k] \in {"tellready", "ackready"} => record.status = "ready"
         /\ rec.pc \in {"checking", "sending"} /\ rec.job = k => rec.payload = record.status
         /\ task[k] \in {"ackready", "ackfailed"} => told[k] = record.status
         /\ rec.pc = "dropping" /\ rec.job = k => told[k] = record.status

KeptInv ==
  \A k \in Jobs : Settled(k) /\ ~ (k \in buried /\ "ready" \in {record.status, told[k]})
    => record.status \in {told[k], staged[k]}

DeliveryInv == BuriedInv /\ AckInv /\ FlushInv /\ DoneInv /\ AgreeInv /\ KeptInv

LEMMA DTypes == ASSUME TypeInv, BuriedInv, FlushInv PROVE DeliveryTypes
BY DEF TypeInv, TypeOK, StoreTypeOK, FlushInv, DeliveryTypes

LEMMA ToldStays ==
  ASSUME DeliveryTypes, NEW k \in Jobs, ToldEffect(k), told[k] # "none"
  PROVE  told'[k] # "none"
BY DEF DeliveryTypes, ToldEffect, CarriedJobs, Terminal

LEMMA BuriedStep ==
  ASSUME DeliveryTypes, CarriedJobs', \A k \in Jobs : Effects(k)
  PROVE  BuriedInv'
BY DEF Effects, SubEffect, BuriedInv, DeliveryTypes, CarriedJobs

LEMMA AckStep ==
  ASSUME DeliveryTypes, CarriedJobs', AckInv, \A k \in Jobs : Effects(k)
  PROVE  AckInv'
<1>1. \A k \in Jobs : told[k] # "none" => told'[k] # "none"
  BY ToldStays DEF Effects
<1>2. ASSUME NEW j \in Jobs, sub'[j] = "acking"
      PROVE  told'[sight'[j].job] # "none"
  BY <1>1, <1>2 DEF Effects, SubEffect, AckInv, DeliveryTypes, CarriedJobs
<1>3. ASSUME rec'.pc = "acking"
      PROVE  told'[rec'.job] # "none"
  BY <1>1, <1>3 DEF Effects, SubEffect, AckInv, DeliveryTypes, CarriedJobs
<1>4. ASSUME NEW j \in Jobs, task'[j] \in {"ackready", "ackfailed"}
      PROVE  told'[j] # "none"
  BY <1>1, <1>4 DEF Effects, TaskEffect, AckInv
<1>5. QED
  BY <1>2, <1>3, <1>4 DEF AckInv

(* The hypotheses of a step: the invariants before it, and its effects. *)
Step ==
  /\ IInv /\ QuietInv /\ IInv' /\ DeliveryTypes
  /\ \A k \in Jobs : Effects(k)
  /\ accepting => \A k \in opened : record.job # k => record'.job # k

LEMMA FlushStep ==
  ASSUME Step, AckInv, FlushInv
  PROVE  FlushInv'
<1> USE DEF Step
<1>1. /\ \A k \in Jobs : told[k] # "none" => told'[k] # "none"
      /\ rec.todo \in SUBSET Jobs /\ rec'.todo \in SUBSET Jobs
      /\ staged \in [Jobs -> Terminal \cup {"none"}]
  BY ToldStays DEF Effects, DeliveryTypes, IInv, TypeInv, TypeOK
<1>2. rec'.todo # {} => rec'.pc \in Flushers \cup {"flushing"}
  BY <1>1 DEF Effects, FlushEffect
<1>3. ASSUME NEW k \in Jobs, staged'[k] # "none" \/ k \in rec'.todo \/ Flushed(k)'
      PROVE  k \in opened'
  <2>1. CASE staged[k] # "none" \/ k \in rec.todo \/ Flushed(k)
    BY <2>1 DEF FlushInv, Effects, SubEffect
  <2>2. CASE staged'[k] # "none" /\ staged[k] = "none"
    BY <2>2, JobsAssumption DEF Effects, StagedEffect, IInv, AttemptInv
  <2>3. k \in rec'.todo => k \in rec.todo \/ staged[k] # "none"
    BY DEF Effects, FlushEffect
  <2>4. Flushed(k)' => Flushed(k) \/ k \in rec.todo
    BY DEF Effects, FlushEffect, Flushed, Flushers
  <2>5. QED
    BY <1>3, <2>1, <2>2, <2>3, <2>4
<1>4. ASSUME NEW k \in rec'.todo
      PROVE  staged'[k] # "none" \/ told'[k] # "none" \/ record'.job # k
  <2> SUFFICES ASSUME told'[k] = "none", record'.job = k
               PROVE  staged'[k] # "none"
    OBVIOUS
  <2>1. k \in Jobs /\ told[k] = "none"
    BY <1>1
  <2>2. accepting /\ k \in opened
    BY <1>1, <2>1 DEF Effects, FlushEffect, FlushInv, QuietInv, Flushers
  <2>3. staged[k] # "none"
    BY <1>1, <2>1, <2>2 DEF Effects, FlushEffect, FlushInv
  <2>4. ~ Acker(k)
    BY <2>1, <2>2, <2>3, <1>1 DEF Acker, AckInv, FlushInv
  <2>5. QED
    BY <2>1, <2>3, <2>4 DEF Effects, StagedEffect, Terminal
<1>5. ASSUME rec'.pc = "dropping"
      PROVE  told'[rec'.job] # "none" \/ record'.job # rec'.job
  <2> DEFINE k == rec'.job
  <2>1. k \in Jobs
    BY <1>5 DEF IInv, TypeInv, CarriedJobs
  <2> HIDE DEF k
  <2>2. CASE rec' = rec
    <3>1. accepting /\ k \in opened /\ rec.pc = "dropping" /\ k = rec.job
      BY <1>5, <2>1, <2>2 DEF FlushInv, Flushed, Flushers, QuietInv, k
    <3>2. QED
      BY <1>1, <2>1, <3>1 DEF FlushInv, k
  <2>3. CASE rec' # rec
    BY <1>1, <1>5, <2>1, <2>3 DEF Effects, FlushEffect, Flushers, FlushInv, DeliveryTypes,
       CarriedJobs, Terminal, k
  <2>4. QED
    BY <2>2, <2>3 DEF k
<1>6. QED
  BY <1>2, <1>3, <1>4, <1>5 DEF FlushInv

LEMMA DoneStep ==
  ASSUME Step, FlushInv, DoneInv
  PROVE  DoneInv'
<1> USE DEF Step
<1>1. SUFFICES ASSUME NEW k \in Jobs, k \notin buried', Carried(k)'
               PROVE  /\ sub'[k] = "over"
                      /\ task'[k] \notin Early
                      /\ record'.job = k => record'.status \in Terminal
  BY DEF DoneInv
<1>2. Effects(k) /\ k \notin buried /\ k # NoJob
  BY <1>1, JobsAssumption DEF Effects, SubEffect
<1>3. CASE Carried(k)
  <2>1. sub[k] = "over" /\ task[k] \notin Early /\ (record.job = k => record.status \in Terminal)
    BY <1>2, <1>3 DEF DoneInv
  <2>2. sub'[k] = "over" /\ task'[k] \notin Early
    BY <1>2, <2>1 DEF Effects, SubEffect, TaskEffect
  <2>3. record'.job = k => record'.status \in Terminal
    BY <1>1, <1>2, <2>1 DEF Effects, RecordEffect, Early, Terminal
  <2>4. QED
    BY <2>2, <2>3
<1>4. CASE ~ Carried(k)
  <2>1. record'.job = k /\ record'.status \in Terminal
    BY <1>1, <1>2, <1>4 DEF Carried, Effects, StagedEffect, FlushEffect, Settled, Flushed,
       Flushers
  <2>2. \/ task[k] = "reporting" /\ task'[k] = "tellready"
        \/ task[k] \in {"settling", "failing"} /\ task'[k] = "tellfailed"
    BY <1>1, <1>2, <1>4, <2>1 DEF Effects, RecordEffect, Carried, Settled, Terminal
  <2>3. sub[k] = "over"
    BY <2>2 DEF IInv, AttemptInv
  <2>4. QED
    BY <1>2, <2>1, <2>2, <2>3 DEF Effects, SubEffect, Early
<1>5. QED
  BY <1>3, <1>4

(* A step that leaves an attempt settled either wrote its terminal status,  *)
(* or found it settled with that status.                                    *)
LEMMA SettledStep ==
  ASSUME Step, DoneInv, NEW k \in Jobs, Settled(k)', k \notin buried'
  PROVE  \/ Settled(k) /\ record'.status = record.status
         \/ /\ staged'[k] = record'.status
            /\ \/ task[k] = "reporting" /\ task'[k] = "tellready" /\ record'.status = "ready"
               \/ /\ task[k] \in {"settling", "failing"} /\ task'[k] = "tellfailed"
                  /\ record'.status = "failed"
                  /\ record.job = k => record.status # "ready"
BY DEF Step, Effects, RecordEffect, Settled, Terminal

LEMMA AgreeStep ==
  ASSUME Step, FlushInv, DoneInv, AgreeInv, KeptInv, AckInv
  PROVE  AgreeInv'
<1> USE DEF Step
<1>1. ASSUME NEW k \in Jobs, Settled(k)'
      PROVE  staged'[k] \in {"none", record'.status}
  <2>1. CASE staged'[k] # staged[k]
    BY <2>1 DEF Effects, StagedEffect
  <2>2. CASE staged'[k] = staged[k]
    BY <1>1, <2>2 DEF Effects, RecordEffect, AgreeInv, Settled, Terminal
  <2>3. QED
    BY <2>1, <2>2
<1>2. ASSUME NEW k \in Jobs, Settled(k)', k \notin buried'
      PROVE  /\ task'[k] \in {"tellready", "ackready"} => record'.status = "ready"
             /\ rec'.pc \in {"checking", "sending"} /\ rec'.job = k => rec'.payload = record'.status
             /\ task'[k] \in {"ackready", "ackfailed"} => told'[k] = record'.status
             /\ rec'.pc = "dropping" /\ rec'.job = k => told'[k] = record'.status
  <2>1. Effects(k) /\ k \notin buried
    BY <1>2 DEF Effects, SubEffect
  <2>2. CASE Settled(k) /\ record'.status = record.status
    <3>1. task[k] \in {"tellfailed", "ackfailed"} => record.status = "failed"
      BY <2>2 DEF IInv, ReadyInv, Settled, Terminal
    <3>2. /\ staged[k] \in {"none", record.status}
          /\ task[k] \in {"tellready", "ackready"} => record.status = "ready"
          /\ rec.pc \in {"checking", "sending"} /\ rec.job = k => rec.payload = record.status
          /\ task[k] \in {"ackready", "ackfailed"} => told[k] = record.status
          /\ rec.pc = "dropping" /\ rec.job = k => told[k] = record.status
      BY <2>1, <2>2 DEF AgreeInv
    <3>3. told'[k] \in {told[k], record.status}
      BY <2>1, <2>2, <3>1, <3>2 DEF Effects, ToldEffect
    <3>4. task'[k] \in {"tellready", "ackready"} => record'.status = "ready"
      BY <2>1, <2>2, <3>2 DEF Effects, TaskEffect
    <3>5. task'[k] \in {"ackready", "ackfailed"} => told'[k] = record'.status
      BY <2>1, <2>2, <3>1, <3>2, <3>3 DEF Effects, TaskEffect
    <3>6. ASSUME rec'.pc \in {"checking", "sending"}, rec'.job = k
          PROVE  rec'.payload = record'.status
      <4>1. CASE rec' = rec
        BY <2>2, <3>2, <3>6, <4>1
      <4>2. CASE rec' # rec
        <5>1. \/ k \in rec.todo /\ rec'.payload = staged[k] /\ staged[k] # "none"
              \/ rec.pc = "checking" /\ rec.job = k /\ rec'.payload = rec.payload
          BY <2>1, <3>6, <4>2 DEF Effects, FlushEffect, Flushers
        <5>2. QED
          BY <2>2, <3>2, <5>1
      <4>3. QED
        BY <4>1, <4>2
    <3>7. ASSUME rec'.pc = "dropping", rec'.job = k
          PROVE  told'[k] = record'.status
      <4>1. CASE rec' = rec
        BY <2>2, <3>2, <3>3, <3>7, <4>1
      <4>2. CASE rec' # rec
        <5>1. \/ staged[k] = "none" /\ UNCHANGED told
              \/ rec.pc = "sending" /\ rec.job = k /\ told'[k] = rec.payload
          BY <2>1, <2>2, <3>7, <4>2 DEF Effects, FlushEffect, Flushers, Settled
        <5>2. staged[k] = "none" => told[k] = record.status
          BY <2>1, <2>2 DEF KeptInv, Settled, Terminal
        <5>3. QED
          BY <2>2, <3>2, <5>1, <5>2
      <4>3. QED
        BY <4>1, <4>2
    <3>8. QED
      BY <3>4, <3>5, <3>6, <3>7
  <2>3. CASE ~ (Settled(k) /\ record'.status = record.status)
    <3>1. /\ task'[k] = "tellready" /\ record'.status = "ready"
          \/ task'[k] = "tellfailed"
      BY <1>2, <2>3, SettledStep
    <3>2. task[k] \in {"reporting", "settling", "failing"}
      BY <1>2, <2>3, SettledStep
    <3>3. ~ Flushed(k)
      <4>1. SUFFICES ASSUME Flushed(k)
                     PROVE  FALSE
        OBVIOUS
      <4>2. task[k] = "failing" /\ (record.job = k => Settled(k))
        BY <2>1, <3>2, <4>1 DEF DoneInv, Carried, Early, Settled
      <4>3. accepting /\ k \in opened
        BY <4>1 DEF FlushInv, QuietInv, Flushed, Flushers
      <4>4. record.job = k
        BY <1>2, <4>3 DEF Settled
      <4>5. QED
        BY <1>2, <2>3, <4>2, <4>4, SettledStep DEF Settled, Terminal
    <3>4. ~ Flushed(k)'
      <4>1. SUFFICES ASSUME Flushed(k)'
                     PROVE  FALSE
        OBVIOUS
      <4>2. UNCHANGED record
        BY <2>1, <3>3, <4>1 DEF Effects, FlushEffect, Flushed
      <4>3. QED
        BY <1>2, <2>3, <4>2 DEF Settled
    <3>5. QED
      BY <3>1, <3>4 DEF Flushed, Flushers
  <2>4. QED
    BY <2>2, <2>3
<1>3. QED
  BY <1>1, <1>2 DEF AgreeInv

LEMMA KeptStep ==
  ASSUME Step, BuriedInv, AckInv, FlushInv, DoneInv, AgreeInv, KeptInv
  PROVE  KeptInv'
<1> USE DEF Step
<1>1. SUFFICES ASSUME NEW k \in Jobs, Settled(k)',
                      ~ (k \in buried' /\ "ready" \in {record'.status, told'[k]})
               PROVE  record'.status \in {told'[k], staged'[k]}
  BY DEF KeptInv
<1>2. Effects(k)
  OBVIOUS
<1>3. CASE staged'[k] = record'.status
  BY <1>3
<1>4. CASE staged'[k] # record'.status
  <2>1. Settled(k) /\ record'.status = record.status
    BY <1>1, <1>2, <1>4 DEF Effects, RecordEffect, Settled, Terminal
  <2>2. staged'[k] = staged[k] \/ (staged'[k] = "none" /\ Acker(k) /\ UNCHANGED <<record, told>>)
    BY <1>2, <1>4 DEF Effects, StagedEffect
  <2>3. CASE k \notin buried
    <3>1. task[k] \in {"tellfailed", "ackfailed"} => record.status = "failed"
      BY <2>1 DEF IInv, ReadyInv, Settled, Terminal
    <3>2. told'[k] \in {told[k], record.status}
      BY <1>2, <2>1, <2>3, <3>1 DEF Effects, ToldEffect, AgreeInv
    <3>3. Acker(k) => told[k] = record.status
      BY <2>1, <2>3, <3>1 DEF Acker, AgreeInv, BuriedInv
    <3>4. QED
      BY <1>4, <2>1, <2>2, <2>3, <3>2, <3>3 DEF KeptInv
  <2>4. CASE k \in buried
    <3>1. record.status = "failed" /\ told'[k] \in {"none", "failed"}
      <4>1. k \in buried' /\ told'[k] \in Terminal \cup {"none"}
        BY <1>2, <2>4 DEF Effects, SubEffect, IInv, TypeInv, TypeOK
      <4>2. "ready" \notin {record'.status, told'[k]}
        BY <1>1, <4>1
      <4>3. QED
        BY <2>1, <4>1, <4>2 DEF Settled, Terminal
    <3>2. CASE told'[k] = "failed"
      BY <2>1, <3>1, <3>2
    <3>3. CASE told'[k] = "none"
      <4>1. told[k] = "none"
        BY <1>2, <3>3, ToldStays DEF Effects
      <4>2. staged[k] = "failed"
        BY <2>1, <2>4, <3>1, <4>1 DEF KeptInv
      <4>3. ~ Acker(k)
        BY <2>1, <4>1 DEF Acker, AckInv, FlushInv, Settled
      <4>4. QED
        BY <2>1, <2>2, <3>1, <4>2, <4>3
    <3>4. QED
      BY <3>1, <3>2, <3>3
  <2>5. QED
    BY <2>3, <2>4
<1>5. QED
  BY <1>3, <1>4

-----------------------------------------------------------------------------
LEMMA DeliveryInit == Init => DeliveryInv
BY DEF Init, StoreInit, Absent, RecIdle, DeliveryInv, BuriedInv, AckInv, FlushInv, DoneInv,
   AgreeInv,
       KeptInv, Carried, Settled, Flushed, Flushers, Terminal

LEMMA DeliveryStep ==
  ASSUME IInv, IInv', QuietInv, DeliveryInv, [Next]_vars
  PROVE  DeliveryInv'
<1>1. DeliveryTypes
  BY DTypes DEF IInv, DeliveryInv
<1>2. \A k \in Jobs : Effects(k)
  BY <1>1, StepEffects
<1>3. accepting => \A k \in opened : record.job # k => record'.job # k
  BY NoReturn
<1>4. Step
  BY <1>1, <1>2, <1>3 DEF Step
<1>5. BuriedInv' /\ AckInv'
  BY <1>1, <1>2, BuriedStep, AckStep DEF IInv, TypeInv, DeliveryInv
<1>6. FlushInv' /\ DoneInv' /\ AgreeInv' /\ KeptInv'
  BY <1>4, FlushStep, DoneStep, AgreeStep, KeptStep DEF DeliveryInv
<1>7. QED
  BY <1>5, <1>6 DEF DeliveryInv

(* The terminal status of the owner of the record has been accepted by     *)
(* Express or is staged in Redis for the flush, across every crash, lost   *)
(* answer and race of acknowledgements, for any number of attempts.        *)
THEOREM DeliveryIsDurable == Spec => []TerminalKeptUntilTold
<1>1. IInv /\ IInv' /\ QuietInv /\ DeliveryInv /\ [Next]_vars => DeliveryInv'
  BY DeliveryStep
<1>2. IInv /\ DeliveryInv => TerminalKeptUntilTold
  BY InFlightIsOwned
     DEF IInv, TypeInv, TypeOK, DeliveryInv, KeptInv, Settled, TerminalKeptUntilTold, Corrected, Delivered
<1>3. QED
  BY <1>1, <1>2, DeliveryInit, Invariance, Quietness, PTL DEF Spec
==============================================================================
