------------------------ MODULE IngestionService_proofs ------------------------
(***************************************************************************)
(* Theorems about IngestionService, for any set of attempts, any number of *)
(* stages and any bounds.                                                  *)
(***************************************************************************)
EXTENDS IngestionService, TLAPS

-----------------------------------------------------------------------------
(* The store: every call of a script leaves it well typed. *)

(* A write of the transition script for an attempt. *)
LEMMA CommitType ==
  ASSUME StoreTypeOK, NEW j \in Jobs, NEW status \in InFlight \cup Terminal,
         NEW s \in Nat, NEW b \in Stamps, Commit(j, status, s, b)
  PROVE  StoreTypeOK'
BY JobsAssumption DEF StoreTypeOK, Commit, Records, InFlight, Terminal, Absent, Unreadable

LEMMA NoStampType == NoStamp \in Stamps
BY StampsAssumption DEF NoStamp

(* A new stamp differs from every stamp that is still held. *)
LEMMA NowIsNew ==
  ASSUME sight \in [Jobs -> Sight], rec.beat \in Stamps
  PROVE  /\ Now \in Stamps
         /\ Now # rec.beat
         /\ \A j \in Jobs : Now # sight[j].beat
<1> DEFINE held == [j \in Jobs |-> sight[j].beat]
<1>1. held \in [Jobs -> Stamps]
  BY DEF Sight
<1>2. \E now \in Stamps : now \notin {held[j] : j \in Jobs} \cup {rec.beat}
  BY <1>1, StampsAssumption
<1>3. {held[j] : j \in Jobs} = {sight[j].beat : j \in Jobs}
  OBVIOUS
<1>4. Now \in Stamps /\ Now \notin {sight[j].beat : j \in Jobs} \cup {rec.beat}
  BY <1>2, <1>3 DEF Now
<1>5. QED
  BY <1>4

LEMMA AdmitType ==
  ASSUME StoreTypeOK, NEW j \in Jobs, NEW now \in Stamps, Admit(j, now)
  PROVE  StoreTypeOK'
BY CommitType DEF Admit, InFlight

LEMMA MoveType ==
  ASSUME StoreTypeOK, NEW j \in Jobs, NEW status \in InFlight \cup Terminal,
         NEW s \in Nat, NEW now \in Stamps, Move(j, status, s, now)
  PROVE  StoreTypeOK'
BY CommitType DEF Move

LEMMA ReconcileType ==
  ASSUME StoreTypeOK, NEW j \in Jobs, NEW b \in Stamps, Reconcile(j, b)
  PROVE  StoreTypeOK'
BY CommitType DEF Reconcile, Terminal

LEMMA RenewType ==
  ASSUME StoreTypeOK, NEW j \in Jobs, NEW now \in Stamps, Renew(j, now)
  PROVE  StoreTypeOK'
<1>1. indexed' \in BOOLEAN
  BY DEF Renew
<1>2. record' \in Records /\ (record'.job = NoJob <=> record' \in {Absent, Unreadable})
                        /\ (record'.job \in Jobs => record'.status \in InFlight \cup Terminal)
  <2>1. CASE record = Absent
    <3>1. record' = Unreadable
      BY <2>1 DEF Renew
    <3>2. QED
      BY <3>1, JobsAssumption, NoStampType DEF Records, Absent, Unreadable
  <2>2. CASE record # Absent
    <3>1. record.job = j
      BY <2>2, JobsAssumption DEF Renew, CanRenew, Allows, OwnedBy
    <3>2. record' = [record EXCEPT !.beat = now]
      BY <2>2 DEF Renew
    <3>3. QED
      BY <3>1, <3>2, JobsAssumption DEF StoreTypeOK, Records, Absent, Unreadable
  <2>3. QED  BY <2>1, <2>2
<1>3. fresh' = TRUE /\ staged' = staged
  BY DEF Renew
<1>4. QED
  BY <1>1, <1>2, <1>3 DEF StoreTypeOK

LEMMA DeleteType ==
  ASSUME StoreTypeOK, NEW j \in Jobs, Delete(j)
  PROVE  StoreTypeOK'
BY JobsAssumption, NoStampType DEF StoreTypeOK, Delete, Records, Absent

LEMMA AcknowledgeType ==
  ASSUME StoreTypeOK, NEW j \in Jobs, Acknowledge(j)
  PROVE  StoreTypeOK'
BY DEF StoreTypeOK, Acknowledge

(* The steps that take no attempt: the sweep, the two timers, no change. *)
LEMMA OtherStoreTypes ==
  ASSUME StoreTypeOK, Unindex \/ LeaseExpires \/ RecordExpires \/ UNCHANGED storeVars
  PROVE  StoreTypeOK'
<1>1. CASE Unindex
  BY <1>1 DEF StoreTypeOK, Unindex
<1>2. CASE LeaseExpires
  BY <1>2 DEF StoreTypeOK, LeaseExpires
<1>3. CASE RecordExpires
  BY <1>3, JobsAssumption, NoStampType DEF StoreTypeOK, RecordExpires, Records, Absent
<1>4. CASE UNCHANGED storeVars
  BY <1>4 DEF StoreTypeOK, storeVars
<1>5. QED  BY <1>1, <1>2, <1>3, <1>4

-----------------------------------------------------------------------------
(* Type correctness. *)

(* What a process carries across an await: the attempt it has read, and    *)
(* the payload it is about to send.                                        *)
CarriedJobs ==
  /\ \A j \in Jobs : sub[j] \in {"reconciling", "telling", "acking"} => sight[j].job \in Jobs
  /\ rec.pc \in {"reconciling", "telling", "acking", "checking", "sending", "dropping"}
       => rec.job \in Jobs
  /\ rec.pc \in {"checking", "sending"} => rec.payload \in Terminal

TypeInv == TypeOK /\ CarriedJobs

(* A member of the store's types, for the steps below. *)
LEMMA InFlightIsOwned ==
  ASSUME StoreTypeOK, record.status \in InFlight \cup Terminal
  PROVE  record.job \in Jobs /\ record.beat \in Stamps
BY DEF StoreTypeOK, Records, InFlight, Terminal, Absent, Unreadable

LEMMA NowType ==
  ASSUME TypeInv
  PROVE  Now \in Stamps
BY NowIsNew DEF TypeInv, TypeOK

LEMMA SubmitType ==
  ASSUME TypeInv, NEW j \in Jobs, Submit(j)
  PROVE  TypeInv'
<1>0. StoreTypeOK
  BY DEF TypeInv, TypeOK
<1> USE JobsAssumption, NoStampType DEF TypeInv, subOthers, taskVars, history, Free, Refuse,
        Reserve, SubPc
<1>1. CASE SubmitLock(j)
  <2>1. StoreTypeOK'
    BY <1>0, <1>1, OtherStoreTypes DEF SubmitLock
  <2>2. QED
    BY <1>1, <2>1 DEF TypeOK, CarriedJobs, SubmitLock
<1>2. CASE SubmitRead(j)
  <2>1. StoreTypeOK'
    BY <1>0, <1>2, OtherStoreTypes DEF SubmitRead
  <2>2. Stale => Seen \in Sight /\ Seen.job \in Jobs
    BY <1>0, InFlightIsOwned DEF Stale, Seen, Sight
  <2>3. QED
    BY <1>2, <2>1, <2>2 DEF TypeOK, CarriedJobs, SubmitRead
<1>3. CASE SubmitReconcile(j)
  <2>1. StoreTypeOK'
    <3>1. sight[j].job \in Jobs /\ sight[j].beat \in Stamps
      BY <1>3 DEF TypeOK, CarriedJobs, SubmitReconcile, Sight
    <3>2. QED
      BY <1>0, <1>3, <3>1, ReconcileType, OtherStoreTypes DEF SubmitReconcile
  <2>2. QED
    BY <1>3, <2>1 DEF TypeOK, CarriedJobs, SubmitReconcile, Bury, Nothing, Sight
<1>4. CASE SubmitTell(j)
  <2>1. StoreTypeOK'
    BY <1>0, <1>4, OtherStoreTypes DEF SubmitTell
  <2>2. QED
    <3>1. told' \in [Jobs -> Terminal \cup {"none"}]
      BY <1>4 DEF TypeOK, SubmitTell, Send, Terminal
    <3>2. sight' \in [Jobs -> Sight] /\ (sight' = sight \/ sight' = [sight EXCEPT ![j] = Nothing])
      BY <1>4 DEF TypeOK, SubmitTell, Nothing, Sight
    <3>3. /\ sub' \in [Jobs -> SubPc]
          /\ lock' \in Jobs \cup {NoJob}
          /\ \A k \in Jobs \ {j} : sub'[k] = sub[k] /\ sight'[k] = sight[k]
          /\ sub'[j] = "acking" => sight'[j] = sight[j]
          /\ sub'[j] \in {"acking", "persisting", "over"}
      BY <1>4 DEF TypeOK, SubmitTell
    <3>4. UNCHANGED <<accepting, starts, task, stage, beating, rec, vectors, opened, buried>>
      BY <1>4 DEF SubmitTell
    <3>5. QED
      BY <1>4, <2>1, <3>1, <3>2, <3>3, <3>4 DEF TypeOK, CarriedJobs, SubmitTell
<1>5. CASE SubmitAck(j)
  <2>1. StoreTypeOK'
    <3>1. sight[j].job \in Jobs
      BY <1>5 DEF TypeOK, CarriedJobs, SubmitAck
    <3>2. QED
      BY <1>0, <1>5, <3>1, AcknowledgeType, OtherStoreTypes DEF SubmitAck
  <2>2. QED
    BY <1>5, <2>1 DEF TypeOK, CarriedJobs, SubmitAck, Nothing, Sight
<1>6. CASE SubmitPersist(j)
  <2>1. StoreTypeOK'
    BY <1>0, <1>6, NowType, AdmitType, OtherStoreTypes DEF SubmitPersist
  <2>2. QED
    BY <1>6, <2>1 DEF TypeOK, CarriedJobs, SubmitPersist
<1>7. CASE SubmitDispatch(j)
  <2>1. StoreTypeOK'
    BY <1>0, <1>7, OtherStoreTypes DEF SubmitDispatch
  <2>2. QED
    BY <1>7, <2>1 DEF TypeOK, CarriedJobs, SubmitDispatch, TaskPc, BeatPc
<1>8. CASE SubmitDiscard(j)
  <2>1. StoreTypeOK'
    BY <1>0, <1>8, DeleteType, OtherStoreTypes DEF SubmitDiscard
  <2>2. QED
    BY <1>8, <2>1 DEF TypeOK, CarriedJobs, SubmitDiscard
<1>9. QED
  BY <1>1, <1>2, <1>3, <1>4, <1>5, <1>6, <1>7, <1>8 DEF Submit
(* An attempt's background task. *)
LEMMA RunType ==
  ASSUME TypeInv, NEW j \in Jobs, Run(j)
  PROVE  TypeInv'
<1>0. StoreTypeOK
  BY DEF TypeInv, TypeOK
<1> USE JobsAssumption, NoStampType, ServiceAssumption
        DEF TypeInv, taskOthers, history, Goto, End, Superseded, TaskPc, BeatPc
<1>1. CASE StartWorker(j)
  <2>1. StoreTypeOK'
    BY <1>0, <1>1, OtherStoreTypes DEF StartWorker
  <2>2. QED
    BY <1>1, <2>1 DEF TypeOK, CarriedJobs, StartWorker
<1>2. CASE AbandonUnstarted(j)
  <2>1. StoreTypeOK'
    BY <1>0, <1>2, OtherStoreTypes DEF AbandonUnstarted
  <2>2. QED
    BY <1>2, <2>1 DEF TypeOK, CarriedJobs, AbandonUnstarted
<1>3. CASE Settle(j)
  <2>1. StoreTypeOK'
    BY <1>0, <1>3, NowType, MoveType, OtherStoreTypes DEF Settle, Superseded, InFlight, Terminal
  <2>2. QED
    BY <1>3, <2>1 DEF TypeOK, CarriedJobs, Settle
<1>4. CASE ReportStage(j)
  <2>1. StoreTypeOK'
    BY <1>0, <1>4, NowType, MoveType, OtherStoreTypes DEF ReportStage, Superseded, InFlight,
       Terminal, TypeOK
  <2>2. QED
    BY <1>4, <2>1 DEF TypeOK, CarriedJobs, ReportStage, MoreStages
<1>5. CASE ReportReady(j)
  <2>1. StoreTypeOK'
    BY <1>0, <1>5, NowType, MoveType, OtherStoreTypes DEF ReportReady, Superseded, InFlight,
       Terminal
  <2>2. QED
    BY <1>5, <2>1 DEF TypeOK, CarriedJobs, ReportReady
<1>6. CASE Work(j)
  <2>1. StoreTypeOK'
    BY <1>0, <1>6, OtherStoreTypes DEF Work
  <2>2. QED
    BY <1>6, <2>1 DEF TypeOK, CarriedJobs, Work
<1>7. CASE Fail(j)
  <2>1. StoreTypeOK'
    BY <1>0, <1>7, OtherStoreTypes DEF Fail
  <2>2. QED
    BY <1>7, <2>1 DEF TypeOK, CarriedJobs, Fail
<1>8. CASE MarkFailed(j)
  <2>1. StoreTypeOK'
    BY <1>0, <1>8, NowType, MoveType, OtherStoreTypes DEF MarkFailed, Superseded, InFlight,
       Terminal
  <2>2. QED
    BY <1>8, <2>1 DEF TypeOK, CarriedJobs, MarkFailed
<1>9. CASE GiveUp(j)
  <2>1. StoreTypeOK'
    BY <1>0, <1>9, OtherStoreTypes DEF GiveUp
  <2>2. QED
    BY <1>9, <2>1 DEF TypeOK, CarriedJobs, GiveUp
<1>10. CASE Ack(j)
  <2>1. StoreTypeOK'
    BY <1>0, <1>10, AcknowledgeType, OtherStoreTypes DEF Ack
  <2>2. QED
    BY <1>10, <2>1 DEF TypeOK, CarriedJobs, Ack
<1>11. CASE \E status \in Terminal : Tell(j, status)
  <2> PICK status \in Terminal : Tell(j, status)
    BY <1>11
  <2>1. StoreTypeOK'
    BY <1>0, OtherStoreTypes DEF Tell
  <2>2. QED
    BY <2>1 DEF TypeOK, CarriedJobs, Tell, Send, Terminal
<1>12. QED
  BY <1>1, <1>2, <1>3, <1>4, <1>5, <1>6, <1>7, <1>8, <1>9, <1>10, <1>11 DEF Run

(* An attempt's heartbeat loop. *)
LEMMA BeatType ==
  ASSUME TypeInv, NEW j \in Jobs, Beat(j)
  PROVE  TypeInv'
<1>0. StoreTypeOK
  BY DEF TypeInv, TypeOK
<1> USE DEF TypeInv, beatOthers, history, BeatPc
<1>1. CASE BeatRead(j)
  <2>1. StoreTypeOK'
    BY <1>0, <1>1, OtherStoreTypes DEF BeatRead
  <2>2. QED
    BY <1>1, <2>1 DEF TypeOK, CarriedJobs, BeatRead
<1>2. CASE BeatRenew(j)
  <2>1. StoreTypeOK'
    BY <1>0, <1>2, NowType, RenewType, OtherStoreTypes DEF BeatRenew
  <2>2. QED
    BY <1>2, <2>1 DEF TypeOK, CarriedJobs, BeatRenew
<1>3. QED  BY <1>1, <1>2 DEF Beat

(* The recovery loop. *)
LEMMA RecoverType ==
  ASSUME TypeInv, Recover
  PROVE  TypeInv'
<1>0. StoreTypeOK
  BY DEF TypeInv, TypeOK
<1> USE JobsAssumption, NoStampType
        DEF TypeInv, recOthers, taskVars, history, RecGoto, ToFlush, RecIdle, RecPc, NextMember
<1>1. CASE RecoverScan
  <2>1. StoreTypeOK'
    BY <1>0, <1>1, OtherStoreTypes DEF RecoverScan
  <2>2. QED
    BY <1>1, <2>1 DEF TypeOK, CarriedJobs, RecoverScan
<1>2. CASE RecoverRead
  <2>1. StoreTypeOK'
    BY <1>0, <1>2, OtherStoreTypes DEF RecoverRead
  <2>2. Stale => record.job \in Jobs /\ record.beat \in Stamps
    BY <1>0, InFlightIsOwned DEF Stale
  <2>3. QED
    <3>1. CASE Stale /\ rec' = [rec EXCEPT !.pc = "reconciling",
                                           !.job = record.job, !.beat = record.beat]
      <4>1. rec'.pc = "reconciling" /\ rec'.job \in Jobs /\ rec' \in
              [pc : RecPc, job : Jobs \cup {NoJob}, beat : Stamps,
               payload : Terminal \cup {"none"}, todo : SUBSET Jobs]
        BY <2>2, <3>1 DEF TypeOK
      <4>2. QED
        BY <1>2, <2>1, <4>1 DEF TypeOK, CarriedJobs, RecoverRead
    <3>2. CASE ToFlush \/ RecGoto("unindexing")
      BY <1>2, <2>1, <3>2 DEF TypeOK, CarriedJobs, RecoverRead
    <3>3. QED  BY <1>2, <3>1, <3>2 DEF RecoverRead
<1>3. CASE RecoverUnindex
  <2>1. StoreTypeOK'
    BY <1>0, <1>3, OtherStoreTypes DEF RecoverUnindex
  <2>2. QED
    BY <1>3, <2>1 DEF TypeOK, CarriedJobs, RecoverUnindex
<1>4. CASE RecoverReconcile
  <2>1. StoreTypeOK'
    <3>1. rec.job \in Jobs /\ rec.beat \in Stamps
      BY <1>4 DEF TypeOK, CarriedJobs, RecoverReconcile, Bury
    <3>2. QED
      BY <1>0, <1>4, <3>1, ReconcileType, OtherStoreTypes DEF RecoverReconcile
  <2>2. QED
    BY <1>4, <2>1 DEF TypeOK, CarriedJobs, RecoverReconcile, Bury
<1>5. CASE RecoverTell
  <2>1. StoreTypeOK'
    BY <1>0, <1>5, OtherStoreTypes DEF RecoverTell
  <2>2. QED
    BY <1>5, <2>1 DEF TypeOK, CarriedJobs, RecoverTell, Send, Terminal
<1>6. CASE RecoverAck
  <2>1. StoreTypeOK'
    <3>1. rec.job \in Jobs /\ rec.beat \in Stamps
      BY <1>6 DEF TypeOK, CarriedJobs, RecoverAck
    <3>2. QED
      BY <1>0, <1>6, <3>1, AcknowledgeType, OtherStoreTypes DEF RecoverAck
  <2>2. QED
    BY <1>6, <2>1 DEF TypeOK, CarriedJobs, RecoverAck
<1>7. CASE FlushList
  <2>1. StoreTypeOK'
    BY <1>0, <1>7, OtherStoreTypes DEF FlushList
  <2>2. QED
    BY <1>7, <2>1 DEF TypeOK, CarriedJobs, FlushList
<1>8. CASE FlushGet
  <2>1. StoreTypeOK'
    BY <1>0, <1>8, OtherStoreTypes DEF FlushGet
  <2>2. QED
    <3>1. CASE rec.todo = {} /\ rec' = RecIdle
      BY <1>8, <2>1, <3>1 DEF TypeOK, CarriedJobs, FlushGet
    <3>2. ASSUME NEW j \in rec.todo,
                 rec' = [rec EXCEPT !.job = j, !.payload = staged[j], !.todo = @ \ {j},
                           !.pc = IF staged[j] = "none" THEN "dropping" ELSE "checking"]
          PROVE  TypeInv'
      <4>1. j \in Jobs /\ staged[j] \in Terminal \cup {"none"}
        BY <1>0 DEF TypeOK, StoreTypeOK
      <4>2. QED
        BY <1>8, <2>1, <3>2, <4>1 DEF TypeOK, CarriedJobs, FlushGet
    <3>3. QED
      BY <1>8, <3>1, <3>2 DEF FlushGet
<1>9. CASE FlushCheck
  <2>1. StoreTypeOK'
    BY <1>0, <1>9, OtherStoreTypes DEF FlushCheck
  <2>2. QED
    BY <1>9, <2>1 DEF TypeOK, CarriedJobs, FlushCheck
<1>10. CASE FlushSend
  <2>1. StoreTypeOK'
    BY <1>0, <1>10, OtherStoreTypes DEF FlushSend
  <2>2. QED
    BY <1>10, <2>1 DEF TypeOK, CarriedJobs, FlushSend, Send, Terminal
<1>11. CASE FlushAck
  <2>1. StoreTypeOK'
    <3>1. rec.job \in Jobs /\ rec.beat \in Stamps
      BY <1>11 DEF TypeOK, CarriedJobs, FlushAck
    <3>2. QED
      BY <1>0, <1>11, <3>1, AcknowledgeType, OtherStoreTypes DEF FlushAck
  <2>2. QED
    BY <1>11, <2>1 DEF TypeOK, CarriedJobs, FlushAck
<1>12. QED
  BY <1>1, <1>2, <1>3, <1>4, <1>5, <1>6, <1>7, <1>8, <1>9, <1>10, <1>11 DEF Recover

(* Shutdown, restart and time. *)
LEMMA EnvironmentType ==
  ASSUME TypeInv,
         ShutDown \/ Restart \/ LockExpires \/ StampExpires \/ TtlExpires \/ UNCHANGED vars
  PROVE  TypeInv'
<1>0. StoreTypeOK
  BY DEF TypeInv, TypeOK
<1> USE JobsAssumption, NoStampType, ServiceAssumption
        DEF TypeInv, taskVars, processVars, history, RecIdle
<1>1. CASE ShutDown
  <2>1. StoreTypeOK'
    BY <1>0, <1>1, OtherStoreTypes DEF ShutDown
  <2>2. QED
    BY <1>1, <2>1 DEF TypeOK, CarriedJobs, ShutDown, RecPc
<1>2. CASE Restart
  <2>1. StoreTypeOK'
    BY <1>0, <1>2, OtherStoreTypes DEF Restart
  <2>2. QED
    <3>1. starts' \in 1..MaxStarts /\ accepting' \in BOOLEAN
      BY <1>2 DEF TypeOK, Restart
    <3>2. sub' \in [Jobs -> SubPc] /\ \A j \in Jobs : sub'[j] \in {"new", "over"}
      BY <1>2 DEF TypeOK, Restart, Submitting, SubPc
    <3>3. sight' \in [Jobs -> Sight]
      BY <1>2 DEF Restart, Sight, Nothing
    <3>4. task' \in [Jobs -> TaskPc] /\ stage' \in [Jobs -> 0..NumStages]
                                   /\ beating' \in [Jobs -> BeatPc]
      BY <1>2 DEF Restart, TaskPc, BeatPc
    <3>5. QED
      BY <1>2, <2>1, <3>1, <3>2, <3>3, <3>4 DEF TypeOK, CarriedJobs, Restart, RecPc
<1>3. CASE LockExpires
  <2>1. StoreTypeOK'
    BY <1>0, <1>3, OtherStoreTypes DEF LockExpires
  <2>2. QED
    BY <1>3, <2>1 DEF TypeOK, CarriedJobs, LockExpires
<1>4. CASE StampExpires
  <2>1. StoreTypeOK'
    BY <1>0, <1>4, OtherStoreTypes DEF StampExpires
  <2>2. QED
    BY <1>4, <2>1 DEF TypeOK, CarriedJobs, StampExpires
<1>5. CASE TtlExpires
  <2>1. StoreTypeOK'
    BY <1>0, <1>5, OtherStoreTypes DEF TtlExpires
  <2>2. QED
    BY <1>5, <2>1 DEF TypeOK, CarriedJobs, TtlExpires
<1>6. CASE UNCHANGED vars
  <2>1. StoreTypeOK'
    BY <1>0, <1>6, OtherStoreTypes DEF vars
  <2>2. QED
    BY <1>6, <2>1 DEF TypeOK, CarriedJobs, vars
<1>7. QED
  BY <1>1, <1>2, <1>3, <1>4, <1>5, <1>6

LEMMA TypeInit ==
  ASSUME Init
  PROVE  TypeInv
<1>1. StoreTypeOK
  BY JobsAssumption, NoStampType DEF Init, StoreInit, StoreTypeOK, Records, Absent, Unreadable
<1>2. /\ sub \in [Jobs -> SubPc] /\ sight \in [Jobs -> Sight]
      /\ task \in [Jobs -> TaskPc] /\ stage \in [Jobs -> 0..NumStages]
      /\ beating \in [Jobs -> BeatPc] /\ starts \in 1..MaxStarts
  BY ServiceAssumption, NoStampType DEF Init, SubPc, TaskPc, BeatPc, Sight, Nothing
<1>3. QED
  BY <1>1, <1>2, JobsAssumption, NoStampType DEF Init, TypeInv, TypeOK, CarriedJobs, RecPc,
     RecIdle

LEMMA TypeStep ==
  ASSUME TypeInv, [Next]_vars
  PROVE  TypeInv'
BY SubmitType, RunType, BeatType, RecoverType, EnvironmentType DEF Next

LEMMA TypeInvariance == Spec => []TypeInv
<1>1. Init => TypeInv
  BY TypeInit
<1>2. TypeInv /\ [Next]_vars => TypeInv'
  BY TypeStep
<1>3. QED
  BY <1>1, <1>2, PTL DEF Spec

(* Type correctness: what a step writes, and what a process carries from   *)
(* one await to the next, is always of its type; no script is ever called  *)
(* with the empty attempt where it means an attempt.                       *)
THEOREM TypeCorrect == Spec => []TypeOK
BY TypeInvariance, PTL DEF TypeInv

==============================================================================
