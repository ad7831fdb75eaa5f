--------------------------- MODULE IngestionGateway ---------------------------
(***************************************************************************)
(* The Express gateway's view of the ingestion of ONE repository: its      *)
(* MongoDB document, the ingestion requests of users, the webhook through  *)
(* which the AI service reports, and the watchdog, composed with the AI    *)
(* service.  Of the AI service only its promise is used: the record obeys  *)
(* AttemptLedger (which IngestionService implements), and the terminal     *)
(* callback of an attempt is repeated until Express confirms it or a newer *)
(* attempt owns the record.                                                *)
(*                                                                         *)
(* Attempts are named by the order of their admission.  A handler runs     *)
(* from one await to the next in one action.                               *)
(***************************************************************************)
EXTENDS Naturals, FiniteSets

CONSTANTS
  MaxJobs,      \* bound: attempts the AI service admits
  MaxCallbacks, \* bound: callbacks on their way or in the webhook at a time
  Requests,     \* POST /repositories/:id/ingest, each made once
  Commits,      \* values of branch.latestCommitSha
  NoCommit      \* lastIngestedCommitSha: null

ASSUME GatewayAssumption ==
  /\ MaxJobs \in Nat \ {0}
  /\ MaxCallbacks \in Nat \ {0}
  /\ NoCommit \notin Commits

Jobs  == 1..MaxJobs
NoJob == 0                             \* activeJobId: null

VARIABLES
  owner, phase, used,   \* the AI service's record (AttemptLedger)
  staged,       \* per attempt: the terminal status Redis still holds a callback for
  doc,          \* the Repository document
  request,      \* per request: where it is, and what it has read
  callback,     \* per attempt and status: a callback on its way, or in the webhook
  told,         \* history: attempts whose terminal callback the AI service knows confirmed
  dropped       \* history: attempts that were answered "stale_attempt_superseded"

Ledger  == INSTANCE AttemptLedger
ledger  == <<owner, phase, used>>
history == <<told, dropped>>
vars    == <<ledger, staged, doc, request, callback, history>>

Progress == {"queued", "processing"}
Terminal == {"ready", "failed"}
Kinds    == Progress \cup Terminal
Final    == {"completed", "failed"}                  \* the document's terminal statuses

Statuses == {"pending", "queued", "processing"} \cup Final
Snapshot == [job : Jobs \cup {NoJob}, status : Statuses, commit : Commits \cup {NoCommit}]
NotRead  == [job |-> NoJob, status |-> "pending", commit |-> NoCommit]

RequestPc  == {"new", "submitting", "binding", "answering", "superseded", "over"}
CallbackPc == {"none", "sent"} \cup Statuses         \* a status: the update it is about to make

TypeOK ==
  /\ owner \in Jobs \cup {NoJob}
  /\ phase \in {"none", "open", "failed", "ready"}
  /\ used \in SUBSET Jobs
  /\ staged \in [Jobs -> Terminal \cup {"none"}]
  /\ doc \in [job : Jobs \cup {NoJob}, status : Statuses, commit : Commits \cup {NoCommit},
              fresh : BOOLEAN]
  /\ request \in [Requests -> [pc : RequestPc, seen : Snapshot, job : Jobs \cup {NoJob},
                               commit : Commits \cup {NoCommit}]]
  /\ callback \in [Jobs -> [Kinds -> CallbackPc]]
  /\ told \in SUBSET Jobs
  /\ dropped \in SUBSET Jobs

Init ==
  /\ Ledger!Init
  /\ staged = [j \in Jobs |-> "none"]
  /\ doc = [job |-> NoJob, status |-> "pending", commit |-> NoCommit, fresh |-> TRUE]
  /\ request = [r \in Requests |-> [pc |-> "new", seen |-> NotRead, job |-> NoJob,
                                    commit |-> NoCommit]]
  /\ callback = [j \in Jobs |-> [k \in Kinds |-> "none"]]
  /\ told = {}
  /\ dropped = {}

-----------------------------------------------------------------------------
(* The AI service. *)

NextJob == Cardinality(used) + 1

Settle ==
  /\ Ledger!Close \/ Ledger!Correct
  /\ staged' = [staged EXCEPT ![owner] = phase']
  /\ UNCHANGED <<doc, request, callback, history>>

Forget ==
  /\ Ledger!Forget
  /\ UNCHANGED <<staged, doc, request, callback, history>>

MayCall == Cardinality({c \in Jobs \X Kinds : callback[c[1]][c[2]] # "none"}) < MaxCallbacks

(* Stage reports and heartbeats of the attempt that owns the record. *)
SendProgress(k) ==
  /\ phase = "open"
  /\ callback[owner][k] = "none" /\ MayCall
  /\ callback' = [callback EXCEPT ![owner][k] = "sent"]
  /\ UNCHANGED <<ledger, staged, doc, request, history>>

(* The worker's, the reconciler's or the flush's terminal callback. *)
SendTerminal(j) ==
  /\ staged[j] # "none"
  /\ callback[j][staged[j]] = "none" /\ MayCall
  /\ callback' = [callback EXCEPT ![j][staged[j]] = "sent"]
  /\ UNCHANGED <<ledger, staged, doc, request, history>>

(* The flush drops the callback of an attempt that lost the record. *)
DropStaged(j) ==
  /\ staged[j] # "none"
  /\ owner \notin {j, NoJob}
  /\ staged' = [staged EXCEPT ![j] = "none"]
  /\ UNCHANGED <<ledger, doc, request, callback, history>>

-----------------------------------------------------------------------------
(* handleFastApiIngestionStatus: findById, then findOneAndUpdate. *)

callbackOthers == <<ledger, doc, request>>

(* The answer settles the callback: send_status_update returns True and    *)
(* the staged callback is acknowledged, whatever payload it has by now;    *)
(* or the answer is lost.                                                  *)
Confirm(j, k) ==
  \/ /\ k \in Terminal
     /\ staged' = [staged EXCEPT ![j] = "none"]
     /\ told' = told \cup {j}
  \/ UNCHANGED <<staged, told>>

ReplyTo(j, k) == callback' = [callback EXCEPT ![j][k] = "none"]

(* 409: the document is terminal under another attempt, this one may be    *)
(* about to be bound.                                                      *)
Unsettled(j) == doc.job \notin {NoJob, j} /\ doc.status \in Final

(* 200 ignored, stale_attempt_superseded. *)
OwnedByOther(j) == doc.job \notin {NoJob, j} /\ ~ Unsettled(j)

Target_Unmapped(k) == IF k = "queued" /\ doc.status = "processing" THEN "processing" ELSE k

Target(k) ==
  IF k = "ready" THEN "completed"
  ELSE IF k = "queued" /\ doc.status = "processing" THEN "processing" ELSE k

(* An attempt may be lost on the way, or refused with 5xx, without effect. *)
LoseCallback(j, k) ==
  /\ callback[j][k] = "sent"
  /\ ReplyTo(j, k)
  /\ UNCHANGED <<staged, told, dropped, callbackOthers>>

ReceiveCallback(j, k) ==
  /\ callback[j][k] = "sent"
  /\ \/ Unsettled(j) /\ ReplyTo(j, k) /\ UNCHANGED <<staged, told, dropped>>
     \/ OwnedByOther(j) /\ ReplyTo(j, k) /\ Confirm(j, k) /\ dropped' = dropped \cup {j}
     \/ /\ doc.job \in {NoJob, j}
        /\ doc.status \in Final /\ k \in Progress       \* terminal_state_preserved
        /\ ReplyTo(j, k)
        /\ UNCHANGED <<staged, told, dropped>>
     \/ /\ doc.job \in {NoJob, j}
        /\ doc.status \in Final => k \in Terminal
        /\ callback' = [callback EXCEPT ![j][k] = Target(k)]
        /\ UNCHANGED <<staged, told, dropped>>
  /\ UNCHANGED callbackOthers

Matches_WithoutOwner(j, k) == k \in Progress => doc.status \notin Final
Matches_WithoutStatus(j, k) == doc.job \in {NoJob, j}

(* The filter of the atomic update. *)
Matches(j, k) ==
  /\ doc.job \in {NoJob, j}
  /\ k \in Progress => doc.status \notin Final

UpdateDocument(j, k) ==
  /\ callback[j][k] \in Statuses
  /\ \/ /\ Matches(j, k)
        /\ doc' = [doc EXCEPT !.job = j, !.status = callback[j][k], !.fresh = TRUE]
        /\ Confirm(j, k)
     \/ ~ Matches(j, k) /\ UNCHANGED <<doc, staged, told>>     \* atomic_condition_mismatch
  /\ ReplyTo(j, k)
  /\ UNCHANGED <<ledger, request, dropped>>

-----------------------------------------------------------------------------
(* makeIngestRepository. *)

requestOthers == <<staged, callback, told, dropped>>

Finish(r, pc) == request' = [request EXCEPT ![r] = [@ EXCEPT !.pc = pc, !.seen = NotRead]]

(* findOne of the document and of the branch, whose commit may be any, and *)
(* the two idempotency checks.  `force` skips them.                        *)
StartRequest(r) ==
  /\ request[r].pc = "new"
  /\ \E commit \in Commits, force \in BOOLEAN :
       IF ~ force /\ \/ doc.status = "processing" /\ doc.fresh
                     \/ doc.status = "completed" /\ doc.commit = commit
         THEN Finish(r, "over")
         ELSE request' = [request EXCEPT ![r] =
                [pc |-> "submitting", job |-> NoJob, commit |-> commit,
                 seen |-> [job |-> doc.job, status |-> doc.status, commit |-> doc.commit]]]
  /\ UNCHANGED <<ledger, doc, requestOthers>>

(* The manifest is submitted and admitted; the answer may be lost, and the *)
(* client's retry then meets the attempt it started: 422.                  *)
Submit(r) ==
  /\ request[r].pc = "submitting"
  /\ NextJob \in Jobs
  /\ Ledger!Open(NextJob)
  /\ \/ request' = [request EXCEPT ![r].pc = "binding", ![r].job = NextJob]
     \/ Finish(r, "over")
  /\ UNCHANGED <<doc, requestOthers>>

(* The AI service refuses (502), or the request dies with its process or   *)
(* with an exception of the GitHub fetch or of MongoDB, at any await.      *)
AbandonRequest(r) ==
  /\ request[r].pc \in {"submitting", "binding", "answering"}
  /\ Finish(r, "over")
  /\ UNCHANGED <<ledger, doc, requestOthers>>

(* No eligible file: save() writes the paths that differ from what was     *)
(* read, whatever the document says now.                                   *)
NothingToIngest(r) ==
  /\ request[r].pc = "submitting"
  /\ LET seen == request[r].seen IN
       doc' = [doc EXCEPT !.status = IF seen.status = "completed" THEN @ ELSE "completed",
                          !.commit = IF seen.commit = request[r].commit THEN @ ELSE request[r].commit]
  /\ Finish(r, "over")
  /\ UNCHANGED <<ledger, requestOthers>>

BindMatches_WithoutPrior(r) == TRUE

(* The filter of the atomic bind. *)
BindMatches(r) ==
  \/ doc.job = request[r].seen.job
  \/ doc.job = request[r].job /\ doc.status \notin Final

Bind(r) ==
  /\ request[r].pc = "binding"
  /\ \/ /\ BindMatches(r)
        /\ doc' = [job |-> request[r].job, status |-> "processing", fresh |-> TRUE,
                   commit |-> request[r].commit]
        /\ Finish(r, "over")
     \/ /\ ~ BindMatches(r)
        /\ request' = [request EXCEPT ![r].pc = "answering"]
        /\ UNCHANGED doc
  /\ UNCHANGED <<ledger, requestOthers>>

(* 409 "superseded by newer attempt"; the other two answers change nothing. *)
SaysSuperseded(r) == doc.job \notin {NoJob, request[r].seen.job, request[r].job}

Answer(r) ==
  /\ request[r].pc = "answering"
  /\ Finish(r, IF SaysSuperseded(r) THEN "superseded" ELSE "over")
  /\ UNCHANGED <<ledger, doc, requestOthers>>

-----------------------------------------------------------------------------
(* The watchdog, and time. *)

docOthers == <<ledger, staged, request, callback, history>>

Watchdog_OnQueued ==
  /\ doc.status = "queued" /\ ~ doc.fresh
  /\ doc' = [doc EXCEPT !.status = "failed"]
  /\ UNCHANGED docOthers

(* cleanupStuckIngestions: activeJobId stays. *)
Watchdog ==
  /\ doc.status = "processing" /\ ~ doc.fresh
  /\ doc' = [doc EXCEPT !.status = "failed"]
  /\ UNCHANGED docOthers

(* Five minutes pass since lastHeartbeatAt. *)
HeartbeatExpires ==
  /\ doc.status = "processing" /\ doc.fresh
  /\ doc' = [doc EXCEPT !.fresh = FALSE]
  /\ UNCHANGED docOthers

AiService == Settle \/ Forget \/ (\E k \in Progress : SendProgress(k))
               \/ \E j \in Jobs : SendTerminal(j) \/ DropStaged(j)
Webhook   == \E j \in Jobs, k \in Kinds :
               LoseCallback(j, k) \/ ReceiveCallback(j, k) \/ UpdateDocument(j, k)
Ingest(r) == StartRequest(r) \/ Submit(r) \/ AbandonRequest(r) \/ NothingToIngest(r)
               \/ Bind(r) \/ Answer(r)

Next == AiService \/ Webhook \/ (\E r \in Requests : Ingest(r)) \/ Watchdog \/ HeartbeatExpires

Spec == Init /\ [][Next]_vars

-----------------------------------------------------------------------------
(* Properties. *)

(* Attempt fencing: the document passes to another attempt only by the     *)
(* binding of the request that submitted it, and to a newer one only.      *)
(* Neither a callback that was judged before a binding and applied after   *)
(* it, nor a request that was overtaken, gives it to an older attempt.     *)
OwnershipOnlyGrows ==
  [][/\ doc'.job >= doc.job
     /\ doc'.job # doc.job /\ doc.job # NoJob
          => \E r \in Requests : request[r].pc = "binding" /\ request[r].job = doc'.job]_vars

(* A delayed progress callback never resurrects an attempt that is         *)
(* completed or failed, even if it became so after the webhook read it.    *)
FinalStaysFinal ==
  [][doc.status \in Final /\ doc'.job = doc.job => doc'.status \in Final]_vars

(* What the AI service believes delivered shows in the document: if it is  *)
(* about the attempt, it is completed or failed.  (Attempts that were      *)
(* answered stale_attempt_superseded are set apart: see LostCompletion.)   *)
DeliveredIsApplied ==
  \A j \in told \ dropped : doc.job = j => doc.status \in Final

(* "No lost completion results" (the acceptance tests): the same for every *)
(* attempt.                                                                *)
NoLostCompletion == \A j \in told : doc.job = j => doc.status \in Final

(* A document does not stay in processing for ever: its attempt ends and   *)
(* reports, or the watchdog fails it.                                      *)
ProcessingEnds == doc.status = "processing" ~> doc.status # "processing"

(* Fairness: the AI service settles what it opened (AttemptLedger), the    *)
(* handlers run, the watchdog is periodic, and five minutes without a      *)
(* heartbeat pass.  Users need not ask, callbacks need not arrive.         *)
FairSpec ==
  /\ Spec
  /\ WF_vars(phase = "open" /\ (Settle \/ Forget))
  /\ WF_vars(Webhook)
  /\ \A r \in Requests : WF_vars(request[r].pc # "new" /\ Ingest(r))
  /\ WF_vars(Watchdog)
  /\ WF_vars(HeartbeatExpires)
=============================================================================
