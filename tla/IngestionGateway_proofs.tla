----------------------- MODULE IngestionGateway_proofs -----------------------
(***************************************************************************)
(* Attempt fencing in the Express gateway, for any number of attempts,     *)
(* requests, commits and callbacks.  The argument rests on the order in    *)
(* which attempts are admitted: whoever is about to write for an attempt   *)
(* names one that is admitted, and a request that is about to bind its     *)
(* attempt has seen an older owner of the document.                        *)
(***************************************************************************)
EXTENDS IngestionGateway, FiniteSetTheorems, TLAPS

Admitted == used \cup {NoJob}

TypeInv ==
  /\ TypeOK
  /\ \E n \in Nat : used = 1..n

(* Everything that names an attempt names an admitted one. *)
KnownInv ==
  /\ owner \in Admitted
  /\ phase # "none" => owner \in Jobs
  /\ doc.job \in Admitted
  /\ \A r \in Requests : request[r].seen.job \in Admitted /\ request[r].job \in Admitted
  /\ \A j \in Jobs : staged[j] # "none" \/ (\E k \in Kinds : callback[j][k] # "none") => j \in used

(* A request that is about to bind has seen an older owner. *)
BindInv ==
  \A r \in Requests :
    request[r].pc = "binding" => request[r].job \in Jobs /\ request[r].seen.job < request[r].job

(* A confirmed attempt is not newer than the owner of the document. *)
ToldInv ==
  /\ told \subseteq used
  /\ \A j \in told \ dropped : j <= doc.job /\ (doc.job = j => doc.status \in Final)

(* A terminal callback that passed the checks writes a terminal status, a  *)
(* progress callback does not.                                             *)
TargetInv ==
  \A j \in Jobs, k \in Kinds :
    callback[j][k] \in Statuses => (callback[j][k] \in Final <=> k \in Terminal)

GInv == TypeInv /\ KnownInv /\ BindInv /\ ToldInv /\ TargetInv

-----------------------------------------------------------------------------
(* Attempts are admitted in order. *)

LEMMA Admissions ==
  ASSUME TypeInv
  PROVE  /\ NextJob \in Nat
         /\ used = 1..(NextJob - 1)
         /\ \A j \in Admitted : j \in Nat /\ j < NextJob
         /\ NoJob \notin Jobs
<1>1. PICK n \in Nat : used = 1..n
  BY DEF TypeInv
<1>2. NextJob = n + 1
  <2>1. 1 \in Int /\ n \in Int
    OBVIOUS
  <2>2. Cardinality(1..n) = IF 1 > n THEN 0 ELSE n - 1 + 1
    BY <2>1, FS_Interval
  <2> QED
    BY <1>1, <2>2 DEF NextJob
<1> QED
  BY <1>1, <1>2 DEF Admitted, NoJob, Jobs

LEMMA InitGInv == Init => GInv
<1> SUFFICES ASSUME Init PROVE GInv
  OBVIOUS
<1>1. TypeOK
  BY GatewayAssumption DEF Init, Ledger!Init, TypeOK, NoJob, Statuses, NotRead, Snapshot,
     RequestPc,
     CallbackPc, Final
<1>2. used = 1..0
  BY DEF Init, Ledger!Init
<1>3. KnownInv
  BY DEF Init, Ledger!Init, KnownInv, Admitted, NotRead
<1>4. BindInv /\ ToldInv
  BY DEF Init, BindInv, ToldInv
<1>5. TargetInv
  BY DEF Init, TargetInv, Statuses, Final
<1> QED
  BY <1>1, <1>2, <1>3, <1>4, <1>5 DEF GInv, TypeInv

-----------------------------------------------------------------------------
(* Each action preserves the invariant. *)

LEMMA AiServiceKeeps ==
  ASSUME GInv, AiService
  PROVE  GInv'
<1> USE DEF GInv
<1>1. UNCHANGED <<used, doc, request, history>>
  BY DEF AiService, Settle, Forget, SendProgress, SendTerminal, DropStaged, Ledger!Close,
     Ledger!Correct, Ledger!Forget, ledger
<1>2. TypeOK' /\ KnownInv' /\ TargetInv'
  <2>1. CASE Settle
    <3>1. owner \in Jobs /\ owner \in used /\ owner' = owner
      BY <2>1, Admissions DEF Settle, Ledger!Close, Ledger!Correct, KnownInv, Admitted
    <3>2. phase' \in Terminal /\ staged' = [staged EXCEPT ![owner] = phase'] /\ UNCHANGED callback
      BY <2>1 DEF Settle, Ledger!Close, Ledger!Correct, Terminal
    <3> QED
      BY <1>1, <3>1, <3>2 DEF TypeInv, TypeOK, KnownInv, TargetInv, Admitted, history, Terminal
  <2>2. CASE Forget
    BY <1>1, <2>2 DEF Forget, Ledger!Forget, TypeInv, TypeOK, KnownInv, TargetInv, Admitted,
       history, NoJob
  <2>3. ASSUME NEW k \in Progress, SendProgress(k) PROVE TypeOK' /\ KnownInv' /\ TargetInv'
    <3>1. owner \in Jobs /\ owner \in used /\ k \in Kinds
      BY <2>3, Admissions DEF SendProgress, KnownInv, Admitted, Kinds
    <3> QED
      BY <1>1, <2>3, <3>1 DEF SendProgress, TypeInv, TypeOK, KnownInv, TargetInv, Admitted,
         history,
         ledger, CallbackPc, Statuses, Final
  <2>4. ASSUME NEW j \in Jobs, SendTerminal(j) PROVE TypeOK' /\ KnownInv' /\ TargetInv'
    <3>1. j \in used /\ staged[j] \in Kinds
      BY <2>4 DEF SendTerminal, KnownInv, TypeInv, TypeOK, Kinds
    <3> QED
      BY <1>1, <2>4, <3>1 DEF SendTerminal, TypeInv, TypeOK, KnownInv, TargetInv, Admitted,
         history,
         ledger, CallbackPc, Statuses, Final
  <2>5. ASSUME NEW j \in Jobs, DropStaged(j) PROVE TypeOK' /\ KnownInv' /\ TargetInv'
    BY <1>1, <2>5 DEF DropStaged, TypeInv, TypeOK, KnownInv, TargetInv, Admitted, history,
       ledger
  <2> QED
    BY <2>1, <2>2, <2>3, <2>4, <2>5 DEF AiService
<1> QED
  BY <1>1, <1>2 DEF TypeInv, BindInv, ToldInv, history

LEMMA WebhookKeeps ==
  ASSUME GInv, Webhook
  PROVE  GInv'
<1> USE DEF GInv
<1> PICK j \in Jobs, k \in Kinds : LoseCallback(j, k) \/ ReceiveCallback(j, k) \/ UpdateDocument(j, k)
  BY DEF Webhook
<1>1. UNCHANGED <<ledger, request>> /\ j \in used /\ j \in Nat /\ j # NoJob
  BY Admissions DEF LoseCallback, ReceiveCallback, UpdateDocument, callbackOthers, KnownInv,
     Statuses,
     Final, Admitted
<1>2. /\ staged' \in [Jobs -> Terminal \cup {"none"}] /\ told' \in SUBSET Jobs /\ dropped' \in SUBSET Jobs
      /\ \A i \in Jobs : staged'[i] # "none" => staged[i] # "none"
      /\ told' \subseteq used
  BY <1>1 DEF LoseCallback, ReceiveCallback, UpdateDocument, callbackOthers, Confirm,
     TypeInv, TypeOK,
     ToldInv
<1>3. /\ callback' \in [Jobs -> [Kinds -> CallbackPc]]
      /\ \A i \in Jobs : (\E l \in Kinds : callback'[i][l] # "none") => i \in used
      /\ TargetInv'
  <2>1. callback \in [Jobs -> [Kinds -> CallbackPc]]
    BY DEF TypeInv, TypeOK
  <2>2. PICK pc \in {"none", Target(k)} : callback' = [callback EXCEPT ![j][k] = pc]
    BY DEF LoseCallback, ReceiveCallback, UpdateDocument, ReplyTo
  <2>3. pc \in CallbackPc /\ (pc \in Statuses => (pc \in Final <=> k \in Terminal))
    BY <2>2 DEF Target, Kinds, Progress, Terminal, CallbackPc, Statuses, Final
  <2> QED
    BY <1>1, <2>1, <2>2, <2>3 DEF TargetInv, KnownInv
<1>4. CASE LoseCallback(j, k)
  BY <1>1, <1>2, <1>3, <1>4 DEF LoseCallback, callbackOthers, TypeInv, TypeOK, KnownInv,
     BindInv,
     ToldInv, Admitted, ledger
<1>5. CASE ReceiveCallback(j, k)
  <2>1. UNCHANGED doc /\ told' \ dropped' \subseteq told \ dropped
    BY <1>5 DEF ReceiveCallback, callbackOthers, Confirm
  <2> QED
    BY <1>1, <1>2, <1>3, <2>1 DEF TypeInv, TypeOK, KnownInv, BindInv, ToldInv, Admitted, ledger
<1>6. CASE UpdateDocument(j, k)
  <2>1. CASE ~ Matches(j, k)
    <3>1. UNCHANGED <<doc, told, dropped>>
      BY <1>6, <2>1 DEF UpdateDocument
    <3> QED
      BY <1>1, <1>2, <1>3, <3>1 DEF TypeInv, TypeOK, KnownInv, BindInv, ToldInv, Admitted,
         ledger
  <2>2. CASE Matches(j, k) /\ doc' = [doc EXCEPT !.job = j, !.status = callback[j][k], !.fresh = TRUE]
    <3>1. /\ doc'.job = j /\ doc'.status = callback[j][k] /\ callback[j][k] \in Statuses
          /\ told' \subseteq told \cup {j} /\ UNCHANGED dropped
          /\ k \notin Terminal => UNCHANGED told
      BY <1>6, <2>2 DEF UpdateDocument, Confirm, TypeInv, TypeOK
    <3>2. TypeOK'
      BY <1>1, <1>2, <1>3, <2>2, <3>1 DEF TypeInv, TypeOK, ledger
    <3>3. ToldInv'
      <4> SUFFICES ASSUME NEW i \in told' \ dropped'
                   PROVE  i <= j /\ (i = j => callback[j][k] \in Final)
        BY <1>2, <1>1, <3>1 DEF ToldInv, ledger
      <4>1. CASE i \in told
        <5>1. i \in Jobs /\ i \in Nat /\ i # NoJob /\ i <= doc.job /\ (doc.job = i => doc.status \in Final)
          BY <3>1, <4>1, Admissions DEF ToldInv, TypeInv, TypeOK, Admitted
        <5>2. doc.job = j /\ (i = j => k \in Terminal)
          BY <2>2, <5>1 DEF Matches, Kinds, NoJob
        <5> QED
          BY <3>1, <5>1, <5>2 DEF TargetInv
      <4>2. CASE i \notin told
        <5>1. i = j /\ k \in Terminal
          BY <3>1, <4>2
        <5> QED
          BY <1>1, <3>1, <5>1 DEF TargetInv
      <4> QED
        BY <4>1, <4>2
    <3> QED
      BY <1>1, <1>2, <1>3, <3>1, <3>2, <3>3 DEF TypeInv, KnownInv, BindInv, Admitted, ledger
  <2> QED
    BY <1>6, <2>1, <2>2 DEF UpdateDocument
<1> QED
  BY <1>4, <1>5, <1>6

RequestType == [pc : RequestPc, seen : Snapshot, job : Jobs \cup {NoJob}, commit : Commits \cup {NoCommit}]

LEMMA FinishType ==
  ASSUME TypeOK, NEW r \in Requests, NEW pc \in {"over", "superseded"}, Finish(r, pc)
  PROVE  /\ request' \in [Requests -> RequestType]
         /\ request'[r].pc = pc /\ request'[r].seen = NotRead /\ request'[r].job = request[r].job
         /\ \A s \in Requests : s # r => request'[s] = request[s]
<1>1. request \in [Requests -> RequestType] /\ request[r] \in RequestType
  BY DEF TypeOK, RequestType
<1>2. NotRead \in Snapshot /\ pc \in RequestPc
  BY DEF NotRead, Snapshot, Statuses, RequestPc
<1> DEFINE done == [request[r] EXCEPT !.pc = pc, !.seen = NotRead]
<1>3. request' = [request EXCEPT ![r] = done]
  BY DEF Finish
<1>4. done \in RequestType /\ done.pc = pc /\ done.seen = NotRead /\ done.job = request[r].job
  BY <1>1, <1>2 DEF RequestType
<1> HIDE DEF done
<1> QED
  BY <1>1, <1>3, <1>4

(* A request finishes without touching the document. *)
LEMMA FinishKeeps ==
  ASSUME GInv, NEW r \in Requests, NEW pc \in {"over", "superseded"}, Finish(r, pc),
         UNCHANGED <<ledger, doc, requestOthers>>
  PROVE  GInv'
<1>1. TypeOK'
  BY FinishType DEF GInv, TypeInv, TypeOK, RequestType, ledger, requestOthers
<1>2. KnownInv' /\ BindInv'
  BY FinishType DEF GInv, TypeInv, KnownInv, BindInv, ledger, requestOthers, NotRead, Admitted
<1> QED
  BY <1>1, <1>2 DEF GInv, TypeInv, ToldInv, TargetInv, ledger, requestOthers

LEMMA RequestKeeps ==
  ASSUME GInv, NEW r \in Requests, Ingest(r)
  PROVE  GInv'
<1> USE DEF GInv
<1>1. CASE StartRequest(r)
  <2>1. CASE Finish(r, "over")
    BY <1>1, <2>1, FinishKeeps DEF StartRequest
  <2>2. CASE ~ Finish(r, "over")
    <3>1. PICK commit \in Commits :
            request' = [request EXCEPT ![r] =
              [pc |-> "submitting", job |-> NoJob, commit |-> commit,
               seen |-> [job |-> doc.job, status |-> doc.status, commit |-> doc.commit]]]
      BY <1>1, <2>2 DEF StartRequest
    <3>2. TypeOK'
      BY <1>1, <3>1 DEF StartRequest, TypeInv, TypeOK, ledger, requestOthers, RequestPc,
         Snapshot
    <3> QED
      BY <1>1, <3>1, <3>2 DEF StartRequest, TypeInv, TypeOK, KnownInv, BindInv, ToldInv,
         TargetInv, ledger,
         requestOthers, Admitted
  <2> QED
    BY <2>1, <2>2
<1>2. CASE Submit(r)
  <2> DEFINE n == NextJob
  <2>1. /\ n \in Jobs /\ n \in Nat /\ used = 1..(n - 1) /\ NoJob \notin Jobs
        /\ \A j \in Admitted : j \in Nat /\ j < n
        /\ n >= 1
    BY <1>2, Admissions DEF Submit, Jobs
  <2>2. owner' = n /\ phase' = "open" /\ used' = used \cup {n} /\ UNCHANGED <<doc, requestOthers>>
    BY <1>2 DEF Submit, Ledger!Open
  <2>3. used' = 1..n
    BY <2>1, <2>2
  <2>4. /\ TypeOK' /\ BindInv'
        /\ \A s \in Requests : request'[s].seen.job \in Admitted' /\ request'[s].job \in Admitted'
    <3> HIDE DEF n
    <3>1. CASE request' = [request EXCEPT ![r].pc = "binding", ![r].job = n]
      BY <2>1, <2>2, <3>1 DEF TypeInv, TypeOK, BindInv, KnownInv, Admitted, requestOthers,
         RequestPc
    <3>2. CASE Finish(r, "over")
      <4>1. TypeOK'
        BY <2>1, <2>2, <3>2, FinishType DEF TypeInv, TypeOK, RequestType, requestOthers
      <4> QED
        BY <2>1, <2>2, <3>2, <4>1, FinishType DEF TypeInv, BindInv, KnownInv, Admitted, NotRead
    <3> QED
      BY <1>2, <3>1, <3>2 DEF Submit, n
  <2> QED
    BY <2>1, <2>2, <2>3, <2>4 DEF TypeInv, KnownInv, ToldInv, TargetInv, Admitted, requestOthers
<1>3. CASE AbandonRequest(r) \/ Answer(r)
  BY <1>3, FinishKeeps DEF AbandonRequest, Answer
<1>4. CASE NothingToIngest(r)
  <2>1. /\ doc'.job = doc.job /\ (doc.status \in Final => doc'.status \in Final)
        /\ doc' \in [job : Jobs \cup {NoJob}, status : Statuses, commit : Commits \cup {NoCommit}, fresh : BOOLEAN]
    BY <1>4 DEF NothingToIngest, TypeInv, TypeOK, Statuses, Final
  <2>2. Finish(r, "over") /\ UNCHANGED <<ledger, requestOthers>>
    BY <1>4 DEF NothingToIngest
  <2>3. TypeOK'
    BY <2>1, <2>2, FinishType DEF TypeInv, TypeOK, RequestType, ledger, requestOthers
  <2>4. KnownInv' /\ BindInv'
    BY <2>1, <2>2, FinishType DEF TypeInv, KnownInv, BindInv, ledger, requestOthers,
       NotRead, Admitted
  <2> QED
    BY <2>1, <2>2, <2>3, <2>4 DEF TypeInv, ToldInv, TargetInv, ledger, requestOthers
<1>5. CASE Bind(r)
  <2>1. CASE BindMatches(r) /\ doc' = [job |-> request[r].job, status |-> "processing", fresh |-> TRUE,
                                       commit |-> request[r].commit] /\ Finish(r, "over")
    <3>1. /\ request[r].job \in Jobs /\ request[r].job \in used /\ request[r].seen.job < request[r].job
          /\ request[r].commit \in Commits \cup {NoCommit}
      BY <1>5, Admissions DEF Bind, BindInv, KnownInv, Admitted, TypeInv, TypeOK
    <3>2. TypeOK'
      BY <1>5, <2>1, <3>1, FinishType DEF Bind, TypeInv, TypeOK, RequestType, ledger,
         requestOthers, Statuses
    <3>3. ToldInv'
      <4> SUFFICES ASSUME NEW j \in told \ dropped
                   PROVE  j <= request[r].job /\ j # request[r].job
        BY <1>5, <2>1 DEF Bind, ToldInv, ledger, requestOthers
      <4>1. j \in Jobs /\ j <= doc.job /\ (doc.job = j => doc.status \in Final)
        BY DEF ToldInv, TypeInv, TypeOK
      <4>2. j \in Nat /\ request[r].job \in Nat /\ doc.job \in Nat
        BY <3>1, <4>1, Admissions DEF KnownInv, Jobs
      <4> QED
        BY <2>1, <3>1, <4>1, <4>2 DEF BindMatches
    <3> QED
      BY <1>5, <2>1, <3>1, <3>2, <3>3, FinishType DEF Bind, TypeInv, KnownInv, BindInv,
         TargetInv, ledger,
         requestOthers, NotRead, Admitted
  <2>2. CASE request' = [request EXCEPT ![r].pc = "answering"] /\ UNCHANGED doc
    BY <1>5, <2>2 DEF Bind, TypeInv, TypeOK, KnownInv, BindInv, ToldInv, TargetInv, ledger,
       requestOthers,
       Admitted, RequestPc
  <2> QED
    BY <1>5, <2>1, <2>2 DEF Bind
<1> QED
  BY <1>1, <1>2, <1>3, <1>4, <1>5 DEF Ingest

LEMMA TimeKeeps ==
  ASSUME GInv, Watchdog \/ HeartbeatExpires \/ UNCHANGED vars
  PROVE  GInv'
<1>1. /\ UNCHANGED <<ledger, staged, request, callback, history>>
      /\ doc'.job = doc.job /\ (doc.status \in Final => doc'.status \in Final)
      /\ doc' \in [job : Jobs \cup {NoJob}, status : Statuses, commit : Commits \cup {NoCommit}, fresh : BOOLEAN]
  BY DEF GInv, TypeInv, TypeOK, Watchdog, HeartbeatExpires, docOthers, vars, Final, Statuses
<1> QED
  BY <1>1 DEF GInv, TypeInv, TypeOK, KnownInv, BindInv, ToldInv, TargetInv, ledger, history,
     Admitted

LEMMA StepKeeps == GInv /\ [Next]_vars => GInv'
BY AiServiceKeeps, WebhookKeeps, RequestKeeps, TimeKeeps DEF Next

LEMMA Invariance == Spec => []GInv
BY InitGInv, StepKeeps, PTL DEF Spec

-----------------------------------------------------------------------------
(* The variables of the gateway keep their types. *)
THEOREM GatewayTypes == Spec => []TypeOK
<1>1. GInv => TypeOK
  BY DEF GInv, TypeInv
<1> QED
  BY <1>1, Invariance, PTL

(* Delivery: once Express has confirmed an attempt's terminal callback     *)
(* (other than as superseded), the document, if it is about that attempt,  *)
(* is completed or failed: no binding, progress callback or other request  *)
(* takes it back to processing.                                            *)
THEOREM DeliveredStays == Spec => []DeliveredIsApplied
<1>1. GInv => DeliveredIsApplied
  BY DEF GInv, ToldInv, DeliveredIsApplied
<1> QED
  BY <1>1, Invariance, PTL

(* The only steps that give the document to another attempt are the update *)
(* of a callback, for a document that has none, and the binding of a       *)
(* request, for a newer one.                                               *)
LEMMA OwnerSteps ==
  ASSUME GInv, [Next]_vars, doc'.job # doc.job
  PROVE  /\ doc'.job > doc.job
         /\ doc.job = NoJob \/ \E r \in Requests : request[r].pc = "binding" /\ request[r].job = doc'.job
<1> USE DEF GInv
<1>1. CASE AiService \/ UNCHANGED vars
  BY <1>1 DEF AiService, Settle, Forget, SendProgress, SendTerminal, DropStaged, vars
<1>2. CASE Webhook
  <2>1. PICK j \in Jobs, k \in Kinds :
           doc.job \in {NoJob, j} /\ doc' = [doc EXCEPT !.job = j, !.status = callback[j][k], !.fresh = TRUE]
    BY <1>2 DEF Webhook, LoseCallback, ReceiveCallback, UpdateDocument, callbackOthers, Matches
  <2>2. doc'.job = j
    BY <2>1 DEF TypeInv, TypeOK
  <2> QED
    BY <2>1, <2>2, GatewayAssumption DEF Jobs, NoJob
<1>3. ASSUME NEW r \in Requests, Ingest(r)
      PROVE  /\ doc'.job > doc.job
             /\ request[r].pc = "binding" /\ request[r].job = doc'.job
  <2>1. doc' # doc /\ (NothingToIngest(r) => doc'.job = doc.job)
    BY <1>3 DEF NothingToIngest, TypeInv, TypeOK
  <2>2. Bind(r) /\ BindMatches(r) /\ doc'.job = request[r].job
    BY <1>3, <2>1 DEF Ingest, StartRequest, Submit, AbandonRequest, Answer, Bind
  <2>3. request[r].pc = "binding" /\ request[r].seen.job < request[r].job
    BY <2>2 DEF Bind, BindInv
  <2>4. doc.job = request[r].seen.job
    BY <2>2 DEF BindMatches
  <2> QED
    BY <2>2, <2>3, <2>4, Admissions DEF KnownInv
<1>4. CASE Watchdog \/ HeartbeatExpires
  BY <1>4 DEF Watchdog, HeartbeatExpires, TypeInv, TypeOK
<1> QED
  BY <1>1, <1>2, <1>3, <1>4 DEF Next

(* Attempt fencing: the document passes to a newer attempt only, and from  *)
(* one attempt to another only by the binding of the request that          *)
(* submitted it, whatever callbacks and requests are in flight.            *)
THEOREM AttemptFencing == Spec => OwnershipOnlyGrows
<1>1. GInv /\ [Next]_vars =>
        [/\ doc'.job >= doc.job
         /\ doc'.job # doc.job /\ doc.job # NoJob
              => \E r \in Requests : request[r].pc = "binding" /\ request[r].job = doc'.job]_vars
  <2> SUFFICES ASSUME GInv, [Next]_vars
               PROVE  /\ doc'.job >= doc.job
                      /\ doc'.job # doc.job /\ doc.job # NoJob
                           => \E r \in Requests : request[r].pc = "binding" /\ request[r].job = doc'.job
    OBVIOUS
  <2>1. doc.job \in Nat /\ doc'.job \in Nat
    <3>1. doc.job \in Jobs \cup {NoJob} /\ doc'.job \in Jobs \cup {NoJob}
      BY StepKeeps DEF GInv, TypeInv, TypeOK, Jobs, NoJob
    <3> QED
      BY <3>1 DEF Jobs, NoJob
  <2>2. CASE doc'.job = doc.job
    BY <2>1, <2>2
  <2>3. CASE doc'.job # doc.job
    BY <2>1, <2>3, OwnerSteps
  <2> QED
    BY <2>2, <2>3
<1> QED
  BY <1>1, Invariance, PTL DEF Spec, OwnershipOnlyGrows

(* A completed or failed document stays so under its attempt: a progress   *)
(* callback judged before the document became terminal, and the binding of *)
(* an attempt that was faster than its own bookkeeping, change nothing.    *)
THEOREM NoResurrection == Spec => FinalStaysFinal
<1>1. ASSUME GInv, [Next]_vars, doc.status \in Final, doc'.job = doc.job
      PROVE  doc'.status \in Final
  <2> USE <1>1 DEF GInv
  <2>1. CASE AiService \/ UNCHANGED vars
    BY <2>1 DEF AiService, Settle, Forget, SendProgress, SendTerminal, DropStaged, vars
  <2>2. CASE Webhook
    <3>1. PICK j \in Jobs, k \in Kinds :
             LoseCallback(j, k) \/ ReceiveCallback(j, k) \/ UpdateDocument(j, k)
      BY <2>2 DEF Webhook
    <3>2. CASE ~ UNCHANGED doc
      <4>1. k \in Terminal /\ callback[j][k] \in Statuses /\ doc'.status = callback[j][k]
        BY <3>1, <3>2 DEF LoseCallback, ReceiveCallback, UpdateDocument, callbackOthers,
           Matches, Kinds,
           TypeInv, TypeOK
      <4> QED
        BY <4>1 DEF TargetInv
    <3> QED
      BY <3>2
  <2>3. ASSUME NEW r \in Requests, Ingest(r) PROVE doc'.status \in Final
    <3>1. CASE Bind(r)
      <4>1. CASE BindMatches(r) /\ doc'.job = request[r].job
        <5>1. request[r].job = request[r].seen.job
          BY <4>1 DEF BindMatches
        <5> QED
          BY <3>1, <5>1, Admissions DEF Bind, BindInv, KnownInv
      <4> QED
        BY <3>1, <4>1 DEF Bind
    <3>2. CASE NothingToIngest(r)
      BY <3>2 DEF NothingToIngest, Final, TypeInv, TypeOK
    <3> QED
      BY <2>3, <3>1, <3>2 DEF Ingest, StartRequest, Submit, AbandonRequest, Answer
  <2>4. CASE Watchdog \/ HeartbeatExpires
    BY <2>4 DEF Watchdog, HeartbeatExpires, Final
  <2> QED
    BY <2>1, <2>2, <2>3, <2>4 DEF Next
<1>2. GInv /\ [Next]_vars => [doc.status \in Final /\ doc'.job = doc.job => doc'.status \in Final]_vars
  BY <1>1
<1> QED
  BY <1>2, Invariance, PTL DEF Spec, FinalStaysFinal
=============================================================================
