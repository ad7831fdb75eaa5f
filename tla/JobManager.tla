------------------------------ MODULE JobManager ------------------------------
(***************************************************************************)
(* IngestionJobManager: which ingestion jobs are admitted, which of them   *)
(* run, and what becomes of them when the service shuts down.  Jobs are of *)
(* different repositories; what a job does to its repository's record is   *)
(* the subject of IngestionService.                                        *)
(*                                                                         *)
(* One action runs from one await to the next.  The semaphore is that of   *)
(* asyncio: a queue of waiters, of which some were handed a permit and     *)
(* have not run since, and a cancellation that strikes at the next await.  *)
(***************************************************************************)
EXTENDS Naturals, FiniteSets, Sequences

CONSTANTS
  Jobs,
  MaxAdmitted,     \* max_admitted_ingestion_jobs
  MaxConcurrent    \* max_concurrent_ingestion_jobs

ASSUME ManagerAssumption ==
  /\ IsFiniteSet(Jobs)
  /\ MaxAdmitted \in Nat \ {0}
  /\ MaxConcurrent \in Nat \ {0}

VARIABLES
  job,          \* where each job is
  admitted,     \* _admitted_jobs
  permits,      \* value of the semaphore
  queue,        \* its waiters, in order of arrival
  woken,        \* waiters that were handed a permit and have not run since
  cancelled,    \* tasks whose cancellation is pending
  closing,      \* where shutdown is
  executed,     \* history: jobs whose worker was called
  settled       \* history: jobs whose settlement as unstarted was begun

semaphore == <<permits, queue, woken>>
vars == <<job, admitted, semaphore, cancelled, closing, executed, settled>>

(* A permit is held while holding (the queued heartbeat is being stopped), *)
(* aborting (settled without having run), executing or cleaning up.        *)
Holding  == {"holding", "aborting", "executing", "cleaning"}
InTask   == Holding \cup {"waiting", "settling", "finishing"}
JobPc    == InTask \cup {"new", "reserved", "refused", "over"}

Active  == {j \in Jobs : job[j] \in InTask}              \* _active_tasks
Holders == {j \in Jobs : job[j] \in Holding}

Init ==
  /\ job = [j \in Jobs |-> "new"]
  /\ admitted = {}
  /\ permits = MaxConcurrent
  /\ queue = <<>>
  /\ woken = {}
  /\ cancelled = {}
  /\ closing = "no"
  /\ executed = {}
  /\ settled = {}

Accepting == closing = "no"           \* _accepting, and not _shutting_down

Goto(j, pc) == job' = [job EXCEPT ![j] = pc]
history     == <<executed, settled>>

-----------------------------------------------------------------------------
(* asyncio.Semaphore. *)

(* The waiter at place i leaves; those behind it move up. *)
Without(s, j) ==
  LET i == CHOOSE k \in DOMAIN s : s[k] = j
  IN [k \in 1..Len(s) - 1 |-> IF k < i THEN s[k] ELSE s[k + 1]]

(* The places of the waiters without a result: neither woken nor cancelled. *)
Sleepers(q) == {i \in DOMAIN q : q[i] \notin woken \cup cancelled}

Foremost(n, places) == {i \in places : Cardinality({k \in places : k <= i}) <= n}

(* _wake_up_next, n times: the first sleepers get n of the p permits. *)
WakeUp(n, p, q, awake) ==
  LET first == Foremost(n, Sleepers(q)) IN
  /\ permits' = p - Cardinality(first)
  /\ woken' = awake \cup {q[i] : i \in first}

Release == WakeUp(1, permits + 1, queue, woken) /\ UNCHANGED queue

Locked == permits = 0 \/ \E i \in DOMAIN queue : queue[i] \in woken \/ queue[i] \notin cancelled

-----------------------------------------------------------------------------
(* Admission: reserve_admission, release_admission, submit_job. *)

ReleaseSlot(j) == admitted' = admitted \ {j}

Reserve(j) ==
  /\ job[j] = "new"
  /\ \/ /\ Accepting
        /\ Cardinality(admitted) < MaxAdmitted
        /\ admitted' = admitted \cup {j}
        /\ Goto(j, "reserved")
     \/ /\ ~ Accepting \/ Cardinality(admitted) >= MaxAdmitted
        /\ Goto(j, "refused")
        /\ UNCHANGED admitted
  /\ UNCHANGED <<semaphore, cancelled, closing, history>>

PersistFails_WithoutRelease(j) ==
  /\ job[j] = "reserved"
  /\ Goto(j, "refused")
  /\ UNCHANGED <<admitted, semaphore, cancelled, closing, history>>

(* The PENDING record could not be persisted. *)
PersistFails(j) ==
  /\ job[j] = "reserved"
  /\ ReleaseSlot(j)
  /\ Goto(j, "refused")
  /\ UNCHANGED <<semaphore, cancelled, closing, history>>

(* The task is created, and takes its first step: it acquires the          *)
(* semaphore or queues up.                                                 *)
SubmitJob(j) ==
  /\ job[j] = "reserved"
  /\ \/ /\ ~ Accepting
        /\ ReleaseSlot(j)
        /\ Goto(j, "refused")
        /\ UNCHANGED semaphore
     \/ /\ Accepting /\ ~ Locked
        /\ permits' = permits - 1
        /\ Goto(j, "holding")
        /\ UNCHANGED <<queue, woken, admitted>>
     \/ /\ Accepting /\ Locked
        /\ queue' = Append(queue, j)
        /\ Goto(j, "waiting")
        /\ UNCHANGED <<permits, woken, admitted>>
  /\ UNCHANGED <<cancelled, closing, history>>

-----------------------------------------------------------------------------
(* _run_job. *)

runOthers == <<admitted, cancelled, closing>>

Undisturbed(j, pc) == job[j] = pc /\ j \notin cancelled

(* acquire returns: the waiter leaves the queue, and wakes up as many as   *)
(* there are permits left, for those that came behind it had to wait.      *)
Acquire(j) ==
  /\ Undisturbed(j, "waiting")
  /\ j \in woken
  /\ queue' = Without(queue, j)
  /\ WakeUp(permits, permits, queue', woken \ {j})
  /\ Goto(j, "holding")
  /\ UNCHANGED <<runOthers, history>>

BeginSettling(j) == settled' = settled \cup {j}

(* The queued heartbeat has ended.  A cancellation that strikes here is    *)
(* suppressed with the heartbeat's own.                                    *)
Begin(j) ==
  /\ job[j] = "holding"
  /\ cancelled' = cancelled \ {j}
  /\ \/ /\ ~ Accepting
        /\ BeginSettling(j)
        /\ Goto(j, "aborting")
        /\ UNCHANGED executed
     \/ /\ Accepting
        /\ executed' = executed \cup {j}
        /\ Goto(j, "executing")
        /\ UNCHANGED settled
     \/ /\ Accepting                            \* the worker factory fails
        /\ BeginSettling(j)
        /\ Goto(j, "aborting")
        /\ UNCHANGED executed
  /\ UNCHANGED <<semaphore, admitted, closing>>

LeaveSemaphore_WithoutRelease(j) ==
  /\ \E pc \in {"aborting", "executing", "cleaning"} : Undisturbed(j, pc)
  /\ Goto(j, "finishing")
  /\ UNCHANGED <<semaphore, runOthers, history>>

(* The settlement, the worker or its cleanup ends, with or without an      *)
(* exception.                                                              *)
LeaveSemaphore(j) ==
  /\ \E pc \in {"aborting", "executing", "cleaning"} : Undisturbed(j, pc)
  /\ Release
  /\ Goto(j, "finishing")
  /\ UNCHANGED <<runOthers, history>>

EndSettling(j) ==
  /\ Undisturbed(j, "settling")
  /\ Goto(j, "finishing")
  /\ UNCHANGED <<semaphore, runOthers, history>>

(* The task is done, and _on_task_done runs. *)
TaskDone(j) ==
  /\ job[j] = "finishing"
  /\ Goto(j, "over")
  /\ ReleaseSlot(j)
  /\ cancelled' = cancelled \ {j}
  /\ UNCHANGED <<semaphore, closing, history>>

Strike(j, pc) ==
  /\ job[j] = pc /\ j \in cancelled
  /\ cancelled' = cancelled \ {j}
  /\ UNCHANGED <<admitted, closing, executed>>

LeaveQueue(j) ==
  /\ queue' = Without(queue, j)
  /\ LET p == IF j \in woken THEN permits + 1 ELSE permits IN
       WakeUp(p, p, queue', woken \ {j})

CancelWaiting_WithoutSettling(j) ==
  /\ Strike(j, "waiting")
  /\ LeaveQueue(j)
  /\ Goto(j, "finishing")
  /\ UNCHANGED settled

(* A waiter that was handed a permit returns it. *)
CancelWaiting(j) ==
  /\ Strike(j, "waiting")
  /\ LeaveQueue(j)
  /\ BeginSettling(j)
  /\ Goto(j, "settling")

(* The settlement is begun again, outside the semaphore. *)
CancelAborting(j) ==
  /\ Strike(j, "aborting")
  /\ Release
  /\ BeginSettling(j)
  /\ Goto(j, "settling")

CancelExecuting(j) ==
  /\ Strike(j, "executing")
  /\ Goto(j, "cleaning")
  /\ UNCHANGED <<semaphore, settled>>

(* A second cancellation cuts the cleanup or the settlement short. *)
CancelCleaning(j) ==
  /\ Strike(j, "cleaning")
  /\ Release
  /\ Goto(j, "finishing")
  /\ UNCHANGED settled

CancelSettling(j) ==
  /\ Strike(j, "settling")
  /\ Goto(j, "finishing")
  /\ UNCHANGED <<semaphore, settled>>

Cancel(j) ==
  \/ CancelWaiting(j) \/ CancelAborting(j) \/ CancelExecuting(j)
  \/ CancelCleaning(j) \/ CancelSettling(j)

RunJob(j) == Acquire(j) \/ Begin(j) \/ LeaveSemaphore(j) \/ EndSettling(j) \/ TaskDone(j) \/ Cancel(j)

-----------------------------------------------------------------------------
(* shutdown. *)

closingOthers == <<job, semaphore, history>>

BeginShutdown ==
  /\ closing = "no"
  /\ closing' = "recovery"
  /\ UNCHANGED <<admitted, cancelled, closingOthers>>

(* The recovery loop has ended. *)
RecoveryOver ==
  /\ closing = "recovery"
  /\ closing' = IF Active = {} THEN "done" ELSE "grace"
  /\ UNCHANGED <<admitted, cancelled, closingOthers>>

AllOver ==
  /\ Active = {}
  /\ closing' = "done"
  /\ admitted' = {}
  /\ UNCHANGED cancelled

CancelAll(next) ==
  /\ Active # {}
  /\ closing' = next
  /\ cancelled' = Active
  /\ UNCHANGED admitted

GraceOver_WithoutWaiting ==
  /\ closing = "grace"
  /\ AllOver \/ CancelAll("done")
  /\ UNCHANGED closingOthers

GraceOver_WithoutTimeout ==
  /\ closing = "grace"
  /\ AllOver
  /\ UNCHANGED closingOthers

(* asyncio.wait: every task is done, or the grace period is over. *)
GraceOver ==
  /\ closing = "grace"
  /\ AllOver \/ CancelAll("gathering")
  /\ UNCHANGED closingOthers

(* wait_for: when its time is over it cancels gather, hence every task     *)
(* again, and still waits for them to end.                                 *)
GatherOver ==
  /\ \/ closing = "gathering" /\ (AllOver \/ CancelAll("last"))
     \/ closing = "last" /\ AllOver
  /\ UNCHANGED closingOthers

Shutdown == BeginShutdown \/ RecoveryOver \/ GraceOver \/ GatherOver

Next == Shutdown \/ \E j \in Jobs : Reserve(j) \/ PersistFails(j) \/ SubmitJob(j) \/ RunJob(j)

Spec == Init /\ [][Next]_vars

-----------------------------------------------------------------------------
(* Properties. *)

(* Bounded concurrency, in the long run too: a permit is free, held, or    *)
(* handed to a waiter; no order of ends, wake-ups and cancellations loses  *)
(* one or makes one more.                                                  *)
PermitsConserved == permits + Cardinality(woken) + Cardinality(Holders) = MaxConcurrent

(* Bounded admission: slots are taken by the submissions and tasks in      *)
(* progress and by nothing else, whichever way they end.  (The end of a    *)
(* shutdown clears the slots of submissions that are still about to fail.) *)
SlotsAccounted ==
  LET busy == Active \cup {j \in Jobs : job[j] = "reserved"} IN
  /\ admitted \subseteq busy
  /\ closing # "done" => admitted = busy

(* No task outlives the shutdown, after which the lifespan closes the      *)
(* Redis, vector store and HTTP clients that the tasks use.                *)
NothingOutlivesShutdown == closing = "done" => Active = {}

(* A job that was accepted is run by a worker, or its settlement as failed *)
(* is begun: none ends unnoticed, wherever its cancellation strikes.       *)
NoJobVanishes == \A j \in Jobs : job[j] = "over" => j \in executed \cup settled

(* Shutdown ends, although no worker may ever end of itself: a grace       *)
(* period, a cancellation, and another one.                                *)
ShutdownEnds == closing # "no" ~> closing = "done"

(* If workers end, no job waits for ever.                                  *)
WaitersAreServed ==
  (\A j \in Jobs : WF_vars(job[j] = "executing" /\ LeaveSemaphore(j)))
    => \A j \in Jobs : job[j] = "waiting" ~> job[j] # "waiting"

(* Fairness: the event loop runs what is ready, calls have timeouts, and   *)
(* so have the phases of shutdown once it is begun.  Workers need not end. *)
FairSpec ==
  /\ Spec
  /\ \A j \in Jobs :
       /\ WF_vars(job[j] = "reserved" /\ (PersistFails(j) \/ SubmitJob(j)))
       /\ WF_vars(job[j] # "executing" /\ RunJob(j))
       /\ WF_vars(CancelExecuting(j))
  /\ WF_vars(RecoveryOver \/ GraceOver \/ GatherOver)
=============================================================================
