-------------------------- MODULE JobManager_proofs --------------------------
(***************************************************************************)
(* Admission slots, settlements and the end of a shutdown, then the        *)
(* semaphore, for any number of jobs, slots and permits.  The first part   *)
(* never opens the definitions of the semaphore; the second rests on it.   *)
(***************************************************************************)
EXTENDS JobManager, FiniteSetTheorems, TLAPS

(* Whatever entered the semaphore and left it again was executed, or its   *)
(* settlement was begun.                                                   *)
Accounted == {"aborting", "executing", "cleaning", "settling", "finishing", "over"}

JobInv ==
  /\ job \in [Jobs -> JobPc]
  /\ admitted \subseteq Jobs
  /\ closing \in {"no", "recovery", "grace", "gathering", "last", "done"}
  /\ SlotsAccounted
  /\ NothingOutlivesShutdown
  /\ \A j \in Jobs : job[j] \in Accounted => j \in executed \cup settled

(* What a step does to one job, and to the slots. *)
Moves(j, pc) ==
  /\ pc \in JobPc
  /\ job' = [job EXCEPT ![j] = pc]
  /\ closing' = closing

(* A job that was a task, and stays one. *)
LEMMA TaskStep ==
  ASSUME JobInv, NEW j \in Jobs, NEW pc \in InTask, Moves(j, pc), job[j] \in InTask,
         UNCHANGED admitted, executed \subseteq executed', settled \subseteq settled',
         pc \in Accounted => job[j] \in Accounted \/ j \in executed' \cup settled'
  PROVE  JobInv'
<1>1. Active' = Active /\ \A i \in Jobs : job'[i] = "reserved" <=> job[i] = "reserved"
  BY DEF JobInv, Moves, Active, InTask, Holding
<1> QED
  BY <1>1 DEF JobInv, Moves, SlotsAccounted, NothingOutlivesShutdown

(* A job that stops holding a slot. *)
LEMMA SlotReturned ==
  ASSUME JobInv, NEW j \in Jobs, NEW pc \in {"refused", "over"}, Moves(j, pc), ReleaseSlot(j),
         UNCHANGED <<executed, settled>>, pc = "over" => job[j] \in Accounted
  PROVE  JobInv'
<1> DEFINE busy == Active \cup {i \in Jobs : job[i] = "reserved"}
<1>1. Active' = Active \ {j} /\ busy' = busy \ {j}
  BY DEF JobInv, Moves, Active, InTask, Holding
<1> QED
  BY <1>1 DEF JobInv, Moves, SlotsAccounted, NothingOutlivesShutdown, ReleaseSlot, Accounted

LEMMA AdmissionKeeps ==
  ASSUME JobInv, NEW j \in Jobs, Reserve(j) \/ PersistFails(j) \/ SubmitJob(j)
  PROVE  JobInv'
<1>1. CASE Reserve(j)
  <2>1. CASE Accepting /\ admitted' = admitted \cup {j} /\ Goto(j, "reserved")
    <3>1. Active' = Active /\ {i \in Jobs : job'[i] = "reserved"} = {i \in Jobs : job[i] = "reserved"} \cup {j}
      BY <1>1, <2>1 DEF JobInv, Reserve, Goto, Active, InTask, Holding
    <3> QED
      BY <1>1, <2>1, <3>1 DEF JobInv, Reserve, Goto, SlotsAccounted,
         NothingOutlivesShutdown, Accounted,
         history, JobPc, Accepting
  <2>2. CASE Goto(j, "refused") /\ UNCHANGED admitted
    <3>1. Active' = Active /\ {i \in Jobs : job'[i] = "reserved"} = {i \in Jobs : job[i] = "reserved"}
      BY <1>1, <2>2 DEF JobInv, Reserve, Goto, Active, InTask, Holding
    <3> QED
      BY <1>1, <2>2, <3>1 DEF JobInv, Reserve, Goto, SlotsAccounted,
         NothingOutlivesShutdown, Accounted,
         history, JobPc
  <2> QED
    BY <1>1, <2>1, <2>2 DEF Reserve
<1>2. CASE PersistFails(j)
  BY <1>2, SlotReturned DEF PersistFails, Goto, Moves, history, JobPc
<1>3. CASE SubmitJob(j)
  <2>1. CASE ~ Accepting
    BY <1>3, <2>1, SlotReturned DEF SubmitJob, Goto, Moves, history, JobPc
  <2>2. CASE Accepting
    <3>1. PICK pc \in {"holding", "waiting"} : Goto(j, pc) /\ UNCHANGED admitted
      BY <1>3, <2>2 DEF SubmitJob
    <3>2. Active' \cup {i \in Jobs : job'[i] = "reserved"} = Active \cup {i \in Jobs : job[i] = "reserved"}
      BY <1>3, <3>1 DEF JobInv, SubmitJob, Goto, Active, InTask, Holding
    <3> QED
      BY <1>3, <2>2, <3>1, <3>2 DEF JobInv, SubmitJob, Goto, SlotsAccounted,
         NothingOutlivesShutdown,
         Accounted, Accepting, history, JobPc, InTask, Holding
  <2> QED
    BY <2>1, <2>2
<1> QED
  BY <1>1, <1>2, <1>3

LEMMA RunKeeps ==
  ASSUME JobInv, NEW j \in Jobs, RunJob(j)
  PROVE  JobInv'
<1> USE DEF Goto, Moves, InTask, Holding, JobPc, Accounted, history, runOthers, Undisturbed,
        Strike,
           BeginSettling
<1>1. CASE Acquire(j)
  BY <1>1, TaskStep DEF Acquire
<1>2. CASE Begin(j)
  <2>1. PICK pc \in {"aborting", "executing"} :
          /\ job' = [job EXCEPT ![j] = pc]
          /\ j \in executed' \cup settled'
          /\ executed \subseteq executed' /\ settled \subseteq settled'
          /\ UNCHANGED <<admitted, closing>>
    BY <1>2 DEF Begin
  <2> QED
    BY <1>2, <2>1, TaskStep DEF Begin
<1>3. CASE LeaveSemaphore(j) \/ EndSettling(j)
  BY <1>3, TaskStep DEF LeaveSemaphore, EndSettling
<1>4. CASE TaskDone(j)
  BY <1>4, SlotReturned DEF TaskDone
<1>5. CASE Cancel(j)
  <2>1. CASE CancelWaiting(j) \/ CancelAborting(j)
    BY <2>1, TaskStep DEF CancelWaiting, CancelAborting
  <2>2. CASE CancelExecuting(j) \/ CancelCleaning(j) \/ CancelSettling(j)
    BY <2>2, TaskStep DEF CancelExecuting, CancelCleaning, CancelSettling
  <2> QED
    BY <1>5, <2>1, <2>2 DEF Cancel
<1> QED
  BY <1>1, <1>2, <1>3, <1>4, <1>5 DEF RunJob

LEMMA ShutdownKeeps ==
  ASSUME JobInv, Shutdown \/ UNCHANGED vars
  PROVE  JobInv'
<1>1. UNCHANGED <<job, history>> /\ Active' = Active
  BY DEF Shutdown, BeginShutdown, RecoveryOver, GraceOver, GatherOver, closingOthers, vars,
     history, Active
<1>2. CASE Active = {} /\ closing' = "done" /\ admitted' \in {admitted, {}}
  BY <1>1, <1>2 DEF JobInv, SlotsAccounted, NothingOutlivesShutdown, history
<1>3. CASE /\ UNCHANGED admitted
           /\ \/ closing' = closing
              \/ closing # "done" /\ closing' \in {"recovery", "grace", "gathering", "last"}
  BY <1>1, <1>3 DEF JobInv, SlotsAccounted, NothingOutlivesShutdown, history
<1>4. CASE BeginShutdown \/ RecoveryOver \/ UNCHANGED vars
  BY <1>2, <1>3, <1>4 DEF BeginShutdown, RecoveryOver, vars
<1>5. CASE GraceOver \/ GatherOver
  BY <1>2, <1>3, <1>5 DEF GraceOver, GatherOver, AllOver, CancelAll
<1> QED
  BY <1>4, <1>5 DEF Shutdown

LEMMA Invariance == Spec => []JobInv
<1>1. Init => JobInv
  BY DEF Init, JobInv, SlotsAccounted, NothingOutlivesShutdown, Active, InTask, Holding,
     JobPc, Accounted
<1>2. JobInv /\ [Next]_vars => JobInv'
  BY AdmissionKeeps, RunKeeps, ShutdownKeeps DEF Next
<1> QED
  BY <1>1, <1>2, PTL DEF Spec

-----------------------------------------------------------------------------
(* Bounded admission: the slots taken are those of the submissions and     *)
(* tasks in progress; no ending of a job keeps its slot.                   *)
THEOREM SlotsAreReturned == Spec => []SlotsAccounted
<1>1. JobInv => SlotsAccounted
  BY DEF JobInv
<1> QED
  BY <1>1, Invariance, PTL

(* When shutdown returns, and the clients are closed, no task is left. *)
THEOREM ShutdownIsLast == Spec => []NothingOutlivesShutdown
<1>1. JobInv => NothingOutlivesShutdown
  BY DEF JobInv
<1> QED
  BY <1>1, Invariance, PTL

(* Every job that ended was executed, or its settlement was begun. *)
THEOREM EveryJobSettled == Spec => []NoJobVanishes
<1>1. JobInv => NoJobVanishes
  BY DEF JobInv, NoJobVanishes, Accounted
<1> QED
  BY <1>1, Invariance, PTL

-----------------------------------------------------------------------------
(* Numbers and finite sets. *)

LEMMA LeastNumber ==
  ASSUME NEW T \in SUBSET Nat, T # {}
  PROVE  \E n \in T : \A m \in T : n <= m
<1> DEFINE R == {p \in Nat \X Nat : p[1] < p[2]}
<1>1. IsWellFoundedOn(R, Nat)
  BY NatLessThanWellFounded DEF OpToRel, IsWellFoundedOn
<1>2. \A x, y \in Nat : y < x => <<y, x>> \in R
  OBVIOUS
<1> HIDE DEF R
<1>3. PICK x \in T : \A y \in T : ~ (<<y, x>> \in R)
  BY <1>1, WFMin
<1>4. ASSUME NEW m \in T
      PROVE  x <= m
  <2>1. m \in Nat /\ x \in Nat /\ ~ (m < x)
    BY <1>2, <1>3, Zenon
  <2> QED
    BY <2>1
<1> QED
  BY <1>4

LEMMA GreatestNumber ==
  ASSUME NEW L \in Nat, NEW T \in SUBSET (1..L), T # {}
  PROVE  \E n \in T : \A m \in T : m <= n
<1> DEFINE U == {L - m : m \in T}
<1>0. \A m \in T : m \in Nat /\ L - m \in Nat
  OBVIOUS
<1>1. U \in SUBSET Nat /\ U # {}
  BY <1>0
<1>2. PICK u \in U : \A v \in U : u <= v
  BY <1>1, LeastNumber
<1>3. PICK n \in T : u = L - n
  OBVIOUS
<1>4. ASSUME NEW m \in T
      PROVE  m <= n
  <2>1. L - n <= L - m
    BY <1>2, <1>3
  <2> QED
    BY <1>0, <2>1
<1> QED
  BY <1>4

(* Waking up n sleepers takes at most n permits, and at least one if there *)
(* is a sleeper.                                                           *)
LEMMA ForemostFew ==
  ASSUME NEW L \in Nat, NEW S \in SUBSET (1..L), NEW n \in Nat
  PROVE  /\ Foremost(n, S) \subseteq S
         /\ IsFiniteSet(Foremost(n, S))
         /\ Cardinality(Foremost(n, S)) \in Nat
         /\ Cardinality(Foremost(n, S)) <= n
         /\ n > 0 /\ S # {} => Foremost(n, S) # {}
<1> DEFINE F     == Foremost(n, S)
           Up(i) == {k \in S : k <= i}
<1>1. IsFiniteSet(S)
  <2>1. IsFiniteSet(1..L)
    BY FS_Interval
  <2> QED
    BY <2>1, FS_Subset
<1>2. F \subseteq S /\ IsFiniteSet(F) /\ Cardinality(F) \in Nat
  BY <1>1, FS_Subset, FS_CardinalityType DEF Foremost
<1>3. \A i \in S : Up(i) \subseteq S /\ IsFiniteSet(Up(i)) /\ Cardinality(Up(i)) \in Nat
  BY <1>1, FS_Subset, FS_CardinalityType
<1>4. Cardinality(F) <= n
  <2>1. CASE F = {}
    BY <2>1, FS_EmptySet
  <2>2. CASE F # {}
    <3>1. PICK i \in F : \A k \in F : k <= i
      BY <1>2, <2>2, GreatestNumber
    <3>2. F \subseteq Up(i) /\ i \in S /\ Cardinality(Up(i)) <= n
      BY <1>2, <3>1 DEF Foremost
    <3>3. Cardinality(F) <= Cardinality(Up(i))
      BY <1>3, <3>2, FS_Subset
    <3> QED
      BY <1>2, <1>3, <3>2, <3>3
  <2> QED
    BY <2>1, <2>2
<1>5. ASSUME n > 0, S # {}
      PROVE  F # {}
  <2>1. PICK i \in S : \A k \in S : i <= k
    BY <1>5, LeastNumber
  <2>2. Up(i) = {i}
    <3>1. i \in S /\ i \in Nat /\ i <= i
      BY <2>1
    <3>2. ASSUME NEW k \in S, k <= i
          PROVE  k = i
      <4>1. k \in Nat /\ i <= k
        BY <2>1
      <4> QED
        BY <3>1, <3>2, <4>1
    <3> QED
      BY <3>1, <3>2
  <2>3. Cardinality(Up(i)) = 1
    BY <2>2, FS_Singleton
  <2> QED
    BY <1>5, <2>1, <2>3 DEF Foremost
<1> QED
  BY <1>2, <1>4, <1>5

-----------------------------------------------------------------------------
(* The queue of the semaphore. *)

Distinct(q) == \A i, k \in DOMAIN q : q[i] = q[k] => i = k
Waiters(q)  == {q[i] : i \in DOMAIN q}

LEMMA QueueWithout ==
  ASSUME NEW q \in Seq(Jobs), Distinct(q), NEW j \in Waiters(q)
  PROVE  /\ Without(q, j) \in Seq(Jobs)
         /\ Distinct(Without(q, j))
         /\ Waiters(Without(q, j)) = Waiters(q) \ {j}
<1> DEFINE i == CHOOSE k \in DOMAIN q : q[k] = j
           n == Len(q) - 1
           t == [k \in 1..n |-> IF k < i THEN q[k] ELSE q[k + 1]]
<1>1. i \in DOMAIN q /\ q[i] = j
  BY DEF Waiters
<1>2. Without(q, j) = t
  BY DEF Without
<1> HIDE DEF i
<1>3. i \in 1..n + 1 /\ n \in Nat /\ DOMAIN q = 1..n + 1
  BY <1>1
<1>4. \A k \in 1..n : t[k] \in Jobs
  BY <1>3
<1>5. t \in Seq(Jobs) /\ DOMAIN t = 1..n
  BY <1>3, <1>4
<1>6. Distinct(t)
  BY <1>3, <1>5 DEF Distinct
<1>7. Waiters(t) \subseteq Waiters(q) \ {j}
  BY <1>1, <1>3, <1>5 DEF Waiters, Distinct
<1>8. ASSUME NEW w \in Waiters(q) \ {j}
      PROVE  w \in Waiters(t)
  <2>1. PICK k \in 1..n + 1 : q[k] = w /\ k # i
    BY <1>1, <1>3 DEF Waiters
  <2>2. CASE k < i
    <3>1. k \in 1..n /\ t[k] = w
      BY <1>3, <2>1, <2>2
    <3> QED
      BY <1>5, <3>1 DEF Waiters
  <2>3. CASE i < k
    <3>1. k - 1 \in 1..n /\ t[k - 1] = w
      BY <1>3, <2>1, <2>3
    <3> QED
      BY <1>5, <3>1 DEF Waiters
  <2> QED
    BY <1>3, <2>1, <2>2, <2>3
<1> QED
  BY <1>2, <1>5, <1>6, <1>7, <1>8

LEMMA QueueAppend ==
  ASSUME NEW q \in Seq(Jobs), Distinct(q), NEW j \in Jobs, j \notin Waiters(q)
  PROVE  /\ Append(q, j) \in Seq(Jobs)
         /\ Distinct(Append(q, j))
         /\ Waiters(Append(q, j)) = Waiters(q) \cup {j}
<1> DEFINE n == Len(q)
           t == Append(q, j)
<1>1. n \in Nat /\ DOMAIN q = 1..n /\ t \in Seq(Jobs) /\ DOMAIN t = 1..n + 1
  OBVIOUS
<1>2. t[n + 1] = j /\ \A k \in 1..n : t[k] = q[k]
  OBVIOUS
<1> HIDE DEF t
<1>3. Distinct(t)
  BY <1>1, <1>2 DEF Distinct, Waiters
<1>4. Waiters(t) = Waiters(q) \cup {j}
  BY <1>1, <1>2 DEF Waiters
<1> QED
  BY <1>1, <1>3, <1>4 DEF t

(* A permit goes to every waiter that is woken up, and to nobody else. *)
LEMMA WakeUpKeepsPermits ==
  ASSUME NEW q \in Seq(Jobs), Distinct(q), NEW n \in Nat, NEW p \in Nat, n <= p,
         NEW awake \in SUBSET woken, woken \subseteq Jobs, WakeUp(n, p, q, awake)
  PROVE  /\ permits' \in Nat /\ permits' <= p
         /\ permits' + Cardinality(woken') = p + Cardinality(awake)
         /\ awake \subseteq woken' /\ woken' \subseteq awake \cup Waiters(q)
         /\ n > 0 /\ Sleepers(q) # {} => woken' # {}
<1> DEFINE first == Foremost(n, Sleepers(q))
           roused == {q[i] : i \in first}
<1>1. Sleepers(q) \in SUBSET (1..Len(q)) /\ Len(q) \in Nat
  BY DEF Sleepers
<1>2. /\ first \subseteq Sleepers(q) /\ IsFiniteSet(first)
      /\ Cardinality(first) \in Nat /\ Cardinality(first) <= n
      /\ n > 0 /\ Sleepers(q) # {} => first # {}
  BY <1>1, ForemostFew
<1>3. permits' = p - Cardinality(first) /\ woken' = awake \cup roused
  BY DEF WakeUp
<1>4. IsFiniteSet(roused) /\ Cardinality(roused) = Cardinality(first)
  <2> DEFINE f == [i \in first |-> q[i]]
  <2>1. f \in Bijection(first, roused)
    BY <1>2 DEF Bijection, Injection, Surjection, IsInjective, Distinct, Sleepers
  <2> HIDE DEF f, roused, first
  <2> QED
    BY <1>2, <2>1, FS_Bijection DEF ExistsBijection
<1>5. roused \cap awake = {} /\ roused \subseteq Waiters(q)
  BY <1>2 DEF Sleepers, Waiters
<1>6. IsFiniteSet(awake)
  BY FS_Subset, ManagerAssumption
<1> HIDE DEF roused, first
<1>7. Cardinality(woken') = Cardinality(awake) + Cardinality(first)
  <2>1. Cardinality({}) = 0 /\ Cardinality(awake) \in Nat
    BY <1>6, FS_EmptySet, FS_CardinalityType
  <2>2. Cardinality(awake \cup roused) = Cardinality(awake) + Cardinality(roused) - Cardinality(awake \cap roused)
    BY <1>4, <1>6, FS_Union
  <2>3. awake \cap roused = {}
    BY <1>5
  <2> QED
    <3>1. Cardinality(awake \cap roused) = 0
      BY <2>1, <2>3
    <3> QED
      BY <1>2, <1>3, <1>4, <2>1, <2>2, <3>1
<1>8. Cardinality(awake) \in Nat
  BY <1>6, FS_CardinalityType
<1>9. permits' \in Nat /\ permits' <= p
  BY <1>2, <1>3
<1>10. permits' + Cardinality(woken') = p + Cardinality(awake)
  BY <1>2, <1>3, <1>7, <1>8
<1>11. n > 0 /\ Sleepers(q) # {} => woken' # {}
  <2> SUFFICES ASSUME n > 0, Sleepers(q) # {} PROVE roused # {}
    BY <1>3
  <2>1. first # {}
    BY <1>2
  <2> QED
    BY <2>1 DEF roused
<1> QED
  BY <1>3, <1>5, <1>9, <1>10, <1>11

-----------------------------------------------------------------------------
(* The semaphore. *)

Waiting == {j \in Jobs : job[j] = "waiting"}

(* A job does not sleep while a permit is free, unless a waiter is about   *)
(* to run that will wake it up.                                            *)
NoLostWakeUp == permits > 0 /\ Sleepers(queue) # {} => woken # {}

SemInv ==
  /\ permits \in Nat
  /\ queue \in Seq(Jobs) /\ Distinct(queue)
  /\ Waiters(queue) = Waiting
  /\ woken \subseteq Waiting
  /\ PermitsConserved
  /\ NoLostWakeUp

LEMMA HoldersAndWoken ==
  ASSUME JobInv, SemInv
  PROVE  /\ IsFiniteSet(Holders) /\ Cardinality(Holders) \in Nat
         /\ IsFiniteSet(woken) /\ Cardinality(woken) \in Nat
         /\ permits \in Nat /\ MaxConcurrent \in Nat
         /\ permits + Cardinality(woken) + Cardinality(Holders) = MaxConcurrent
<1>1. IsFiniteSet(Holders) /\ IsFiniteSet(woken)
  BY FS_Subset, ManagerAssumption DEF Holders, SemInv, Waiting
<1> QED
  BY <1>1, FS_CardinalityType, ManagerAssumption DEF SemInv, PermitsConserved

(* A job that takes a permit, and one that gives it back. *)
LEMMA HoldersMove ==
  ASSUME JobInv, SemInv, NEW j \in Jobs, NEW pc \in JobPc, job' = [job EXCEPT ![j] = pc]
  PROVE  /\ pc \in Holding /\ job[j] \notin Holding => Cardinality(Holders') = Cardinality(Holders) + 1
         /\ pc \notin Holding /\ job[j] \in Holding => Cardinality(Holders') = Cardinality(Holders) - 1
         /\ (pc \in Holding <=> job[j] \in Holding) => Cardinality(Holders') = Cardinality(Holders)
         /\ Waiting' = IF pc = "waiting" THEN Waiting \cup {j} ELSE Waiting \ {j}
<1>1. job \in [Jobs -> JobPc]
  BY DEF JobInv
<1>2. Holders' = IF pc \in Holding THEN Holders \cup {j} ELSE Holders \ {j}
  BY <1>1 DEF Holders
<1>3. j \in Holders <=> job[j] \in Holding
  BY DEF Holders
<1>4. Waiting' = IF pc = "waiting" THEN Waiting \cup {j} ELSE Waiting \ {j}
  BY <1>1 DEF Waiting
<1>5. /\ IsFiniteSet(Holders) /\ Cardinality(Holders) \in Nat
      /\ Cardinality(Holders \cup {j}) = IF j \in Holders THEN Cardinality(Holders) ELSE Cardinality(Holders) + 1
      /\ Cardinality(Holders \ {j}) = IF j \in Holders THEN Cardinality(Holders) - 1 ELSE Cardinality(Holders)
  <2>1. IsFiniteSet(Holders) /\ Cardinality(Holders) \in Nat
    BY HoldersAndWoken
  <2> QED
    BY <2>1, FS_AddElement, FS_RemoveElement
<1>6. Cardinality(Holders') = IF pc \in Holding THEN Cardinality(Holders \cup {j})
                              ELSE Cardinality(Holders \ {j})
  BY <1>2
<1> HIDE DEF Holders, Holding
<1> QED
  BY <1>3, <1>4, <1>5, <1>6

(* A step that leaves the semaphore alone. *)
LEMMA SemaphoreIdle ==
  ASSUME JobInv, SemInv, UNCHANGED semaphore, Waiting' = Waiting,
         Cardinality(Holders') = Cardinality(Holders),
         cancelled \cap Waiting \subseteq cancelled'
  PROVE  SemInv'
<1>1. Sleepers(queue)' \subseteq Sleepers(queue)
  BY DEF SemInv, Sleepers, semaphore, Waiters
<1>2. PermitsConserved' /\ NoLostWakeUp'
  BY <1>1 DEF SemInv, PermitsConserved, NoLostWakeUp, semaphore
<1> QED
  BY <1>2 DEF SemInv, semaphore

(* A step that wakes up sleepers: n of the p permits that are then free.   *)
LEMMA SemaphoreWakesUp ==
  ASSUME JobInv, SemInv, NEW j \in Jobs, NEW awake \in {woken, woken \ {j}}, awake \subseteq Waiting',
         queue' \in Seq(Jobs), Distinct(queue'), Waiters(queue') = Waiting', j \notin Waiting',
         NEW n \in Nat, NEW p \in Nat, n <= p, n = 0 => p = 0,
         WakeUp(n, p, queue', awake),
         p + Cardinality(awake) + Cardinality(Holders') = MaxConcurrent,
         cancelled \ {j} \subseteq cancelled'
  PROVE  SemInv'
<1> DEFINE q == queue'
<1>1. woken \subseteq Jobs /\ awake \subseteq woken
  BY DEF SemInv, Waiting
<1>2. /\ permits' \in Nat /\ permits' <= p
      /\ permits' + Cardinality(woken') = p + Cardinality(awake)
      /\ awake \subseteq woken' /\ woken' \subseteq awake \cup Waiters(q)
      /\ n > 0 /\ Sleepers(q) # {} => woken' # {}
  <2> HIDE DEF q
  <2> QED
    BY <1>1, WakeUpKeepsPermits DEF q
<1>3. woken' \subseteq Waiting'
  BY <1>2
<1>4. Sleepers(queue)' \subseteq Sleepers(q)
  BY <1>2 DEF Sleepers, Waiters
<1>5. NoLostWakeUp'
  BY <1>2, <1>4 DEF NoLostWakeUp
<1>6. PermitsConserved'
  BY <1>2 DEF PermitsConserved
<1> QED
  BY <1>2, <1>3, <1>5, <1>6 DEF SemInv

LEMMA AdmissionKeepsPermits ==
  ASSUME JobInv, SemInv, NEW j \in Jobs, Reserve(j) \/ PersistFails(j) \/ SubmitJob(j)
  PROVE  SemInv'
<1> USE DEF Goto, JobPc, InTask, Holding
<1>1. job[j] \in {"new", "reserved"}
  BY DEF Reserve, PersistFails, SubmitJob
<1>2. j \notin Waiting
  BY <1>1 DEF Waiting
<1>3. ASSUME NEW pc \in {"reserved", "refused"}, job' = [job EXCEPT ![j] = pc],
             UNCHANGED <<semaphore, cancelled>>
      PROVE  SemInv'
  <2>1. pc \in JobPc /\ pc \notin Holding /\ job[j] \notin Holding /\ pc # "waiting"
    BY <1>1, <1>3
  <2>2. Cardinality(Holders') = Cardinality(Holders) /\ Waiting' = Waiting \ {j}
    BY <1>3, <2>1, HoldersMove
  <2> QED
    BY <1>2, <1>3, <2>2, SemaphoreIdle
<1>4. CASE Reserve(j) \/ PersistFails(j)
  BY <1>3, <1>4 DEF Reserve, PersistFails
<1>5. CASE SubmitJob(j) /\ ~ Accepting
  BY <1>3, <1>5 DEF SubmitJob
<1>6. CASE /\ ~ Locked /\ permits' = permits - 1 /\ Goto(j, "holding")
           /\ UNCHANGED <<queue, woken, cancelled>>
  <2>0. /\ "holding" \in JobPc /\ "holding" \in Holding /\ job[j] \notin Holding
        /\ job' = [job EXCEPT ![j] = "holding"]
    BY <1>1, <1>6
  <2>1. Cardinality(Holders') = Cardinality(Holders) + 1 /\ Waiting' = Waiting
    <3>1. Cardinality(Holders') = Cardinality(Holders) + 1
      BY <2>0, HoldersMove
    <3>2. Waiting' = Waiting \ {j}
      BY <2>0, HoldersMove
    <3> QED
      BY <1>2, <3>1, <3>2
  <2>2. permits' \in Nat
    BY <1>6 DEF SemInv, Locked
  <2>3. PermitsConserved'
    <3>1. permits - 1 + Cardinality(woken) + (Cardinality(Holders) + 1) = MaxConcurrent
      BY HoldersAndWoken
    <3> QED
      BY <1>6, <2>1, <3>1 DEF PermitsConserved
  <2>4. NoLostWakeUp'
    BY <1>6, <2>2 DEF SemInv, NoLostWakeUp, Sleepers
  <2> QED
    BY <1>6, <2>1, <2>2, <2>3, <2>4 DEF SemInv
<1>7. CASE /\ Locked /\ queue' = Append(queue, j) /\ Goto(j, "waiting")
           /\ UNCHANGED <<permits, woken, cancelled>>
  <2>1. Cardinality(Holders') = Cardinality(Holders) /\ Waiting' = Waiting \cup {j}
    BY <1>1, <1>7, HoldersMove
  <2>2. queue' \in Seq(Jobs) /\ Distinct(queue') /\ Waiters(queue') = Waiting'
    BY <1>2, <1>7, <2>1, QueueAppend DEF SemInv
  <2>3. NoLostWakeUp'
    BY <1>7 DEF SemInv, NoLostWakeUp, Locked, Sleepers
  <2> QED
    BY <1>7, <2>1, <2>2, <2>3 DEF SemInv, PermitsConserved
<1> QED
  BY <1>4, <1>5, <1>6, <1>7 DEF SubmitJob

LEMMA RunKeepsPermits ==
  ASSUME JobInv, SemInv, NEW j \in Jobs, RunJob(j)
  PROVE  SemInv'
<1> USE DEF Goto, JobPc, InTask, Holding, runOthers, Undisturbed, Strike
<1>1. \/ j \in Waiters(queue) /\ j \in Waiting /\ job[j] = "waiting"
      \/ j \notin Waiting /\ job[j] # "waiting"
  BY DEF SemInv, Waiting
(* The steps that leave the semaphore alone. *)
<1>2. ASSUME job[j] # "waiting", NEW pc \in JobPc \ {"waiting"}, job' = [job EXCEPT ![j] = pc],
             pc \in Holding <=> job[j] \in Holding,
             UNCHANGED semaphore, cancelled \ {j} \subseteq cancelled'
      PROVE  SemInv'
  <2>1. Cardinality(Holders') = Cardinality(Holders) /\ Waiting' = Waiting
    <3>1. Cardinality(Holders') = Cardinality(Holders)
      BY <1>2, HoldersMove
    <3>2. Waiting' = Waiting \ {j}
      BY <1>2, HoldersMove
    <3> QED
      BY <1>1, <1>2, <3>1, <3>2
  <2> QED
    BY <1>1, <1>2, <2>1, SemaphoreIdle
(* The steps that return a permit. *)
<1>3. ASSUME job[j] \in Holding, NEW pc \in {"finishing", "settling"}, job' = [job EXCEPT ![j] = pc],
             Release, cancelled \ {j} \subseteq cancelled'
      PROVE  SemInv'
  <2>1. Cardinality(Holders') = Cardinality(Holders) - 1 /\ Waiting' = Waiting /\ j \notin Waiting
    <3>1. pc \in JobPc /\ pc \notin Holding /\ pc # "waiting"
      BY <1>3
    <3>2. Cardinality(Holders') = Cardinality(Holders) - 1
      BY <1>3, <3>1, HoldersMove
    <3>3. Waiting' = Waiting \ {j}
      BY <1>3, <3>1, HoldersMove
    <3> QED
      BY <1>1, <1>3, <3>2, <3>3
  <2>2. permits + 1 + Cardinality(woken) + Cardinality(Holders') = MaxConcurrent
    BY <2>1, HoldersAndWoken
  <2>3. WakeUp(1, permits + 1, queue', woken) /\ UNCHANGED queue
    BY <1>3 DEF Release
  <2>4. 1 \in Nat /\ permits + 1 \in Nat /\ 1 <= permits + 1
    BY DEF SemInv
  <2> QED
    BY <1>3, <2>1, <2>2, <2>3, <2>4, SemaphoreWakesUp DEF SemInv
(* The steps of a waiter that leaves the queue, with a permit to give back *)
(* or without one.                                                         *)
<1>4. ASSUME job[j] = "waiting", queue' = Without(queue, j), NEW p \in Nat,
             NEW pc \in {"holding", "finishing", "settling"}, job' = [job EXCEPT ![j] = pc],
             p + (IF pc = "holding" THEN 1 ELSE 0) = permits + (IF j \in woken THEN 1 ELSE 0),
             WakeUp(p, p, queue', woken \ {j}), cancelled \ {j} \subseteq cancelled'
      PROVE  SemInv'
  <2>1. /\ pc = "holding" => Cardinality(Holders') = Cardinality(Holders) + 1
        /\ pc # "holding" => Cardinality(Holders') = Cardinality(Holders)
        /\ Waiting' = Waiting \ {j}
    BY <1>4, HoldersMove
  <2>2. queue' \in Seq(Jobs) /\ Distinct(queue') /\ Waiters(queue') = Waiting'
    BY <1>1, <1>4, <2>1, QueueWithout DEF SemInv
  <2>3. Cardinality(woken \ {j}) = IF j \in woken THEN Cardinality(woken) - 1 ELSE Cardinality(woken)
    <3>1. IsFiniteSet(woken)
      BY HoldersAndWoken
    <3> QED
      BY <3>1, FS_RemoveElement
  <2>4. p + Cardinality(woken \ {j}) + Cardinality(Holders') = MaxConcurrent
    BY <1>4, <2>1, <2>3, HoldersAndWoken
  <2>5. woken \ {j} \subseteq Waiting' /\ j \notin Waiting' /\ p <= p /\ (p = 0 => p = 0)
    BY <2>1 DEF SemInv
  <2> QED
    BY <1>4, <2>2, <2>4, <2>5, SemaphoreWakesUp
<1>5. CASE Acquire(j)
  BY <1>4, <1>5 DEF Acquire, SemInv
<1>6. CASE Begin(j)
  BY <1>2, <1>6 DEF Begin
<1>7. CASE LeaveSemaphore(j)
  BY <1>3, <1>7 DEF LeaveSemaphore
<1>8. CASE EndSettling(j) \/ TaskDone(j)
  BY <1>2, <1>8 DEF EndSettling, TaskDone
<1>9. CASE CancelWaiting(j)
  <2> DEFINE p == IF j \in woken THEN permits + 1 ELSE permits
  <2>1. WakeUp(p, p, queue', woken \ {j}) /\ queue' = Without(queue, j)
    BY <1>9 DEF CancelWaiting, LeaveQueue
  <2>2. p \in Nat /\ p + 0 = permits + (IF j \in woken THEN 1 ELSE 0)
    BY DEF SemInv
  <2> HIDE DEF p
  <2> QED
    BY <1>4, <1>9, <2>1, <2>2 DEF CancelWaiting
<1>10. CASE CancelAborting(j) \/ CancelCleaning(j)
  BY <1>3, <1>10 DEF CancelAborting, CancelCleaning
<1>11. CASE CancelExecuting(j) \/ CancelSettling(j)
  BY <1>2, <1>11 DEF CancelExecuting, CancelSettling
<1> QED
  BY <1>5, <1>6, <1>7, <1>8, <1>9, <1>10, <1>11 DEF RunJob, Cancel

LEMMA ShutdownKeepsPermits ==
  ASSUME JobInv, SemInv, Shutdown \/ UNCHANGED vars
  PROVE  SemInv'
<1>1. UNCHANGED <<job, semaphore>>
  BY DEF Shutdown, BeginShutdown, RecoveryOver, GraceOver, GatherOver, closingOthers, vars
<1>2. Holders' = Holders /\ Waiting' = Waiting
  BY <1>1 DEF Holders, Waiting
<1>3. cancelled' = cancelled \/ cancelled' = Active
  BY DEF Shutdown, BeginShutdown, RecoveryOver, GraceOver, GatherOver, AllOver, CancelAll, vars
<1>4. Waiting \subseteq Active
  BY DEF Waiting, Active, InTask
<1> QED
  BY <1>1, <1>2, <1>3, <1>4, SemaphoreIdle

LEMMA PermitInvariance == Spec => [](JobInv /\ SemInv)
<1>1. Init => SemInv
  <2> SUFFICES ASSUME Init PROVE SemInv
    OBVIOUS
  <2>1. Holders = {} /\ woken = {} /\ Waiting = {} /\ queue = <<>> /\ permits = MaxConcurrent
    BY DEF Init, Holders, Holding, Waiting
  <2>2. PermitsConserved
    BY <2>1, FS_EmptySet, ManagerAssumption DEF PermitsConserved
  <2>3. NoLostWakeUp /\ Distinct(queue) /\ Waiters(queue) = {}
    BY <2>1 DEF NoLostWakeUp, Sleepers, Distinct, Waiters
  <2> QED
    BY <2>1, <2>2, <2>3, ManagerAssumption DEF SemInv
<1>2. JobInv /\ SemInv /\ [Next]_vars => SemInv'
  BY AdmissionKeepsPermits, RunKeepsPermits, ShutdownKeepsPermits DEF Next
<1> QED
  BY <1>1, <1>2, Invariance, PTL DEF Spec

(* Bounded concurrency: no order of ends, wake-ups and cancellations loses *)
(* a permit of the semaphore or makes one more.                            *)
THEOREM PermitsAreConserved == Spec => []PermitsConserved
<1>1. SemInv => PermitsConserved
  BY DEF SemInv
<1> QED
  BY <1>1, PermitInvariance, PTL
=============================================================================
