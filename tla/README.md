# Verification of SEIS-AI

TLA+ models of SEIS-AI, checked by TLC on small instances and, for the properties that matter most,
proved by TLAPS for every value of the constants.

## 1. The system

SEIS-AI analyses Git repositories: a user connects a GitHub repository, the system ingests it (chunks,
embeddings, vectors) and answers questions about it.

    React frontend --HTTP--> Express gateway (MongoDB) --HTTP--> FastAPI AI service --> Redis
                                    ^                                    |         --> Qdrant / Chroma
                                    +------- webhook callbacks ----------+         --> NVIDIA models

| Part (source) | State it keeps | Operations | What is hard |
|---|---|---|---|
| Redis status store (`cache_client.py`, `domain/models.py`) | one JSON record per repository, the active set, the staged terminal callbacks and their delivery set, locks | two Lua scripts (conditional transition, conditional delete), set and callback calls | check and write are atomic only inside a script; lost replies are retried; TTLs |
| Submission and recovery (`repository_processing_service.py`) | none of its own | `submit_ingestion_job`, stale reconciliation, `reconcile_interrupted_jobs`, `flush_pending_callbacks` | a lease lock that may end too early, decisions on a record read earlier |
| Worker (`repository_ingestion_worker_service.py`) | its stage, its heartbeat task | four stages, transitions, heartbeats, failure and cancellation | stalls and is replaced, dies at any point, is cancelled after READY |
| Job manager (`job_manager.py`) | tasks, admission slots, semaphore, `_accepting` | reserve, dispatch, run, queued heartbeat, recovery loop, shutdown | shutdown between any two steps |
| Express callback client (`express_client.py`) | none | `send_status_update` | answers lost, refusals that settle or do not |
| Express ingestion gateway (`webhook.controller.js`, `github.controller.js`, `ingestionPreparation.service.js`, `server.js`) | the Repository document: `activeJobId`, `ingestionStatus`, `lastIngestedCommitSha`, `lastHeartbeatAt` | ingestion request with binding, webhook, watchdog | a callback before the binding, two requests, read-then-update in every handler |
| Vector store (`qdrant_client.py`, `chroma_client.py`) | one collection per repository | upsert, query, delete | a superseded writer, chunks that no longer exist |
| Chunking, metadata, synchroniser (`core/processing`) | none | pure functions | boundaries, stable chunk identity |
| Embedding and its cache (`core/embedding`) | cached vectors by content hash | batches with retries | order of results, partial cache hits |
| Chat and conversations (`repository_chat_service.py`, `conversation_store.py`) | history per conversation in Redis | append_turn, load | two turns at once |
| Retrieval, search, explanation (`core/retrieval`) | none | ranking, fusion, budgets | ties, budgets |
| LLM gateway (`gemini_client.py`, `gemini_gateway.py`) | none | calls with retries | timeouts |
| Evolution and intelligence (`core/evolution`, `core/intelligence`) | none | churn, trends, impact | windows, empty input |
| GitHub synchronisation (`github.controller.js`, `github.service.js`) | repositories, branches, commits, files in MongoDB, written row by row | branches, commits, files, dashboard | two handlers writing the same rows, a failure between two rows |
| Analysis, evolution, dependency graph (`analysisPreparation`, `dependencyAnalyzer`) | analysis records, graph cache in memory | generate, read, compare with the head | unawaited writes, rows of another branch, a cache key older than the fetch |
| Authentication (`auth.controller.js`, `auth.middleware.js`, `AuthContext`, `apiClient`, `LoginPage`) | cookies, localStorage, React state of each tab | GitHub sign-in, confirmation, sign-out | two tabs over one set of cookies |
| Workspaces (`workspace.controller.js`, `workspaceService.js`, three pages) | workspaces and their default repository, twice: MongoDB and localStorage | create, list, choose a default, synchronise | a list read before a change and received after it, a default cached before it is sent |
| Rate limiter (`rateLimiter.middleware.js`) | accepted requests per key | pass or refuse | the boundary of a sliding window |
| Repository pages (`SourceControlPage`, `SoftwareEvolutionPage`, `CommandCenterPage`, `ArchitecturePage`, `FileCodePreviewDrawer`) | one entry per load, caches per branch | effects, cancellation, retries, buttons | answers out of order, a selection changed while its answer is awaited |
| Dependency panel (`DependencyAnalysisPanel`, `moduleGraphAnalytics`) | mode, filter, selection, cycle index | about fifteen controls | state that outlives the graph it was chosen in |
| Activity and hotspots (`activityAnalytics`, `hotspotAnalytics`, their sections) | range, metric, view | figures, chart, explanation | commits on the boundaries of buckets and scores |
| Copilot (`CopilotDrawer`, `CitationDrawer`, the chat proxy) | the conversation shown | ask, stream, second request, retry | a stream that breaks off half way |
| Ingestion wizard, landing pages, layout, e-mail | React state | | |

What makes each of them correct, in a sentence:

* **AI service**: at most one attempt per repository is in flight; an attempt that was replaced changes
  nothing any more; every admitted attempt is settled, as ready or failed, although its process may die;
  its terminal status reaches Express.
* **Gateway**: the document belongs to the newest attempt that was bound; a terminal document is not
  resurrected; what the AI service was told to be delivered shows in the document; no document stays in
  processing.
* **Vector store**: a READY repository holds all chunks of its attempt, each under its own vector.
* **Conversations**: while turns neither overlap nor fail, the newest are kept; nothing
  of an unanswered turn is stored. **Embedding**: the i-th vector is of the i-th text.
* **Job manager**: no more than the configured number of jobs run; each permit and slot is returned once;
  shutdown ends and leaves no task behind.

The hazards, each at its source line and with the properties that cover it, are in `PROJECT.json`.  Some are what
the code does: their note says so, and which property, if any, marks them off.

## 2. Modules

| Module | Contents |
|---|---|
| `StatusStore` | Redis: record, active set, staged callbacks; one operator per check of the transition script, one operator per script call |
| `IngestionService` | the AI service's handlers, tasks and loops around it, shutdown and restart; extends `StatusStore` |
| `AttemptLedger` | abstract specification of the AI service: attempts open once and one at a time, and end |
| `IngestionGateway` | Express and the callbacks on their way, over an instance of `AttemptLedger` |
| `JobManager` | the job manager over all repositories: slots, semaphore, cancellation, shutdown |
| `MCIngestionService`, `MCIngestionGateway`, `MCJobManager` | symmetry sets of the runs |
| `IngestionService_proofs` | inductive invariant of the service, type correctness |
| `IngestionSafety_proofs` | the safety properties of the service |
| `IngestionOutcome_proofs` | every step of the service is a step of the ledger; delivery of the terminal status |
| `JobManager_proofs` | slots, settlements and the end of a shutdown; the semaphore |
| `RepositorySync` | the handlers that fill and read the branch, commit, file and analysis collections and the graph cache, against GitHub |
| `DependencyGraph` | the import parser, resolver and cycle search of the analyzer |
| `DependencyPanel` | the panel that shows a graph |
| `ActivityAnalytics` | the figures of the Command Center, at every half day |
| `RepositoryPages` | the four pages of a repository and the code preview |
| `Workspaces` | workspaces and defaults in the database and in the browser |
| `Session` | sign-in and sessions in several tabs |
| `Copilot` | a conversation with the repository |
| `RateLimiter` | one sliding window limiter |
| `Indexing` | embedding with the shared cache, and the upserts of an ingestion |
| `Conversation` | the stored history of one conversation |
| `Services` | the units of the two services side by side: `DependencyGraph`, `Workspaces`, `RateLimiter`, `Indexing`, `Conversation` |
| `Console` | beside them the units of the browser: `Session`, `DependencyPanel`, `ActivityAnalytics`, `RepositoryPages`, `Copilot` |
| `MCRepositorySync`, `MCConsole` | the instances of the two runs over these |
| `RepositorySync_proofs` | inductive invariant and the properties of the synchronisation |
| `Services_proofs`, `Console_proofs` | inductive invariants and safety properties of the units of the services and of the browser |
| `IngestionGateway_proofs` | inductive invariant and safety properties of the gateway |

### StatusStore and IngestionService

One repository is modelled; repositories share only the admission slots.  The service is one asyncio
process: what runs between two awaits is one action, so the control state of each handler (`sub`, `task`,
`beating`, `rec`) is the await it stands at.  A submission and the attempt it mints have one name.

* `record` is the JSON status record; `Absent` when there is none, `Unreadable` for the empty string that
  a heartbeat without a record writes.  `indexed` is membership of the active set, `staged[j]` the
  callback payload of an attempt.
* The transition script is `Allows` (its checks in the order of the script, one operator each:
  `OwnedBy`, `NotInFlight`, `TerminalKept`, `NoRegression`, `LeaseUnchanged`) and `Commit` (its writes).
  `Admit`, `Move`, `Reconcile`, `Renew`, `Delete`, `Acknowledge` and `Unindex` are the calls.
* `heartbeat_at` is a stamp.  The code compares stamps for equality and against the clock only; so a new
  stamp is one nobody holds (`Now`), and whether the record's lease of ninety seconds is current is the
  Boolean `fresh`, which `StampExpires` may clear at any time.
* A handler: `SubmitLock`, `SubmitRead`, `SubmitReconcile`, `SubmitTell`, `SubmitAck`, `SubmitPersist`,
  `SubmitDispatch`, `SubmitDiscard` are the awaits of `submit_ingestion_job`; `StartWorker`, `Work`,
  `ReportStage`, `ReportReady`, `Fail`, `MarkFailed`, `Tell`, `Ack` those of the task; `BeatRead`,
  `BeatRenew` those of the two heartbeat loops; `Recover...` and `Flush...` those of the recovery loop.
* Redis calls may fail or lose their reply.  A lost reply of the admission script makes the client
  library retry, and the retry is refused by the attempt's own PENDING record.
* `Send` is a callback to Express: accepted and confirmed, accepted with the answer lost, or not accepted.
* `Restart` is a crash or an exit followed by a start; what was in memory is gone.  `ShutDown` is the
  orderly one: admissions end, the recovery loop is cancelled, tasks are cancelled after the grace period.

Decisions that deserve a reason.  `_transition` reads the record and then calls the script; the read only
decides an early return that the script would also take, so both are one action, with the lost-reply
outcome; the submission and the reconciliations, where the value read is used later, keep two.  The
admission slots and the semaphore are a refusal, and a delay, that may happen at any time (`JobManager`
has them in full).  The record's
TTL of six hours may end only when nothing is in progress.  Redis failing inside the recovery loop's own
acknowledgement is modelled as the acknowledgement not happening.

### AttemptLedger and IngestionGateway

`AttemptLedger` is what the rest of the system needs to know of the service: `owner`, `phase` (none, open,
failed, ready) and `used`.  `IngestionService` implements it (run `liveness`, with its liveness; theorem
`StepsAreLedgerSteps`, its steps).  The exception is an orderly shutdown between an admission and its
dispatch: the record is deleted, and an older worker that was already replaced then finds no record and
writes its own.  `MayShutDown = FALSE` excludes it.

`IngestionGateway` uses the ledger in place of the service.  Attempts are numbers in the order of
admission.  `doc` is the MongoDB document (`fresh`: its heartbeat is less than five minutes old);
`request[r]` is an ingestion request, where it stands and the document it read at its start (`seen`);
`callback[j][kind]` is a callback on its way, or in the webhook between its read (`ReceiveCallback`) and its
conditional update (`UpdateDocument`).  The awaits of `makeIngestRepository` are `StartRequest`, `Submit`,
`Bind`, `Answer`, `NothingToIngest`; `AbandonRequest` is every refusal, exception and lost process.
`Watchdog` is `cleanupStuckIngestions`.  The AI service repeats the terminal callback of `staged[j]` until
it is confirmed or the attempt has lost the record.

### JobManager

Where `IngestionService` looks at one repository, `JobManager` looks at the jobs of all: `admitted` is
`_admitted_jobs`, `job[j]` where the job's submission or task stands, `closing` where `shutdown` stands.
The semaphore is modelled after asyncio's (Python 3.13, external): `queue` its waiters, `woken` those that
were handed a permit and have not run since, `cancelled` the tasks whose cancellation is pending and strikes
at their next step.  The awaits of `_run_job` are `Acquire`, `Begin` (the queued heartbeat has ended; the
only place where the job decides to run, and where its own cancellation is suppressed with the
heartbeat's), `LeaveSemaphore`, `EndSettling`, `TaskDone`, and one `Cancel...` action for each place a
cancellation may strike.  `shutdown` waits for the recovery loop, gives tasks the grace period, cancels
them, and after five seconds cancels them once more, since `wait_for` cancels the `gather` it waits for;
it returns when all have ended.  A task takes its first step in the action that creates it: nothing
cancels it before, the grace period being at least half a second.

### RepositorySync

A request is a handler that stands at an await (`req[r].pc`), with what it read (`branch`, `sha`), the rows
it still has to write (`todo`) and, for an analysis, its document.  Nine kinds: branches, commits, files,
content, dashboard, the stored analysis, a new one, evolution, dependency graph.  Each begins with its
branch row or with `resolveOrSyncDefaultBranch`, and then shares the stages: list of commits, enrichment of a
page, one upsert per commit; tree, one upsert per file; `ensureCommitsSynced`, `enrichCommitsWithFileChanges`,
submission; cache look-up, tree, parsing.  GitHub is `history`: `Push` and `FastForward` (a merge or a new
branch) may happen between any two steps, and every call may fail.  A commit row has one branch, although
the commit may be on several: `Written` moves it.  The unawaited write of an enrichment is `unsaved` and
lands later, or never if Express restarts.  `SourceControlKeepsStats` is about what a page of Source Control
carries from its reading to its writing (`CarriedStats`); the zeros that `ensureCommitsSynced` stores are a
known loss and a hazard of the list.  That an analysis sees all of a branch is promised nowhere and false:
`EvidenceIsOfTheBranch` says only that what it sees is of its branch.

### DependencyGraph and DependencyPanel

`DependencyGraph` parses the imports of every file (a line is a set of the patterns it would match, and the
first pattern wins), resolves them against the candidates in the order of the code, and runs the
depth-first search with one action per branch of `dfs` (`Descend`, `BackEdge`, `SkipVisited`, `Return`), the
order of files and imports being free.  The comment at `dependencyAnalyzer.service.js:199` says that all
cycles are found; a file is entered once, so a cycle through a file already left is missed.  What holds, and
what the panel needs, is `EveryTangleReported`.  `DependencyPanel` takes any graph as answer and models what
each canvas draws, since only what is drawn can be clicked.

### RepositoryPages

The pages are written alike: an effect per load that runs when one of its inputs changes, cancels the
request of its last run (`let cancelled`) and asks again.  `Render` is a React commit: the effects whose
inputs changed run, then those whose inputs these changed.  `LoadsOf`, `Ready`, `Inputs`, `Starts` and
`Clears` are the dependency arrays, early returns and resets of the effects; `Cached` marks the two loads of
Source Control that are kept per branch and guarded by a ref.  `calls` are requests whose answer somebody
waits for; they land in any order and may fail (`Land`).  Requests of buttons carry `by = "button"` and are
never cancelled (`Press`).  One operator per section of a page says which loads it shows and in which states
(`Loaded`, `Kept`); `Shows` is what is on the screen.

### ActivityAnalytics

Instants are half days.  `Bucket` to `Peak` are `calculateActivityAnalytics`, `Figure`, `Value`, `Headline` and
`MaxY` the chart over it, `Window` to `Listed` `calculateHotspotAnalytics`.  The figures are those of the
instant at which React last computed them (`asOf`, `spotsAsOf`); time passes beside them.

### Session, Workspaces, Copilot, RateLimiter

`Session`: cookies and localStorage are shared by the tabs, everything else is per tab.  A sign-in is a flow
with its OAuth state; `Connect` overwrites the state and the preference cookie of a flow begun in another
tab, `CallbackSucceeds` needs both to agree.  `Dies` is the expiry of a token or the deletion of its user.

`Workspaces`: what MongoDB holds, what localStorage holds, and the calls between them.  A synchronisation has
chosen its workspace when it starts (`SyncStart`) and stores one repository per step (`SyncStore`); a list of
workspaces is read (`Serve`) and received (`Receive`) in two steps; a default is cached before it is sent and
`Patch` saves the repository before the workspace.  That the service clears a default when it is sent null
(`workspace.controller.js` 110-112) is left out: no page sends it.

`Copilot`: an answer is a sequence of parts, so that a stream that stops half way differs from a whole
answer.  The frames change the reply and the end of the stream ends the submission, in two steps: `Done` or
`ErrorFrame` finishes the reply, `StreamEnds` what was awaited.  A stream may be refused, break or stall
before, between or after (`StreamFails`, `StreamStalls`); when it breaks, the question is asked again without
a stream and the answer is written over the reply, whatever that shows by then.  The drawer has a handler for
error frames, so they are modelled, although the AI service of this repository sends none.  Three things the
code does follow, and no property excludes them: a stream torn between the `done` frame and its end replaces a
finished reply by another answer or by an error; an answer that follows an error frame is shown as an error;
and when the generation of the AI service itself breaks, its whole answer comes after the tokens already sent.

`RateLimiter`: `hits` is the map of the code, `passed` the history of what it let through.

### Indexing, Conversation

`Indexing` opens the stages EMBEDDING and INDEXING of a worker: an attempt (`pc`) looks its texts up in the
cache (`found`, text to vector), asks the model for the missing ones in batches whose answers come in any order
(`answers`, chunk to vector),
leaves its SETs on their way to Redis (`sets`) and upserts its points.  A vector is named by the text it was
made for, so that a vector under another text is visible.  `Fails` is every error, which ends the attempt
while its SETs still land; the retry of Qdrant starts over with the first batch.

`Conversation`: a turn loads the history, answers, and in `append_turn` loads the record again and stores it
whole (`LoadRecord`, `Store`).  The history variable `spoilt` says that an append overlapped another or
failed, or the record expired; the code then loses turns, and its docstring accepts that.

`Services` puts the five units that run in the services side by side, and `Console` adds the five of the
browser: the initial state picks one, the others stand still.  They do not interact but through HTTP, whose
answers each model leaves free; their product would show nothing more.

## 3. Runs

| Run | What it shows | Instance | Distinct states |
|---|---|---|---|
| `workers` | ledger steps, no displacement, monotone progress, no reconciliation of a living attempt | 2 attempts, 2 stages, 1 process | 0.8 million |
| `restarts` | terminal status kept until told, no take-back, READY final, only the sweep unindexes | 2 attempts, 1 stage, orderly shutdown, 1 restart | 2.4 million |
| `liveness` | orphans are settled, staged callbacks are flushed, the ledger is implemented | 1 attempt, 2 stages, 2 restarts | 14 thousand |
| `gateway_safety` | attempt fencing, no resurrection, delivered is applied | 2 requests, 2 attempts, 2 callbacks in flight | 1.3 million |
| `gateway_liveness` | a document leaves processing | 1 request, 1 attempt | 4 thousand |
| `job_manager` | permits and slots are conserved, no job vanishes, shutdown ends and leaves no task, waiters are served | 4 jobs, 3 slots, 2 permits | 141 thousand |
| `sync_safety` | evidence, graphs, commits and statistics are of the branch or commit they are filed under | 2 handlers, 2 branches, 2 commits, 2 analyses | 2.0 million |
| `console` | the thirteen properties of ten modules that share no state | see below | 0.6 million |
| `terminal_never_lost` | violated: the acknowledgement of one callback deletes another | 2 attempts | |
| `ready_owns_vectors` | violated: a superseded worker upserts after the newer attempt is READY | 2 attempts | |
| `no_lost_completion` | violated: a completion before the binding is confirmed and dropped | 2 attempts | |
| `selection_stays_loading` | violated: a filter changed and changed back before the first answer stays in loading | Source Control, 1 branch and the filter all | |

**Why the bounds are enough.**  The hazards of ownership need an old and a new attempt of one repository;
a third one relates to the second as the second to the first.  One stage can already be interrupted
before, in and after it; two add the order between stages (the code has four, which differ in name only).
Four stamps are one more than can be held at once with two attempts (two submissions and the recovery
loop hold one each), three suffice for one.  One restart between any two steps with two attempts, and
two restarts with one, so that recovery itself is interrupted.  Two callbacks in flight, for each attempt
and of each status, are enough for each to be judged before and applied after the other or a binding.
For the job manager: four jobs, so that one is refused, two run and one waits, and a newcomer
finds a permit free while a waiter is still to wake up.  For `sync_safety`: two handlers, since each property
relates what one read to what one other wrote, in the pairs of kinds (`SyncCasts`) that use the same rows;
two branches that may share one of two commits.  For
`console`: four files with eight possible contents give all shapes of a search over three nodes and a
leaf; the panel gets graphs with one cycle, two, and none; commits at half days 0, 18, 142 and 172, with
the page open from 172 to 173, fall on, just inside and just outside the edges of the buckets of each
range and of the recency steps; the pages get two repositories, two branches and two files, the preview
on one page only (it is the same component everywhere); two workspaces, one repository, one list, one
synchronisation and one default in flight; three questions of two tokens with each class of status; two
keys and a window of two instants; two tabs and two sign-ins; two commits that share a
text, one of which has it twice, with batches of two, so that one batch is full and one is not; three
turns of a conversation that keeps three messages, an odd bound that cuts a turn, and one failure.
Symmetry is used in the safety runs only; gateway attempts are ordered and are never permuted.
The runs `workers` and `restarts` have a view without `vectors`, and `workers` without `told`: no guard
reads these two variables, nor do the properties of these runs.

Deadlock is not checked where a run may stop: all attempts used up and the service idle is the normal end of an instance.

**Fairness.**  In `IngestionService`: the event loop runs what is ready and every awaited call has a
timeout, so an admitted submission, a task and the recovery loop do not stop between two steps (weak
fairness of each); time passes for an orphan's lease and a record nobody writes.  A flushed callback is
accepted if it is tried again and again (strong fairness; `ExpressReachable`): an outage ends before the
callback's 24 hours do.  Nothing makes clients submit, processes exit, or living leases end.  In
`IngestionGateway`: the AI service settles what is open (as the ledger promises), handlers run, the
watchdog is periodic and five minutes pass; users need not ask, callbacks need not arrive.  In `RepositoryPages`
(the violated run only): the browser answers or fails every request.  In
`JobManager`: every step but the end of a worker happens, and the phases of a shutdown that was begun time
out; `ShutdownEnds` needs no more, `WaitersAreServed` states its premise that workers end (their calls have
timeouts).

**Findings.**  The four violated properties are recorded in `PROJECT.json` with the line of the code and
the sentence of the repository they contradict.  More observations have no run: a worker writing
over the absence of a record after a shutdown discarded it (above); a heartbeat without a record writes an
empty string (`cache_client.py:131`), modelled as `Unreadable`; the sweep removes from the active set
an attempt admitted after its read (`repository_processing_service.py:325`), which `MissingOnlyBySweep`
delimits; a request that was overtaken while it fetched files is told of a "newer" attempt that is older
(`github.controller.js:1435`), and a completion before the binding leaves the commit unknown
(`github.controller.js:1429`); after a lost binding the
callbacks of the running attempt are refused with 409 until their staging expires (`webhook.controller.js:97`);
a read that fails in `append_turn` erases the history with the next write (`conversation_store.py:137`), and
an odd `conversation_history_max_messages` keeps an answer without its question; the id of a chunk holds its
commit (`chunker.py:49`) and an ingestion deletes nothing, so the chunks of earlier commits stay searchable;
the label "vs previous N days" (`activityAnalytics.js:143`) is of the earlier
half of the same range; the cycle search misses cycles (above); a pointer leaving the canvas deselects
although the comment at `DependencyAnalysisPanel.jsx:145` speaks of a click.

## 4. Proofs

The theorems hold for any number of attempts, stages, starts, stamps, requests, commits, callbacks, jobs,
branches, files and so on.  They rest on the named assumptions of the modules, which TLC evaluates in the runs:
no attempt is `NoJob` (`JobsAssumption`); there is always a stamp nobody holds (`StampsAssumption`); bounds
and limits are positive (`ServiceAssumption`, `GatewayAssumption`, `ManagerAssumption`, `HistoryAssumption`:
the settings are validated when the service starts) or natural numbers (`LimiterAssumption`); jobs are
finitely many (`ManagerAssumption`, since permits are counted); batches are not empty and every attempt is of a
commit with a sequence of texts (`IndexingAssumption`); the branch that stands for the default is one of the
branches (`PagesAssumption`); what stands for nothing is no value (`SyncConstants`, `NoneIsNothing`,
`WorkspacesAssumption`, `IndexingAssumption`); the cycles of a graph the
panel gets are cycles of its own edges (`GraphsAssumption`), which `ReportedCyclesAreReal` proves of the
analyser that sends them; and commits are finitely many, of finitely many files, each with two numbers of lines or
none (`ActivityAssumption`).

* **Service.**  `IInv == TypeInv /\ AttemptInv /\ ReadyInv /\ StageInv /\ LeaseInv` (lemma `Invariance`).
  The properties are not inductive alone: what a delayed step may write depends on who still works for
  which attempt.  `AttemptInv` says that whoever works on an attempt works on one that was opened;
  `ReadyInv` ties a task that reported READY to its record; `StageInv` orders a task's stage and the
  record's; `LeaseInv` says that whoever is about to reconcile the record on the stamp it carries does so
  after its lease has run out.  Lemma `StoreSteps` reduces every action to the one script call it makes; each theorem is then a
  case split over calls.  Theorems: `TypeCorrect`, `NotDisplaced`, `NeverTakenBack`, `ReadyNeverChanged`,
  `NeverGoesBack`, `LivingKept`, `OnlySweepUnindexes`.
* **Service implements ledger.**  `StepsAreLedgerSteps`, for `MayShutDown = FALSE`, from `QuietInv`: nothing
  is discarded, and while there is no record nobody works on an attempt.
* **Delivery.**  `DeliveryIsDurable`, with and without orderly shutdowns.  The proof looks at one attempt at a
  time: `Effects` says what a step may do to its record, its staged callback, what Express was told and the
  three kinds of process that deliver, and one lemma per kind of process shows that its actions do no
  more.  In `DeliveryInv`, `DoneInv` says that a settled attempt has nothing left to report, unless it was
  reconciled, and `AgreeInv` that whoever still delivers its status, its own task or the flush, delivers the
  one in the record.  The attempt to prove an earlier form of the property, which set a reconciled attempt
  apart only while its record says READY, found it false for three attempts and an orderly shutdown: Express
  was told READY and the record says failed.  `Corrected` therefore looks at both; two attempts, as in the
  run, do not tell the forms apart.
* **Gateway.**  `GInv == TypeInv /\ KnownInv /\ BindInv /\ ToldInv /\ TargetInv`: whatever names an attempt names
  an admitted one; a request about to bind saw an older owner than its attempt; a confirmed attempt is not
  newer than the document's owner; a terminal callback writes a terminal status.  Theorems:
  `GatewayTypes`, `DeliveredStays`, `AttemptFencing`, `NoResurrection`.
* **Job manager.**  `JobInv` adds to the three properties proved the types they need and, for settlements,
  that every state past the decision to run is accounted for.  Theorems: `SlotsAreReturned`,
  `ShutdownIsLast`, `EveryJobSettled`.
* **Semaphore.**  `SemInv` adds to the conservation of permits that nobody sleeps while a permit is free and no
  woken waiter is about to run (`NoLostWakeUp`, asyncio's part), that the queue is without repetition and holds
  exactly the waiting jobs, and that only waiters are woken.  The heart is `WakeUp`, which hands the free permits to the
  first sleepers of the queue: that there is such a set of them (`Foremost`) is shown by the least number
  principle on a set of positions, and that each is one permit less by counting both sides.  Theorem:
  `PermitsAreConserved`.
* **Synchronisation.**  `SyncInv`.  Each property relates what one handler read to what others wrote since, so
  `HandlerInv` says of every stage what a handler still carries: commits of the history of its branch, rows it
  may write, the document it will fill in and that document's branch.  It survives the steps of the others
  because histories and documents only grow.  Theorems: `SyncTypes`, `EvidenceStaysOnItsBranch`,
  `GraphsMatchTheirKeys`, `CommitsStayOnTheirBranch`, `StatsSurviveStaleReads`.
* **Services and browser.**  The units share no variable, so a step is a step of one unit or leaves it alone,
  and each invariant below is proved over the actions of its unit.  The theorems of `Services_proofs` are about
  `ServicesSpec`; `ServicesBesideTheBrowser` carries them to `ConsoleSpec`, which the run checks.
* **Session.**  The invariant ties the preference of a flow to the state it travels with: the preference cookie
  is that of the flow whose state is in the state cookie, so a callback whose state matches reads its own.
  Theorem: `SessionsLastAsAsked`.
* **Cycle search.**  `GraphInv`: the stack is a path of imports that meets no file twice (`StackInv`), which makes
  every cycle cut from it real (`ReportedCyclesAreReal`).  That no tangle is missed needs more, since the
  search enters a file once: what a file on the path has looked at was left, lies next on the path, or the
  file's tangle shows (`PathInv`); and the files that were left are numbered in the order they were left, so
  that one whose tangle does not show imports only files with smaller numbers (`RankInv`).  Such a file cannot
  reach itself, by the same principle: of all files it reaches one has the least number (`TanglesAreReported`).
* **Panel.**  `ChoicesAreDrawn`: a chosen cycle survives the filter and the mode it is drawn in.
* **Pages.**  `PagesInv == Filed /\ Settled`.  Most loads have an entry per selection: `Filed` says that what is
  in it, and what is on its way to it, was asked for that selection.  The drawer's have one entry while the
  selection changes beside it: `Settled` says that the file in it, and every request for a file still waited
  for, is of the file selected now, which needs that the effect for the new file cancels the request for the
  old one.  A commit runs effects twice, so the lemmas are about `Run` with any set of effects (`RunIs`,
  `RunFiles`), and `RenderKeeps` uses them for both.  Theorem: `PagesShowTheSelection`.
* **Copilot.**  `ChatInv`, whose part `Orderly` says: identifiers are used once; a question has one reply; no
  reply but the awaited one streams; and only a failed reply can be asked for again.  The awaited reply streams
  while frames may come and not after the last (`Awaited`); in the fallback it may be either, which is why the
  phase of the submission is part of the invariant.  The lemmas `AppendAdds`, `RemoveTakes` and `WriteReplaces`
  say what each operation on the list does to the set of messages, and `StepsSpare` from them what a step leaves.
  Theorems: `EveryQuestionIsAnswered`, and `FinishedStay`, that a finished message is touched by a retry of it and
  by the second request of its own submission only.
* **Figures.**  Every figure is computed from the commits, the range and an instant, so `ActivityInv` only gives
  their types; the work is in the sums and the maxima.  A sum is the community fold, a recursive function on the
  subsets of a set, whose value on any finite set needs induction.  `SetInduction` states it with a set where the
  library has an operator, and follows from the least size of a set that fails (`LeastNumberOf`).  From it: the
  recursion is defined (`SumExists`), its order does not matter (`SumWithout`), disjoint sets add up
  (`SumOfBoth`), a sum of naturals is no less than any of them (`SumOfNaturals`), and a finite set of integers
  has a largest and a smallest (`Largest`, `Smallest`).  `FirstBuckets` then adds one bucket after another up to
  the range, which makes the headline the sum of the points; a directory's commits include its files', which
  makes its latest no earlier (`LaterOfMore`); and a share of 25 is at most 25 because it is of the largest
  (`ShareOf25`).  Theorems: `EveryCommitIsCounted`, `DirectoriesCoverTheirFiles`.
* **Workspaces.**  `SpacesInv` says that whatever a page, the browser, a list on its way or a synchronisation
  names is a workspace or none, without which a repository could be stored under a name that is none.
  Theorem: `NoRepositoryIsOrphaned`.
* **Rate limiter.**  Whatever passed within the window is still among the hits, of which there are at most
  `max`.  Theorem: `WindowIsKept`.
* **Indexing.**  `IndexInv`: whatever is found, answered, on its way to the cache, cached or stored is the
  vector of its own text; an attempt that caches has every vector it asked for, one that stores has one for
  every text, and the points before `upserted` are there.  That the later of two chunks with one text counts
  needs one that is the latest (`GreatestOf`).  A point is overwritten only by an attempt of its commit, with
  the vector it has.  Theorem: `TextsGetTheirVectors`.
* **Conversation.**  Lemma `NewestOfNewest`: to append to the newest messages and keep the newest of that is to
  keep the newest of all.  Lemmas `WholeGrows` and `NewestIsWhole`: whole turns stay whole when a turn that is
  not among them is appended, and when the oldest message is dropped.  `TalkInv`: every record a turn holds is
  made of appended turns that are over; while nothing is spoilt, the one turn about to store holds the record as
  it is.  Theorem: `NewestTurnsAreKept`.

TLC finds no violation of the strengthenings on the instances of the runs either.

Only model-checked: the liveness properties (`OrphansAreSettled`, `StagedIsFlushed`, `ImplementsLedger`,
`ProcessingEnds`, `ShutdownEnds`, `WaitersAreServed`), which rest on fairness and `ENABLED`, out of the
prover's reach.

## 5. Plan

In this order; the first nine are done, but for what they name as left.

1. `StatusStore`, `IngestionService`: store and service, the core of the system, with proofs.
2. `AttemptLedger`: its promise, and the refinement.
3. `IngestionGateway`: Express on top of the promise, with proofs.
4. The violated expectations above, each as a run of its own.
5. `JobManager`: admission slots, semaphore, cancellation, shutdown, with proofs.
6. `RepositorySync` and `DependencyGraph`: what Express stores of GitHub and computes from it.
7. The console: pages, panel, figures, workspaces, sessions, Copilot, rate limiter; first proofs.
8. `Conversation`: two turns at once.  Left: retrieval and the prompt's budgets.
9. `Indexing`: embedding, its cache and the upserts, against "the i-th vector is of the i-th text".  Left:
   creation of collections, deletions, queries.
10. Pure algorithms of the AI service against reference definitions: chunk windows, synchroniser diff, rank
   fusion, churn and trend windows.
11. Proofs.  Done: every safety property of the passing runs, and that the service implements its ledger.
   Left: liveness, which stays with TLC.

## 6. Not modelled

HTTP routes, schemas, settings, logging, the UI's layout: validation and wiring without state.  The
ingestion wizard (`AiIngestionWizardModal.jsx`) only polls: after forty polls it shows completed whatever the
status is, and a refused request is not polled at all.  The summary e-mail is not awaited and its failure
only logged.  `EngineeringHotspotsSection`, `HotspotsSection`, `AiInsightsPanel`, `ArchitectureSection`,
`ActivitySection`, `TechStackStrip`, `CyberBackground` and `Login.jsx` are imported by no page; of them the
first is modelled with its figures.  The refresh of a token is asked for by no page.  The
superseded task queue (`tasks/`, `infra/queue/`) is not called.  MongoDB, Redis, Qdrant, uvicorn and the
NVIDIA models are external: the first two appear through the calls the code makes.  Express's heartbeats
from the AI service appear in `IngestionGateway` only.  Expiry of a staged callback after 24 hours is not
modelled; the fairness above excludes it.
`PROJECT.json` lists every part with its status.
