------------------------------- MODULE Services -------------------------------
(***************************************************************************)
(* Parts of the two services that share no state, each on an instance of   *)
(* its own: one unit runs, the others stand still, so that their state     *)
(* spaces add up instead of multiplying.  Console chooses the unit.        *)
(***************************************************************************)
EXTENDS Integers, Sequences, FiniteSets

CONSTANTS None,
          Files, Sources,                                     \* DependencyGraph
          WorkspaceNames, AccountRepos,                       \* Workspaces
          MaxLists, MaxSyncs, MaxPatches,
          Keys, windowMs, max, ClockEnd,                      \* RateLimiter
          Attempts, CommitOf, Texts, batch_size,              \* Indexing
          qdrant_upsert_batch_size, MaxTries,
          Turns, conversation_history_max_messages,           \* Conversation
          MaxFailures

\* What stands for no workspace and for no row is no workspace.
ASSUME WorkspacesAssumption == {None, "unknown"} \cap WorkspaceNames = {}

\* Settings that are validated when the AI service starts (gt=0).
ASSUME HistoryAssumption == conversation_history_max_messages \in Nat \ {0}

ASSUME LimiterAssumption == windowMs \in Nat /\ max \in Nat

VARIABLES unit,
          source, edges, stack, visited, cycles, phase, report,
          owned, default, home, syncs, active, cached, page, lists, patches,
          clock, hits, passed, wait,
          cache, sets, attempt, points,
          stored, turn, answered, spoilt, failures
------------------------------------------------------------------------------
Graph == INSTANCE DependencyGraph
Spaces == INSTANCE Workspaces WITH Names <- WorkspaceNames, Repos <- AccountRepos
Limiter == INSTANCE RateLimiter WITH now <- clock, End <- ClockEnd
Index == INSTANCE Indexing
Talk == INSTANCE Conversation

\* An attempt embeds the chunks of a commit, and no text stands for none; the
\* sizes of the batches are settings and defaults above 0.
ASSUME IndexingAssumption ==
  /\ CommitOf \in [Attempts -> DOMAIN Texts]
  /\ \A c \in DOMAIN Texts : Texts[c] \in Seq(Index!Hashes)
  /\ None \notin Index!Hashes
  /\ {batch_size, qdrant_upsert_batch_size} \subseteq Nat \ {0}

graphVars == <<source, edges, stack, visited, cycles, phase, report>>
spacesVars == <<owned, default, home, syncs, active, cached, page, lists, patches>>
limiterVars == <<clock, hits, passed, wait>>
indexVars == <<cache, sets, attempt, points>>
talkVars == <<stored, turn, answered, spoilt, failures>>
servicesVars == <<unit, graphVars, spacesVars, limiterVars, indexVars, talkVars>>

ServicesInit ==
  /\ Spaces!Init /\ Limiter!Init /\ Index!Init /\ Talk!Init
  /\ Graph!Init /\ (unit # "graph" => source = [f \in Files |-> {}])

ServicesNext ==
  /\ unit' = unit
  /\ \/ /\ unit = "graph" /\ Graph!Next
        /\ UNCHANGED <<spacesVars, limiterVars, indexVars, talkVars>>
     \/ /\ unit = "spaces" /\ Spaces!Next
        /\ UNCHANGED <<graphVars, limiterVars, indexVars, talkVars>>
     \/ /\ unit = "limiter" /\ Limiter!Next
        /\ UNCHANGED <<graphVars, spacesVars, indexVars, talkVars>>
     \/ /\ unit = "index" /\ Index!Next
        /\ UNCHANGED <<graphVars, spacesVars, limiterVars, talkVars>>
     \/ /\ unit = "talk" /\ Talk!Next
        /\ UNCHANGED <<graphVars, spacesVars, limiterVars, indexVars>>

ServicesSpec == ServicesInit /\ [][ServicesNext]_servicesVars
------------------------------------------------------------------------------
(* The properties of the units, which hold of the unit at rest as well.      *)

\* DependencyGraph: a reported cycle is a cycle of imports.
CyclesAreReal == unit = "graph" => Graph!CyclesAreReal
\* DependencyGraph: every tangle of imports shows in some reported cycle.
EveryTangleReported == unit = "graph" => Graph!EveryTangleReported
\* Workspaces: no synchronisation takes a repository out of every workspace.
NeverOrphaned == Spaces!NeverOrphaned
\* RateLimiter: no window lets more than the maximum through.
WindowNeverExceeded == unit = "limiter" => Limiter!WindowNeverExceeded
\* Indexing: every text is stored with its own vector, and all of a commit.
EveryTextHasItsVector == unit = "index" => Index!EveryTextHasItsVector
\* Conversation: the record keeps the newest turns, whole.
HistoryKeepsTheNewest == unit = "talk" => Talk!HistoryKeepsTheNewest
==============================================================================
