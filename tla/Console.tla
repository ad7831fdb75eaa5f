------------------------------- MODULE Console -------------------------------
(***************************************************************************)
(* Parts of the browser that share no state, beside those of the services: *)
(* each is a unit on an instance of its own, and the one that runs is      *)
(* chosen in the initial state.                                            *)
(***************************************************************************)
EXTENDS Services

CONSTANTS Tabs, Flows,                                        \* Session
          Graphs, Dir,                                        \* DependencyPanel
          Universe, Insights, PageStart, PageEnd,             \* ActivityAnalytics
          PageKinds, PageRepos, PageBranches,                 \* RepositoryPages
          Default, Paths, PreviewOn,
          MaxRequests, MaxTokens, Statuses                    \* Copilot

ASSUME NoneIsNothing == None \notin Flows \cup BOOLEAN

\* The cycles of a graph are cycles of its own edges, among its nodes (see
\* CyclesAreReal of Services; whatever imports is code, and so a node).
ASSUME GraphsAssumption ==
  \A g \in Graphs : \A i \in DOMAIN g.cycles : \A j \in 1..(Len(g.cycles[i]) - 1) :
    <<g.cycles[i][j], g.cycles[i][j + 1]>> \in g.edges \cap (g.files \X g.files)

\* Commits are finitely many, of finitely many files each, with the statistics
\* of GitHub: two numbers of lines, or none.
ASSUME ActivityAssumption ==
  /\ IsFiniteSet(Universe) /\ {PageStart, PageEnd} \subseteq Int
  /\ \A c \in Universe : /\ c.at \in Int /\ IsFiniteSet(c.files)
                         /\ \A f \in c.files : Insights[f] \in Nat
                         /\ c.adds \in Nat \cup {-1} /\ c.dels \in Int
                         /\ c.adds >= 0 => c.dels \in Nat

\* The branch that stands for all of them is one of the branches.
ASSUME PagesAssumption == Default \in PageBranches

VARIABLES asked, cookies, tokens, dead, local, tab,
          graph, status, mode, filter, selected, cycle, fullView,
          commits, now, asOf, spotsAsOf, range, metric, view, explained,
          ui, calls,
          open, messages, requests, call, cited
------------------------------------------------------------------------------
Auth == INSTANCE Session
Panel == INSTANCE DependencyPanel
Activity == INSTANCE ActivityAnalytics WITH Start <- PageStart, End <- PageEnd
Pages == INSTANCE RepositoryPages
           WITH Pages <- PageKinds, Repos <- PageRepos, Names <- PageBranches
Chat == INSTANCE Copilot

sessionVars == <<asked, cookies, tokens, dead, local, tab>>
panelVars == <<graph, status, mode, filter, selected, cycle, fullView>>
activityVars == <<commits, now, asOf, spotsAsOf, range, metric, view, explained>>
pagesVars == <<ui, calls>>
chatVars == <<open, messages, requests, call, cited>>
consoleVars == <<servicesVars, sessionVars, panelVars, activityVars, pagesVars, chatVars>>

ConsoleInit ==
  /\ unit \in {"graph", "spaces", "limiter", "index", "talk",
              "session", "panel", "activity", "pages", "chat"}
  /\ ServicesInit
  /\ Auth!Init /\ Panel!Init /\ Activity!Init /\ Chat!Init
  /\ Pages!Init /\ (unit # "pages" => ui.page = "source-control" /\ ui.repo = None)

ConsoleNext ==
  \/ /\ ServicesNext
     /\ UNCHANGED <<sessionVars, panelVars, activityVars, pagesVars, chatVars>>
  \/ /\ unit = "session" /\ Auth!Next
     /\ UNCHANGED <<servicesVars, panelVars, activityVars, pagesVars, chatVars>>
  \/ /\ unit = "panel" /\ Panel!Next
     /\ UNCHANGED <<servicesVars, sessionVars, activityVars, pagesVars, chatVars>>
  \/ /\ unit = "activity" /\ Activity!Next
     /\ UNCHANGED <<servicesVars, sessionVars, panelVars, pagesVars, chatVars>>
  \/ /\ unit = "pages" /\ Pages!Next
     /\ UNCHANGED <<servicesVars, sessionVars, panelVars, activityVars, chatVars>>
  \/ /\ unit = "chat" /\ Chat!Next
     /\ UNCHANGED <<servicesVars, sessionVars, panelVars, activityVars, pagesVars>>

ConsoleSpec == ConsoleInit /\ [][ConsoleNext]_consoleVars
------------------------------------------------------------------------------
(* The properties of the units, which hold of the unit at rest as well.      *)

\* Session: a session lasts as its own sign-in asked for.
StayIsOfItsFlow == Auth!StayIsOfItsFlow
\* DependencyPanel: a cycle that is chosen is drawn.
ChosenCycleIsDrawn == Panel!ChosenCycleIsDrawn
\* ActivityAnalytics: a commit is counted once, whatever the boundaries.
EveryCommitInOneBucket == unit = "activity" => Activity!EveryCommitInOneBucket
\* ActivityAnalytics: a directory is as recent and as marked as its files.
DirectoryCoversItsFiles == unit = "activity" => Activity!DirectoryCoversItsFiles
\* RepositoryPages: what is shown as loaded is of what is selected.
ShownIsOfSelection == unit = "pages" => Pages!ShownIsOfSelection
\* Copilot: one reply to every question, whole if it was asked for again.
EveryQuestionHasOneReply == unit = "chat" => Chat!EveryQuestionHasOneReply
\* Copilot: a finished reply is written over only by its own submission.
FinishedRepliesStay == Chat!FinishedRepliesStay
==============================================================================
