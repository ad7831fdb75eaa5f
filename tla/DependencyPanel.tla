-------------------------- MODULE DependencyPanel --------------------------
(***************************************************************************)
(* The dependency graph of the Architecture page: what its three canvases  *)
(* draw from a graph, and what a click, a key or a new graph does to the   *)
(* state of the panel.  A click is possible only on what is drawn, so the  *)
(* drawing is part of the guards.                                          *)
(*                                                                         *)
(* A graph is [files, edges, cycles], as the analyzer answers it; cycles   *)
(* is a sequence of closed paths.  An edge may end at a file of the branch *)
(* that is not code and so is no node.  Left out: zoom, pan, hovering, the *)
(* sidebar and expandedModules, which decide only sizes and shades.        *)
(***************************************************************************)
EXTENDS Naturals, Sequences, FiniteSets, SequencesExt

CONSTANTS Graphs,      \* the graphs an answer may carry
          Dir          \* path -> its directory

VARIABLES graph,         \* dependencyData
          status,        \* dependencyStatus
          mode,          \* viewMode
          filter,        \* edgeFilter
          selected,      \* selectedNodeId
          cycle,         \* selectedCycleIndex, 0 for null
          fullView

vars == <<graph, status, mode, filter, selected, cycle, fullView>>

NoNode == "none"
NoGraph == [files |-> {}, edges |-> {}, cycles |-> <<>>]
------------------------------------------------------------------------------
(* What is drawn.                                                          *)

Modules == {Dir[f] : f \in graph.files}

ModuleEdges == {<<Dir[e[1]], Dir[e[2]]>> :
                  e \in {x \in graph.edges : Dir[x[1]] # Dir[x[2]]}}

\* The overview puts the connected modules in the columns of their tiers and,
\* on demand of the canvas's own switch, the isolated ones in a tray.
Connected(m) == \E e \in ModuleEdges : m \in {e[1], e[2]}
ModuleCards(showIsolated) == {m \in Modules : Connected(m) \/ showIsolated}

\* The edges of the chosen cycle; none when this graph has no such index.
CycleHighlight(i) ==
  IF i \notin DOMAIN graph.cycles THEN {}
  ELSE LET c == graph.cycles[i] IN {<<c[j], c[j + 1]>> : j \in 1..(Len(c) - 1)}

\* Files: every node, and the edges the filter leaves ("internal" leaves all).
VisibleEdges ==
  LET chosen == CASE filter = "circular" -> CycleHighlight(cycle)
                  [] filter = "selected" /\ selected # NoNode ->
                       {e \in graph.edges : selected \in {e[1], e[2]}}
                  [] OTHER -> graph.edges
  IN chosen \cap graph.edges \cap (graph.files \X graph.files)

\* Focus: one hop around the selected file; nothing when a module is selected.
FocusGraph ==
  IF selected \notin graph.files THEN {}
  ELSE {n \in graph.files : <<n, selected>> \in graph.edges
                            \/ <<selected, n>> \in graph.edges}

Drawn == CASE mode = "overview" -> UNION {ModuleCards(b) : b \in BOOLEAN}
           [] mode = "files" -> graph.files
           [] OTHER -> FocusGraph

\* The details panel lists the imports and dependents of a selected file,
\* those that are no nodes of the graph included.
Related == IF selected \notin graph.files THEN {}
           ELSE {e[2] : e \in {x \in graph.edges : x[1] = selected}} \cup
                {e[1] : e \in {x \in graph.edges : x[2] = selected}}

\* Loading and error take the place of the canvas; full view stays open.
Shown == IF status = "loading" THEN "loading"
         ELSE IF status = "error" \/ graph.files = {} THEN "unavailable" ELSE "canvas"
Interactive == Shown = "canvas" \/ fullView
------------------------------------------------------------------------------
Init == /\ graph = NoGraph /\ status = "idle"
        /\ mode = "overview" /\ filter = "all" /\ selected = NoNode /\ cycle = 0
        /\ fullView = FALSE

\* The page loads a graph, or loads it again: nothing of the panel is reset.
Load == /\ status' = "loading"
        /\ UNCHANGED <<graph, mode, filter, selected, cycle, fullView>>

Answer == /\ status = "loading"
          /\ \/ graph' \in Graphs /\ status' = "ready"
             \/ graph' = graph /\ status' = "error"
          /\ UNCHANGED <<mode, filter, selected, cycle, fullView>>

SetMode(m) == /\ Interactive
              /\ mode' = m
              /\ UNCHANGED <<graph, status, filter, selected, cycle, fullView>>

\* "circular" is offered only for a graph with cycles.
SetFilter(f) == /\ Interactive
                /\ f = "circular" => graph.cycles # <<>>
                /\ filter' = f
                /\ UNCHANGED <<graph, status, mode, selected, cycle, fullView>>

ChooseCycle_Elsewhere(i) ==
  /\ Interactive /\ i \in DOMAIN graph.cycles
  /\ cycle' = i /\ filter' = "circular"
  /\ selected' = Last(graph.cycles[i]) /\ mode' = "overview"
  /\ UNCHANGED <<graph, status, fullView>>

\* A cycle is chosen: its first file is selected, its edges alone are drawn.
ChooseCycle(i) ==
  /\ Interactive /\ i \in DOMAIN graph.cycles
  /\ cycle' = i /\ filter' = "circular"
  /\ selected' = graph.cycles[i][1] /\ mode' = "files"
  /\ UNCHANGED <<graph, status, fullView>>

\* Clearing the highlight leaves the filter as it is.
ClearCycle == /\ Interactive /\ cycle # 0
              /\ cycle' = 0
              /\ UNCHANGED <<graph, status, mode, filter, selected, fullView>>

\* A card: selected, or deselected when it was; a search result and a related
\* file of the details panel go to focus mode.
ClickCard(n) == /\ Interactive /\ n \in Drawn
                /\ selected' = IF selected = n THEN NoNode ELSE n
                /\ UNCHANGED <<graph, status, mode, filter, cycle, fullView>>

SearchResult(n) == /\ Interactive /\ n \in graph.files
                   /\ selected' = n /\ mode' = "focus"
                   /\ UNCHANGED <<graph, status, filter, cycle, fullView>>

OpenRelated(n) == /\ Interactive /\ n \in Related
                  /\ selected' = n /\ mode' = "focus"
                  /\ UNCHANGED <<graph, status, filter, cycle, fullView>>

\* A button released on the canvas, or the pointer leaving it, pressed or not;
\* the background clicked, which ends a drag as well; the button of the details.
Deselect == /\ Interactive
            /\ selected' = NoNode
            /\ UNCHANGED <<graph, status, mode, filter, cycle, fullView>>

ResetCanvas == /\ Interactive
               /\ selected' = NoNode /\ cycle' = 0 /\ filter' = "all"
               /\ UNCHANGED <<graph, status, mode, fullView>>

ToggleFullView == /\ fullView' = ~fullView
                  /\ UNCHANGED <<graph, status, mode, filter, selected, cycle>>

\* Escape first deselects, then leaves full view.
Escape == /\ selected # NoNode \/ fullView
          /\ selected' = NoNode
          /\ fullView' = (fullView /\ selected # NoNode)
          /\ UNCHANGED <<graph, status, mode, filter, cycle>>

Next == \/ Load \/ Answer \/ ClearCycle \/ Deselect
        \/ ResetCanvas \/ ToggleFullView \/ Escape
        \/ \E m \in {"overview", "files", "focus"} : SetMode(m)
        \/ \E f \in {"all", "internal", "selected", "circular"} : SetFilter(f)
        \/ \E i \in 1..2 : ChooseCycle(i)          \* at most two cycles
        \/ \E g \in Graphs : \E n \in g.files \cup {Dir[f] : f \in g.files} \cup
                                      UNION {{e[1], e[2]} : e \in g.edges} :
             ClickCard(n) \/ SearchResult(n) \/ OpenRelated(n)

Spec == Init /\ [][Next]_vars
------------------------------------------------------------------------------
\* Choosing a cycle draws it: until another action every edge of it is on the
\* canvas, whatever was selected, filtered or expanded before.
ChosenCycleIsDrawn ==
  [][cycle' # cycle /\ cycle' # 0 =>
       (mode' = "files" /\ VisibleEdges' = CycleHighlight(cycle)')]_vars
==============================================================================
