-------------------------- MODULE DependencyGraph --------------------------
(***************************************************************************)
(* The dependency analyzer: import lines become edges between the files of *)
(* a branch, a depth-first search finds circular dependencies, and the     *)
(* result is aggregated and laid out for the Architecture page.  The       *)
(* search is a state machine, one step per neighbour, because its order    *)
(* is the insertion order of the edges, which is left open.                *)
(*                                                                         *)
(* A path is [dir, stem, ext], dir a sequence of names.  A raw import is   *)
(* [kind, up, dir, stem, ext]: relative ("./", "../" up times), rooted, or *)
(* bare (a package).  A line is a set of <<form, raw import>> pairs.       *)
(***************************************************************************)
EXTENDS Naturals, Sequences, FiniteSets, SequencesExt

CONSTANTS Files,       \* the paths of the branch
          Sources      \* the contents a file may have: sets of lines; none also
                       \* stands for a file that is no code or was not fetched

VARIABLES source,      \* file -> its content as fetched
          edges,       \* the internal edges
          stack,       \* pathStack, with the neighbours still to look at
          visited,
          cycles,      \* the closed paths reported
          phase,       \* "parse", "search" or "done"
          report       \* what is answered besides edges and cycles

vars == <<source, edges, stack, visited, cycles, phase, report>>

CodeExtensions == {".js", ".jsx", ".ts", ".tsx", ".py", ".css", ".json"}
------------------------------------------------------------------------------
(* Parsing and resolution.                                                 *)

Language(f) == CASE f.ext = ".py" -> "python" [] f.ext = ".css" -> "css"
                 [] OTHER -> "javascript"

\* The patterns in the order in which a line is tried against them.  An
\* import that spans several lines matches none, nor does a comment.
Patterns(language) ==
  CASE language = "python" -> <<"from", "import">>
    [] language = "css" -> <<"@import">>
    [] OTHER -> <<"static", "re-export", "require", "dynamic">>

\* The one import of a line: that of the first pattern it matches.
ImportsOfLine(language, line) ==
  LET order == Patterns(language)
      rank(p) == CHOOSE i \in DOMAIN order : order[i] = p[1]
      matching == {p \in line : p[1] \in ToSet(order)}
  IN {p[2] : p \in {q \in matching : \A o \in matching : rank(q) <= rank(o)}}

ParseImports(f) ==
  UNION {ImportsOfLine(Language(f), line) : line \in source[f]}

IsExternalPackage(raw) == raw.kind = "bare"

Target(f, raw) ==
  [dir |-> IF raw.kind = "relative"
           THEN SubSeq(f.dir, 1, Len(f.dir) - raw.up) \o raw.dir ELSE raw.dir,
   stem |-> raw.stem, ext |-> raw.ext]

\* The path itself, then with each extension, then as a directory's index.
Candidates(t) ==
  <<t>> \o
  (IF t.ext # "" THEN <<>>
   ELSE [i \in 1..7 |->
           [t EXCEPT !.ext = <<".js", ".jsx", ".ts", ".tsx", ".py", ".json", ".css">>[i]]]
        \o [i \in 1..5 |->
           [dir |-> Append(t.dir, t.stem), stem |-> IF i = 5 THEN "__init__" ELSE "index",
            ext |-> <<".js", ".jsx", ".ts", ".tsx", ".py">>[i]]])

\* The first candidate that is a file, as a set of at most one path.
ResolveImportPath(f, raw) ==
  LET c == Candidates(Target(f, raw))
      hits == {i \in DOMAIN c : c[i] \in Files}
  IN IF IsExternalPackage(raw) \/ hits = {} THEN {}
     ELSE {c[CHOOSE i \in hits : \A j \in hits : i <= j]}

InternalEdges ==
  {e \in Files \X Files :
     e[1] # e[2] /\ \E raw \in ParseImports(e[1]) : e[2] \in ResolveImportPath(e[1], raw)}

UnresolvedImports ==
  {i \in UNION {{f} \X ParseImports(f) : f \in Files} :
     ~IsExternalPackage(i[2]) /\ ResolveImportPath(i[1], i[2]) = {}}

Init == /\ source \in [Files -> Sources]
        /\ edges = {} /\ stack = <<>> /\ visited = {} /\ cycles = {}
        /\ phase = "parse" /\ report = <<>>

BuildEdges == /\ phase = "parse"
              /\ edges' = InternalEdges
              /\ phase' = "search"
              /\ UNCHANGED <<source, stack, visited, cycles, report>>
------------------------------------------------------------------------------
(* detectCircularDependencies: every node is entered once.                 *)

Top == stack[Len(stack)]
Neighbours(n) == {e[2] : e \in {x \in edges : x[1] = n}}

OnPath_AsParent(n) == Len(stack) > 1 /\ stack[Len(stack) - 1].node = n
OnPath(n) == \E i \in DOMAIN stack : stack[i].node = n

Push(n) == Append(stack, [node |-> n, todo |-> Neighbours(n)])
Seen(n) == Append(Front(stack), [Top EXCEPT !.todo = @ \ {n}])

StartAt(n) ==
  /\ phase = "search" /\ stack = <<>>
  /\ Neighbours(n) # {} /\ n \notin visited        \* a key of adjMap
  /\ stack' = Push(n)
  /\ visited' = visited \cup {n}
  /\ UNCHANGED <<source, edges, cycles, phase, report>>

Descend(n) ==
  /\ stack # <<>> /\ n \in Top.todo /\ n \notin visited
  /\ stack' = Append(Seen(n), [node |-> n, todo |-> Neighbours(n)])
  /\ visited' = visited \cup {n}
  /\ UNCHANGED <<source, edges, cycles, phase, report>>

NodesOf(path) == {path[i] : i \in DOMAIN path}

\* The part of the path from n on, closed with n.
CyclePath_Open(n) ==
  [i \in 1..(Len(stack) + 1) |-> IF i > Len(stack) THEN n ELSE stack[i].node]

CyclePath(n) ==
  LET first == CHOOSE i \in DOMAIN stack : stack[i].node = n
  IN [i \in 1..(Len(stack) - first + 2) |->
        IF i = Len(stack) - first + 2 THEN n ELSE stack[first + i - 1].node]

\* Reported or not, a cycle of known nodes: the sorted signature.
Known(path) == \E c \in cycles : NodesOf(c) = NodesOf(path)

\* A cycle is reported once per set of nodes (the sorted signature).
BackEdge(n) ==
  /\ stack # <<>> /\ n \in Top.todo /\ n \in visited /\ OnPath(n)
  /\ stack' = Seen(n)
  /\ cycles' = IF Known(CyclePath(n)) THEN cycles
               ELSE cycles \cup {CyclePath(n)}
  /\ UNCHANGED <<source, edges, visited, phase, report>>

SkipVisited(n) ==
  /\ stack # <<>> /\ n \in Top.todo /\ n \in visited /\ ~OnPath(n)
  /\ stack' = Seen(n)
  /\ UNCHANGED <<source, edges, visited, cycles, phase, report>>

Return ==
  /\ stack # <<>> /\ Top.todo = {}
  /\ stack' = Front(stack)
  /\ UNCHANGED <<source, edges, visited, cycles, phase, report>>

\* The files of at most four others that come before it.
TopFive(count) ==
  {f \in Files : count[f] > 0 /\ Cardinality({g \in Files : count[g] > count[f]}) < 5}

Dependents(n) == {e[1] : e \in {x \in edges : x[2] = n}}

Report ==
  [nodes |-> {f \in Files : f.ext \in CodeExtensions},
   partOfCycle |-> UNION {NodesOf(c) : c \in cycles},
   unresolved |-> UnresolvedImports,
   mostImported |-> TopFive([f \in Files |-> Cardinality(Dependents(f))]),
   mostDependencyHeavy |-> TopFive([f \in Files |-> Cardinality(Neighbours(f))])]

Finish ==
  /\ phase = "search" /\ stack = <<>>
  /\ \A n \in Files : Neighbours(n) = {} \/ n \in visited
  /\ phase' = "done" /\ report' = Report
  /\ UNCHANGED <<source, edges, stack, visited, cycles>>

Next == \/ BuildEdges \/ Return \/ Finish
        \/ \E n \in Files : StartAt(n) \/ Descend(n) \/ BackEdge(n) \/ SkipVisited(n)

Spec == Init /\ [][Next]_vars
------------------------------------------------------------------------------
\* A reported cycle is one: it returns to where it began, meets no file twice
\* on the way, and goes along imports only.  The report cuts the path of the
\* search at the file met again, so what led there must not be in it.
CyclesAreReal ==
  \A c \in cycles :
    /\ Len(c) >= 3 /\ c[1] = c[Len(c)]
    /\ \A i \in 1..(Len(c) - 1) : <<c[i], c[i + 1]>> \in edges
    /\ \A i, j \in 1..(Len(c) - 1) : c[i] = c[j] => i = j

\* The files a file imports, directly or through others: those in every set that
\* holds what it imports and what its members import.
Reach(f) == {g \in Files : \A S \in SUBSET Files :
               (Neighbours(f) \subseteq S /\ \A h \in S : Neighbours(h) \subseteq S) => g \in S}

\* Where the imports of a branch are tangled the report says so: once the
\* search has ended, a file that can reach itself lies in a tangle of which
\* some cycle was reported, wherever the search began and though a file is
\* entered only once.  Not every cycle is reported.
EveryTangleReported ==
  phase = "done" =>
    \A f \in Files : f \in Reach(f) =>
      \E c \in cycles : \A g \in NodesOf(c) : g \in Reach(f) /\ f \in Reach(g)
==============================================================================
