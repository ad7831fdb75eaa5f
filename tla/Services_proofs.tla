--------------------------- MODULE Services_proofs ---------------------------
(***************************************************************************)
(* The units of Services, each for every value of its constants.  They     *)
(* share no variable, so every step is a step of a unit or leaves it       *)
(* alone, and each invariant is proved over its unit's actions.            *)
(***************************************************************************)
EXTENDS Services, FiniteSetTheorems, NaturalsInduction, WellFoundedInduction, TLAPS

(* The rate limiter.                                                       *)

\* A step of the services is a step of each unit or leaves it alone.
LEMMA StepsOfLimiter == [ServicesNext]_servicesVars => [Limiter!Next]_limiterVars
  BY DEF ServicesNext, servicesVars, limiterVars

\* The instance counts as this module does.
LEMMA LimiterCounts == \A S : Limiter!Cardinality(S) = Cardinality(S)
  BY DEF Limiter!Cardinality, Cardinality

Hits == [n : Nat, at : Nat]

\* What was let through and is still in the window is remembered: the limiter
\* forgets no hit that counts.
Remembered(k) ==
  /\ passed[k] \subseteq Hits /\ IsFiniteSet(passed[k])
  /\ \A h \in passed[k] : h.at <= clock
  /\ hits[k] \subseteq passed[k]
  /\ \A h \in passed[k] : h.at + windowMs > clock => h \in hits[k]
  /\ \A t \in 0..clock : Cardinality(Limiter!InWindow(k, t)) <= max

LimiterInv == /\ clock \in Nat
       /\ hits \in [Keys -> SUBSET Hits] /\ passed \in [Keys -> SUBSET Hits]
       /\ \A k \in Keys : Remembered(k)

\* One more hit makes a window fuller by one, and only one that ends now.
LEMMA OneMore ==
  ASSUME NEW S, IsFiniteSet(S), NEW h, NEW T \in SUBSET (S \cup {h})
  PROVE  Cardinality(T) <= Cardinality(S) + 1
<1>1. IsFiniteSet(S \cup {h}) /\ Cardinality(S \cup {h}) <= Cardinality(S) + 1
  <2>1. Cardinality(S) \in Nat
    BY FS_CardinalityType
  <2> QED
    BY <2>1, FS_AddElement
<1>2. IsFiniteSet(T) /\ Cardinality(T) <= Cardinality(S \cup {h})
  BY <1>1, FS_Subset
<1>3. Cardinality(S) \in Nat /\ Cardinality(S \cup {h}) \in Nat /\ Cardinality(T) \in Nat
  BY <1>1, <1>2, FS_CardinalityType
<1> QED
  BY <1>1, <1>2, <1>3

LEMMA LimiterInitially == ASSUME max \in Nat, windowMs \in Nat PROVE Limiter!Init => LimiterInv
<1> SUFFICES ASSUME Limiter!Init, max \in Nat PROVE LimiterInv
  OBVIOUS
<1>1. ASSUME NEW k \in Keys PROVE Remembered(k)
  <2>1. passed[k] = {} /\ hits[k] = {}
    BY DEF Limiter!Init
  <2>2. \A t \in 0..clock : Limiter!InWindow(k, t) = {}
    BY <2>1 DEF Limiter!InWindow
  <2> QED
    BY <2>1, <2>2, FS_EmptySet DEF Remembered
<1> QED
  BY <1>1 DEF Limiter!Init, LimiterInv

\* A request is let through: the windows that end now hold what is valid and
\* the new hit; an earlier window does not hold it.
LEMMA LimiterPass ==
  ASSUME max \in Nat, windowMs \in Nat, LimiterInv,
         NEW k \in Keys, Limiter!Pass(k) PROVE LimiterInv'
<1> DEFINE h == [n |-> Cardinality(passed[k]), at |-> clock]
<1>1. /\ clock \in Nat /\ clock' = clock
      /\ passed[k] \subseteq Hits /\ IsFiniteSet(passed[k]) /\ hits[k] \subseteq passed[k]
      /\ hits' = [hits EXCEPT ![k] = Limiter!Valid(k) \cup {h}]
      /\ passed' = [passed EXCEPT ![k] = passed[k] \cup {h}]
      /\ hits \in [Keys -> SUBSET Hits] /\ passed \in [Keys -> SUBSET Hits]
      /\ Cardinality(Limiter!Valid(k)) < max
      /\ Remembered(k)
  BY LimiterCounts DEF LimiterInv, Remembered, Limiter!Pass
<1>2. h \in Hits /\ h.at = clock
  BY <1>1, FS_CardinalityType DEF Hits
<1>3. /\ Limiter!Valid(k) \subseteq hits[k] /\ IsFiniteSet(Limiter!Valid(k))
      /\ Cardinality(Limiter!Valid(k)) \in Nat
  <2>1. Limiter!Valid(k) \subseteq hits[k]
    BY DEF Limiter!Valid
  <2> QED
    BY <1>1, <2>1, FS_Subset, FS_CardinalityType
<1>4. /\ hits'[k] = Limiter!Valid(k) \cup {h} /\ passed'[k] = passed[k] \cup {h}
      /\ hits' \in [Keys -> SUBSET Hits] /\ passed' \in [Keys -> SUBSET Hits]
  <2> HIDE DEF h
  <2> QED
    BY <1>1, <1>2, <1>3
<1>5. ASSUME NEW t \in 0..clock PROVE Cardinality(Limiter!InWindow(k, t)') <= max
  <2>1. CASE t < clock
    <3>1. Limiter!InWindow(k, t)' = Limiter!InWindow(k, t)
      BY <1>1, <1>2, <1>4, <2>1 DEF Limiter!InWindow
    <3> QED
      BY <3>1, <1>1 DEF Remembered
  <2>2. CASE t = clock
    <3>1. Limiter!InWindow(k, t)' \subseteq Limiter!Valid(k) \cup {h}
      <4> SUFFICES ASSUME NEW x \in Limiter!InWindow(k, t)', x # h PROVE x \in Limiter!Valid(k)
        OBVIOUS
      <4>1. x \in passed[k] /\ clock < x.at + windowMs /\ x.at \in Nat
        BY <1>1, <1>4, <2>2 DEF Limiter!InWindow, Hits
      <4> QED
        BY <4>1, <1>1 DEF Remembered, Limiter!Valid
    <3>2. Cardinality(Limiter!InWindow(k, t)') <= Cardinality(Limiter!Valid(k)) + 1
      BY <1>3, <3>1, OneMore
    <3>3. IsFiniteSet(Limiter!InWindow(k, t)')
      <4> HIDE DEF h
      <4>1. IsFiniteSet(Limiter!Valid(k) \cup {h})
        BY <1>3, FS_AddElement
      <4> QED
        BY <3>1, <4>1, FS_Subset
    <3>4. Cardinality(Limiter!InWindow(k, t)') \in Nat
      BY <3>3, FS_CardinalityType
    <3> QED
      BY <3>2, <3>4, <1>1, <1>3
  <2> QED
    BY <1>1, <2>1, <2>2
<1>6. Remembered(k)'
  <2>1. IsFiniteSet(passed'[k]) /\ passed'[k] \subseteq Hits
    <3> HIDE DEF h
    <3> QED
      BY <1>1, <1>2, <1>4, FS_AddElement
  <2>2. \A x \in passed'[k] : x.at <= clock'
    BY <1>1, <1>2, <1>4 DEF Remembered
  <2>3. hits'[k] \subseteq passed'[k]
    BY <1>1, <1>3, <1>4
  <2>4. \A x \in passed'[k] : x.at + windowMs > clock' => x \in hits'[k]
    BY <1>1, <1>4 DEF Remembered, Limiter!Valid
  <2> QED
    BY <1>1, <1>5, <2>1, <2>2, <2>3, <2>4 DEF Remembered
<1>7. ASSUME NEW j \in Keys, j # k PROVE Remembered(j)'
  <2>1. hits'[j] = hits[j] /\ passed'[j] = passed[j]
    BY <1>1, <1>7
  <2>2. \A t \in 0..clock : Limiter!InWindow(j, t)' = Limiter!InWindow(j, t)
    BY <2>1 DEF Limiter!InWindow
  <2> QED
    BY <1>1, <2>1, <2>2 DEF LimiterInv, Remembered
<1> QED
  BY <1>1, <1>4, <1>6, <1>7 DEF LimiterInv

\* Time passes: what leaves the window need no longer be remembered, and the
\* window that ends at the new instant holds nothing the last one did not.
LEMMA LimiterTick ==
  ASSUME max \in Nat, windowMs \in Nat, LimiterInv, Limiter!Tick PROVE LimiterInv'
<1>1. /\ clock \in Nat /\ clock' = clock + 1 /\ hits' = hits /\ passed' = passed
  BY DEF LimiterInv, Limiter!Tick
<1>2. ASSUME NEW k \in Keys PROVE Remembered(k)'
  <2>1. /\ passed[k] \subseteq Hits /\ IsFiniteSet(passed[k]) /\ Remembered(k)
    BY DEF LimiterInv, Remembered
  <2>2. ASSUME NEW t \in 0..clock' PROVE Cardinality(Limiter!InWindow(k, t)') <= max
    <3>1. CASE t <= clock
      <4>1. Limiter!InWindow(k, t)' = Limiter!InWindow(k, t)
        BY <1>1 DEF Limiter!InWindow
      <4> QED
        BY <1>1, <2>1, <3>1, <4>1 DEF Remembered
    <3>2. CASE t = clock + 1
      <4>1. Limiter!InWindow(k, t)' \subseteq Limiter!InWindow(k, clock)
        BY <1>1, <2>1, <3>2 DEF Limiter!InWindow, Hits, Remembered
      <4>2. IsFiniteSet(Limiter!InWindow(k, clock))
        <5>1. Limiter!InWindow(k, clock) \subseteq passed[k]
          BY DEF Limiter!InWindow
        <5> QED
          BY <2>1, <5>1, FS_Subset
      <4>3. IsFiniteSet(Limiter!InWindow(k, t)')
            /\ Cardinality(Limiter!InWindow(k, t)') <= Cardinality(Limiter!InWindow(k, clock))
        BY <4>1, <4>2, FS_Subset
      <4>4. Cardinality(Limiter!InWindow(k, clock)) <= max
        BY <1>1, <2>1 DEF Remembered
      <4>5. /\ Cardinality(Limiter!InWindow(k, clock)) \in Nat
            /\ Cardinality(Limiter!InWindow(k, t)') \in Nat
        BY <4>2, <4>3, FS_CardinalityType
      <4> QED
        BY <4>3, <4>4, <4>5
    <3> QED
      BY <1>1, <3>1, <3>2
  <2>3. \A x \in passed[k] : x.at \in Nat
    BY <2>1 DEF Hits
  <2> QED
    BY <1>1, <2>1, <2>2, <2>3 DEF Remembered
<1> QED
  BY <1>1, <1>2 DEF LimiterInv

LEMMA LimiterKeeps ==
  ASSUME max \in Nat, windowMs \in Nat PROVE LimiterInv /\ [Limiter!Next]_limiterVars => LimiterInv'
<1> SUFFICES ASSUME LimiterInv, [Limiter!Next]_limiterVars PROVE LimiterInv'
  OBVIOUS
<1>1. CASE Limiter!Tick
  BY <1>1, LimiterTick
<1>2. ASSUME NEW k \in Keys, Limiter!Pass(k) PROVE LimiterInv'
  BY <1>2, LimiterPass
<1>3. CASE (\E k \in Keys : Limiter!Refuse(k)) \/ UNCHANGED limiterVars
  <2>1. clock' = clock /\ hits' = hits /\ passed' = passed
    BY <1>3 DEF Limiter!Refuse, limiterVars
  <2> QED
    BY <2>1 DEF LimiterInv, Remembered, Limiter!InWindow
<1> QED
  BY <1>1, <1>2, <1>3 DEF Limiter!Next

\* Whatever the window, the maximum and the keys: at no instant had more than
\* max requests of a key been let through within windowMs.
THEOREM WindowIsKept == ServicesSpec => []WindowNeverExceeded
<1>1. ServicesInit => LimiterInv
  BY LimiterAssumption, LimiterInitially DEF ServicesInit
<1>2. LimiterInv /\ [ServicesNext]_servicesVars => LimiterInv'
  BY LimiterAssumption, LimiterKeeps, StepsOfLimiter
<1>3. LimiterInv => WindowNeverExceeded
  BY LimiterCounts DEF LimiterInv, Remembered, WindowNeverExceeded, Limiter!WindowNeverExceeded
<1> QED
  BY <1>1, <1>2, <1>3, PTL DEF ServicesSpec
------------------------------------------------------------------------------
(* The cycle search.                                                       *)

LEMMA StepsOfGraph == [ServicesNext]_servicesVars => [Graph!Next]_graphVars
  BY DEF ServicesNext, servicesVars, graphVars

Frames == [node : Files, todo : SUBSET Files]

\* The files the search has left, and those of a tangle that shows.
Finished == {n \in visited : ~ Graph!OnPath(n)}
Covered(n) == \E c \in cycles : \A g \in Graph!NodesOf(c) :
                g \in Graph!Reach(n) /\ n \in Graph!Reach(g)

GraphTypes == /\ edges \in SUBSET (Files \X Files) /\ (\A e \in edges : e[1] # e[2])
              /\ stack \in Seq(Frames) /\ visited \in SUBSET Files
              /\ phase \in {"parse", "search", "done"}
              /\ phase = "parse" => stack = <<>> /\ visited = {} /\ cycles = {}
              /\ phase = "done" => /\ stack = <<>>
                                   /\ \A n \in Files : Graph!Neighbours(n) = {} \/ n \in visited

\* The stack is a path of imports that meets no file twice.
StackInv ==
  /\ \A i \in 1..Len(stack) : stack[i].node \in visited
  /\ \A i \in 1..Len(stack) : stack[i].todo \subseteq Graph!Neighbours(stack[i].node)
  /\ \A i, j \in 1..Len(stack) : stack[i].node = stack[j].node => i = j
  /\ \A i, j \in 1..Len(stack) : j = i + 1 => stack[j].node \in Graph!Neighbours(stack[i].node)
  /\ \A i, j \in 1..Len(stack) : i < j => stack[j].node \in Graph!Reach(stack[i].node)

\* What was looked at from a file on the path was left, or is next on the
\* path, or the file's tangle shows.
PathInv ==
  \A i \in 1..Len(stack) : \A g \in Graph!Neighbours(stack[i].node) \ stack[i].todo :
    g \in Finished \/ Covered(stack[i].node) \/ (i < Len(stack) /\ g = stack[i + 1].node)

\* The files the search has left are numbered in the order it left them: one
\* whose tangle does not show imports only files left before it.
Ranked(N, rank) ==
  \A n \in Finished :
    /\ rank[n] < N
    /\ Covered(n) \/ \A g \in Graph!Neighbours(n) : g \in Finished /\ rank[g] < rank[n]
RankInv == \E N \in Nat, rank \in [Files -> Nat] : Ranked(N, rank)

RealCycle(c) ==
  /\ Len(c) >= 3 /\ c[1] = c[Len(c)]
  /\ \A i \in 1..(Len(c) - 1) : <<c[i], c[i + 1]>> \in edges
  /\ \A i, j \in 1..(Len(c) - 1) : c[i] = c[j] => i = j
CyclesInv == \A c \in cycles : RealCycle(c)

GraphInv == GraphTypes /\ StackInv /\ PathInv /\ RankInv /\ CyclesInv
------------------------------------------------------------------------------
(* Imports.                                                                *)

LEMMA NeighbourIsEdge ==
  ASSUME edges \in SUBSET (Files \X Files), \A e \in edges : e[1] # e[2], NEW n
  PROVE  /\ Graph!Neighbours(n) \subseteq Files
         /\ \A g : g \in Graph!Neighbours(n) <=> <<n, g>> \in edges
         /\ n \notin Graph!Neighbours(n)
<1>1. \A e \in edges : e = <<e[1], e[2]>> /\ e[2] \in Files
  OBVIOUS
<1>2. \A g : <<n, g>> \in edges => g \in Graph!Neighbours(n)
  BY DEF Graph!Neighbours
<1>3. \A g \in Graph!Neighbours(n) : <<n, g>> \in edges
  BY <1>1 DEF Graph!Neighbours
<1>4. <<n, n>> \notin edges
  OBVIOUS
<1> QED
  BY <1>1, <1>2, <1>3, <1>4

\* Whatever a file imports it reaches, and with it what that reaches.
LEMMA ReachStep ==
  ASSUME edges \in SUBSET (Files \X Files), \A e \in edges : e[1] # e[2],
         NEW f, NEW g \in Graph!Neighbours(f)
  PROVE  g \in Graph!Reach(f)
  BY NeighbourIsEdge DEF Graph!Reach

LEMMA ReachOn ==
  ASSUME NEW f, NEW g \in Graph!Reach(f), NEW h \in Graph!Reach(g)
  PROVE  h \in Graph!Reach(f)
<1> SUFFICES ASSUME NEW S \in SUBSET Files, Graph!Neighbours(f) \subseteq S,
                    \A x \in S : Graph!Neighbours(x) \subseteq S
             PROVE  h \in S
  BY DEF Graph!Reach
<1>1. g \in S
  BY DEF Graph!Reach
<1>2. Graph!Neighbours(g) \subseteq S
  BY <1>1
<1> QED
  BY <1>2 DEF Graph!Reach

LEMMA SameImports ==
  ASSUME edges' = edges
  PROVE  /\ \A n : Graph!Neighbours(n)' = Graph!Neighbours(n)
         /\ \A n : Graph!Reach(n)' = Graph!Reach(n)
  BY DEF Graph!Neighbours, Graph!Reach

LEMMA CoveredStays ==
  ASSUME edges' = edges, cycles \subseteq cycles', NEW n, Covered(n) PROVE Covered(n)'
<1>1. PICK c \in cycles : \A g \in Graph!NodesOf(c) : g \in Graph!Reach(n) /\ n \in Graph!Reach(g)
  BY DEF Covered
<1>2. Graph!NodesOf(c)' = Graph!NodesOf(c)
  BY DEF Graph!NodesOf
<1>3. \A g \in Graph!NodesOf(c) : g \in Graph!Reach(n)' /\ n \in Graph!Reach(g)'
  BY <1>1, SameImports
<1>4. c \in cycles'
  OBVIOUS
<1> QED
  BY <1>2, <1>3, <1>4 DEF Covered
------------------------------------------------------------------------------
(* The stack.                                                              *)

\* All but the last of a sequence.
LEMMA FrontIs ==
  ASSUME NEW S, NEW s \in Seq(S), s # <<>>
  PROVE  /\ SubSeq(s, 1, Len(s) - 1) \in Seq(S)
         /\ Len(SubSeq(s, 1, Len(s) - 1)) = Len(s) - 1
         /\ \A i \in 1..(Len(s) - 1) : SubSeq(s, 1, Len(s) - 1)[i] = s[i]
<1>1. Len(s) \in Nat /\ Len(s) >= 1
  OBVIOUS
<1>2. \A i \in 1..(Len(s) - 1) : s[i] \in S
  BY <1>1
<1>3. SubSeq(s, 1, Len(s) - 1) = [i \in 1..(Len(s) - 1) |-> s[i]]
  BY <1>1
<1>4. Len(s) - 1 \in Nat
  BY <1>1
<1> DEFINE k == Len(s) - 1
<1>5. k \in Nat /\ \A i \in 1..k : s[i] \in S
  BY <1>2, <1>4
<1> HIDE DEF k
<1>6. [i \in 1..k |-> s[i]] \in Seq(S) /\ Len([i \in 1..k |-> s[i]]) = k
  BY <1>5
<1> QED
  BY <1>3, <1>6 DEF k

\* A neighbour is struck off the list of the file on top.
LEMMA SeenIs ==
  ASSUME stack \in Seq(Frames), stack # <<>>, NEW n
  PROVE  /\ Graph!Seen(n) \in Seq(Frames) /\ Len(Graph!Seen(n)) = Len(stack)
         /\ \A i \in 1..Len(stack) : Graph!Seen(n)[i].node = stack[i].node
         /\ \A i \in 1..Len(stack) : i < Len(stack) => Graph!Seen(n)[i].todo = stack[i].todo
         /\ Graph!Seen(n)[Len(stack)].todo = stack[Len(stack)].todo \ {n}
<1> DEFINE top == stack[Len(stack)]
           new == [top EXCEPT !.todo = top.todo \ {n}]
<1>1. Len(stack) \in Nat /\ Len(stack) >= 1 /\ top \in Frames
  OBVIOUS
<1>2. new \in Frames /\ new.node = top.node /\ new.todo = top.todo \ {n}
  BY <1>1 DEF Frames
<1>3. SubSeq(stack, 1, Len(stack) - 1) \in Seq(Frames)
      /\ Len(SubSeq(stack, 1, Len(stack) - 1)) = Len(stack) - 1
      /\ \A i \in 1..(Len(stack) - 1) : SubSeq(stack, 1, Len(stack) - 1)[i] = stack[i]
  BY FrontIs
<1>4. Graph!Seen(n) = Append(SubSeq(stack, 1, Len(stack) - 1), new)
  BY DEF Graph!Seen, Graph!Front, Graph!Top
<1> HIDE DEF top, new
<1>5. Graph!Seen(n) \in Seq(Frames) /\ Len(Graph!Seen(n)) = Len(stack)
  BY <1>1, <1>2, <1>3, <1>4
<1>6. Graph!Seen(n)[Len(stack)] = new
  BY <1>1, <1>2, <1>3, <1>4
<1>7. \A i \in 1..Len(stack) : i < Len(stack) => Graph!Seen(n)[i] = stack[i]
  BY <1>1, <1>2, <1>3, <1>4
<1> QED
  BY <1>1, <1>2, <1>5, <1>6, <1>7 DEF top
\* Who is on the path depends on the files of its frames alone.
LEMMA SamePath ==
  ASSUME stack \in Seq(Frames), stack' \in Seq(Frames), Len(stack') = Len(stack),
         \A i \in 1..Len(stack) : stack'[i].node = stack[i].node
  PROVE  \A x : Graph!OnPath(x)' = Graph!OnPath(x)
<1>1. DOMAIN stack = 1..Len(stack) /\ DOMAIN stack' = 1..Len(stack)
  OBVIOUS
<1> QED
  BY <1>1 DEF Graph!OnPath

\* The path from a file met again: it closes, and the file on top reaches every
\* file on it and is reached from it.
LEMMA CyclePathIs ==
  ASSUME GraphTypes, StackInv, NEW n \in Files, stack # <<>>,
         n \in stack[Len(stack)].todo, Graph!OnPath(n)
  PROVE  /\ RealCycle(Graph!CyclePath(n))
         /\ \A g \in Graph!NodesOf(Graph!CyclePath(n)) :
              g \in Graph!Reach(stack[Len(stack)].node) /\ stack[Len(stack)].node \in Graph!Reach(g)
<1> DEFINE L == Len(stack)
           first == CHOOSE i \in DOMAIN stack : stack[i].node = n
           k == L - first + 2
           c == Graph!CyclePath(n)
           top == stack[L].node
<1>1. L \in Nat /\ L >= 1 /\ DOMAIN stack = 1..L
  BY DEF GraphTypes
<1>2. first \in 1..L /\ stack[first].node = n
  BY <1>1 DEF Graph!OnPath
<1>3. c = [i \in 1..k |-> IF i = k THEN n ELSE stack[first + i - 1].node]
  BY DEF Graph!CyclePath
<1>4. n \in Graph!Neighbours(top) /\ n # top /\ n \in Graph!Reach(top)
  <2>1. n \in Graph!Neighbours(top)
    BY <1>1 DEF StackInv
  <2> QED
    BY <2>1, NeighbourIsEdge, ReachStep DEF GraphTypes
<1>5. first < L
  <2> HIDE DEF first, L
  <2> QED
    BY <1>1, <1>2, <1>4 DEF L
<1> HIDE DEF first, L
<1>6. k \in Nat /\ k >= 3 /\ k - 1 = L - first + 1
  BY <1>1, <1>2, <1>5
<1> HIDE DEF k
<1>7. Len(c) = k /\ DOMAIN c = 1..k /\ c[k] = n
  BY <1>3, <1>6
<1>8. \A i \in 1..(k - 1) : c[i] = stack[first + i - 1].node /\ first + i - 1 \in first..L
  <2>1. \A i \in 1..(k - 1) : i \in 1..k /\ i # k /\ first + i - 1 \in first..L
    BY <1>1, <1>2, <1>6
  <2> QED
    BY <2>1, <1>3
<1>9. c[1] = n
  BY <1>2, <1>6, <1>8
<1>10. \A i \in 1..(k - 1) : <<c[i], c[i + 1]>> \in edges
  <2> SUFFICES ASSUME NEW i \in 1..(k - 1) PROVE <<c[i], c[i + 1]>> \in edges
    OBVIOUS
  <2>1. CASE i = k - 1
    <3>1. first + i - 1 = L /\ i + 1 = k
      BY <2>1, <1>1, <1>2, <1>6
    <3>2. c[i] = stack[L].node /\ c[i + 1] = n
      BY <3>1, <1>7, <1>8
    <3> QED
      BY <3>2, <1>4, NeighbourIsEdge DEF GraphTypes, top
  <2>2. CASE i # k - 1
    <3>1. i + 1 \in 1..(k - 1) /\ first + i - 1 \in 1..L /\ first + i \in 1..L
      BY <2>2, <1>1, <1>2, <1>6
    <3>2. c[i] = stack[first + i - 1].node /\ c[i + 1] = stack[first + i].node
      BY <3>1, <1>2, <1>6, <1>8
    <3>3. first + i = (first + i - 1) + 1
      BY <1>2, <1>6
    <3>4. stack[first + i].node \in Graph!Neighbours(stack[first + i - 1].node)
      BY <3>1, <3>3 DEF StackInv, L
    <3> QED
      BY <3>2, <3>4, NeighbourIsEdge DEF GraphTypes
  <2> QED
    BY <2>1, <2>2
<1>11. \A i, j \in 1..(k - 1) : c[i] = c[j] => i = j
  <2> SUFFICES ASSUME NEW i \in 1..(k - 1), NEW j \in 1..(k - 1), c[i] = c[j] PROVE i = j
    OBVIOUS
  <2>1. first + i - 1 \in 1..L /\ first + j - 1 \in 1..L
        /\ stack[first + i - 1].node = stack[first + j - 1].node
    BY <1>1, <1>2, <1>6, <1>8
  <2>2. first + i - 1 = first + j - 1
    BY <2>1 DEF StackInv, L
  <2> QED
    BY <2>2, <1>2, <1>6
<1>12. ASSUME NEW g \in Graph!NodesOf(c) PROVE g \in Graph!Reach(top) /\ top \in Graph!Reach(g)
  <2>1. PICK m \in first..L : g = stack[m].node
    <3>1. PICK i \in 1..k : g = c[i]
      BY <1>7 DEF Graph!NodesOf
    <3>2. i = k => g = stack[first].node
      BY <3>1, <1>2, <1>7
    <3>3. i # k => i \in 1..(k - 1)
      BY <1>6
    <3> QED
      BY <3>1, <3>2, <3>3, <1>1, <1>2, <1>8
  <2>2. m \in 1..L /\ first \in 1..L
    BY <1>1, <1>2
  <2>3. g \in Graph!Reach(top)
    <3>1. m = first => g = n
      BY <2>1, <1>2
    <3>2. m > first => g \in Graph!Reach(n)
      BY <2>1, <2>2, <1>1, <1>2 DEF StackInv, L
    <3>3. m = first \/ m > first
      BY <1>1, <1>2
    <3> QED
      BY <3>1, <3>2, <3>3, <1>4, ReachOn
  <2>4. top \in Graph!Reach(g)
    <3>1. m < L => top \in Graph!Reach(g)
      BY <2>1, <2>2, <1>1 DEF StackInv, L, top
    <3>2. m = L => top \in Graph!Reach(g)
      <4>1. top \in Graph!Reach(n)
        BY <1>1, <1>2, <1>5 DEF StackInv, L, top
      <4>2. m = L => g = top
        BY <2>1 DEF top
      <4> QED
        BY <4>1, <4>2, <1>4, ReachOn
    <3>3. m < L \/ m = L
      BY <1>1, <1>2
    <3> QED
      BY <3>1, <3>2, <3>3
  <2> QED
    BY <2>3, <2>4
<1>13. RealCycle(c)
  BY <1>6, <1>7, <1>9, <1>10, <1>11 DEF RealCycle
<1> QED
  BY <1>12, <1>13 DEF L

LEMMA GraphInitially == Graph!Init => GraphInv
<1> SUFFICES ASSUME Graph!Init PROVE GraphInv
  OBVIOUS
<1>1. edges = {} /\ stack = <<>> /\ visited = {} /\ cycles = {} /\ phase = "parse"
  BY DEF Graph!Init
<1>2. GraphTypes
  BY <1>1 DEF GraphTypes
<1>3. StackInv /\ PathInv /\ CyclesInv
  BY <1>1 DEF StackInv, PathInv, CyclesInv
<1>4. RankInv
  <2>1. [f \in Files |-> 0] \in [Files -> Nat] /\ 0 \in Nat
    OBVIOUS
  <2>2. Finished = {}
    BY <1>1 DEF Finished
  <2>3. Ranked(0, [f \in Files |-> 0])
    BY <2>2 DEF Ranked
  <2> QED
    BY <2>1, <2>3 DEF RankInv
<1> QED
  BY <1>2, <1>3, <1>4 DEF GraphInv

\* Where the search has not begun nothing was left, and nothing is on the path.
LEMMA GraphBuild == ASSUME GraphInv, Graph!BuildEdges PROVE GraphInv'
<1>1. /\ stack = <<>> /\ visited = {} /\ cycles = {}
      /\ stack' = <<>> /\ visited' = {} /\ cycles' = {} /\ phase' = "search"
      /\ edges' = Graph!InternalEdges
  BY DEF GraphInv, GraphTypes, Graph!BuildEdges
<1>2. edges' \in SUBSET (Files \X Files) /\ \A e \in edges' : e[1] # e[2]
  BY <1>1 DEF Graph!InternalEdges
<1>3. GraphTypes'
  BY <1>1, <1>2 DEF GraphTypes
<1>4. StackInv' /\ PathInv' /\ CyclesInv'
  BY <1>1 DEF StackInv, PathInv, CyclesInv
<1>5. RankInv'
  <2>1. [f \in Files |-> 0] \in [Files -> Nat] /\ 0 \in Nat
    OBVIOUS
  <2>2. Finished' = {}
    BY <1>1 DEF Finished
  <2>3. Ranked(0, [f \in Files |-> 0])'
    BY <2>2 DEF Ranked
  <2> QED
    BY <2>1, <2>3 DEF RankInv
<1> QED
  BY <1>3, <1>4, <1>5 DEF GraphInv

\* While the files left stay the same their numbers may stay too.
LEMMA RankStays ==
  ASSUME RankInv, edges' = edges, cycles \subseteq cycles', Finished' = Finished
  PROVE  RankInv'
<1>1. PICK N \in Nat, rank \in [Files -> Nat] : Ranked(N, rank)
  BY DEF RankInv
<1>2. ASSUME NEW n \in Finished'
      PROVE  /\ rank[n] < N
             /\ Covered(n)' \/ \A g \in Graph!Neighbours(n)' : g \in Finished' /\ rank[g] < rank[n]
  <2>1. rank[n] < N /\ (Covered(n) \/ \A g \in Graph!Neighbours(n) : g \in Finished /\ rank[g] < rank[n])
    BY <1>1 DEF Ranked
  <2>2. Covered(n) => Covered(n)'
    BY CoveredStays
  <2>3. Graph!Neighbours(n)' = Graph!Neighbours(n)
    BY SameImports
  <2> QED
    BY <2>1, <2>2, <2>3
<1>3. Ranked(N, rank)'
  BY <1>2 DEF Ranked
<1> QED
  BY <1>3 DEF RankInv

\* What the search may add to the cycles.
LEMMA CyclesStay ==
  ASSUME CyclesInv, edges' = edges, cycles' = cycles PROVE CyclesInv'
  BY DEF CyclesInv, RealCycle
\* A neighbour is struck off: the path stays, and the search has more to show.
LEMMA SeenKeeps ==
  ASSUME GraphInv, stack # <<>>, NEW n \in stack[Len(stack)].todo,
         stack' = Graph!Seen(n), edges' = edges, visited' = visited, phase' = phase,
         cycles \subseteq cycles', CyclesInv',
         NEW top, top = stack[Len(stack)].node, n \in Finished \/ Covered(top)'
  PROVE  GraphInv'
<1>1. /\ stack' \in Seq(Frames) /\ Len(stack') = Len(stack) /\ Len(stack) \in Nat
      /\ Len(stack) >= 1
      /\ \A i \in 1..Len(stack) : stack'[i].node = stack[i].node
  BY SeenIs DEF GraphInv, GraphTypes
<1>2. /\ \A i \in 1..Len(stack) : i < Len(stack) => stack'[i].todo = stack[i].todo
      /\ stack'[Len(stack)].todo = stack[Len(stack)].todo \ {n}
  BY SeenIs DEF GraphInv, GraphTypes
<1>3. \A x : Graph!Neighbours(x)' = Graph!Neighbours(x) /\ Graph!Reach(x)' = Graph!Reach(x)
  BY SameImports
<1>4. Finished' = Finished
  BY <1>1, SamePath DEF Finished, GraphInv, GraphTypes
<1>5. GraphTypes'
  BY <1>1, <1>3 DEF GraphInv, GraphTypes
<1>6. \A i \in 1..Len(stack) : stack'[i].todo \subseteq stack[i].todo
  <2> SUFFICES ASSUME NEW i \in 1..Len(stack) PROVE stack'[i].todo \subseteq stack[i].todo
    OBVIOUS
  <2>1. i < Len(stack) \/ i = Len(stack)
    BY <1>1
  <2> QED
    BY <2>1, <1>2
<1>7. StackInv'
  BY <1>1, <1>3, <1>6 DEF GraphInv, StackInv
<1>8. PathInv'
  <2> SUFFICES ASSUME NEW i \in 1..Len(stack), NEW x, x = stack[i].node,
                      NEW g \in Graph!Neighbours(x) \ stack'[i].todo
               PROVE  g \in Finished \/ Covered(x)' \/ (i < Len(stack) /\ g = stack[i + 1].node)
    <3>1. \A i \in 1..Len(stack) : i < Len(stack) => i + 1 \in 1..Len(stack)
      BY <1>1
    <3>2. \A i \in 1..Len(stack) : i < Len(stack) => stack'[i + 1].node = stack[i + 1].node
      BY <1>1, <3>1
    <3> QED
      BY <1>1, <1>3, <1>4, <3>2 DEF PathInv
  <2>1. CASE g \notin stack[i].todo
    <3>1. g \in Finished \/ Covered(x) \/ (i < Len(stack) /\ g = stack[i + 1].node)
      BY <2>1 DEF GraphInv, PathInv
    <3> QED
      BY <3>1, CoveredStays
  <2>2. CASE g \in stack[i].todo
    <3>1. i = Len(stack) /\ g = n
      BY <2>2, <1>1, <1>2
    <3> QED
      BY <3>1
  <2> QED
    BY <2>1, <2>2
<1>9. RankInv'
  BY <1>4, RankStays DEF GraphInv
<1> QED
  BY <1>5, <1>7, <1>8, <1>9 DEF GraphInv

\* Skipped: the neighbour was left before.
LEMMA GraphSkip == ASSUME GraphInv, NEW n \in Files, Graph!SkipVisited(n) PROVE GraphInv'
<1>1. /\ stack # <<>> /\ n \in stack[Len(stack)].todo /\ stack' = Graph!Seen(n)
      /\ edges' = edges /\ visited' = visited /\ phase' = phase /\ cycles' = cycles
  BY DEF Graph!SkipVisited, Graph!Top
<1>2. n \in Finished
  BY DEF Graph!SkipVisited, Finished
<1>3. CyclesInv'
  BY <1>1, CyclesStay DEF GraphInv
<1> QED
  BY <1>1, <1>2, <1>3, SeenKeeps

\* Met again: the cycle is real, and with it the tangle of the file on top
\* shows, whether or not its nodes were known.
LEMMA GraphBack == ASSUME GraphInv, NEW n \in Files, Graph!BackEdge(n) PROVE GraphInv'
<1> DEFINE top == stack[Len(stack)].node
           c == Graph!CyclePath(n)
<1>1. /\ stack # <<>> /\ n \in stack[Len(stack)].todo /\ stack' = Graph!Seen(n)
      /\ edges' = edges /\ visited' = visited /\ phase' = phase /\ Graph!OnPath(n)
      /\ cycles' = IF Graph!Known(c) THEN cycles ELSE cycles \cup {c}
  BY DEF Graph!BackEdge, Graph!Top
<1>2. /\ RealCycle(c)
      /\ \A g \in Graph!NodesOf(c) : g \in Graph!Reach(top) /\ top \in Graph!Reach(g)
  BY <1>1, CyclePathIs DEF GraphInv
<1> SUFFICES ASSUME NEW path, path = c, NEW t, t = top PROVE GraphInv'
  OBVIOUS
<1> HIDE DEF top, c
<1>3. cycles \subseteq cycles' /\ cycles' \subseteq cycles \cup {path}
  BY <1>1
<1>4. CyclesInv'
  BY <1>1, <1>2, <1>3 DEF CyclesInv, GraphInv, RealCycle
<1>5. PICK d \in cycles' : Graph!NodesOf(d) = Graph!NodesOf(path)
  BY <1>1 DEF Graph!Known
<1>6. \A g \in Graph!NodesOf(d) : g \in Graph!Reach(t)' /\ t \in Graph!Reach(g)'
  BY <1>1, <1>2, <1>5, SameImports
<1>7. Covered(t)'
  BY <1>5, <1>6 DEF Covered, Graph!NodesOf
<1> QED
  BY <1>1, <1>3, <1>4, <1>7, SeenKeeps DEF top

\* The first file of a path.
LEMMA GraphStart == ASSUME GraphInv, NEW n \in Files, Graph!StartAt(n) PROVE GraphInv'
<1> DEFINE new == [node |-> n, todo |-> Graph!Neighbours(n)]
<1>1. /\ phase = "search" /\ stack = <<>> /\ n \notin visited /\ stack' = <<new>>
      /\ edges' = edges /\ visited' = visited \cup {n} /\ phase' = phase /\ cycles' = cycles
  BY DEF Graph!StartAt, Graph!Push
<1>2. \A x : Graph!Neighbours(x)' = Graph!Neighbours(x) /\ Graph!Reach(x)' = Graph!Reach(x)
  BY <1>1, SameImports
<1>3. Graph!Neighbours(n) \subseteq Files
  BY NeighbourIsEdge DEF GraphInv, GraphTypes
<1>4. new \in Frames /\ new.node = n /\ new.todo = Graph!Neighbours(n)
  BY <1>3 DEF Frames
<1> HIDE DEF new
<1>5. stack' \in Seq(Frames) /\ Len(stack') = 1 /\ stack'[1] = new /\ 1..Len(stack') = {1}
  BY <1>1, <1>4
<1>6. Finished' = Finished
  <2>1. \A x : Graph!OnPath(x)' <=> x = n
    BY <1>4, <1>5 DEF Graph!OnPath
  <2>2. \A x : ~ Graph!OnPath(x)
    BY <1>1 DEF Graph!OnPath
  <2> QED
    BY <1>1, <2>1, <2>2 DEF Finished
<1>7. GraphTypes'
  BY <1>1, <1>2, <1>5 DEF GraphInv, GraphTypes
<1>8. StackInv'
  BY <1>1, <1>2, <1>4, <1>5 DEF StackInv
<1>9. PathInv'
  BY <1>2, <1>4, <1>5 DEF PathInv
<1>10. RankInv'
  BY <1>1, <1>6, RankStays DEF GraphInv
<1>11. CyclesInv'
  BY <1>1, CyclesStay DEF GraphInv
<1> QED
  BY <1>7, <1>8, <1>9, <1>10, <1>11 DEF GraphInv

\* A file entered for the first time: the path goes on to it.
LEMMA GraphDescend == ASSUME GraphInv, NEW n \in Files, Graph!Descend(n) PROVE GraphInv'
<1> DEFINE new == [node |-> n, todo |-> Graph!Neighbours(n)]
           L == Len(stack)
           K == L + 1
<1>1. /\ stack # <<>> /\ n \in stack[L].todo /\ n \notin visited
      /\ stack' = Append(Graph!Seen(n), new)
      /\ edges' = edges /\ visited' = visited \cup {n} /\ phase' = phase /\ cycles' = cycles
  BY DEF Graph!Descend, Graph!Top
<1>2. \A x : Graph!Neighbours(x)' = Graph!Neighbours(x) /\ Graph!Reach(x)' = Graph!Reach(x)
  BY <1>1, SameImports
<1>3. Graph!Neighbours(n) \subseteq Files
  BY NeighbourIsEdge DEF GraphInv, GraphTypes
<1>4. new \in Frames /\ new.node = n /\ new.todo = Graph!Neighbours(n)
  BY <1>3 DEF Frames
<1>5. /\ Graph!Seen(n) \in Seq(Frames) /\ Len(Graph!Seen(n)) = L /\ L \in Nat /\ L >= 1
      /\ \A i \in 1..L : Graph!Seen(n)[i].node = stack[i].node
      /\ \A i \in 1..L : i < L => Graph!Seen(n)[i].todo = stack[i].todo
      /\ Graph!Seen(n)[L].todo = stack[L].todo \ {n}
  BY <1>1, SeenIs DEF GraphInv, GraphTypes
<1> HIDE DEF new, L
<1>6. stack' \in Seq(Frames) /\ Len(stack') = K /\ stack'[K] = new
  BY <1>1, <1>4, <1>5
<1>7. \A i \in 1..L : stack'[i] = Graph!Seen(n)[i]
  BY <1>1, <1>5
<1>8. \A i \in 1..L : stack'[i].node = stack[i].node
  BY <1>5, <1>7
<1>9. \A i \in 1..L : i < L => stack'[i].todo = stack[i].todo
  BY <1>5, <1>7
<1>10. stack'[L].todo = stack[L].todo \ {n}
  <2>1. L \in 1..L
    BY <1>5
  <2> QED
    BY <2>1, <1>5, <1>7
<1>11. \A i \in 1..K : i \in 1..L \/ i = K
  BY <1>5
<1>12. K \in 1..K /\ \A i \in 1..L : i \in 1..K /\ i # K
  BY <1>5
<1>13. /\ \A i \in 1..L : stack[i].node \in visited /\ stack[i].node # n
       /\ \A i \in 1..L : stack[i].todo \subseteq Graph!Neighbours(stack[i].node)
       /\ \A i, j \in 1..L : stack[i].node = stack[j].node => i = j
       /\ \A i, j \in 1..L : j = i + 1 => stack[j].node \in Graph!Neighbours(stack[i].node)
       /\ \A i, j \in 1..L : i < j => stack[j].node \in Graph!Reach(stack[i].node)
  BY <1>1 DEF GraphInv, StackInv, L
<1>14. \A i \in 1..L : n \in Graph!Reach(stack[i].node)
  <2>1. L \in 1..L
    BY <1>5
  <2>2. n \in Graph!Reach(stack[L].node)
    BY <1>1, <1>13, <2>1, ReachStep DEF GraphInv, GraphTypes
  <2>3. \A i \in 1..L : i = L \/ i < L
    BY <1>5
  <2> QED
    BY <2>1, <2>2, <2>3, <1>13, ReachOn
<1>15. Finished' = Finished
  <2>1. DOMAIN stack' = 1..K /\ DOMAIN stack = 1..L
    BY <1>6 DEF GraphInv, GraphTypes, L
  <2>2. \A x : Graph!OnPath(x)' <=> Graph!OnPath(x) \/ x = n
    BY <2>1, <1>4, <1>6, <1>8, <1>11, <1>12 DEF Graph!OnPath
  <2> QED
    BY <2>2, <1>1 DEF Finished
<1>16. GraphTypes'
  <2>1. phase = "search"
    BY <1>1 DEF GraphInv, GraphTypes
  <2> QED
    BY <1>1, <1>6, <2>1 DEF GraphInv, GraphTypes
<1>17. StackInv'
  <2>1. \A i \in 1..K : stack'[i].node \in visited'
    BY <1>1, <1>4, <1>6, <1>8, <1>11, <1>13
  <2>2. \A i \in 1..K : stack'[i].todo \subseteq Graph!Neighbours(stack'[i].node)
    <3>1. \A i \in 1..L : stack'[i].todo \subseteq stack[i].todo
      <4>1. \A i \in 1..L : i < L \/ i = L
        BY <1>5
      <4> QED
        BY <4>1, <1>9, <1>10
    <3> QED
      BY <3>1, <1>4, <1>6, <1>8, <1>11, <1>13
  <2>3. \A i, j \in 1..K : stack'[i].node = stack'[j].node => i = j
    BY <1>4, <1>6, <1>8, <1>11, <1>13
  <2>4. \A i, j \in 1..K : j = i + 1 => stack'[j].node \in Graph!Neighbours(stack'[i].node)
    <3> SUFFICES ASSUME NEW i \in 1..K, NEW j \in 1..K, j = i + 1
                 PROVE  stack'[j].node \in Graph!Neighbours(stack'[i].node)
      OBVIOUS
    <3>1. i \in 1..L /\ (j = K => i = L)
      BY <1>5
    <3>2. CASE j = K
      BY <3>1, <3>2, <1>1, <1>4, <1>6, <1>8, <1>13
    <3>3. CASE j \in 1..L
      BY <3>1, <3>3, <1>8, <1>13
    <3> QED
      BY <3>2, <3>3, <1>11
  <2>5. \A i, j \in 1..K : i < j => stack'[j].node \in Graph!Reach(stack'[i].node)
    <3> SUFFICES ASSUME NEW i \in 1..K, NEW j \in 1..K, i < j
                 PROVE  stack'[j].node \in Graph!Reach(stack'[i].node)
      OBVIOUS
    <3>1. i \in 1..L
      BY <1>5
    <3>2. CASE j = K
      BY <3>1, <3>2, <1>4, <1>6, <1>8, <1>14
    <3>3. CASE j \in 1..L
      BY <3>1, <3>3, <1>8, <1>13
    <3> QED
      BY <3>2, <3>3, <1>11
  <2> QED
    BY <1>2, <1>6, <2>1, <2>2, <2>3, <2>4, <2>5 DEF StackInv
<1>18. PathInv'
  <2> SUFFICES ASSUME NEW i \in 1..K, NEW x, x = stack'[i].node,
                      NEW g \in Graph!Neighbours(x) \ stack'[i].todo
               PROVE  g \in Finished \/ Covered(x)' \/ (i < K /\ g = stack'[i + 1].node)
    BY <1>2, <1>6, <1>15 DEF PathInv
  <2>1. i \in 1..L
    BY <1>4, <1>6, <1>11
  <2>2. x = stack[i].node
    BY <2>1, <1>8
  <2>3. CASE g \in stack[i].todo
    <3>1. i = L /\ g = n
      <4>1. i < L \/ i = L
        BY <2>1, <1>5
      <4> QED
        BY <4>1, <2>1, <2>3, <1>9, <1>10
    <3> QED
      BY <3>1, <1>4, <1>5, <1>6
  <2>4. CASE g \notin stack[i].todo
    <3>1. g \in Finished \/ Covered(x) \/ (i < L /\ g = stack[i + 1].node)
      BY <2>1, <2>2, <2>4 DEF GraphInv, PathInv, L
    <3>2. i < L => i + 1 \in 1..L /\ i < K
      BY <2>1, <1>5
    <3> QED
      BY <3>1, <3>2, <1>1, <1>8, CoveredStays
  <2> QED
    BY <2>3, <2>4
<1>19. RankInv'
  BY <1>1, <1>15, RankStays DEF GraphInv
<1>20. CyclesInv'
  BY <1>1, CyclesStay DEF GraphInv
<1> QED
  BY <1>16, <1>17, <1>18, <1>19, <1>20 DEF GraphInv

\* The search leaves a file: it is numbered next.
LEMMA GraphReturn == ASSUME GraphInv, Graph!Return PROVE GraphInv'
<1> DEFINE L == Len(stack)
           top == stack[L].node
           K == L - 1
<1>1. /\ stack # <<>> /\ stack[L].todo = {} /\ stack' = SubSeq(stack, 1, L - 1)
      /\ edges' = edges /\ visited' = visited /\ phase' = phase /\ cycles' = cycles
  BY DEF Graph!Return, Graph!Top, Graph!Front
<1>2. \A x : Graph!Neighbours(x)' = Graph!Neighbours(x) /\ Graph!Reach(x)' = Graph!Reach(x)
  BY <1>1, SameImports
<1>3. L \in Nat /\ L >= 1 /\ stack[L] \in Frames /\ L \in 1..L
  BY <1>1 DEF GraphInv, GraphTypes
<1>4. /\ stack' \in Seq(Frames) /\ Len(stack') = K /\ \A i \in 1..K : stack'[i] = stack[i]
  BY <1>1, FrontIs DEF GraphInv, GraphTypes
<1> SUFFICES ASSUME NEW m, m = top PROVE GraphInv'
  OBVIOUS
<1> HIDE DEF L
<1>5. \A i \in 1..K : i \in 1..L /\ i # L
  BY <1>3
<1>6. \A i \in 1..L : i \in 1..K \/ i = L
  BY <1>3
<1>7. m \in Files /\ m \in visited
  BY <1>3 DEF GraphInv, StackInv, Frames, L
<1>8. Finished' = Finished \cup {m} /\ m \notin Finished
  <2>1. DOMAIN stack' = 1..K /\ DOMAIN stack = 1..L
    BY <1>3, <1>4 DEF GraphInv, GraphTypes, L
  <2>2. Graph!OnPath(m)
    BY <2>1, <1>3 DEF Graph!OnPath
  <2>3. ~ Graph!OnPath(m)'
    BY <2>1, <1>3, <1>4, <1>5 DEF Graph!OnPath, GraphInv, StackInv, L
  <2>4. \A x : x # m => (Graph!OnPath(x)' <=> Graph!OnPath(x))
    BY <2>1, <1>4, <1>5, <1>6 DEF Graph!OnPath
  <2> QED
    BY <2>2, <2>3, <2>4, <1>1, <1>7 DEF Finished
<1>9. GraphTypes'
  <2>1. phase = "search"
    BY <1>1 DEF GraphInv, GraphTypes
  <2> QED
    BY <1>1, <1>4, <2>1 DEF GraphInv, GraphTypes
<1>10. StackInv'
  <2>1. /\ \A i \in 1..L : stack[i].node \in visited
        /\ \A i \in 1..L : stack[i].todo \subseteq Graph!Neighbours(stack[i].node)
        /\ \A i, j \in 1..L : stack[i].node = stack[j].node => i = j
        /\ \A i, j \in 1..L : j = i + 1 => stack[j].node \in Graph!Neighbours(stack[i].node)
        /\ \A i, j \in 1..L : i < j => stack[j].node \in Graph!Reach(stack[i].node)
    BY DEF GraphInv, StackInv, L
  <2> QED
    BY <2>1, <1>1, <1>2, <1>4, <1>5 DEF StackInv
\* What was looked at from the file that is left.
<1>11. Covered(m) \/ \A g \in Graph!Neighbours(m) : g \in Finished
  BY <1>1, <1>3 DEF GraphInv, PathInv, L
<1>12. PathInv'
  <2> SUFFICES ASSUME NEW i \in 1..K, NEW x, x = stack'[i].node,
                      NEW g \in Graph!Neighbours(x) \ stack'[i].todo
               PROVE  g \in Finished' \/ Covered(x)' \/ (i < K /\ g = stack'[i + 1].node)
    BY <1>2, <1>4 DEF PathInv
  <2>1. i \in 1..L /\ x = stack[i].node /\ stack'[i].todo = stack[i].todo
    BY <1>4, <1>5
  <2>2. g \in Finished \/ Covered(x) \/ (i < L /\ g = stack[i + 1].node)
    BY <2>1 DEF GraphInv, PathInv, L
  <2>3. i = K \/ (i < K /\ i + 1 \in 1..K)
    BY <1>3
  <2>4. CASE i = K /\ g = stack[i + 1].node
    <3>1. g = m
      BY <2>4, <1>3
    <3> QED
      BY <3>1, <1>8
  <2> QED
    BY <2>2, <2>3, <2>4, <1>1, <1>4, <1>8, CoveredStays
<1>13. RankInv'
  <2>1. PICK N \in Nat, rank \in [Files -> Nat] : Ranked(N, rank)
    BY DEF GraphInv, RankInv
  <2> DEFINE next == [rank EXCEPT ![m] = N]
  <2>2. /\ next \in [Files -> Nat] /\ next[m] = N /\ N + 1 \in Nat
        /\ \A x \in Files : x # m => next[x] = rank[x]
    BY <1>7
  <2> HIDE DEF next
  <2>3. ASSUME NEW n \in Finished'
        PROVE  /\ next[n] < N + 1
               /\ Covered(n)' \/ \A g \in Graph!Neighbours(n)' : g \in Finished' /\ next[g] < next[n]
    <3>1. Finished \subseteq Files
      BY DEF Finished, GraphInv, GraphTypes
    <3>2. \A x \in Finished : next[x] = rank[x] /\ rank[x] < N /\ rank[x] \in Nat
      BY <2>1, <2>2, <3>1, <1>8 DEF Ranked
    <3>3. CASE n = m
      <4>1. Covered(m) => Covered(m)'
        BY <1>1, CoveredStays
      <4>2. \A g \in Finished : g \in Finished' /\ next[g] < next[m]
        BY <1>8, <2>2, <3>2
      <4>3. next[m] < N + 1
        BY <2>2
      <4> QED
        BY <3>3, <4>1, <4>2, <4>3, <1>2, <1>11
    <3>4. CASE n \in Finished
      <4>1. Covered(n) \/ \A g \in Graph!Neighbours(n) : g \in Finished /\ rank[g] < rank[n]
        BY <3>4, <2>1 DEF Ranked
      <4>2. Covered(n) => Covered(n)'
        BY <1>1, CoveredStays
      <4>3. \A g \in Finished : rank[g] < rank[n] => g \in Finished' /\ next[g] < next[n]
        BY <3>2, <3>4, <1>8
      <4>4. next[n] < N + 1
        BY <3>2, <3>4, <2>2
      <4> QED
        BY <4>1, <4>2, <4>3, <4>4, <1>2
    <3> QED
      BY <3>3, <3>4, <1>8
  <2>4. Ranked(N + 1, next)'
    BY <2>3 DEF Ranked
  <2> QED
    BY <2>2, <2>4 DEF RankInv
<1>14. CyclesInv'
  BY <1>1, CyclesStay DEF GraphInv
<1> QED
  BY <1>9, <1>10, <1>12, <1>13, <1>14 DEF GraphInv

LEMMA GraphFinish == ASSUME GraphInv, Graph!Finish PROVE GraphInv'
<1>1. /\ stack = <<>> /\ \A n \in Files : Graph!Neighbours(n) = {} \/ n \in visited
      /\ phase = "search" /\ phase' = "done" /\ edges' = edges /\ stack' = stack
      /\ visited' = visited /\ cycles' = cycles
  BY DEF Graph!Finish
<1>2. \A x : Graph!Neighbours(x)' = Graph!Neighbours(x) /\ Graph!Reach(x)' = Graph!Reach(x)
  BY <1>1, SameImports
<1>3. GraphTypes'
  BY <1>1, <1>2 DEF GraphInv, GraphTypes
<1>4. StackInv' /\ PathInv'
  BY <1>1 DEF StackInv, PathInv
<1>5. Finished' = Finished
  BY <1>1 DEF Finished, Graph!OnPath
<1>6. RankInv' /\ CyclesInv'
  BY <1>1, <1>5, RankStays, CyclesStay DEF GraphInv
<1> QED
  BY <1>3, <1>4, <1>6 DEF GraphInv

LEMMA GraphRests == ASSUME GraphInv, UNCHANGED graphVars PROVE GraphInv'
<1>1. /\ edges' = edges /\ stack' = stack /\ visited' = visited /\ cycles' = cycles
      /\ phase' = phase
  BY DEF graphVars
<1>2. \A x : Graph!Neighbours(x)' = Graph!Neighbours(x) /\ Graph!Reach(x)' = Graph!Reach(x)
  BY <1>1, SameImports
<1>3. Finished' = Finished
  BY <1>1 DEF Finished, Graph!OnPath
<1>4. \A x : Covered(x) => Covered(x)'
  BY <1>1, CoveredStays
<1>5. GraphTypes'
  BY <1>1, <1>2 DEF GraphInv, GraphTypes
<1>6. StackInv'
  BY <1>1, <1>2 DEF GraphInv, StackInv
<1>7. PathInv'
  BY <1>1, <1>2, <1>3, <1>4 DEF GraphInv, PathInv
<1>8. RankInv' /\ CyclesInv'
  BY <1>1, <1>3, RankStays, CyclesStay DEF GraphInv
<1> QED
  BY <1>5, <1>6, <1>7, <1>8 DEF GraphInv

LEMMA GraphKeeps == GraphInv /\ [Graph!Next]_graphVars => GraphInv'
  BY GraphBuild, GraphStart, GraphDescend, GraphBack, GraphSkip, GraphReturn, GraphFinish,
     GraphRests
     DEF Graph!Next

\* A reported cycle is one of imports: it returns to where it began, and meets no
\* file twice on the way.
THEOREM ReportedCyclesAreReal == ServicesSpec => []CyclesAreReal
<1>1. ServicesInit => GraphInv
  BY GraphInitially DEF ServicesInit
<1>2. GraphInv /\ [ServicesNext]_servicesVars => GraphInv'
  BY GraphKeeps, StepsOfGraph
<1>3. GraphInv => CyclesAreReal
  BY DEF GraphInv, CyclesInv, RealCycle, CyclesAreReal, Graph!CyclesAreReal
<1> QED
  BY <1>1, <1>2, <1>3, PTL DEF ServicesSpec

\* Around a cycle of which nothing shows the numbers of the files would fall for
\* ever: those a file reaches that do not reach it back, or have a lower number,
\* hold all it reaches.
LEMMA TanglesShow == ASSUME GraphInv, phase = "done" PROVE Graph!EveryTangleReported
<1> SUFFICES ASSUME NEW f \in Files, f \in Graph!Reach(f), ~ Covered(f) PROVE FALSE
  BY DEF Graph!EveryTangleReported, Covered
<1>1. PICK N \in Nat, rank \in [Files -> Nat] : Ranked(N, rank)
  BY DEF GraphInv, RankInv
<1> DEFINE S == {g \in Graph!Reach(f) : f \notin Graph!Reach(g) \/ rank[g] < rank[f]}
<1>2. \A n : Graph!Neighbours(n) \subseteq Graph!Reach(n) /\ Graph!Reach(n) \subseteq Files
  BY ReachStep DEF GraphInv, GraphTypes, Graph!Reach
<1>3. ASSUME NEW n \in Files, ~ Covered(n), NEW g \in Graph!Neighbours(n)
      PROVE  rank[g] < rank[n]
  <2>1. n \in visited /\ stack = <<>>
    BY <1>3 DEF GraphInv, GraphTypes
  <2>2. n \in Finished
    BY <2>1 DEF Finished, Graph!OnPath
  <2> QED
    BY <1>1, <1>3, <2>2 DEF Ranked
<1>4. Graph!Neighbours(f) \subseteq S
  BY <1>2, <1>3
<1>5. ASSUME NEW h \in S, NEW g \in Graph!Neighbours(h) PROVE g \in S
  <2>1. g \in Graph!Reach(h) /\ g \in Graph!Reach(f) /\ g \in Files /\ h \in Files
    BY <1>2, ReachOn
  <2>2. CASE f \notin Graph!Reach(h)
    BY <2>1, <2>2, ReachOn
  <2>3. CASE f \in Graph!Reach(h)
    <3>1. rank[h] < rank[f]
      BY <2>3
    <3>2. ~ Covered(h)
      <4> SUFFICES ASSUME Covered(h) PROVE FALSE
        OBVIOUS
      <4>1. PICK c \in cycles : \A x \in Graph!NodesOf(c) : x \in Graph!Reach(h) /\ h \in Graph!Reach(x)
        BY DEF Covered
      <4>2. \A x \in Graph!NodesOf(c) : x \in Graph!Reach(f) /\ f \in Graph!Reach(x)
        BY <4>1, <2>3, ReachOn
      <4> QED
        BY <4>2 DEF Covered
    <3>3. rank[g] < rank[h]
      BY <2>1, <3>2, <1>3
    <3>4. rank[g] \in Nat /\ rank[h] \in Nat /\ rank[f] \in Nat
      BY <2>1
    <3> QED
      BY <2>1, <3>1, <3>3, <3>4
  <2> QED
    BY <2>2, <2>3
<1>6. S \in SUBSET Files
  BY <1>2
<1> HIDE DEF S
<1>7. f \in S
  BY <1>4, <1>5, <1>6 DEF Graph!Reach
<1>8. rank[f] \in Nat
  OBVIOUS
<1> QED
  BY <1>7, <1>8 DEF S

\* Once the search has ended, a file that reaches itself lies in a tangle of
\* which some cycle is reported, for every branch and every order of the search.
THEOREM TanglesAreReported == ServicesSpec => []EveryTangleReported
<1>1. ServicesInit => GraphInv
  BY GraphInitially DEF ServicesInit
<1>2. GraphInv /\ [ServicesNext]_servicesVars => GraphInv'
  BY GraphKeeps, StepsOfGraph
<1>3. GraphInv => EveryTangleReported
  BY TanglesShow DEF EveryTangleReported, Graph!EveryTangleReported
<1> QED
  BY <1>1, <1>2, <1>3, PTL DEF ServicesSpec
------------------------------------------------------------------------------
(* Workspaces and their repositories.                                      *)

LEMMA StepsOfSpaces == [ServicesNext]_servicesVars => [Spaces!Next]_spacesVars
  BY DEF ServicesNext, servicesVars, spacesVars

Owners == WorkspaceNames \cup {None}
Chosen == AccountRepos \cup {None}
Seen == [owned : Seq(WorkspaceNames), default : [WorkspaceNames -> Chosen], read : BOOLEAN]
Views == [at : {"start", "workspaces", "import", "dashboard", "repository"}, list : Seen,
          current : Owners, shown : Chosen, selected : Chosen,
          repos : {"loading", "ready", "error"}]
Listings == [live : BOOLEAN, seen : Seen]
Syncs == [target : Owners, todo : SUBSET AccountRepos, live : BOOLEAN]

\* Whatever a page, the browser, a listing or a synchronisation names is a
\* workspace or none.
ServerTypes == /\ owned \in Seq(WorkspaceNames) /\ default \in [WorkspaceNames -> Chosen]
               /\ home \in [AccountRepos -> Owners \cup {"unknown"}]
BrowserTypes == /\ active \in [ws : Owners, default : Chosen]
                /\ cached \in [WorkspaceNames -> Chosen]
PageTypes == page \in Views
CallTypes == /\ syncs \in SUBSET Syncs /\ lists \in SUBSET Listings
             /\ patches \in SUBSET (WorkspaceNames \X AccountRepos)
SpacesInv == ServerTypes /\ BrowserTypes /\ PageTypes /\ CallTypes

LEMMA SpacesInitially == Spaces!Init => SpacesInv
<1> SUFFICES ASSUME Spaces!Init PROVE SpacesInv
  OBVIOUS
<1>1. Spaces!NotSeen \in Seen
  BY DEF Spaces!NotSeen, Seen, Chosen
<1>2. Spaces!Page("start", None) \in Views
  BY <1>1 DEF Spaces!Page, Views, Owners, Chosen
<1> QED
  BY <1>2 DEF Spaces!Init, SpacesInv, ServerTypes, BrowserTypes, PageTypes, CallTypes,
     Owners, Chosen

LEMMA DefaultIsRepo == ASSUME SpacesInv, NEW w \in Owners PROVE Spaces!DefaultFor(w) \in Chosen
<1>1. Spaces!ActiveWorkspace \in [ws : Owners, default : Chosen]
  BY DEF Spaces!ActiveWorkspace, SpacesInv, BrowserTypes, Owners
<1>2. None \in Chosen /\ (w # None => cached[w] \in Chosen)
  BY DEF SpacesInv, BrowserTypes, Owners, Chosen
<1> HIDE DEF Chosen, Owners
<1> QED
  BY <1>1, <1>2 DEF Spaces!DefaultFor

LEMMA GoTypes ==
  ASSUME SpacesInv, NEW at \in {"workspaces", "import", "dashboard", "repository"},
         NEW w \in Owners, Spaces!Go(at, w)
  PROVE  page' \in Views /\ lists' \in SUBSET Listings /\ syncs' \in SUBSET Syncs
<1>1. Spaces!NotSeen \in Seen
  BY DEF Spaces!NotSeen, Seen, Chosen
<1>2. Spaces!Page(at, w) \in Views
  BY <1>1 DEF Spaces!Page, Views, Chosen
<1>3. page' \in Views
  BY <1>2, DefaultIsRepo DEF Spaces!Go, Views, Chosen
<1>4. \A l \in lists : [l EXCEPT !.live = FALSE] \in Listings
  BY DEF SpacesInv, CallTypes, Listings
<1>5. [live |-> TRUE, seen |-> Spaces!NotSeen] \in Listings
  BY <1>1 DEF Listings
<1>6. lists' \in SUBSET Listings
  BY <1>4, <1>5 DEF Spaces!Go
<1>7. \A s \in syncs : [s EXCEPT !.live = FALSE] \in Syncs
  BY DEF SpacesInv, CallTypes, Syncs
<1>8. syncs' \in SUBSET Syncs
  BY <1>7 DEF Spaces!Go
<1> QED
  BY <1>3, <1>6, <1>8

LEMMA SetActiveTypes ==
  ASSUME NEW w \in Owners, NEW r \in Chosen, NEW c \in [WorkspaceNames -> Chosen],
         w = None => r = None, Spaces!SetActive(w, r, c)
  PROVE  BrowserTypes'
  BY DEF Spaces!SetActive, BrowserTypes, Owners, Chosen

LEMMA SetDefaultTypes ==
  ASSUME SpacesInv, NEW w \in WorkspaceNames, NEW r \in AccountRepos, Spaces!SetDefault(w, r)
  PROVE  BrowserTypes' /\ patches' \in SUBSET (WorkspaceNames \X AccountRepos)
<1>1. BrowserTypes'
  BY DEF Spaces!SetDefault, SpacesInv, BrowserTypes, Owners, Chosen
<1>2. patches' = patches \cup {<<w, r>>}
  BY DEF Spaces!SetDefault
<1> QED
  BY <1>1, <1>2 DEF SpacesInv, CallTypes

LEMMA NewestIsOwner == ASSUME SpacesInv PROVE Spaces!Newest \in Owners
  BY DEF Spaces!Newest, Spaces!Last, SpacesInv, ServerTypes, Owners

LEMMA SyncedAreRepos == Spaces!Synced \subseteq AccountRepos
  BY DEF Spaces!Synced

\* The server's own: a workspace is created, a default is saved, a repository is
\* stored in the workspace of its synchronisation.
LEMMA ServerKeeps ==
  ASSUME SpacesInv, [Spaces!Next]_spacesVars PROVE ServerTypes'
<1>1. CASE UNCHANGED <<owned, default, home>>
  BY <1>1 DEF SpacesInv, ServerTypes
<1>2. ASSUME NEW w \in WorkspaceNames, Spaces!CreateWorkspace(w) PROVE ServerTypes'
  BY <1>2 DEF Spaces!CreateWorkspace, SpacesInv, ServerTypes
<1>3. ASSUME NEW p \in patches, Spaces!Patch(p) PROVE ServerTypes'
  <2>1. p[1] \in WorkspaceNames /\ p[2] \in AccountRepos
    BY <1>3 DEF SpacesInv, CallTypes
  <2> QED
    BY <1>3, <2>1 DEF Spaces!Patch, Spaces!MoveIn, SpacesInv, ServerTypes, Owners, Chosen
<1>4. ASSUME NEW s \in syncs, NEW r \in AccountRepos, Spaces!SyncStore(s, r) PROVE ServerTypes'
  <2>1. s.target \in Owners
    BY <1>4 DEF SpacesInv, CallTypes, Syncs
  <2>2. Spaces!Stored(s, r) \in Owners \cup {"unknown"}
    BY <2>1 DEF Spaces!Stored, SpacesInv, ServerTypes, Owners
  <2> QED
    BY <1>4, <2>2 DEF Spaces!SyncStore, SpacesInv, ServerTypes
<1> QED
  BY <1>1, <1>2, <1>3, <1>4
     DEF Spaces!Next, spacesVars, Spaces!server, Spaces!OpenPage, Spaces!OpenWorkspace,
         Spaces!SelectWorkspace, Spaces!OpenFromDashboard, Spaces!Serve, Spaces!Receive,
         Spaces!ListFails, Spaces!ReposArrive, Spaces!Choose, Spaces!ResolveDefault,
         Spaces!SelectRepo, Spaces!SwitchRepository, Spaces!SyncStart, Spaces!SyncEnd

\* What a listing brings is what Express read.
LEMMA ServeKeeps == ASSUME SpacesInv, NEW l \in lists, Spaces!Serve(l) PROVE SpacesInv'
<1>1. [owned |-> owned, default |-> default, read |-> TRUE] \in Seen
  BY DEF SpacesInv, ServerTypes, Seen
<1>2. [l EXCEPT !.seen = [owned |-> owned, default |-> default, read |-> TRUE]] \in Listings
  BY <1>1 DEF SpacesInv, CallTypes, Listings
<1>3. lists' \in SUBSET Listings
  BY <1>2 DEF Spaces!Serve, SpacesInv, CallTypes
<1> QED
  BY <1>3 DEF Spaces!Serve, Spaces!server, Spaces!browser, SpacesInv, ServerTypes, BrowserTypes,
              PageTypes, CallTypes

LEMMA ReceiveKeeps == ASSUME SpacesInv, NEW l \in lists, Spaces!Receive(l) PROVE SpacesInv'
<1> DEFINE all == [w \in WorkspaceNames |-> IF l.seen.default[w] # None THEN l.seen.default[w]
                                            ELSE cached[w]]
           w == IF page.current \in Spaces!ToSet(l.seen.owned) THEN page.current
                ELSE Spaces!Last(l.seen.owned)
<1>1. l.seen \in Seen /\ l.seen.owned \in Seq(WorkspaceNames)
      /\ l.seen.default \in [WorkspaceNames -> Chosen]
  BY DEF SpacesInv, CallTypes, Listings, Seen
<1>2. all \in [WorkspaceNames -> Chosen]
  BY <1>1 DEF SpacesInv, BrowserTypes
<1>3. page \in Views
  BY DEF SpacesInv, PageTypes
<1>4. CASE l.live /\ page.at = "import" /\ l.seen.owned # <<>>
  <2>1. w \in WorkspaceNames
    <3>1. Spaces!Last(l.seen.owned) \in WorkspaceNames
      BY <1>1, <1>4 DEF Spaces!Last
    <3>2. \A x \in Spaces!ToSet(l.seen.owned) : x \in WorkspaceNames
      BY <1>1 DEF Spaces!ToSet
    <3> QED
      BY <3>1, <3>2
  <2>2. /\ Spaces!SetActive(w, l.seen.default[w], all)
        /\ page' = [page EXCEPT !.list = l.seen, !.current = w,
                      !.shown = IF w = page.current THEN page.shown ELSE all[w]]
    BY <1>4 DEF Spaces!Receive
  <2> HIDE DEF w, all
  <2>3. BrowserTypes'
    BY <2>1, <2>2, <1>1, <1>2, SetActiveTypes, WorkspacesAssumption DEF Owners
  <2>4. page' \in Views
    <3>1. (IF w = page.current THEN page.shown ELSE all[w]) \in Chosen
      BY <1>2, <1>3, <2>1 DEF Views
    <3> QED
      BY <1>1, <1>3, <2>1, <2>2, <3>1 DEF Views, Owners
  <2> QED
    BY <2>3, <2>4 DEF Spaces!Receive, Spaces!server, SpacesInv, ServerTypes, PageTypes,
       CallTypes
<1>5. CASE ~ (l.live /\ page.at = "import" /\ l.seen.owned # <<>>)
  <2>1. cached' = all /\ active' = active
        /\ page' = IF l.live THEN [page EXCEPT !.list = l.seen] ELSE page
    BY <1>5 DEF Spaces!Receive
  <2> HIDE DEF all
  <2>2. page' \in Views
    BY <2>1, <1>1, <1>3 DEF Views
  <2> QED
    BY <2>1, <2>2, <1>2 DEF Spaces!Receive, Spaces!server, SpacesInv, ServerTypes, BrowserTypes,
                            PageTypes, CallTypes
<1> QED
  BY <1>4, <1>5

LEMMA OpenKeeps ==
  ASSUME SpacesInv, ServerTypes',
         \/ \E at \in {"workspaces", "import", "dashboard"} : Spaces!OpenPage(at)
         \/ \E w \in WorkspaceNames : Spaces!CreateWorkspace(w) \/ Spaces!OpenWorkspace(w)
         \/ Spaces!OpenFromDashboard
  PROVE  SpacesInv'
<1>1. Spaces!ActiveWorkspace.ws \in Owners /\ None \in Owners /\ None \in Chosen
      /\ WorkspaceNames \subseteq Owners
  BY DEF Spaces!ActiveWorkspace, SpacesInv, BrowserTypes, Owners, Chosen
<1>2. ASSUME NEW at \in {"workspaces", "import", "dashboard"}, Spaces!OpenPage(at) PROVE SpacesInv'
  BY <1>1, <1>2, GoTypes DEF Spaces!OpenPage, Spaces!browser, SpacesInv, BrowserTypes,
     PageTypes, CallTypes
<1>3. ASSUME NEW w \in WorkspaceNames, Spaces!CreateWorkspace(w) PROVE SpacesInv'
  <2>1. CASE Spaces!SetActive(w, None, cached) /\ Spaces!Go("import", w)
    <3>1. BrowserTypes'
      BY <1>1, <2>1, SetActiveTypes DEF SpacesInv, BrowserTypes
    <3> QED
      BY <1>1, <1>3, <2>1, <3>1, GoTypes DEF Spaces!CreateWorkspace, SpacesInv, PageTypes,
         CallTypes
  <2>2. CASE UNCHANGED <<active, cached, page, lists, syncs>>
    BY <1>3, <2>2 DEF Spaces!CreateWorkspace, SpacesInv, BrowserTypes, PageTypes, CallTypes
  <2> QED
    BY <1>3, <2>1, <2>2 DEF Spaces!CreateWorkspace
<1>4. ASSUME NEW w \in WorkspaceNames, Spaces!OpenWorkspace(w) PROVE SpacesInv'
  <2>1. page.list.default[w] \in Chosen
    BY DEF SpacesInv, PageTypes, Views, Seen
  <2>2. BrowserTypes'
    BY <1>1, <1>4, <2>1, SetActiveTypes, WorkspacesAssumption DEF Spaces!OpenWorkspace,
       SpacesInv, BrowserTypes
  <2> QED
    BY <1>1, <1>4, <2>2, GoTypes DEF Spaces!OpenWorkspace, SpacesInv, PageTypes, CallTypes
<1>5. ASSUME Spaces!OpenFromDashboard PROVE SpacesInv'
  BY <1>1, <1>5, GoTypes DEF Spaces!OpenFromDashboard, Spaces!browser, SpacesInv,
     BrowserTypes, PageTypes, CallTypes
<1> QED
  BY <1>2, <1>3, <1>4, <1>5

\* The import page and the header's switcher choose among what was listed.
LEMMA SelectKeeps ==
  ASSUME SpacesInv, NEW w \in WorkspaceNames, Spaces!SelectWorkspace(w) PROVE SpacesInv'
<1>1. page \in Views /\ page.list.default[w] \in Chosen /\ w \in Owners
  BY DEF SpacesInv, PageTypes, Views, Seen, Owners
<1>2. BrowserTypes'
  BY <1>1, SetActiveTypes, WorkspacesAssumption DEF Spaces!SelectWorkspace, SpacesInv,
     BrowserTypes
<1>3. page' \in Views
  BY <1>1, DefaultIsRepo DEF Spaces!SelectWorkspace, Views
<1> QED
  BY <1>2, <1>3 DEF Spaces!SelectWorkspace, Spaces!server, SpacesInv, ServerTypes,
     PageTypes, CallTypes

LEMMA ChooseKeeps == ASSUME SpacesInv, NEW b \in BOOLEAN, Spaces!Choose(b) PROVE SpacesInv'
<1>1. page \in Views /\ None \in Owners /\ page.selected \in AccountRepos
  BY DEF Spaces!Choose, SpacesInv, PageTypes, Views, Owners, Chosen
<1>2. BrowserTypes' /\ patches' \in SUBSET (WorkspaceNames \X AccountRepos)
  <2>1. CASE page.current = None
    BY <2>1 DEF Spaces!Choose, Spaces!browser, SpacesInv, BrowserTypes, CallTypes
  <2>2. CASE page.current # None
    <3>1. page.current \in WorkspaceNames
      BY <1>1, <2>2 DEF Views, Owners
    <3>2. Spaces!SetDefault(page.current, page.selected)
      BY <2>2 DEF Spaces!Choose
    <3> QED
      BY <1>1, <3>1, <3>2, SetDefaultTypes
  <2> QED
    BY <2>1, <2>2
<1>3. page' \in Views /\ lists' \in SUBSET Listings /\ syncs' \in SUBSET Syncs
  <2>1. CASE b
    BY <1>1, <2>1, GoTypes DEF Spaces!Choose
  <2>2. CASE ~ b
    BY <1>1, <2>2 DEF Spaces!Choose, Views, SpacesInv, CallTypes
  <2> QED
    BY <2>1, <2>2
<1> QED
  BY <1>2, <1>3 DEF Spaces!Choose, Spaces!server, SpacesInv, ServerTypes, PageTypes, CallTypes

LEMMA ResolveKeeps ==
  ASSUME SpacesInv, Spaces!ResolveDefault \/ \E r \in AccountRepos : Spaces!SwitchRepository(r)
  PROVE  SpacesInv'
<1>1. /\ Spaces!ActiveWorkspace.ws \in Owners /\ active.ws \in Owners /\ None \in Owners
      /\ Spaces!Synced \subseteq AccountRepos
  BY SyncedAreRepos DEF Spaces!ActiveWorkspace, SpacesInv, BrowserTypes, Owners, Chosen
<1>2. Spaces!Go("repository", None) /\ UNCHANGED <<owned, default, home>>
  BY DEF Spaces!ResolveDefault, Spaces!SwitchRepository, Spaces!server
<1>3. \/ UNCHANGED <<active, cached, patches>>
      \/ \E w \in WorkspaceNames, r \in AccountRepos : Spaces!SetDefault(w, r)
  BY <1>1 DEF Spaces!ResolveDefault, Spaces!SwitchRepository, Spaces!browser, Owners
<1>4. BrowserTypes' /\ patches' \in SUBSET (WorkspaceNames \X AccountRepos)
  BY <1>3, SetDefaultTypes DEF SpacesInv, BrowserTypes, CallTypes
<1>5. page' \in Views /\ lists' \in SUBSET Listings /\ syncs' \in SUBSET Syncs
  BY <1>1, <1>2, GoTypes
<1> QED
  BY <1>2, <1>4, <1>5 DEF SpacesInv, ServerTypes, PageTypes, CallTypes

LEMMA ArriveKeeps ==
  ASSUME SpacesInv, Spaces!ReposArrive \/ \E r \in AccountRepos : Spaces!SelectRepo(r)
  PROVE  SpacesInv'
<1>1. page \in Views /\ None \in Chosen /\ AccountRepos \subseteq Chosen
  BY DEF SpacesInv, PageTypes, Chosen
<1>2. \/ \E r \in Chosen : page' = [page EXCEPT !.repos = "ready", !.selected = r]
      \/ page' = [page EXCEPT !.repos = "error"]
      \/ \E r \in Chosen : page' = [page EXCEPT !.selected = r]
  <2>1. Spaces!DefaultFor(page.current) \in Chosen /\ Spaces!Synced \subseteq Chosen
        /\ page.selected \in Chosen
    BY <1>1, DefaultIsRepo, SyncedAreRepos DEF Views
  <2> QED
    BY <1>1, <2>1 DEF Spaces!ReposArrive, Spaces!SelectRepo
<1>3. page' \in Views
  BY <1>1, <1>2 DEF Views
<1> QED
  BY <1>3 DEF Spaces!ReposArrive, Spaces!SelectRepo, Spaces!server, Spaces!browser, SpacesInv,
              ServerTypes, BrowserTypes, PageTypes, CallTypes

\* A synchronisation is for the workspace of the page that began it, else the
\* newest; it stores and ends.
LEMMA SyncKeeps ==
  ASSUME SpacesInv, ServerTypes',
         \/ Spaces!SyncStart
         \/ \E s \in syncs : Spaces!SyncEnd(s) \/ \E r \in AccountRepos : Spaces!SyncStore(s, r)
  PROVE  SpacesInv'
<1>1. CASE Spaces!SyncStart
  <2>1. page.current \in Owners /\ Spaces!Newest \in Owners
    BY NewestIsOwner DEF SpacesInv, PageTypes, Views
  <2>2. \A listed \in SUBSET AccountRepos :
          [target |-> IF page.current # None THEN page.current ELSE Spaces!Newest,
           todo |-> listed, live |-> TRUE] \in Syncs
    BY <2>1 DEF Syncs
  <2>3. syncs' \in SUBSET Syncs
    BY <1>1, <2>2 DEF Spaces!SyncStart, SpacesInv, CallTypes
  <2> QED
    BY <1>1, <2>3 DEF Spaces!SyncStart, Spaces!server, Spaces!browser, SpacesInv, BrowserTypes,
                      PageTypes, CallTypes
<1>2. ASSUME NEW s \in syncs, Spaces!SyncEnd(s) PROVE SpacesInv'
  <2>1. page' \in Views
    BY <1>2 DEF Spaces!SyncEnd, SpacesInv, PageTypes, Views
  <2> QED
    BY <1>2, <2>1 DEF Spaces!SyncEnd, Spaces!server, Spaces!browser, SpacesInv, BrowserTypes,
                      PageTypes, CallTypes
<1>3. ASSUME NEW s \in syncs, NEW r \in AccountRepos, Spaces!SyncStore(s, r) PROVE SpacesInv'
  <2>1. [s EXCEPT !.todo = s.todo \ {r}] \in Syncs
    BY <1>3 DEF SpacesInv, CallTypes, Syncs
  <2>2. syncs' \in SUBSET Syncs
    BY <1>3, <2>1 DEF Spaces!SyncStore, SpacesInv, CallTypes
  <2> QED
    BY <1>3, <2>2 DEF Spaces!SyncStore, Spaces!browser, SpacesInv, BrowserTypes, PageTypes,
       CallTypes
<1> QED
  BY <1>1, <1>2, <1>3

LEMMA SpacesKeeps == SpacesInv /\ [Spaces!Next]_spacesVars => SpacesInv'
<1> SUFFICES ASSUME SpacesInv, [Spaces!Next]_spacesVars PROVE SpacesInv'
  OBVIOUS
<1>1. ServerTypes'
  BY ServerKeeps
<1>2. ASSUME NEW l \in lists, Spaces!ListFails(l) PROVE SpacesInv'
  BY <1>1, <1>2 DEF Spaces!ListFails, Spaces!browser, SpacesInv, BrowserTypes, PageTypes,
     CallTypes
<1>3. ASSUME NEW p \in patches, Spaces!Patch(p) PROVE SpacesInv'
  BY <1>1, <1>3 DEF Spaces!Patch, Spaces!browser, SpacesInv, BrowserTypes, PageTypes, CallTypes
<1>4. CASE UNCHANGED spacesVars
  BY <1>1, <1>4 DEF spacesVars, SpacesInv, BrowserTypes, PageTypes, CallTypes
<1>5. TRUE \in BOOLEAN /\ FALSE \in BOOLEAN
  OBVIOUS
<1> QED
  BY <1>1, <1>2, <1>3, <1>4, <1>5, ServeKeeps, ReceiveKeeps, OpenKeeps, SelectKeeps,
     ChooseKeeps,
     ResolveKeeps, ArriveKeeps, SyncKeeps DEF Spaces!Next

\* What stores a repository's workspace stores a workspace once it had one.
LEMMA NothingOrphans ==
  ASSUME SpacesInv, [Spaces!Next]_spacesVars,
         NEW q \in AccountRepos, home[q] \in WorkspaceNames
  PROVE  home'[q] \in WorkspaceNames
<1>1. CASE home' = home
  BY <1>1
<1>2. ASSUME NEW p \in patches, Spaces!Patch(p) PROVE home'[q] \in WorkspaceNames
  <2>1. p[1] \in WorkspaceNames
    BY <1>2 DEF SpacesInv, CallTypes
  <2>2. home' = home \/ home' = [home EXCEPT ![p[2]] = p[1]]
    BY <1>2 DEF Spaces!Patch, Spaces!MoveIn
  <2> QED
    BY <2>1, <2>2 DEF SpacesInv, ServerTypes
<1>3. ASSUME NEW s \in syncs, NEW r \in AccountRepos, Spaces!SyncStore(s, r)
      PROVE  home'[q] \in WorkspaceNames
  <2>1. s.target \in Owners /\ home' = [home EXCEPT ![r] = Spaces!Stored(s, r)]
    BY <1>3 DEF Spaces!SyncStore, SpacesInv, CallTypes, Syncs
  <2>2. r = q => Spaces!Stored(s, r) \in WorkspaceNames
    BY <2>1, WorkspacesAssumption DEF Spaces!Stored, Owners
  <2> QED
    BY <2>1, <2>2 DEF SpacesInv, ServerTypes
<1> QED
  BY <1>1, <1>2, <1>3
     DEF Spaces!Next, spacesVars, Spaces!server, Spaces!OpenPage, Spaces!OpenWorkspace,
         Spaces!CreateWorkspace, Spaces!SelectWorkspace, Spaces!OpenFromDashboard, Spaces!Serve,
         Spaces!Receive, Spaces!ListFails, Spaces!ReposArrive, Spaces!Choose, Spaces!ResolveDefault,
         Spaces!SelectRepo, Spaces!SwitchRepository, Spaces!SyncStart, Spaces!SyncEnd

\* No synchronisation, however late, and no other step takes a repository out of
\* every workspace, for any workspaces, repositories and requests under way.
THEOREM NoRepositoryIsOrphaned == ServicesSpec => NeverOrphaned
<1>1. ServicesInit => SpacesInv
  BY SpacesInitially DEF ServicesInit
<1>2. SpacesInv /\ [ServicesNext]_servicesVars => SpacesInv'
  BY SpacesKeeps, StepsOfSpaces
<1>3. SpacesInv /\ [ServicesNext]_servicesVars =>
        [\A r \in AccountRepos : home[r] \in WorkspaceNames => home'[r] \in WorkspaceNames]_spacesVars
  BY NothingOrphans, StepsOfSpaces
<1> QED
  BY <1>1, <1>2, <1>3, PTL
     DEF ServicesSpec, NeverOrphaned, Spaces!NeverOrphaned, spacesVars, Spaces!vars
------------------------------------------------------------------------------
(* The vectors of an attempt.                                              *)

LEMMA StepsOfIndex == [ServicesNext]_servicesVars => [Index!Next]_indexVars
  BY DEF ServicesNext, servicesVars, indexVars

Stages == {"looking", "embedding", "caching", "storing", "ready", "failed"}

\* What is found for texts, and answered for chunks: to each its own vector.
Finds == {[h \in H |-> h] : H \in SUBSET Index!Hashes}
Embeddings(a) == {[i \in I |-> Index!Chunks(a)[i]] : I \in SUBSET DOMAIN Index!Chunks(a)}
States(a) == [pc : Stages, asked : SUBSET Index!Hashes, found : Finds,
              answers : Embeddings(a), upserted : Nat, tries : Nat]

\* An attempt r that writes its vectors has one for every missing chunk, one
\* that stores the chunks for every text; and what it went past is stored.
Complete(a, r, P) ==
  /\ r.pc \in {"looking", "embedding", "caching"} => r.upserted = 0
  /\ r.pc = "caching" => \A i \in DOMAIN Index!Chunks(a) :
                           Index!Chunks(a)[i] \notin DOMAIN r.found => i \in DOMAIN r.answers
  /\ r.pc \in {"storing", "ready"} =>
       /\ \A i \in DOMAIN Index!Chunks(a) : Index!Chunks(a)[i] \in DOMAIN r.found
       /\ \A i \in DOMAIN Index!Chunks(a) : i <= r.upserted => P[<<CommitOf[a], i>>] # None
  /\ r.pc = "ready" => r.upserted >= Len(Index!Chunks(a))

Stored(P) == /\ DOMAIN P = Index!Ids
             /\ \A id \in Index!Ids : P[id] \in {Texts[id[1]][id[2]], None}

IndexInv ==
  /\ DOMAIN cache = Index!Hashes /\ \A h \in Index!Hashes : cache[h] \in {h, None}
  /\ \A s \in sets : s.by \in Attempts /\ s.text \in Index!Hashes /\ s.vector = s.text
  /\ Stored(points)
  /\ DOMAIN attempt = Attempts
  /\ \A a \in Attempts : attempt[a] \in States(a) /\ Complete(a, attempt[a], points)

LEMMA ChunksAre ==
  ASSUME NEW a \in Attempts
  PROVE  /\ CommitOf[a] \in DOMAIN Texts /\ Index!Chunks(a) = Texts[CommitOf[a]]
         /\ DOMAIN Index!Chunks(a) = 1..Len(Index!Chunks(a)) /\ Len(Index!Chunks(a)) \in Nat
         /\ \A i \in DOMAIN Index!Chunks(a) :
              /\ Index!Chunks(a)[i] \in Index!Hashes /\ Index!Chunks(a)[i] # None
              /\ <<CommitOf[a], i>> \in Index!Ids
<1>1. CommitOf[a] \in DOMAIN Texts /\ Texts[CommitOf[a]] \in Seq(Index!Hashes)
  BY IndexingAssumption
<1>2. Index!Chunks(a) = Texts[CommitOf[a]]
  BY DEF Index!Chunks
<1>3. \A i \in DOMAIN Texts[CommitOf[a]] : <<CommitOf[a], i>> \in Index!Ids
  BY <1>1 DEF Index!Ids
<1>4. \A i \in DOMAIN Index!Chunks(a) : Index!Chunks(a)[i] \in Index!Hashes
  BY <1>1, <1>2
<1>5. None \notin Index!Hashes
  BY IndexingAssumption
<1> QED
  BY <1>1, <1>2, <1>3, <1>4, <1>5

LEMMA IdsAre ==
  ASSUME NEW id \in Index!Ids
  PROVE  /\ id[1] \in DOMAIN Texts /\ id[2] \in DOMAIN Texts[id[1]] /\ id = <<id[1], id[2]>>
  BY DEF Index!Ids

\* The steps that change one attempt, and nothing of the store.
LEMMA AttemptSteps ==
  ASSUME IndexInv, points' = points, sets' = sets, cache' = cache,
         NEW a \in Attempts, NEW r, attempt' = [attempt EXCEPT ![a] = r],
         r \in States(a), Complete(a, r, points)
  PROVE  IndexInv'
<1>1. \A b \in Attempts : attempt'[b] = IF b = a THEN r ELSE attempt[b]
  BY DEF IndexInv
<1>2. \A b \in Attempts : attempt'[b] \in States(b) /\ Complete(b, attempt'[b], points)
  BY <1>1 DEF IndexInv
<1>3. DOMAIN attempt' = Attempts
  BY DEF IndexInv
<1> HIDE DEF States, Complete
<1> QED
  BY <1>2, <1>3 DEF IndexInv

LEMMA FailsKeeps ==
  ASSUME IndexInv, points' = points, sets' = sets, cache' = cache,
         NEW a \in Attempts, Index!Fails(a)
  PROVE  IndexInv'
<1> DEFINE r == [attempt[a] EXCEPT !.pc = "failed"]
<1>1. attempt' = [attempt EXCEPT ![a] = r]
  BY DEF Index!Fails, Index!Goto
<1>2. attempt[a] \in States(a)
  BY DEF IndexInv
<1>3. r \in States(a) /\ r.pc = "failed"
  BY <1>2 DEF States, Stages
<1>4. Complete(a, r, points)
  BY <1>3 DEF Complete
<1> HIDE DEF r
<1> QED
  BY <1>1, <1>3, <1>4, AttemptSteps

LEMMA LookUpKeeps ==
  ASSUME IndexInv, NEW a \in Attempts, NEW h \in Index!Hashes, Index!LookUp(a, h)
  PROVE  IndexInv'
<1> DEFINE f == attempt[a].found
           g == IF cache[h] = None THEN f
                ELSE [t \in DOMAIN f \cup {h} |-> IF t = h THEN cache[h] ELSE f[t]]
           r == [attempt[a] EXCEPT !.asked = @ \cup {h}, !.found = g]
<1>1. points' = points /\ sets' = sets /\ cache' = cache
  BY DEF Index!LookUp
<1>2. CASE Index!Fails(a)
  BY <1>1, <1>2, FailsKeeps
<1>3. CASE ~ Index!Fails(a)
  <2>1. attempt' = [attempt EXCEPT ![a] = r] /\ attempt[a].pc = "looking"
    BY <1>3 DEF Index!LookUp, Index!At
  <2>2. attempt[a] \in States(a) /\ cache[h] \in {h, None} /\ attempt[a].upserted = 0
    BY <2>1 DEF IndexInv, Complete
  <2>3. PICK H \in SUBSET Index!Hashes : f = [t \in H |-> t]
    BY <2>2 DEF States, Finds
  <2>4. g \in Finds
    <3>1. CASE cache[h] = None
      BY <3>1, <2>3 DEF Finds
    <3>2. CASE cache[h] # None
      <4>1. g = [t \in H \cup {h} |-> t]
        BY <3>2, <2>2, <2>3
      <4> QED
        BY <4>1 DEF Finds
    <3> QED
      BY <3>1, <3>2
  <2> HIDE DEF g
  <2>5. r \in States(a) /\ r.pc = "looking" /\ r.upserted = 0
    BY <2>1, <2>2, <2>4 DEF States
  <2>6. Complete(a, r, points)
    BY <2>5 DEF Complete
  <2> HIDE DEF r
  <2> QED
    BY <1>1, <2>1, <2>5, <2>6, AttemptSteps
<1> QED
  BY <1>2, <1>3


LEMMA LookedUpKeeps == ASSUME IndexInv, NEW a \in Attempts, Index!LookedUp(a) PROVE IndexInv'
<1> DEFINE p == IF Index!Missing(a) = {} THEN "storing" ELSE "embedding"
           r == [attempt[a] EXCEPT !.pc = p]
<1>1. /\ points' = points /\ sets' = sets /\ cache' = cache
      /\ attempt' = [attempt EXCEPT ![a] = r] /\ attempt[a].pc = "looking"
  BY DEF Index!LookedUp, Index!Goto, Index!At
<1>2. attempt[a] \in States(a) /\ attempt[a].upserted = 0
  BY <1>1 DEF IndexInv, Complete
<1>3. p \in {"storing", "embedding"} /\ (p = "storing" => Index!Missing(a) = {})
  OBVIOUS
<1> HIDE DEF p
<1>4. /\ r \in States(a) /\ r.pc = p /\ r.upserted = 0
      /\ r.found = attempt[a].found /\ r.answers = attempt[a].answers
  BY <1>2, <1>3 DEF States, Stages
<1> HIDE DEF r
<1>5. p = "storing" => \A i \in DOMAIN Index!Chunks(a) : Index!Chunks(a)[i] \in DOMAIN r.found
  BY <1>3, <1>4 DEF Index!Missing
<1>6. \A i \in DOMAIN Index!Chunks(a) : ~ (i <= r.upserted)
  BY <1>4, ChunksAre
<1>7. Complete(a, r, points)
  BY <1>3, <1>4, <1>5, <1>6 DEF Complete
<1> QED
  BY <1>1, <1>4, <1>7, AttemptSteps

\* Whatever order the answer is in, every chunk gets its own vector.
LEMMA PlacedIs ==
  ASSUME NEW a \in Attempts, NEW B, NEW index \in [B -> B], {index[k] : k \in B} = B
  PROVE  Index!Placed(a, index) = [i \in B |-> Index!Chunks(a)[i]]
<1>1. ASSUME NEW i \in B
      PROVE  index[CHOOSE k \in DOMAIN index : index[k] = i] = i
  <2>1. \E k \in DOMAIN index : index[k] = i
    OBVIOUS
  <2> QED
    BY <2>1
<1> QED
  BY <1>1 DEF Index!Placed

LEMMA BatchKeeps ==
  ASSUME IndexInv, NEW a \in Attempts, NEW b, Index!Answer(a, b) PROVE IndexInv'
<1> DEFINE B == Index!Batch(a, b)
           f == attempt[a].answers
<1>1. /\ points' = points /\ sets' = sets /\ cache' = cache /\ attempt[a].pc = "embedding"
  BY DEF Index!Answer, Index!At
<1>2. CASE Index!Fails(a)
  BY <1>1, <1>2, FailsKeeps
<1>3. CASE ~ Index!Fails(a)
  <2>1. PICK index \in [B -> B] :
          /\ {index[k] : k \in B} = B
          /\ attempt' = [attempt EXCEPT ![a].answers =
               [i \in DOMAIN @ \cup B |-> IF i \in B THEN Index!Placed(a, index)[i] ELSE @[i]]]
    BY <1>3 DEF Index!Answer
  <2>2. B \subseteq DOMAIN Index!Chunks(a)
    BY DEF Index!Batch, Index!Missing
  <2>3. attempt[a] \in States(a) /\ attempt[a].upserted = 0
    BY <1>1 DEF IndexInv, Complete
  <2>4. PICK I \in SUBSET DOMAIN Index!Chunks(a) : f = [i \in I |-> Index!Chunks(a)[i]]
    BY <2>3 DEF States, Embeddings
  <2> DEFINE g == [i \in DOMAIN f \cup B |->
                     IF i \in B THEN Index!Placed(a, index)[i] ELSE f[i]]
             r == [attempt[a] EXCEPT !.answers = g]
  <2>5. attempt' = [attempt EXCEPT ![a] = r]
    BY <2>1
  <2>6. g \in Embeddings(a)
    <3>1. Index!Placed(a, index) = [i \in B |-> Index!Chunks(a)[i]]
      BY <2>1, PlacedIs
    <3>2. g = [i \in I \cup B |-> Index!Chunks(a)[i]]
      BY <3>1, <2>4
    <3> QED
      BY <3>2, <2>2 DEF Embeddings
  <2> HIDE DEF g
  <2>7. r \in States(a) /\ r.pc = "embedding" /\ r.upserted = 0
    BY <1>1, <2>3, <2>6 DEF States
  <2>8. Complete(a, r, points)
    BY <2>7 DEF Complete
  <2> HIDE DEF r
  <2> QED
    BY <1>1, <2>5, <2>7, <2>8, AttemptSteps
<1> QED
  BY <1>2, <1>3

\* Some numbers up to L have a greatest: the distances from L have a least.
LEMMA GreatestOf ==
  ASSUME NEW L \in Nat, NEW S \in SUBSET (1..L), S # {}
  PROVE  \E n \in S : \A m \in S : m <= n
<1> DEFINE D == {L - m : m \in S}
           Below == {p \in Nat \X Nat : p[1] < p[2]}
<1>1. D \in SUBSET Nat /\ D # {}
  <2>1. \A m \in S : L - m \in Nat
    OBVIOUS
  <2> QED
    BY <2>1
<1>2. IsWellFoundedOn(Below, Nat)
  BY NatLessThanWellFounded DEF OpToRel, IsWellFoundedOn
<1>3. \A x, y \in Nat : y < x => <<y, x>> \in Below
  OBVIOUS
<1> HIDE DEF Below
<1>4. PICK d \in D : \A e \in D : ~ (<<e, d>> \in Below)
  BY <1>1, <1>2, WFMin
<1>5. \A e \in D : e \in Nat /\ d \in Nat /\ ~ (e < d)
  BY <1>1, <1>3, <1>4, Zenon
<1>6. PICK n \in S : d = L - n
  OBVIOUS
<1>7. \A m \in S : m \in Nat /\ n \in Nat /\ ~ (L - m < L - n)
  BY <1>5, <1>6
<1> QED
  BY <1>7

LEMMA LastIs ==
  ASSUME NEW a \in Attempts, NEW h \in {Index!Chunks(a)[i] : i \in Index!Missing(a)}
  PROVE  Index!LastWith(a, h) \in Index!Missing(a) /\ Index!Chunks(a)[Index!LastWith(a, h)] = h
<1> DEFINE S == {i \in Index!Missing(a) : Index!Chunks(a)[i] = h}
<1>1. S # {} /\ S \subseteq 1..Len(Index!Chunks(a)) /\ Len(Index!Chunks(a)) \in Nat
  BY ChunksAre DEF Index!Missing
<1>2. \E i \in S : \A j \in S : j <= i
  BY <1>1, GreatestOf
<1>3. \E i \in Index!Missing(a) :
        /\ Index!Chunks(a)[i] = h
        /\ \A j \in Index!Missing(a) : Index!Chunks(a)[j] = h => j <= i
  BY <1>2
<1> QED
  BY <1>3 DEF Index!LastWith

LEMMA NewVectorsAre ==
  ASSUME IndexInv, NEW a \in Attempts,
         \A i \in DOMAIN Index!Chunks(a) :
           Index!Chunks(a)[i] \notin DOMAIN attempt[a].found => i \in DOMAIN attempt[a].answers
  PROVE  LET H == {Index!Chunks(a)[i] : i \in Index!Missing(a)}
         IN H \subseteq Index!Hashes /\ Index!NewVectors(a) = [h \in H |-> h]
<1> DEFINE H == {Index!Chunks(a)[i] : i \in Index!Missing(a)}
<1>1. attempt[a] \in States(a)
  BY DEF IndexInv
<1>2. PICK I \in SUBSET DOMAIN Index!Chunks(a) :
        attempt[a].answers = [i \in I |-> Index!Chunks(a)[i]]
  BY <1>1 DEF States, Embeddings
<1>3. Index!Missing(a) \subseteq I /\ H \subseteq Index!Hashes
  BY <1>2, ChunksAre DEF Index!Missing
<1>4. \A h \in H : attempt[a].answers[Index!LastWith(a, h)] = h
  BY <1>2, <1>3, LastIs
<1> QED
  BY <1>3, <1>4 DEF Index!NewVectors

LEMMA EmbeddedKeeps == ASSUME IndexInv, NEW a \in Attempts, Index!Embedded(a) PROVE IndexInv'
<1> DEFINE r == [attempt[a] EXCEPT !.pc = "caching"]
           H == {Index!Chunks(a)[i] : i \in Index!Missing(a)}
           N == Index!NewVectors(a)
<1>1. /\ points' = points /\ cache' = cache /\ attempt' = [attempt EXCEPT ![a] = r]
      /\ attempt[a].pc = "embedding" /\ Index!Missing(a) \subseteq DOMAIN attempt[a].answers
      /\ sets' = sets \cup {[by |-> a, text |-> h, vector |-> N[h]] : h \in DOMAIN N}
  BY DEF Index!Embedded, Index!Goto, Index!At
<1>2. attempt[a] \in States(a) /\ attempt[a].upserted = 0
  BY <1>1 DEF IndexInv, Complete
<1>3. \A i \in DOMAIN Index!Chunks(a) :
        Index!Chunks(a)[i] \notin DOMAIN attempt[a].found => i \in DOMAIN attempt[a].answers
  BY <1>1 DEF Index!Missing
<1>4. H \subseteq Index!Hashes /\ N = [h \in H |-> h]
  BY <1>3, NewVectorsAre
<1> HIDE DEF N, H
<1>5. /\ r \in States(a) /\ r.pc = "caching" /\ r.upserted = 0
      /\ r.found = attempt[a].found /\ r.answers = attempt[a].answers
  BY <1>2 DEF States, Stages
<1>6. Complete(a, r, points)
  BY <1>3, <1>5 DEF Complete
<1> HIDE DEF r
<1>7. \A b \in Attempts : attempt'[b] = IF b = a THEN r ELSE attempt[b]
  BY <1>1 DEF IndexInv
<1>8. \A b \in Attempts : attempt'[b] \in States(b) /\ Complete(b, attempt'[b], points)
  BY <1>5, <1>6, <1>7 DEF IndexInv
<1>9. \A s \in sets' : s.by \in Attempts /\ s.text \in Index!Hashes /\ s.vector = s.text
  BY <1>1, <1>4 DEF IndexInv
<1>10. DOMAIN attempt' = Attempts
  BY <1>1 DEF IndexInv
<1> HIDE DEF States, Complete
<1> QED
  BY <1>1, <1>8, <1>9, <1>10 DEF IndexInv

LEMMA SetKeeps == ASSUME IndexInv, NEW s \in sets, Index!Set(s) PROVE IndexInv'
<1>1. /\ points' = points /\ sets' = sets \ {s} /\ s.by \in Attempts /\ s.vector = s.text
      /\ s.text \in Index!Hashes
      /\ \/ cache' = [cache EXCEPT ![s.text] = s.vector] /\ attempt' = attempt
         \/ cache' = cache /\ (attempt' = attempt \/ Index!Fails(s.by))
  BY DEF Index!Set, IndexInv
<1>2. /\ DOMAIN cache' = Index!Hashes /\ \A h \in Index!Hashes : cache'[h] \in {h, None}
  BY <1>1 DEF IndexInv
<1>3. \A t \in sets' : t.by \in Attempts /\ t.text \in Index!Hashes /\ t.vector = t.text
  BY <1>1 DEF IndexInv
<1>4. /\ DOMAIN attempt' = Attempts
      /\ \A b \in Attempts : attempt'[b] \in States(b) /\ Complete(b, attempt'[b], points)
  <2>1. CASE attempt' = attempt
    BY <2>1 DEF IndexInv
  <2>2. CASE Index!Fails(s.by)
    <3> DEFINE r == [attempt[s.by] EXCEPT !.pc = "failed"]
    <3>1. attempt' = [attempt EXCEPT ![s.by] = r]
      BY <2>2 DEF Index!Fails, Index!Goto
    <3>2. attempt[s.by] \in States(s.by)
      BY <1>1 DEF IndexInv
    <3>3. r \in States(s.by) /\ r.pc = "failed"
      BY <3>2 DEF States, Stages
    <3>4. Complete(s.by, r, points)
      BY <3>3 DEF Complete
    <3> HIDE DEF r
    <3> QED
      BY <1>1, <3>1, <3>3, <3>4 DEF IndexInv
  <2> QED
    BY <1>1, <2>1, <2>2
<1> HIDE DEF States, Complete
<1> QED
  BY <1>1, <1>2, <1>3, <1>4 DEF IndexInv

LEMMA ExpiryKeeps == ASSUME IndexInv, NEW h \in Index!Hashes, Index!Expires(h) PROVE IndexInv'
<1>1. /\ points' = points /\ sets' = sets /\ attempt' = attempt
      /\ cache' = [cache EXCEPT ![h] = None]
  BY DEF Index!Expires
<1>2. /\ DOMAIN cache' = Index!Hashes /\ \A k \in Index!Hashes : cache'[k] \in {k, None}
  BY <1>1 DEF IndexInv
<1> HIDE DEF States, Complete
<1> QED
  BY <1>1, <1>2 DEF IndexInv

LEMMA CachedKeeps == ASSUME IndexInv, NEW a \in Attempts, Index!Cached(a) PROVE IndexInv'
<1> DEFINE f == attempt[a].found
           N == Index!NewVectors(a)
           T == Index!ToSet(Index!Chunks(a))
           H == {Index!Chunks(a)[i] : i \in Index!Missing(a)}
           g == [h \in T |-> IF h \in DOMAIN N THEN N[h] ELSE f[h]]
           r == [attempt[a] EXCEPT !.pc = "storing", !.found = g]
<1>1. /\ points' = points /\ sets' = sets /\ cache' = cache /\ attempt[a].pc = "caching"
      /\ attempt' = [attempt EXCEPT ![a] = r]
  BY DEF Index!Cached, Index!At
<1>2. /\ attempt[a] \in States(a) /\ attempt[a].upserted = 0
      /\ \A i \in DOMAIN Index!Chunks(a) :
           Index!Chunks(a)[i] \notin DOMAIN f => i \in DOMAIN attempt[a].answers
  BY <1>1 DEF IndexInv, Complete
<1>3. H \subseteq Index!Hashes /\ N = [h \in H |-> h]
  BY <1>2, NewVectorsAre
<1>4. PICK F \in SUBSET Index!Hashes : f = [h \in F |-> h]
  BY <1>2 DEF States, Finds
<1>5. T = {Index!Chunks(a)[i] : i \in DOMAIN Index!Chunks(a)}
  BY DEF Index!ToSet
<1>6. T \subseteq Index!Hashes /\ \A h \in T : h \in H \/ h \in F
  <2>1. DOMAIN f = F
    BY <1>4
  <2>2. \A i \in DOMAIN Index!Chunks(a) : Index!Chunks(a)[i] \in F \/ i \in Index!Missing(a)
    BY <2>1 DEF Index!Missing
  <2> HIDE DEF f
  <2>3. \A h \in T : h \in H \/ h \in F
    BY <2>2, <1>5
  <2> QED
    BY <2>3, <1>5, ChunksAre
<1> HIDE DEF N, H, T
<1>7. g = [h \in T |-> h] /\ g \in Finds
  <2>1. g = [h \in T |-> h]
    BY <1>3, <1>4, <1>6
  <2> QED
    BY <2>1, <1>6 DEF Finds
<1> HIDE DEF g
<1>8. r \in States(a) /\ r.pc = "storing" /\ r.upserted = 0 /\ r.found = g
  BY <1>2, <1>7 DEF States, Stages
<1> HIDE DEF r
<1>9. \A i \in DOMAIN Index!Chunks(a) :
        ~ (i <= r.upserted) /\ Index!Chunks(a)[i] \in DOMAIN r.found
  BY <1>5, <1>7, <1>8, ChunksAre
<1>10. Complete(a, r, points)
  BY <1>8, <1>9 DEF Complete
<1> QED
  BY <1>1, <1>8, <1>10, AttemptSteps

LEMMA ReadyKeeps == ASSUME IndexInv, NEW a \in Attempts, Index!Ready(a) PROVE IndexInv'
<1> DEFINE r == [attempt[a] EXCEPT !.pc = "ready"]
<1>1. /\ points' = points /\ sets' = sets /\ cache' = cache /\ attempt[a].pc = "storing"
      /\ attempt' = [attempt EXCEPT ![a] = r]
      /\ attempt[a].upserted >= Len(Index!Chunks(a))
  BY DEF Index!Ready, Index!Goto, Index!At
<1>2. attempt[a] \in States(a) /\ Complete(a, attempt[a], points)
  BY DEF IndexInv
<1>3. /\ r \in States(a) /\ r.pc = "ready" /\ r.upserted = attempt[a].upserted
      /\ r.found = attempt[a].found
  BY <1>2 DEF States, Stages
<1>4. Complete(a, r, points)
  BY <1>1, <1>2, <1>3 DEF Complete
<1> HIDE DEF r
<1> QED
  BY <1>1, <1>3, <1>4, AttemptSteps

\* A batch of points: to each chunk its own vector, and none is taken away.
LEMMA UpsertedIs ==
  ASSUME IndexInv, NEW a \in Attempts, attempt[a].pc = "storing"
  PROVE  /\ Stored(Index!Upserted(a))
         /\ \A id \in Index!Ids : points[id] # None => Index!Upserted(a)[id] # None
         /\ \A i \in DOMAIN Index!Chunks(a) :
              i <= attempt[a].upserted + qdrant_upsert_batch_size =>
                Index!Upserted(a)[<<CommitOf[a], i>>] # None
<1> DEFINE n == attempt[a].upserted
           U == Index!Upserted(a)
<1>1. /\ attempt[a] \in States(a) /\ n \in Nat /\ Complete(a, attempt[a], points)
      /\ Stored(points)
  BY DEF IndexInv, States
<1>2. \A i \in DOMAIN Index!Chunks(a) :
        attempt[a].found[Index!Chunks(a)[i]] = Index!Chunks(a)[i]
  BY <1>1 DEF States, Finds, Complete
<1>3. /\ DOMAIN U = Index!Ids
      /\ \A id \in Index!Ids :
           U[id] = IF id[1] = CommitOf[a] /\ id[2] > n /\ id[2] <= n + qdrant_upsert_batch_size
                   THEN attempt[a].found[Index!Chunks(a)[id[2]]] ELSE points[id]
  BY DEF Index!Upserted
<1> HIDE DEF U
<1>4. ASSUME NEW id \in Index!Ids, id[1] = CommitOf[a]
      PROVE  /\ id[2] \in DOMAIN Index!Chunks(a)
             /\ attempt[a].found[Index!Chunks(a)[id[2]]] = Texts[id[1]][id[2]]
             /\ attempt[a].found[Index!Chunks(a)[id[2]]] # None
  BY <1>2, <1>4, IdsAre, ChunksAre
<1>5. Stored(U)
  BY <1>1, <1>3, <1>4 DEF Stored
<1>6. \A id \in Index!Ids : points[id] # None => U[id] # None
  BY <1>3, <1>4
<1>7. ASSUME NEW i \in DOMAIN Index!Chunks(a), i <= n + qdrant_upsert_batch_size
      PROVE  U[<<CommitOf[a], i>>] # None
  <2>1. <<CommitOf[a], i>> \in Index!Ids /\ i \in Nat /\ n + qdrant_upsert_batch_size \in Nat
    BY <1>1, ChunksAre, IndexingAssumption
  <2>2. CASE i > n
    <3>1. U[<<CommitOf[a], i>>] = attempt[a].found[Index!Chunks(a)[i]]
      BY <1>3, <1>7, <2>1, <2>2
    <3> QED
      BY <3>1, <1>2, ChunksAre
  <2>3. CASE i <= n
    BY <2>1, <2>3, <1>1, <1>6 DEF Complete
  <2> QED
    BY <2>1, <2>2, <2>3, <1>1
<1> QED
  BY <1>5, <1>6, <1>7 DEF U

\* A step of an attempt that stores.
LEMMA StoringSteps ==
  ASSUME IndexInv, sets' = sets, cache' = cache, Stored(points'),
         \A id \in Index!Ids : points[id] # None => points'[id] # None,
         NEW a \in Attempts, NEW r, attempt' = [attempt EXCEPT ![a] = r],
         r \in States(a), Complete(a, r, points')
  PROVE  IndexInv'
<1>1. \A b \in Attempts : attempt'[b] = IF b = a THEN r ELSE attempt[b]
  BY DEF IndexInv
<1>2. \A b \in Attempts : Complete(b, attempt[b], points')
  <2> SUFFICES ASSUME NEW b \in Attempts PROVE Complete(b, attempt[b], points')
    OBVIOUS
  <2>1. Complete(b, attempt[b], points)
    BY DEF IndexInv
  <2>2. \A i \in DOMAIN Index!Chunks(b) : <<CommitOf[b], i>> \in Index!Ids
    BY ChunksAre
  <2> QED
    BY <2>1, <2>2 DEF Complete
<1>3. \A b \in Attempts : attempt'[b] \in States(b) /\ Complete(b, attempt'[b], points')
  BY <1>1, <1>2 DEF IndexInv
<1>4. DOMAIN attempt' = Attempts
  BY DEF IndexInv
<1>5. Stored(points)'
  BY DEF Stored
<1> HIDE DEF States, Complete, Stored
<1> QED
  BY <1>3, <1>4, <1>5 DEF IndexInv, Complete

LEMMA UpsertKeeps == ASSUME IndexInv, NEW a \in Attempts, Index!Upsert(a) PROVE IndexInv'
<1> DEFINE n == attempt[a].upserted + qdrant_upsert_batch_size
           r == [attempt[a] EXCEPT !.upserted = n]
<1>1. /\ sets' = sets /\ cache' = cache /\ points' = Index!Upserted(a)
      /\ attempt[a].pc = "storing" /\ attempt' = [attempt EXCEPT ![a] = r]
  BY DEF Index!Upsert, Index!At
<1>2. attempt[a] \in States(a) /\ Complete(a, attempt[a], points)
  BY DEF IndexInv
<1>3. n \in Nat
  BY <1>2, IndexingAssumption DEF States
<1>4. /\ Stored(points')
      /\ \A id \in Index!Ids : points[id] # None => points'[id] # None
      /\ \A i \in DOMAIN Index!Chunks(a) : i <= n => points'[<<CommitOf[a], i>>] # None
  BY <1>1, UpsertedIs
<1> HIDE DEF n
<1>5. r \in States(a) /\ r.pc = "storing" /\ r.upserted = n /\ r.found = attempt[a].found
  BY <1>1, <1>2, <1>3 DEF States
<1> HIDE DEF r
<1>6. Complete(a, r, points')
  BY <1>1, <1>2, <1>4, <1>5 DEF Complete
<1> QED
  BY <1>1, <1>4, <1>5, <1>6, StoringSteps

LEMMA UpsertFailsKeeps ==
  ASSUME IndexInv, NEW a \in Attempts, Index!UpsertFails(a) PROVE IndexInv'
<1>1. /\ sets' = sets /\ cache' = cache /\ points' \in {points, Index!Upserted(a)}
      /\ attempt[a].pc = "storing"
  BY DEF Index!UpsertFails, Index!At
<1>2. attempt[a] \in States(a) /\ Complete(a, attempt[a], points)
  BY DEF IndexInv
<1>3. /\ Stored(points')
      /\ \A id \in Index!Ids : points[id] # None => points'[id] # None
  BY <1>1, UpsertedIs DEF IndexInv
<1>4. CASE attempt' = [attempt EXCEPT ![a].upserted = 0, ![a].tries = @ + 1]
  <2> DEFINE r == [attempt[a] EXCEPT !.upserted = 0, !.tries = @ + 1]
  <2>1. attempt' = [attempt EXCEPT ![a] = r]
    BY <1>4
  <2>2. r \in States(a) /\ r.pc = "storing" /\ r.upserted = 0 /\ r.found = attempt[a].found
    <3>1. attempt[a].tries + 1 \in Nat
      BY <1>2 DEF States
    <3> QED
      BY <3>1, <1>1, <1>2 DEF States
  <2> HIDE DEF r
  <2>3. \A i \in DOMAIN Index!Chunks(a) : ~ (i <= r.upserted)
    BY <2>2, ChunksAre
  <2>4. Complete(a, r, points')
    BY <1>1, <1>2, <2>2, <2>3 DEF Complete
  <2> QED
    BY <1>1, <1>3, <2>1, <2>2, <2>4, StoringSteps
<1>5. CASE Index!Fails(a)
  <2> DEFINE r == [attempt[a] EXCEPT !.pc = "failed"]
  <2>1. attempt' = [attempt EXCEPT ![a] = r]
    BY <1>5 DEF Index!Fails, Index!Goto
  <2>2. r \in States(a) /\ r.pc = "failed"
    BY <1>2 DEF States, Stages
  <2>3. Complete(a, r, points')
    BY <2>2 DEF Complete
  <2> HIDE DEF r
  <2> QED
    BY <1>1, <1>3, <2>1, <2>2, <2>3, StoringSteps
<1> QED
  BY <1>4, <1>5 DEF Index!UpsertFails

LEMMA IndexInitially == Index!Init => IndexInv
<1> SUFFICES ASSUME Index!Init PROVE IndexInv
  OBVIOUS
<1>1. /\ cache = [h \in Index!Hashes |-> None] /\ sets = {}
      /\ points = [id \in Index!Ids |-> None] /\ DOMAIN attempt = Attempts
  BY DEF Index!Init
<1>2. ASSUME NEW a \in Attempts
      PROVE  attempt[a] \in States(a) /\ Complete(a, attempt[a], points)
  <2>1. attempt[a] = [pc |-> "looking", asked |-> {}, found |-> <<>>, answers |-> <<>>,
                      upserted |-> 0, tries |-> 1]
    BY <1>2 DEF Index!Init
  <2>2. <<>> \in Finds /\ <<>> \in Embeddings(a)
    <3>1. <<>> = [h \in {} |-> h] /\ <<>> = [i \in {} |-> Index!Chunks(a)[i]]
      OBVIOUS
    <3> QED
      BY <3>1 DEF Finds, Embeddings
  <2> QED
    BY <2>1, <2>2 DEF States, Stages, Complete
<1> QED
  BY <1>1, <1>2 DEF IndexInv, Stored

LEMMA IndexRests == ASSUME IndexInv, UNCHANGED indexVars PROVE IndexInv'
<1> HIDE DEF States, Complete
<1> QED
  BY DEF IndexInv, indexVars, Stored, Complete, Embeddings

LEMMA IndexKeeps == IndexInv /\ [Index!Next]_indexVars => IndexInv'
<1> SUFFICES ASSUME IndexInv, [Index!Next]_indexVars PROVE IndexInv'
  OBVIOUS
<1>1. CASE \E a \in Attempts : \/ \E h \in Index!Hashes : Index!LookUp(a, h)
                               \/ \E b \in Index!Batches(a) : Index!Answer(a, b)
                               \/ Index!LookedUp(a) \/ Index!Embedded(a) \/ Index!Cached(a)
  BY <1>1, LookUpKeeps, BatchKeeps, LookedUpKeeps, EmbeddedKeeps, CachedKeeps
<1>2. CASE \E a \in Attempts : Index!Upsert(a) \/ Index!UpsertFails(a) \/ Index!Ready(a)
  BY <1>2, UpsertKeeps, UpsertFailsKeeps, ReadyKeeps
<1>3. CASE (\E s \in sets : Index!Set(s)) \/ \E h \in Index!Hashes : Index!Expires(h)
  BY <1>3, SetKeeps, ExpiryKeeps
<1> QED
  BY <1>1, <1>2, <1>3, IndexRests DEF Index!Next

LEMMA IndexedIsSound == IndexInv => Index!EveryTextHasItsVector
<1> SUFFICES ASSUME IndexInv PROVE Index!EveryTextHasItsVector
  OBVIOUS
<1>1. ASSUME NEW a \in Attempts, Index!At(a, "ready"), NEW i \in DOMAIN Index!Chunks(a)
      PROVE  points[<<CommitOf[a], i>>] # None
  <2>1. /\ Complete(a, attempt[a], points) /\ attempt[a].pc = "ready"
        /\ attempt[a].upserted \in Nat
    BY <1>1 DEF IndexInv, States, Index!At
  <2>2. i <= attempt[a].upserted
    BY <2>1, ChunksAre DEF Complete
  <2> QED
    BY <2>1, <2>2 DEF Complete
<1>2. /\ \A h \in Index!Hashes : cache[h] \in {h, None}
      /\ \A id \in Index!Ids : points[id] \in {Texts[id[1]][id[2]], None}
  BY DEF IndexInv, Stored
<1> QED
  BY <1>1, <1>2 DEF Index!EveryTextHasItsVector

\* Every text is cached and stored with its own vector and a commit that is
\* ready is stored whole, whatever the commits, the sizes of the batches and
\* the attempts (embed_with_cache, embed_chunks, upsert_chunks).
THEOREM TextsGetTheirVectors == ServicesSpec => []EveryTextHasItsVector
<1>1. ServicesInit => IndexInv
  BY IndexInitially DEF ServicesInit
<1>2. IndexInv /\ [ServicesNext]_servicesVars => IndexInv'
  BY StepsOfIndex, IndexKeeps
<1>3. IndexInv => EveryTextHasItsVector
  BY IndexedIsSound DEF EveryTextHasItsVector
<1> QED
  BY <1>1, <1>2, <1>3, PTL DEF ServicesSpec
------------------------------------------------------------------------------
(* The history of a conversation.                                          *)

LEMMA StepsOfTalk == [ServicesNext]_servicesVars => [Talk!Next]_talkVars
  BY DEF ServicesNext, servicesVars, talkVars

Most == conversation_history_max_messages
Said == [turn : Turns, role : {"user", "assistant"}]
Turn == [pc : {"new", "answering", "storing", "over"}, history : Seq(Said), record : Seq(Said)]

\* A record is within the bound, made of whole turns, and nothing in it was not
\* appended.
Sound(s) == /\ s \in Seq(Said) /\ Len(s) <= Most /\ Talk!Whole(s)
            /\ \A i \in 1..Len(s) : \E j \in 1..Len(answered) : s[i] = answered[j]

TalkTypes == /\ turn \in [Turns -> Turn] /\ answered \in Seq(Said) /\ spoilt \in BOOLEAN
\* Only a turn that is over has appended its messages.
AnsweredInv == \A j \in 1..Len(answered) : turn[answered[j].turn].pc = "over"
SoundInv == /\ Sound(stored)
            /\ \A t \in Turns : Sound(turn[t].record) /\ Talk!Whole(turn[t].history)
\* While nothing was disturbed the record is the newest that was said, and the
\* one turn about to store it has loaded just that.
NewestInv == ~ spoilt =>
  /\ stored = Talk!Newest(answered)
  /\ \A t \in Turns : turn[t].pc = "storing" => turn[t].record = stored
  /\ \A t, u \in Turns : turn[t].pc = "storing" /\ turn[u].pc = "storing" => t = u
TalkInv == TalkTypes /\ AnsweredInv /\ SoundInv /\ NewestInv
------------------------------------------------------------------------------
(* The end of a sequence.                                                  *)

LEMMA NewestIs ==
  ASSUME NEW S, NEW s \in Seq(S)
  PROVE  LET e == Talk!Newest(s)
         IN /\ e \in Seq(S) /\ Len(e) = (IF Len(s) > Most THEN Most ELSE Len(s))
            /\ \A i \in 1..Len(e) : e[i] = s[Len(s) - Len(e) + i]
<1> DEFINE k == IF Len(s) > Most THEN Most ELSE Len(s)
           a == Len(s) - k
<1>1. Len(s) \in Nat /\ Most \in Nat /\ Most >= 1
  BY HistoryAssumption DEF Most
<1>2. k \in 0..Len(s) /\ a \in Nat /\ a + k = Len(s)
  BY <1>1
<1>3. Talk!Newest(s) = SubSeq(s, a + 1, Len(s))
  <2>1. (IF Len(s) > Most THEN Len(s) - Most + 1 ELSE 1) = a + 1
    BY <1>1
  <2> HIDE DEF a
  <2> QED
    BY <2>1 DEF Talk!Newest, Most
<1> HIDE DEF a
<1> SUFFICES /\ Talk!Newest(s) \in Seq(S) /\ Len(Talk!Newest(s)) = k
             /\ \A i \in 1..k : Talk!Newest(s)[i] = s[a + i]
  BY <1>2 DEF a
<1> HIDE DEF k
<1>4. \A i \in 1..k : i + a \in 1..Len(s) /\ s[i + a] \in S
  <2>1. \A i \in 1..k : i + a \in 1..Len(s)
    BY <1>1, <1>2
  <2> QED
    BY <2>1
<1>5. SubSeq(s, a + 1, Len(s)) = [i \in 1..k |-> s[i + a]]
  BY <1>1, <1>2
<1>6. k \in Nat
  BY <1>1, <1>2
<1>7. [i \in 1..k |-> s[i + a]] \in Seq(S) /\ Len([i \in 1..k |-> s[i + a]]) = k
  BY <1>4, <1>6
<1>8. \A i \in 1..k : s[i + a] = s[a + i]
  BY <1>2
<1> QED
  BY <1>3, <1>5, <1>7, <1>8

LEMMA AppendedIs ==
  ASSUME NEW S, NEW s \in Seq(S), NEW m \in Seq(S)
  PROVE  /\ s \o m \in Seq(S) /\ Len(s \o m) = Len(s) + Len(m)
         /\ \A i \in 1..Len(s) : (s \o m)[i] = s[i]
         /\ \A i \in 1..Len(m) : (s \o m)[Len(s) + i] = m[i]
  OBVIOUS

LEMMA SameSequence ==
  ASSUME NEW S, NEW s \in Seq(S), NEW e \in Seq(S), Len(s) = Len(e),
         \A i \in 1..Len(s) : s[i] = e[i]
  PROVE  s = e
  OBVIOUS

\* To keep the newest of what was kept and of what is new is to keep the newest
\* of all.
LEMMA NewestOfNewest ==
  ASSUME NEW S, NEW s \in Seq(S), NEW m \in Seq(S)
  PROVE  Talk!Newest(Talk!Newest(s) \o m) = Talk!Newest(s \o m)
<1> DEFINE n == Talk!Newest(s)
           p == Talk!Newest(n \o m)
           q == Talk!Newest(s \o m)
<1>1. /\ n \in Seq(S) /\ Len(n) = (IF Len(s) > Most THEN Most ELSE Len(s))
      /\ \A i \in 1..Len(n) : n[i] = s[Len(s) - Len(n) + i]
  BY NewestIs
<1> HIDE DEF n
<1>1a. n \in Seq(S)
  BY <1>1
<1>2. /\ n \o m \in Seq(S) /\ Len(n \o m) = Len(n) + Len(m)
      /\ \A i \in 1..Len(n) : (n \o m)[i] = n[i]
      /\ \A i \in 1..Len(m) : (n \o m)[Len(n) + i] = m[i]
  BY <1>1a, AppendedIs
<1>3. /\ s \o m \in Seq(S) /\ Len(s \o m) = Len(s) + Len(m)
      /\ \A i \in 1..Len(s) : (s \o m)[i] = s[i]
      /\ \A i \in 1..Len(m) : (s \o m)[Len(s) + i] = m[i]
  BY AppendedIs
<1>4. /\ p \in Seq(S) /\ Len(p) = (IF Len(n \o m) > Most THEN Most ELSE Len(n \o m))
      /\ \A i \in 1..Len(p) : p[i] = (n \o m)[Len(n \o m) - Len(p) + i]
  BY <1>2, NewestIs
<1>5. /\ q \in Seq(S) /\ Len(q) = (IF Len(s \o m) > Most THEN Most ELSE Len(s \o m))
      /\ \A i \in 1..Len(q) : q[i] = (s \o m)[Len(s \o m) - Len(q) + i]
  BY <1>3, NewestIs
<1> HIDE DEF p, q
<1>6. Len(s) \in Nat /\ Len(m) \in Nat /\ Len(n) \in Nat /\ Most \in Nat
  BY <1>1, HistoryAssumption DEF Most
<1>7. Len(p) = Len(q) /\ Len(p) \in Nat
  BY <1>1, <1>2, <1>3, <1>4, <1>5, <1>6
<1>8. ASSUME NEW i \in 1..Len(p) PROVE p[i] = q[i]
  <2> DEFINE x == Len(n) + Len(m) - Len(p) + i
             y == Len(s) + Len(m) - Len(p) + i
  <2>1. p[i] = (n \o m)[x] /\ q[i] = (s \o m)[y]
    <3>1. p[i] = (n \o m)[Len(n \o m) - Len(p) + i]
      BY <1>4
    <3>2. q[i] = (s \o m)[Len(s \o m) - Len(q) + i]
      BY <1>5, <1>7
    <3> QED
      BY <3>1, <3>2, <1>2, <1>3, <1>7
  <2>2. Len(p) <= Len(n) + Len(m) /\ Len(n) <= Len(s)
    BY <1>1, <1>2, <1>4, <1>6
  <2>3. x \in 1..(Len(n) + Len(m)) /\ y \in 1..(Len(s) + Len(m)) /\ y - Len(s) = x - Len(n)
    BY <2>2, <1>6, <1>7
  <2> HIDE DEF x, y
  <2>4. CASE x <= Len(n)
    <3>1. x \in 1..Len(n) /\ y \in 1..Len(s) /\ y = Len(s) - Len(n) + x
      BY <2>2, <2>3, <2>4, <1>6
    <3> QED
      BY <3>1, <2>1, <1>1, <1>2, <1>3
  <2>5. CASE x > Len(n)
    <3> DEFINE z == x - Len(n)
    <3>1. z \in 1..Len(m) /\ x = Len(n) + z /\ y = Len(s) + z
      BY <2>3, <2>5, <1>6
    <3> HIDE DEF z
    <3> QED
      BY <3>1, <2>1, <1>2, <1>3
  <2> QED
    BY <2>3, <2>4, <2>5, <1>6
<1>9. p = q
  BY <1>4, <1>5, <1>7, <1>8, SameSequence
<1> QED
  BY <1>9 DEF p, q, n
------------------------------------------------------------------------------
(* Whole turns.                                                            *)

LEMMA WholeMeans ==
  ASSUME NEW s \in Seq(Said)
  PROVE  Talk!Whole(s) <=>
           /\ \A i, j \in 1..Len(s) : s[i] = s[j] => i = j
           /\ \A i \in 1..Len(s) : s[i].role = "user" =>
                i < Len(s) /\ s[i + 1] = [s[i] EXCEPT !.role = "assistant"]
<1>1. DOMAIN s = 1..Len(s)
  OBVIOUS
<1> QED
  BY <1>1 DEF Talk!Whole

\* The newest messages of whole turns are whole turns, but for the first answer.
LEMMA NewestIsWhole ==
  ASSUME NEW s \in Seq(Said), Talk!Whole(s) PROVE Talk!Whole(Talk!Newest(s))
<1> DEFINE e == Talk!Newest(s)
<1>1. /\ e \in Seq(Said) /\ Len(e) = (IF Len(s) > Most THEN Most ELSE Len(s))
      /\ \A i \in 1..Len(e) : e[i] = s[Len(s) - Len(e) + i]
  BY NewestIs
<1> HIDE DEF e
<1> DEFINE a == Len(s) - Len(e)
<1>2. Len(s) \in Nat /\ Len(e) \in Nat /\ Len(e) <= Len(s) /\ a \in Nat /\ a + Len(e) = Len(s)
  BY <1>1, HistoryAssumption DEF Most
<1>3. \A i \in 1..Len(e) : e[i] = s[a + i] /\ a + i \in 1..Len(s)
  BY <1>1, <1>2
<1> HIDE DEF a
<1>4. /\ \A i, j \in 1..Len(s) : s[i] = s[j] => i = j
      /\ \A i \in 1..Len(s) : s[i].role = "user" =>
           i < Len(s) /\ s[i + 1] = [s[i] EXCEPT !.role = "assistant"]
  BY WholeMeans
<1>5. \A i, j \in 1..Len(e) : e[i] = e[j] => i = j
  <2> SUFFICES ASSUME NEW i \in 1..Len(e), NEW j \in 1..Len(e), e[i] = e[j] PROVE i = j
    OBVIOUS
  <2>1. a + i = a + j
    BY <1>3, <1>4
  <2> QED
    BY <2>1, <1>2
<1>6. ASSUME NEW i \in 1..Len(e), e[i].role = "user"
      PROVE  i < Len(e) /\ e[i + 1] = [e[i] EXCEPT !.role = "assistant"]
  <2>1. a + i < Len(s) /\ s[a + i + 1] = [s[a + i] EXCEPT !.role = "assistant"]
    BY <1>3, <1>4, <1>6
  <2>2. i < Len(e) /\ i + 1 \in 1..Len(e) /\ a + (i + 1) = a + i + 1
    BY <2>1, <1>2
  <2> QED
    BY <2>1, <2>2, <1>3
<1>7. Talk!Whole(e)
  BY <1>1, <1>5, <1>6, WholeMeans
<1> QED
  BY <1>7 DEF e

\* A turn's two messages after whole turns that are not it.
LEMMA WholeGrows ==
  ASSUME NEW s \in Seq(Said), Talk!Whole(s), NEW t \in Turns, \A i \in 1..Len(s) : s[i].turn # t
  PROVE  Talk!Whole(s \o Talk!Messages(t)) /\ Talk!Messages(t) \in Seq(Said)
<1> DEFINE m == Talk!Messages(t)
           r == s \o m
           L == Len(s)
<1>1. /\ m \in Seq(Said) /\ Len(m) = 2 /\ m[1] # m[2]
      /\ m[1] = [turn |-> t, role |-> "user"] /\ m[2] = [turn |-> t, role |-> "assistant"]
  BY DEF Talk!Messages, Said
<1> HIDE DEF m
<1>2. /\ r \in Seq(Said) /\ Len(r) = L + 2
      /\ \A i \in 1..L : r[i] = s[i]
      /\ \A i \in 1..2 : r[L + i] = m[i]
  <2>1. m \in Seq(Said)
    BY <1>1
  <2>2. /\ r \in Seq(Said) /\ Len(r) = L + Len(m)
        /\ \A i \in 1..L : r[i] = s[i]
        /\ \A i \in 1..Len(m) : r[L + i] = m[i]
    BY <2>1, AppendedIs
  <2> QED
    BY <2>2, <1>1
<1> HIDE DEF r
<1>3. L \in Nat /\ r[L + 1] = m[1] /\ r[L + 2] = m[2]
  BY <1>2
<1>4. \A i \in 1..Len(r) : i \in 1..L \/ i = L + 1 \/ i = L + 2
  BY <1>2, <1>3
<1>5. /\ \A i, j \in 1..L : s[i] = s[j] => i = j
      /\ \A i \in 1..L : s[i].role = "user" =>
           i < L /\ s[i + 1] = [s[i] EXCEPT !.role = "assistant"]
  BY WholeMeans
<1> HIDE DEF L
<1>6. /\ m[1].turn = t /\ m[1].role = "user" /\ m[2].turn = t /\ m[2].role = "assistant"
      /\ m[2] = [m[1] EXCEPT !.role = "assistant"]
  BY <1>1
<1>7. \A i, j \in 1..Len(r) : r[i] = r[j] => i = j
  <2>1. \A i \in 1..L : r[i].turn # t
    BY <1>2 DEF L
  <2>2. \A i \in 1..L : r[i] # m[1] /\ r[i] # m[2]
    BY <2>1, <1>6
  <2> QED
    BY <2>2, <1>1, <1>2, <1>3, <1>4, <1>5
<1>8. ASSUME NEW i \in 1..Len(r), r[i].role = "user"
      PROVE  i < Len(r) /\ r[i + 1] = [r[i] EXCEPT !.role = "assistant"]
  <2>1. CASE i \in 1..L
    <3>1. s[i].role = "user"
      BY <1>2, <1>8, <2>1
    <3>2. i < L /\ s[i + 1] = [s[i] EXCEPT !.role = "assistant"]
      BY <3>1, <2>1, <1>5
    <3>3. i + 1 \in 1..L
      BY <3>2, <2>1, <1>3
    <3> QED
      BY <3>2, <3>3, <2>1, <1>2, <1>3
  <2>2. CASE i = L + 1
    <3>1. i + 1 = L + 2 /\ i < Len(r)
      BY <2>2, <1>2, <1>3
    <3> QED
      BY <3>1, <2>2, <1>3, <1>6
  <2>3. CASE i = L + 2
    BY <2>3, <1>3, <1>6, <1>8
  <2> QED
    BY <2>1, <2>2, <2>3, <1>4
<1>9. Talk!Whole(r)
  BY <1>2, <1>7, <1>8, WholeMeans
<1> QED
  BY <1>1, <1>9 DEF r, m
------------------------------------------------------------------------------
LEMMA EmptyIsSound == Sound(<<>>) /\ Talk!Whole(<<>>)
<1>1. <<>> \in Seq(Said) /\ Len(<<>>) = 0
  OBVIOUS
<1>2. Talk!Whole(<<>>)
  BY DEF Talk!Whole
<1>3. Most \in Nat
  BY HistoryAssumption DEF Most
<1> QED
  BY <1>1, <1>2, <1>3 DEF Sound

LEMMA TalkInitially == Talk!Init => TalkInv
<1> SUFFICES ASSUME Talk!Init PROVE TalkInv
  OBVIOUS
<1>1. /\ stored = <<>> /\ answered = <<>> /\ spoilt = FALSE
      /\ \A t \in Turns : turn[t] = [pc |-> "new", history |-> <<>>, record |-> <<>>]
      /\ turn = [t \in Turns |-> [pc |-> "new", history |-> <<>>, record |-> <<>>]]
  BY DEF Talk!Init
<1>2. <<>> \in Seq(Said) /\ Len(<<>>) = 0
  OBVIOUS
<1>3. TalkTypes
  BY <1>1, <1>2 DEF TalkTypes, Turn
<1>4. AnsweredInv
  BY <1>1, <1>2 DEF AnsweredInv
<1>5. SoundInv
  BY <1>1, EmptyIsSound DEF SoundInv
<1>6. Talk!Newest(answered) = <<>>
  <2>1. answered \in Seq(Said) /\ Len(answered) = 0 /\ Most \in Nat
    BY <1>1, <1>2, HistoryAssumption DEF Most
  <2>2. /\ Talk!Newest(answered) \in Seq(Said)
        /\ Len(Talk!Newest(answered)) = (IF Len(answered) > Most THEN Most ELSE Len(answered))
    BY <2>1, NewestIs
  <2>3. Len(Talk!Newest(answered)) = 0
    BY <2>1, <2>2
  <2> QED
    BY <2>2, <2>3
<1>7. NewestInv
  BY <1>1, <1>6 DEF NewestInv
<1> QED
  BY <1>3, <1>4, <1>5, <1>7 DEF TalkInv

LEMMA SoundStays ==
  ASSUME NEW s, Sound(s), answered \in Seq(Said), NEW m \in Seq(Said),
         answered' = answered \/ answered' = answered \o m
  PROVE  Sound(s)'
<1>1. \A j \in 1..Len(answered) : j \in 1..Len(answered') /\ answered'[j] = answered[j]
  <2>1. CASE answered' = answered
    BY <2>1
  <2>2. CASE answered' = answered \o m
    <3>1. Len(answered') = Len(answered) + Len(m) /\ Len(answered) \in Nat /\ Len(m) \in Nat
          /\ \A j \in 1..Len(answered) : answered'[j] = answered[j]
      BY <2>2, AppendedIs
    <3> QED
      BY <3>1
  <2> QED
    BY <2>1, <2>2
<1> QED
  BY <1>1 DEF Sound, Talk!Whole

\* Steps that append nothing: what a turn loads is sound, and one that is over
\* stays so.
LEMMA QuietTalk ==
  ASSUME TalkInv, answered' = answered, turn' \in [Turns -> Turn], spoilt' \in BOOLEAN,
         stored' = stored \/ stored' = <<>>,
         \A t \in Turns : turn[t].pc = "over" => turn'[t].pc = "over",
         \A t \in Turns : turn'[t].record = turn[t].record \/ turn'[t].record = stored,
         \A t \in Turns : \/ turn'[t].history = turn[t].history
                          \/ turn'[t].history = Talk!Newest(stored)
  PROVE  TalkTypes' /\ AnsweredInv' /\ SoundInv'
<1>1. TalkTypes'
  BY DEF TalkInv, TalkTypes
<1>2. AnsweredInv'
  <2> SUFFICES ASSUME NEW j \in 1..Len(answered) PROVE turn'[answered[j].turn].pc = "over"
    BY DEF AnsweredInv
  <2>1. answered \in Seq(Said)
    BY DEF TalkInv, TalkTypes
  <2>2. answered[j] \in Said
    BY <2>1
  <2>3. answered[j].turn \in Turns
    BY <2>2 DEF Said
  <2>4. turn[answered[j].turn].pc = "over"
    BY DEF TalkInv, AnsweredInv
  <2> QED
    BY <2>3, <2>4
<1>3. ASSUME NEW s, Sound(s) PROVE Sound(s)'
  BY <1>3 DEF Sound, Talk!Whole
<1>4. Sound(stored)'
  <2>1. Sound(stored') => Sound(stored)'
    BY DEF Sound, Talk!Whole
  <2> QED
    BY <2>1, EmptyIsSound DEF TalkInv, SoundInv
<1>5. ASSUME NEW t \in Turns PROVE Sound(turn[t].record)' /\ Talk!Whole(turn[t].history)'
  <2>1. PICK r : r = turn'[t].record
    OBVIOUS
  <2>1a. Sound(stored) /\ Sound(turn[t].record)
    BY DEF TalkInv, SoundInv
  <2>1b. r = turn[t].record \/ r = stored
    BY <2>1
  <2>2. Sound(r)
    <3>1. CASE r = stored
      BY <3>1, <2>1a
    <3>2. CASE r = turn[t].record
      BY <3>2, <2>1a
    <3> QED
      BY <3>1, <3>2, <2>1b
  <2>2a. Sound(r)'
    BY <2>2, <1>3
  <2>3. Sound(turn[t].record)'
    <3>1. /\ r \in Seq(Said) /\ Len(r) <= Most /\ Talk!Whole(r)
          /\ \A i \in 1..Len(r) : \E j \in 1..Len(answered') : r[i] = answered'[j]
      BY <2>2a DEF Sound, Talk!Whole
    <3>2. /\ turn'[t].record \in Seq(Said) /\ Len(turn'[t].record) <= Most
          /\ Talk!Whole(turn[t].record)'
      BY <3>1, <2>1 DEF Talk!Whole
    <3>3. \A i \in 1..Len(turn'[t].record) :
            \E j \in 1..Len(answered') : turn'[t].record[i] = answered'[j]
      BY <3>1, <2>1
    <3> QED
      BY <3>2, <3>3 DEF Sound
  <2>4. PICK h : h = turn'[t].history
    OBVIOUS
  <2>5. Talk!Whole(h)
    BY <2>4, NewestIsWhole DEF TalkInv, SoundInv, Sound
  <2>6. Talk!Whole(turn[t].history)'
    BY <2>4, <2>5 DEF Talk!Whole
  <2> QED
    BY <2>3, <2>6
<1>6. SoundInv'
  BY <1>4, <1>5 DEF SoundInv
<1> QED
  BY <1>1, <1>2, <1>6

LEMMA LoadHistoryKeeps == ASSUME TalkInv, NEW t \in Turns, Talk!LoadHistory(t) PROVE TalkInv'
<1>1. /\ turn[t].pc = "new" /\ UNCHANGED <<stored, answered, spoilt>>
      /\ \/ turn' = [turn EXCEPT ![t].pc = "answering", ![t].history = Talk!Newest(stored)]
         \/ turn' = [turn EXCEPT ![t].pc = "answering"]
  BY DEF Talk!LoadHistory, Talk!At, Talk!Goto
<1>2. Talk!Newest(stored) \in Seq(Said) /\ turn \in [Turns -> Turn]
  BY NewestIs DEF TalkInv, TalkTypes, SoundInv, Sound
<1>3. /\ turn' \in [Turns -> Turn]
      /\ \A u \in Turns : turn'[u].record = turn[u].record
      /\ \A u \in Turns : turn'[u].history \in {turn[u].history, Talk!Newest(stored)}
      /\ \A u \in Turns : u # t => turn'[u] = turn[u]
      /\ turn'[t].pc = "answering"
  <2> DEFINE n == Talk!Newest(stored)
  <2> HIDE DEF n
  <2>0. n \in Seq(Said)
    BY <1>2 DEF n
  <2>1. CASE turn' = [turn EXCEPT ![t].pc = "answering", ![t].history = n]
    BY <2>0, <2>1, <1>2 DEF Turn, n
  <2>2. CASE turn' = [turn EXCEPT ![t].pc = "answering"]
    BY <2>2, <1>2 DEF Turn
  <2> QED
    BY <1>1, <2>1, <2>2 DEF n
<1>4. TalkTypes' /\ AnsweredInv' /\ SoundInv'
  BY <1>1, <1>3, QuietTalk DEF TalkInv, TalkTypes
<1>5. NewestInv'
  BY <1>1, <1>3 DEF TalkInv, NewestInv, Talk!Newest
<1> QED
  BY <1>4, <1>5 DEF TalkInv

LEMMA GiveUpKeeps == ASSUME TalkInv, NEW t \in Turns, Talk!GiveUp(t) PROVE TalkInv'
<1>1. UNCHANGED <<stored, answered, spoilt>> /\ turn' = [turn EXCEPT ![t].pc = "over"]
  BY DEF Talk!GiveUp, Talk!Goto
<1>2. turn \in [Turns -> Turn]
  BY DEF TalkInv, TalkTypes
<1>3. /\ turn' \in [Turns -> Turn]
      /\ \A u \in Turns : turn'[u].record = turn[u].record /\ turn'[u].history = turn[u].history
      /\ \A u \in Turns : u # t => turn'[u] = turn[u]
      /\ turn'[t].pc = "over"
  BY <1>1, <1>2 DEF Turn
<1>4. TalkTypes' /\ AnsweredInv' /\ SoundInv'
  BY <1>1, <1>3, QuietTalk DEF TalkInv, TalkTypes
<1>5. NewestInv'
  BY <1>1, <1>3 DEF TalkInv, NewestInv, Talk!Newest
<1> QED
  BY <1>4, <1>5 DEF TalkInv

LEMMA LoadRecordKeeps == ASSUME TalkInv, NEW t \in Turns, Talk!LoadRecord(t) PROVE TalkInv'
<1>1. /\ turn[t].pc = "answering" /\ UNCHANGED <<stored, answered>>
      /\ \/ /\ turn' = [turn EXCEPT ![t].pc = "storing", ![t].record = stored]
            /\ spoilt' = (spoilt \/ \E u \in Turns : turn[u].pc = "storing")
         \/ turn' = [turn EXCEPT ![t].pc = "storing"] /\ spoilt' = TRUE
  BY DEF Talk!LoadRecord, Talk!At, Talk!Goto
<1>2. turn \in [Turns -> Turn] /\ stored \in Seq(Said) /\ spoilt \in BOOLEAN
  BY DEF TalkInv, TalkTypes, SoundInv, Sound
<1>3. /\ turn' \in [Turns -> Turn]
      /\ \A u \in Turns : turn'[u].record \in {turn[u].record, stored}
      /\ \A u \in Turns : turn'[u].history = turn[u].history
      /\ \A u \in Turns : u # t => turn'[u] = turn[u]
      /\ turn'[t].pc = "storing"
  <2>1. CASE turn' = [turn EXCEPT ![t].pc = "storing", ![t].record = stored]
    BY <2>1, <1>2 DEF Turn
  <2>2. CASE turn' = [turn EXCEPT ![t].pc = "storing"]
    BY <2>2, <1>2 DEF Turn
  <2> QED
    BY <1>1, <2>1, <2>2
<1>4. spoilt' \in BOOLEAN
  BY <1>1, <1>2
<1>5. TalkTypes' /\ AnsweredInv' /\ SoundInv'
  BY <1>1, <1>3, <1>4, QuietTalk DEF TalkInv, TalkTypes
<1>6. NewestInv'
  <2> SUFFICES ASSUME ~ spoilt' PROVE NewestInv'
    BY DEF NewestInv
  <2>1. /\ ~ spoilt /\ \A u \in Turns : turn[u].pc # "storing"
        /\ turn' = [turn EXCEPT ![t].pc = "storing", ![t].record = stored]
    BY <1>1, <1>2
  <2>2. turn'[t].record = stored
    BY <2>1, <1>2 DEF Turn
  <2>3. stored = Talk!Newest(answered)
    BY <2>1 DEF TalkInv, NewestInv
  <2> QED
    BY <2>1, <2>2, <2>3, <1>1, <1>3 DEF NewestInv, Talk!Newest
<1> QED
  BY <1>5, <1>6 DEF TalkInv

LEMMA ExpiresKeeps == ASSUME TalkInv, Talk!Expires PROVE TalkInv'
<1>1. stored' = <<>> /\ spoilt' = TRUE /\ turn' = turn /\ answered' = answered
  BY DEF Talk!Expires
<1>2. TalkTypes' /\ AnsweredInv' /\ SoundInv'
  BY <1>1, QuietTalk DEF TalkInv, TalkTypes
<1>3. NewestInv'
  BY <1>1 DEF NewestInv
<1> QED
  BY <1>2, <1>3 DEF TalkInv

LEMMA StoreKeeps == ASSUME TalkInv, NEW t \in Turns, Talk!Store(t) PROVE TalkInv'
<1> DEFINE m == Talk!Messages(t)
           r == turn[t].record
           k == Talk!Newest(r \o m)
<1>1. /\ turn[t].pc = "storing" /\ turn' = [turn EXCEPT ![t].pc = "over"]
      /\ answered' = answered \o m
      /\ \/ stored' = k /\ spoilt' = spoilt
         \/ stored' = stored /\ spoilt' = TRUE
  BY DEF Talk!Store, Talk!At, Talk!Goto
<1>2. turn \in [Turns -> Turn] /\ answered \in Seq(Said) /\ spoilt \in BOOLEAN /\ Sound(r)
      /\ Sound(stored)
  BY DEF TalkInv, TalkTypes, SoundInv
<1>3. \A i \in 1..Len(r) : r[i].turn # t
  BY <1>1, <1>2 DEF TalkInv, AnsweredInv, Sound
<1>4. Talk!Whole(r \o m) /\ m \in Seq(Said) /\ r \in Seq(Said)
  BY <1>2, <1>3, WholeGrows DEF Sound
<1>5. /\ turn' \in [Turns -> Turn]
      /\ \A u \in Turns : turn'[u].record = turn[u].record /\ turn'[u].history = turn[u].history
      /\ \A u \in Turns : u # t => turn'[u] = turn[u]
      /\ turn'[t].pc = "over"
  BY <1>1, <1>2 DEF Turn
<1>6. /\ \A i \in 1..Len(m) : m[i].turn = t
      /\ \A i \in 1..Len(m) : m[i] \in Said
  BY DEF Talk!Messages, Said
<1> HIDE DEF m, r
<1>7. /\ answered \o m \in Seq(Said) /\ Len(answered \o m) = Len(answered) + Len(m)
      /\ \A i \in 1..Len(answered) : (answered \o m)[i] = answered[i]
      /\ \A i \in 1..Len(m) : (answered \o m)[Len(answered) + i] = m[i]
  BY <1>2, <1>4, AppendedIs
<1>8. Len(answered) \in Nat /\ Len(m) \in Nat
  BY <1>2, <1>4
<1>9. TalkTypes'
  BY <1>1, <1>2, <1>5, <1>7 DEF TalkTypes
<1>10. AnsweredInv'
  <2> SUFFICES ASSUME NEW j \in 1..Len(answered') PROVE turn'[answered'[j].turn].pc = "over"
    BY DEF AnsweredInv
  <2>1. CASE j \in 1..Len(answered)
    <3>0. answered'[j] = answered[j] /\ answered[j] \in Said
      BY <2>1, <1>1, <1>2, <1>7
    <3>1. answered'[j] = answered[j] /\ answered[j].turn \in Turns
      BY <3>0 DEF Said
    <3>2. turn[answered[j].turn].pc = "over"
      BY <2>1 DEF TalkInv, AnsweredInv
    <3> QED
      BY <3>1, <3>2, <1>5
  <2>2. CASE j \notin 1..Len(answered)
    <3> DEFINE i == j - Len(answered)
    <3>1. i \in 1..Len(m) /\ j = Len(answered) + i
      BY <2>2, <1>1, <1>7, <1>8
    <3> HIDE DEF i
    <3>2. answered'[j].turn = t
      BY <3>1, <1>1, <1>6, <1>7
    <3> QED
      BY <3>2, <1>5
  <2> QED
    BY <2>1, <2>2
<1>11. ASSUME NEW s, Sound(s) PROVE Sound(s)'
  BY <1>1, <1>2, <1>4, <1>11, SoundStays
<1>12. /\ k \in Seq(Said) /\ Len(k) <= Most /\ Talk!Whole(k)
       /\ \A i \in 1..Len(k) : \E j \in 1..Len(answered') : k[i] = answered'[j]
  <2>1. /\ r \o m \in Seq(Said) /\ Len(r \o m) = Len(r) + Len(m)
        /\ \A i \in 1..Len(r) : (r \o m)[i] = r[i]
        /\ \A i \in 1..Len(m) : (r \o m)[Len(r) + i] = m[i]
    BY <1>4, AppendedIs
  <2>2. /\ k \in Seq(Said) /\ Len(k) = (IF Len(r \o m) > Most THEN Most ELSE Len(r \o m))
        /\ \A i \in 1..Len(k) : k[i] = (r \o m)[Len(r \o m) - Len(k) + i]
    BY <2>1, NewestIs
  <2>3. Most \in Nat /\ Len(r) \in Nat /\ Len(k) \in Nat
    BY <1>4, <2>2, HistoryAssumption DEF Most
  <2>4. Len(k) <= Most /\ Len(k) <= Len(r \o m)
    BY <1>8, <2>1, <2>2, <2>3
  <2>5. Talk!Whole(k)
    BY <1>4, <2>1, NewestIsWhole
  <2> HIDE DEF k
  <2>6. ASSUME NEW i \in 1..Len(k) PROVE \E j \in 1..Len(answered') : k[i] = answered'[j]
    <3> DEFINE x == Len(r) + Len(m) - Len(k) + i
    <3>0. k[i] = (r \o m)[Len(r \o m) - Len(k) + i]
      BY <2>2
    <3>0a. Len(r \o m) - Len(k) + i = x
      BY <2>1
    <3>1. k[i] = (r \o m)[x]
      BY <3>0, <3>0a
    <3>2. x \in 1..(Len(r) + Len(m))
      BY <1>8, <2>1, <2>3, <2>4
    <3> HIDE DEF x
    <3>3. CASE x <= Len(r)
      <4>1. x \in 1..Len(r)
        BY <3>2, <3>3, <2>3
      <4>2. k[i] = r[x]
        BY <4>1, <3>1, <2>1
      <4>3. PICK j \in 1..Len(answered) : r[x] = answered[j]
        BY <4>1, <1>2 DEF Sound
      <4>4. j \in 1..Len(answered') /\ answered'[j] = answered[j]
        BY <1>1, <1>7, <1>8
      <4> QED
        BY <4>2, <4>3, <4>4
    <3>4. CASE x > Len(r)
      <4> DEFINE z == x - Len(r)
      <4>1. z \in 1..Len(m) /\ x = Len(r) + z
        BY <3>2, <3>4, <1>8, <2>3
      <4> HIDE DEF z
      <4>2. k[i] = m[z]
        BY <4>1, <3>1, <2>1
      <4>3. Len(answered) + z \in 1..Len(answered') /\ answered'[Len(answered) + z] = m[z]
        BY <4>1, <1>1, <1>7, <1>8
      <4> QED
        BY <4>2, <4>3
    <3> QED
      BY <3>2, <3>3, <3>4, <2>3, <1>8
  <2> QED
    BY <2>2, <2>4, <2>5, <2>6
<1>13. SoundInv'
  <2>1. Sound(stored)'
    <3>1. CASE stored' = stored
      <4>1. PICK s : s = stored
        OBVIOUS
      <4>2. Sound(s)'
        BY <4>1, <1>2, <1>11
      <4> QED
        BY <3>1, <4>1, <4>2 DEF Sound, Talk!Whole
    <3>2. CASE stored' = k
      <4> HIDE DEF k
      <4> QED
        BY <3>2, <1>12 DEF Sound, Talk!Whole
    <3> QED
      BY <3>1, <3>2, <1>1
  <2>2. ASSUME NEW u \in Turns PROVE Sound(turn[u].record)' /\ Talk!Whole(turn[u].history)'
    <3>1. PICK s, h : s = turn[u].record /\ h = turn[u].history
      OBVIOUS
    <3>2. Sound(s)' /\ Talk!Whole(h)
      BY <3>1, <1>11 DEF TalkInv, SoundInv
    <3>3. turn'[u].record = s /\ turn'[u].history = h
      BY <3>1, <1>5
    <3>4. Sound(turn[u].record)'
      BY <3>2, <3>3 DEF Sound, Talk!Whole
    <3>5. Talk!Whole(turn[u].history)'
      BY <3>2, <3>3 DEF Talk!Whole
    <3> QED
      BY <3>4, <3>5
  <2> QED
    BY <2>1, <2>2 DEF SoundInv
<1>14. NewestInv'
  <2> SUFFICES ASSUME ~ spoilt' PROVE NewestInv'
    BY DEF NewestInv
  <2>1. ~ spoilt /\ stored' = k
    BY <1>1, <1>2
  <2>2. r = stored /\ stored = Talk!Newest(answered)
    BY <2>1, <1>1 DEF TalkInv, NewestInv, r
  <2>3. Talk!Newest(r \o m) = Talk!Newest(answered \o m)
    BY <2>2, <1>2, <1>4, NewestOfNewest
  <2>4. stored' = Talk!Newest(answered)'
    BY <2>1, <2>3, <1>1 DEF Talk!Newest
  <2>5. \A u \in Turns : turn'[u].pc # "storing"
    BY <2>1, <1>1, <1>5 DEF TalkInv, NewestInv
  <2> QED
    BY <2>4, <2>5 DEF NewestInv
<1> QED
  BY <1>9, <1>10, <1>13, <1>14 DEF TalkInv

LEMMA TalkKeeps == TalkInv /\ [Talk!Next]_talkVars => TalkInv'
<1> SUFFICES ASSUME TalkInv, [Talk!Next]_talkVars PROVE TalkInv'
  OBVIOUS
<1>1. CASE UNCHANGED talkVars
  <2>1. stored' = stored /\ answered' = answered /\ turn' = turn /\ spoilt' = spoilt
    BY <1>1 DEF talkVars
  <2>2. TalkTypes' /\ AnsweredInv' /\ SoundInv'
    BY <2>1, QuietTalk DEF TalkInv, TalkTypes
  <2>3. NewestInv'
    BY <2>1 DEF TalkInv, NewestInv, Talk!Newest
  <2> QED
    BY <2>2, <2>3 DEF TalkInv
<1> QED
  BY <1>1, LoadHistoryKeeps, GiveUpKeeps, LoadRecordKeeps, StoreKeeps, ExpiresKeeps
     DEF Talk!Next

LEMMA TalkKeepsNewest == TalkInv => Talk!HistoryKeepsTheNewest
<1> SUFFICES ASSUME TalkInv PROVE Talk!HistoryKeepsTheNewest
  OBVIOUS
<1>1. Len(stored) <= Most /\ Talk!Whole(stored) /\ \A t \in Turns : Talk!Whole(turn[t].history)
  BY DEF TalkInv, SoundInv, Sound
<1>2. Talk!ToSet(stored) \subseteq Talk!ToSet(answered)
  <2>1. stored \in Seq(Said) /\ answered \in Seq(Said)
        /\ \A i \in 1..Len(stored) : \E j \in 1..Len(answered) : stored[i] = answered[j]
    BY DEF TalkInv, TalkTypes, SoundInv, Sound
  <2>2. DOMAIN stored = 1..Len(stored) /\ DOMAIN answered = 1..Len(answered)
    BY <2>1
  <2> QED
    BY <2>1, <2>2 DEF Talk!ToSet
<1>3. ~ spoilt => stored = Talk!Newest(answered)
  BY DEF TalkInv, NewestInv
<1> QED
  BY <1>1, <1>2, <1>3 DEF Talk!HistoryKeepsTheNewest, Most

\* For any turns and any bound, however turns overlap and whatever fails.
THEOREM NewestTurnsAreKept == ServicesSpec => []HistoryKeepsTheNewest
<1>1. ServicesInit => TalkInv
  BY TalkInitially DEF ServicesInit
<1>2. TalkInv /\ [ServicesNext]_servicesVars => TalkInv'
  BY TalkKeeps, StepsOfTalk
<1>3. TalkInv => HistoryKeepsTheNewest
  BY TalkKeepsNewest DEF HistoryKeepsTheNewest
<1> QED
  BY <1>1, <1>2, <1>3, PTL DEF ServicesSpec
==============================================================================
