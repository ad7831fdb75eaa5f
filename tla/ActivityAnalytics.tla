-------------------------- MODULE ActivityAnalytics --------------------------
(***************************************************************************)
(* The activity and hotspot figures of the Command Center, computed in the *)
(* browser from the commits the dashboard carried, and the two sections    *)
(* that show them (that of the hotspots is in the repository, but no page  *)
(* mounts it).  Time counts half days, so that a commit can fall on and    *)
(* between the boundaries of the buckets.  The figures are of the instant  *)
(* at which they were last computed: new data or, for the activity,        *)
(* another range recomputes them, the passing of time does not.  A history *)
(* without file names, for which the code lists the dashboard's            *)
(* directories, is left out.                                               *)
(*                                                                         *)
(* A commit is [id, at, author, files, adds, dels]; adds = -1 stands for   *)
(* statistics that are null.  A file is <<directory, name>>.               *)
(***************************************************************************)
EXTENDS Integers, FiniteSets, FiniteSetsExt, Functions

CONSTANTS Universe,    \* the commits that exist
          Insights,    \* file -> number of AI insights whose subject matches it
          Start, End   \* the instants between which the page is open

VARIABLES commits,     \* what the dashboard carried; empty: unavailable
          now,         \* the clock
          asOf,        \* the instant of the activity figures
          spotsAsOf,   \* and that of the hotspots
          range,       \* rangeDays: 7, 30 or 90
          metric, view, explained

vars == <<commits, now, asOf, spotsAsOf, range, metric, view, explained>>

NoHotspot == <<"none">>
Day == 2
Ranges == {7, 30, 90}
Metrics == {"activity", "churn", "net", "additions", "deletions"}

CeilDiv(x, y) == (x + y - 1) \div y
Round(x, y) == (2 * x + y) \div (2 * y)
Larger(x, y) == IF x > y THEN x ELSE y
------------------------------------------------------------------------------
(* Activity.                                                               *)

Age(c) == asOf - c.at
InRange == {c \in commits : Age(c) <= range * Day}
Oldest == Max({Age(c) : c \in commits})
CoveredDays == Larger(1, CeilDiv(Oldest, Day))
IsLimitedHistory == CoveredDays < range

Weekly == range > 30
BucketCount_Floor == IF Weekly THEN range \div 7 ELSE range
BucketCount == IF Weekly THEN CeilDiv(range, 7) ELSE range
BucketSize == IF Weekly THEN 7 * Day ELSE Day

\* Bucket i, counted back from now, is half open: what is committed at its
\* end belongs to the next one, and a commit of this instant to none.
InBucket(c, i) == (i - 1) * BucketSize < Age(c) /\ Age(c) <= i * BucketSize
Bucket(i) == {c \in InRange : InBucket(c, i)}
Active == {i \in 1..BucketCount : Bucket(i) # {}}

\* At least 3 and at least mean + 2 * stdDev of the active buckets; the
\* comparison is squared, and multiplied by the number of buckets.
IsAnomaly(i) ==
  LET n == Cardinality(Active)
      Count(j) == Cardinality(Bucket(j))
      Square(j) == Count(j) * Count(j)
      sum == SumFunction([j \in Active |-> Count(j)])
      squares == SumFunction([j \in Active |-> Square(j)])
      above == n * Count(i) - sum
  IN /\ n >= 2 /\ Count(i) >= 3
     /\ above >= 0 /\ above * above >= 4 * (n * squares - sum * sum)

\* The two halves of the range.
Recent == {c \in InRange : 2 * Age(c) <= range * Day}
Previous == {c \in InRange : 2 * Age(c) > range * Day}

TrendState ==
  LET r == Cardinality(Recent)
      p == Cardinality(Previous)
      percent == Round((r - p) * 100, p)
  IN CASE CoveredDays < CeilDiv(range * 3, 4) -> "limited"
       [] OTHER -> IF r = 0 /\ p = 0 THEN "no_activity"
                   ELSE IF p = 0 THEN "new_activity"
                   ELSE IF percent > 0 THEN "up"
                   ELSE IF percent < 0 THEN "down" ELSE "steady"

Authors(S) == {c.author : c \in S}
SharePercent(a) ==
  Round(Cardinality({c \in InRange : c.author = a}) * 100, Cardinality(InRange))

WithStats(S) == {c \in S : c.adds >= 0}
Additions(S) == SumFunction([c \in WithStats(S) |-> c.adds])
Deletions(S) == SumFunction([c \in WithStats(S) |-> c.dels])

\* The directories with most changes among those of the files changed.
ChangesIn(d) == SumFunction([c \in InRange |-> Cardinality({f \in c.files : f[1] = d})])
Areas == {f[1] : f \in UNION {c.files : c \in InRange}}

Steps(days, scores) == IF days <= 2 THEN scores[1] ELSE IF days <= 7 THEN scores[2]
                       ELSE IF days <= 14 THEN scores[3] ELSE IF days <= 30 THEN scores[4] ELSE 5

HealthScore ==
  LET newest == Larger(0, Min({Age(c) : c \in commits}) \div Day)
      authors == Cardinality(Authors(InRange))
  IN Steps(newest, <<40, 30, 20, 10>>)
     + Round(Cardinality(Active) * 30, BucketCount)
     + (IF authors >= 4 THEN 30 ELSE IF authors >= 2 THEN 25 ELSE IF authors = 1 THEN 15 ELSE 10)

HealthLabel == IF HealthScore >= 75 THEN "High" ELSE IF HealthScore >= 45 THEN "Moderate" ELSE "Low"

\* The bucket named as the peak: the oldest of most commits, whatever the metric.
Peak == LET most == Max({Cardinality(Bucket(i)) : i \in 1..BucketCount})
        IN Max({i \in 1..BucketCount : Cardinality(Bucket(i)) = most})

\* What the chosen metric makes of some commits: a point of the chart, and
\* the number above it.  The chart's scale leaves 15% above the highest point.
Figure(S) == CASE metric = "churn" -> Additions(S) + Deletions(S)
               [] metric = "net" -> Additions(S) - Deletions(S)
               [] metric = "additions" -> Additions(S)
               [] metric = "deletions" -> Deletions(S)
               [] OTHER -> Cardinality(S)
Value(i) == Figure(Bucket(i))
Headline == Figure(InRange)

MaxY ==
  CeilDiv(115 * Max({1} \cup {Larger(Value(i), -Value(i)) : i \in 1..BucketCount}), 100)
------------------------------------------------------------------------------
(* Hotspots, always over 30 days.                                          *)

SpotAge(c) == spotsAsOf - c.at
Window == {c \in commits : SpotAge(c) <= 30 * Day}
ChangedFiles == UNION {c.files : c \in Window}
Touching(f) == {c \in Window : f \in c.files}
DaysSince(S) == Larger(0, Min({SpotAge(c) : c \in S}) \div Day)

\* A commit's statistics are split evenly over its files.
Churn(f) ==
  SumFunction([c \in WithStats(Touching(f)) |->
                 Round(c.adds, Cardinality(c.files)) + Round(c.dels, Cardinality(c.files))])

Of25(x, all) == Round(x * 25, Max({1} \cup all))
AiScore(n) == IF n >= 2 THEN 10 ELSE 5 * n
FileRecency(f) == Steps(DaysSince(Touching(f)), <<25, 20, 15, 10>>)

FileScore(f) ==
  LET authors == Cardinality(Authors(Touching(f)))
  IN Of25(Cardinality(Touching(f)), {Cardinality(Touching(g)) : g \in ChangedFiles})
     + Of25(Churn(f), {Churn(g) : g \in ChangedFiles})
     + FileRecency(f) + AiScore(Insights[f])
     + (IF authors >= 4 THEN 15 ELSE IF authors = 3 THEN 12 ELSE IF authors = 2 THEN 8 ELSE 4)

Directories == {f[1] : f \in ChangedFiles}
FilesIn(d) == {f \in ChangedFiles : f[1] = d}
DirChanges(d) == SumFunction([f \in FilesIn(d) |-> Cardinality(Touching(f))])
DirChurn(d) == SumFunction([f \in FilesIn(d) |-> Churn(f)])

DirRecency_OfOneFile(d) == FileRecency(CHOOSE f \in FilesIn(d) : TRUE)
\* The latest change of any of its files, in whatever order they are met.
DirRecency(d) ==
  Steps(DaysSince(UNION {Touching(f) : f \in FilesIn(d)}), <<25, 20, 15, 10>>)
DirAi(d) == AiScore(SumFunction([f \in FilesIn(d) |-> Insights[f]]))

\* The number of files stands in for the number of contributors.
DirScore(d) ==
  Of25(DirChanges(d), {DirChanges(x) : x \in Directories})
  + Of25(DirChurn(d), {DirChurn(x) : x \in Directories})
  + DirRecency(d) + DirAi(d) + Min({15, Larger(4, 3 * Cardinality(FilesIn(d)))})

RiskLevel(score) == IF score >= 90 THEN "Critical" ELSE IF score >= 75 THEN "High"
                    ELSE IF score >= 50 THEN "Moderate" ELSE "Low"
Listed == IF view = "files" THEN ChangedFiles ELSE {<<d>> : d \in Directories}
------------------------------------------------------------------------------
Init == /\ commits = {} /\ now = Start /\ asOf = Start /\ spotsAsOf = Start
        /\ range = 30 /\ metric = "activity" /\ view = "files" /\ explained = NoHotspot

\* The dashboard is answered, or answered again.
Load(S) == /\ commits' = S /\ asOf' = now /\ spotsAsOf' = now
           /\ UNCHANGED <<now, range, metric, view, explained>>

\* A new analysis recomputes the hotspots.
Analysed == /\ spotsAsOf' = now
            /\ UNCHANGED <<commits, now, asOf, range, metric, view, explained>>

SetRange(r) == /\ range # r
               /\ range' = r /\ asOf' = now
               /\ UNCHANGED <<commits, now, spotsAsOf, metric, view, explained>>

SetMetric(m) == /\ commits # {}
                /\ metric' = m
                /\ UNCHANGED <<commits, now, asOf, spotsAsOf, range, view, explained>>

SetView(v) == /\ view' = v
              /\ UNCHANGED <<commits, now, asOf, spotsAsOf, range, metric, explained>>

\* The explanation of a listed hotspot keeps the figures it was opened with.
Explain(h) == /\ h \in Listed
              /\ explained' = h
              /\ UNCHANGED <<commits, now, asOf, spotsAsOf, range, metric, view>>

CloseExplanation == /\ explained # NoHotspot
                    /\ explained' = NoHotspot
                    /\ UNCHANGED <<commits, now, asOf, spotsAsOf, range, metric, view>>

Tick == /\ now < End
        /\ now' = now + 1
        /\ UNCHANGED <<commits, asOf, spotsAsOf, range, metric, view, explained>>

Next == \/ \E S \in SUBSET Universe : Load(S)
        \/ \E r \in Ranges : SetRange(r)
        \/ \E m \in Metrics : SetMetric(m)
        \/ \E v \in {"files", "directories"} : SetView(v)
        \/ \E h \in Listed : Explain(h)
        \/ Analysed \/ CloseExplanation \/ Tick

Spec == Init /\ [][Next]_vars
------------------------------------------------------------------------------
\* Whatever the range and the instant, the buckets of the chart and the two
\* halves of the trend each count a commit of the range exactly once; only a
\* commit of the very instant, or of a clock ahead, is in no bucket.
OneBucketEach ==
  \A c \in InRange :
    /\ Cardinality({i \in 1..BucketCount : InBucket(c, i)}) = (IF Age(c) > 0 THEN 1 ELSE 0)
    /\ (c \in Recent) # (c \in Previous)

\* So what is computed from the buckets agrees with what is computed from the
\* range: the number above the chart is the sum of its points, all of which
\* are inside its frame; the named peak has commits when any bucket has; and
\* a repository is not called highly active two weeks after its last commit.
FiguresAgree ==
  /\ Headline = SumFunction([i \in 1..BucketCount |-> Value(i)])
                + Figure({c \in InRange : Age(c) <= 0})
  /\ LET top == MaxY IN \A i \in 1..BucketCount : -top < Value(i) /\ Value(i) < top
  /\ Active # {} => Peak \in Active
  /\ HealthLabel = "High" => \E c \in commits : Age(c) < 15 * Day

\* No commit is lost or counted twice on the way to the chart, the trend and
\* the numbers beside them, on whatever boundary it falls.
EveryCommitInOneBucket == OneBucketEach /\ (commits # {} => FiguresAgree)

\* A directory is never shown as quieter than a file in it: neither its
\* recency nor its AI part is below that of any of its files.  Both scores
\* stay within 100, and a file of one author never counts as critical.
DirectoryCoversItsFiles ==
  \A f \in ChangedFiles :
    /\ DirRecency(f[1]) >= FileRecency(f)
    /\ DirAi(f[1]) >= AiScore(Insights[f])
    /\ FileScore(f) <= 100 /\ DirScore(f[1]) <= 100
    /\ RiskLevel(FileScore(f)) = "Critical" => Cardinality(Authors(Touching(f))) > 1
==============================================================================
