------------------------------ MODULE RateLimiter ------------------------------
(***************************************************************************)
(* The sliding-window limiter in front of Express's routes: the instants   *)
(* of the requests let through, per key, those outside the window dropped  *)
(* when the next request of the key is seen.  A refused request is not     *)
(* counted.  A key is never removed.                                       *)
(*                                                                         *)
(* A hit is [n, at], n telling apart those of one instant.                 *)
(***************************************************************************)
EXTENDS Naturals, FiniteSets

CONSTANTS Keys, windowMs, max,
          End        \* bounds the clock

VARIABLES now,
          hits,      \* hitsMap
          passed,    \* every hit that was let through
          wait       \* key -> the instant its last refusal told it to come back at

vars == <<now, hits, passed, wait>>

Init == /\ now = 0 /\ wait = [k \in Keys |-> 0]
        /\ hits = [k \in Keys |-> {}] /\ passed = [k \in Keys |-> {}]

Valid_OffByOne(k) == {h \in hits[k] : h.at + windowMs > now + 1}
Valid(k) == {h \in hits[k] : h.at + windowMs > now}

Pass(k) == /\ Cardinality(Valid(k)) < max
           /\ LET h == [n |-> Cardinality(passed[k]), at |-> now]
              IN /\ hits' = [hits EXCEPT ![k] = Valid(k) \cup {h}]
                 /\ passed' = [passed EXCEPT ![k] = @ \cup {h}]
           /\ UNCHANGED <<now, wait>>

\* 429 with Retry-After: when the oldest hit leaves the window.
Refuse(k) == /\ Cardinality(Valid(k)) >= max
             /\ \E oldest \in Valid(k) :
                  /\ \A h \in Valid(k) : oldest.at <= h.at
                  /\ wait' = [wait EXCEPT ![k] = oldest.at + windowMs]
             /\ UNCHANGED <<now, hits, passed>>

Tick == now < End /\ now' = now + 1 /\ UNCHANGED <<hits, passed, wait>>

Next == Tick \/ \E k \in Keys : Pass(k) \/ Refuse(k)

Spec == Init /\ [][Next]_vars
------------------------------------------------------------------------------
InWindow(k, t) == {h \in passed[k] : h.at <= t /\ t < h.at + windowMs}

\* No window of windowMs, wherever it begins, lets more than max requests of a
\* key through, though what has left the window is forgotten and nothing runs
\* between requests.
WindowNeverExceeded ==
  \A k \in Keys : \A t \in 0..now : Cardinality(InWindow(k, t)) <= max
==============================================================================
