----------------------------- MODULE Conversation -----------------------------
(***************************************************************************)
(* The history of one conversation that the AI service keeps in Redis: a   *)
(* turn loads it, answers, loads the record again, appends its question    *)
(* and answer, and stores it whole.  Several turns may be under way, since *)
(* the drawer asks again when a stream breaks off, though the service may  *)
(* still be answering it.  A read that fails counts as no history, a write *)
(* that fails is only logged.                                              *)
(***************************************************************************)
EXTENDS Naturals, Sequences, SequencesExt

CONSTANTS Turns,
          conversation_history_max_messages,
          MaxFailures      \* bounds the failed reads, writes and expiries

VARIABLES stored,     \* the messages of the record, <<>> without one
          turn,       \* [pc, history, record]
          answered,   \* history: the messages appended, in that order
          spoilt,     \* history: an append was disturbed
          failures

vars == <<stored, turn, answered, spoilt, failures>>

Init == /\ stored = <<>> /\ answered = <<>> /\ spoilt = FALSE /\ failures = 0
        /\ turn = [t \in Turns |-> [pc |-> "new", history |-> <<>>, record |-> <<>>]]

At(t, pc) == turn[t].pc = pc
Goto(t, pc) == turn' = [turn EXCEPT ![t].pc = pc]
Failure == failures < MaxFailures /\ failures' = failures + 1

Newest_Oldest(s) ==
  SubSeq(s, 1, IF Len(s) < conversation_history_max_messages THEN Len(s)
               ELSE conversation_history_max_messages)
\* messages[-max_messages:]
Newest(s) == SubSeq(s, IF Len(s) > conversation_history_max_messages
                       THEN Len(s) - conversation_history_max_messages + 1 ELSE 1, Len(s))

Messages(t) == <<[turn |-> t, role |-> "user"], [turn |-> t, role |-> "assistant"]>>

\* load_history.
LoadHistory(t) ==
  /\ At(t, "new")
  /\ \/ turn' = [turn EXCEPT ![t].pc = "answering", ![t].history = Newest(stored)]
        /\ UNCHANGED failures
     \/ Failure /\ Goto(t, "answering")
  /\ UNCHANGED <<stored, answered, spoilt>>

\* Retrieval or generation raises, or the client is gone: nothing is stored.
GiveUp(t) == /\ turn[t].pc \in {"answering", "storing"} /\ Goto(t, "over")
             /\ UNCHANGED <<stored, answered, spoilt, failures>>

\* append_turn: a failed read stands for an empty record.
LoadRecord(t) ==
  /\ At(t, "answering")
  /\ \/ /\ turn' = [turn EXCEPT ![t].pc = "storing", ![t].record = stored]
        /\ spoilt' = (spoilt \/ \E u \in Turns : At(u, "storing"))
        /\ UNCHANGED failures
     \/ Failure /\ Goto(t, "storing") /\ spoilt' = TRUE
  /\ UNCHANGED <<stored, answered>>

Store(t) ==
  /\ At(t, "storing") /\ Goto(t, "over")
  /\ answered' = answered \o Messages(t)
  /\ \/ stored' = Newest(turn[t].record \o Messages(t)) /\ UNCHANGED <<spoilt, failures>>
     \/ Failure /\ spoilt' = TRUE /\ UNCHANGED stored

\* The record's TTL.
Expires == /\ stored # <<>> /\ stored' = <<>>
           /\ Failure /\ spoilt' = TRUE
           /\ UNCHANGED <<turn, answered>>

Next == \/ \E t \in Turns : LoadHistory(t) \/ GiveUp(t) \/ LoadRecord(t) \/ Store(t)
        \/ Expires

Spec == Init /\ [][Next]_vars
------------------------------------------------------------------------------
\* A question, if there is one, right before its answer; each once.
Whole(s) == \A i, j \in DOMAIN s :
  /\ s[i] = s[j] => i = j
  /\ s[i].role = "user" => i < Len(s) /\ s[i + 1] = [s[i] EXCEPT !.role = "assistant"]

\* The history is bounded and made of whole turns that were answered, whatever
\* fails and however turns overlap; and while appends neither overlap nor fail
\* it holds the newest of them all (conversation_store.py: "the oldest messages
\* are dropped first").
HistoryKeepsTheNewest ==
  /\ Len(stored) <= conversation_history_max_messages /\ Whole(stored)
  /\ ToSet(stored) \subseteq ToSet(answered)
  /\ \A t \in Turns : Whole(turn[t].history)
  /\ ~spoilt => stored = Newest(answered)
==============================================================================
