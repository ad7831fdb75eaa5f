-------------------------------- MODULE Copilot --------------------------------
(***************************************************************************)
(* The Copilot drawer: a question is streamed through Express from the AI  *)
(* service, and asked again without streaming when the stream fails; an    *)
(* error may be retried, which moves the reply to the end.                 *)
(*                                                                         *)
(* A message is [id, role, of, status, title, retry, sources, parts]: of   *)
(* names the question a reply is to (the code knows only its text), parts  *)
(* what its content was put together from, sources whether citations may   *)
(* stand beneath it.  Left out: the texts and the citations themselves,    *)
(* and Express's checks of a request the drawer never sends.               *)
(***************************************************************************)
EXTENDS Naturals, Sequences, SequencesExt

CONSTANTS MaxRequests,    \* bounds the questions and retries
          MaxTokens,      \* bounds the tokens of an answer
          Statuses        \* what the plain endpoint of the AI service may
                          \* fail with; 0 for no answer, 200 for a malformed one

VARIABLES open, messages, requests,
          call,       \* the submission awaited: [id, phase], or NoCall
          cited       \* the citation drawer: "closed", "loading", "shown", "error"

vars == <<open, messages, requests, call, cited>>

NoCall == [id |-> 0, phase |-> "none"]
sending == call # NoCall

Message(id, role, of, status) ==
  [id |-> id, role |-> role, of |-> of, status |-> status,
   title |-> "none", retry |-> FALSE, sources |-> FALSE, parts |-> <<>>]

Init == /\ open = FALSE /\ messages = <<>> /\ requests = 0
        /\ call = NoCall /\ cited = "closed"

Open == /\ ~open
        /\ open' = TRUE
        /\ UNCHANGED <<messages, requests, call, cited>>

\* The conversation is that of the mounted drawer; an answer under way finds
\* nobody to tell.
Close == /\ open
         /\ open' = FALSE /\ messages' = <<>> /\ call' = NoCall /\ cited' = "closed"
         /\ UNCHANGED requests

\* The placeholder of the reply is appended at once.
Submit(before, of) ==
  /\ open /\ ~sending /\ requests < MaxRequests
  /\ requests' = requests + 1
  /\ messages' = Append(before, Message(2 * requests + 2, "assistant", of, "streaming"))
  /\ call' = [id |-> 2 * requests + 2, phase |-> "stream"]
  /\ UNCHANGED <<open, cited>>

Ask == Submit(Append(messages, Message(2 * requests + 1, "user", 2 * requests + 1, "done")),
              2 * requests + 1)

Retried_Kept(m) == messages
Retried(m) == RemoveAt(messages, CHOOSE i \in DOMAIN messages : messages[i].id = m.id)
Retry_Any(m) == m.role = "assistant" /\ Submit(Retried(m), m.of)
Retry(m) == m.retry /\ Submit(Retried(m), m.of)

\* What arrives is written into the message of its submission.
Pending == CHOOSE m \in ToSet(messages) : m.id = call.id
Write(new) == messages' = [i \in DOMAIN messages |->
                             IF messages[i].id = new.id THEN new ELSE messages[i]]
------------------------------------------------------------------------------
(* The stream.  A frame changes the reply; the submission is awaited until *)
(* the stream ends.                                                        *)

Arriving == {"stream", "ending"}

\* The next token; or, when the generation broke, the whole answer generated
\* anew, which the AI service sends as one more token.
Token == /\ call.phase = "stream"
         /\ \/ /\ Len(Pending.parts) < MaxTokens
               /\ Write([Pending EXCEPT !.parts = Append(@, "token")])
               /\ UNCHANGED call
            \/ /\ Write([Pending EXCEPT !.parts = Append(@, "whole")])
               /\ call' = [call EXCEPT !.phase = "ending"]
         /\ UNCHANGED <<open, requests, cited>>

\* The last frame, after which the reply is finished and still awaited.
Done == /\ call.phase \in Arriving
        /\ Write([Pending EXCEPT !.status = "done", !.sources = TRUE])
        /\ call' = [call EXCEPT !.phase = "closing"]
        /\ UNCHANGED <<open, requests, cited>>

\* The drawer knows an error frame, which leaves nothing to retry.  (The AI
\* service of this repository sends none: its exceptions tear the stream.)
ErrorFrame == /\ call.phase \in Arriving
              /\ Write([Pending EXCEPT !.parts = <<>>, !.status = "error"])
              /\ call' = [call EXCEPT !.phase = "closing"]
              /\ UNCHANGED <<open, requests, cited>>

StreamEnds == /\ call.phase = "closing"
              /\ call' = NoCall
              /\ UNCHANGED <<open, messages, requests, cited>>

\* Refused by Express or the AI service, or torn on the way to the browser,
\* after the last frame as well: the question is asked again without
\* streaming, whatever its reply shows by now.
StreamFails == /\ call.phase \in Arriving \cup {"closing", "stalled"}
               /\ call' = [call EXCEPT !.phase = "fallback"]
               /\ UNCHANGED <<open, messages, requests, cited>>

\* Torn between the AI service and Express, whose pipe does not end the
\* answer: nothing comes any more, and the drawer waits until it is closed
\* or Express goes too.
StreamStalls == /\ call.phase \in Arriving \cup {"closing"}
                /\ call' = [call EXCEPT !.phase = "stalled"]
                /\ UNCHANGED <<open, messages, requests, cited>>
------------------------------------------------------------------------------
(* The plain request.                                                      *)

\* Express passes a failure's status on, and answers 502 for one without.
Status(s) == IF s >= 400 /\ s < 600 THEN s ELSE 502

\* formatChatError.
ErrorTitle(s) == CASE s = 429 -> "quota" [] s = 503 -> "disconnected"
                   [] s = 504 -> "timeout" [] OTHER -> "error"

Answered(m) == <<"answer">>

\* The mark of an error frame is not taken off.
Answer == /\ call.phase = "fallback"
          /\ Write([Pending EXCEPT !.parts = Answered(Pending), !.sources = TRUE,
                                  !.status = IF @ = "error" THEN @ ELSE "done"])
          /\ call' = NoCall
          /\ UNCHANGED <<open, requests, cited>>

AnswerFails(s) ==
  /\ call.phase = "fallback"
  /\ Write([Pending EXCEPT !.parts = <<>>, !.status = "error",
                         !.title = ErrorTitle(Status(s)), !.retry = TRUE])
  /\ call' = NoCall
  /\ UNCHANGED <<open, requests, cited>>
------------------------------------------------------------------------------
\* A citation opens its file; those of a finished reply stay beneath an error
\* written over it.  A slower answer for another citation is dropped.
Cite == /\ open /\ cited = "closed"
        /\ \E m \in ToSet(messages) : m.sources
        /\ cited' = "loading"
        /\ UNCHANGED <<open, messages, requests, call>>

CitedFile == /\ cited = "loading"
             /\ cited' \in {"shown", "error"}
             /\ UNCHANGED <<open, messages, requests, call>>

CloseCitation == /\ cited # "closed"
                 /\ cited' = "closed"
                 /\ UNCHANGED <<open, messages, requests, call>>

Next == \/ Open \/ Close \/ Ask \/ Token \/ Done \/ ErrorFrame
        \/ StreamEnds \/ StreamFails \/ StreamStalls
        \/ Answer \/ (\E s \in Statuses : AnswerFails(s))
        \/ (\E m \in ToSet(messages) : Retry(m))
        \/ Cite \/ CitedFile \/ CloseCitation

Spec == Init /\ [][Next]_vars
------------------------------------------------------------------------------
Replies(q) == {m \in ToSet(messages) : m.role = "assistant" /\ m.of = q.id}

\* Through streams that fail anywhere, second requests, errors and retries a
\* question has exactly one reply; it is unfinished only while its submission
\* is awaited, and then as long as frames may come; it can be retried only as
\* an error that nobody works on; and one that was asked for again shows
\* nothing of the stream that failed before it.
EveryQuestionHasOneReply ==
  \A q \in {m \in ToSet(messages) : m.role = "user"} :
    \E m \in Replies(q) :
      /\ Replies(q) = {m}
      /\ m.status = "streaming" => call.id = m.id
      /\ call.id = m.id /\ call.phase \in Arriving => m.status = "streaming"
      /\ m.retry => m.status = "error" /\ m.parts = <<>> /\ call.id # m.id
      /\ "answer" \in ToSet(m.parts) => m.parts = <<"answer">>

\* Whatever arrives, fails or is asked while the drawer is open, what is not
\* unfinished stays as it is; only a retry takes an error away, and only the
\* second request of a submission, whose stream tore after its last frame,
\* writes over the reply that frame had finished.
FinishedRepliesStay ==
  [][\A m \in ToSet(messages) \ ToSet(messages)' :
       open' => \/ m.status = "streaming" \/ m.retry
                \/ call = [id |-> m.id, phase |-> "fallback"]]_vars
==============================================================================
