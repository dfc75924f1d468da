------------------------------ MODULE ChatApp ------------------------------
(***************************************************************************)
(* The chat of one tab (ChatApp.tsx) and the answers streamed to it:       *)
(* event_stream in ml-service/main.py, read by streamChat in lib/api.ts.   *)
(* An updater passed to setConversations runs on the state with every      *)
(* update queued before it ("convs"), while an event handler sees what the *)
(* last render saw ("shown").  A frame's update waits for the next render; *)
(* what an event handler updates is rendered when the handler ends.        *)
(*                                                                         *)
(* A query stands for the pair of messages it adds, and an answer for the  *)
(* number of its tokens.                                                   *)
(***************************************************************************)
EXTENDS Integers, Sequences, SequencesExt

CONSTANTS Conv,      \* the conversation ids that may be drawn
          Query,     \* bound: the calls of runQuery
          MaxToken,  \* bound: tokens in an answer
          NoQuery

ASSUME ChatAssumption == MaxToken \in Nat /\ NoQuery \notin Query

VARIABLES convs,      \* the conversations, each a sequence of answers
          streaming,  \* isStreaming
          shown,      \* both, as last rendered
          active,     \* activeId
          current,    \* the query whose controller abortRef holds
          query,      \* per query: the phase of its streamChat, its conversation
          given,      \* history: tokens received of each answer
          stopped,    \* history: queries stopped while they ran
          disturbed,  \* history: queries under way, or not yet rendered, when
                      \* another was sent or a conversation was deleted
          deleted     \* history: conversations deleted

vars == <<convs, streaming, shown, active, current, query, given, stopped,
          disturbed, deleted>>

Answer(q) == [query |-> q, text |-> 0, cited |-> FALSE, error |-> FALSE]
Running == {q \in Query : query[q].phase \notin {"new", "ended", "cut"}}
Unsettled == IF shown.convs = convs THEN Running ELSE Query

Init ==
  \E c \in Conv :
    /\ active = c /\ convs = [x \in {c} |-> << >>] /\ streaming = FALSE
    /\ shown = [convs |-> convs, streaming |-> FALSE]
    /\ current = NoQuery
    /\ query = [q \in Query |-> [phase |-> "new", conv |-> c]]
    /\ given = [q \in Query |-> 0]
    /\ stopped = {} /\ disturbed = {} /\ deleted = {}

----------------------------------------------------------------------------
\* What an event handler leaves is rendered at once.
Rendered(cs, s) ==
  convs' = cs /\ streaming' = s /\ shown' = [convs |-> cs, streaming |-> s]

Render ==
  /\ shown # [convs |-> convs, streaming |-> streaming]
  /\ Rendered(convs, streaming)
  /\ UNCHANGED <<active, current, query, given, stopped, disturbed, deleted>>

\* What the page offers: the composer or the control that stops the answer, the
\* example prompts of an empty chat, the button that asks again, and a row for
\* each conversation.
Composer == ~ shown.streaming
ExamplePrompts == shown.convs[active] = << >>
StopButton == shown.streaming
RegenerateButton == ~ shown.streaming /\ shown.convs[active] # << >>
Sidebar == DOMAIN shown.convs

\* runQuery up to its await: the messages it starts from are the rendered ones.
RunQuery(q, base) ==
  /\ query[q].phase = "new" /\ ~ shown.streaming
  /\ Rendered([convs EXCEPT ![active] = Append(base, Answer(q))], TRUE)
  /\ current' = q
  /\ query' = [query EXCEPT ![q] = [phase |-> "fetch", conv |-> active]]
  /\ disturbed' = disturbed \cup Unsettled
  /\ UNCHANGED <<active, given, stopped, deleted>>

\* An example prompt is there while another answer streams; runQuery ignores it.
Send(q) == (Composer \/ ExamplePrompts) /\ RunQuery(q, shown.convs[active])

\* handleRegenerate: everything from the last user message on is dropped.
Regenerate(q) ==
  /\ RegenerateButton
  /\ RunQuery(q, Front(shown.convs[active]))

\* handleStop aborts the query sent last.  Its fetch or read rejects at once and
\* streamChat returns; a refresh it waits for takes no signal.
Stop ==
  /\ StopButton
  /\ Rendered(convs, FALSE)
  /\ query' = IF current \notin Running THEN query
              ELSE [query EXCEPT ![current].phase =
                      IF @ \in {"refreshing", "aborted"} THEN "aborted" ELSE "ended"]
  /\ stopped' = stopped \cup ({current} \cap Running)
  /\ UNCHANGED <<active, current, given, disturbed, deleted>>

Unused == Conv \ (DOMAIN convs \cup deleted)

NewChat(c) ==
  /\ c \in Unused
  /\ Rendered([x \in DOMAIN convs \cup {c} |-> IF x = c THEN << >> ELSE convs[x]],
              streaming)
  /\ active' = c
  /\ UNCHANGED <<current, query, given, stopped, disturbed, deleted>>

Select(c) ==
  /\ c \in Sidebar \ {active} /\ active' = c
  /\ Rendered(convs, streaming)
  /\ UNCHANGED <<current, query, given, stopped, disturbed, deleted>>

\* handleDelete replaces the list by the rendered one without c, or by a fresh
\* conversation if that is empty.
Delete(c) ==
  LET rest == Sidebar \ {c} IN
  /\ c \in Sidebar
  /\ \/ /\ rest # {}
        /\ Rendered([x \in rest |-> shown.convs[x]], streaming)
        /\ active' \in IF c = active THEN rest ELSE {active}
     \/ /\ rest = {}
        /\ active' \in Unused
        /\ Rendered([x \in {active'} |-> << >>], streaming)
  /\ deleted' = deleted \cup {c}
  /\ disturbed' = disturbed \cup Unsettled
  /\ UNCHANGED <<current, query, given, stopped>>

----------------------------------------------------------------------------
\* What a frame does to its answer: onToken, onSources, onError.
Updated(m, frame) ==
  CASE frame = "token"   -> [m EXCEPT !.text = @ + 1]
    [] frame = "sources" -> [m EXCEPT !.cited = TRUE]
    [] frame = "error"   -> [m EXCEPT !.error = TRUE]

\* Mutant: the answer is taken to be the last one of its conversation.
PatchLast(q, frame) ==
  LET c == query[q].conv IN
  IF c \notin DOMAIN convs THEN convs
  ELSE [convs EXCEPT ![c] =
          [i \in DOMAIN @ |-> IF i = Len(@) THEN Updated(@[i], frame) ELSE @[i]]]

\* Mutant: a conversation that is not there is put back.
PatchBack(q, frame) ==
  LET c == query[q].conv IN
  IF c \notin DOMAIN convs
  THEN [x \in DOMAIN convs \cup {c} |->
          IF x = c THEN <<Updated(Answer(q), frame)>> ELSE convs[x]]
  ELSE [convs EXCEPT ![c] =
          [i \in DOMAIN @ |-> IF @[i].query = q THEN Updated(@[i], frame) ELSE @[i]]]

\* patchAssistant: the answer is found by its id, if its conversation is there.
Patch(q, frame) ==
  LET c == query[q].conv IN
  IF c \notin DOMAIN convs THEN convs
  ELSE [convs EXCEPT ![c] =
          [i \in DOMAIN @ |-> IF @[i].query = q THEN Updated(@[i], frame) ELSE @[i]]]

\* A turn of streamChat for q, which goes on in the given phase.
Turn(q, phase) ==
  /\ query' = [query EXCEPT ![q].phase = phase]
  /\ UNCHANGED <<shown, active, current, stopped, disturbed, deleted>>

\* authedFetch: a 401, and the retry once the refresh has succeeded, which an
\* aborted signal makes reject.
Unauthorized(q) ==
  /\ query[q].phase = "fetch" /\ Turn(q, "refreshing")
  /\ UNCHANGED <<convs, streaming, given>>

\* Mutant: the retry goes out without the signal.
RetryUnsignalled(q) ==
  /\ query[q].phase \in {"refreshing", "aborted"} /\ Turn(q, "retry")
  /\ UNCHANGED <<convs, streaming, given>>

Retry(q) ==
  /\ \/ query[q].phase = "refreshing" /\ Turn(q, "retry") /\ UNCHANGED streaming
     \/ query[q].phase = "aborted" /\ Turn(q, "ended") /\ streaming' = FALSE
  /\ UNCHANGED <<convs, given>>

Connected(q) ==
  /\ query[q].phase \in {"fetch", "retry"} /\ Turn(q, "tokens")
  /\ UNCHANGED <<convs, streaming, given>>

\* event_stream: tokens, the sources, done.
Token(q) ==
  /\ query[q].phase = "tokens" /\ given[q] < MaxToken /\ Turn(q, "tokens")
  /\ convs' = Patch(q, "token")
  /\ given' = [given EXCEPT ![q] = @ + 1]
  /\ UNCHANGED streaming

Sources(q) ==
  /\ query[q].phase = "tokens" /\ Turn(q, "done")
  /\ convs' = Patch(q, "sources")
  /\ UNCHANGED <<streaming, given>>

Done(q) ==
  /\ query[q].phase = "done" /\ Turn(q, "eof")
  /\ streaming' = FALSE /\ UNCHANGED <<convs, given>>

\* Mutant: the failure is not shown in the answer.
FailUnseen(q) == streaming' = FALSE /\ UNCHANGED <<convs, given>>

\* Mutant: the composer stays as it is.
FailStuck(q) ==
  /\ convs' = Patch(q, "error")
  /\ UNCHANGED <<streaming, given>>

\* onError.
Fail(q) ==
  /\ convs' = Patch(q, "error")
  /\ streaming' = FALSE /\ UNCHANGED given

\* The query or the model fails after the headers: an error frame instead.
ErrorFrame(q) == query[q].phase = "tokens" /\ Turn(q, "eof") /\ Fail(q)

\* No connection, a status other than 2xx, or no session to retry with.
Refused(q) ==
  /\ query[q].phase \in {"fetch", "refreshing", "retry", "aborted"}
  /\ Turn(q, "ended") /\ Fail(q)

\* The connection breaks while it is read.
Interrupted(q) ==
  /\ query[q].phase \in {"tokens", "done", "eof"}
  /\ Turn(q, "ended") /\ Fail(q)

\* The body ends, streamChat returns, and runQuery's last line runs.  An end that
\* no frame announced is like any other to streamChat.
EndOfStream(q) ==
  /\ \/ query[q].phase \in {"done", "eof"} /\ Turn(q, "ended")
     \/ query[q].phase = "tokens" /\ Turn(q, "cut")
  /\ streaming' = FALSE /\ UNCHANGED <<convs, given>>

Progress(q) ==
  \/ Unauthorized(q) \/ Retry(q) \/ Connected(q) \/ Refused(q)
  \/ Token(q) \/ Sources(q) \/ Done(q) \/ ErrorFrame(q)
  \/ Interrupted(q) \/ EndOfStream(q)

Next ==
  \/ \E q \in Query : Send(q) \/ Regenerate(q) \/ Progress(q)
  \/ \E c \in Conv : NewChat(c) \/ Select(c) \/ Delete(c)
  \/ Stop \/ Render

\* Every request is answered, and every stream ends, some time.
Fairness == \A q \in Query : WF_vars(Progress(q))
Spec == Init /\ [][Next]_vars
FairSpec == Spec /\ Fairness

----------------------------------------------------------------------------
\* The answers to q that the conversations hold.
AnswersTo(q) ==
  {m \in UNION {{convs[c][i] : i \in DOMAIN convs[c]} : c \in DOMAIN convs} : m.query = q}

\* patchAssistant (ChatApp.tsx:178) writes to the answer of its own query,
\* whatever conversation is open and however many streams run: an answer stands
\* in the conversation it was asked in, and holds no token, source or failure
\* that its own stream has not brought.
AnswersInPlace ==
  \A c \in DOMAIN convs : \A i \in DOMAIN convs[c] :
    LET m == convs[c][i] IN
    /\ query[m.query].conv = c /\ m.text <= given[m.query]
    /\ m.cited \/ m.error => query[m.query].phase \in {"done", "eof", "ended"}

\* A stream that goes on after its conversation was deleted does not bring it
\* back (ChatApp.tsx:181).
DeletedStaysDeleted == deleted \cap DOMAIN convs = {}

\* "The UI shows a clear error instead of hanging" (README.md:244-245): an answer
\* that has ended, unless it was stopped, something else went on meanwhile or its
\* body just ended, is whole and has its citations, or it is marked as failed.
EndsExplained ==
  \A q \in Query \ (stopped \cup disturbed) : query[q].phase = "ended" =>
    \A m \in AnswersTo(q) : m.error \/ (m.text = given[q] /\ m.cited)

\* Stopping is final (ChatApp.tsx:225): not a token of the query is received
\* after it, not even by the retry of a request that was waiting for a refresh.
StopHolds == [][\A q \in stopped : given'[q] = given[q]]_vars

\* "Instead of hanging" (README.md:245): a composer that waits for an answer is
\* given back, by the answer, its failure or the user.
ComposerReturns == streaming ~> ~ streaming

\* The same claim (README.md:244-245) with bodies that just end: the service dies
\* while it streams, and what stands between it and the browser closes the body
\* properly.  streamChat takes that for the end of the answer (api.ts:116-117).
CutsExplained ==
  \A q \in Query \ (stopped \cup disturbed) : query[q].phase \in {"ended", "cut"} =>
    \A m \in AnswersTo(q) : m.error \/ (m.text = given[q] /\ m.cited)

\* "A working 'Stop generating' control" (README.md:236): while an answer is
\* awaited that was not stopped, the control is there to stop it.
StopShown ==
  \A q \in Running \ stopped : query[q].phase # "eof" => streaming
============================================================================
