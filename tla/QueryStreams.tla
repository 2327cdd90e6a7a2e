---------------------------- MODULE QueryStreams ----------------------------
(***************************************************************************)
(* Questions in conversations: the two routes that answer them, POST       *)
(* /queries in one transaction and POST /query-streams in up to three, the *)
(* rows they leave, and the browser that asks, listens, cancels, reloads,  *)
(* selects and deletes.  What the plan of a question does before its       *)
(* answer is QueryRanking; here it succeeds, is denied or fails.           *)
(***************************************************************************)
EXTENDS AnswerFilters, Functions, FiniteSets

CONSTANTS
  Requests, Conversations,
  Existing,  \* conversations of earlier questions
  Ways,      \* of each request: "stream" or "plain", with mode "answer" or "search"
  Scripts,   \* of each request: the texts its model may produce
  MaxChunk,  \* bound of the symbols in one chunk of the provider
  New,       \* the request opens a conversation of its own
  MaxTurns,  \* bound of what users and the platform do besides asking
  Capacity   \* bound of the events between a handler and its browser

ASSUME StreamsAssumption ==
  /\ Existing \subseteq Conversations /\ New \notin Conversations
  /\ \A r \in Requests : Ways[r] \subseteq {"stream", "plain"} \X {"answer", "search"}

Refusal  == <<"R">>   \* the explanation of why there is no answer
Lost     == <<"L">>   \* what the browser itself says of a broken connection
NoText   == <<>>
NoRow    == [status |-> "none", text |-> NoText]
Row(s, t)      == [status |-> s, text |-> t]
Event(kind, t) == [kind |-> kind, text |-> t]
NotFetched == [conv |-> New, rows |-> <<>>]
Placeholder == Row("running", NoText)   \* of the answer, inserted with the question
NoStream == [todo |-> <<>>, filter |-> NewFilter, said |-> NoText, sent |-> NoText,
             text |-> NoText, rows |-> {}]
Unasked  == [stage |-> "idle", kind |-> "stream", mode |-> "answer", conv |-> New,
             fresh |-> FALSE, outcome |-> "none"]

VARIABLES
  conv,     \* query_conversations: status of each
  msg,      \* query_messages: the answer row of each request, its question beside it
  logs,     \* rows of query_logs, model_call_logs and audit_logs of each request
  srv,      \* the handler of each request
  stream,   \* its model stream
  wire,     \* events on the way to the browser
  heard,    \* whether the browser still listens
  screen,   \* the answer as the browser shows it; known: under its server identifier
  fetched,  \* rows of a conversation that the browser has read and not shown yet
  turns     \* counts them, for MaxTurns

db     == <<conv, msg, logs>>
client == <<heard, screen, fetched, turns>>
vars   == <<conv, msg, logs, srv, stream, wire, heard, screen, fetched, turns>>

-----------------------------------------------------------------------------
(* The final answer.                                                       *)

Allowed == {<<"x">>}
WellFormed == {<<"x">>, <<"y">>}
Display(text) == Solid(StripRefs(text))

Unauthorized(answer) == Referenced(answer) \subseteq WellFormed /\ ~(Referenced(answer) \subseteq Allowed)

Valid(answer) == Referenced(answer) # {} /\ Referenced(answer) \subseteq Allowed

\* The model failed, or said nothing but what it thought.
Silent(said) == said = NoText \/ StripThinking(said) = <<>>

\* What is stored and shown of what a model said.  An answer without
\* references, or with malformed ones, gets the sources of the prompt
\* attached; its text stays.  White space is left aside.
FinalText == [said \in {NoText} \cup UNION {Scripts[r] : r \in Requests} |->
  LET answer == StripThinking(said)
  IN IF Silent(said) \/ Unauthorized(answer) \/ (Display(answer) = <<>> /\ ~Valid(answer)) THEN Refusal
     ELSE Display(answer)]

\* The service words its refusals itself: no model says one.
ASSUME ScriptsAssumption ==
  \A r \in Requests : Scripts[r] \subseteq Seq(STRING) /\ \A s \in Scripts[r] : Display(StripThinking(s)) # Refusal

(* The rows that a question leaves in the logs.                            *)

QueryLog(status)     == [table |-> "query_logs", says |-> status]
ModelCallLog(status) == [table |-> "model_call_logs", says |-> status]
AuditLog(event)      == [table |-> "audit_logs", says |-> event]

\* Of the models that rewrote the question and ranked the candidates.
RetrievalLogs == {ModelCallLog("retrieval")}

DenialLogs == {QueryLog("denied"), AuditLog("denied")}

\* Of an answer: called is whether its model was, said what came of it.
AnswerLogs(called, said) ==
  IF ~called THEN {}
  ELSE IF Silent(said) THEN {ModelCallLog("failed"), AuditLog("llm_degraded")}
  ELSE {ModelCallLog("success")} \cup (IF Valid(StripThinking(said)) THEN {} ELSE {AuditLog("citation_validation_failed")})

SuccessLogs(r, called, said) ==
  {QueryLog("success")} \cup RetrievalLogs \cup (IF srv[r].mode = "answer" THEN AnswerLogs(called, said) ELSE {})

-----------------------------------------------------------------------------
(* Steps of a handler.                                                     *)

Init ==
  /\ conv = [c \in Conversations |-> IF c \in Existing THEN "active" ELSE "none"]
  /\ msg = [r \in Requests |-> NoRow] /\ logs = [r \in Requests |-> {}]
  /\ srv = [r \in Requests |-> Unasked] /\ stream = [r \in Requests |-> NoStream]
  /\ wire = [r \in Requests |-> <<>>] /\ heard = [r \in Requests |-> FALSE]
  /\ screen = [r \in Requests |-> [status |-> "none", text |-> NoText, known |-> FALSE]]
  /\ fetched = NotFetched /\ turns = 0

Turn == turns < MaxTurns /\ turns' = turns + 1

To(r, stage) == srv' = [srv EXCEPT ![r].stage = stage]
Ended(r, outcome) == srv' = [srv EXCEPT ![r].stage = "closed", ![r].outcome = outcome]
Emit(r, event) ==
  IF heard[r] THEN Len(wire[r]) < Capacity /\ wire' = [wire EXCEPT ![r] = Append(@, event)]
  ELSE wire' = wire
Send(r, kind, text) == Emit(r, Event(kind, text))

\* The browser shows the question and an empty answer at once.
Ask(r, kind, mode, target) ==
  /\ srv[r].stage = "idle" /\ (target # New => conv[target] # "none")
  /\ srv' = [srv EXCEPT ![r] = [Unasked EXCEPT !.stage = "asked", !.kind = kind,
                                               !.mode = mode, !.conv = target]]
  /\ heard' = [heard EXCEPT ![r] = TRUE]
  /\ screen' = [screen EXCEPT ![r] = [status |-> "running", text |-> NoText, known |-> target # New]]
  /\ UNCHANGED <<db, stream, wire, fetched, turns>>

\* The transaction begins.  A conversation that is named must be the user's
\* and active; it is read without a lock.
LoadOwned(r) ==
  /\ srv[r].stage = "asked" /\ srv[r].conv # New /\ conv[srv[r].conv] = "active"
  /\ To(r, "loaded")
  /\ UNCHANGED <<conv, msg, logs, stream, wire, client>>

Unused == {c \in Conversations : conv[c] = "none" /\ \A q \in Requests : srv[q].conv # c}

CreateOwn(r) ==
  /\ srv[r].stage = "asked" /\ srv[r].conv = New /\ Unused # {}
  /\ srv' = [srv EXCEPT ![r].stage = "loaded", ![r].conv = CHOOSE c \in Unused : TRUE,
                        ![r].fresh = TRUE]
  /\ UNCHANGED <<conv, msg, logs, stream, wire, client>>

NotFound(r) ==
  /\ srv[r].stage = "asked" /\ srv[r].conv # New /\ conv[srv[r].conv] = "deleted"
  /\ Send(r, "error", NoText) /\ Ended(r, "refused")
  /\ UNCHANGED <<db, stream, client>>

\* The row of the conversation is updated and stays locked to the end of
\* the transaction.
Holds(r, c) == srv[r].stage = "planning" /\ srv[r].conv = c /\ ~srv[r].fresh
Locked(c) == \E r \in Requests : Holds(r, c)

InsertMessages(r) ==
  /\ srv[r].stage = "loaded" /\ ~Locked(srv[r].conv)
  /\ To(r, "planning")
  /\ UNCHANGED <<db, stream, wire, client>>

\* The text of the message is written and its conversation stamped, which
\* waits for a transaction that holds the row.
Finished(r, status, text) ==
  /\ \A q \in Requests \ {r} : ~Holds(q, srv[r].conv)
  /\ msg' = [msg EXCEPT ![r] = Row(status, text)]
Completed(r, text) == Finished(r, "done", text)
Failed(r)          == Finished(r, "error", Refusal)

\* The conversation that this transaction created, if it did, is committed.
Opened(r) == IF srv[r].fresh THEN [conv EXCEPT ![srv[r].conv] = "active"] ELSE conv

\* The token is refused, or the database fails and everything rolls back, on
\* both routes.
PlanFails(r) ==
  /\ srv[r].stage \in {"asked", "loaded", "planning"}
  /\ srv' = [srv EXCEPT ![r].stage = "closed", ![r].outcome = "failed", ![r].fresh = FALSE,
                        ![r].conv = IF srv[r].fresh THEN New ELSE @]
  /\ Send(r, "error", NoText)
  /\ UNCHANGED <<db, stream, client>>

\* No permission.  The plain route commits a failed message with its log;
\* the error leaves the transaction of the stream route.
PlainDenied(r) ==
  /\ srv[r].stage = "planning" /\ srv[r].kind = "plain"
  /\ conv' = Opened(r)
  /\ Failed(r)
  /\ logs' = [logs EXCEPT ![r] = DenialLogs]
  /\ Send(r, "error", NoText) /\ Ended(r, "denied")
  /\ UNCHANGED <<stream, client>>

StreamDenied(r) ==
  /\ srv[r].stage = "planning" /\ srv[r].kind = "stream"
  /\ srv' = [srv EXCEPT ![r].stage = "closed", ![r].outcome = "denied", ![r].fresh = FALSE,
                        ![r].conv = IF srv[r].fresh THEN New ELSE @]
  /\ Send(r, "error", NoText)
  /\ UNCHANGED <<db, stream, client>>

\* said: nothing if the model failed.
TextFor(r, said) == IF srv[r].mode = "answer" THEN FinalText[said] ELSE NoText

PlainAnswered(r, called, said) ==
  /\ srv[r].stage = "planning" /\ srv[r].kind = "plain" /\ (called \/ said = NoText)
  /\ Completed(r, TextFor(r, said))
  /\ Send(r, "done", TextFor(r, said))
  /\ conv' = Opened(r)
  /\ logs' = [logs EXCEPT ![r] = SuccessLogs(r, called, said)]
  /\ Ended(r, "answered")
  /\ UNCHANGED <<stream, client>>

-----------------------------------------------------------------------------
(* The stream route after its plan is committed.                           *)

PlanReady(r) ==
  /\ srv[r].stage = "planning" /\ srv[r].kind = "stream"
  /\ conv' = Opened(r)
  /\ msg' = [msg EXCEPT ![r] = Placeholder]
  /\ To(r, "opening")
  /\ UNCHANGED <<logs, stream, wire, client>>

SendMetadata(r, script) ==
  /\ srv[r].stage = "opening"
  /\ stream' = [stream EXCEPT ![r].todo = IF srv[r].mode = "answer" THEN script ELSE <<>>,
                              ![r].rows = IF srv[r].mode = "answer" THEN {} ELSE SuccessLogs(r, FALSE, NoText)]
  /\ To(r, IF srv[r].mode = "answer" THEN "streaming" ELSE "finalizing")
  /\ Send(r, "metadata", NoText)
  /\ UNCHANGED <<db, client>>

Visible(r, out) == IF out = <<>> THEN wire' = wire ELSE Send(r, "token", out)

\* One chunk through both filters.
NextChunk(r, n) ==
  /\ srv[r].stage = "streaming" /\ n <= Len(stream[r].todo)
  /\ \E chunk \in {SubSeq(stream[r].todo, 1, n)} :
     \E seen \in {ThinkingFeed(stream[r].filter, chunk)} :
     \E rest \in {SourceFeed(stream[r].filter.held, seen.out)} :
     \E out \in {Trimmed(rest.out, stream[r].sent)} :
       /\ stream' = [stream EXCEPT ![r] =
            [stream[r] EXCEPT !.todo = From(@, n + 1), !.said = @ \o chunk, !.sent = @ \o out,
                      !.filter = [buffer |-> seen.buffer, inside |-> seen.inside, held |-> rest.held]]]
       /\ Visible(r, out)
  /\ UNCHANGED <<db, srv, client>>

EndOfStream(r) ==
  /\ srv[r].stage = "streaming" /\ stream[r].todo = <<>>
  /\ \E tail \in {ThinkingFlush(stream[r].filter)} :
     \E rest \in {SourceFeed(stream[r].filter.held, tail)} :
     \E out \in {Trimmed(rest.out \o StripRefs(rest.held), stream[r].sent)} :
       /\ stream' = [stream EXCEPT ![r] =
            [stream[r] EXCEPT !.filter = NewFilter, !.sent = @ \o out, !.said = NoText,
                      !.text = TextFor(r, stream[r].said), !.rows = SuccessLogs(r, TRUE, stream[r].said)]]
       /\ Visible(r, out)
  /\ To(r, "finalizing")
  /\ UNCHANGED <<db, client>>

\* No context or no client, so that no model is called; or an error of the
\* provider or of anything else.
ModelFails(r, called) ==
  /\ srv[r].stage = "streaming" /\ (called \/ stream[r].said = NoText)
  /\ stream' = [stream EXCEPT ![r] = [stream[r] EXCEPT !.todo = <<>>, !.filter = NewFilter,
                !.said = NoText, !.text = Refusal, !.rows = SuccessLogs(r, called, NoText)]]
  /\ To(r, "finalizing")
  /\ UNCHANGED <<db, wire, client>>

\* Faulty: the answer is sent before it is committed.
Finalize_Variant(r) ==
  /\ srv[r].stage = "finalizing"
  /\ Send(r, "done", stream[r].text) /\ To(r, "committed")
  /\ UNCHANGED <<db, stream, client>>

\* The message and the logs of the answer are one transaction.
Finalize(r) ==
  /\ srv[r].stage = "finalizing"
  /\ Completed(r, stream[r].text)
  /\ logs' = [logs EXCEPT ![r] = stream[r].rows]
  /\ To(r, "committed")
  /\ UNCHANGED <<conv, stream, wire, client>>

\* Faulty: the logs are committed before the message, in a transaction of
\* their own.
FinalizeFails_Variant(r) ==
  /\ srv[r].stage = "finalizing"
  /\ logs' = [logs EXCEPT ![r] = stream[r].rows]
  /\ To(r, "failing")
  /\ UNCHANGED <<conv, msg, stream, wire, client>>

FinalizeFails(r) ==
  /\ srv[r].stage = "finalizing"
  /\ To(r, "failing")
  /\ UNCHANGED <<db, stream, wire, client>>

\* Faulty: the failed answer is not marked.
MarkFailed_Variant(r, stored) ==
  /\ srv[r].stage = "failing"
  /\ srv' = [srv EXCEPT ![r].stage = "apologizing", ![r].outcome = "failed"]
  /\ UNCHANGED <<db, stream, wire, client>>

\* A transaction of its own, whose failure is swallowed.
MarkFailed(r, stored) ==
  /\ srv[r].stage = "failing"
  /\ IF stored THEN Failed(r) ELSE UNCHANGED msg
  /\ srv' = [srv EXCEPT ![r].stage = "apologizing",
                        ![r].outcome = IF stored THEN "failed" ELSE "unmarked"]
  /\ UNCHANGED <<conv, logs, stream, wire, client>>

SendError(r) ==
  /\ srv[r].stage = "apologizing"
  /\ Send(r, "error", NoText) /\ To(r, "closed")
  /\ UNCHANGED <<db, stream, client>>

SendDone(r) ==
  /\ srv[r].stage = "committed"
  /\ Send(r, "done", stream[r].text) /\ Ended(r, "answered")
  /\ UNCHANGED <<db, stream, client>>

\* The browser is gone: the generator is closed where it yields, and no
\* handler catches that.
Abandon(r) ==
  /\ ~heard[r] /\ srv[r].stage \in {"opening", "streaming", "committed", "apologizing"}
  /\ srv' = [srv EXCEPT ![r].stage = "closed",
                        ![r].outcome = IF @ = "none" THEN "abandoned" ELSE @]
  /\ stream' = [stream EXCEPT ![r] = NoStream]
  /\ UNCHANGED <<db, wire, client>>

Busy == {r \in Requests : srv[r].stage \notin {"idle", "closed"}}

Planning(r)  == srv[r].stage \in {"asked", "loaded", "planning"}
Streaming(r) == srv[r].kind = "stream" /\ ~Planning(r)

\* What arrives of r when its connection ends with the process: the body of
\* a stream ends as if it were complete ("cut") or with an error ("broken"),
\* also behind its last event; any other response is not there.
Dropped(r, how) ==
  IF ~heard[r] \/ (r \notin Busy /\ (wire[r] = <<>> \/ how = "cut")) THEN wire[r]
  ELSE IF Streaming(r) THEN Append(wire[r], Event(how, NoText))
  ELSE <<Event("broken", NoText)>>

\* The process dies: its transactions roll back and its connections end.
Crash ==
  /\ Turn
  /\ Busy # {} \/ \E r \in Requests : wire[r] # <<>>
  /\ srv' = [r \in Requests |->
       IF r \notin Busy THEN srv[r]
       ELSE [srv[r] EXCEPT !.stage = "closed", !.outcome = "crashed", !.fresh = FALSE,
               !.conv = IF srv[r].fresh /\ conv[@] = "none" THEN New ELSE @]]
  /\ \E how \in {"cut", "broken"} : wire' = [r \in Requests |-> Dropped(r, how)]
  /\ stream' = [r \in Requests |-> IF r \in Busy THEN NoStream ELSE stream[r]]
  /\ UNCHANGED <<db, heard, screen, fetched>>

-----------------------------------------------------------------------------
(* The browser.                                                            *)

\* The shown answer after one event.  A body that ends without a last event
\* is taken for a complete answer; an answer that a selection has taken off
\* the screen is not brought back.
Shown(s, event) ==
  IF s.status = "none" THEN s
  ELSE CASE event.kind = "metadata" -> [s EXCEPT !.known = TRUE]
         [] event.kind = "token"    -> [s EXCEPT !.text = @ \o event.text]
         [] event.kind = "done"     -> [s EXCEPT !.status = "done", !.text = event.text,
                                                 !.known = TRUE]
         [] event.kind = "cut"      -> [s EXCEPT !.status = "done"]
         [] event.kind = "error"    -> [s EXCEPT !.status = "error", !.text = NoText]
         [] OTHER                   -> [s EXCEPT !.status = "error", !.text = Lost]

\* A complete answer ends with the body behind it; an error ends the reading.
Closing(events) ==
  \/ Head(events).kind \in {"error", "cut", "broken"}
  \/ Head(events).kind = "done" /\ Tail(events) = <<>>

Hear(r) ==
  /\ heard[r] /\ wire[r] # <<>>
  /\ screen' = [screen EXCEPT ![r] = Shown(@, Head(wire[r]))]
  /\ heard' = [heard EXCEPT ![r] = ~Closing(wire[r])]
  /\ wire' = [wire EXCEPT ![r] = IF Closing(@) THEN <<>> ELSE Tail(@)]
  /\ UNCHANGED <<db, srv, stream, fetched, turns>>

Cancel(r) ==
  /\ Turn
  /\ heard[r] /\ srv[r].kind = "stream"
  /\ heard' = [heard EXCEPT ![r] = FALSE]
  /\ wire' = [wire EXCEPT ![r] = <<>>]
  /\ screen' = [screen EXCEPT ![r].status = IF @ = "none" THEN @ ELSE "cancelled"]
  /\ UNCHANGED <<db, srv, stream, fetched>>

Stored(r) == [status |-> msg[r].status, text |-> msg[r].text, known |-> TRUE]
NotShown  == [status |-> "none", text |-> NoText, known |-> FALSE]

\* The page is loaded again and shows the rows of one conversation.
Reload(c) ==
  /\ Turn
  /\ conv[c] = "active"
  /\ screen' = [r \in Requests |-> IF srv[r].conv = c /\ msg[r].status # "none"
                                   THEN Stored(r) ELSE NotShown]
  /\ heard' = [r \in Requests |-> FALSE]
  /\ wire' = [r \in Requests |-> <<>>]
  /\ fetched' = NotFetched
  /\ UNCHANGED <<db, srv, stream>>

\* Selecting a conversation reads its rows and shows them later.
Fetch(c) ==
  /\ Turn
  /\ conv[c] = "active" /\ fetched = NotFetched
  /\ fetched' = [conv |-> c, rows |->
       [r \in {q \in Requests : srv[q].conv = c /\ msg[q].status # "none"} |-> Stored(r)]]
  /\ UNCHANGED <<db, srv, stream, wire, heard, screen>>

Select ==
  LET rows == fetched.rows
      inRecord(r) == r \in DOMAIN rows \/ (screen[r].known /\ srv[r].conv = fetched.conv)
  IN
  /\ fetched # NotFetched
  /\ screen' = [r \in Requests |-> IF ~inRecord(r) THEN screen[r]
                                   ELSE IF r \in DOMAIN rows THEN rows[r]
                                   ELSE NotShown]
  /\ fetched' = NotFetched
  /\ UNCHANGED <<db, srv, stream, wire, heard, turns>>

Create ==
  /\ Turn
  /\ Unused # {}
  /\ conv' = [conv EXCEPT ![CHOOSE c \in Unused : TRUE] = "active"]
  /\ UNCHANGED <<msg, logs, srv, stream, wire, heard, screen, fetched>>

\* Waits for a plan that holds the row; of the messages nothing changes.
Delete(c) ==
  /\ Turn
  /\ conv[c] = "active" /\ ~Locked(c)
  /\ conv' = [conv EXCEPT ![c] = "deleted"]
  /\ UNCHANGED <<msg, logs, srv, stream, wire, heard, screen, fetched>>

-----------------------------------------------------------------------------

Prepare(r) ==
  \/ LoadOwned(r) \/ CreateOwn(r) \/ NotFound(r)
  \/ InsertMessages(r) \/ PlanFails(r) \/ PlainDenied(r) \/ StreamDenied(r)
  \/ (\E s \in Scripts[r] \cup {NoText}, called \in BOOLEAN : PlainAnswered(r, called, s))
  \/ PlanReady(r)

Answer(r) ==
  \/ (\E called \in BOOLEAN : ModelFails(r, called)) \/ EndOfStream(r) \/ (\E n \in 1..MaxChunk : NextChunk(r, n))
  \/ (\E s \in Scripts[r] : SendMetadata(r, s))
  \/ Finalize(r) \/ FinalizeFails(r) \/ (\E b \in BOOLEAN : MarkFailed(r, b))
  \/ SendError(r) \/ SendDone(r) \/ Abandon(r)

Handle(r) == Prepare(r) \/ Answer(r)

Browse ==
  \/ (\E r \in Requests : \E w \in Ways[r], t \in Conversations \cup {New} : Ask(r, w[1], w[2], t))
  \/ (\E r \in Requests : Cancel(r))
  \/ (\E c \in Conversations : Reload(c) \/ Fetch(c) \/ Delete(c))
  \/ Select \/ Create

Next ==
  \/ (\E r \in Requests : Handle(r) \/ Hear(r))
  \/ Browse \/ Crash

\* A handler that runs goes on, models time out, and the browser reads what
\* arrives; nobody has to ask, cancel, crash or come back.
Fairness == \A r \in Requests : WF_vars(Handle(r)) /\ WF_vars(Hear(r))

Spec == Init /\ [][Next]_vars /\ Fairness

-----------------------------------------------------------------------------
(* Properties.                                                             *)

\* An answer that the browser shows as complete, once it has stopped
\* listening, is the committed message, text for text, and its query is
\* logged, unless the process died under its stream (the browser cannot tell
\* the end that leaves from that of an answer); and an error that the service
\* told the browser never hides an answer that was stored, which only a
\* connection that breaks behind the commit does
\* (query_stream_sse_events: the transaction ends before done is sent).
ShownIsStored ==
  \A r \in Requests :
    /\ screen[r].status = "done" /\ ~heard[r] =>
         \/ msg[r] = Row("done", screen[r].text) /\ QueryLog("success") \in logs[r]
         \/ srv[r].kind = "stream" /\ srv[r].outcome = "crashed"
    /\ screen[r].status = "error" /\ screen[r].text # Lost => msg[r].status # "done"

\* Of an answer and its log neither is ever without the other, on both
\* routes and through every failure; the log says whether its model failed
\* where the answer is a refusal, and only there, and an answer that was
\* changed is audited; a denial that was logged left a failed message
\* (finalize_query_stream and complete_assistant_message in one transaction,
\* execute_query).
AnswersLogged ==
  \A r \in Requests :
    /\ msg[r].status = "done" <=> QueryLog("success") \in logs[r]
    /\ ModelCallLog("failed") \in logs[r] => msg[r] = Row("done", Refusal) /\ AuditLog("llm_degraded") \in logs[r]
    /\ ModelCallLog("success") \in logs[r] /\ msg[r].text = Refusal =>
         AuditLog("citation_validation_failed") \in logs[r]
    /\ DenialLogs \cap logs[r] # {} => msg[r].status = "error" /\ logs[r] = DenialLogs

\* What the user read while the answer arrived is what was stored of it,
\* whatever chunks the provider cuts it into: no tag, no reasoning and no
\* reference slips through, and nothing else is lost (AnswerStreamRunner
\* against _strip_thinking_blocks and strip_source_refs_for_display).
StreamMatchesAnswer ==
  \A r \in Requests :
    srv[r].outcome = "answered" /\ srv[r].kind = "stream" /\ msg[r].text # Refusal
      => Solid(stream[r].sent) = msg[r].text

\* An answer that is being written is completed or marked as failed, unless
\* the browser left, the process died or the transaction that marks it failed
\* too; and a browser that stays learns how its question ended
\* (query_stream_sse_events, useQueryStream).
StreamsSettle ==
  \A r \in Requests :
    /\ msg[r].status = "running" ~>
         (msg[r].status \in {"done", "error"} \/ srv[r].outcome \in {"abandoned", "crashed", "unmarked"})
    /\ heard[r] ~> ~heard[r]

=============================================================================
