---------------------------- MODULE HookCollector ----------------------------
(***************************************************************************)
(* The loopback server that receives hook events (collector.py) together   *)
(* with the replay guard in front of it (auth.py, EventAuthenticator), the *)
(* transcript contexts that the review controller holds for it (review.py, *)
(* capture_request) and the event ledger behind it (storage.py).           *)
(*                                                                         *)
(* One thread per connection runs do_POST and process; one thread runs     *)
(* stop; the ledger's writer commits.  EventLedger models the ledger's own *)
(* failures step by step; here its writer has three steps: it commits an   *)
(* exchange, publishes it, or degrades.                                    *)
(***************************************************************************)
EXTENDS Naturals, Sequences, FiniteSets

CONSTANTS
    Connections,   \* connections that hooks make during the run
    NoConnection,  \* not a connection
    Requests,      \* signed requests: event, session, digest, transcript, nonce
    NoRequest,     \* not a request
    Malformed,     \* digests of bodies outside the request contract
    MaxHandlers,   \* MAX_CONCURRENT_HANDLERS
    MaxContexts,   \* MAX_EPHEMERAL_CONTEXT_ITEMS
    MaxItems       \* the ledger's queue limit

Fields == {"event", "session", "digest", "transcript", "nonce"}

ASSUME CollectorAssumption ==
    /\ NoConnection \notin Connections
    /\ NoRequest \notin Requests
    /\ \A r \in Requests : DOMAIN r = Fields
    /\ {MaxHandlers, MaxContexts, MaxItems} \subseteq Nat \ {0}

VARIABLES
    conn,      \* the handler of each connection
    server,    \* how far start and stop have come
    failed,    \* stop raised
    degraded,  \* the collector's _degraded_reason is set
    seen,      \* EventAuthenticator: the verified requests it remembers
    known,     \* sessions in the correlation allowlist
    held,      \* MissionReviewController._raw_contexts
    paired,    \* _session_transcripts and _transcript_sessions
    spoilt,    \* the review controller degraded itself
    ledger,    \* the event ledger
    committed, \* events.jsonl: the exchanges in order
    answered   \* responses sent with status 200 from the ledger

guards  == <<seen, known>>
review  == <<held, paired, spoilt>>
storage == <<ledger, committed>>
vars == <<conn, server, failed, degraded, guards, review, storage, answered>>

------------------------------------------------------------------------------
Events == {r.event : r \in Requests}
Sessions == {r.session : r \in Requests}
Context == [event : Events, session : Sessions, transcript : {r.transcript : r \in Requests}]
ContextOf(r) == [event |-> r.event, session |-> r.session, transcript |-> r.transcript]

\* A handler; "on" is the connection that registered the pending exchange it waits for.
Handler == [pc : {"none", "reading", "verified", "refreshing", "capturing", "submitting",
                  "putting", "waiting", "done"},
            req : Requests \cup {NoRequest}, on : Connections \cup {NoConnection}]
Unused == [pc |-> "none", req |-> NoRequest, on |-> NoConnection]

\* A pending exchange is named by the connection whose handler registered it.
Ledger == [closing : BOOLEAN, degraded : BOOLEAN, exited : BOOLEAN,
           queue : Seq(Connections), written : Connections \cup {NoConnection},
           inflight : SUBSET Connections, ok : SUBSET Connections,
           error : SUBSET Connections]

\* The exchange, and whether its raw transcript context reached the review.
Exchange == [of : Connections, context : BOOLEAN]

TypeOK ==
    /\ conn \in [Connections -> Handler]
    /\ server \in {"bound", "serving", "joining", "draining", "closing", "waiting", "stopped"}
    /\ failed \in BOOLEAN /\ degraded \in BOOLEAN /\ spoilt \in BOOLEAN
    /\ seen \subseteq Requests /\ known \subseteq Sessions
    /\ held \subseteq Context /\ Cardinality(held) <= MaxContexts
    /\ \A p \in paired : DOMAIN p = {"session", "transcript"}
    /\ ledger \in Ledger /\ Len(ledger.queue) <= MaxItems
    /\ committed \in Seq(Exchange)
    /\ \A a \in answered : a.to \in Requests /\ a.of \in Connections

Init ==
    /\ conn = [c \in Connections |-> Unused]
    /\ server = "bound" /\ failed = FALSE /\ degraded = FALSE
    /\ seen = {} /\ known = {}
    /\ held = {} /\ paired = {} /\ spoilt = FALSE
    /\ ledger = [closing |-> FALSE, degraded |-> FALSE, exited |-> FALSE, queue |-> <<>>,
                 written |-> NoConnection, inflight |-> {}, ok |-> {}, error |-> {}]
    /\ committed = <<>> /\ answered = {}

Active == {c \in Connections : conn[c].pc \notin {"none", "done"}}
Request(c) == conn[c].req
At(c, step) == conn[c].pc = step
Goes(c, step) == conn' = [conn EXCEPT ![c].pc = step]
Ends(c) == Goes(c, "done")

------------------------------------------------------------------------------
(* start and stop *)

Start ==
    /\ server = "bound"
    /\ server' = "serving"
    /\ UNCHANGED <<conn, failed, degraded, guards, review, storage, answered>>

\* The ledger or the server thread does not start: the socket is closed, and a ledger
\* that did start is stopped.
StartFails ==
    /\ server = "bound"
    /\ server' = "stopped" /\ failed' = TRUE
    /\ \E started \in BOOLEAN : ledger' = [ledger EXCEPT !.closing = started]
    /\ UNCHANGED <<conn, degraded, guards, review, committed, answered>>

\* stop_accepting and request_shutdown
Stop ==
    /\ server = "serving"
    /\ server' = "joining"
    /\ UNCHANGED <<conn, failed, degraded, guards, review, storage, answered>>

StopStep(from, to) ==
    /\ server = from /\ server' = to
    /\ UNCHANGED <<conn, failed, degraded, guards, review, storage, answered>>

\* A step of stop ran into the time limit: the ledger is stopped all the same, and stop
\* raises at its end.
StopTimesOut(from) ==
    /\ server = from /\ server' = "closing"
    /\ failed' = TRUE /\ degraded' = TRUE
    /\ UNCHANGED <<conn, guards, review, storage, answered>>

Joined == StopStep("joining", "draining")
JoinTimesOut == StopTimesOut("joining")

\* Variant: the handlers are told to stop but not waited for.
Drained_NotAwaited == StopStep("draining", "closing")
Drained == Active = {} /\ StopStep("draining", "closing")
DrainTimesOut == Active # {} /\ StopTimesOut("draining")

\* server_close and ledger.stop
StopLedger ==
    /\ server = "closing" /\ server' = "waiting"
    /\ ledger' = [ledger EXCEPT !.closing = TRUE]
    /\ UNCHANGED <<conn, failed, degraded, guards, review, committed, answered>>

\* The writer has left, or the time is over; the authenticator is forgotten.
Stopped == ledger.exited /\ StopStep("waiting", "stopped")
LedgerStopTimesOut ==
    /\ server = "waiting" /\ ~ledger.exited
    /\ server' = "stopped" /\ failed' = TRUE
    /\ UNCHANGED <<conn, degraded, guards, review, storage, answered>>

------------------------------------------------------------------------------
(* process_request: a connection gets a handler thread *)

Accept(c, r) ==
    /\ server = "serving" /\ At(c, "none")
    /\ Cardinality(Active) < MaxHandlers
    /\ conn' = [conn EXCEPT ![c].pc = "reading", ![c].req = r]
    /\ UNCHANGED <<server, failed, degraded, guards, review, storage, answered>>

\* All handlers are busy, or the thread does not start.
Rejected(c) ==
    /\ server = "serving" /\ At(c, "none")
    /\ Ends(c) /\ degraded' = TRUE
    /\ UNCHANGED <<server, failed, guards, review, storage, answered>>

------------------------------------------------------------------------------
(* do_POST and process *)

Silently == UNCHANGED <<server, failed, degraded, guards, review, storage, answered>>

\* discard: every request with this event is forgotten, whoever sent it.
Discard(r) ==
    seen' = IF \E s \in seen : s.event = r.event /\ s.digest = r.digest
            THEN {s \in seen : s.event # r.event} ELSE seen

\* discard_captured: the context of the event is dropped, whoever captured it.
Drop(r) == held' = {h \in held : h.event # r.event}

\* The body times out or is too long, a header is wrong, the clock window is missed, or
\* the collector has stopped.
ReadFails(c) == At(c, "reading") /\ Ends(c) /\ Silently

Replay(r) == \E s \in seen : s.nonce = r.nonce
OtherContent(r) == \E s \in seen : s.event = r.event /\ s.digest # r.digest

VerifyRefuses(c) ==
    /\ At(c, "reading") /\ server # "stopped"
    /\ Replay(Request(c)) \/ OtherContent(Request(c))
    /\ Ends(c) /\ Silently

Verify(c) ==
    /\ At(c, "reading") /\ server # "stopped"
    /\ ~Replay(Request(c)) /\ ~OtherContent(Request(c))
    /\ seen' = seen \cup {Request(c)}
    /\ Goes(c, "verified")
    /\ UNCHANGED <<server, failed, degraded, known, review, storage, answered>>

Reject(c) ==
    /\ At(c, "verified") /\ Request(c).digest \in Malformed
    /\ Discard(Request(c)) /\ Ends(c)
    /\ UNCHANGED <<server, failed, degraded, known, review, storage, answered>>

\* The published exchanges of an event (at most one).
Published(e) == {p \in ledger.ok : Request(p).event = e}
Pending(e) == {p \in ledger.inflight : Request(p).event = e}

\* The stored response goes out, unless it is longer than a response may be.
Answers(c, p) ==
    \/ answered' = answered \cup {[to |-> Request(c), of |-> p]} /\ UNCHANGED degraded
    \/ degraded' = TRUE /\ UNCHANGED answered

\* response_for: a published event is answered, or is in conflict.
Recall(c) ==
    /\ At(c, "verified") /\ Request(c).digest \notin Malformed /\ ~ledger.degraded
    /\ \E p \in Published(Request(c).event) :
        IF Request(p).digest = Request(c).digest
        THEN Answers(c, p)
        ELSE UNCHANGED <<degraded, answered>>
    /\ Ends(c)
    /\ UNCHANGED <<server, failed, guards, review, storage>>

RecallFails(c) ==
    /\ At(c, "verified") /\ Request(c).digest \notin Malformed /\ ledger.degraded
    /\ degraded' = TRUE /\ Ends(c)
    /\ UNCHANGED <<server, failed, guards, review, storage, answered>>

Unpublished(c) ==
    /\ At(c, "verified") /\ Request(c).digest \notin Malformed /\ ~ledger.degraded
    /\ Published(Request(c).event) = {}
    /\ Goes(c, "refreshing")
    /\ Silently

\* refresh admits the sessions that Factory's files corroborate by now.  An event of any
\* other session is answered with {} and forgotten.
Refresh(c) ==
    /\ At(c, "refreshing")
    /\ \E admitted \in SUBSET Sessions :
        /\ known' = known \cup admitted
        /\ IF Request(c).session \in known'
           THEN Goes(c, "capturing") /\ UNCHANGED seen
           ELSE Ends(c) /\ Discard(Request(c))
    /\ UNCHANGED <<server, failed, degraded, review, storage, answered>>

RefreshFails(c) ==
    /\ At(c, "refreshing")
    /\ degraded' = TRUE
    /\ Discard(Request(c)) /\ Ends(c)
    /\ UNCHANGED <<server, failed, known, review, storage, answered>>

\* capture_request.  The same context may be captured again.
Pair(r) == [session |-> r.session, transcript |-> r.transcript]
SameIdentity(r) ==
    \A p \in paired : p.session = r.session <=> p.transcript = r.transcript

Prior(r) == {h \in held : h.event = r.event}

Capture(c) ==
    /\ At(c, "capturing")
    /\ LET r == Request(c) IN
        \/ ContextOf(r) \in held /\ UNCHANGED <<held, paired>>
        \/ /\ Prior(r) = {} /\ SameIdentity(r) /\ Cardinality(held) < MaxContexts
           /\ held' = held \cup {ContextOf(r)}
           /\ paired' = paired \cup {Pair(r)}
    /\ Goes(c, "submitting")
    /\ UNCHANGED <<server, failed, degraded, guards, spoilt, storage, answered>>

\* The controller refuses and degrades itself; what is held for the event is dropped.  Only
\* a full table is reported to the collector: any other refusal ends the handler without
\* a response.
CaptureRefused(c) ==
    /\ At(c, "capturing")
    /\ LET r == Request(c)
           other == Prior(r) # {} /\ ContextOf(r) \notin held
           full == Prior(r) = {} /\ SameIdentity(r) /\ Cardinality(held) >= MaxContexts
       IN  /\ other \/ full \/ (Prior(r) = {} /\ ~SameIdentity(r))
           /\ degraded' = (degraded \/ full)
           /\ paired' = IF full THEN paired \cup {Pair(r)} ELSE paired
           /\ Drop(r) /\ Discard(r)
    /\ spoilt' = TRUE
    /\ Ends(c)
    /\ UNCHANGED <<server, failed, known, storage, answered>>

Accepting == ~ledger.degraded /\ ~ledger.closing

\* LedgerError: the ledger is degraded or closing.
SubmitRefused(c) ==
    /\ At(c, "submitting") /\ ~Accepting
    /\ degraded' = TRUE
    /\ Drop(Request(c)) /\ Ends(c)
    /\ UNCHANGED <<server, failed, guards, paired, spoilt, storage, answered>>

\* A retry that comes here after the exchange was published.  The context it has captured
\* stays held.
SubmitPrior(c) ==
    /\ At(c, "submitting") /\ Accepting
    /\ \E p \in Published(Request(c).event) :
        Request(p).digest = Request(c).digest /\ Answers(c, p)
    /\ Ends(c)
    /\ UNCHANGED <<server, failed, guards, review, storage>>

SubmitConflict(c) ==
    /\ At(c, "submitting") /\ Accepting
    /\ \E p \in Published(Request(c).event) \cup Pending(Request(c).event) :
        Request(p).digest # Request(c).digest
    /\ Drop(Request(c)) /\ Ends(c)
    /\ UNCHANGED <<server, failed, degraded, guards, paired, spoilt, storage, answered>>

\* Variant: a pending exchange is joined whatever content it has.
SubmitJoin_AnyDigest(c) ==
    /\ At(c, "submitting") /\ Accepting
    /\ Published(Request(c).event) = {}
    /\ \E p \in Pending(Request(c).event) :
        conn' = [conn EXCEPT ![c].pc = "waiting", ![c].on = p]
    /\ Silently

SubmitJoin(c) ==
    /\ At(c, "submitting") /\ Accepting
    /\ Published(Request(c).event) = {}
    /\ \E p \in Pending(Request(c).event) :
        /\ Request(p).digest = Request(c).digest
        /\ conn' = [conn EXCEPT ![c].pc = "waiting", ![c].on = p]
    /\ Silently

SubmitFirst(c) ==
    /\ At(c, "submitting") /\ Accepting
    /\ Published(Request(c).event) \cup Pending(Request(c).event) = {}
    /\ conn' = [conn EXCEPT ![c].pc = "putting", ![c].on = c]
    /\ ledger' = [ledger EXCEPT !.inflight = @ \cup {c}]
    /\ UNCHANGED <<server, failed, degraded, guards, review, committed, answered>>

Put(c) ==
    /\ At(c, "putting") /\ Len(ledger.queue) < MaxItems
    /\ ledger' = [ledger EXCEPT !.queue = Append(@, c)]
    /\ Goes(c, "waiting")
    /\ UNCHANGED <<server, failed, degraded, guards, review, committed, answered>>

\* Variant: a full queue is not reported as a degradation.
PutRefused_NotReported(c) ==
    /\ At(c, "putting") /\ Len(ledger.queue) >= MaxItems
    /\ ledger' = [ledger EXCEPT !.inflight = @ \ {c}]
    /\ Drop(Request(c)) /\ Ends(c)
    /\ UNCHANGED <<server, failed, degraded, guards, paired, spoilt, committed, answered>>

\* QueueCapacityError.  Handlers that joined in between are never woken.
PutRefused(c) ==
    /\ At(c, "putting") /\ Len(ledger.queue) >= MaxItems
    /\ ledger' = [ledger EXCEPT !.inflight = @ \ {c}]
    /\ degraded' = TRUE
    /\ Drop(Request(c)) /\ Ends(c)
    /\ UNCHANGED <<server, failed, guards, paired, spoilt, committed, answered>>

Receive(c) ==
    /\ At(c, "waiting") /\ conn[c].on \in ledger.ok
    /\ Answers(c, conn[c].on)
    /\ Ends(c)
    /\ UNCHANGED <<server, failed, guards, review, storage>>

ReceiveError(c) ==
    /\ At(c, "waiting") /\ conn[c].on \in ledger.error
    /\ degraded' = TRUE
    /\ Drop(Request(c)) /\ Ends(c)
    /\ UNCHANGED <<server, failed, guards, paired, spoilt, storage, answered>>

\* The response deadline is over.  The exchange may still be committed, so the context is
\* kept.
WaitTimesOut(c) ==
    /\ At(c, "waiting") /\ conn[c].on \notin ledger.ok \cup ledger.error
    /\ degraded' = TRUE
    /\ Ends(c)
    /\ UNCHANGED <<server, failed, guards, review, storage, answered>>

------------------------------------------------------------------------------
(* The ledger's writer *)

Commits(p) == committed' = Append(committed, [of |-> p, context |-> Prior(Request(p)) # {}])

\* The exchange is appended; after_append takes its context.
Commit ==
    /\ ledger.written = NoConnection /\ ledger.queue # <<>> /\ ~ledger.degraded
    /\ LET p == Head(ledger.queue) IN
        /\ ledger' = [ledger EXCEPT !.queue = Tail(@), !.written = p]
        /\ Commits(p) /\ Drop(Request(p))
    /\ UNCHANGED <<conn, server, failed, degraded, guards, paired, spoilt, answered>>

Publish ==
    /\ ledger.written # NoConnection
    /\ ledger' = [ledger EXCEPT !.written = NoConnection,
                                !.inflight = @ \ {ledger.written},
                                !.ok = @ \cup {ledger.written}]
    /\ UNCHANGED <<conn, server, failed, degraded, guards, review, committed, answered>>

\* A step of the writer raises before or after the exchange is in the file, or the ledger
\* is degraded already: the waiting handlers get the error.
WriterFails ==
    \/ /\ ledger.written # NoConnection
       /\ ledger' = [ledger EXCEPT !.written = NoConnection, !.degraded = TRUE,
                                   !.inflight = @ \ {ledger.written},
                                   !.error = @ \cup {ledger.written}]
       /\ UNCHANGED <<conn, server, failed, degraded, guards, review, committed, answered>>
    \/ /\ ledger.written = NoConnection /\ ledger.queue # <<>>
       /\ LET p == Head(ledger.queue) IN
            ledger' = [ledger EXCEPT !.queue = Tail(@), !.degraded = TRUE,
                                     !.inflight = @ \ {p}, !.error = @ \cup {p}]
       /\ UNCHANGED <<conn, server, failed, degraded, guards, review, committed, answered>>

WriterExits ==
    /\ ledger.closing /\ ledger.queue = <<>> /\ ledger.written = NoConnection
    /\ ~ledger.exited
    /\ ledger' = [ledger EXCEPT !.exited = TRUE]
    /\ UNCHANGED <<conn, server, failed, degraded, guards, review, committed, answered>>

------------------------------------------------------------------------------
Handle(c) ==
    \/ ReadFails(c) \/ VerifyRefuses(c) \/ Verify(c) \/ Reject(c)
    \/ Recall(c) \/ RecallFails(c) \/ Unpublished(c)
    \/ Refresh(c) \/ RefreshFails(c) \/ Capture(c) \/ CaptureRefused(c)
    \/ SubmitRefused(c) \/ SubmitPrior(c) \/ SubmitConflict(c) \/ SubmitJoin(c)
    \/ SubmitFirst(c) \/ Put(c) \/ PutRefused(c)
    \/ Receive(c) \/ ReceiveError(c) \/ WaitTimesOut(c)

Lifecycle ==
    \/ Start \/ StartFails \/ Stop \/ Joined \/ JoinTimesOut \/ Drained \/ DrainTimesOut
    \/ StopLedger \/ Stopped \/ LedgerStopTimesOut

Write == Commit \/ Publish \/ WriterFails \/ WriterExits

Next ==
    \/ Lifecycle \/ Write
    \/ \E c \in Connections :
        Handle(c) \/ Rejected(c) \/ \E r \in Requests : Accept(c, r)

Spec == Init /\ [][Next]_vars

------------------------------------------------------------------------------
(* Properties *)

\* Every 200 response for an event is the response of its one exchange in events.jsonl,
\* and the request had the content of that exchange (docs/architecture.md: "An
\* authenticated retry must use the first event's canonical digest").  The replay guard
\* alone does not give this: it forgets an event when any request for it is rejected.
RetryGetsFirstExchange ==
    \A a \in answered :
        /\ a.to.digest = Request(a.of).digest
        /\ \E i \in DOMAIN committed :
            /\ committed[i].of = a.of
            /\ \A j \in DOMAIN committed \ {i} :
                Request(committed[j].of).event # a.to.event

\* What the run asks before it lets its result be released.
Degraded == degraded \/ ledger.degraded \/ spoilt

StoppedCleanly == server = "stopped" /\ ~failed

\* A stop that raises nothing and finds nothing degraded lost no event: every handler that
\* came as far as the ledger's queue has sent the response of a durable exchange.
NothingLost ==
    StoppedCleanly /\ ~Degraded =>
        \A c \in Connections :
            conn[c].on # NoConnection =>
                /\ [to |-> Request(c), of |-> conn[c].on] \in answered
                /\ \E i \in DOMAIN committed : committed[i].of = conn[c].on

\* The same, in a state of the right type.
NothingIsLost == TypeOK /\ NothingLost

\* After such a stop nothing changes any more, so the final state that the run captures
\* is final (docs/architecture.md: "stops hook intake before final state capture").
IntakeStopsFirst ==
    [][StoppedCleanly => UNCHANGED <<committed, review, degraded, ledger, answered>>]_vars
==============================================================================
