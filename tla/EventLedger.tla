----------------------------- MODULE EventLedger -----------------------------
(***************************************************************************)
(* The durable event and response ledger of one run                        *)
(* (src/shadow_mission/storage.py, EventLedger).                           *)
(*                                                                         *)
(* Handler threads (Clients) submit authenticated hook events.  The first  *)
(* submission of an event registers a pending exchange and queues it for   *)
(* the one writer thread; later submissions of the same event join the     *)
(* pending exchange or, once it is published, receive the stored response. *)
(* The writer decides a response, raises a degradation marker on disk,     *)
(* appends the exchange to events.jsonl, runs the plan's commit and the    *)
(* after-append callbacks, updates the SQLite index, clears the marker and *)
(* publishes the exchange.  Every disk step may fail, and the process may  *)
(* crash between or inside any two steps.                                  *)
(***************************************************************************)
EXTENDS Naturals, Sequences, FiniteSets

CONSTANTS
    Clients,      \* collector handler threads that call submit
    Events,       \* event identifiers
    Digests,      \* request digests: what the sanitized event contains
    Bodies,       \* response bodies the decide callback may choose
    MaxItems,     \* queue item limit (ByteBoundedQueue)
    MaxPendings,  \* bound: pending exchanges registered in a behaviour
    NoDigest,     \* not a digest
    ShortWrites   \* TRUE: an unbuffered write may persist a prefix silently

ASSUME LedgerAssumption ==
    /\ MaxItems \in Nat \ {0}
    /\ MaxPendings \in Nat
    /\ NoDigest \notin Digests
    /\ ShortWrites \in BOOLEAN

VARIABLES
    \* disk
    jsonl,      \* complete records of events.jsonl, in file order
    torn,       \* events.jsonl holds an incomplete record
    marker,     \* ledger-degraded.json exists
    index,      \* events in index.sqlite3
    \* memory of the collector process
    phase,      \* "down": no ledger object; "open": built; "started"
    closing,    \* _closing
    degraded,   \* _degraded_reason is not None
    records,    \* _records: exchanges published to submit and response_for
    next,       \* _next_sequence
    inflight,   \* _inflight: event -> pending exchange, 0 when none
    queue,      \* _queue: pending exchanges, oldest first
    pend,       \* every _PendingExchange object created so far
    writer,     \* the writer thread
    starter,    \* the thread inside start()
    client,     \* the handler threads
    \* history
    applied,    \* events whose commit and callbacks all returned, in order
    acked       \* responses that submit or response_for returned

disk    == <<jsonl, torn, marker, index>>
memory  == <<phase, closing, degraded, records, next, inflight, queue>>
threads == <<pend, writer, starter, client>>
history == <<applied, acked>>
vars    == <<disk, memory, threads, history>>

------------------------------------------------------------------------------
PendingIds == 1..MaxPendings

\* A HookExchangeRecord: its sequence, its envelope and its response.
Exchange == [seq : Nat \ {0}, event : Events, digest : Digests, body : Bodies]
NoExchange == [seq |-> 0]

\* A _PendingExchange: result is "waiting" until completed is set.
Pending == [event : Events, digest : Digests,
            result : {"waiting", "ok", "error"},
            exchange : Exchange \cup {NoExchange}]

WriterSteps == {"none", "setup", "poll", "decide", "mark", "append", "project",
                "index", "clear", "publish", "answer", "fail", "reject", "exited"}
NoWriter == [pc |-> "none", p |-> 0, ex |-> NoExchange]
Writer == [pc : WriterSteps, p : PendingIds \cup {0}, ex : Exchange \cup {NoExchange}]

\* A handler thread: the pending exchange it holds and the digest it sent.
IdleClient == [pc |-> "idle", p |-> 0, asked |-> NoDigest]
Client == [pc : {"idle", "put", "wait"}, p : PendingIds \cup {0},
           asked : Digests \cup {NoDigest}]

\* A response that submit returned for a request with digest "asked".
Ack == [asked : Digests, exchange : Exchange]

EventsOf(s) == [i \in DOMAIN s |-> s[i].event]
RecordsOf(s) == {s[i] : i \in DOMAIN s}
Prior(e) == {r \in records : r.event = e}

TypeOK ==
    /\ jsonl \in Seq(Exchange)
    /\ torn \in BOOLEAN
    /\ marker \in BOOLEAN
    /\ index \subseteq Events
    /\ phase \in {"down", "open", "started"}
    /\ closing \in BOOLEAN
    /\ degraded \in BOOLEAN
    /\ records \subseteq Exchange
    /\ next \in Nat \ {0}
    /\ inflight \in [Events -> PendingIds \cup {0}]
    /\ queue \in Seq(PendingIds)
    /\ pend \in Seq(Pending)
    /\ Len(pend) <= MaxPendings
    /\ writer \in Writer
    /\ starter \in {"none", "wait", "timedout", "done"}
    /\ client \in [Clients -> Client]
    /\ applied \in Seq(Events)
    /\ acked \subseteq Ack

\* A fresh object over the recovered disk: nothing queued, no threads.
ResetMemory ==
    /\ closing' = FALSE
    /\ inflight' = [e \in Events |-> 0]
    /\ queue' = <<>>
    /\ writer' = NoWriter
    /\ starter' = "none"
    /\ client' = [c \in Clients |-> IdleClient]

Init ==
    /\ jsonl = <<>> /\ torn = FALSE /\ marker = FALSE /\ index = {}
    /\ phase = "down" /\ closing = FALSE /\ degraded = FALSE
    /\ records = {} /\ next = 1
    /\ inflight = [e \in Events |-> 0]
    /\ queue = <<>> /\ pend = <<>>
    /\ writer = NoWriter /\ starter = "none"
    /\ client = [c \in Clients |-> IdleClient]
    /\ applied = <<>> /\ acked = {}

------------------------------------------------------------------------------
(* Construction, start and stop *)

\* What _recover_jsonl demands of the file; anything else raises
\* LedgerCorruptionError and no ledger object exists.
Contiguous == \A i \in DOMAIN jsonl : jsonl[i].seq = i
NoRepeatedEvent ==
    \A i, j \in DOMAIN jsonl : jsonl[i].event = jsonl[j].event => i = j
Recoverable == ~torn /\ Contiguous /\ NoRepeatedEvent

\* __init__: read the marker, replay the file, rebuild the index beside the
\* old one and replace it.
Open ==
    /\ phase = "down"
    /\ Recoverable
    /\ phase' = "open"
    /\ degraded' = marker
    /\ records' = RecordsOf(jsonl)
    /\ next' = Len(jsonl) + 1
    /\ index' = {jsonl[i].event : i \in DOMAIN jsonl}
    /\ ResetMemory
    /\ UNCHANGED <<jsonl, torn, marker, pend, history>>

\* start(): a degraded, started or closed ledger refuses.
Start ==
    /\ phase = "open" /\ ~degraded /\ ~closing
    /\ phase' = "started"
    /\ writer' = [writer EXCEPT !.pc = "setup"]
    /\ starter' = "wait"
    /\ UNCHANGED <<disk, closing, degraded, records, next, inflight, queue,
                   pend, client, history>>

\* _writer_ready is set: the caller of start() returns.
StartReturns ==
    /\ starter = "wait" /\ writer.pc \notin {"none", "setup"}
    /\ starter' = "done"
    /\ UNCHANGED <<disk, memory, pend, writer, client, history>>

\* _writer_ready was not set in time.  The writer thread is not stopped: it
\* may become ready and run before the caller degrades the ledger.
StartTimesOut ==
    /\ starter = "wait" /\ writer.pc = "setup"
    /\ starter' = "timedout"
    /\ UNCHANGED <<disk, memory, pend, writer, client, history>>

StartDegrades ==
    /\ starter = "timedout"
    /\ starter' = "done"
    /\ degraded' = TRUE
    /\ marker' \in {marker, TRUE}        \* an OSError is swallowed
    /\ UNCHANGED <<jsonl, torn, index, phase, closing, records, next, inflight,
                   queue, pend, writer, client, history>>

Stop ==
    /\ phase # "down" /\ ~closing
    /\ closing' = TRUE
    /\ UNCHANGED <<disk, phase, degraded, records, next, inflight, queue,
                   threads, history>>

------------------------------------------------------------------------------
(* submit() and response_for() *)

Accepting == phase = "started" /\ ~closing /\ ~degraded

\* The event is published: its stored response answers the retry.  A retry
\* with another digest raises LedgerConflictError and changes nothing.
SubmitPrior(c, e, d) ==
    /\ client[c].pc = "idle" /\ Accepting
    /\ \E r \in Prior(e) :
        /\ r.digest = d
        /\ acked' = acked \cup {[asked |-> d, exchange |-> r]}
    /\ UNCHANGED <<disk, memory, threads, applied>>

\* response_for answers a published event also while the ledger is closing.
ResponseFor(c, e, d) ==
    /\ client[c].pc = "idle" /\ phase # "down" /\ ~degraded
    /\ \E r \in Prior(e) :
        /\ r.digest = d
        /\ acked' = acked \cup {[asked |-> d, exchange |-> r]}
    /\ UNCHANGED <<disk, memory, threads, applied>>

\* Variant: a joining request is not compared with the pending digest.
SubmitJoin_AnyDigest(c, e, d) ==
    /\ client[c].pc = "idle" /\ Accepting
    /\ Prior(e) = {} /\ inflight[e] # 0
    /\ client' = [client EXCEPT ![c] = [pc |-> "wait", p |-> inflight[e], asked |-> d]]
    /\ UNCHANGED <<disk, memory, pend, writer, starter, history>>

SubmitJoin(c, e, d) ==
    /\ client[c].pc = "idle" /\ Accepting
    /\ Prior(e) = {} /\ inflight[e] # 0
    /\ pend[inflight[e]].digest = d
    /\ client' = [client EXCEPT ![c] = [pc |-> "wait", p |-> inflight[e], asked |-> d]]
    /\ UNCHANGED <<disk, memory, pend, writer, starter, history>>

SubmitFirst(c, e, d) ==
    /\ client[c].pc = "idle" /\ Accepting
    /\ Prior(e) = {} /\ inflight[e] = 0
    /\ Len(pend) < MaxPendings
    /\ pend' = Append(pend, [event |-> e, digest |-> d, result |-> "waiting",
                             exchange |-> NoExchange])
    /\ inflight' = [inflight EXCEPT ![e] = Len(pend) + 1]
    /\ client' = [client EXCEPT ![c] = [pc |-> "put", p |-> Len(pend) + 1, asked |-> d]]
    /\ UNCHANGED <<disk, phase, closing, degraded, records, next, queue,
                   writer, starter, history>>

\* _queue.put, outside the state lock: the ledger may have degraded or closed
\* since the registration.
Put(c) ==
    /\ client[c].pc = "put"
    /\ Len(queue) < MaxItems
    /\ queue' = Append(queue, client[c].p)
    /\ client' = [client EXCEPT ![c].pc = "wait"]
    /\ UNCHANGED <<disk, phase, closing, degraded, records, next, inflight,
                   pend, writer, starter, history>>

\* The queue is full: the registration is withdrawn, but completed is never
\* set for the threads that joined it in between.
PutRefused(c) ==
    /\ client[c].pc = "put"
    /\ Len(queue) >= MaxItems
    /\ inflight' = [inflight EXCEPT ![pend[client[c].p].event] = 0]
    /\ client' = [client EXCEPT ![c] = IdleClient]
    /\ UNCHANGED <<disk, phase, closing, degraded, records, next, queue,
                   pend, writer, starter, history>>

\* Variant: pending.error is not looked at.
Receive_ErrorIgnored(c) ==
    /\ client[c].pc = "wait"
    /\ pend[client[c].p].result # "waiting"
    /\ acked' = acked \cup {[asked    |-> client[c].asked,
                             exchange |-> pend[client[c].p].exchange]}
    /\ client' = [client EXCEPT ![c] = IdleClient]
    /\ UNCHANGED <<disk, memory, pend, writer, starter, applied>>

Receive(c) ==
    /\ client[c].pc = "wait"
    /\ pend[client[c].p].result # "waiting"
    /\ acked' = IF pend[client[c].p].result = "ok"
                THEN acked \cup {[asked    |-> client[c].asked,
                                  exchange |-> pend[client[c].p].exchange]}
                ELSE acked
    /\ client' = [client EXCEPT ![c] = IdleClient]
    /\ UNCHANGED <<disk, memory, pend, writer, starter, applied>>

\* completed.wait(timeout) expired: the exchange may still become durable.
WaitTimesOut(c) ==
    /\ client[c].pc = "wait"
    /\ pend[client[c].p].result = "waiting"
    /\ client' = [client EXCEPT ![c] = IdleClient]
    /\ UNCHANGED <<disk, memory, pend, writer, starter, history>>

------------------------------------------------------------------------------
(* The writer thread *)

Go(step) == writer' = [writer EXCEPT !.pc = step]

SetupOk ==
    /\ writer.pc = "setup"
    /\ Go("poll")
    /\ UNCHANGED <<disk, memory, pend, starter, client, history>>

\* The index cannot be opened: degrade, answer everything in flight with the
\* error, drain the queue and leave.
SetupFails ==
    /\ writer.pc = "setup"
    /\ Go("exited")
    /\ degraded' = TRUE
    /\ marker' \in {marker, TRUE}
    /\ inflight' = [e \in Events |-> 0]
    /\ queue' = <<>>
    /\ pend' = [p \in DOMAIN pend |->
                  IF \E e \in Events : inflight[e] = p
                  THEN [pend[p] EXCEPT !.result = "error"] ELSE pend[p]]
    /\ UNCHANGED <<jsonl, torn, index, phase, closing, records, next, starter,
                   client, history>>

\* Variant: a closing ledger's writer leaves without looking at the queue.
WriterExits_Early ==
    /\ writer.pc = "poll" /\ closing
    /\ Go("exited")
    /\ UNCHANGED <<disk, memory, pend, starter, client, history>>

WriterExits ==
    /\ writer.pc = "poll" /\ closing /\ queue = <<>>
    /\ Go("exited")
    /\ UNCHANGED <<disk, memory, pend, starter, client, history>>

\* _queue.get and the degraded check that follows it.
Take ==
    /\ writer.pc = "poll" /\ queue # <<>>
    /\ queue' = Tail(queue)
    /\ writer' = [pc |-> IF degraded THEN "fail" ELSE "decide",
                  p |-> Head(queue), ex |-> NoExchange]
    /\ UNCHANGED <<disk, phase, closing, degraded, records, next, inflight,
                   pend, starter, client, history>>

\* _make_exchange: one call of the decide callback.
Decide(b) ==
    /\ writer.pc = "decide"
    /\ writer' = [writer EXCEPT
                    !.pc = "mark",
                    !.ex = [seq |-> next, event |-> pend[writer.p].event,
                            digest |-> pend[writer.p].digest, body |-> b]]
    /\ UNCHANGED <<disk, memory, pend, starter, client, history>>

\* Variant: no marker is raised before the append.
Mark_Skipped ==
    /\ writer.pc = "mark"
    /\ Go("append")
    /\ UNCHANGED <<disk, memory, pend, starter, client, history>>

\* _persist_degraded("post_fsync_incomplete")
Mark ==
    /\ writer.pc = "mark"
    /\ marker' = TRUE
    /\ Go("append")
    /\ UNCHANGED <<jsonl, torn, index, memory, pend, starter, client, history>>

\* handle.write is unbuffered and its result is not looked at: on a full disk it
\* returns fewer bytes than the line has and raises nothing.
AppendOk ==
    /\ writer.pc = "append"
    /\ torn' \in IF ShortWrites THEN {torn, TRUE} ELSE {torn}
    /\ jsonl' = IF torn' THEN jsonl ELSE Append(jsonl, writer.ex)
    /\ Go("project")
    /\ UNCHANGED <<marker, index, memory, pend, starter, client, history>>

\* plan.commit and every after-append callback return.
Project ==
    /\ writer.pc = "project"
    /\ applied' = Append(applied, writer.ex.event)
    /\ Go("index")
    /\ UNCHANGED <<disk, memory, pend, starter, client, acked>>

ApplyIndex ==
    /\ writer.pc = "index"
    /\ index' = index \cup {writer.ex.event}
    /\ Go("clear")
    /\ UNCHANGED <<jsonl, torn, marker, memory, pend, starter, client, history>>

Clear ==
    /\ writer.pc = "clear"
    /\ marker' = FALSE
    /\ Go("publish")
    /\ UNCHANGED <<jsonl, torn, index, memory, pend, starter, client, history>>

\* Variant: the sequence counter is not advanced.
Publish_SameSequence ==
    /\ writer.pc = "publish"
    /\ records' = records \cup {writer.ex}
    /\ Go("answer")
    /\ UNCHANGED <<disk, phase, closing, degraded, next, inflight, queue, pend,
                   starter, client, history>>

Publish ==
    /\ writer.pc = "publish"
    /\ records' = records \cup {writer.ex}
    /\ next' = next + 1
    /\ Go("answer")
    /\ UNCHANGED <<disk, phase, closing, degraded, inflight, queue, pend,
                   starter, client, history>>

\* The finally block: forget the registration, then wake the waiters.
Finish(result) ==
    /\ inflight' = [inflight EXCEPT ![pend[writer.p].event] = 0]
    /\ pend' = [pend EXCEPT ![writer.p].result = result,
                            ![writer.p].exchange =
                                IF result = "ok" THEN writer.ex ELSE NoExchange]
    /\ Go("poll")
    /\ UNCHANGED <<disk, phase, closing, degraded, records, next, queue,
                   starter, client, history>>

Answer == writer.pc = "answer" /\ Finish("ok")
Reject == writer.pc = "reject" /\ Finish("error")

\* A whole line reaches the file.  After a silent short write the new line
\* continues the incomplete one, and the file stays unreadable.
AppendLine == jsonl' = IF torn THEN jsonl ELSE Append(jsonl, writer.ex)

\* A step raises.  What the failing operation left on disk: a marker that was
\* replaced before the directory sync failed, no line, part of a line or the
\* whole line, a marker that was unlinked before the sync failed.
LeftOnDisk(step) ==
    \/ UNCHANGED <<marker, jsonl, torn>>
    \/ step = "mark" /\ marker' = TRUE /\ UNCHANGED <<jsonl, torn>>
    \/ step = "append" /\ torn' = TRUE /\ UNCHANGED <<marker, jsonl>>
    \/ step = "append" /\ AppendLine /\ UNCHANGED <<marker, torn>>
    \/ step = "clear" /\ marker' = FALSE /\ UNCHANGED <<jsonl, torn>>

StepFails ==
    /\ writer.pc \in {"decide", "mark", "append", "project", "index", "clear"}
    /\ LeftOnDisk(writer.pc)
    /\ Go("fail")
    /\ UNCHANGED <<index, memory, pend, starter, client, history>>

\* Variant: the response is handed out from memory when the append failed.
Degrade_Answered ==
    /\ writer.pc = "fail"
    /\ degraded' = TRUE
    /\ IF degraded THEN UNCHANGED marker ELSE marker' \in {marker, TRUE}
    /\ Go(IF writer.ex # NoExchange THEN "answer" ELSE "reject")
    /\ UNCHANGED <<jsonl, torn, index, phase, closing, records, next, inflight,
                   queue, pend, starter, client, history>>

\* The except block: the first failure replaces the marker, if it can.
Degrade ==
    /\ writer.pc = "fail"
    /\ degraded' = TRUE
    /\ IF degraded THEN UNCHANGED marker ELSE marker' \in {marker, TRUE}
    /\ Go("reject")
    /\ UNCHANGED <<jsonl, torn, index, phase, closing, records, next, inflight,
                   queue, pend, starter, client, history>>

------------------------------------------------------------------------------
\* The process dies.  An interrupted disk operation leaves what it may leave
\* when it fails.
Crash ==
    /\ phase # "down"
    /\ phase' = "down"
    /\ LeftOnDisk(writer.pc)
    /\ degraded' = FALSE /\ records' = {} /\ next' = 1
    /\ ResetMemory
    /\ UNCHANGED <<index, pend, history>>

WriterStep ==
    \/ SetupOk \/ SetupFails \/ WriterExits \/ Take
    \/ (\E b \in Bodies : Decide(b))
    \/ Mark \/ AppendOk \/ Project \/ ApplyIndex \/ Clear
    \/ Publish \/ Answer \/ Reject \/ StepFails \/ Degrade

ClientStep(c) ==
    \/ \E e \in Events, d \in Digests :
          SubmitPrior(c, e, d) \/ ResponseFor(c, e, d)
            \/ SubmitJoin(c, e, d) \/ SubmitFirst(c, e, d)
    \/ Put(c) \/ PutRefused(c) \/ Receive(c) \/ WaitTimesOut(c)

Lifecycle == Open \/ Start \/ StartReturns \/ StartTimesOut \/ StartDegrades
                \/ Stop \/ Crash

Next == Lifecycle \/ WriterStep \/ \E c \in Clients : ClientStep(c)

Spec == Init /\ [][Next]_vars

\* The writer thread and a put that has begun are scheduled by the runtime.
FairSpec == Spec /\ WF_vars(WriterStep) /\ \A c \in Clients : WF_vars(Put(c))

------------------------------------------------------------------------------
(* Properties *)

\* Every response handed out is a complete record of events.jsonl, whatever
\* failed or crashed since (docs/architecture.md: "The retry receives the first
\* durable response").
AckedSurvives == \A a \in acked : a.exchange \in RecordsOf(jsonl)

\* All requests answered for one event, in any process lifetime, sent the same
\* digest and got the same response: a retry never takes a second decision.
RetryGetsFirstResponse ==
    \A a, b \in acked :
        a.exchange.event = b.exchange.event =>
            a.exchange = b.exchange /\ a.asked = a.exchange.digest

\* Without the marker on disk a restart trusts the file, so then every record
\* in it went through its commit, its callbacks and the index, in file order.
CleanLedgerIsProjected ==
    ~marker => applied = EventsOf(jsonl) /\ index = {jsonl[i].event : i \in DOMAIN jsonl}

Unanswered == {p \in DOMAIN pend : pend[p].result = "waiting"}

\* An exchange queued before stop() is answered: closing drains the queue.
QueuedBeforeStopCompletes ==
    \A p \in PendingIds :
        (p \in RecordsOf(queue) /\ ~closing)
            ~> (phase = "down" \/ p \notin Unanswered)

\* The ledger is an append-only log with one record per event, and hands out
\* responses of that log only.
Log == INSTANCE ResponseLog WITH log <- jsonl, given <- {a.exchange : a \in acked}
ImplementsResponseLog == Log!Spec
==============================================================================
