------------------------- MODULE HookCollectorProofs -------------------------
(***************************************************************************)
(* Theorems about HookCollector, for any number of connections, any        *)
(* requests and any limits.                                                *)
(*                                                                         *)
(* The replay guard is of no help: it forgets an event whenever a request  *)
(* for it is rejected.  What keeps one exchange per event is the ledger's  *)
(* own table (Single), as long as every pending exchange is at one place:  *)
(* about to be put, queued, written or published (Awaits, Handed).  What a *)
(* clean stop leaves follows from the order of its steps (Closed) and from *)
(* what a handler that ended was owed (Replied).                           *)
(***************************************************************************)
EXTENDS HookCollector, FiniteSetTheorems, TLAPS

Entered(p) == p \in Connections /\ conn[p].on = p
Recorded == {committed[i].of : i \in DOMAIN committed}
Queued == {ledger.queue[i] : i \in DOMAIN ledger.queue}

\* A handler that came as far as the ledger waits for an exchange of its own event and content.
Awaits(c) ==
    /\ conn[c].pc \notin {"none", "done"} => Request(c) \in Requests
    /\ conn[c].on # NoConnection =>
        /\ conn[c].pc \in {"putting", "waiting", "done"}
        /\ Request(c) \in Requests
        /\ Entered(conn[c].on)
        /\ Request(conn[c].on).event = Request(c).event
        /\ Request(conn[c].on).digest = Request(c).digest
    /\ conn[c].pc = "waiting" => conn[c].on # NoConnection
    /\ conn[c].pc = "putting" =>
        /\ conn[c].on = c /\ c \in ledger.inflight /\ c # ledger.written
        /\ c \notin Queued \cup Recorded

\* What the ledger has been given: pending exchanges are those put, queued or written, each
\* at one place, and all published exchanges are on disk.
Handed ==
    /\ \A p \in ledger.inflight \cup Recorded : Entered(p)
    /\ ledger.inflight \cap ledger.ok = {}
    /\ Queued \subseteq ledger.inflight
    /\ \A i, j \in DOMAIN ledger.queue : ledger.queue[i] = ledger.queue[j] => i = j
    /\ Queued \cap Recorded = {}
    /\ ledger.written # NoConnection =>
        ledger.written \in (ledger.inflight \cap Recorded) \ Queued
    /\ ledger.ok \subseteq Recorded

\* An event has one exchange: among those pending and published, and in the file.
Single ==
    /\ \A p, q \in ledger.inflight \cup ledger.ok :
        Request(p).event = Request(q).event => p = q
    /\ ~ledger.degraded => Recorded \subseteq ledger.ok \cup {ledger.written}
    /\ \A i, j \in DOMAIN committed :
        Request(committed[i].of).event = Request(committed[j].of).event => i = j

\* What was answered, and what a handler that has ended was owed.
Replied ==
    /\ \A a \in answered :
        /\ a.of \in ledger.ok
        /\ a.to.event = Request(a.of).event /\ a.to.digest = Request(a.of).digest
    /\ \A c \in Connections :
        conn[c].pc = "done" /\ conn[c].on # NoConnection /\ ~degraded =>
            [to |-> Request(c), of |-> conn[c].on] \in answered

\* A stop that has not failed has no handler left when it closes the ledger, and nothing in
\* the ledger when it ends.
Closed ==
    ~failed =>
        /\ server \in {"closing", "waiting", "stopped"} => Active = {}
        /\ ledger.closing => server \in {"waiting", "stopped"}
        /\ ledger.exited =>
            ledger.closing /\ ledger.queue = <<>> /\ ledger.written = NoConnection
        /\ server = "stopped" => ledger.exited

IInv == /\ \A c \in Connections : Awaits(c)
        /\ Handed /\ Single /\ Replied /\ Closed
------------------------------------------------------------------------------
(* Types. *)
\* A set that has lost elements is no larger.
LEMMA FewerHeld ==
    ASSUME IsFiniteSet(held), Cardinality(held) <= MaxContexts, NEW r \in Requests, Drop(r)
    PROVE  IsFiniteSet(held') /\ Cardinality(held') <= MaxContexts
<1>1. held' \subseteq held
  BY DEF Drop
<1>2. IsFiniteSet(held') /\ Cardinality(held') <= Cardinality(held)
  BY <1>1, FS_Subset
<1>3. Cardinality(held) \in Nat /\ Cardinality(held') \in Nat
  BY <1>2, FS_CardinalityType
<1> QED
  BY <1>2, <1>3, CollectorAssumption

\* Every step leaves a handler of the right shape at each connection.
LEMMA ConnType ==
    ASSUME TypeOK, [Next]_vars
    PROVE  conn' \in [Connections -> Handler]
<1> USE DEF guards, review, storage, Goes, Ends, Silently
<1>0. conn \in [Connections -> Handler]
  BY DEF TypeOK
<1>1. CASE Lifecycle
  BY <1>0, <1>1 DEF Lifecycle, Start, StartFails, Stop, Joined, JoinTimesOut, Drained, DrainTimesOut,
     StopLedger, Stopped, LedgerStopTimesOut, StopStep, StopTimesOut
<1>2. CASE Write
  BY <1>0, <1>2 DEF Write, Commit, Publish, WriterFails, WriterExits
<1>3. ASSUME NEW c \in Connections, NEW s \in {"done", "verified", "refreshing", "capturing",
                  "submitting", "waiting"}, conn' = [conn EXCEPT ![c].pc = s]
      PROVE  conn' \in [Connections -> Handler]
  BY <1>0, <1>3 DEF Handler
<1>4. ASSUME NEW c \in Connections, NEW s \in {"putting", "waiting"}, NEW p \in Connections,
             conn' = [conn EXCEPT ![c].pc = s, ![c].on = p]
      PROVE  conn' \in [Connections -> Handler]
  BY <1>0, <1>4 DEF Handler
<1>5. ASSUME NEW c \in Connections, Handle(c)
      PROVE  conn' \in [Connections -> Handler]
  <2>1. CASE ReadFails(c) \/ VerifyRefuses(c) \/ Verify(c) \/ Reject(c) \/ Recall(c)
             \/ RecallFails(c) \/ Unpublished(c)
    BY <1>3, <2>1 DEF ReadFails, VerifyRefuses, Verify, Reject, Recall, RecallFails, Unpublished
  <2>2. CASE Refresh(c) \/ RefreshFails(c) \/ Capture(c) \/ CaptureRefused(c)
    BY <1>3, <2>2 DEF Refresh, RefreshFails, Capture, CaptureRefused
  <2>3. CASE SubmitRefused(c) \/ SubmitPrior(c) \/ SubmitConflict(c)
    BY <1>3, <2>3 DEF SubmitRefused, SubmitPrior, SubmitConflict
  <2>4. CASE SubmitJoin(c) \/ SubmitFirst(c)
    BY <1>4, <2>4 DEF SubmitJoin, SubmitFirst, Pending, TypeOK, Ledger
  <2>5. CASE Put(c) \/ PutRefused(c) \/ Receive(c) \/ ReceiveError(c) \/ WaitTimesOut(c)
    BY <1>3, <2>5 DEF Put, PutRefused, Receive, ReceiveError, WaitTimesOut
  <2> QED
    BY <1>5, <2>1, <2>2, <2>3, <2>4, <2>5 DEF Handle
<1>6. ASSUME NEW c \in Connections, Rejected(c) \/ \E r \in Requests : Accept(c, r)
      PROVE  conn' \in [Connections -> Handler]
  <2>1. CASE Rejected(c)
    BY <1>3, <2>1 DEF Rejected
  <2>2. ASSUME NEW r \in Requests, Accept(c, r) PROVE conn' \in [Connections -> Handler]
    BY <1>0, <2>2 DEF Accept, Handler
  <2> QED
    BY <1>6, <2>1, <2>2
<1>7. CASE UNCHANGED vars
  BY <1>0, <1>7 DEF vars
<1> QED
  BY <1>1, <1>2, <1>5, <1>6, <1>7 DEF Next

\* The whole step of a handler, beside its own connection.
LEMMA HandlerLeaves ==
    ASSUME TypeOK, NEW c \in Connections, Handle(c)
    PROVE  /\ server' = server /\ failed' = failed /\ committed' = committed
           /\ conn[c].pc \notin {"none", "done"} /\ conn'[c].pc # "none"
           /\ conn'[c].req = conn[c].req
           /\ \A d \in Connections \ {c} : conn'[d] = conn[d]
           /\ degraded => degraded'
           /\ ledger' = ledger \/ SubmitFirst(c) \/ Put(c) \/ PutRefused(c)
<1> DEFINE Left == /\ conn'[c].pc # "none" /\ conn'[c].req = conn[c].req
                   /\ \A d \in Connections \ {c} : conn'[d] = conn[d]
           Same == /\ server' = server /\ failed' = failed /\ committed' = committed
                   /\ conn[c].pc \notin {"none", "done"}
                   /\ degraded => degraded'
                   /\ ledger' = ledger \/ SubmitFirst(c) \/ Put(c) \/ PutRefused(c)
<1> USE DEF guards, review, storage, At, Goes, Ends, Silently, Answers
<1>1. ASSUME NEW s, s # "none",
             \/ conn' = [conn EXCEPT ![c].pc = s]
             \/ \E p \in Connections : conn' = [conn EXCEPT ![c].pc = s, ![c].on = p]
      PROVE  Left
  <2>1. conn \in [Connections -> Handler]
    BY DEF TypeOK
  <2> QED
    BY <1>1, <2>1 DEF Handler
<1>2. CASE ReadFails(c) \/ VerifyRefuses(c) \/ Verify(c) \/ Reject(c) \/ Recall(c)
           \/ RecallFails(c) \/ Unpublished(c)
  <2>1. \E s : s # "none" /\ conn' = [conn EXCEPT ![c].pc = s]
    BY <1>2 DEF ReadFails, VerifyRefuses, Verify, Reject, Recall, RecallFails, Unpublished
  <2>2. Same
    BY <1>2 DEF ReadFails, VerifyRefuses, Verify, Reject, Recall, RecallFails, Unpublished
  <2> QED
    BY <1>1, <2>1, <2>2
<1>3. CASE Refresh(c) \/ RefreshFails(c) \/ Capture(c) \/ CaptureRefused(c)
  <2>1. \E s : s # "none" /\ conn' = [conn EXCEPT ![c].pc = s]
    BY <1>3 DEF Refresh, RefreshFails, Capture, CaptureRefused
  <2>2. CASE Refresh(c) \/ RefreshFails(c)
    BY <1>1, <2>1, <2>2 DEF Refresh, RefreshFails
  <2>3. CASE Capture(c)
    BY <1>1, <2>1, <2>3 DEF Capture
  <2>4. CASE CaptureRefused(c)
    BY <1>1, <2>1, <2>4 DEF CaptureRefused
  <2> QED
    BY <1>3, <2>2, <2>3, <2>4
<1>4. CASE SubmitRefused(c) \/ SubmitPrior(c) \/ SubmitConflict(c) \/ SubmitJoin(c)
           \/ SubmitFirst(c)
  <2>1. ledger.inflight \subseteq Connections
    BY DEF TypeOK, Ledger
  <2>2. \/ \E s : s # "none" /\ conn' = [conn EXCEPT ![c].pc = s]
        \/ \E p \in Connections, s \in {"putting", "waiting"} :
                conn' = [conn EXCEPT ![c].pc = s, ![c].on = p]
    BY <1>4, <2>1 DEF SubmitRefused, SubmitPrior, SubmitConflict, SubmitJoin, SubmitFirst, Pending
  <2>3. Same
    BY <1>4 DEF SubmitRefused, SubmitPrior, SubmitConflict, SubmitJoin, SubmitFirst
  <2> QED
    BY <1>1, <2>2, <2>3
<1>5. CASE Put(c) \/ PutRefused(c) \/ Receive(c) \/ ReceiveError(c) \/ WaitTimesOut(c)
  <2>1. \E s : s # "none" /\ conn' = [conn EXCEPT ![c].pc = s]
    BY <1>5 DEF Put, PutRefused, Receive, ReceiveError, WaitTimesOut
  <2>2. Same
    BY <1>5 DEF Put, PutRefused, Receive, ReceiveError, WaitTimesOut
  <2> QED
    BY <1>1, <2>1, <2>2
<1> QED
  BY <1>2, <1>3, <1>4, <1>5 DEF Handle

\* So it does the ledger, whose queue stays within its limit.
LEMMA LedgerType ==
    ASSUME TypeOK, [Next]_vars
    PROVE  ledger' \in Ledger /\ Len(ledger'.queue) <= MaxItems
<1> DEFINE Typed == ledger' \in Ledger /\ Len(ledger'.queue) <= MaxItems
<1>1. ledger \in Ledger /\ Len(ledger.queue) <= MaxItems /\ MaxItems \in Nat
  BY CollectorAssumption DEF TypeOK
<1>2. ledger.queue \in Seq(Connections) /\ Len(ledger.queue) \in Nat
  BY <1>1 DEF Ledger
<1>3. CASE ledger' = ledger
  BY <1>1, <1>3
<1>4. ASSUME NEW b \in BOOLEAN,
             ledger' = [ledger EXCEPT !.closing = b] \/ ledger' = [ledger EXCEPT !.exited = b]
      PROVE  Typed
  BY <1>1, <1>4 DEF Ledger
<1>5. ASSUME NEW I \in SUBSET Connections, ledger' = [ledger EXCEPT !.inflight = I]
      PROVE  Typed
  BY <1>1, <1>5 DEF Ledger
<1>6. ASSUME ledger' = [ledger EXCEPT !.queue = ledger'.queue, !.written = ledger'.written,
                          !.degraded = ledger'.degraded, !.inflight = ledger'.inflight,
                          !.ok = ledger'.ok, !.error = ledger'.error],
             ledger'.queue \in Seq(Connections), Len(ledger'.queue) <= MaxItems,
             ledger'.written \in Connections \cup {NoConnection}, ledger'.degraded \in BOOLEAN,
             ledger'.inflight \subseteq Connections, ledger'.ok \subseteq Connections,
             ledger'.error \subseteq Connections
      PROVE  Typed
  BY <1>1, <1>6 DEF Ledger
<1>7. CASE Lifecycle
  BY <1>3, <1>4, <1>7 DEF Lifecycle, Start, StartFails, Stop, Joined, JoinTimesOut, Drained,
     DrainTimesOut, StopLedger, Stopped, LedgerStopTimesOut, StopStep, StopTimesOut, storage
<1>8. CASE Write
  <2>2. /\ ledger.written \in Connections \cup {NoConnection}
        /\ ledger.degraded \in BOOLEAN /\ ledger.inflight \subseteq Connections
        /\ ledger.ok \subseteq Connections /\ ledger.error \subseteq Connections
    BY <1>1 DEF Ledger
  <2>3. ledger.queue # <<>> =>
          /\ Head(ledger.queue) \in Connections /\ Tail(ledger.queue) \in Seq(Connections)
          /\ Len(Tail(ledger.queue)) <= MaxItems
    BY <1>1, <1>2
  <2> DEFINE Edited == ledger' = [ledger EXCEPT !.queue = ledger'.queue,
                                    !.written = ledger'.written, !.degraded = ledger'.degraded,
                                    !.inflight = ledger'.inflight, !.ok = ledger'.ok,
                                    !.error = ledger'.error]
  <2>4. CASE Commit
    <3>1. /\ Edited /\ ledger'.queue = Tail(ledger.queue)
          /\ ledger'.written = Head(ledger.queue) /\ ledger'.degraded = ledger.degraded
          /\ ledger'.inflight = ledger.inflight /\ ledger'.ok = ledger.ok
          /\ ledger'.error = ledger.error /\ ledger.queue # <<>>
      BY <1>1, <2>4 DEF Commit, Ledger
    <3> QED
      BY <1>6, <2>2, <2>3, <3>1
  <2>5. CASE Publish \/ (WriterFails /\ ledger.written # NoConnection)
    <3>1. /\ Edited /\ ledger'.queue = ledger.queue /\ ledger'.written = NoConnection
          /\ ledger'.degraded \in {ledger.degraded, TRUE}
          /\ ledger'.inflight = ledger.inflight \ {ledger.written}
          /\ ledger'.ok \subseteq ledger.ok \cup {ledger.written}
          /\ ledger'.error \subseteq ledger.error \cup {ledger.written}
      BY <1>1, <2>5 DEF Publish, WriterFails, Ledger
    <3>2. ledger.written \in Connections
      BY <2>2, <2>5 DEF Publish
    <3> QED
      BY <1>1, <1>2, <1>6, <2>2, <3>1, <3>2
  <2>6. CASE WriterFails /\ ledger.written = NoConnection
    <3>1. /\ Edited /\ ledger'.queue = Tail(ledger.queue)
          /\ ledger'.written = ledger.written /\ ledger'.degraded
          /\ ledger'.degraded \in BOOLEAN
          /\ ledger'.inflight = ledger.inflight \ {Head(ledger.queue)}
          /\ ledger'.ok = ledger.ok
          /\ ledger'.error = ledger.error \cup {Head(ledger.queue)} /\ ledger.queue # <<>>
      BY <1>1, <2>6 DEF WriterFails, Ledger
    <3> QED
      BY <1>6, <2>2, <2>3, <3>1
  <2> QED
    BY <1>4, <1>8, <2>4, <2>5, <2>6 DEF Write, WriterExits
<1>9. ASSUME NEW c \in Connections, Handle(c) PROVE Typed
  <2>1. CASE SubmitFirst(c) \/ PutRefused(c)
    <3>1. ledger.inflight \subseteq Connections
      BY <1>1 DEF Ledger
    <3> QED
      BY <1>5, <2>1, <3>1 DEF SubmitFirst, PutRefused
  <2>2. CASE Put(c)
    <3>1. Append(ledger.queue, c) \in Seq(Connections)
          /\ Len(Append(ledger.queue, c)) = Len(ledger.queue) + 1
      BY <1>2
    <3>2. ledger' = [ledger EXCEPT !.queue = Append(ledger.queue, c)]
          /\ Len(ledger.queue) < MaxItems
      BY <2>2 DEF Put
    <3>3. Len(Append(ledger.queue, c)) <= MaxItems
      BY <1>1, <1>2, <3>1, <3>2
    <3> QED
      BY <1>1, <3>1, <3>2, <3>3 DEF Ledger
  <2> QED
    BY <1>3, <1>9, <2>1, <2>2, HandlerLeaves
<1> QED
  BY <1>3, <1>7, <1>8, <1>9 DEF Next, vars, storage, Rejected, Accept

\* No capture is held for an event that has one, nor beyond the limit.
LEMMA HeldType ==
    ASSUME TypeOK, IsFiniteSet(held), \A c \in Connections : Awaits(c), Handed, [Next]_vars
    PROVE  /\ held' \subseteq Context
           /\ IsFiniteSet(held') /\ Cardinality(held') <= MaxContexts
           /\ \A p \in paired' : DOMAIN p = {"session", "transcript"}
<1> DEFINE Held == /\ held' \subseteq Context
                   /\ IsFiniteSet(held') /\ Cardinality(held') <= MaxContexts
                   /\ \A p \in paired' : DOMAIN p = {"session", "transcript"}
<1>1. CASE UNCHANGED <<held, paired>>
  BY <1>1 DEF TypeOK
<1>2. ASSUME NEW r \in Requests, Drop(r), UNCHANGED paired PROVE Held
  BY <1>2, FewerHeld DEF Drop, TypeOK
<1>3. CASE Lifecycle
  BY <1>1, <1>3 DEF Lifecycle, Start, StartFails, Stop, Joined, JoinTimesOut, Drained,
     DrainTimesOut, StopLedger, Stopped, LedgerStopTimesOut, StopStep, StopTimesOut, review
<1>4. CASE Write
  <2>1. CASE Commit
    <3>1. Head(ledger.queue) \in Connections /\ ledger.queue # <<>>
      BY <2>1 DEF Commit, TypeOK, Ledger
    <3>2. Head(ledger.queue) \in Queued
      BY <3>1 DEF Queued, TypeOK, Ledger
    <3>3. Request(Head(ledger.queue)) \in Requests
      BY <3>1, <3>2, CollectorAssumption DEF Handed, Entered, Awaits
    <3> QED
      BY <1>2, <2>1, <3>3 DEF Commit
  <2>2. CASE Publish \/ WriterFails \/ WriterExits
    BY <1>1, <2>2 DEF Publish, WriterFails, WriterExits, review
  <2> QED
    BY <1>4, <2>1, <2>2 DEF Write
<1>5. ASSUME NEW c \in Connections, Handle(c) PROVE Held
  <2>1. Request(c) \in Requests
    BY <1>5, HandlerLeaves DEF Awaits
  <2>2. CASE Capture(c)
    <3>1. CASE UNCHANGED <<held, paired>>
      BY <1>1, <3>1
    <3>2. CASE /\ held' = held \cup {ContextOf(Request(c))}
               /\ paired' = paired \cup {Pair(Request(c))}
               /\ Cardinality(held) < MaxContexts
      <4>1. ContextOf(Request(c)) \in Context
        BY <2>1 DEF ContextOf, Context, Events, Sessions
      <4> DEFINE x == ContextOf(Request(c))
      <4>2. /\ IsFiniteSet(held \cup {x})
            /\ Cardinality(held \cup {x}) = IF x \in held THEN Cardinality(held)
                                            ELSE Cardinality(held) + 1
        BY FS_AddElement
      <4>3. Cardinality(held') \in Nat /\ Cardinality(held) \in Nat
        BY <3>2, <4>2, FS_CardinalityType
      <4>4. Cardinality(held') <= MaxContexts
        BY <3>2, <4>2, <4>3, CollectorAssumption
      <4> QED
        BY <3>2, <4>1, <4>2, <4>4 DEF Pair, TypeOK
    <3> QED
      BY <2>2, <3>1, <3>2 DEF Capture
  <2>3. CASE CaptureRefused(c)
    <3>1. Drop(Request(c)) /\ paired' \subseteq paired \cup {Pair(Request(c))}
      BY <2>3 DEF CaptureRefused
    <3> QED
      BY <2>1, <3>1, FewerHeld DEF Drop, Pair, TypeOK
  <2>4. CASE SubmitRefused(c) \/ SubmitConflict(c) \/ PutRefused(c) \/ ReceiveError(c)
    BY <1>2, <2>1, <2>4 DEF SubmitRefused, SubmitConflict, PutRefused, ReceiveError
  <2>5. CASE UNCHANGED review
    BY <1>1, <2>5 DEF review
  <2> QED
    BY <1>5, <2>2, <2>3, <2>4, <2>5 DEF Handle, ReadFails, VerifyRefuses, Verify, Reject, Recall,
       RecallFails, Unpublished, Refresh, RefreshFails, SubmitPrior, SubmitJoin, SubmitFirst, Put,
       Receive, WaitTimesOut, Silently
<1> QED
  BY <1>1, <1>3, <1>4, <1>5 DEF Next, vars, review, Rejected, Accept

\* Only Commit writes to the file, and it appends an exchange.
LEMMA CommittedType ==
    ASSUME TypeOK, [Next]_vars
    PROVE  committed' \in Seq(Exchange)
<1>1. CASE Commit
  <2>1. Head(ledger.queue) \in Connections
    BY <1>1 DEF Commit, TypeOK, Ledger
  <2> QED
    BY <1>1, <2>1 DEF Commit, Commits, Exchange, TypeOK
<1>2. CASE committed' = committed
  BY <1>2 DEF TypeOK
<1>3. ASSUME NEW c \in Connections, Handle(c) PROVE committed' = committed
  BY <1>3, HandlerLeaves
<1> QED
  BY <1>1, <1>2, <1>3 DEF Next, vars, storage, Lifecycle, Start, StartFails, Stop, Joined,
     JoinTimesOut, Drained, DrainTimesOut, StopLedger, Stopped, LedgerStopTimesOut, StopStep,
     StopTimesOut, Write, Publish, WriterFails, WriterExits, Rejected, Accept

\* Types are kept by every step.
LEMMA TypeStep ==
    ASSUME TypeOK, IsFiniteSet(held), \A c \in Connections : Awaits(c), Handed, Replied,
           [Next]_vars
    PROVE  TypeOK' /\ IsFiniteSet(held')
<1> DEFINE Rest == /\ server' \in {"bound", "serving", "joining", "draining", "closing", "waiting",
                                   "stopped"}
                   /\ failed' \in BOOLEAN /\ degraded' \in BOOLEAN /\ spoilt' \in BOOLEAN
                   /\ seen' \subseteq Requests /\ known' \subseteq Sessions
                   /\ \A a \in answered' : a.to \in Requests /\ a.of \in Connections
<1>1. Rest
  <2> USE DEF TypeOK, guards, review, storage
  <2>1. CASE Lifecycle
    BY <2>1 DEF Lifecycle, Start, StartFails, Stop, Joined, JoinTimesOut, Drained, DrainTimesOut,
       StopLedger, Stopped, LedgerStopTimesOut, StopStep, StopTimesOut
  <2>2. CASE Write
    BY <2>2 DEF Write, Commit, Publish, WriterFails, WriterExits
  <2>3. ASSUME NEW c \in Connections, Handle(c) PROVE Rest
    <3> USE DEF Silently
    <3>1. Request(c) \in Requests
      BY <2>3, HandlerLeaves DEF Awaits
    <3>2. ASSUME NEW p \in Connections, Answers(c, p)
          PROVE  /\ degraded' \in BOOLEAN
                 /\ \A a \in answered' : a.to \in Requests /\ a.of \in Connections
      <4>1. [to |-> Request(c), of |-> p].to \in Requests
            /\ [to |-> Request(c), of |-> p].of \in Connections
        BY <3>1
      <4>2. answered' \subseteq answered \cup {[to |-> Request(c), of |-> p]}
        BY <3>2 DEF Answers
      <4>3. degraded' \in BOOLEAN
        BY <3>2 DEF Answers
      <4> QED
        BY <4>1, <4>2, <4>3
    <3>3. \A e : Published(e) \subseteq Connections
      BY DEF Published, Ledger
    <3>4. CASE ReadFails(c) \/ VerifyRefuses(c) \/ Unpublished(c) \/ RecallFails(c)
      BY <3>4 DEF ReadFails, VerifyRefuses, Unpublished, RecallFails
    <3>5. CASE Verify(c) \/ Reject(c) \/ RefreshFails(c)
      BY <3>1, <3>5 DEF Verify, Reject, RefreshFails, Discard
    <3>6. CASE Recall(c)
      BY <3>2, <3>3, <3>6 DEF Recall
    <3>7. CASE Refresh(c)
      BY <3>7 DEF Refresh, Discard
    <3>8. CASE Capture(c)
      BY <3>8 DEF Capture
    <3>9. CASE CaptureRefused(c)
      <4>1. degraded' \in BOOLEAN
        BY <3>9 DEF CaptureRefused
      <4>2. seen' \subseteq seen
        BY <3>9 DEF CaptureRefused, Discard
      <4> QED
        BY <3>9, <4>1, <4>2 DEF CaptureRefused
    <3>10. CASE SubmitPrior(c)
      BY <3>2, <3>3, <3>10 DEF SubmitPrior
    <3>11. CASE SubmitRefused(c) \/ SubmitConflict(c) \/ SubmitJoin(c) \/ SubmitFirst(c)
      BY <3>11 DEF SubmitRefused, SubmitConflict, SubmitJoin, SubmitFirst
    <3>12. CASE Put(c) \/ PutRefused(c) \/ ReceiveError(c) \/ WaitTimesOut(c)
      BY <3>12 DEF Put, PutRefused, ReceiveError, WaitTimesOut
    <3>13. CASE Receive(c)
      BY <3>2, <3>13 DEF Receive, Ledger
    <3> QED
      BY <2>3, <3>4, <3>5, <3>6, <3>7, <3>8, <3>9, <3>10, <3>11, <3>12, <3>13 DEF Handle
  <2>4. ASSUME NEW c \in Connections, Rejected(c) \/ \E r \in Requests : Accept(c, r)
        PROVE  Rest
    BY <2>4 DEF Rejected, Accept
  <2>5. CASE UNCHANGED vars
    BY <2>5 DEF vars
  <2> QED
    BY <2>1, <2>2, <2>3, <2>4, <2>5 DEF Next
<1> QED
  BY <1>1, ConnType, LedgerType, HeldType, CommittedType DEF TypeOK

------------------------------------------------------------------------------
(* What a step does to the ledger. *)
\* The elements of a sequence without repetition, of its tail and of it with one more.
LEMMA TailElements ==
    ASSUME NEW S, NEW q \in Seq(S), q # <<>>, \A i, j \in DOMAIN q : q[i] = q[j] => i = j
    PROVE  /\ Head(q) \in {q[i] : i \in DOMAIN q}
           /\ {Tail(q)[i] : i \in DOMAIN Tail(q)} = {q[i] : i \in DOMAIN q} \ {Head(q)}
           /\ \A i, j \in DOMAIN Tail(q) : Tail(q)[i] = Tail(q)[j] => i = j
<1> DEFINE t == Tail(q)
           n == Len(q)
<1>1. n \in Nat \ {0} /\ DOMAIN q = 1..n /\ Head(q) = q[1]
  OBVIOUS
<1>2. Len(t) = n - 1 /\ DOMAIN t = 1..(n - 1) /\ \A i \in 1..(n - 1) : t[i] = q[i + 1]
  OBVIOUS
<1> HIDE DEF t, n
<1>3. \A i, j \in DOMAIN t : t[i] = t[j] => i = j
  <2> SUFFICES ASSUME NEW i \in 1..(n - 1), NEW j \in 1..(n - 1), t[i] = t[j] PROVE i = j
    BY <1>2
  <2>1. i + 1 \in DOMAIN q /\ j + 1 \in DOMAIN q /\ q[i + 1] = q[j + 1]
    BY <1>1, <1>2
  <2>2. i + 1 = j + 1
    BY <2>1
  <2> QED
    BY <2>2, <1>1
<1>4. ASSUME NEW i \in DOMAIN t PROVE t[i] \in {q[k] : k \in DOMAIN q} \ {Head(q)}
  <2>1. i + 1 \in DOMAIN q /\ 1 \in DOMAIN q /\ i + 1 # 1 /\ t[i] = q[i + 1]
    BY <1>1, <1>2, <1>4
  <2> QED
    BY <1>1, <2>1
<1>5. ASSUME NEW k \in DOMAIN q, q[k] # Head(q) PROVE q[k] \in {t[i] : i \in DOMAIN t}
  <2>1. k - 1 \in DOMAIN t /\ t[k - 1] = q[k]
    BY <1>1, <1>2, <1>5
  <2> QED
    BY <2>1
<1> QED
  BY <1>1, <1>3, <1>4, <1>5 DEF t

\* A sequence with one element more.
LEMMA AppendElements ==
    ASSUME NEW S, NEW q \in Seq(S), NEW x \in S
    PROVE  /\ {Append(q, x)[i] : i \in DOMAIN Append(q, x)} = {q[i] : i \in DOMAIN q} \cup {x}
           /\ Len(Append(q, x)) = Len(q) + 1
           /\ DOMAIN Append(q, x) = DOMAIN q \cup {Len(q) + 1} /\ Len(q) + 1 \notin DOMAIN q
           /\ Append(q, x)[Len(q) + 1] = x
           /\ \A i \in DOMAIN q : Append(q, x)[i] = q[i]
<1> DEFINE a == Append(q, x)
           n == Len(q)
<1>1. n \in Nat /\ DOMAIN q = 1..n
  OBVIOUS
<1>2. Len(a) = n + 1 /\ DOMAIN a = 1..(n + 1) /\ a[n + 1] = x /\ \A i \in 1..n : a[i] = q[i]
  OBVIOUS
<1> HIDE DEF a, n
<1>3. DOMAIN a = DOMAIN q \cup {n + 1} /\ n + 1 \notin DOMAIN q
  BY <1>1, <1>2
<1> QED
  BY <1>1, <1>2, <1>3 DEF a, n

\* What the handlers and the writer see of the ledger is as it was.
Untouched == /\ ledger'.queue = ledger.queue /\ ledger'.written = ledger.written
             /\ ledger'.inflight = ledger.inflight /\ ledger'.ok = ledger.ok
             /\ ledger'.degraded = ledger.degraded
             /\ committed' = committed

\* Seven actions change what they see.
LEMMA LedgerSteps ==
    ASSUME TypeOK, [Next]_vars
    PROVE  Untouched \/ Commit \/ Publish \/ WriterFails
           \/ \E c \in Connections : SubmitFirst(c) \/ Put(c) \/ PutRefused(c)
<1>1. ledger' = ledger /\ committed' = committed => Untouched
  BY DEF Untouched
<1>2. ASSUME \/ \E b : ledger' = [ledger EXCEPT !.closing = b]
             \/ \E b : ledger' = [ledger EXCEPT !.exited = b],
             committed' = committed
      PROVE  Untouched
  BY <1>2 DEF Untouched, TypeOK, Ledger
<1>3. CASE Lifecycle
  BY <1>1, <1>2, <1>3 DEF Lifecycle, Start, StartFails, Stop, Joined, JoinTimesOut, Drained,
     DrainTimesOut, StopLedger, Stopped, LedgerStopTimesOut, StopStep, StopTimesOut, storage
<1>4. CASE WriterExits
  BY <1>2, <1>4 DEF WriterExits
<1>5. ASSUME NEW c \in Connections, Handle(c), ~Untouched
      PROVE  SubmitFirst(c) \/ Put(c) \/ PutRefused(c)
  <2>1. committed' = committed /\ (ledger' = ledger \/ SubmitFirst(c) \/ Put(c) \/ PutRefused(c))
    BY <1>5, HandlerLeaves
  <2> QED
    BY <1>1, <1>5, <2>1
<1> QED
  BY <1>1, <1>3, <1>4, <1>5 DEF Next, Write, vars, storage, Rejected, Accept

\* The exchange at the head of the queue leaves it, and is committed or lost.
LEMMA HeadLeaves ==
    ASSUME TypeOK, Handed, ledger.queue # <<>>, ledger'.queue = Tail(ledger.queue)
    PROVE  /\ Head(ledger.queue) \in Queued /\ Head(ledger.queue) \in Connections
           /\ Queued' = Queued \ {Head(ledger.queue)}
           /\ \A i, j \in DOMAIN ledger'.queue : ledger'.queue[i] = ledger'.queue[j] => i = j
<1>1. ledger.queue \in Seq(Connections)
  BY DEF TypeOK, Ledger
<1>2. \A i, j \in DOMAIN ledger.queue : ledger.queue[i] = ledger.queue[j] => i = j
  BY DEF Handed
<1> DEFINE q == ledger.queue
<1> HIDE DEF q
<1>3. /\ Head(q) \in {q[i] : i \in DOMAIN q}
      /\ {Tail(q)[i] : i \in DOMAIN Tail(q)} = {q[i] : i \in DOMAIN q} \ {Head(q)}
      /\ \A i, j \in DOMAIN Tail(q) : Tail(q)[i] = Tail(q)[j] => i = j
  <2>1. q \in Seq(Connections) /\ q # <<>> /\ \A i, j \in DOMAIN q : q[i] = q[j] => i = j
    BY <1>1, <1>2 DEF q
  <2> QED
    BY <2>1, TailElements
<1>4. Head(ledger.queue) \in Connections
  BY <1>1
<1> QED
  BY <1>3, <1>4 DEF Queued, q

\* The file gets the committed exchange, and nothing else changes in it.
LEMMA CommitAdds ==
    ASSUME TypeOK, Handed, Commit
    PROVE  LET p == Head(ledger.queue)
               n == Len(committed)
           IN  /\ Recorded' = Recorded \cup {p}
               /\ DOMAIN committed' = DOMAIN committed \cup {n + 1} /\ committed'[n + 1].of = p
               /\ \A i \in DOMAIN committed : committed'[i] = committed[i]
<1> DEFINE p == Head(ledger.queue)
           n == Len(committed)
<1>1. PICK x \in Exchange : x.of = p /\ committed' = Append(committed, x)
  <2>1. p \in Connections
    BY DEF Commit, TypeOK, Ledger
  <2> QED
    <3> DEFINE x == [of |-> p, context |-> Prior(Request(p)) # {}]
    <3>1. x \in Exchange /\ x.of = p
      BY <2>1 DEF Exchange
    <3> QED
      BY <3>1 DEF Commit, Commits
<1>2. committed \in Seq(Exchange)
  BY DEF TypeOK
<1>3. /\ DOMAIN committed' = DOMAIN committed \cup {n + 1} /\ committed'[n + 1] = x
      /\ \A i \in DOMAIN committed : committed'[i] = committed[i]
  BY <1>1, <1>2, AppendElements
<1> QED
  BY <1>1, <1>3 DEF Recorded

\* The queue gets the exchange of the handler that puts it.
LEMMA PutAdds ==
    ASSUME TypeOK, Handed, NEW c \in Connections, Put(c), c \notin Queued
    PROVE  /\ Queued' = Queued \cup {c}
           /\ \A i, j \in DOMAIN ledger'.queue : ledger'.queue[i] = ledger'.queue[j] => i = j
<1>1. ledger.queue \in Seq(Connections)
  BY DEF TypeOK, Ledger
<1>2. ledger'.queue = Append(ledger.queue, c)
  BY DEF Put, TypeOK, Ledger
<1> QED
  BY <1>1, <1>2, AppendElements DEF Handed, Queued

------------------------------------------------------------------------------
(* What handlers and the ledger know of each other. *)
\* A handler keeps its request and the exchange it waits for.
LEMMA Keeps ==
    ASSUME TypeOK, \A c \in Connections : Awaits(c), [Next]_vars, NEW d \in Connections
    PROVE  /\ conn[d].pc # "none" => Request(d)' = Request(d) /\ conn'[d].pc # "none"
           /\ conn[d].on # NoConnection => conn'[d].on = conn[d].on
<1> DEFINE Kept == /\ conn[d].pc # "none" => Request(d)' = Request(d) /\ conn'[d].pc # "none"
                   /\ conn[d].on # NoConnection => conn'[d].on = conn[d].on
<1>1. CASE UNCHANGED conn
  BY <1>1 DEF Request
<1>2. conn \in [Connections -> Handler]
  BY DEF TypeOK
<1>3. ASSUME NEW c \in Connections, Handle(c) PROVE Kept
  <2>1. CASE c = d
    <3>1. /\ conn[d].pc # "none" => Request(d)' = Request(d) /\ conn'[d].pc # "none"
      BY <1>3, <2>1, HandlerLeaves DEF Request
    <3>2. CASE \E s : conn' = [conn EXCEPT ![c].pc = s]
      BY <1>2, <2>1, <3>1, <3>2 DEF Handler
    <3>3. CASE conn[c].pc = "submitting"
      BY <2>1, <3>1, <3>3 DEF Awaits
    <3> QED
      BY <1>3, <3>2, <3>3 DEF Handle, ReadFails, VerifyRefuses, Verify, Reject, Recall,
         RecallFails, Unpublished, Refresh, RefreshFails, Capture, CaptureRefused, SubmitRefused,
         SubmitPrior, SubmitConflict, SubmitJoin, SubmitFirst, Put, PutRefused, Receive,
         ReceiveError, WaitTimesOut, Goes, Ends, At
  <2>2. CASE c # d
    BY <1>3, <2>2, HandlerLeaves DEF Request
  <2> QED
    BY <2>1, <2>2
<1>4. ASSUME NEW c \in Connections, Rejected(c) PROVE Kept
  BY <1>2, <1>4 DEF Rejected, Ends, Goes, At, Handler, Request
<1>5. ASSUME NEW c \in Connections, NEW r \in Requests, Accept(c, r) PROVE Kept
  BY <1>2, <1>5 DEF Accept, At, Handler, Request
<1> QED
  BY <1>1, <1>3, <1>4, <1>5 DEF Next, vars, Lifecycle, Start, StartFails, Stop, Joined, JoinTimesOut,
     Drained, DrainTimesOut, StopLedger, Stopped, LedgerStopTimesOut, StopStep, StopTimesOut,
     Write, Commit, Publish, WriterFails, WriterExits

\* An exchange that was registered stays registered, with its event and content.
LEMMA KeepsEntered ==
    ASSUME TypeOK, \A c \in Connections : Awaits(c), [Next]_vars, NEW p, Entered(p)
    PROVE  Entered(p)' /\ Request(p)' = Request(p)
<1>1. p \in Connections /\ conn[p].on = p /\ conn[p].on # NoConnection /\ conn[p].pc # "none"
  BY CollectorAssumption DEF Entered, Awaits
<1> QED
  BY <1>1, Keeps DEF Entered

\* Every pending exchange stays at one place.
LEMMA HandedStep ==
    ASSUME TypeOK, \A c \in Connections : Awaits(c), Handed, [Next]_vars
    PROVE  Handed'
<1>1. \A p : Entered(p) => Entered(p)'
  BY KeepsEntered
<1>2. ledger \in Ledger /\ Queued \subseteq Connections /\ NoConnection \notin Connections
  BY CollectorAssumption DEF TypeOK, Handed, Ledger
<1>3. CASE Untouched
  <2>1. Queued' = Queued /\ Recorded' = Recorded
    BY <1>3 DEF Queued, Recorded, Untouched
  <2> QED
    BY <1>1, <1>3, <2>1 DEF Handed, Untouched
<1>4. CASE Commit
  <2> DEFINE p == Head(ledger.queue)
  <2>1. /\ ledger'.queue = Tail(ledger.queue) /\ ledger'.written = p /\ ledger.queue # <<>>
        /\ ledger'.inflight = ledger.inflight /\ ledger'.ok = ledger.ok
    BY <1>2, <1>4 DEF Commit, Ledger
  <2>2. /\ p \in Queued /\ Queued' = Queued \ {p}
        /\ \A i, j \in DOMAIN ledger'.queue : ledger'.queue[i] = ledger'.queue[j] => i = j
    BY <2>1, HeadLeaves
  <2>3. Recorded' = Recorded \cup {p}
    BY <1>4, CommitAdds
  <2> HIDE DEF p
  <2> QED
    BY <1>1, <2>1, <2>2, <2>3 DEF Handed
<1>5. CASE Publish \/ (WriterFails /\ ledger.written # NoConnection)
  <2>1. /\ ledger'.queue = ledger.queue /\ ledger'.written = NoConnection
        /\ ledger.written # NoConnection
        /\ ledger'.inflight = ledger.inflight \ {ledger.written}
        /\ ledger'.ok \in {ledger.ok, ledger.ok \cup {ledger.written}}
        /\ committed' = committed
    BY <1>2, <1>5 DEF Publish, WriterFails, Ledger
  <2>2. Queued' = Queued /\ Recorded' = Recorded
    BY <2>1 DEF Queued, Recorded
  <2> QED
    BY <1>1, <2>1, <2>2 DEF Handed
<1>6. CASE WriterFails /\ ledger.written = NoConnection
  <2> DEFINE p == Head(ledger.queue)
  <2>1. /\ ledger'.queue = Tail(ledger.queue) /\ ledger'.written = ledger.written
        /\ ledger.queue # <<>> /\ committed' = committed
        /\ ledger'.inflight = ledger.inflight \ {p} /\ ledger'.ok = ledger.ok
    BY <1>2, <1>6 DEF WriterFails, Ledger
  <2>2. /\ p \in Queued /\ Queued' = Queued \ {p} /\ Recorded' = Recorded
        /\ \A i, j \in DOMAIN ledger'.queue : ledger'.queue[i] = ledger'.queue[j] => i = j
    BY <2>1, HeadLeaves DEF Recorded
  <2> HIDE DEF p
  <2> QED
    BY <1>1, <1>6, <2>1, <2>2 DEF Handed
<1>7. ASSUME NEW c \in Connections, SubmitFirst(c) PROVE Handed'
  <2>1. /\ ledger'.queue = ledger.queue /\ ledger'.written = ledger.written
        /\ ledger'.inflight = ledger.inflight \cup {c} /\ ledger'.ok = ledger.ok
        /\ committed' = committed /\ At(c, "submitting")
    BY <1>2, <1>7 DEF SubmitFirst, Ledger
  <2>2. Queued' = Queued /\ Recorded' = Recorded
    BY <2>1 DEF Queued, Recorded
  <2>3. Entered(c)'
    BY <1>7 DEF SubmitFirst, Entered, TypeOK, Handler
  <2>4. c \notin ledger.ok
    BY <1>2, <2>1 DEF Handed, Entered, Awaits, At
  <2> QED
    BY <1>1, <2>1, <2>2, <2>3, <2>4 DEF Handed
<1>8. ASSUME NEW c \in Connections, Put(c) PROVE Handed'
  <2>1. c \in ledger.inflight /\ c # ledger.written /\ c \notin Queued \cup Recorded
    BY <1>8 DEF Put, At, Awaits
  <2>2. /\ ledger'.written = ledger.written /\ ledger'.inflight = ledger.inflight
        /\ ledger'.ok = ledger.ok /\ committed' = committed
    BY <1>2, <1>8 DEF Put, Ledger
  <2>3. /\ Queued' = Queued \cup {c} /\ Recorded' = Recorded
        /\ \A i, j \in DOMAIN ledger'.queue : ledger'.queue[i] = ledger'.queue[j] => i = j
    BY <1>8, <2>1, <2>2, PutAdds DEF Recorded
  <2> QED
    BY <1>1, <2>1, <2>2, <2>3 DEF Handed
<1>9. ASSUME NEW c \in Connections, PutRefused(c) PROVE Handed'
  <2>1. c \in ledger.inflight /\ c # ledger.written /\ c \notin Queued \cup Recorded
    BY <1>9 DEF PutRefused, At, Awaits
  <2>2. /\ ledger'.queue = ledger.queue /\ ledger'.written = ledger.written
        /\ ledger'.inflight = ledger.inflight \ {c} /\ ledger'.ok = ledger.ok
        /\ committed' = committed
    BY <1>2, <1>9 DEF PutRefused, Ledger
  <2>3. Queued' = Queued /\ Recorded' = Recorded
    BY <2>2 DEF Queued, Recorded
  <2> QED
    BY <1>1, <2>1, <2>2, <2>3 DEF Handed
<1> QED
  BY <1>3, <1>4, <1>5, <1>6, <1>7, <1>8, <1>9, LedgerSteps

\* No step makes a second exchange for an event: SubmitFirst finds none pending or published.
LEMMA SingleStep ==
    ASSUME TypeOK, \A c \in Connections : Awaits(c), Handed, Single, [Next]_vars
    PROVE  Single'
<1> DEFINE E(p) == Request(p).event
           Open == ledger.inflight \cup ledger.ok
<1>1. ledger \in Ledger /\ NoConnection \notin Connections /\ ledger.inflight \subseteq Connections
  BY CollectorAssumption DEF TypeOK, Ledger
<1>2. ledger.ok \subseteq Recorded /\ \A i \in DOMAIN committed : committed[i].of \in Recorded
  BY DEF Recorded, Handed
<1>3. \A p \in Open \cup Recorded : E(p)' = E(p) /\ p \in Connections
  BY <1>2, KeepsEntered DEF Handed, Entered
<1>4. \A p, q \in Open : E(p) = E(q) => p = q
  BY DEF Single
<1>5. \A i, j \in DOMAIN committed : E(committed[i].of) = E(committed[j].of) => i = j
  BY DEF Single
<1>6. ledger.degraded \/ Recorded \subseteq ledger.ok \cup {ledger.written}
  BY DEF Single
<1>7. ASSUME committed' = committed
      PROVE  /\ Recorded' = Recorded
             /\ \A i, j \in DOMAIN committed' :
                    E(committed[i].of)' = E(committed[j].of)' => i = j
  BY <1>2, <1>3, <1>5, <1>7 DEF Recorded
<1>8. CASE Untouched
  BY <1>2, <1>3, <1>4, <1>6, <1>7, <1>8 DEF Single, Untouched
<1>9. CASE Commit
  <2> DEFINE p == Head(ledger.queue)
             n == Len(committed)
  <2>1. /\ ledger.queue # <<>> /\ ~ledger.degraded /\ ledger.written = NoConnection
        /\ ledger'.queue = Tail(ledger.queue) /\ ledger'.written = p
        /\ ledger'.inflight = ledger.inflight /\ ledger'.ok = ledger.ok
    BY <1>1, <1>9 DEF Commit, Ledger
  <2>2. p \in ledger.inflight /\ p \notin ledger.ok
    BY <2>1, HeadLeaves DEF Handed
  <2>3. /\ Recorded' = Recorded \cup {p}
        /\ DOMAIN committed' = DOMAIN committed \cup {n + 1} /\ committed'[n + 1].of = p
        /\ \A i \in DOMAIN committed : committed'[i] = committed[i]
    BY <1>9, CommitAdds
  <2> HIDE DEF p, n
  <2>4. Recorded \subseteq ledger.ok
    BY <1>3, <1>6, <2>1, <1>1
  <2>5. \A i \in DOMAIN committed : E(committed[i].of) # E(p)
    BY <1>2, <1>4, <2>2, <2>4
  <2>6. \A i, j \in DOMAIN committed' : E(committed[i].of)' = E(committed[j].of)' => i = j
    BY <1>2, <1>3, <1>5, <2>2, <2>3, <2>5
  <2>7. \A q, r \in Open' : E(q)' = E(r)' => q = r
    BY <1>3, <1>4, <2>1
  <2> QED
    BY <2>1, <2>3, <2>4, <2>6, <2>7 DEF Single
<1>10. CASE Publish \/ (WriterFails /\ ledger.written # NoConnection)
  <2>1. /\ ledger'.written = NoConnection /\ ledger.written # NoConnection
        /\ ledger'.inflight = ledger.inflight \ {ledger.written}
        /\ \/ ledger'.ok = ledger.ok /\ ledger'.degraded
           \/ ledger'.ok = ledger.ok \cup {ledger.written} /\ ledger'.degraded = ledger.degraded
        /\ committed' = committed
    BY <1>1, <1>10 DEF Publish, WriterFails, Ledger
  <2>2. ledger.written \in ledger.inflight
    BY <2>1 DEF Handed
  <2>3. \A q, r \in Open' : E(q)' = E(r)' => q = r
    BY <1>3, <1>4, <2>1, <2>2
  <2> QED
    BY <1>6, <1>7, <2>1, <2>3 DEF Single
<1>11. CASE WriterFails /\ ledger.written = NoConnection
  <2>1. /\ ledger'.inflight \subseteq ledger.inflight /\ ledger'.ok = ledger.ok
        /\ ledger'.degraded /\ committed' = committed
    BY <1>1, <1>11 DEF WriterFails, Ledger
  <2>2. \A q, r \in Open' : E(q)' = E(r)' => q = r
    BY <1>3, <1>4, <2>1
  <2> QED
    BY <1>7, <2>1, <2>2 DEF Single
<1>12. ASSUME NEW c \in Connections, SubmitFirst(c) PROVE Single'
  <2>1. /\ ledger'.written = ledger.written /\ ledger'.degraded = ledger.degraded
        /\ ledger'.inflight = ledger.inflight \cup {c} /\ ledger'.ok = ledger.ok
        /\ committed' = committed /\ conn[c].pc = "submitting"
    BY <1>1, <1>12 DEF SubmitFirst, Ledger, At
  <2>2. E(c)' = E(c)
    BY <2>1, Keeps
  <2>3. \A q \in Open : E(q) # E(c)
    BY <1>12 DEF SubmitFirst, Published, Pending
  <2>4. \A q, r \in Open' : E(q)' = E(r)' => q = r
    BY <1>3, <1>4, <2>1, <2>2, <2>3
  <2> QED
    BY <1>6, <1>7, <2>1, <2>4 DEF Single
<1>13. ASSUME NEW c \in Connections, Put(c) \/ PutRefused(c) PROVE Single'
  <2>1. /\ ledger'.written = ledger.written /\ ledger'.degraded = ledger.degraded
        /\ ledger'.inflight \subseteq ledger.inflight /\ ledger'.ok = ledger.ok
        /\ committed' = committed
    BY <1>1, <1>13 DEF Put, PutRefused, Ledger
  <2>2. \A q, r \in Open' : E(q)' = E(r)' => q = r
    BY <1>3, <1>4, <2>1
  <2> QED
    BY <1>6, <1>7, <2>1, <2>2 DEF Single
<1> QED
  BY <1>8, <1>9, <1>10, <1>11, <1>12, <1>13, LedgerSteps

\* A handler goes on waiting for an exchange of its own event and content.
LEMMA AwaitsStep ==
    ASSUME TypeOK, \A c \in Connections : Awaits(c), Handed, [Next]_vars, NEW d \in Connections
    PROVE  Awaits(d)'
<1> DEFINE W == /\ conn[d].pc \notin {"none", "done"} => Request(d) \in Requests
                /\ conn[d].on # NoConnection =>
                    /\ conn[d].pc \in {"putting", "waiting", "done"}
                    /\ Request(d) \in Requests
                    /\ Entered(conn[d].on)
                    /\ Request(conn[d].on).event = Request(d).event
                    /\ Request(conn[d].on).digest = Request(d).digest
                /\ conn[d].pc = "waiting" => conn[d].on # NoConnection
           P == conn[d].pc = "putting" =>
                    /\ conn[d].on = d /\ d \in ledger.inflight /\ d # ledger.written
                    /\ d \notin Queued \cup Recorded
<1>1. ledger \in Ledger /\ conn \in [Connections -> Handler] /\ NoConnection \notin Connections
  BY CollectorAssumption DEF TypeOK
<1>2. W /\ P
  BY DEF Awaits
<1>3. conn[d].on # NoConnection =>
        /\ Entered(conn[d].on)' /\ Request(conn[d].on)' = Request(conn[d].on)
        /\ conn'[d].on = conn[d].on
  BY <1>2, Keeps, KeepsEntered
<1>4. ASSUME conn'[d].on = conn[d].on, conn'[d].req = conn[d].req,
             \/ conn'[d].pc = conn[d].pc
             \/ conn[d].pc \notin {"none", "done"}
                /\ (conn[d].on # NoConnection => conn'[d].pc \in {"waiting", "done"})
                /\ (conn'[d].pc = "waiting" => conn[d].on # NoConnection)
             \/ conn[d].on = NoConnection /\ conn'[d].pc = "done"
      PROVE  W'
  BY <1>2, <1>3, <1>4 DEF Request
<1>5. ASSUME conn'[d] = conn[d], conn[d].pc = "putting" PROVE P'
  <2>1. P
    BY <1>2
  <2>2. CASE Untouched
    BY <1>5, <2>1, <2>2 DEF Untouched, Queued, Recorded
  <2>3. CASE Commit
    <3>1. /\ ledger'.queue = Tail(ledger.queue) /\ ledger'.written = Head(ledger.queue)
          /\ ledger.queue # <<>> /\ ledger'.inflight = ledger.inflight
      BY <1>1, <2>3 DEF Commit, Ledger
    <3>2. Head(ledger.queue) \in Queued /\ Queued' = Queued \ {Head(ledger.queue)}
      BY <3>1, HeadLeaves
    <3>3. Recorded' = Recorded \cup {Head(ledger.queue)}
      BY <2>3, CommitAdds
    <3> QED
      BY <1>5, <2>1, <3>1, <3>2, <3>3
  <2>4. CASE Publish \/ (WriterFails /\ ledger.written # NoConnection)
    <3>1. /\ ledger'.queue = ledger.queue /\ ledger'.written = NoConnection
          /\ ledger'.inflight = ledger.inflight \ {ledger.written}
          /\ committed' = committed
      BY <1>1, <2>4 DEF Publish, WriterFails, Ledger
    <3> QED
      BY <1>1, <1>5, <2>1, <3>1 DEF Queued, Recorded
  <2>5. CASE WriterFails /\ ledger.written = NoConnection
    <3>1. /\ ledger'.queue = Tail(ledger.queue) /\ ledger'.written = ledger.written
          /\ ledger.queue # <<>> /\ committed' = committed
          /\ ledger'.inflight = ledger.inflight \ {Head(ledger.queue)}
      BY <1>1, <2>5 DEF WriterFails, Ledger
    <3>2. Head(ledger.queue) \in Queued /\ Queued' = Queued \ {Head(ledger.queue)}
      BY <3>1, HeadLeaves
    <3> QED
      BY <1>5, <2>1, <3>1, <3>2 DEF Recorded
  <2>6. ASSUME NEW c \in Connections, SubmitFirst(c) \/ Put(c) \/ PutRefused(c) PROVE P'
    <3>1. c # d
      BY <1>1, <1>5, <2>6 DEF SubmitFirst, Put, PutRefused, At, Goes, Ends, Handler
    <3>2. CASE SubmitFirst(c) \/ PutRefused(c)
      <4>1. /\ ledger'.queue = ledger.queue /\ ledger'.written = ledger.written
            /\ ledger.inflight \ {c} \subseteq ledger'.inflight /\ committed' = committed
        BY <1>1, <3>2 DEF SubmitFirst, PutRefused, Ledger
      <4> QED
        BY <1>5, <2>1, <3>1, <4>1 DEF Queued, Recorded
    <3>3. CASE Put(c)
      <4>1. /\ ledger'.written = ledger.written /\ ledger'.inflight = ledger.inflight
            /\ committed' = committed
        BY <1>1, <3>3 DEF Put, Ledger
      <4>2. Queued' = Queued \cup {c}
        BY <3>3, PutAdds DEF Put, At, Awaits
      <4> QED
        BY <1>5, <2>1, <3>1, <4>1, <4>2 DEF Recorded
    <3> QED
      BY <2>6, <3>2, <3>3
  <2> QED
    BY <2>2, <2>3, <2>4, <2>5, <2>6, LedgerSteps
<1>6. ASSUME conn'[d] = conn[d] PROVE W' /\ P'
  BY <1>4, <1>5, <1>6
<1>7. CASE conn' = conn
  BY <1>6, <1>7 DEF Awaits
<1>8. ASSUME NEW c \in Connections, c # d, Handle(c) PROVE W' /\ P'
  BY <1>6, <1>8, HandlerLeaves
<1>9. ASSUME Handle(d) PROVE W' /\ P'
  <2>1. CASE \E s \in {"verified", "refreshing", "capturing", "submitting", "done"} :
                conn' = [conn EXCEPT ![d].pc = s] /\ (s # "done" => conn[d].on = NoConnection)
    <3>1. /\ conn'[d].on = conn[d].on /\ conn'[d].req = conn[d].req
          /\ conn'[d].pc \in {"verified", "refreshing", "capturing", "submitting", "done"}
          /\ conn[d].on # NoConnection => conn'[d].pc = "done"
      BY <1>1, <2>1 DEF Handler
    <3>2. conn[d].pc \notin {"none", "done"}
      BY <1>9, HandlerLeaves
    <3> QED
      BY <1>4, <3>1, <3>2
  <2>2. CASE ReadFails(d) \/ VerifyRefuses(d) \/ Verify(d) \/ Reject(d) \/ Recall(d)
             \/ RecallFails(d) \/ Unpublished(d)
    BY <1>2, <2>1, <2>2 DEF ReadFails, VerifyRefuses, Verify, Reject, Recall, RecallFails,
       Unpublished, Goes, Ends, At
  <2>3. CASE Refresh(d) \/ RefreshFails(d) \/ Capture(d) \/ CaptureRefused(d)
    BY <1>2, <2>1, <2>3 DEF Refresh, RefreshFails, Capture, CaptureRefused, Goes, Ends, At
  <2>4. CASE SubmitRefused(d) \/ SubmitPrior(d) \/ SubmitConflict(d) \/ PutRefused(d) \/ Receive(d)
             \/ ReceiveError(d) \/ WaitTimesOut(d)
    BY <1>2, <2>1, <2>4 DEF SubmitRefused, SubmitPrior, SubmitConflict, PutRefused, Receive,
       ReceiveError, WaitTimesOut, Goes, Ends, At
  <2>5. CASE Put(d)
    <3>1. conn'[d].on = conn[d].on /\ conn'[d].req = conn[d].req /\ conn'[d].pc = "waiting"
          /\ conn[d].pc = "putting"
      BY <1>1, <2>5 DEF Put, Goes, At, Handler
    <3> QED
      BY <1>1, <1>2, <1>4, <3>1
  <2>6. CASE SubmitJoin(d)
    <3>1. PICK p \in ledger.inflight :
             /\ Request(p).event = Request(d).event /\ Request(p).digest = Request(d).digest
             /\ conn' = [conn EXCEPT ![d].pc = "waiting", ![d].on = p]
      BY <2>6 DEF SubmitJoin, Pending
    <3>2. Entered(p) /\ Entered(p)' /\ Request(p)' = Request(p) /\ p # NoConnection
      BY <1>1, <3>1, KeepsEntered DEF Handed, Entered
    <3>3. conn'[d].on = p /\ conn'[d].req = conn[d].req /\ conn'[d].pc = "waiting"
          /\ conn[d].pc = "submitting"
      BY <1>1, <2>6, <3>1 DEF Handler, SubmitJoin, At
    <3> QED
      BY <1>2, <3>1, <3>2, <3>3 DEF Request
  <2>7. CASE SubmitFirst(d)
    <3>1. conn'[d].on = d /\ conn'[d].req = conn[d].req /\ conn'[d].pc = "putting"
          /\ conn[d].pc = "submitting"
      BY <1>1, <2>7 DEF Handler, SubmitFirst, At
    <3>2. ledger'.queue = ledger.queue /\ ledger'.written = ledger.written
          /\ ledger'.inflight = ledger.inflight \cup {d} /\ committed' = committed
      BY <1>1, <2>7 DEF SubmitFirst, Ledger
    <3>3. ~Entered(d)
      BY <1>1, <1>2, <3>1 DEF Entered
    <3>4. d \notin Queued \cup Recorded /\ d # ledger.written
      BY <1>1, <3>3 DEF Handed
    <3> QED
      BY <1>1, <1>2, <3>1, <3>2, <3>4 DEF Request, Entered, Queued, Recorded
  <2> QED
    BY <1>9, <2>2, <2>3, <2>4, <2>5, <2>6, <2>7 DEF Handle
<1>10. ASSUME NEW c \in Connections, Rejected(c) \/ \E r \in Requests : Accept(c, r)
       PROVE  W' /\ P'
  <2>1. CASE c # d
    BY <1>1, <1>6, <1>10, <2>1 DEF Rejected, Accept, Ends, Goes
  <2>2. CASE c = d /\ Rejected(c)
    <3>1. conn[d].on = NoConnection /\ conn'[d].on = conn[d].on /\ conn'[d].req = conn[d].req
          /\ conn'[d].pc = "done"
      BY <1>1, <1>2, <2>2 DEF Rejected, At, Ends, Goes, Handler
    <3> QED
      BY <1>4, <3>1
  <2>3. ASSUME c = d, NEW r \in Requests, Accept(c, r) PROVE W' /\ P'
    <3>1. conn[d].on = NoConnection /\ conn'[d].on = conn[d].on /\ conn'[d].req = r
          /\ conn'[d].pc = "reading"
      BY <1>1, <1>2, <2>3 DEF Accept, At, Handler
    <3> QED
      BY <3>1 DEF Request
  <2> QED
    BY <1>10, <2>1, <2>2, <2>3
<1>11. W' /\ P'
  BY <1>6, <1>7, <1>8, <1>9, <1>10 DEF Next, vars, Lifecycle, Start, StartFails, Stop, Joined,
     JoinTimesOut, Drained, DrainTimesOut, StopLedger, Stopped, LedgerStopTimesOut, StopStep,
     StopTimesOut, Write, Commit, Publish, WriterFails, WriterExits
<1> QED
  BY <1>11 DEF Awaits

------------------------------------------------------------------------------
(* What is answered, and how stop ends. *)
\* A handler that answers gives the published response of its own event and content; one
\* that ends without an answer it was owed degrades the collector.
LEMMA AnswerSteps ==
    ASSUME TypeOK, NEW c \in Connections, Awaits(c), Handle(c)
    PROVE  /\ \/ answered' = answered
              \/ \E p \in ledger.ok :
                    /\ answered' = answered \cup {[to |-> Request(c), of |-> p]}
                    /\ Request(p).event = Request(c).event
                    /\ Request(p).digest = Request(c).digest
           /\ conn'[c].pc = "done" /\ conn'[c].on # NoConnection /\ ~degraded' =>
                [to |-> Request(c), of |-> conn'[c].on] \in answered'
<1> DEFINE Gives == \/ answered' = answered
                    \/ \E p \in ledger.ok :
                          /\ answered' = answered \cup {[to |-> Request(c), of |-> p]}
                          /\ Request(p).event = Request(c).event
                          /\ Request(p).digest = Request(c).digest
           Owed == conn'[c].pc = "done" /\ conn'[c].on # NoConnection /\ ~degraded' =>
                       [to |-> Request(c), of |-> conn'[c].on] \in answered'
<1> USE DEF guards, review, storage, Silently
<1>1. conn \in [Connections -> Handler]
  BY DEF TypeOK
<1>2. ASSUME NEW s, conn' = [conn EXCEPT ![c].pc = s], s # "done" \/ conn[c].on = NoConnection
      PROVE  Owed
  BY <1>1, <1>2 DEF Handler
<1>3. CASE ReadFails(c) \/ VerifyRefuses(c) \/ Verify(c) \/ Reject(c) \/ RecallFails(c)
           \/ Unpublished(c)
  <2>1. conn[c].on = NoConnection /\ \E s : conn' = [conn EXCEPT ![c].pc = s]
    BY <1>3 DEF Awaits, ReadFails, VerifyRefuses, Verify, Reject, RecallFails, Unpublished, At,
       Goes, Ends
  <2>2. answered' = answered
    BY <1>3 DEF ReadFails, VerifyRefuses, Verify, Reject, RecallFails, Unpublished
  <2> QED
    BY <1>2, <2>1, <2>2
<1>4. CASE Recall(c) \/ SubmitPrior(c)
  <2>1. conn[c].on = NoConnection /\ conn' = [conn EXCEPT ![c].pc = "done"]
    BY <1>4 DEF Awaits, Recall, SubmitPrior, At, Ends, Goes
  <2>2. Gives
    BY <1>4 DEF Recall, SubmitPrior, Published, Answers
  <2> QED
    BY <1>2, <2>1, <2>2
<1>5. CASE Refresh(c) \/ RefreshFails(c) \/ Capture(c) \/ CaptureRefused(c)
  <2>1. conn[c].on = NoConnection /\ \E s : conn' = [conn EXCEPT ![c].pc = s]
    BY <1>5 DEF Awaits, Refresh, RefreshFails, Capture, CaptureRefused, At, Goes, Ends
  <2>2. answered' = answered
    BY <1>5 DEF Refresh, RefreshFails, Capture, CaptureRefused
  <2> QED
    BY <1>2, <2>1, <2>2
<1>6. CASE SubmitRefused(c) \/ SubmitConflict(c)
  <2>1. conn[c].on = NoConnection /\ conn' = [conn EXCEPT ![c].pc = "done"]
    BY <1>6 DEF Awaits, SubmitRefused, SubmitConflict, At, Ends, Goes
  <2>2. answered' = answered
    BY <1>6 DEF SubmitRefused, SubmitConflict
  <2> QED
    BY <1>2, <2>1, <2>2
<1>7. CASE SubmitJoin(c) \/ SubmitFirst(c)
  <2>1. conn'[c].pc # "done" /\ answered' = answered
    BY <1>1, <1>7 DEF SubmitJoin, SubmitFirst, Handler
  <2> QED
    BY <2>1
<1>8. CASE Put(c) \/ PutRefused(c) \/ ReceiveError(c) \/ WaitTimesOut(c)
  <2>1. answered' = answered /\ (degraded' \/ conn' = [conn EXCEPT ![c].pc = "waiting"])
    BY <1>8 DEF Put, PutRefused, ReceiveError, WaitTimesOut, Goes
  <2> QED
    BY <1>2, <2>1
<1>9. CASE Receive(c)
  <2>1. /\ conn[c].on \in ledger.ok /\ conn[c].pc = "waiting"
        /\ conn'[c].on = conn[c].on
        /\ \/ answered' = answered \cup {[to |-> Request(c), of |-> conn[c].on]}
           \/ degraded' /\ answered' = answered
    BY <1>1, <1>9 DEF Receive, At, Ends, Goes, Answers, Handler
  <2>2. Request(conn[c].on).event = Request(c).event
        /\ Request(conn[c].on).digest = Request(c).digest
    BY <2>1 DEF Awaits
  <2> QED
    BY <2>1, <2>2
<1> QED
  BY <1>3, <1>4, <1>5, <1>6, <1>7, <1>8, <1>9 DEF Handle

\* Every answer stays that of a published exchange.
LEMMA RepliedStep ==
    ASSUME TypeOK, \A c \in Connections : Awaits(c), Handed, Replied, [Next]_vars
    PROVE  Replied'
<1> DEFINE Sound(a) == /\ a.of \in ledger.ok
                       /\ a.to.event = Request(a.of).event /\ a.to.digest = Request(a.of).digest
           Owed(d) == conn[d].pc = "done" /\ conn[d].on # NoConnection /\ ~degraded =>
                          [to |-> Request(d), of |-> conn[d].on] \in answered
<1>1. ledger.ok \subseteq ledger'.ok
  <2>1. CASE Untouched
    BY <2>1 DEF Untouched
  <2>2. CASE Commit \/ Publish \/ WriterFails
    BY <2>2 DEF Commit, Publish, WriterFails, TypeOK, Ledger
  <2>3. ASSUME NEW c \in Connections, SubmitFirst(c) \/ Put(c) \/ PutRefused(c)
        PROVE  ledger.ok \subseteq ledger'.ok
    BY <2>3 DEF SubmitFirst, Put, PutRefused, TypeOK, Ledger
  <2> QED
    BY <2>1, <2>2, <2>3, LedgerSteps
<1>2. \A p \in ledger.ok : Request(p)' = Request(p)
  BY KeepsEntered DEF Handed
<1>3. \A a \in answered : Sound(a)'
  BY <1>1, <1>2 DEF Replied
<1>4. ASSUME NEW d \in Connections, conn'[d] = conn[d], degraded => degraded',
             answered \subseteq answered'
      PROVE  Owed(d)'
  BY <1>4 DEF Replied, Request
<1>5. CASE conn' = conn /\ answered' = answered /\ (degraded => degraded')
  BY <1>3, <1>4, <1>5 DEF Replied
<1>6. ASSUME NEW c \in Connections, Handle(c) PROVE Replied'
  <2>1. /\ \A d \in Connections \ {c} : conn'[d] = conn[d]
        /\ conn'[c].req = conn[c].req /\ (degraded => degraded')
    BY <1>6, HandlerLeaves
  <2>2. \/ answered' = answered
        \/ \E p \in ledger.ok :
              /\ answered' = answered \cup {[to |-> Request(c), of |-> p]}
              /\ Request(p).event = Request(c).event /\ Request(p).digest = Request(c).digest
    BY <1>6, AnswerSteps
  <2>3. ASSUME NEW a \in answered' PROVE Sound(a)'
    BY <1>1, <1>2, <1>3, <2>2
  <2>4. Owed(c)'
    BY <1>6, <2>1, AnswerSteps DEF Request
  <2>5. \A d \in Connections : Owed(d)'
    BY <1>4, <2>1, <2>2, <2>4
  <2> QED
    BY <2>3, <2>5 DEF Replied
<1>7. ASSUME NEW c \in Connections, Rejected(c) \/ \E r \in Requests : Accept(c, r)
      PROVE  Replied'
  <2>1. /\ \A d \in Connections \ {c} : conn'[d] = conn[d]
        /\ conn'[c].pc = "done" => degraded'
        /\ answered' = answered /\ (degraded => degraded')
    BY <1>7 DEF Rejected, Accept, Ends, Goes, TypeOK, Handler
  <2>2. \A d \in Connections : Owed(d)'
    BY <1>4, <2>1
  <2> QED
    BY <1>3, <2>1, <2>2 DEF Replied
<1> QED
  BY <1>5, <1>6, <1>7 DEF Next, vars, Lifecycle, Start, StartFails, Stop, Joined, JoinTimesOut,
     Drained, DrainTimesOut, StopLedger, Stopped, LedgerStopTimesOut, StopStep, StopTimesOut,
     Write, Commit, Publish, WriterFails, WriterExits

\* Stop leaves no handler behind unless it fails.
LEMMA ClosedStep ==
    ASSUME TypeOK, Closed, [Next]_vars
    PROVE  Closed'
<1>1. ledger \in Ledger /\ conn \in [Connections -> Handler]
  BY DEF TypeOK
<1>2. CASE UNCHANGED <<conn, server, failed, ledger>>
  BY <1>2 DEF Closed, Active
<1>3. CASE Lifecycle
  <2>1. CASE Start \/ Stop \/ Joined
    BY <2>1 DEF Start, Stop, Joined, StopStep, storage, Closed, Active
  <2>2. CASE Drained
    BY <2>2 DEF Drained, StopStep, storage, Closed, Active
  <2>3. CASE StartFails \/ JoinTimesOut \/ DrainTimesOut \/ LedgerStopTimesOut
    BY <2>3 DEF StartFails, JoinTimesOut, DrainTimesOut, LedgerStopTimesOut, StopTimesOut, Closed
  <2>4. CASE StopLedger
    <3>1. /\ ledger'.closing /\ ledger'.exited = ledger.exited /\ server' = "waiting"
          /\ ledger'.queue = ledger.queue /\ ledger'.written = ledger.written
          /\ server = "closing" /\ conn' = conn /\ failed' = failed
      BY <1>1, <2>4 DEF StopLedger, Ledger
    <3> QED
      BY <3>1 DEF Closed, Active
  <2>5. CASE Stopped
    BY <2>5 DEF Stopped, StopStep, storage, Closed, Active
  <2> QED
    BY <1>3, <2>1, <2>2, <2>3, <2>4, <2>5 DEF Lifecycle
<1>4. CASE Write
  <2>1. CASE Commit \/ Publish \/ WriterFails
    <3>1. /\ ledger'.closing = ledger.closing /\ ledger'.exited = ledger.exited
          /\ ledger.queue # <<>> \/ ledger.written # NoConnection
          /\ UNCHANGED <<conn, server, failed>>
      BY <1>1, <2>1 DEF Commit, Publish, WriterFails, Ledger
    <3> QED
      BY <3>1 DEF Closed, Active
  <2>2. CASE WriterExits
    <3>1. /\ ledger'.closing = ledger.closing /\ ledger.closing
          /\ ledger'.queue = <<>> /\ ledger'.written = NoConnection /\ ledger'.exited
          /\ UNCHANGED <<conn, server, failed>>
      BY <1>1, <2>2 DEF WriterExits, Ledger
    <3> QED
      BY <3>1 DEF Closed, Active
  <2> QED
    BY <1>4, <2>1, <2>2 DEF Write
<1>5. ASSUME NEW c \in Connections, Handle(c) PROVE Closed'
  <2>1. c \in Active /\ server' = server /\ failed' = failed
    BY <1>5, HandlerLeaves DEF Active
  <2>2. ledger'.closing = ledger.closing /\ ledger'.exited = ledger.exited
    <3>1. CASE SubmitFirst(c) \/ Put(c) \/ PutRefused(c)
      BY <1>1, <3>1 DEF SubmitFirst, Put, PutRefused, Ledger
    <3> QED
      BY <1>5, <3>1, HandlerLeaves
  <2> QED
    BY <2>1, <2>2 DEF Closed
<1>6. ASSUME NEW c \in Connections, Rejected(c) \/ \E r \in Requests : Accept(c, r)
      PROVE  Closed'
  BY <1>6 DEF Rejected, Accept, storage, Closed
<1> QED
  BY <1>2, <1>3, <1>4, <1>5, <1>6 DEF Next, vars, storage

------------------------------------------------------------------------------
(* The invariant. *)
\* Every step keeps the invariant.
LEMMA InvariantStep ==
    ASSUME TypeOK, IsFiniteSet(held), IInv, [Next]_vars
    PROVE  TypeOK' /\ IsFiniteSet(held') /\ IInv'
<1>1. (\A c \in Connections : Awaits(c)) /\ Handed /\ Single /\ Replied /\ Closed
  BY DEF IInv
<1> QED
  BY <1>1, TypeStep, AwaitsStep, HandedStep, SingleStep, RepliedStep, ClosedStep DEF IInv

\* It holds when the collector is bound.
LEMMA InitInvariant == Init => TypeOK /\ IsFiniteSet(held) /\ IInv
<1> SUFFICES ASSUME Init PROVE TypeOK /\ IsFiniteSet(held) /\ IInv
  OBVIOUS
<1>1. IsFiniteSet(held) /\ Cardinality(held) = 0
  BY FS_EmptySet DEF Init
<1>2. conn \in [Connections -> Handler] /\ \A c \in Connections : conn[c] = Unused
  BY DEF Init, Handler, Unused
<1>3. ledger \in Ledger /\ Len(ledger.queue) = 0 /\ ledger.queue = <<>>
  BY DEF Init, Ledger
<1>4. committed \in Seq(Exchange) /\ committed = <<>>
  BY DEF Init
<1>5. TypeOK
  <2>1. MaxContexts \in Nat /\ MaxItems \in Nat
    BY CollectorAssumption
  <2>2. Cardinality(held) <= MaxContexts /\ Len(ledger.queue) <= MaxItems
    BY <1>1, <1>3, <2>1
  <2> QED
    BY <1>2, <1>3, <1>4, <2>2 DEF Init, TypeOK
<1>6. Recorded = {} /\ Queued = {}
  BY <1>3, <1>4 DEF Recorded, Queued
<1>7. \A c \in Connections : Awaits(c)
  BY <1>2 DEF Awaits, Unused
<1>8. Handed /\ Single
  BY <1>3, <1>4, <1>6 DEF Init, Handed, Single
<1>9. Replied /\ Closed
  BY <1>2 DEF Init, Replied, Closed, Active, Unused
<1> QED
  BY <1>1, <1>5, <1>7, <1>8, <1>9 DEF IInv

\* Types and invariant hold in every state of every behaviour.
LEMMA CollectorInvariant == Spec => [](TypeOK /\ IsFiniteSet(held) /\ IInv)
<1>1. TypeOK /\ IsFiniteSet(held) /\ IInv /\ [Next]_vars
        => (TypeOK /\ IsFiniteSet(held) /\ IInv)'
  BY InvariantStep
<1> QED
  BY <1>1, InitInvariant, PTL DEF Spec

------------------------------------------------------------------------------
(* Theorems. *)
\* Every 200 response for an event is the response of its one exchange in events.jsonl, and
\* went to a request of that exchange's content, although the replay guard in front of the
\* ledger forgets an event whenever any request for it is rejected.
THEOREM OneExchange == Spec => []RetryGetsFirstExchange
<1>1. TypeOK /\ IInv => RetryGetsFirstExchange
  <2> SUFFICES ASSUME TypeOK, IInv, NEW a \in answered
               PROVE  /\ a.to.digest = Request(a.of).digest
                      /\ \E i \in DOMAIN committed :
                          /\ committed[i].of = a.of
                          /\ \A j \in DOMAIN committed \ {i} :
                              Request(committed[j].of).event # a.to.event
    BY DEF RetryGetsFirstExchange
  <2>1. /\ a.of \in Recorded
        /\ a.to.event = Request(a.of).event /\ a.to.digest = Request(a.of).digest
    BY DEF IInv, Replied, Handed
  <2>2. PICK i \in DOMAIN committed : committed[i].of = a.of
    BY <2>1 DEF Recorded
  <2>3. \A j \in DOMAIN committed : Request(committed[j].of).event = a.to.event => i = j
    BY <2>1, <2>2 DEF IInv, Single
  <2> QED
    BY <2>1, <2>2, <2>3
<1> QED
  BY <1>1, CollectorInvariant, PTL

\* A stop that raises nothing and finds nothing degraded lost no event: every handler that
\* came as far as the ledger's queue has sent the response of a durable exchange.
THEOREM Lossless == Spec => []NothingIsLost
<1>1. TypeOK /\ IInv => NothingIsLost
  <2> SUFFICES ASSUME TypeOK, IInv, StoppedCleanly, ~Degraded,
                      NEW c \in Connections, conn[c].on # NoConnection
               PROVE  /\ [to |-> Request(c), of |-> conn[c].on] \in answered
                      /\ \E i \in DOMAIN committed : committed[i].of = conn[c].on
    BY DEF NothingIsLost, NothingLost
  <2>1. Active = {}
    BY DEF IInv, Closed, StoppedCleanly
  <2>2. conn[c].pc = "done"
    BY <2>1 DEF IInv, Awaits, Active
  <2>3. [to |-> Request(c), of |-> conn[c].on] \in answered
    BY <2>2 DEF IInv, Replied, Degraded
  <2>4. conn[c].on \in Recorded
    BY <2>3 DEF IInv, Replied, Handed
  <2> QED
    BY <2>3, <2>4 DEF Recorded
<1> QED
  BY <1>1, CollectorInvariant, PTL

\* After a stop that raised nothing no handler and no writer is left to change the file, the
\* contexts or the answers, so the final state that the run captures is final.
THEOREM FinalIsFinal == Spec => IntakeStopsFirst
<1>1. ASSUME TypeOK, IInv, [Next]_vars, StoppedCleanly
      PROVE  UNCHANGED <<committed, review, degraded, ledger, answered>>
  <2>1. /\ server = "stopped" /\ Active = {} /\ ledger.exited /\ ledger.queue = <<>>
        /\ ledger.written = NoConnection
    BY <1>1 DEF StoppedCleanly, IInv, Closed
  <2>2. CASE Lifecycle
    BY <2>1, <2>2 DEF Lifecycle, Start, StartFails, Stop, Joined, JoinTimesOut, Drained,
       DrainTimesOut, StopLedger, Stopped, LedgerStopTimesOut, StopStep, StopTimesOut
  <2>3. CASE Write
    BY <2>1, <2>3 DEF Write, Commit, Publish, WriterFails, WriterExits
  <2>4. ASSUME NEW c \in Connections, Handle(c) PROVE FALSE
    BY <1>1, <2>1, <2>4, HandlerLeaves DEF Active
  <2>5. ASSUME NEW c \in Connections, Rejected(c) \/ \E r \in Requests : Accept(c, r)
        PROVE  FALSE
    BY <2>1, <2>5 DEF Rejected, Accept
  <2>6. CASE UNCHANGED vars
    BY <2>6 DEF vars, storage
  <2> QED
    BY <1>1, <2>2, <2>3, <2>4, <2>5, <2>6 DEF Next
<1>2. TypeOK /\ IInv /\ [Next]_vars
        => [StoppedCleanly => UNCHANGED <<committed, review, degraded, ledger, answered>>]_vars
  BY <1>1
<1> QED
  BY <1>2, CollectorInvariant, PTL DEF Spec, IntakeStopsFirst
==============================================================================
