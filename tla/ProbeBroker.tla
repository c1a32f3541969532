----------------------------- MODULE ProbeBroker -----------------------------
(***************************************************************************)
(* LiveProbeBroker (internal_session.py) under ProbeRunner (probe.py): a   *)
(* probe prepares a confined session, checks its boundary, asks it once    *)
(* and closes it.  Two threads meet: the one that runs the probes          *)
(* ("probe"), which aborts the broker itself when a boundary is unsafe,    *)
(* and the one that stops the review ("stop").                             *)
(*                                                                         *)
(* What a thread does under self._condition between two waits is one step. *)
(* Every wait of the code has a deadline; it passes only as a fault.       *)
(***************************************************************************)
EXTENDS SessionWorker

CONSTANT Jobs  \* probes run during the behaviour

VARIABLES
    at,      \* per thread: the step it takes next
    on,      \* per thread: the session and generation it works with, where it returns to
    own,     \* per thread: what its abort, retry and finish remember
    broker,  \* the broker's own fields
    care,    \* per session: its _PreparationCleanup
    spare,   \* per session: its _PreparedProbe's closing fields
    latch,   \* is the boundary disabled, in memory and on disk
    job      \* the probes left, the last one's outcome, was an unsafe boundary ever met

threads == <<at, on, own>>
records == <<care, spare>>
vars == <<worker, threads, broker, records, latch, job>>

Threads == {"probe", "stop"}
FinishSteps == {"f_claim", "f_wait", "f_close", "f_stop"}
RetrySteps == {"c_claim", "c_close", "c_erase", "c_stop"}
AbortSteps == {"b_flag", "b_cancel", "b_sub", "b_cut", "b_finish", "b_closed", "b_prepared",
               "b_inflight", "b_each"}
ProbeSteps == {"p_idle", "p_prepare", "p_unused", "p_submit", "p_wait", "p_lost", "p_stop",
               "p_raise", "p_validate", "p_send", "p_ask", "p_asked", "p_judge", "p_disable"}

Broker == [aborted : BOOLEAN, preparing : 0..MaxSessions, prepared : 0..MaxSessions,
           active : 0..MaxSessions]
Cleanup == [listed : BOOLEAN, owner : {"none", "coroutine", "broker"}, closed : BOOLEAN,
            cleaned : BOOLEAN, complete : BOOLEAN]
Spare == [closing : BOOLEAN, closed : BOOLEAN, ok : BOOLEAN]
Outcomes == {"none", "accepted", "rejected", "unsafe", "raised"}
Own == [target : Nat, ack : BOOLEAN, all : BOOLEAN, fine : BOOLEAN, todo : SUBSET Sessions,
        late : BOOLEAN, result : {"none", "yes", "no"}]

ProbeTypeOK ==
    /\ WorkerTypeOK
    /\ at \in [Threads -> FinishSteps \cup RetrySteps \cup AbortSteps \cup ProbeSteps
                          \cup {"idle", "over"}]
    /\ on \in [Threads -> [s : 0..MaxSessions, g : Nat,
                           back : {"none", "p_raise", "p_judge"} \cup AbortSteps]]
    /\ own \in [Threads -> Own]
    /\ broker \in Broker
    /\ care \in [Sessions -> Cleanup]
    /\ spare \in [Sessions -> Spare]
    /\ latch \in [memory : BOOLEAN, disk : BOOLEAN]
    /\ job \in [left : 0..Jobs, answer : {"none", "output", "raise"}, outcome : Outcomes,
               met : BOOLEAN]

Fresh == [target |-> 0, ack |-> TRUE, all |-> TRUE, fine |-> TRUE, todo |-> {}, late |-> FALSE,
          result |-> "none"]

Init ==
    /\ WorkerInit
    /\ at = [t \in Threads |-> IF t = "probe" THEN "p_idle" ELSE "idle"]
    /\ on = [t \in Threads |-> [s |-> NoSession, g |-> 0, back |-> "none"]]
    /\ own = [t \in Threads |-> Fresh]
    /\ broker = [aborted |-> FALSE, preparing |-> NoSession, prepared |-> NoSession,
                 active |-> NoSession]
    /\ care = [s \in Sessions |-> [listed |-> FALSE, owner |-> "none", closed |-> FALSE,
                                   cleaned |-> FALSE, complete |-> FALSE]]
    /\ spare = [s \in Sessions |-> [closing |-> FALSE, closed |-> FALSE, ok |-> FALSE]]
    /\ latch = [memory |-> FALSE, disk |-> FALSE]
    /\ job = [left |-> Jobs, answer |-> "none", outcome |-> "none", met |-> FALSE]

------------------------------------------------------------------------------
Inflight == {s \in Sessions : care[s].listed}
Goto(t, step) == at' = [at EXCEPT ![t] = step] /\ UNCHANGED on
GotoWith(t, step, s, g, back) ==
    /\ at' = [at EXCEPT ![t] = step]
    /\ on' = [on EXCEPT ![t] = [s |-> s, g |-> g, back |-> back]]

\* _finish_prepared and _retry_inflight_cleanup of s, which return to step back.
Finish(t, s, back) == GotoWith(t, "f_claim", s, 0, back)
Retry(t, s, back) == GotoWith(t, "c_claim", s, 0, back)

\* _release_inflight_cleanup.
Released(s) == [care EXCEPT ![s].listed = FALSE, ![s].complete = TRUE]

Unowned(s) == [care EXCEPT ![s].owner = IF @ = "broker" THEN "none" ELSE @]

\* Has run answered this thread, and what a worker's join comes to.
Answered(t) == Answer(on[t].s, on[t].g) # "pending"
Joined(s) == Stopped(s) /\ Calm
Outlives(s) == ~Stopped(s) /\ Trip("stuck")

------------------------------------------------------------------------------
(* The coroutines of this broker. *)

\* _prepare_once registers its cleanup before anything can fail.
Begin(s, g) ==
    /\ Begins(s, g) /\ turn[s][g].kind # "close"
    /\ IF turn[s][g].kind = "prepare"
       THEN /\ home' = [home EXCEPT ![s] = "there"]
            /\ care' = [care EXCEPT ![s].listed = TRUE]
            /\ \/ Calm /\ Move(s, g, "connect", "ok")
               \/ Trip("prepare") /\ Move(s, g, "claim", "error")
       ELSE Calm /\ Move(s, g, "turn", "ok") /\ UNCHANGED <<home, care>>
    /\ UNCHANGED <<proc, threads, broker, spare, latch, job>>

\* A preparation that failed cleans up itself unless somebody took its cleanup over.
Claim(s, g) ==
    /\ At(s, g, "claim")
    /\ IF care[s].listed /\ care[s].owner = "none"
       THEN /\ care' = [care EXCEPT ![s].owner = "coroutine"]
            /\ Move(s, g, "session", "error")
       ELSE Settle(s, g, "error") /\ UNCHANGED care
    /\ UNCHANGED <<proc, home, faults, threads, broker, spare, latch, job>>

Erase(s, cleaned) ==
    /\ IF cleaned THEN Calm ELSE Trip("home")
    /\ home' = [home EXCEPT ![s] = IF cleaned THEN "gone" ELSE @]

\* It stays in flight, with what it could close and clean, for the thread that waits.
CleanUp(s, g) ==
    /\ At(s, g, "home")
    /\ \E cleaned \in BOOLEAN :
         /\ Erase(s, cleaned)
         /\ Settle(s, g, "error")
         /\ care' = [care EXCEPT ![s].closed = ~turn[s][g].unclosed \/ ~TransportAlive(s),
                                 ![s].cleaned = cleaned, ![s].complete = TRUE]
    /\ UNCHANGED <<proc, threads, broker, spare, latch, job>>

SessionMoves ==
    \E s \in Sessions :
        \/ SessionStep(s) /\ UNCHANGED <<threads, broker, records, latch, job>>
        \/ \E g \in DOMAIN turn[s] : Begin(s, g) \/ Claim(s, g) \/ CleanUp(s, g)

------------------------------------------------------------------------------
(* _finish_prepared: whoever comes first closes the session, the others wait for it. *)

Fine(t, fine) == own' = [own EXCEPT ![t].fine = fine]

FinishClaim(t) ==
    /\ at[t] = "f_claim"
    /\ LET s == on[t].s IN
       IF spare[s].closed
       THEN /\ Goto(t, on[t].back) /\ Fine(t, spare[s].ok)
            /\ UNCHANGED <<spare, loop, turn>>
       ELSE IF spare[s].closing
       THEN Goto(t, "f_wait") /\ UNCHANGED <<spare, loop, turn, own>>
       ELSE /\ spare' = [spare EXCEPT ![s].closing = TRUE]
            /\ Submit(s, "close")
            /\ GotoWith(t, "f_close", s, loop[s].submitted + 1, on[t].back)
            /\ UNCHANGED own
    /\ UNCHANGED <<proc, home, faults, broker, care, latch, job>>

FinishWait(t) ==
    /\ at[t] = "f_wait"
    /\ IF spare[on[t].s].closed THEN Calm ELSE Trip("slow")
    /\ Fine(t, spare[on[t].s].closed /\ spare[on[t].s].ok)
    /\ Goto(t, on[t].back)
    /\ UNCHANGED <<loop, turn, proc, home, broker, records, latch, job>>

\* The home is removed and the worker stopped whatever came of the close.
FinishClose(t) ==
    /\ at[t] = "f_close" /\ Answered(t)
    /\ LET s == on[t].s IN
       \E cleaned \in BOOLEAN :
         /\ Erase(s, cleaned)
         /\ spare' = [spare EXCEPT ![s].ok = Answer(s, on[t].g) = "ok" /\ cleaned]
         /\ Stopping(s)
    /\ Goto(t, "f_stop")
    /\ UNCHANGED <<proc, own, broker, care, latch, job>>

FinishStop(t) ==
    /\ at[t] = "f_stop"
    /\ LET s == on[t].s IN
       /\ Joined(s) \/ Outlives(s)
       /\ spare' = [spare EXCEPT ![s].closed = TRUE, ![s].ok = @ /\ Stopped(s)]
       /\ broker' = [broker EXCEPT !.prepared = IF @ = s THEN NoSession ELSE @,
                                   !.active = IF @ = s THEN NoSession ELSE @]
       /\ Fine(t, spare'[s].ok)
    /\ Goto(t, on[t].back)
    /\ UNCHANGED <<loop, turn, proc, home, care, latch, job>>

FinishStep(t) == FinishClaim(t) \/ FinishWait(t) \/ FinishClose(t) \/ FinishStop(t)

------------------------------------------------------------------------------
(* _retry_inflight_cleanup: one thread owns the cleanup while it retries. *)

\* It returns with or without success and gives the cleanup back in the latter case.
Returns(t, success) ==
    /\ Goto(t, on[t].back)
    /\ own' = [own EXCEPT ![t].all = @ /\ success]

\* What is left to do once the cleanup is owned: its boundary, its home, its worker.
RetryBoundary(t, s) ==
    IF care[s].closed \/ (~own[t].late /\ ~TransportAlive(s))
    THEN /\ care' = [care EXCEPT ![s].owner = "broker", ![s].closed = TRUE]
         /\ Goto(t, "c_erase") /\ UNCHANGED <<loop, turn, own>>
    ELSE IF own[t].late \/ ~Alive(s)
    THEN care' = Unowned(s) /\ Returns(t, FALSE) /\ UNCHANGED <<loop, turn>>
    ELSE /\ care' = [care EXCEPT ![s].owner = "broker"]
         /\ Submit(s, "close")
         /\ GotoWith(t, "c_close", s, loop[s].submitted + 1, on[t].back)
         /\ UNCHANGED own

RetryClaim(t) ==
    /\ at[t] = "c_claim"
    /\ LET s == on[t].s
           pending == care[s].owner = "coroutine" /\ ~care[s].complete
       IN  /\ pending => ~care[s].listed \/ own[t].late
           /\ IF ~care[s].listed THEN Returns(t, TRUE) /\ UNCHANGED <<loop, turn, care>>
              ELSE IF pending \/ care[s].owner = "broker"
              THEN Returns(t, FALSE) /\ UNCHANGED <<loop, turn, care>>
              ELSE RetryBoundary(t, s)
    /\ UNCHANGED <<proc, home, faults, broker, spare, latch, job>>

RetryClosed(t) ==
    /\ at[t] = "c_close" /\ Answered(t)
    /\ LET s == on[t].s IN
       IF Answer(s, on[t].g) = "ok" \/ ~TransportAlive(s)
       THEN care' = [care EXCEPT ![s].closed = TRUE] /\ Goto(t, "c_erase") /\ UNCHANGED own
       ELSE care' = Unowned(s) /\ Returns(t, FALSE)
    /\ UNCHANGED <<worker, broker, spare, latch, job>>

RetryErase(t) ==
    /\ at[t] = "c_erase"
    /\ LET s == on[t].s IN
       \/ /\ Calm /\ home' = [home EXCEPT ![s] = "gone"]
          /\ care' = [care EXCEPT ![s].cleaned = TRUE]
          /\ Stopping(s) /\ Goto(t, "c_stop") /\ UNCHANGED own
       \/ /\ ~care[s].cleaned /\ Trip("home") /\ care' = Unowned(s) /\ Returns(t, FALSE)
          /\ UNCHANGED <<loop, turn, home>>
    /\ UNCHANGED <<proc, broker, spare, latch, job>>

RetryStop(t) ==
    /\ at[t] = "c_stop"
    /\ LET s == on[t].s IN
       /\ Joined(s) \/ Outlives(s) \/ (own[t].late /\ ~Stopped(s) /\ Calm)
       /\ care' = IF Stopped(s) THEN Released(s) ELSE Unowned(s)
       /\ Returns(t, Stopped(s))
    /\ UNCHANGED <<loop, turn, proc, home, broker, spare, latch, job>>

RetryStep(t) == RetryClaim(t) \/ RetryClosed(t) \/ RetryErase(t) \/ RetryStop(t)

------------------------------------------------------------------------------
(* abort. *)

AbortBegins(t) ==
    /\ at' = [at EXCEPT ![t] = "b_flag"]
    /\ own' = [own EXCEPT ![t] = Fresh]
    /\ UNCHANGED on

\* It ends with an answer; the probe's own abort does not look at it.
AbortEnds(t, yes) ==
    /\ at' = [at EXCEPT ![t] = IF t = "probe" THEN "p_disable" ELSE "over"]
    /\ own' = [own EXCEPT ![t].result = IF yes THEN "yes" ELSE "no"]
    /\ UNCHANGED on

\* MissionReviewController.stop aborts once, whatever goes on.
StopReview ==
    /\ at["stop"] = "idle"
    /\ AbortBegins("stop")
    /\ UNCHANGED <<worker, broker, records, latch, job>>

\* What it finds: an active probe, a prepared one or a preparation.
AbortFlag(t) ==
    /\ at[t] = "b_flag"
    /\ broker' = [broker EXCEPT !.aborted = TRUE, !.prepared = NoSession]
    /\ IF broker.active # NoSession THEN GotoWith(t, "b_cancel", broker.active, 0, "b_finish")
       ELSE IF broker.prepared # NoSession THEN Finish(t, broker.prepared, "b_closed")
       ELSE IF broker.preparing # NoSession
       THEN GotoWith(t, "b_cancel", broker.preparing, 0, "b_prepared")
       ELSE Goto(t, "b_inflight")
    /\ UNCHANGED <<worker, own, records, latch, job>>

\* cancel_active, for a preparation with completed_is_stopped.
AbortCancel(t) ==
    /\ at[t] = "b_cancel"
    /\ LET s == on[t].s IN
       IF on[t].back = "b_prepared" /\ AlreadyStopped(s)
       THEN Goto(t, "b_prepared") /\ UNCHANGED <<loop, turn, own>>
       ELSE /\ own' = [own EXCEPT ![t].target = Target(s)]
            /\ Goto(t, IF Idle(s) THEN "b_sub" ELSE "b_cut")
            /\ IF Idle(s) THEN Want(s) ELSE CancelTarget(s, Target(s))
    /\ UNCHANGED <<proc, home, faults, broker, records, latch, job>>

CancelNext(t) ==
    /\ at[t] = "b_sub"
    /\ LET s == on[t].s IN
       /\ loop[s].submitted >= own[t].target \/ Stopped(s)
       /\ CancelTarget(s, own[t].target)
    /\ Goto(t, "b_cut")
    /\ UNCHANGED <<proc, home, faults, own, broker, records, latch, job>>

CancelEnds(t) ==
    /\ LET s == on[t].s
           over == loop[s].completed >= own[t].target
       IN  /\ \/ at[t] = "b_cut" /\ (over \/ Stopped(s) \/ own[t].late)
              \/ at[t] = "b_sub" /\ own[t].late
           /\ own' = [own EXCEPT ![t].ack = over]
    /\ Goto(t, on[t].back)
    /\ UNCHANGED <<worker, broker, records, latch, job>>

\* An active probe that could not be cancelled is left to its own thread.
AbortFinish(t) ==
    /\ at[t] = "b_finish"
    /\ IF own[t].ack THEN Finish(t, on[t].s, "b_closed") /\ UNCHANGED own
       ELSE AbortEnds(t, FALSE)
    /\ UNCHANGED <<worker, broker, records, latch, job>>

AbortClosed(t) ==
    /\ at[t] = "b_closed"
    /\ own' = [own EXCEPT ![t].ack = own[t].fine]
    /\ Goto(t, "b_inflight")
    /\ UNCHANGED <<worker, broker, records, latch, job>>

AbortPrepared(t) ==
    /\ at[t] = "b_prepared"
    /\ IF broker.preparing # on[t].s THEN Goto(t, "b_inflight") /\ UNCHANGED own
       ELSE own[t].late /\ AbortEnds(t, FALSE)
    /\ UNCHANGED <<worker, broker, records, latch, job>>

AbortInflight(t) ==
    /\ at[t] = "b_inflight"
    /\ own' = [own EXCEPT ![t].todo = Inflight, ![t].all = TRUE]
    /\ Goto(t, "b_each")
    /\ UNCHANGED <<worker, broker, records, latch, job>>

AbortEach(t) ==
    /\ at[t] = "b_each"
    /\ \E s \in own[t].todo :
         /\ own' = [own EXCEPT ![t].todo = @ \ {s}]
         /\ Retry(t, s, "b_each")
    /\ UNCHANGED <<worker, broker, records, latch, job>>

AllStopped ==
    /\ broker.preparing = NoSession /\ broker.prepared = NoSession
    /\ broker.active = NoSession /\ Inflight = {}

AbortJudge(t) ==
    /\ at[t] = "b_each" /\ own[t].todo = {}
    /\ AbortEnds(t, own[t].ack /\ own[t].all /\ AllStopped)
    /\ UNCHANGED <<worker, broker, records, latch, job>>

AbortStep(t) ==
    \/ AbortFlag(t) \/ AbortCancel(t) \/ CancelNext(t) \/ CancelEnds(t) \/ AbortFinish(t)
    \/ AbortClosed(t) \/ AbortPrepared(t) \/ AbortInflight(t) \/ AbortEach(t) \/ AbortJudge(t)

------------------------------------------------------------------------------
(* ProbeRunner's run with prepare and send of the broker. *)

Unsafe == Goto("probe", "p_disable")

NextJob(outcome) ==
    [job EXCEPT !.left = @ - 1, !.answer = "none", !.outcome = outcome]

\* A disabled boundary, or one whose state cannot be read, allows no probe.
RunNext ==
    /\ at["probe"] = "p_idle" /\ job.left > 0
    /\ \/ /\ Calm
          /\ IF latch.memory \/ latch.disk
             THEN /\ latch' = [latch EXCEPT !.memory = TRUE]
                  /\ job' = NextJob("unsafe")
                  /\ UNCHANGED threads
             ELSE /\ job' = NextJob("none")
                  /\ Goto("probe", "p_prepare") /\ UNCHANGED <<own, latch>>
       \/ /\ ~latch.memory /\ Trip("disk")
          /\ latch' = [latch EXCEPT !.memory = TRUE]
          /\ job' = NextJob("unsafe")
          /\ UNCHANGED threads
    /\ UNCHANGED <<loop, turn, proc, home, broker, records>>

\* prepare refuses while anything else is held, or after an abort.
MayPrepare == ~broker.aborted /\ AllStopped

Prepare ==
    /\ at["probe"] = "p_prepare"
    /\ \/ Trip("prepare") /\ Unsafe /\ UNCHANGED <<loop, broker>>
       \/ /\ Calm
          /\ \E s \in Sessions :
               /\ IsNew(s)
               /\ loop' = [loop EXCEPT ![s].phase = IF MayPrepare THEN "running" ELSE "stopping"]
               /\ broker' = [broker EXCEPT !.preparing = IF MayPrepare THEN s ELSE @]
               /\ GotoWith("probe", IF MayPrepare THEN "p_submit" ELSE "p_unused", s, 1, "none")
    /\ own' = [own EXCEPT !["probe"] = Fresh]
    /\ UNCHANGED <<turn, proc, home, records, latch, job>>

\* The unused worker's join, and that of one whose preparation never began.
PrepareStops ==
    /\ at["probe"] \in {"p_unused", "p_stop"}
    /\ LET s == on["probe"].s IN Joined(s) \/ Outlives(s)
    /\ Goto("probe", IF at["probe"] = "p_stop" THEN "p_raise" ELSE "p_disable")
    /\ UNCHANGED <<loop, turn, proc, home, own, broker, records, latch, job>>

PrepareSubmit ==
    /\ at["probe"] = "p_submit"
    /\ Submit(on["probe"].s, "prepare")
    /\ Goto("probe", "p_wait")
    /\ UNCHANGED <<proc, home, faults, own, broker, records, latch, job>>

PrepareReady ==
    /\ at["probe"] = "p_wait"
    /\ LET s == on["probe"].s IN
       /\ Answer(s, 1) = "ok"
       /\ care' = Released(s)
       /\ IF broker.aborted THEN Finish("probe", s, "p_raise") /\ UNCHANGED broker
          ELSE /\ broker' = [broker EXCEPT !.prepared = s, !.preparing = NoSession]
               /\ Goto("probe", "p_validate")
    /\ UNCHANGED <<worker, own, spare, latch, job>>

\* The coroutine's own cleanup is waited for, then what it left is retried here.
PrepareFails ==
    /\ at["probe"] = "p_wait"
    /\ LET s == on["probe"].s IN
       /\ Answered("probe") /\ Answer(s, 1) # "ok"
       /\ ~(care[s].owner = "coroutine" /\ ~care[s].complete) \/ own["probe"].late
       /\ IF care[s].listed THEN Retry("probe", s, "p_raise") /\ UNCHANGED <<loop, turn>>
          ELSE Stopping(s) /\ Goto("probe", "p_stop")
    /\ UNCHANGED <<proc, home, faults, own, broker, records, latch, job>>

PrepareRaises ==
    /\ at["probe"] = "p_raise"
    /\ broker' = [broker EXCEPT !.preparing = IF @ = on["probe"].s THEN NoSession ELSE @]
    /\ Unsafe
    /\ UNCHANGED <<worker, own, records, latch, job>>

\* The boundary is not the approved one: abort, then disable.
ValidateBoundary ==
    /\ at["probe"] = "p_validate"
    /\ \/ Calm /\ Goto("probe", "p_send") /\ UNCHANGED own
       \/ Trip("boundary") /\ AbortBegins("probe")
    /\ UNCHANGED <<loop, turn, proc, home, broker, records, latch, job>>

Send ==
    /\ at["probe"] = "p_send"
    /\ LET s == broker.prepared IN
       IF broker.aborted \/ s = NoSession THEN AbortBegins("probe") /\ UNCHANGED broker
       ELSE /\ broker' = [broker EXCEPT !.prepared = NoSession, !.active = s]
            /\ GotoWith("probe", "p_ask", s, loop[s].submitted + 1, "none")
            /\ UNCHANGED own
    /\ UNCHANGED <<worker, records, latch, job>>

SendSubmit ==
    /\ at["probe"] = "p_ask"
    /\ Submit(on["probe"].s, "ask")
    /\ Goto("probe", "p_asked")
    /\ UNCHANGED <<proc, home, faults, own, broker, records, latch, job>>

\* The session is closed whatever the turn came to.
SendAnswered ==
    /\ at["probe"] = "p_asked" /\ Answered("probe")
    /\ LET s == on["probe"].s
           result == Answer(s, on["probe"].g)
       IN  /\ \E answer \in {"none", "output", "raise"} :
                /\ answer = "output" => result = "ok"
                /\ answer = "raise" => result = "error"
                /\ job' = [job EXCEPT !.answer = answer]
           /\ Finish("probe", s, "p_judge")
    /\ UNCHANGED <<worker, own, broker, records, latch>>

\* An output counts only when the session is closed for good and nobody aborted.
SendJudge ==
    /\ at["probe"] = "p_judge"
    /\ IF job.answer = "raise" \/ ~own["probe"].fine THEN AbortBegins("probe") /\ UNCHANGED job
       ELSE /\ \E outcome \in {"accepted", "rejected"} :
                 /\ outcome = "accepted" => job.answer = "output" /\ ~broker.aborted
                 /\ job' = [job EXCEPT !.outcome = outcome]
            /\ Goto("probe", "p_idle") /\ UNCHANGED own
    /\ UNCHANGED <<worker, broker, records, latch>>

\* Variant: the memory is set once the store has answered.
Disable_StoreFirst ==
    /\ at["probe"] = "p_disable"
    /\ \/ /\ Calm /\ latch' = [memory |-> TRUE, disk |-> TRUE]
          /\ job' = [job EXCEPT !.outcome = "unsafe", !.met = TRUE]
       \/ /\ Trip("disk") /\ UNCHANGED latch
          /\ job' = [job EXCEPT !.outcome = "raised", !.met = TRUE]
    /\ Goto("probe", "p_idle")
    /\ UNCHANGED <<loop, turn, proc, home, own, broker, records>>

\* _disable_boundary: in memory first; a store that fails makes run raise.
Disable ==
    /\ at["probe"] = "p_disable"
    /\ \/ /\ Calm /\ latch' = [memory |-> TRUE, disk |-> TRUE]
          /\ job' = [job EXCEPT !.outcome = "unsafe", !.met = TRUE]
       \/ /\ Trip("disk") /\ latch' = [latch EXCEPT !.memory = TRUE]
          /\ job' = [job EXCEPT !.outcome = "raised", !.met = TRUE]
    /\ Goto("probe", "p_idle")
    /\ UNCHANGED <<loop, turn, proc, home, own, broker, records>>

ProbeStep ==
    \/ RunNext \/ Prepare \/ PrepareStops \/ PrepareSubmit \/ PrepareReady \/ PrepareFails
    \/ PrepareRaises \/ ValidateBoundary \/ Send \/ SendSubmit \/ SendAnswered \/ SendJudge
    \/ Disable

------------------------------------------------------------------------------
\* The deadline of an abort or of a failed preparation's cleanup passes.
DeadlinePasses(t) ==
    /\ at[t] \in AbortSteps \cup RetrySteps \cup {"p_wait"} /\ ~own[t].late
    /\ at[t] = "p_wait" => Answered(t) /\ Answer(on[t].s, 1) # "ok"
    /\ Trip("late")
    /\ own' = [own EXCEPT ![t].late = TRUE]
    /\ UNCHANGED <<loop, turn, proc, home, at, on, broker, records, latch, job>>

\* A thread gives up the turn it waits for; a worker that runs has begun it long before.
Waiting == {"f_close", "p_wait", "p_asked", "c_close"}
TurnDeadline(t) ==
    /\ at[t] \in Waiting
    /\ GiveUp(on[t].s, on[t].g)
    /\ \/ Dropped(on[t].s, on[t].g) /\ Calm
       \/ turn[on[t].s][on[t].g].at # "queued" /\ (IF own[t].late THEN Calm ELSE Trip("slow"))
    /\ UNCHANGED <<proc, home, threads, broker, records, latch, job>>

ThreadStep ==
    \/ ProbeStep \/ StopReview
    \/ \E t \in Threads :
         FinishStep(t) \/ RetryStep(t) \/ AbortStep(t) \/ DeadlinePasses(t) \/ TurnDeadline(t)

\* Everything has come to an end.
Rest == at["probe"] = "p_idle" /\ job.left = 0 /\ at["stop"] = "over"
Over == Rest /\ UNCHANGED vars

Next == SessionMoves \/ ThreadStep \/ Over

Spec == Init /\ [][Next]_vars

------------------------------------------------------------------------------
(* Properties. *)

\* A session that was let go of: process and worker were told to end, its home is removed.
LetGo(s) == proc[s].process # "alive" /\ home[s] # "there" /\ loop[s].phase # "running"

\* A session that its one close was begun for, or whose close failed.
HandedOver(s) == spare[s].closing \/ \E t \in Threads : at[t] = "f_claim" /\ on[t].s = s
CloseFailed(s) == spare[s].closed /\ ~spare[s].ok

\* "acknowledge cleanup": when the review's abort answers yes, every session was let go of
\* or handed to its one close.
AcknowledgedMeansClosed ==
    own["stop"].result = "yes" => \A s \in Sessions : LetGo(s) \/ HandedOver(s)

\* An output is accepted only once its session's process is dead, its home is gone and its
\* worker has stopped.
AcceptedAfterCleanup ==
    job.outcome = "accepted" =>
        LET s == on["probe"].s IN ~ProcessAlive(s) /\ home[s] = "gone" /\ Stopped(s)

\* After an unsafe boundary no process is started, not even when the disk refused to
\* remember it.
NoneStarted ==
    \A s \in Sessions : proc[s].process = "none" => proc'[s].process = "none"
UnsafeStaysDisabled == [][job.met => NoneStarted]_vars

\* Between probes nothing is lost sight of: a session that was not let go of is in flight,
\* or its close has failed.
AtRest == at["probe"] = "p_idle" /\ at["stop"] \in {"idle", "over"}
          /\ \A s \in Sessions : \A g \in DOMAIN turn[s] : ~Started(turn[s][g])
ProbesKeptInSight ==
    AtRest => \A s \in Sessions : LetGo(s) \/ s \in Inflight \/ CloseFailed(s)
=============================================================================
