-------------------------- MODULE ExtractionBroker --------------------------
(***************************************************************************)
(* LiveExtractionBroker (internal_session.py): one fresh confined session  *)
(* per extraction request, with one spare session built ahead of the       *)
(* request.  Three threads meet in it: the one that extracts ("req"), the  *)
(* one that prewarms ("warm") and the one that aborts ("stop"); each       *)
(* session's own worker runs its coroutines.                               *)
(*                                                                         *)
(* What a thread does under self._condition between two waits is one step. *)
(* Every wait of the code has a deadline; it passes only as a fault.       *)
(***************************************************************************)
EXTENDS SessionWorker

CONSTANT Requests  \* extract calls during the behaviour

ASSUME BrokerAssumption == Requests \in Nat

VARIABLES
    at,     \* per thread: the step it takes next
    on,     \* per thread: the session and generation it works with, where it returns to
    broker, \* the broker's own fields
    care,   \* per session: its _PreparationCleanup
    spare,  \* per session: its _PreparedExtraction's closing fields
    event,  \* per session: the events of the request it serves
    call,   \* what extract remembers
    stop    \* what abort remembers

threads == <<at, on>>
records == <<care, spare, event>>
vars == <<worker, threads, broker, records, call, stop>>

Threads == {"req", "warm", "stop"}
Finishing == {"f_claim", "f_wait", "f_close", "f_stop", "f_mark"}
ReqSteps == {"r_idle", "r_schedule", "r_claim", "r_unused", "r_submit",
             "r_wait", "r_kept", "r_stop", "r_check", "r_leave"}
WarmSteps == {"w_off", "w_enter", "w_worker", "w_submit", "w_wait", "w_lost", "w_stop", "w_end"}
StopSteps == {"a_idle", "a_flag", "a_cancel", "a_sub", "a_cut", "a_prepared", "a_inflight",
              "a_active", "a_cleaned", "a_retry", "a_close", "a_erase", "a_drop", "a_stop",
              "a_halt", "a_over"}

Broker == [aborted : BOOLEAN, busy : BOOLEAN, active : 0..MaxSessions, prepared : 0..MaxSessions,
           preparing : BOOLEAN, preparer : 0..MaxSessions, uncleaned : BOOLEAN,
           broken : SUBSET Sessions, ready : BOOLEAN]
Cleanup == [list : {"none", "inflight", "failed"}, owner : {"none", "coroutine", "broker"},
            closed : BOOLEAN, cleaned : BOOLEAN, complete : BOOLEAN]
Spare == [closing : BOOLEAN, closed : BOOLEAN, ok : BOOLEAN]
Event == [started : BOOLEAN, complete : BOOLEAN, succeeded : BOOLEAN]
Call == [left : Nat, prepared : BOOLEAN, timedOut : BOOLEAN, answer : BOOLEAN, lost : BOOLEAN]
Stop == [preparer : 0..MaxSessions, active : 0..MaxSessions, target : Nat, todo : SUBSET Sessions,
         late : BOOLEAN, joined : BOOLEAN, completed : BOOLEAN, cleaned : BOOLEAN,
         stopped : BOOLEAN, result : {"none", "yes", "no"}]

ExtractionTypeOK ==
    /\ WorkerTypeOK
    /\ at \in [Threads -> Finishing \cup ReqSteps \cup WarmSteps \cup StopSteps]
    /\ on \in [Threads -> [s : 0..MaxSessions, g : Nat,
                           back : {"none"} \cup ReqSteps \cup WarmSteps \cup StopSteps]]
    /\ broker \in Broker
    /\ care \in [Sessions -> Cleanup]
    /\ spare \in [Sessions -> Spare]
    /\ event \in [Sessions -> Event]
    /\ call \in Call
    /\ stop \in Stop

\* The controller prewarms before it serves a request.
Init ==
    /\ WorkerInit
    /\ at = [t \in Threads |-> CASE t = "req" -> "r_idle" [] t = "warm" -> "w_enter"
                                 [] OTHER -> "a_idle"]
    /\ on = [t \in Threads |-> [s |-> NoSession, g |-> 0, back |-> "none"]]
    /\ broker = [aborted |-> FALSE, busy |-> FALSE, active |-> NoSession,
                 prepared |-> NoSession, preparing |-> FALSE, preparer |-> NoSession,
                 uncleaned |-> FALSE, broken |-> {}, ready |-> FALSE]
    /\ care = [s \in Sessions |-> [list |-> "none", owner |-> "none", closed |-> FALSE,
                                   cleaned |-> FALSE, complete |-> FALSE]]
    /\ spare = [s \in Sessions |-> [closing |-> FALSE, closed |-> FALSE, ok |-> FALSE]]
    /\ event = [s \in Sessions |-> [started |-> FALSE, complete |-> FALSE, succeeded |-> FALSE]]
    /\ call = [left |-> Requests, prepared |-> FALSE, timedOut |-> FALSE, answer |-> FALSE,
               lost |-> FALSE]
    /\ stop = [preparer |-> NoSession, active |-> NoSession, target |-> 0, todo |-> {},
               late |-> FALSE, joined |-> TRUE, completed |-> TRUE, cleaned |-> TRUE,
               stopped |-> TRUE, result |-> "none"]

------------------------------------------------------------------------------
Listed(c, list) == {s \in Sessions : c[s].list = list}
Uncleaned(c) == Listed(c, "failed") \cup Listed(c, "inflight") # {}

Goto(t, step) == at' = [at EXCEPT ![t] = step] /\ UNCHANGED on
GotoWith(t, step, s, g) ==
    /\ at' = [at EXCEPT ![t] = step]
    /\ on' = [on EXCEPT ![t].s = s, ![t].g = g]

\* _finish_prepared is called on s and returns to step back.
Finish(t, s, back) ==
    /\ at' = [at EXCEPT ![t] = "f_claim"]
    /\ on' = [on EXCEPT ![t] = [s |-> s, g |-> 0, back |-> back]]

\* _release_inflight_cleanup, _retain_inflight_cleanup and _retain_failed_cleanup.
Released(c, s) == [c EXCEPT ![s].list = "none", ![s].complete = TRUE]
\* Variant: keeps a session only for a home that is left.
Retained_IfHomeLeft(c, s, closed, cleaned) ==
    IF cleaned THEN [c EXCEPT ![s].list = "none"]
    ELSE [c EXCEPT ![s] = [list |-> "failed", owner |-> "none", closed |-> closed,
                           cleaned |-> cleaned, complete |-> c[s].list = "inflight"]]

Retained(c, s, closed, cleaned) ==
    [c EXCEPT ![s] = [list |-> "failed", owner |-> "none", closed |-> closed,
                      cleaned |-> cleaned, complete |-> c[s].list = "inflight"]]

\* Nobody's preparation cleanups become failed ones: _promote_inflight_cleanups.
Orphans(c, only) ==
    {s \in only : c[s].list = "inflight" /\ c[s].owner = "none"}
Promoted(c, only) ==
    [s \in Sessions |-> IF s \in Orphans(c, only)
                        THEN [c[s] EXCEPT !.list = "failed", !.complete = TRUE] ELSE c[s]]
Promote(only) ==
    /\ care' = Promoted(care, only)
    /\ broker' = [broker EXCEPT !.uncleaned = @ \/ Orphans(care, only) # {}]

------------------------------------------------------------------------------
(* The coroutines of this broker. *)

\* _prepare_once up to its first await registers what it creates; a request's coroutine
\* says that it started.
Begin(s, g) ==
    /\ Begins(s, g) /\ turn[s][g].kind # "close"
    /\ LET kind == turn[s][g].kind IN
       /\ home' = IF kind = "send" THEN home ELSE [home EXCEPT ![s] = "there"]
       /\ care' = IF kind = "prepare" THEN [care EXCEPT ![s].list = "inflight"] ELSE care
       /\ event' = IF kind = "prepare" THEN event ELSE [event EXCEPT ![s].started = TRUE]
       /\ \/ Calm /\ Move(s, g, IF kind = "send" THEN "turn" ELSE "connect", "ok")
          \/ Trip("prepare") /\ Unwind(s, g, "error")
    /\ UNCHANGED <<proc, threads, broker, spare, call, stop>>

\* A preparation that failed cleans up itself unless somebody took its cleanup over.
Claim(s, g) ==
    /\ At(s, g, "claim")
    /\ IF care[s].list = "inflight" /\ care[s].owner = "none"
       THEN /\ care' = [care EXCEPT ![s].owner = "coroutine"]
            /\ Move(s, g, "session", "error")
       ELSE Settle(s, g, "error") /\ UNCHANGED care
    /\ UNCHANGED <<proc, home, faults, threads, broker, spare, event, call, stop>>

\* The boundary counts as closed when its close succeeded, or when the transport is not
\* alive by then.
BoundaryClosed(s, g) == ~turn[s][g].unclosed \/ ~TransportAlive(s)
Erase(s, cleaned) ==
    /\ IF cleaned THEN Calm ELSE Trip("home")
    /\ home' = [home EXCEPT ![s] = IF cleaned THEN "gone" ELSE @]

\* Variant: a sent turn is answered before its session is closed.
CleanUp_AnswerFirst(s, g) ==
    /\ At(s, g, "session") /\ turn[s][g].kind = "send"
    /\ Settle(s, g, turn[s][g].raised)
    /\ event' = [event EXCEPT ![s].complete = TRUE, ![s].succeeded = TRUE]
    /\ UNCHANGED <<proc, home, faults, care, broker, spare, threads, call, stop>>

\* The end of _prepare_once's error path, of _extract_once and of _send_prepared: the home
\* is removed, what could not be cleaned is kept for a later abort.
CleanUp(s, g) ==
    /\ At(s, g, "home")
    /\ \E cleaned \in BOOLEAN :
         LET kind == turn[s][g].kind
             good == BoundaryClosed(s, g) /\ cleaned
             raised == IF turn[s][g].unclosed \/ ~cleaned THEN "error" ELSE turn[s][g].raised
         IN  /\ Erase(s, cleaned)
             /\ Settle(s, g, raised)
             /\ care' = IF ~good THEN Retained(care, s, BoundaryClosed(s, g), cleaned)
                        ELSE IF kind = "prepare" THEN Released(care, s) ELSE care
             /\ broker' = [broker EXCEPT
                    !.uncleaned = IF good /\ kind # "prepare" THEN @ ELSE Uncleaned(care'),
                    !.prepared = IF kind = "send" /\ @ = s THEN NoSession ELSE @]
             /\ spare' = IF kind = "send"
                         THEN [spare EXCEPT ![s] = [closing |-> TRUE, closed |-> TRUE,
                                                    ok |-> good]]
                         ELSE spare
             /\ event' = IF kind = "prepare" THEN event
                         ELSE [event EXCEPT ![s].complete = TRUE, ![s].succeeded = good]
    /\ UNCHANGED <<proc, threads, call, stop>>

SessionMoves ==
    \E s \in Sessions :
        \/ SessionStep(s) /\ UNCHANGED <<threads, broker, records, call, stop>>
        \/ \E g \in DOMAIN turn[s] : Begin(s, g) \/ Claim(s, g) \/ CleanUp(s, g)

------------------------------------------------------------------------------
(* _finish_prepared: whoever comes first closes the session, the others wait for it. *)

FinishClaim(t) ==
    /\ at[t] = "f_claim"
    /\ LET s == on[t].s IN
       IF spare[s].closed THEN Goto(t, on[t].back) /\ UNCHANGED <<spare, loop, turn>>
       ELSE IF spare[s].closing THEN Goto(t, "f_wait") /\ UNCHANGED <<spare, loop, turn>>
       ELSE /\ spare' = [spare EXCEPT ![s].closing = TRUE]
            /\ Submit(s, "close")
            /\ at' = [at EXCEPT ![t] = "f_close"]
            /\ on' = [on EXCEPT ![t].g = loop[s].submitted + 1]
    /\ UNCHANGED <<proc, home, faults, broker, care, event, call, stop>>

FinishWait(t) ==
    /\ at[t] = "f_wait"
    /\ IF spare[on[t].s].closed THEN Calm ELSE Trip("slow")
    /\ Goto(t, on[t].back)
    /\ UNCHANGED <<loop, turn, proc, home, broker, records, call, stop>>

\* What a thread does once run has answered it, whatever the answer is.
Answered(s, g) == Answer(s, g) # "pending"

FinishClose(t) ==
    /\ at[t] = "f_close" /\ Answered(on[t].s, on[t].g)
    /\ LET s == on[t].s
           closed == Answer(s, on[t].g) = "ok" \/ ~TransportAlive(s)
       IN  \E cleaned \in BOOLEAN :
             /\ Erase(s, cleaned)
             /\ IF closed /\ cleaned
                THEN Stopping(s) /\ Goto(t, "f_stop") /\ UNCHANGED <<care, broker>>
                ELSE /\ care' = Retained(care, s, closed, cleaned)
                     /\ broker' = [broker EXCEPT !.uncleaned = TRUE]
                     /\ Goto(t, "f_mark") /\ UNCHANGED <<loop, turn>>
    /\ UNCHANGED <<proc, spare, event, call, stop>>

FinishMark(t) ==
    /\ \/ at[t] = "f_mark" /\ Calm
       \/ at[t] = "f_stop" /\ (IF Stopped(on[t].s) THEN Calm ELSE Trip("stuck"))
    /\ LET s == on[t].s
           good == at[t] = "f_stop" /\ Stopped(s)
       IN  /\ spare' = [spare EXCEPT ![s].closed = TRUE, ![s].ok = good]
           /\ broker' = [broker EXCEPT
                  !.broken = IF at[t] = "f_stop" /\ ~Stopped(s) THEN @ \cup {s} ELSE @,
                  !.prepared = IF @ = s THEN NoSession ELSE @]
    /\ Goto(t, on[t].back)
    /\ UNCHANGED <<loop, turn, proc, home, care, event, call, stop>>

FinishStep(t) ==
    FinishClaim(t) \/ FinishWait(t) \/ FinishClose(t) \/ FinishMark(t)
------------------------------------------------------------------------------
(* prewarm and _schedule_prewarm. *)

MayPrewarm ==
    /\ ~broker.aborted /\ ~broker.uncleaned /\ broker.broken = {}
    /\ Listed(care, "inflight") = {} /\ broker.prepared = NoSession /\ ~broker.preparing

PrewarmEnter ==
    /\ at["warm"] = "w_enter"
    /\ IF MayPrewarm THEN broker' = [broker EXCEPT !.preparing = TRUE] /\ Goto("warm", "w_worker")
       ELSE Goto("warm", "w_off") /\ UNCHANGED broker
    /\ UNCHANGED <<worker, records, call, stop>>

NewWorker(s) == IsNew(s) /\ loop' = [loop EXCEPT ![s].phase = "running"] /\ UNCHANGED turn

PrewarmWorker ==
    /\ at["warm"] = "w_worker"
    /\ \E s \in Sessions :
         /\ NewWorker(s)
         /\ broker' = [broker EXCEPT !.preparer = s]
         /\ GotoWith("warm", IF broker.aborted THEN "w_lost" ELSE "w_submit", s, 1)
    /\ UNCHANGED <<proc, home, faults, records, call, stop>>

PrewarmSubmit ==
    /\ at["warm"] = "w_submit"
    /\ \/ Calm /\ Submit(on["warm"].s, "prepare") /\ Goto("warm", "w_wait")
       \/ Trip("prepare") /\ Goto("warm", "w_lost") /\ UNCHANGED <<loop, turn>>
    /\ UNCHANGED <<proc, home, broker, records, call, stop>>

\* A session that is ready becomes the spare one, or is closed when an abort came first.
PrewarmReady ==
    /\ at["warm"] = "w_wait"
    /\ LET s == on["warm"].s IN
       /\ Answer(s, 1) = "ok"
       /\ care' = Released(care, s)
       /\ broker' = [broker EXCEPT !.uncleaned = Uncleaned(care'),
                                   !.prepared = IF broker.aborted THEN @ ELSE s]
       /\ IF broker.aborted THEN Finish("warm", s, "w_end") ELSE Goto("warm", "w_end")
    /\ UNCHANGED <<worker, spare, event, call, stop>>

PrewarmFails ==
    /\ at["warm"] = "w_wait"
    /\ LET s == on["warm"].s IN Answered(s, 1) /\ Answer(s, 1) # "ok"
    /\ Goto("warm", "w_lost")
    /\ UNCHANGED <<worker, broker, records, call, stop>>

\* What a failed preparation left behind is promoted once its coroutine is done with it.
Owned(s) == care[s].list = "inflight" /\ care[s].owner = "coroutine" /\ ~care[s].complete
PrewarmLost ==
    /\ at["warm"] = "w_lost"
    /\ LET s == on["warm"].s IN
       /\ IF Owned(s) THEN Trip("slow") ELSE Calm
       /\ Promote({s})
       /\ IF care'[s].list # "none" THEN Goto("warm", "w_end") /\ UNCHANGED <<loop, turn>>
          ELSE Goto("warm", "w_stop") /\ Stopping(s)
    /\ UNCHANGED <<proc, home, spare, event, call, stop>>

\* The worker has stopped, or its thread outlives the join and is remembered.
Joined(s) == Stopped(s) /\ Calm
Outlives(s) == ~Stopped(s) /\ Trip("stuck")

PrewarmStop ==
    /\ at["warm"] = "w_stop"
    /\ LET s == on["warm"].s IN
       \/ Joined(s) /\ UNCHANGED broker
       \/ Outlives(s) /\ broker' = [broker EXCEPT !.broken = @ \cup {s}]
    /\ Goto("warm", "w_end")
    /\ UNCHANGED <<loop, turn, proc, home, records, call, stop>>

PrewarmEnd ==
    /\ at["warm"] = "w_end"
    /\ broker' = [broker EXCEPT !.preparer = NoSession, !.preparing = FALSE, !.ready = TRUE,
                                !.uncleaned = Uncleaned(care)]
    /\ Goto("warm", "w_off")
    /\ UNCHANGED <<worker, records, call, stop>>

WarmStep ==
    \/ PrewarmEnter \/ PrewarmWorker \/ PrewarmSubmit \/ PrewarmReady \/ PrewarmFails
    \/ PrewarmLost \/ PrewarmStop \/ PrewarmEnd

------------------------------------------------------------------------------
(* extract, _take_prepared and _run_request. *)

Blocked == broker.uncleaned \/ broker.broken # {} \/ broker.aborted

\* The spare session is taken; one that idled too long or lost its process is closed.
ExtractEnter ==
    /\ at["req"] = "r_idle" /\ broker.ready /\ call.left > 0
    /\ LET refused == Blocked \/ broker.busy \/ broker.active # NoSession
           s == broker.prepared
           taken == [broker EXCEPT !.busy = TRUE, !.prepared = NoSession]
           begun == [call EXCEPT !.left = @ - 1, !.answer = FALSE, !.prepared = FALSE]
       IN  \/ refused /\ Calm /\ call' = begun /\ UNCHANGED <<broker, threads>>
          \/ /\ ~refused /\ Trip("boundary") /\ call' = begun
             /\ broker' = [broker EXCEPT !.busy = TRUE] /\ Goto("req", "r_leave")
          \/ /\ ~refused /\ s # NoSession /\ Calm /\ call' = begun
             /\ broker' = taken /\ Finish("req", s, "r_schedule")
          \/ /\ ~refused /\ (s # NoSession => TransportAlive(s)) /\ Calm
             /\ call' = [begun EXCEPT !.prepared = s # NoSession]
             /\ broker' = taken /\ GotoWith("req", "r_schedule", s, 0)
    /\ UNCHANGED <<loop, turn, proc, home, records, stop>>

\* A new spare session is ordered; the request goes on unless the broker is blocked by now.
SchedulePrewarm ==
    /\ at["req"] = "r_schedule"
    /\ LET next == [at EXCEPT !["warm"] = IF MayPrewarm /\ @ = "w_off" THEN "w_enter" ELSE @]
           back == IF Blocked THEN "r_leave" ELSE "r_claim"
       IN  IF Blocked /\ call.prepared
           THEN /\ at' = [next EXCEPT !["req"] = "f_claim"]
                /\ on' = [on EXCEPT !["req"].back = back]
           ELSE at' = [next EXCEPT !["req"] = back] /\ UNCHANGED on
    /\ UNCHANGED <<worker, broker, records, call, stop>>

\* _run_request takes the spare session's worker or makes its own, unless aborted by now.
ClaimWorker ==
    /\ at["req"] = "r_claim"
    /\ \E s \in Sessions :
         /\ IF call.prepared THEN s = on["req"].s /\ UNCHANGED <<loop, turn>> ELSE NewWorker(s)
         /\ IF broker.aborted \/ broker.active # NoSession
            THEN /\ IF call.prepared THEN Finish("req", s, "r_check")
                    ELSE GotoWith("req", "r_unused", s, 0)
                 /\ UNCHANGED broker
            ELSE /\ broker' = [broker EXCEPT !.active = s]
                 /\ GotoWith("req", "r_submit", s, loop[s].submitted + 1)
    /\ UNCHANGED <<proc, home, faults, records, call, stop>>

UnusedWorker ==
    /\ at["req"] = "r_unused"
    /\ LET s == on["req"].s IN
       \/ loop[s].phase = "running" /\ Stopping(s) /\ Calm /\ UNCHANGED <<at, on, broker>>
       \/ /\ loop[s].phase # "running" /\ UNCHANGED <<loop, turn>>
          /\ \/ Joined(s) /\ UNCHANGED broker
             \/ Outlives(s) /\ broker' = [broker EXCEPT !.broken = @ \cup {s}]
          /\ Goto("req", "r_check")
    /\ UNCHANGED <<proc, home, records, call, stop>>

SubmitRequest ==
    /\ at["req"] = "r_submit"
    /\ Submit(on["req"].s, IF call.prepared THEN "send" ELSE "fresh")
    /\ Goto("req", "r_wait")
    /\ UNCHANGED <<proc, home, faults, broker, records, call, stop>>

\* The turn is over for this thread: claims, none, an error or a deadline.
RequestAnswered ==
    /\ at["req"] = "r_wait"
    /\ LET s == on["req"].s
           g == on["req"].g
           retained == care[s].list = "failed"
       IN  /\ Answered(s, g)
           /\ \E claims \in BOOLEAN :
                /\ claims => Answer(s, g) = "ok"
                /\ call' = [call EXCEPT !.answer = claims,
                       !.timedOut = Answer(s, g) = "timeout",
                       !.lost = event[s].started /\ ~event[s].succeeded /\ ~retained]
           /\ Goto("req", IF retained THEN "r_kept" ELSE "r_stop")
    /\ UNCHANGED <<worker, broker, records, stop>>

\* The worker is stopped, unless its session is kept for a later cleanup.
StopRequestWorker ==
    /\ at["req"] = "r_stop" /\ loop[on["req"].s].phase = "running"
    /\ Stopping(on["req"].s)
    /\ UNCHANGED <<proc, home, faults, threads, broker, records, call, stop>>

RequestSettled ==
    /\ at["req"] \in {"r_kept", "r_stop"}
    /\ LET s == on["req"].s IN
       /\ \/ at["req"] = "r_kept" /\ Calm
          \/ at["req"] = "r_stop" /\ loop[s].phase # "running" /\ (Joined(s) \/ Outlives(s))
       /\ broker' = [broker EXCEPT
              !.uncleaned = @ \/ call.lost,
              !.broken = IF at["req"] = "r_stop" /\ ~Stopped(s) THEN @ \cup {s} ELSE @,
              !.active = IF at["req"] = "r_stop" /\ Stopped(s) /\ @ = s THEN NoSession ELSE @]
       /\ call' = [call EXCEPT !.answer = @ /\ ~broker.aborted,
                               !.timedOut = @ /\ ~broker.aborted]
    /\ Goto("req", "r_check")
    /\ UNCHANGED <<loop, turn, proc, home, records, stop>>

\* A spare session that gave no claims is retried once on a fresh one.
ExtractCheck ==
    /\ at["req"] = "r_check"
    /\ IF broker.uncleaned \/ broker.broken # {}
       THEN call' = [call EXCEPT !.answer = FALSE] /\ Goto("req", "r_leave")
       ELSE IF call.prepared /\ ~call.answer /\ ~call.timedOut /\ ~broker.aborted
       THEN call' = [call EXCEPT !.prepared = FALSE] /\ Goto("req", "r_claim")
       ELSE Goto("req", "r_leave") /\ UNCHANGED call
    /\ UNCHANGED <<worker, broker, records, stop>>

ExtractLeave ==
    /\ at["req"] = "r_leave"
    /\ broker' = [broker EXCEPT !.busy = FALSE]
    /\ Goto("req", "r_idle")
    /\ UNCHANGED <<worker, records, call, stop>>

ReqStep ==
    \/ ExtractEnter \/ SchedulePrewarm \/ ClaimWorker \/ UnusedWorker \/ SubmitRequest
    \/ RequestAnswered \/ StopRequestWorker \/ RequestSettled \/ ExtractCheck \/ ExtractLeave
------------------------------------------------------------------------------
(* abort: every wait ends with what it waits for, or once the deadline has passed. *)

Aborting == at["stop"] \notin {"a_idle", "a_over"}

DeadlinePasses ==
    /\ Aborting /\ ~stop.late /\ Trip("late")
    /\ stop' = [stop EXCEPT !.late = TRUE]
    /\ UNCHANGED <<loop, turn, proc, home, threads, broker, records, call>>

AbortEnter ==
    /\ at["stop"] = "a_idle" /\ broker.ready
    /\ broker' = [broker EXCEPT !.aborted = TRUE]
    /\ Goto("stop", "a_flag")
    /\ UNCHANGED <<worker, records, call, stop>>

\* abort gives a wait up and acknowledges nothing.
AbortLate ==
    /\ stop.late
    /\ \/ at["stop"] = "a_flag"
       \/ at["stop"] = "a_prepared" /\ broker.preparing
       \/ at["stop"] = "a_halt" /\ stop.todo = {} /\ broker.busy
    /\ stop' = [stop EXCEPT !.result = "no"]
    /\ Goto("stop", "a_over")
    /\ UNCHANGED <<worker, broker, records, call>>

\* What is in progress when nobody is between announcing work and naming its worker.
AbortSnapshot ==
    /\ at["stop"] = "a_flag"
    /\ ~(broker.preparing /\ broker.preparer = NoSession)
    /\ ~(broker.busy /\ broker.active = NoSession)
    /\ stop' = [stop EXCEPT !.preparer = broker.preparer, !.active = broker.active]
    /\ broker' = [broker EXCEPT !.prepared = NoSession]
    /\ IF broker.prepared # NoSession THEN Finish("stop", broker.prepared, "a_cancel")
       ELSE Goto("stop", "a_cancel")
    /\ UNCHANGED <<worker, records, call>>

\* cancel_active(completed_is_stopped=True) on one worker; it returns to step back.
CancelActive(s, back) ==
    IF AlreadyStopped(s) THEN Goto("stop", back) /\ UNCHANGED <<loop, turn, stop>>
    ELSE /\ stop' = [stop EXCEPT !.target = Target(s)]
         /\ at' = [at EXCEPT !["stop"] = IF Idle(s) THEN "a_sub" ELSE "a_cut"]
         /\ on' = [on EXCEPT !["stop"] = [s |-> s, g |-> 0, back |-> back]]
         /\ IF Idle(s) THEN Want(s) ELSE CancelTarget(s, Target(s))

CancelPreparation ==
    /\ at["stop"] = "a_cancel"
    /\ IF stop.preparer = NoSession
       THEN Goto("stop", "a_prepared") /\ UNCHANGED <<loop, turn, stop>>
       ELSE CancelActive(stop.preparer, "a_prepared")
    /\ UNCHANGED <<proc, home, faults, broker, records, call>>

CancelNext ==
    /\ at["stop"] = "a_sub"
    /\ LET s == on["stop"].s IN
       /\ loop[s].submitted >= stop.target \/ Stopped(s)
       /\ CancelTarget(s, stop.target)
    /\ Goto("stop", "a_cut")
    /\ UNCHANGED <<proc, home, faults, broker, records, call, stop>>

CancelEnds ==
    /\ at["stop"] \in {"a_sub", "a_cut"}
    /\ LET s == on["stop"].s
           over == loop[s].completed >= stop.target
       IN  /\ \/ at["stop"] = "a_cut" /\ (over \/ Stopped(s) \/ stop.late)
              \/ at["stop"] = "a_sub" /\ stop.late
           /\ stop' = [stop EXCEPT !.completed = over \/ on["stop"].back # "a_cleaned"]
    /\ Goto("stop", on["stop"].back)
    /\ UNCHANGED <<worker, broker, records, call>>

JoinPrewarm ==
    /\ at["stop"] = "a_prepared" /\ ~broker.preparing
    /\ at["warm"] = "w_off" \/ stop.late
    /\ stop' = [stop EXCEPT !.joined = at["warm"] = "w_off"]
    /\ Goto("stop", "a_inflight")
    /\ UNCHANGED <<worker, broker, records, call>>

AbortInflight ==
    /\ at["stop"] = "a_inflight" /\ (stop.late \/ \A s \in Sessions : ~Owned(s))
    /\ Promote(Sessions)
    /\ Goto("stop", "a_active")
    /\ UNCHANGED <<worker, spare, event, call, stop>>

CancelRequest ==
    /\ at["stop"] = "a_active"
    /\ IF stop.active = NoSession THEN Goto("stop", "a_cleaned") /\ UNCHANGED <<loop, turn, stop>>
       ELSE CancelActive(stop.active, "a_cleaned")
    /\ UNCHANGED <<proc, home, faults, broker, records, call>>

\* The started request's own cleanup is waited for.
AwaitCleanup ==
    /\ at["stop"] = "a_cleaned"
    /\ LET s == stop.active
           due == s # NoSession => (event[s].started => event[s].complete)
       IN  /\ due \/ stop.late
           /\ stop' = [stop EXCEPT !.cleaned = due, !.todo = Listed(care, "failed")]
    /\ Goto("stop", "a_retry")
    /\ UNCHANGED <<worker, broker, records, call>>

\* worker.stop with the time that is left.
WorkerEnds(s) ==
    \/ Joined(s) \/ Outlives(s)
    \/ stop.late /\ ~Stopped(s) /\ Calm

\* _retry_failed_cleanup of each failed one: its boundary, its home, its worker.
RetryCleanup ==
    /\ at["stop"] = "a_retry"
    /\ \E s \in stop.todo :
         /\ stop' = [stop EXCEPT !.todo = @ \ {s}]
         /\ IF care[s].closed \/ ~TransportAlive(s)
            THEN /\ care' = [care EXCEPT ![s].closed = TRUE]
                 /\ GotoWith("stop", "a_erase", s, 0) /\ UNCHANGED <<loop, turn>>
            ELSE /\ UNCHANGED care
                 /\ IF stop.late \/ ~Alive(s) THEN Goto("stop", "a_retry") /\ UNCHANGED <<loop, turn>>
                    ELSE /\ Submit(s, "close")
                         /\ GotoWith("stop", "a_close", s, loop[s].submitted + 1)
    /\ UNCHANGED <<proc, home, faults, broker, spare, event, call>>

RetryClosed ==
    /\ at["stop"] = "a_close" /\ Answered(on["stop"].s, on["stop"].g)
    /\ LET s == on["stop"].s IN
       IF Answer(s, on["stop"].g) = "ok" \/ ~TransportAlive(s)
       THEN care' = [care EXCEPT ![s].closed = TRUE] /\ Goto("stop", "a_erase")
       ELSE Goto("stop", "a_retry") /\ UNCHANGED care
    /\ UNCHANGED <<worker, broker, spare, event, call, stop>>

RetryErase ==
    /\ at["stop"] = "a_erase"
    /\ LET s == on["stop"].s IN
       \/ /\ Calm /\ home' = [home EXCEPT ![s] = "gone"]
          /\ care' = [care EXCEPT ![s].cleaned = TRUE]
          /\ Stopping(s) /\ Goto("stop", "a_drop")
       \/ /\ ~care[s].cleaned /\ Trip("home") /\ Goto("stop", "a_retry")
          /\ UNCHANGED <<loop, turn, home, care>>
    /\ UNCHANGED <<proc, broker, spare, event, call, stop>>

RetryDrop ==
    /\ at["stop"] = "a_drop"
    /\ LET s == on["stop"].s IN
       /\ WorkerEnds(s)
       /\ care' = [care EXCEPT ![s].list = IF Stopped(s) THEN "none" ELSE @]
       /\ broker' = [broker EXCEPT !.uncleaned = Uncleaned(care'),
                        !.broken = IF Stopped(s) THEN @ \ {s} ELSE @ \cup {s}]
    /\ Goto("stop", "a_retry")
    /\ UNCHANGED <<loop, turn, proc, home, spare, event, call, stop>>

\* The request's worker is stopped when its turn is over and its session clean.
AbortWorker ==
    /\ at["stop"] = "a_retry" /\ stop.todo = {}
    /\ LET s == stop.active
           remaining == s # NoSession /\ care[s].list = "failed"
           clean == stop.cleaned /\ ~remaining
           stops == s # NoSession /\ stop.completed /\ clean
       IN  /\ broker' = [broker EXCEPT
                  !.broken = IF s = NoSession \/ stops \/ remaining THEN @ ELSE @ \cup {s}]
           /\ stop' = [stop EXCEPT !.cleaned = clean, !.stopped = s = NoSession,
                                   !.todo = IF stops THEN @ ELSE broker'.broken]
           /\ IF stops THEN Stopping(s) /\ Goto("stop", "a_stop")
              ELSE Goto("stop", "a_halt") /\ UNCHANGED <<loop, turn>>
    /\ UNCHANGED <<proc, home, faults, records, call>>

AbortStop ==
    /\ at["stop"] = "a_stop"
    /\ LET s == stop.active IN
       /\ WorkerEnds(s)
       /\ broker' = [broker EXCEPT
              !.broken = IF Stopped(s) THEN @ \ {s} ELSE @ \cup {s},
              !.active = IF Stopped(s) /\ @ = s THEN NoSession ELSE @]
       /\ stop' = [stop EXCEPT !.stopped = Stopped(s), !.todo = broker'.broken]
    /\ Goto("stop", "a_halt")
    /\ UNCHANGED <<loop, turn, proc, home, records, call>>

\* The workers that could not be stopped before are tried once more.
HaltBroken ==
    /\ at["stop"] = "a_halt"
    /\ \E s \in stop.todo :
              IF loop[s].phase = "running"
              THEN Stopping(s) /\ UNCHANGED <<proc, home, faults, at, on, broker, stop>>
              ELSE /\ WorkerEnds(s)
                   /\ stop' = [stop EXCEPT !.todo = @ \ {s}]
                   /\ broker' = [broker EXCEPT
                          !.broken = IF Stopped(s) THEN @ \ {s} ELSE @,
                          !.active = IF Stopped(s) /\ @ = s THEN NoSession ELSE @]
                   /\ UNCHANGED <<loop, turn, proc, home, at, on>>
    /\ UNCHANGED <<records, call>>

\* Variant: the sessions on record are no reason to say no.
AllStopped_WorkersOnly ==
    /\ ~broker.preparing /\ broker.preparer = NoSession /\ ~broker.busy
    /\ broker.active = NoSession /\ broker.broken = {} /\ at["warm"] = "w_off"

AllStopped ==
    /\ ~broker.preparing /\ broker.preparer = NoSession /\ ~broker.busy
    /\ broker.active = NoSession /\ broker.broken = {} /\ ~Uncleaned(care)
    /\ at["warm"] = "w_off"

AbortJudge ==
    /\ at["stop"] = "a_halt" /\ stop.todo = {} /\ ~broker.busy
    /\ LET yes == stop.joined /\ stop.completed /\ stop.cleaned /\ stop.stopped /\ AllStopped
       IN  stop' = [stop EXCEPT !.result = IF yes THEN "yes" ELSE "no"]
    /\ broker' = [broker EXCEPT !.uncleaned = Uncleaned(care)]
    /\ Goto("stop", "a_over")
    /\ UNCHANGED <<worker, records, call>>

StopStep ==
    \/ DeadlinePasses \/ AbortEnter \/ AbortLate \/ AbortSnapshot \/ CancelPreparation
    \/ CancelNext \/ CancelEnds \/ JoinPrewarm \/ AbortInflight \/ CancelRequest
    \/ AwaitCleanup \/ RetryCleanup \/ RetryClosed \/ RetryErase \/ RetryDrop \/ AbortWorker
    \/ AbortStop \/ HaltBroken \/ AbortJudge

\* A thread gives up the turn it waits for; a worker that runs has begun it long before.
Waiting == {"f_close", "w_wait", "r_wait", "a_close"}
TurnDeadline(t) ==
    /\ at[t] \in Waiting
    /\ GiveUp(on[t].s, on[t].g)
    /\ \/ Dropped(on[t].s, on[t].g) /\ Calm
       \/ /\ turn[on[t].s][on[t].g].at # "queued"
          /\ IF t = "stop" /\ stop.late THEN Calm ELSE Trip("slow")
    /\ UNCHANGED <<proc, home, threads, broker, records, call, stop>>

ThreadStep ==
    \/ WarmStep \/ ReqStep \/ StopStep
    \/ \E t \in Threads : FinishStep(t) \/ TurnDeadline(t)

\* Everything has come to an end.
Rest == at["warm"] = "w_off" /\ at["req"] = "r_idle" /\ at["stop"] = "a_over"
Over == Rest /\ UNCHANGED vars

Next == SessionMoves \/ ThreadStep \/ Over

Spec == Init /\ [][Next]_vars

------------------------------------------------------------------------------
(* Properties. *)

\* The worker of a failed preparation whose own cleanup ended only after prewarm had given up
\* waiting for it: prewarm saw the cleanup retained and left the worker to a retry, but the
\* coroutine released it, and nobody stops the worker.
Abandoned(s) ==
    /\ turn[s] # <<>> /\ turn[s][1].kind = "prepare" /\ turn[s][1].future # "ok"
    /\ care[s].owner = "coroutine" /\ care[s].complete
    /\ at["warm"] \in {"w_end", "w_off"}

\* A session that was let go of: told to terminate, its home removed, its worker at rest or,
\* after two faults, abandoned.
LetGo(s) ==
    /\ proc[s].process # "alive" /\ home[s] # "there"
    /\ \/ loop[s].phase \in {"none", "stopped"}
       \/ loop[s].phase = "running" /\ Abandoned(s)

\* The one session that is lost: its request came to a worker that abort had stopped.
Asked(s) == {g \in DOMAIN turn[s] : turn[s][g].kind \in {"send", "fresh"}}
Refused(s) == Asked(s) # {} /\ ~event[s].started

\* "acknowledge only proven cleanup": when abort answers yes, every session was let go of
\* whose request reached its coroutine, or that had none.
AcknowledgedWorkReleased ==
    stop.result = "yes" => \A s \in Sessions : LetGo(s) \/ Refused(s)

\* Claims are handed out only after the session they came from is closed for good, and no
\* session is asked twice.
ClaimsAfterCleanup ==
    /\ at["req"] = "r_leave" /\ call.answer =>
           LET s == on["req"].s IN ~ProcessAlive(s) /\ home[s] = "gone" /\ Stopped(s)
    /\ \A s \in Sessions : Cardinality(Asked(s)) <= 1

\* Nothing is lost sight of: when no thread and no coroutine works, a session whose process
\* was never told to end, whose home is there or whose worker runs is the spare one or is
\* on record as not cleaned.
Quiet == at["warm"] = "w_off" /\ at["req"] = "r_idle" /\ ~Aborting
         /\ \A s \in Sessions : \A g \in DOMAIN turn[s] : ~Started(turn[s][g])
NothingForgotten ==
    Quiet => \A s \in Sessions :
        \/ LetGo(s) \/ broker.prepared = s \/ care[s].list # "none" \/ s \in broker.broken
        \/ broker.aborted /\ Refused(s)
=============================================================================
