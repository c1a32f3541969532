------------------------------ MODULE LiveGate ------------------------------
(***************************************************************************)
(* What watches the paid Mission of the feasibility gate: the hooks of the *)
(* orchestrator and of worker A, the offline collector they post to, and   *)
(* the controller that answers them (live_control.py).  It blocks either   *)
(* session's completion until it corrects its work, and once, on purpose,  *)
(* stops the collector, so that the hooks must decide from the signed      *)
(* latch.  A request whose hook has given up is still handled when the     *)
(* collector comes back.  Worker B and the validator are left out: B's     *)
(* file says what it should.                                               *)
(***************************************************************************)
EXTENDS Naturals, FiniteSets

CONSTANTS
    Orch, Worker,   \* the two sessions
    RunId,          \* what the Mission's latch names
    NoLatch, NoOwner,
    MaxStops,       \* completions a session asks for
    MaxTroubles     \* failures and slow answers

ASSUME GateAssumption ==
    /\ Orch # Worker /\ {RunId, NoOwner} \cap {Orch, Worker} = {} /\ MaxStops \in Nat /\ MaxTroubles \in Nat

VARIABLES
    session,   \* each session: where it is, its hook, how often it was blocked;
               \* history: was it blocked from the Mission's latch in the outage
    log,       \* what each transcript holds that the controller looks for
    files,     \* worker-a.txt and mission-correction.txt
    reqs,      \* requests on their way: in the listen backlog, or in a thread
    server,    \* serving, pausing, paused
    signed,    \* the latch file
    ctl,       \* the controller
    troubles

gateVars == <<session, log, files, reqs, server, signed, ctl, troubles>>

Sessions == {Orch, Worker}
Completions == {"Stop", "SubagentStop"}
------------------------------------------------------------------------------
Blocker == [armed |-> FALSE, resolved |-> FALSE, released |-> FALSE, attempts |-> 0, old |-> FALSE]
GateInit ==
    /\ session = [s \in Sessions |-> [at |-> "start", n |-> 0, waiting |-> FALSE,
                                      stops |-> 0, blocks |-> 0, outage |-> FALSE]]
    /\ log = [s \in Sessions |-> {}] /\ files = [worker |-> "none", mission |-> FALSE]
    /\ reqs = {} /\ server = "serving" /\ signed = NoLatch /\ troubles = 0
    /\ ctl = [orch |-> NoOwner, workerA |-> NoOwner, given |-> 0, acked |-> FALSE, known |-> [s \in Sessions |-> {}],
              worker |-> Blocker, mission |-> Blocker, stops |-> 0, after |-> 0, base |-> FALSE, noticed |-> FALSE,
              ended |-> FALSE, errors |-> FALSE]

Trouble == troubles < MaxTroubles /\ troubles' = troubles + 1
Smooth == UNCHANGED troubles

------------------------------------------------------------------------------
(* The sessions and their hooks (hook_runtime.py).                           *)
EventOf(s) == CASE session[s].at = "start" -> "SessionStart"
                [] session[s].at = "prompt" -> "UserPromptSubmit"
                [] session[s].at = "tool" -> "PostToolUse"
                [] session[s].at = "stop" -> IF s = Orch THEN "Stop" ELSE "SubagentStop"
                [] OTHER -> "SessionEnd"

\* The worker runs while the orchestrator waits for it.
MayAct(s) == IF s = Worker THEN session[Orch].at = "wait" /\ session[s].at # "done"
             ELSE session[s].at \in {"start", "stop", "over"}

SendHook(s) ==
    /\ MayAct(s) /\ ~session[s].waiting /\ (session[s].at = "stop" => session[s].stops < MaxStops)
    /\ LET n == session[s].n + 1 IN
       /\ reqs' = reqs \cup {[by |-> s, event |-> EventOf(s), n |-> n, inside |-> FALSE]}
       /\ session' = [session EXCEPT ![s].n = n, ![s].waiting = TRUE,
                                     ![s].stops = IF session[s].at = "stop" THEN @ + 1 ELSE @]
    /\ files' \in (IF session[s].at = "tool" THEN {[files EXCEPT !.worker = u] : u \in {"dollars", "cents"}} ELSE {files})
    /\ Smooth /\ UNCHANGED <<log, server, signed, ctl>>

\* The hook answers its session: a completion goes on or is blocked.
After(s, blocked) ==
    CASE session[s].at = "start" -> IF s = Orch THEN "wait" ELSE "prompt"
      [] session[s].at = "prompt" -> "tool"
      [] session[s].at = "tool" -> "stop"
      [] session[s].at = "stop" -> IF blocked THEN "stop" ELSE "over"
      [] OTHER -> "done"
ToldAnd(s, blocked, outage) ==
    session' = [session EXCEPT ![s].at = After(s, blocked), ![s].waiting = FALSE, ![s].outage = outage,
                               ![s].blocks = IF blocked THEN @ + 1 ELSE @]
Told(s, blocked) == ToldAnd(s, blocked, session[s].outage)

\* _fallback_to_feasibility_latch: every completion is blocked; the marker is
\* for the latch that is active, in date, and names this session.
Matches(s) ==
    /\ signed # NoLatch /\ signed.fresh /\ signed.active /\ signed.target = s
    /\ EventOf(s) = IF signed.scope = "mission" THEN "Stop" ELSE "SubagentStop"
FallBackAnd(s, outage) ==
    /\ ToldAnd(s, EventOf(s) \in Completions, outage)
    /\ log' = [log EXCEPT ![s] = @ \cup IF Matches(s) THEN {"fallback"} ELSE {}]
FallBack(s) == FallBackAnd(s, session[s].outage)

\* No answer within 1.25 s; the request stays where it is.
MissionLatch == signed # NoLatch /\ signed.fresh /\ signed.active /\ signed.scope = "mission"
TimeOut(s) ==
    /\ session[s].waiting /\ Trouble /\ FallBack(s) /\ UNCHANGED <<files, reqs, server, signed, ctl>>

TimeOutInOutage(s) ==
    /\ session[s].waiting /\ server = "paused" /\ Smooth /\ UNCHANGED <<files, reqs, server, signed, ctl>>
    /\ \E r \in reqs : r.by = s /\ r.n = session[s].n /\ ~r.inside
    /\ LET outage == EventOf(s) = "Stop" /\ MissionLatch IN
       FallBackAnd(s, outage \/ session[s].outage)

Return(s) ==
    /\ s = Orch /\ session[s].at = "wait" /\ session[Worker].at \in {"over", "done"}
    /\ session' = [session EXCEPT ![s].at = "stop"]
    /\ Smooth /\ UNCHANGED <<log, files, reqs, server, signed, ctl>>

\* A session that was blocked corrects its work, and says that it did.
Correct(s) ==
    /\ session[s].at = "stop" /\ session[s].blocks > 0 /\ ~session[s].waiting
    /\ files' = IF s = Worker THEN [files EXCEPT !.worker = "cents"] ELSE [files EXCEPT !.mission = TRUE]
    /\ files' # files /\ Smooth /\ UNCHANGED <<session, log, reqs, server, signed, ctl>>

Say(s) ==
    /\ session[s].at = "stop" /\ session[s].blocks > 0 /\ ~session[s].waiting /\ "correction" \notin log[s]
    /\ log' = [log EXCEPT ![s] = @ \cup {"correction"}]
    /\ Smooth /\ UNCHANGED <<session, files, reqs, server, signed, ctl>>

------------------------------------------------------------------------------
(* OfflineCollector: the server, the pause, a request refused.               *)
Accept(r) ==
    /\ r \in reqs /\ ~r.inside /\ server # "paused" /\ reqs' = (reqs \ {r}) \cup {[r EXCEPT !.inside = TRUE]}
    /\ Smooth /\ UNCHANGED <<session, log, files, server, signed, ctl>>

Waits(r) == session[r.by].waiting /\ session[r.by].n = r.n

\* No worker free, the queue full, the writer failed or too slow: 503.
Decline(r) ==
    /\ r \in reqs /\ (r.inside \/ server # "paused") /\ reqs' = reqs \ {r} /\ Trouble
    /\ IF Waits(r) THEN FallBack(r.by) ELSE UNCHANGED <<session, log>>
    /\ UNCHANGED <<files, server, signed, ctl>>

Pause ==
    /\ server = "pausing" /\ server' = "paused" /\ Smooth
    /\ UNCHANGED <<session, log, files, reqs, signed, ctl>>
Resume ==
    /\ server = "paused" /\ server' = "serving" /\ Smooth
    /\ UNCHANGED <<session, log, files, reqs, signed, ctl>>

\* Ten minutes: the latch expires, and a blocker's retries are at an end.
TenMinutes ==
    /\ Trouble /\ signed # NoLatch /\ signed' = [signed EXCEPT !.fresh = FALSE]
    /\ ctl' = [ctl EXCEPT !.worker.old = ctl.worker.armed, !.mission.old = ctl.mission.armed]
    /\ UNCHANGED <<session, log, files, reqs, server>>

------------------------------------------------------------------------------
(* LiveGateController.handle, under its lock: each step maps the             *)
(* controller's state, the latch goes with it.                               *)
RoleOf(c, s) == IF c.orch = s THEN "orchestrator" ELSE IF c.workerA = s THEN "worker_a" ELSE "none"

\* _infer_role: the first session to start, its prompt unseen, is the orchestrator's.
InferRole(c, r) ==
    IF r.by \in {c.orch, c.workerA} THEN c
    ELSE IF r.event = "SessionStart" /\ c.orch = NoOwner THEN [c EXCEPT !.orch = r.by]
    ELSE IF r.event = "UserPromptSubmit" /\ r.by = Worker /\ c.workerA = NoOwner THEN [c EXCEPT !.workerA = r.by]
    ELSE c

ObserveAcknowledgment(c, s) ==
    IF c.given # 0 /\ c.workerA = s /\ "ack" \in c.known[s] THEN [c EXCEPT !.acked = TRUE] ELSE c

\* _observe_outage_retry: the marker of a fallback, at the first Stop after
\* the one that began the outage.
OutageDue(c, r) ==
    /\ c.after # 0 /\ ~c.noticed /\ r.event = "Stop" /\ RoleOf(c, r.by) = "orchestrator" /\ c.stops = c.after
OutageShown(c, r) == OutageDue(c, r) /\ ~c.base /\ "fallback" \in c.known[r.by]
ObserveOutageRetry(c, r) ==
    IF ~OutageShown(c, r) THEN c
    ELSE IF MissionLatch THEN [c EXCEPT !.noticed = TRUE] ELSE [c EXCEPT !.errors = TRUE]

Observed(r) ==
    LET read == [ctl EXCEPT !.known[r.by] = log[r.by]]
    IN  ObserveOutageRetry(ObserveAcknowledgment(InferRole(read, r), r.by), r)

\* Which blocker this event resolves or arms, if any.
\* Variant: what the worker says it has done is not looked up in its file.
Resolves_OnItsWord(c, r) ==
    IF "correction" \notin c.known[r.by] THEN "none"
    ELSE IF RoleOf(c, r.by) = "worker_a" /\ c.worker.armed /\ ~c.worker.resolved THEN "worker"
    ELSE IF RoleOf(c, r.by) = "orchestrator" /\ c.mission.armed /\ ~c.mission.resolved /\ files.mission
          THEN "mission"
    ELSE "none"
Resolves(c, r) ==
    IF "correction" \notin c.known[r.by] THEN "none"
    ELSE IF /\ RoleOf(c, r.by) = "worker_a" /\ c.worker.armed /\ ~c.worker.resolved
            /\ files.worker = "cents" THEN "worker"
    ELSE IF RoleOf(c, r.by) = "orchestrator" /\ c.mission.armed /\ ~c.mission.resolved /\ files.mission
          THEN "mission"
    ELSE "none"
Arms(c, r) ==
    IF r.event = "SubagentStop" /\ RoleOf(c, r.by) = "worker_a" /\ ~c.worker.armed /\ files.worker = "dollars" THEN "worker"
    ELSE IF r.event = "Stop" /\ RoleOf(c, r.by) = "orchestrator" /\ ~c.mission.armed /\ files.worker = "cents" THEN "mission"
    ELSE "none"
Latch(b, s, active) ==
    [scope |-> b, target |-> IF b = "mission" THEN RunId ELSE s, active |-> active, fresh |-> TRUE]

Resolved(c, b) == CASE b = "worker" -> [c EXCEPT !.worker.resolved = TRUE]
                    [] b = "mission" -> [c EXCEPT !.mission.resolved = TRUE]
                    [] OTHER -> c
StopSeen(c, r) == IF r.event = "Stop" THEN [c EXCEPT !.stops = @ + 1] ELSE c
\* Arming the Mission's blocker schedules the outage.
Armed(c, b, s) == CASE b = "worker" -> [c EXCEPT !.worker.armed = TRUE]
                    [] b = "mission" -> [c EXCEPT !.mission.armed = TRUE, !.after = c.stops,
                                                  !.base = ("fallback" \in c.known[s])]
                    [] OTHER -> c

\* _worker_completion, _mission_completion once armed: <<the state, blocked>>.
Completing(c, field) ==
    IF ~c[field].armed THEN <<c, FALSE>>
    ELSE IF c[field].resolved THEN <<[c EXCEPT ![field].released = TRUE], FALSE>>
    ELSE IF c[field].attempts >= 2 \/ c[field].old THEN <<[c EXCEPT !.errors = TRUE], FALSE>>
    ELSE <<[c EXCEPT ![field].attempts = @ + 1], TRUE>>
Completed(c, r) ==
    IF r.event = "SubagentStop" /\ RoleOf(c, r.by) = "worker_a" THEN Completing(c, "worker")
    ELSE IF r.event = "Stop" /\ RoleOf(c, r.by) = "orchestrator" THEN Completing(c, "mission")
    ELSE IF r.event = "SessionEnd" /\ RoleOf(c, r.by) = "worker_a" /\ c.worker.released THEN <<[c EXCEPT !.ended = TRUE], FALSE>>
    ELSE <<c, FALSE>>

Guides(c, r) == r.event = "PostToolUse" /\ RoleOf(c, r.by) = "worker_a" /\ c.given = 0

\* The hook that still waits passes the answer on; the worker acts on guidance.
Answer(r, blocked, guided) ==
    IF Waits(r) THEN /\ Told(r.by, blocked)
                     /\ log' = IF guided THEN [log EXCEPT ![r.by] = @ \cup {"ack"}] ELSE log
    ELSE UNCHANGED <<session, log>>

Handle(r) ==
    /\ r \in reqs /\ r.inside /\ reqs' = reqs \ {r} /\ Smooth /\ UNCHANGED files
    /\ LET c1 == Observed(r)
           c2 == Resolved(c1, Resolves(c1, r))
           c3 == StopSeen(c2, r)
           arms == Arms(c3, r)
           end == Completed(Armed(c3, arms, r.by), r)
       IN  IF c1.errors # ctl.errors
           THEN ctl' = c1 /\ Answer(r, r.event \in Completions, FALSE) /\ UNCHANGED <<server, signed>>
           ELSE /\ ctl' = IF Guides(c2, r) THEN [c2 EXCEPT !.given = r.n] ELSE end[1]
                /\ server' = IF arms = "mission" THEN "pausing" ELSE server
                /\ signed' = IF Resolves(c1, r) # "none" THEN Latch(Resolves(c1, r), r.by, FALSE)
                             ELSE IF arms # "none" THEN Latch(arms, r.by, TRUE)
                             ELSE signed
                /\ Answer(r, end[2], Guides(c2, r))

\* The transcript changed as it was read, or is not as it must be; or the
\* latch was not written: a gate error is recorded, any other leaves the
\* hook without an answer.
Unread(r) ==
    /\ r \in reqs /\ r.inside /\ reqs' = reqs \ {r} /\ Trouble
    /\ ctl' = [ctl EXCEPT !.errors = TRUE] /\ Answer(r, r.event \in Completions, FALSE)
    /\ UNCHANGED <<files, server, signed>>

Unwritten(r) ==
    /\ r \in reqs /\ r.inside /\ reqs' = reqs \ {r} /\ Trouble /\ UNCHANGED <<files, server, signed>>
    /\ LET c1 == Observed(r) IN
       /\ Resolves(c1, r) # "none" \/ Arms(c1, r) # "none"
       /\ LET c2 == IF Resolves(c1, r) # "none" THEN c1 ELSE StopSeen(c1, r) IN
          \/ ctl' = [c2 EXCEPT !.errors = TRUE] /\ Answer(r, r.event \in Completions, FALSE)
          \/ ctl' = c2 /\ IF Waits(r) THEN FallBack(r.by) ELSE UNCHANGED <<session, log>>

GateNext ==
    \/ \E s \in Sessions : SendHook(s) \/ TimeOut(s) \/ TimeOutInOutage(s) \/ Return(s) \/ Correct(s) \/ Say(s)
    \/ \E r \in reqs : Accept(r) \/ Decline(r) \/ Handle(r) \/ Unread(r) \/ Unwritten(r)
    \/ Pause \/ Resume \/ TenMinutes
GateSpec == GateInit /\ [][GateNext]_gateVars

------------------------------------------------------------------------------
GateTypeOK ==
    /\ \A s \in Sessions : session[s].stops \in 0 .. MaxStops /\ session[s].blocks <= session[s].n
    /\ \A s \in Sessions : log[s] \cup ctl.known[s] \subseteq {"fallback", "correction", "ack"}
    /\ server \in {"serving", "pausing", "paused"} /\ troubles \in 0 .. MaxTroubles
    /\ \A b \in {ctl.worker, ctl.mission} : b.attempts \in 0 .. 2 /\ (b.resolved => b.armed)
    /\ ctl.noticed \in BOOLEAN /\ (ctl.noticed => ctl.after # 0)

\* What the controller reports of worker A's blocker, as finalize does.
WorkerControls ==
    /\ ~ctl.errors /\ ctl.orch # NoOwner /\ ctl.workerA # NoOwner
    /\ ctl.worker.armed /\ ctl.worker.attempts >= 1 /\ ctl.worker.resolved /\ ctl.worker.released /\ ctl.ended

\* stop_blocker_behavior, the worker's half, passes only for a worker that was
\* really blocked, corrected its file and was let go: whichever requests came
\* late, were refused, or were handled after their hook had given up.
WorkerVerdictTrue ==
    WorkerControls =>
        /\ ctl.orch = Orch /\ ctl.workerA = Worker /\ files.worker = "cents" /\ "correction" \in log[Worker]
        /\ session[Worker].blocks > 0 /\ session[Worker].at \in {"over", "done"}
WorkerVerdict == GateTypeOK /\ WorkerVerdictTrue

\* "collector_loss_blocked": a Stop the hook blocked in the outage, from the
\* Mission's latch, is noticed when the collector is back and handles it.
OutageRetryNoticed ==
    session[Orch].outage /\ ctl.stops > ctl.after /\ ~ctl.errors => ctl.noticed
==============================================================================
