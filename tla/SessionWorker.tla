--------------------------- MODULE SessionWorker ---------------------------
(***************************************************************************)
(* What the two internal session brokers stand on (internal_session.py):   *)
(* a _LoopWorker, one thread with one event loop; the turns that are       *)
(* submitted to it, numbered by its generations; the confined Droid        *)
(* process and the private home of the one session the worker serves.      *)
(*                                                                         *)
(* A turn is a coroutine, one step per await.  Its future is what the      *)
(* submitting thread waits for: cancelling the future answers that thread  *)
(* at once, while the coroutine learns of it at its next await.            *)
(***************************************************************************)
EXTENDS Naturals, Sequences, FiniteSets

CONSTANTS
    MaxSessions,  \* sessions created during the behaviour
    Faults,       \* what can go wrong: see Trip
    MaxFaults     \* how often that happens

ASSUME WorkerAssumption ==
    MaxSessions \in Nat /\ MaxFaults \in Nat

VARIABLES
    loop,    \* per session: its worker
    turn,    \* per session: the turns submitted to its worker, by generation
    proc,    \* per session: its process and whether its transport is closing
    home,    \* per session: its private home directory
    faults   \* faults so far

worker == <<loop, turn, proc, home, faults>>

Sessions == 1..MaxSessions
NoSession == 0

Phases == {"none", "running", "stopping", "stopped"}
Kinds == {"prepare", "fresh", "send", "ask", "close"}
Steps == {"queued", "connect", "open", "turn", "claim", "session", "transport", "exit",
          "home", "done"}
Results == {"ok", "error", "cancelled", "timeout"}

Worker == [phase : Phases, submitted : Nat, completed : Nat, active : Nat, wanted : BOOLEAN]
Turn == [kind : Kinds, at : Steps, cut : {"no", "cancelled", "timeout"}, raised : Results,
         unclosed : BOOLEAN, future : Results \cup {"pending"}]

WorkerTypeOK ==
    /\ loop \in [Sessions -> Worker]
    /\ turn \in [Sessions -> Seq(Turn)]
    /\ proc \in [Sessions -> [process : {"none", "alive", "told", "dead"}, closing : BOOLEAN]]
    /\ home \in [Sessions -> {"none", "there", "gone"}]
    /\ faults \in 0..MaxFaults
    /\ \A s \in Sessions : /\ loop[s].submitted = Len(turn[s])
                           /\ loop[s].active <= loop[s].submitted
                           /\ loop[s].completed <= loop[s].submitted

WorkerInit ==
    /\ loop = [s \in Sessions |-> [phase |-> "none", submitted |-> 0, completed |-> 0,
                                   active |-> 0, wanted |-> FALSE]]
    /\ turn = [s \in Sessions |-> <<>>]
    /\ proc = [s \in Sessions |-> [process |-> "none", closing |-> FALSE]]
    /\ home = [s \in Sessions |-> "none"]
    /\ faults = 0

Trip(what) == what \in Faults /\ faults < MaxFaults /\ faults' = faults + 1
Calm == UNCHANGED faults

------------------------------------------------------------------------------
(* The worker, as its threads see it. *)

IsNew(s) == loop[s].phase = "none" /\ \A before \in 1..(s - 1) : loop[before].phase # "none"
ProcessAlive(s) == proc[s].process \in {"alive", "told"}
TransportAlive(s) == ProcessAlive(s) /\ ~proc[s].closing

Started(t) == t.at \notin {"queued", "done"}
Alive(s) == loop[s].phase \in {"running", "stopping"}
Stopped(s) == loop[s].phase = "stopped"

NewTurn(kind, at, future) ==
    [kind |-> kind, at |-> at, cut |-> "no", raised |-> "ok", unclosed |-> FALSE,
     future |-> future]

\* _mark_completed_locked.
Completed(l, g) ==
    [l EXCEPT !.completed = IF @ < g THEN g ELSE @, !.active = IF @ = g THEN 0 ELSE @]

\* future.cancel(): the waiting thread is answered; a coroutine that never started is
\* complete, another one is cut at its next await.
Cut(l, t, g, why) ==
    IF t[g].future # "pending" THEN [loop |-> l, turn |-> t]
    ELSE IF t[g].at = "queued"
         THEN [loop |-> Completed(l, g),
               turn |-> [t EXCEPT ![g].at = "done", ![g].future = why]]
         ELSE [loop |-> l, turn |-> [t EXCEPT ![g].cut = "cancelled", ![g].future = why]]

\* run, up to its wait.  A closed loop refuses the coroutine; a worker with a cancel
\* request spends it on this turn, whatever turn it was meant for.
Submission(s, kind) ==
    LET g == loop[s].submitted + 1
        l == [loop[s] EXCEPT !.submitted = g]
    IN  IF Stopped(s)
        THEN [loop |-> Completed(l, g), turn |-> Append(turn[s], NewTurn(kind, "done", "error"))]
        ELSE LET t == Append(turn[s], NewTurn(kind, "queued", "pending"))
             IN  IF l.wanted
                 THEN Cut([l EXCEPT !.active = g, !.wanted = FALSE], t, g, "cancelled")
                 ELSE [loop |-> [l EXCEPT !.active = g], turn |-> t]

Become(s, next) ==
    loop' = [loop EXCEPT ![s] = next.loop] /\ turn' = [turn EXCEPT ![s] = next.turn]

Submit(s, kind) == Become(s, Submission(s, kind))

\* The thread that waits for a turn gives up at its deadline: run cancels the turn and
\* raises.  A turn whose loop ended before it began has no other end.
Answer(s, g) == turn[s][g].future
Dropped(s, g) == Stopped(s) /\ Answer(s, g) = "pending"
GiveUp(s, g) == Answer(s, g) = "pending" /\ Become(s, Cut(loop[s], turn[s], g, "timeout"))

\* cancel_active: the target is the turn that runs or the next one that is submitted.
Idle(s) == loop[s].active = 0
AlreadyStopped(s) == Idle(s) /\ loop[s].submitted > 0 /\ loop[s].completed = loop[s].submitted
Target(s) == IF Idle(s) THEN loop[s].submitted + 1 ELSE loop[s].active
Want(s) == loop' = [loop EXCEPT ![s].wanted = TRUE] /\ UNCHANGED turn
CancelTarget(s, g) ==
    IF loop[s].active = g
    THEN Become(s, Cut([loop[s] EXCEPT !.wanted = FALSE], turn[s], g, "cancelled"))
    ELSE UNCHANGED <<loop, turn>>

\* stop, its first half: a turn that has not begun is cancelled, the others are cut; the
\* thread ends once they are over.
StopCut(l, t) ==
    LET g == l.submitted
        last == g \in DOMAIN t /\ t[g].at = "queued"
        cut == [i \in DOMAIN t |-> IF Started(t[i]) /\ t[i].cut = "no"
                                   THEN [t[i] EXCEPT !.cut = "cancelled"] ELSE t[i]]
    IN  IF last THEN Cut(l, cut, g, "cancelled") ELSE [loop |-> l, turn |-> cut]
Stopping(s) ==
    IF loop[s].phase = "running"
    THEN Become(s, StopCut([loop[s] EXCEPT !.phase = "stopping"], turn[s]))
    ELSE UNCHANGED <<loop, turn>>

LoopEnds(s) ==
    /\ loop[s].phase = "stopping" /\ \A g \in DOMAIN turn[s] : ~Started(turn[s][g])
    /\ loop' = [loop EXCEPT ![s].phase = "stopped"]
    /\ UNCHANGED <<turn, proc, home, faults>>

------------------------------------------------------------------------------
(* The coroutines. *)

At(s, g, step) == Alive(s) /\ turn[s][g].at = step
Whole(s, g) == turn[s][g].cut = "no"

\* The coroutine goes on to another step, with what it has raised so far.  A cut that
\* reached it is spent, one that is on its way stays.
Move(s, g, step, raised) ==
    /\ turn' = [turn EXCEPT ![s][g].at = step, ![s][g].raised = raised,
                            ![s][g].cut = IF raised \in {"cancelled", "timeout"} THEN "no" ELSE @]
    /\ UNCHANGED loop

\* The coroutine returns or raises: its future is answered, its generation complete.
Settle(s, g, raised) ==
    /\ turn' = [turn EXCEPT ![s][g].at = "done", ![s][g].raised = raised,
                            ![s][g].cut = "no",
                            ![s][g].future = IF @ = "pending" THEN raised ELSE @]
    /\ loop' = [loop EXCEPT ![s] = Completed(@, g)]

\* Where a coroutine goes that raised, or that has its answer: a request's coroutine closes
\* its session, one that only asks leaves that to its caller, and a preparation cleans up
\* after an error but not after a cancel.
Unwind(s, g, raised) ==
    IF turn[s][g].kind = "ask" \/ (turn[s][g].kind = "prepare" /\ raised # "error")
    THEN Settle(s, g, raised)
    ELSE Move(s, g, IF turn[s][g].kind = "prepare" THEN "claim" ELSE "session", raised)

\* A close turn begins; what the other ones do first is their broker's.
Begins(s, g) == loop[s].phase = "running" /\ turn[s][g].at = "queued"
BeginClose(s, g) ==
    /\ Begins(s, g) /\ turn[s][g].kind = "close"
    /\ Move(s, g, "session", "ok")
    /\ UNCHANGED <<proc, home, faults>>

\* wait_for's deadline, and the cancel that arrives at an await.
Expires(s, g) ==
    /\ Started(turn[s][g]) /\ Whole(s, g) /\ turn[s][g].kind # "close"
    /\ Trip("slow")
    /\ turn' = [turn EXCEPT ![s][g].cut = "timeout"]
    /\ UNCHANGED <<loop, proc, home>>

Interrupted(s, g) ==
    /\ ~Whole(s, g) /\ \E step \in {"connect", "open", "turn"} : At(s, g, step)
    /\ Unwind(s, g, turn[s][g].cut)
    /\ UNCHANGED <<proc, home, faults>>

\* transport.connect: the process is up before the await ends.
Connect(s, g) ==
    /\ At(s, g, "connect") /\ Whole(s, g)
    /\ \/ Calm /\ Move(s, g, "open", "ok")
       \/ Trip("prepare") /\ Unwind(s, g, "error")
    /\ proc' = [proc EXCEPT ![s].process = IF @ = "none" THEN "alive" ELSE @]
    /\ UNCHANGED home

\* create_session, open, _lock_down_tools and the collector's observation.
Open(s, g) ==
    /\ At(s, g, "open") /\ Whole(s, g)
    /\ \/ /\ TransportAlive(s) /\ Calm
          /\ IF turn[s][g].kind = "prepare" THEN Settle(s, g, "ok") ELSE Move(s, g, "turn", "ok")
       \/ ~TransportAlive(s) /\ Calm /\ Unwind(s, g, "error")
       \/ Trip("prepare") /\ Unwind(s, g, "error")
    /\ UNCHANGED <<proc, home>>

\* The model's turn with its checks before and after: a changed boundary raises.
Ask(s, g) ==
    /\ At(s, g, "turn") /\ Whole(s, g)
    /\ \/ TransportAlive(s) /\ Calm /\ Unwind(s, g, "ok")
       \/ ~TransportAlive(s) /\ Calm /\ Unwind(s, g, "error")
       \/ Trip("boundary") /\ Unwind(s, g, "error")
    /\ UNCHANGED <<proc, home>>

\* Where a coroutine goes after _close_boundary: a close turn ends here, and raises when
\* anything went wrong on the way.
Leave(s, g, wrong) ==
    LET unclosed == turn[s][g].unclosed \/ wrong
    IN  IF turn[s][g].kind = "close"
        THEN Settle(s, g, IF unclosed THEN "error" ELSE "ok")
        ELSE /\ turn' = [turn EXCEPT ![s][g].at = "home", ![s][g].cut = "no",
                                     ![s][g].unclosed = unclosed]
             /\ UNCHANGED loop

\* _close_boundary: the session's close; a cancel in it is kept as a cleanup error.
SessionClose(s, g) ==
    /\ At(s, g, "session")
    /\ IF proc[s].process = "none" THEN Leave(s, g, FALSE)
       ELSE /\ turn' = [turn EXCEPT ![s][g].at = "transport", ![s][g].cut = "no",
                                    ![s][g].unclosed = @ \/ ~Whole(s, g)]
            /\ UNCHANGED loop
    /\ UNCHANGED <<proc, home, faults>>

\* The transport's close terminates the process group; a second close at once returns.
Terminate(s, g) ==
    /\ At(s, g, "transport")
    /\ IF proc[s].closing THEN Leave(s, g, TRUE) /\ UNCHANGED proc
       ELSE /\ turn' = [turn EXCEPT ![s][g].at = "exit"]
            /\ proc' = [proc EXCEPT ![s] =
                   [process |-> IF @.process = "alive" THEN "told" ELSE @.process,
                    closing |-> TRUE]]
            /\ UNCHANGED loop
    /\ UNCHANGED <<home, faults>>

\* The group exits or is killed; a group may outlast the kill, a cancel spares it.
Reaped(s, g) ==
    /\ At(s, g, "exit") /\ Whole(s, g)
    /\ \/ /\ Calm /\ Leave(s, g, FALSE)
          /\ proc' = [proc EXCEPT ![s] = [process |-> "dead", closing |-> FALSE]]
       \/ /\ ProcessAlive(s) /\ Trip("unkillable") /\ Leave(s, g, TRUE)
          /\ proc' = [proc EXCEPT ![s].closing = FALSE]
    /\ UNCHANGED home

Spared(s, g) ==
    /\ At(s, g, "exit") /\ ~Whole(s, g) /\ Leave(s, g, TRUE)
    /\ proc' = [proc EXCEPT ![s].closing = FALSE]
    /\ UNCHANGED <<home, faults>>

\* A process ends by itself.
Exits(s) ==
    /\ ProcessAlive(s) /\ Trip("exit")
    /\ proc' = [proc EXCEPT ![s].process = "dead"]
    /\ UNCHANGED <<loop, turn, home>>

CoroutineStep(s, g) ==
    \/ BeginClose(s, g) \/ Expires(s, g) \/ Interrupted(s, g) \/ Connect(s, g) \/ Open(s, g)
    \/ Ask(s, g) \/ SessionClose(s, g) \/ Terminate(s, g) \/ Reaped(s, g) \/ Spared(s, g)

SessionStep(s) ==
    LoopEnds(s) \/ Exits(s) \/ \E g \in DOMAIN turn[s] : CoroutineStep(s, g)
=============================================================================
