------------------------- MODULE InterventionRouter -------------------------
(***************************************************************************)
(* The router state of a run and its signed latch                          *)
(* (src/shadow_mission/router.py InterventionRouter and                    *)
(* InterventionLatchStore, hooks/hook_runtime.py, and the end of           *)
(* src/shadow_mission/runtime.py MissionRuntime.run).                      *)
(*                                                                         *)
(* The ledger's writer thread plans one event at a time: it reads the      *)
(* latch without its lock, appends the delta to events.jsonl and then      *)
(* commits it, writing the latch under the lock with the generation it     *)
(* read as the expected one.  A hook process whose request fails or takes  *)
(* too long advances the same latch on its own: lock, latch file, head     *)
(* file, unlock; it can be killed in between.  After the Mission the       *)
(* router takes over what the hooks left in the latch, applies late        *)
(* evidence, and the run is released or not.                               *)
(***************************************************************************)
EXTENDS InterventionPolicy, Sequences

CONSTANTS
    NoOne,      \* nobody holds the latch lock
    MaxTime,    \* bound of the clock
    MaxPending, \* bound, by session: its completion events in the ledger at once
    Verdicts,   \* what a probe can leave of a finding: <<level, probe>>
    Sources,    \* what somebody supplies: kinds of evidence, "cancel", "repair"
    Faults      \* which of "disk", "kill", "review", "survive" may happen

ASSUME RouterAssumption ==
    /\ NoOne \notin Sessions
    /\ MaxTime \in Nat /\ MaxTime >= HoldTime
    /\ MaxPending \in [Sessions -> Nat]
    /\ Verdicts \subseteq {"concern", "blocker"} \X {"inconclusive", "confirmed"}
    /\ <<"blocker", "inconclusive">> \notin Verdicts
    /\ Sources \subseteq Evidence \cup {"cancel", "repair"}
    /\ Faults \subseteq {"disk", "kill", "review", "survive"}

VARIABLES
    \* the signed pair on disk: each is the router state it was written for
    latch, head,
    lock,       \* the session whose hook holds the latch lock, or NoOne
    durable,    \* what replaying the durable deltas (ledger, then journal) gives
    router,     \* InterventionRouter._state
    writer,     \* the ledger's writer thread
    ledgerDown, \* EventLedger._degraded_reason is not None
    reviewDown, \* MissionReviewController._degraded_reason is not None
    inputs,     \* what the review pipeline hands to plan_response
    call,       \* the completion hook of each session
    pending,    \* completion events of each session that the ledger accepted
    alive,      \* the Mission's processes
    phase,      \* progress of MissionRuntime.run
    now         \* the clock

files == <<latch, head, lock>>
core  == <<durable, router, writer, ledgerDown>>
hooks == <<call, pending>>
run   == <<alive, phase, now>>
vars  == <<files, core, reviewDown, inputs, hooks, run>>

------------------------------------------------------------------------------
\* A completion event: when its hook made it and whether the hook still waits for the
\* answer.
Event == [at : 0..MaxTime, open : BOOLEAN]
NoEvent == [at |-> 0, open |-> FALSE]
Idle == [pc |-> "idle", seen |-> 0, next |-> EmptyState, session |-> NoOne,
         event |-> NoEvent]
Phases == {"running", "stopping", "drained", "reconciled", "settled", "released", "kept"}

TypeOK ==
    /\ latch \in RouterState /\ head \in RouterState /\ lock \in Sessions \cup {NoOne}
    /\ durable \in RouterState /\ router \in RouterState
    /\ writer \in [pc : {"idle", "commit"}, seen : Nat, next : RouterState,
                   session : Sessions \cup {NoOne}, event : Event]
    /\ ledgerDown \in BOOLEAN /\ reviewDown \in BOOLEAN
    /\ inputs \in Inputs
    /\ call \in [Sessions -> {"none", "waiting", "late"}]
    /\ pending \in [Sessions -> Seq(Event)]
    /\ \A m \in Sessions : Len(pending[m]) <= MaxPending[m]
    /\ alive \in BOOLEAN /\ phase \in Phases /\ now \in 0..MaxTime

Init ==
    /\ latch = EmptyState /\ head = EmptyState /\ lock = NoOne
    /\ durable = EmptyState /\ router = EmptyState
    /\ writer = Idle
    /\ ledgerDown = FALSE /\ reviewDown = FALSE
    /\ inputs = [finding |-> [i \in Ids |-> [level |-> "none", probe |-> "missing",
                                             support |-> 1]],
                 evidence |-> [i \in Ids |-> {}], cancelled |-> {},
                 assigned |-> [i \in Ids |-> NoWorker]]
    /\ call = [m \in Sessions |-> "none"]
    /\ pending = [m \in Sessions |-> <<>>]
    /\ alive = TRUE /\ phase = "running" /\ now = 0

------------------------------------------------------------------------------
(* The review pipeline feeds the router.                                   *)
Reviewing == phase \in {"running", "stopping"} /\ ~reviewDown

Report(i) ==
    /\ Reviewing /\ inputs.finding[i].level = "none"
    /\ inputs' = [inputs EXCEPT !.finding[i].level = "concern"]

Extend(i) ==
    /\ Reviewing /\ inputs.finding[i].level # "none"
    /\ inputs.finding[i].support < MaxSupport
    /\ inputs' = [inputs EXCEPT !.finding[i].support = @ + 1]

\* One probe per finding; a confirmed one makes a critical finding a blocker.
Probe(i) ==
    /\ Reviewing
    /\ inputs.finding[i].level = "concern" /\ inputs.finding[i].probe = "missing"
    /\ \E r \in Verdicts :
         inputs' = [inputs EXCEPT !.finding[i].level = r[1], !.finding[i].probe = r[2]]

\* Evidence is bound to an intervention whose guidance is out and was committed by an
\* earlier event; evidence that a termination was acknowledged comes from outside.
Bind(i) ==
    /\ Reviewing
    /\ \E kind \in (Sources \cap Evidence) \ inputs.evidence[i] :
         /\ \/ kind = "ack" /\ router[i].state = "delivered" /\ router[i].deliveries > 0
            \/ kind = "worker_ack" /\ router[i].state = "repair_assigned" /\ router[i].told
            \/ /\ kind \in {"diff", "test"}
               /\ router[i].state \in {"delivered", "acknowledged", "repair_assigned"}
               /\ router[i].deliveries > 0
            \/ kind = "termination_ack" /\ router[i].state \in Failed
         /\ inputs' = [inputs EXCEPT !.evidence[i] = @ \cup {kind}]

Cancel(i) ==
    /\ "cancel" \in Sources
    /\ Reviewing /\ router[i].state # "absent" /\ i \notin inputs.cancelled
    /\ inputs' = [inputs EXCEPT !.cancelled = @ \cup {i}]

\* The provider answers a repair request it has seen with a worker nobody uses.
AssignRepair(i) ==
    /\ "repair" \in Sources
    /\ Reviewing /\ router[i].state = "repair_requested" /\ inputs.assigned[i] = NoWorker
    /\ \E w \in Workers \ ({inputs.assigned[j] : j \in Ids} \cup {Target[j] : j \in Ids}) :
         inputs' = [inputs EXCEPT !.assigned[i] = w]

ReviewFails ==
    /\ Reviewing /\ "review" \in Faults
    /\ reviewDown' = TRUE
    /\ UNCHANGED <<files, core, inputs, hooks, run>>

Review ==
    /\ \E i \in Ids : \/ Report(i) \/ Extend(i) \/ Probe(i) \/ Bind(i)
                      \/ Cancel(i) \/ AssignRepair(i)
    /\ UNCHANGED <<files, core, reviewDown, hooks, run>>

\* A degraded controller plans with no findings and no probes.
GivenInputs ==
    IF reviewDown
    THEN [inputs EXCEPT !.finding = [i \in Ids |-> [level |-> "none", probe |-> "missing",
                                                    support |-> 1]]]
    ELSE inputs

------------------------------------------------------------------------------
(* The writer thread: plan and append, then commit.                        *)
Intact == latch = head

\* plan_response accepts the latch it reads: the state it knows, or that state
\* advanced by hooks during an outage.
Readable ==
    /\ Intact
    /\ \/ Gen(latch) = Gen(router) /\ latch = router
       \/ Gen(latch) > Gen(router) /\ OutageAdvance(router, latch)

\* The delta carries the records that differ from the authoritative state; replay
\* puts them into the state it has.
Delta(before, after) == {i \in Ids : before[i] # after[i]}
Replayed(s, before, after) == [i \in Ids |-> IF i \in Delta(before, after) THEN after[i] ELSE s[i]]

MayPlan == phase \in {"running", "stopping"} /\ writer.pc = "idle" /\ ~ledgerDown

\* The event is decided and its exchange appended, or either fails.
Planned(next, m, e) ==
    /\ Readable /\ ~Refused(latch, GivenInputs)
    /\ writer' = [pc |-> "commit", seen |-> Gen(latch), next |-> next, session |-> m, event |-> e]
    /\ durable' = Replayed(durable, router, next)
    /\ UNCHANGED ledgerDown

PlanFails ==
    /\ ~Readable \/ Refused(latch, GivenInputs) \/ "disk" \in Faults
    /\ ledgerDown' = TRUE
    /\ UNCHANGED <<durable, writer>>

PlanTool(m) ==
    /\ MayPlan /\ phase = "running" /\ alive
    /\ \/ \E chosen \in SUBSET (IF reviewDown THEN {} ELSE Ids), note \in BOOLEAN :
            LET s == Settle(latch, GivenInputs, m, FALSE)
            IN  Planned(IF note THEN s ELSE Guided(s, m, chosen), NoOne, NoEvent)
       \/ PlanFails
    /\ UNCHANGED <<files, router, reviewDown, inputs, hooks, run>>

PlanCompletion(m) ==
    /\ MayPlan /\ pending[m] # <<>>
    /\ LET e == Head(pending[m])
           s == Settle(latch, GivenInputs, m, TRUE)
       IN  Planned(Completed(s, m, e.at), m, e) \/ PlanFails
    /\ pending' = [pending EXCEPT ![m] = Tail(@)]
    /\ UNCHANGED <<files, router, reviewDown, inputs, call, run>>

\* InterventionLatchStore.write: lock, compare the generation, replace both files.
Unchanged == Gen(writer.next) <= writer.seen
\* Variant: the generation of the head file alone is compared.
Stale_ByHead == Gen(head) # writer.seen
Stale == ~Intact \/ Gen(latch) # writer.seen
WriteLatch(s) == latch' = s /\ head' = s /\ UNCHANGED lock
\* A write that raises has replaced no file, one file or both.
TornWrite(s) ==
    /\ "disk" \in Faults /\ lock = NoOne
    /\ latch' \in {latch, s}
    /\ head' \in {head, latch'}
    /\ UNCHANGED lock

\* The session that waits for this event is answered, or its hook has just given up.
Answer ==
    IF writer.event.open /\ call[writer.session] = "waiting"
    THEN \E c \in {"none", "late"} : call' = [call EXCEPT ![writer.session] = c]
    ELSE UNCHANGED call

\* Variant: the router's state moves on without the latch.
Commit_RouterOnly ==
    /\ writer.pc = "commit"
    /\ UNCHANGED files
    /\ router' = writer.next
    /\ Answer
    /\ writer' = Idle
    /\ UNCHANGED <<durable, ledgerDown, reviewDown, inputs, pending, run>>

Commit ==
    /\ writer.pc = "commit"
    /\ \/ Unchanged /\ UNCHANGED files
       \/ ~Unchanged /\ lock = NoOne /\ ~Stale /\ WriteLatch(writer.next)
    /\ router' = writer.next
    /\ Answer
    /\ writer' = Idle
    /\ UNCHANGED <<durable, ledgerDown, reviewDown, inputs, pending, run>>

\* The write found another generation, could not get the lock in time, or raised.
CommitFails ==
    /\ writer.pc = "commit" /\ ~Unchanged
    /\ \/ (lock # NoOne \/ Stale) /\ UNCHANGED files
       \/ ~Stale /\ TornWrite(writer.next)
    /\ ledgerDown' = TRUE
    /\ writer' = Idle
    /\ UNCHANGED <<durable, router, reviewDown, inputs, hooks, run>>

\* An event queued in a degraded ledger is rejected.
Reject(m) ==
    /\ ledgerDown /\ pending[m] # <<>>
    /\ pending' = [pending EXCEPT ![m] = Tail(@)]
    /\ UNCHANGED <<files, core, reviewDown, inputs, call, run>>

------------------------------------------------------------------------------
(* Sessions and their completion hooks.                                    *)
\* A session tries to stop; its event reaches the ledger or not.
Stop(m) ==
    /\ alive /\ phase = "running" /\ call[m] = "none"
    /\ call' = [call EXCEPT ![m] = "waiting"]
    /\ \/ UNCHANGED pending
       \/ /\ ~ledgerDown /\ Len(pending[m]) < MaxPending[m]
          /\ pending' = [pending EXCEPT ![m] =
                            Append(@, [at |-> now, open |-> TRUE])]
    /\ UNCHANGED <<files, core, reviewDown, inputs, run>>

\* The hook of this session no longer waits.
GiveUp(m) ==
    /\ call' = [call EXCEPT ![m] = "none"]
    /\ pending' = [pending EXCEPT ![m] = [k \in DOMAIN @ |-> [@[k] EXCEPT !.open = FALSE]]]

\* The hook blocks with nothing written: it cannot verify the latch, finds no blocker
\* of this session, or finds one that already failed.
Unverified(m) ==
    /\ call[m] # "none" /\ lock # m
    /\ \/ lock # NoOne \/ ~Intact
       \/ OutageCandidates(latch, m) = {}
       \/ OutageCandidates(latch, m) # {} /\ OutageAdvanced(latch, m, now) = latch
    /\ GiveUp(m)
    /\ UNCHANGED <<files, core, reviewDown, inputs, run>>

\* The hook records one blocked attempt, or the end of the Mission, in the latch file.
Fallback(m) ==
    /\ call[m] # "none" /\ lock = NoOne /\ Intact
    /\ OutageCandidates(latch, m) # {}
    /\ latch' = OutageAdvanced(latch, m, now)
    /\ latch' # latch
    /\ lock' = m
    /\ UNCHANGED <<head, core, reviewDown, inputs, hooks, run>>

\* It replaces the head and unlocks.
FallbackEnds(m) ==
    /\ lock = m
    /\ head' = latch /\ lock' = NoOne
    /\ GiveUp(m)
    /\ UNCHANGED <<latch, core, reviewDown, inputs, run>>

\* The hook process is killed (its time limit is two seconds); the lock goes with it.
HookKilled(m) ==
    /\ "kill" \in Faults /\ call[m] # "none"
    /\ lock' = IF lock = m THEN NoOne ELSE lock
    /\ GiveUp(m)
    /\ UNCHANGED <<latch, head, core, reviewDown, inputs, run>>

Tick ==
    /\ now < MaxTime /\ phase = "running"
    /\ now' = now + 1
    /\ UNCHANGED <<files, core, reviewDown, inputs, hooks, alive, phase>>

------------------------------------------------------------------------------
(* The end of the run.                                                     *)
\* The processes of the Mission are stopped, or some survive.
Ends ==
    /\ phase = "running"
    /\ phase' = "stopping"
    /\ alive' \in IF "survive" \in Faults THEN BOOLEAN ELSE {FALSE}
    /\ IF alive' THEN UNCHANGED <<lock, hooks>>
       ELSE /\ lock' = NoOne
            /\ call' = [m \in Sessions |-> "none"]
            /\ pending' = [m \in Sessions |->
                  [k \in DOMAIN pending[m] |-> [pending[m][k] EXCEPT !.open = FALSE]]]
    /\ UNCHANGED <<latch, head, core, reviewDown, inputs, now>>

\* Variant: only what has already failed ends the Mission.
TerminationRequired_NoDeadline ==
    TerminationDue(router) \/ reviewDown \/ lock # NoOne \/ ~Intact \/ TerminationDue(latch)

\* termination_required: the run polls the router, the latch and the controller.
TerminationRequired ==
    \/ TerminationDue(router) \/ reviewDown
    \/ lock # NoOne \/ ~Intact \/ TerminationDue(latch) \/ DeadlinePassed(latch, now)
Poll == TerminationRequired /\ Ends
MissionEnds == Ends

\* Collector and ledger stop once the accepted events are done; the review drains.
Drain ==
    /\ phase = "stopping"
    /\ writer.pc = "idle" /\ \A m \in Sessions : pending[m] = <<>>
    /\ phase' = "drained"
    /\ UNCHANGED <<files, core, reviewDown, inputs, hooks, alive, now>>

\* reconcile_final_outage of the router: journal the advance, then take it over.
TakeOutage ==
    /\ phase = "drained" /\ Readable
    /\ durable' = Replayed(durable, router, latch)
    /\ router' = latch
    /\ phase' = "reconciled"
    /\ UNCHANGED <<files, writer, ledgerDown, reviewDown, inputs, hooks, alive, now>>

\* reconcile_evidence: what was bound after the last event of its session.
Late == [i \in Ids |-> Evidenced(router[i], inputs.evidence[i])]
TakeEvidence ==
    /\ phase = "reconciled"
    /\ \/ Late = router /\ UNCHANGED <<files, durable, router>>
       \/ /\ Late # router /\ Intact /\ latch = router /\ lock = NoOne
          /\ durable' = Replayed(durable, router, Late)
          /\ WriteLatch(Late)
          /\ router' = Late
    /\ phase' = "settled"
    /\ UNCHANGED <<writer, ledgerDown, reviewDown, inputs, hooks, alive, now>>

\* Either reconciliation fails: the latch is not what the router expects, the journal
\* cannot be written, or the latch cannot be after the journal was.
ReconcileFails ==
    /\ \/ /\ phase = "drained"
          /\ ~Readable \/ "disk" \in Faults
          /\ UNCHANGED <<files, durable>>
       \/ /\ phase = "reconciled" /\ Late # router
          /\ ~Intact \/ latch # router \/ "disk" \in Faults
          /\ UNCHANGED <<files, durable>>
       \/ /\ phase = "reconciled" /\ Late # router
          /\ durable' = Replayed(durable, router, Late)
          /\ \/ alive /\ UNCHANGED files
             \/ Intact /\ latch = router /\ TornWrite(Late)
    /\ reviewDown' = TRUE
    /\ phase' = "settled"
    /\ UNCHANGED <<router, writer, ledgerDown, inputs, hooks, alive, now>>

\* Variant: an outcome that does not ask whether blockers are open.
Releasable_OpenBlockers ==
    /\ ~alive /\ ~ledgerDown /\ ~reviewDown
    /\ ~TerminationDue(router)
    /\ Intact /\ ~TerminationDue(latch) /\ ~DeadlinePassed(latch, now)

\* The outcome: everything that could not be established keeps the run from release.
Releasable ==
    /\ ~alive /\ ~ledgerDown /\ ~reviewDown
    /\ ~TerminationDue(router) /\ ~CompletionBlocked(router)
    /\ Intact /\ ~TerminationDue(latch) /\ ~DeadlinePassed(latch, now)
    /\ ~CompletionBlocked(latch)
Conclude ==
    /\ phase = "settled"
    /\ phase' = IF Releasable THEN "released" ELSE "kept"
    /\ alive' = FALSE
    /\ call' = [m \in Sessions |-> "none"]
    /\ UNCHANGED <<files, core, reviewDown, inputs, pending, now>>

Next ==
    \/ Review \/ ReviewFails
    \/ \E m \in Sessions \cup Workers : PlanTool(m)
    \/ \E m \in Sessions : PlanCompletion(m) \/ Reject(m) \/ Stop(m) \/ Unverified(m)
                           \/ Fallback(m) \/ FallbackEnds(m) \/ HookKilled(m)
    \/ Commit \/ CommitFails
    \/ Tick \/ Poll \/ MissionEnds
    \/ Drain \/ TakeOutage \/ TakeEvidence \/ ReconcileFails \/ Conclude

Spec == Init /\ [][Next]_vars
\* The clock advances, the run polls for termination, and a hook that holds the lock
\* finishes or dies.
FairSpec == /\ Spec /\ WF_vars(Tick) /\ WF_vars(Poll)
            /\ \A m \in Sessions : WF_vars(FallbackEnds(m))

------------------------------------------------------------------------------
\* The latch is never behind the router: while its two files agree each of its records is
\* the router's, or that one advanced by hooks alone; the only other content is a record
\* that is durable and whose commit failed.
LatchCoversRouter ==
    Intact => \A i \in Ids :
      \/ ExtendedByHooks(router[i], latch[i])
      \/ (ledgerDown \/ reviewDown) /\ ExtendedByHooks(durable[i], latch[i])

\* While nothing has failed the durable deltas replay to exactly the router's state, or
\* to the one that is being committed.
DeltasReplayToRouter ==
    ~ledgerDown /\ ~reviewDown =>
      durable = (IF writer.pc = "commit" THEN writer.next ELSE router)

\* A run is released only when every blocker that was ever made durable, seen by the
\* router or written to the latch is resolved or its termination acknowledged.
ReleasedMeansResolved ==
    phase = "released" =>
      \A s \in {durable, router, latch, head} : ~CompletionBlocked(s) /\ ~TerminationDue(s)

\* What a hook process wrote into the latch during an outage is never lost: attempts
\* and generations only grow and a failed intervention stays failed until its
\* termination is acknowledged.
Remembered ==
    \A i \in Ids :
      /\ latch'[i].n >= latch[i].n
      /\ latch'[i].attempts >= latch[i].attempts
      /\ latch'[i].outage >= latch[i].outage
      /\ latch[i].state \in Failed =>
           latch'[i].state \in {latch[i].state, "termination_acknowledged"}
NothingForgotten == [][Remembered]_vars

\* Whatever the number of transitions in one step, a record only moves along the
\* allowed transitions.
ReachableFrom(S) == S \cup {p[2] : p \in {q \in Allowed : q[1] \in S}}
AllowedMoves ==
    \A i \in Ids :
      router'[i].state \in ReachableFrom(ReachableFrom(ReachableFrom({router[i].state})))
MovesAllowed == [][AllowedMoves]_vars

\* A blocker that held its session once does not stay unresolved in a running Mission.
DeadlineEndsMission ==
    \A i \in Ids : (Blocking(latch[i]) /\ latch[i].deadline \in 1..MaxTime)
                     ~> (~Blocking(latch[i]) \/ phase # "running")

\* A hook that advances the latch while the ledger plans or commits an event is taken
\* over by the next event (test_outage_advance_is_reconciled_into_next_replayable_delta,
\* and "the hook runtime's narrow contiguous outage advance" of
\* _reconcile_outage_advance): without a fault of disk or process no advance degrades
\* the ledger.
OutagesNeverDegradeTheLedger == Faults = {} => ~ledgerDown
=============================================================================
