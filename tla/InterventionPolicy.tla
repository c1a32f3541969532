------------------------- MODULE InterventionPolicy -------------------------
(***************************************************************************)
(* The intervention life cycle (src/shadow_mission/router.py): what one    *)
(* hook event does to the interventions of a run, and what the hook        *)
(* process does to the signed latch when the collector is unreachable      *)
(* (hooks/hook_runtime.py).  Everything here is a function of its          *)
(* arguments; InterventionRouter holds the state.                          *)
(*                                                                         *)
(* An intervention is one conflict at one target session.  Its record      *)
(* carries its whole transition history; here the history is abstracted    *)
(* to the number n of its transitions and the number of those that a hook  *)
(* process appended during an outage.  Every transition takes one router   *)
(* generation, so the generation of a state is the sum of the n.           *)
(***************************************************************************)
EXTENDS Naturals, FiniteSets, FiniteSetsExt

CONSTANTS
    Ids,           \* interventions, numbered in the order of their identifiers
    Sessions,      \* session aliases of workers and of the orchestrator
    Target,        \* intervention -> the session whose conflict it is
    Orchestrator,  \* the session with the orchestrator role
    Workers,       \* fresh sessions a repair may be assigned to
    NoWorker,      \* no repair assignment
    Scope,         \* _blocking_scope(): "worker" or "mission"
    Featured,      \* interventions whose original feature is known
    HoldTime,      \* 600 seconds
    MaxDeliveries, \* _MAX_GUIDANCE_DELIVERIES: 3
    MaxSupport     \* bound: how often the evidence of a finding grows

ASSUME PolicyAssumption ==
    /\ Ids \subseteq Nat \ {0} /\ IsFiniteSet(Ids)
    /\ Target \in [Ids -> Sessions]
    /\ Orchestrator \in Sessions
    /\ NoWorker \notin Workers
    /\ Scope \in {"worker", "mission"}
    /\ Featured \subseteq Ids
    /\ HoldTime \in Nat \ {0}
    /\ MaxDeliveries \in Nat \ {0}
    /\ MaxSupport \in Nat \ {0}

------------------------------------------------------------------------------
States == {"absent", "queued", "delivered", "acknowledged", "resolved", "expired",
           "quarantined", "repair_requested", "repair_assigned",
           "termination_acknowledged"}
Nonblocking == {"resolved", "termination_acknowledged"}
Failed == {"expired", "quarantined"}
Closed == Nonblocking \cup Failed \cup {"absent"}
MaxAttempts == 2

\* The moves of a record that is stored; "corrected" is always left within the
\* step that enters it, and "absent" stands for a record not yet created.
Allowed ==
    {<<"absent", "queued">>, <<"queued", "delivered">>, <<"queued", "quarantined">>,
     <<"queued", "expired">>, <<"delivered", "acknowledged">>,
     <<"delivered", "corrected">>, <<"delivered", "repair_requested">>,
     <<"delivered", "quarantined">>, <<"delivered", "expired">>,
     <<"acknowledged", "corrected">>, <<"acknowledged", "repair_requested">>,
     <<"acknowledged", "quarantined">>, <<"acknowledged", "expired">>,
     <<"corrected", "resolved">>, <<"corrected", "quarantined">>,
     <<"repair_requested", "repair_assigned">>, <<"repair_requested", "quarantined">>,
     <<"repair_requested", "expired">>, <<"repair_assigned", "acknowledged">>,
     <<"repair_assigned", "corrected">>, <<"repair_assigned", "quarantined">>,
     <<"repair_assigned", "expired">>, <<"expired", "termination_acknowledged">>,
     <<"quarantined", "termination_acknowledged">>}

\* InterventionRecord: the fields a decision depends on.  deadline is 0 when unset.
Record == [state : States, level : {"concern", "blocker"},
           probe : {"missing", "inconclusive", "confirmed"}, support : 1..MaxSupport,
           attempts : 0..MaxAttempts, deadline : Nat, deliveries : Nat,
           worker : Workers \cup {NoWorker}, told : BOOLEAN, marked : BOOLEAN,
           proof : SUBSET {"diff", "test"}, n : Nat, outage : Nat]
Unborn == [state |-> "absent", level |-> "concern", probe |-> "missing", support |-> 1,
           attempts |-> 0, deadline |-> 0, deliveries |-> 0, worker |-> NoWorker,
           told |-> FALSE, marked |-> FALSE, proof |-> {}, n |-> 0, outage |-> 0]

\* InterventionRouterState and its generation.
RouterState == [Ids -> Record]
EmptyState == [i \in Ids |-> Unborn]
Transitions(s) == UNION {{i} \X (1 .. s[i].n) : i \in Ids}
Gen(s) == Cardinality(Transitions(s))

\* _mutate: one more transition, into state st.
Move(r, st) == [r EXCEPT !.state = st, !.n = @ + 1]

Completion(i) == IF Scope = "worker" THEN Target[i] ELSE Orchestrator
ActiveSession(i, r) == IF r.worker = NoWorker THEN Target[i] ELSE r.worker
Blocking(r) == r.level = "blocker" /\ r.state \notin Nonblocking \cup {"absent"}
Overdue(r, at) == r.attempts >= MaxAttempts \/ (r.deadline # 0 /\ at >= r.deadline)
\* One more blocked completion; the first one starts the deadline.
Held(r, at) == [r EXCEPT !.attempts = @ + 1, !.n = @ + 1,
                         !.deadline = IF @ = 0 THEN at + HoldTime ELSE @]

------------------------------------------------------------------------------
(* plan_response, the part before the response: findings, cancellations,   *)
(* repair assignments and stored evidence, in this order.                  *)

\* A finding with its probe: level "none" until the rules report it, "blocker" when
\* its risk is critical and its authenticated probe confirmed it.
Findings == [level : {"none", "concern", "blocker"},
             probe : {"missing", "inconclusive", "confirmed"}, support : 1..MaxSupport]

\* What the controller hands to plan_response beside the event: findings, stored
\* evidence, cancelled interventions, repair assignments.
Evidence == {"ack", "worker_ack", "diff", "test", "termination_ack"}
Inputs == [finding : [Ids -> Findings], evidence : [Ids -> SUBSET Evidence],
           cancelled : SUBSET Ids, assigned : [Ids -> Workers \cup {NoWorker}]]

Queued(f) == [Unborn EXCEPT !.state = "queued", !.n = 1, !.support = f.support,
                            !.level = f.level, !.probe = f.probe]

\* A known conflict: all that changed is one transition of the same state.
Extended(r, f) ==
    LET grown == r.state \notin Nonblocking \cup Failed /\ r.support # f.support
        bound == f.probe \notin {"missing", r.probe}
        raised == r.level = "concern" /\ f.level = "blocker" /\ r.state \notin Nonblocking
    IN  IF grown \/ bound \/ raised
        THEN [Move(r, r.state) EXCEPT
                !.support = IF grown THEN f.support ELSE @,
                !.probe = IF bound THEN f.probe ELSE @,
                !.level = IF raised THEN "blocker" ELSE @]
        ELSE r

Routed(r, f) ==
    IF f.level = "none" THEN r
    ELSE IF r.state = "absent" THEN Queued(f) ELSE Extended(r, f)

Cancelled(r, c) == IF c /\ r.state \notin Closed THEN Move(r, "quarantined") ELSE r

Assigned(r, w) ==
    IF w # NoWorker /\ r.worker = NoWorker /\ r.state = "repair_requested"
    THEN [Move(r, "repair_assigned") EXCEPT !.worker = w] ELSE r

\* An assignment that finds its intervention in another state is a policy error.
AssignmentRefused(r, w, c) ==
    /\ w # NoWorker /\ r.worker = NoWorker
    /\ r.state # "repair_requested"
    /\ ~(c /\ r.state = "quarantined")

\* _apply_evidence_transitions for one record.  An acknowledgment counts from the
\* session that has the guidance now; a source change and a passing test may come
\* from any session, and only both together resolve.
Acknowledged(r, ev) ==
    LET ack == IF r.worker = NoWorker THEN "ack" ELSE "worker_ack" IN
    IF r.state \in {"delivered", "repair_assigned"} /\ ack \in ev
    THEN Move(r, "acknowledged") ELSE r

Corrected(before, r, ev) ==
    LET found == ev \cap {"diff", "test"} IN
    IF before \notin {"delivered", "acknowledged", "repair_assigned"} THEN r
    ELSE IF found = {"diff", "test"}
    THEN [Move(Move(r, "corrected"), "resolved") EXCEPT !.proof = found]
    ELSE IF found \subseteq r.proof THEN r
    ELSE [Move(r, r.state) EXCEPT !.proof = @ \cup found]

Evidenced(r, ev) ==
    IF r.state \in Failed /\ "termination_ack" \in ev
    THEN Move(r, "termination_acknowledged")
    ELSE IF r.state \in Closed THEN r
    ELSE Corrected(r.state, Acknowledged(r, ev), ev)

\* Evidence is applied for events of the session at work on the record, and on its
\* completion event; reconciliation at the end of the run has no session.
Concerns(i, r, session, completes) ==
    session = ActiveSession(i, r) \/ (completes /\ session = Completion(i))

Settle(s, in, session, completes) ==
    [i \in Ids |->
       LET c == i \in in.cancelled
           r == Assigned(Cancelled(Routed(s[i], in.finding[i]), c), in.assigned[i])
       IN  IF Concerns(i, r, session, completes) THEN Evidenced(r, in.evidence[i]) ELSE r]

Refused(s, in) ==
    \E i \in Ids :
       LET c == i \in in.cancelled
           r == Cancelled(Routed(s[i], in.finding[i]), c)
       IN  AssignmentRefused(r, in.assigned[i], c)

------------------------------------------------------------------------------
(* The response to a tool event: guidance for one intervention.            *)
Deliver(r) == [Move(r, "delivered") EXCEPT !.deliveries = @ + 1]
Tell(r) == [Move(r, r.state) EXCEPT !.told = TRUE]

\* chosen: interventions the delivery selector picked for this session.
FirstTime(s, session, chosen) ==
    {i \in chosen : s[i].state = "queued" /\ Target[i] = session}
Again(s, session, chosen) ==
    {i \in chosen : /\ s[i].state = "delivered" /\ Target[i] = session
                    /\ s[i].deliveries < MaxDeliveries}
ToRepairer(s, session) ==
    {i \in Ids : s[i].state = "repair_assigned" /\ s[i].worker = session /\ ~s[i].told}

Guided(s, session, chosen) ==
    LET one(S) == Min(S)
        first == FirstTime(s, session, chosen)
        again == Again(s, session, chosen)
        repair == ToRepairer(s, session)
    IN  IF first # {} THEN [s EXCEPT ![one(first)] = Deliver(@)]
        ELSE IF again # {} THEN [s EXCEPT ![one(again)] = Deliver(@)]
        ELSE IF repair # {} THEN [s EXCEPT ![one(repair)] = Tell(@)]
        ELSE s

------------------------------------------------------------------------------
(* The response to a completion event (_plan_completion): hold the session, *)
(* demand the end of the Mission, or let it stop.                           *)
Marked(s, session) ==
    [i \in Ids |->
       IF /\ Target[i] = session /\ s[i].state \notin Closed
          /\ s[i].probe = "missing" /\ ~s[i].marked
       THEN [Move(s[i], s[i].state) EXCEPT !.marked = TRUE] ELSE s[i]]

\* Acknowledged concerns keep their session at work for two attempts.
Holds(s, session, at) ==
    {i \in Ids : /\ s[i].level = "concern" /\ s[i].state = "acknowledged"
                 /\ ~Overdue(s[i], at) /\ Completion(i) = session}
Blockers(s, session) == {i \in Ids : Blocking(s[i]) /\ Completion(i) = session}
First(s, S, urgent(_)) ==
    LET U == {i \in S : urgent(s[i])} IN IF U # {} THEN Min(U) ELSE Min(S)

Requested(r) == Move(IF r.state = "queued" THEN Deliver(r) ELSE r, "repair_requested")
Blocked(i, r, at) ==
    IF Scope = "worker"
    THEN Held(IF r.state = "queued" THEN Deliver(r) ELSE r, at)
    ELSE IF r.state \in {"repair_requested", "repair_assigned"} THEN Held(r, at)
    ELSE IF i \in Featured THEN Held(Requested(r), at)
    ELSE Move(r, "quarantined")

\* Variant: what has failed is held again.
Decided_FailedAgain(i, r, at) ==
    IF Overdue(r, at) THEN Move(r, "expired") ELSE Blocked(i, r, at)
Decided(i, r, at) ==
    IF r.state \in Failed THEN r
    ELSE IF Overdue(r, at) THEN Move(r, "expired") ELSE Blocked(i, r, at)

Completed(s, session, at) ==
    LET m == Marked(s, session)
        holds == Holds(m, session, at)
        blockers == Blockers(m, session)
        i == First(m, blockers, LAMBDA r : r.state \in Failed)
    IN  IF holds # {} THEN [m EXCEPT ![Min(holds)] = Held(@, at)]
        ELSE IF blockers # {} THEN [m EXCEPT ![i] = Decided(i, @, at)]
        ELSE m

------------------------------------------------------------------------------
(* The outage: a hook process advances the latch on its own                *)
(* (_fallback_to_production_latch, _advance_outage_state).                 *)
OutageMove(r, now) ==
    LET stopped == Move(r, "expired")
        blocked == Held(IF r.state = "queued" THEN [r EXCEPT !.state = "delivered"] ELSE r, now)
    IN  IF r.state \in Failed THEN r
        ELSE [(IF Overdue(r, now) THEN stopped ELSE blocked) EXCEPT !.outage = @ + 1]

OutageCandidates(s, session) ==
    {i \in Blockers(s, session) : Scope = "worker" => Target[i] = session}
OutageAdvanced(s, session, now) ==
    LET i == First(s, OutageCandidates(s, session),
                   LAMBDA r : r.state \in Failed \/ Overdue(r, now))
    IN  [s EXCEPT ![i] = OutageMove(@, now)]

\* _reconcile_outage_advance: b was extended to a by hook transitions only.
ExtendedByHooks(b, a) ==
    LET added == a.n - b.n
        ended == b.state \notin Failed /\ a.state \in Failed
        blocked == IF ended THEN added - 1 ELSE added
        held == IF b.state = "queued" /\ blocked > 0 THEN "delivered" ELSE b.state
    IN  \/ a = b
        \/ /\ b.state # "absent" /\ a.n > b.n
           /\ a = [b EXCEPT !.state = IF ended THEN "expired" ELSE held,
                            !.n = @ + added, !.outage = @ + added,
                            !.attempts = @ + blocked,
                            !.deadline = IF @ = 0 /\ blocked > 0 THEN a.deadline ELSE @]
OutageAdvance(before, after) == \A i \in Ids : ExtendedByHooks(before[i], after[i])

\* What a run may not be released with (termination_required, completion_blocked).
TerminationDue(s) == \E i \in Ids : s[i].state \in Failed
DeadlinePassed(s, now) ==
    \E i \in Ids : Blocking(s[i]) /\ s[i].deadline # 0 /\ now >= s[i].deadline
CompletionBlocked(s) == \E i \in Ids : Blocking(s[i])
=============================================================================
