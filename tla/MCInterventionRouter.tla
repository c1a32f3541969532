------------------------ MODULE MCInterventionRouter ------------------------
(* Small instances of InterventionRouter for TLC.  A run checks two side by   *)
(* side: a behaviour is one of the first, whose constants are the module's    *)
(* own, or of the second, whose constants are the Other ones.                 *)
EXTENDS InterventionRouter, TLC

CONSTANTS OtherIds, OtherSessions, OtherTarget, OtherOrchestrator, OtherWorkers,
          OtherScope, OtherFeatured, OtherMaxPending, OtherVerdicts, OtherSources,
          OtherFaults

VARIABLE part \* "first" or "other"

Other == INSTANCE InterventionRouter WITH
           Ids <- OtherIds, Sessions <- OtherSessions, Target <- OtherTarget,
           Orchestrator <- OtherOrchestrator, Workers <- OtherWorkers,
           Scope <- OtherScope, Featured <- OtherFeatured,
           MaxPending <- OtherMaxPending, Verdicts <- OtherVerdicts,
           Sources <- OtherSources, Faults <- OtherFaults

\* TLC computes a definition of constant level once for all uses of a module that is only
\* extended; InterventionPolicy is instantiated as well to have its definitions computed
\* for the constants at hand.
OtherPolicy == INSTANCE InterventionPolicy WITH
                 Ids <- OtherIds, Sessions <- OtherSessions, Target <- OtherTarget,
                 Orchestrator <- OtherOrchestrator, Workers <- OtherWorkers,
                 Scope <- OtherScope, Featured <- OtherFeatured

\* One worker session, or one conflict at each of two worker sessions.
OneTarget == [i \in {1} |-> "w1"]
TwoTargets == (1 :> "w1") @@ (2 :> "w2")

\* Probes of a critical finding, or of any finding.
BlockerOnly == {<<"blocker", "confirmed">>}
AllVerdicts == BlockerOnly \cup {<<"concern", "inconclusive">>, <<"concern", "confirmed">>}

\* One completion event in the ledger at a time, of every session or of one of two.
OneEach == [m \in Sessions |-> 1]
OrchestratorOnly == [m \in OtherSessions |-> IF m = "orch" THEN 1 ELSE 0]
NoneQueued == [m \in OtherSessions |-> 0]

\* Both instances have the same initial state but for the conflicts and sessions.
BothInit == \/ part = "first" /\ Init
            \/ part = "other" /\ Other!Init
BothNext == /\ UNCHANGED part
            /\ \/ part = "first" /\ Next
               \/ part = "other" /\ Other!Next
BothSpec == BothInit /\ [][BothNext]_<<part, vars>>
\* Fairness is asked of the first instance only.
BothFairSpec ==
    /\ BothSpec
    /\ WF_vars(part = "first" /\ Tick) /\ WF_vars(part = "first" /\ Poll)
    /\ \A m \in Sessions : WF_vars(part = "first" /\ FallbackEnds(m))

\* The properties of InterventionRouter, of whichever instance the behaviour is of.

\* Every copy of the router's state is one (TypeOK); the durable deltas replay to the one
\* in memory (DeltasReplayToRouter); the latch is not behind it (LatchCoversRouter); a
\* released run has an open blocker in none of them (ReleasedMeansResolved).
CopiesAgree ==
    IF part = "first"
    THEN TypeOK /\ DeltasReplayToRouter /\ LatchCoversRouter /\ ReleasedMeansResolved
    ELSE /\ Other!TypeOK /\ Other!DeltasReplayToRouter
         /\ Other!LatchCoversRouter /\ Other!ReleasedMeansResolved

\* ReleasedMeansResolved: no copy of the state of a released run holds an open blocker.
NoOpenBlockerReleased ==
    IF part = "first" THEN ReleasedMeansResolved ELSE Other!ReleasedMeansResolved

\* NothingForgotten: what a hook wrote during an outage is never lost.
NothingEverForgotten ==
    [][IF part = "first" THEN Remembered ELSE Other!Remembered]_<<part, vars>>

\* MovesAllowed: records only move along the allowed transitions.
MovesAlwaysAllowed ==
    [][IF part = "first" THEN AllowedMoves ELSE Other!AllowedMoves]_<<part, vars>>

\* DeadlineEndsMission, of the first instance: a blocker that held its session once does
\* not stay unresolved in a running Mission.
HeldBlockerEndsMission == part = "first" => DeadlineEndsMission
=============================================================================
