-------------------------- MODULE MCReviewPipeline --------------------------
(* Small instances of ReviewPipeline for TLC, two side by side: a behaviour   *)
(* is one of the first, which meets every fault, or of Probes, which has more *)
(* exchanges and risks and meets only what concerns a probe.                  *)
EXTENDS ReviewPipeline

CONSTANTS r1, r2, \* risks
          ProbeExchanges, ProbeQueue, ProbeDeltas, ProbeRisks, ProbeReveals, ProbeFaults

VARIABLE part \* "faults" or "probes"

Probes == INSTANCE ReviewPipeline WITH
            MaxExchanges <- ProbeExchanges, MaxQueue <- ProbeQueue,
            Deltas <- ProbeDeltas, Risks <- ProbeRisks, Reveals <- ProbeReveals,
            Faults <- ProbeFaults

SecondAndThird == {2, 3}
LastOnly == {2}
\* One risk shows up with the first exchange, the other with the second.
FirstAndSecond == (r1 :> 1) @@ (r2 :> 2)
InSecond == r1 :> 2

BothInit == \/ part = "faults" /\ Init
            \/ part = "probes" /\ Probes!Init
BothNext == /\ UNCHANGED part
            /\ \/ part = "faults" /\ Next
               \/ part = "probes" /\ Probes!Next
BothWorkerStep == \/ part = "faults" /\ WorkerStep
                  \/ part = "probes" /\ Probes!WorkerStep
BothMainStep == \/ part = "faults" /\ MainStep
                \/ part = "probes" /\ Probes!MainStep
BothFairSpec == /\ BothInit /\ [][BothNext]_<<part, vars>>
                /\ WF_vars(BothWorkerStep) /\ WF_vars(BothMainStep)

\* The properties of ReviewPipeline, of whichever instance the behaviour is of.

\* The journal is a beginning of the complete review (ReviewsInOrder), and while the
\* controller calls itself sound its file can be read (JournalReadable).
JournalInOrder ==
    IF part = "faults" THEN TypeOK /\ ReviewsInOrder /\ JournalReadable
    ELSE Probes!ReviewsInOrder

\* ReleasedMeansReviewed: a clean stop has reviewed all exchanges and ended all probes.
CleanStopMeansReviewed ==
    IF part = "faults" THEN ReleasedMeansReviewed ELSE Probes!ReleasedMeansReviewed

\* ProbedOnce: a risk has one job, outcome and cancellation at most.
EveryRiskProbedOnce == IF part = "faults" THEN ProbedOnce ELSE Probes!ProbedOnce

\* NoRiskForgotten: with nothing left to do every risk that was found is settled.
EveryRiskSettled == IF part = "faults" THEN NoRiskForgotten ELSE Probes!NoRiskForgotten
=============================================================================
