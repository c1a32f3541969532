------------------------------ MODULE MCSessions ------------------------------
(* The two brokers of internal model sessions, checked side by side over the  *)
(* same session workers: a behaviour is one of ExtractionBroker or one of     *)
(* ProbeBroker (Probing), and what only the other one has stays as it began.  *)
EXTENDS ExtractionBroker

CONSTANTS Jobs,                        \* the probes of Probing
          ProbeFaults, ProbeMaxFaults  \* what may go wrong there, and how often

ASSUME ProbesAssumption == Jobs \in Nat /\ ProbeMaxFaults \in Nat

VARIABLES own, latch, job, \* of Probing
          part             \* "extraction" or "probes"

Probing == INSTANCE ProbeBroker WITH Faults <- ProbeFaults, MaxFaults <- ProbeMaxFaults

extractionOnly == <<event, call, stop>>
probesOnly == <<own, latch, job>>

BothInit ==
    \/ part = "extraction" /\ Init /\ own = <<>> /\ latch = <<>> /\ job = <<>>
    \/ part = "probes" /\ Probing!Init /\ event = <<>> /\ call = <<>> /\ stop = <<>>
BothNext ==
    /\ UNCHANGED part
    /\ \/ part = "extraction" /\ Next /\ UNCHANGED probesOnly
       \/ part = "probes" /\ Probing!Next /\ UNCHANGED extractionOnly
BothSpec == BothInit /\ [][BothNext]_<<part, vars, probesOnly>>

\* The properties of the two brokers, of the one that the behaviour is of.

\* When abort says that it cleaned up, every session was let go of or handed to the one
\* close it gets (AcknowledgedWorkReleased, AcknowledgedMeansClosed).
AcknowledgedMeansHandled ==
    IF part = "extraction" THEN AcknowledgedWorkReleased ELSE Probing!AcknowledgedMeansClosed

\* Claims and probe outcomes are handed out only after the session they came from is gone
\* (ClaimsAfterCleanup, AcceptedAfterCleanup).
AnsweredAfterCleanup ==
    IF part = "extraction" THEN ClaimsAfterCleanup ELSE Probing!AcceptedAfterCleanup

\* Between calls no session is lost sight of (NothingForgotten, ProbesKeptInSight), in a
\* state of the right type.
SessionsKeptInSight ==
    IF part = "extraction" THEN ExtractionTypeOK /\ NothingForgotten
    ELSE Probing!ProbeTypeOK /\ Probing!ProbesKeptInSight

\* UnsafeStaysDisabled: after an unsafe boundary no probe process is started.
UnsafeEndsProbing ==
    [][part = "probes" /\ job.met => Probing!NoneStarted]_<<part, vars, probesOnly>>
===============================================================================
