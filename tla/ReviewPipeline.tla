--------------------------- MODULE ReviewPipeline ---------------------------
(***************************************************************************)
(* The asynchronous review of committed exchanges                          *)
(* (src/shadow_mission/review.py MissionReviewController and               *)
(* src/shadow_mission/review_journal.py ReviewJournal).                    *)
(*                                                                         *)
(* The ledger's writer thread hands every committed exchange to a bounded  *)
(* queue.  One worker thread takes them in order and journals what it      *)
(* derives from each of them, stage by stage, and then probes the risks    *)
(* the findings name, one at a time, when no other exchange waits.  The    *)
(* run's thread drains the worker after the Mission, journals the final    *)
(* deltas of the router and stops the worker; it may find a probe still    *)
(* running and cancels it.                                                 *)
(***************************************************************************)
EXTENDS Naturals, FiniteSets, Sequences, SequencesExt

CONSTANTS
    MaxExchanges, \* bound: exchanges of the run
    Deltas,       \* exchanges whose response carries a router delta
    Risks,        \* risks that findings name (their dedup keys)
    Reveals,      \* the exchange whose review finds each risk
    MaxQueue,     \* MAX_REVIEW_QUEUE_ITEMS
    NoRisk,
    Faults        \* which faults may happen

ASSUME ReviewAssumption ==
    /\ MaxExchanges \in Nat /\ Deltas \subseteq 1..MaxExchanges
    /\ NoRisk \notin Risks /\ Reveals \in [Risks -> 1..MaxExchanges]
    /\ MaxQueue \in Nat \ {0}
    /\ Faults \subseteq {"disk", "transcript", "extraction", "exception", "snapshot",
                         "scheduler", "unsafe", "abort", "slow"}

VARIABLES
    committed,  \* exchanges the ledger committed
    ledgerDown, \* EventLedger._degraded_reason is not None
    queue,      \* MissionReviewController._queue
    worker,     \* the worker thread: where it is, what it has in hand
    known,      \* _known_probe_risks
    completed,  \* _completed_probe_risks
    disabled,   \* _boundary_disabled
    journal,    \* ReviewJournal._records, and whether review.jsonl holds just them
    degraded,   \* _degraded_reason is not None
    main        \* the thread of MissionRuntime.run

vars == <<committed, ledgerDown, queue, worker, known, completed, disabled, journal,
          degraded, main>>

------------------------------------------------------------------------------
(* The journal.                                                            *)
\* What is journalled of an exchange, in order.
Stages == <<"projection", "role", "transcript", "extraction", "findings">>
StagesOf(n) == (IF n \in Deltas THEN <<"lineage">> ELSE <<>>) \o Stages

ProbeRecords == {"rejection", "job", "disabled", "outcome", "cancellation", "verified"}
ExchangeRecords == {"lineage", "projection", "role", "transcript", "extraction", "findings"}
RecordTypes == ExchangeRecords \cup ProbeRecords \cup {"outage", "degraded"}
\* What a record is about: an exchange, a risk, the number of a delta, or nothing.
Record == [type : RecordTypes, of : (0..MaxExchanges + 2) \cup Risks]
Degradation == [type |-> "degraded", of |-> 0]

\* The file is a chain of numbered records, and a record is numbered by what the memory
\* holds.  A refused append may leave part of a line in the file, or a whole one whose
\* number the next record will have again: then the file cannot be read any more.
Appends(j, r) ==
    {[ok |-> TRUE, journal |-> [j EXCEPT !.records = Append(@, r)]]}
    \cup (IF "disk" \in Faults
          THEN {[ok |-> FALSE, journal |-> j],
                [ok |-> FALSE, journal |-> [j EXCEPT !.readable = FALSE]]}
          ELSE {})

\* _mark_degraded journals the first reason, and ignores that the journal refuses it.
Degrades(j) == IF degraded THEN {j} ELSE {a.journal : a \in Appends(j, Degradation)}

Cancellation(r) == [type |-> "cancellation", of |-> r]

------------------------------------------------------------------------------
(* The threads.                                                            *)
Working == {"deriving", "checking", "scheduling", "starting", "probing", "returned",
            "completing", "failing", "leaving"}
Worker == [pc : {"idle", "taken", "gone"} \cup Working, item : 0..MaxExchanges,
           risk : Risks \cup {NoRisk}, todo : Seq(RecordTypes)]
Main == [pc : {"running", "draining", "outage", "evidence", "stopping", "aborting",
               "cancelling", "finishing", "joining", "released", "kept"},
         probe : Risks \cup {NoRisk}, aborted : BOOLEAN, clean : BOOLEAN]

\* _active_items is 1 and _active_probe is set, as drain and stop read them.
Active == worker.pc \in Working
Probing == worker.pc = "probing"
Closing == main.pc \in {"aborting", "cancelling", "finishing", "joining", "released", "kept"}

\* drain is satisfied by an empty pipeline and by one whose only work is a probe.
Quiet == queue = <<>> /\ ~Active
ProbeOnly == queue = <<>> /\ Probing

TypeOK ==
    /\ committed \in 0..MaxExchanges /\ ledgerDown \in BOOLEAN
    /\ queue \in Seq(1..MaxExchanges) /\ Len(queue) <= MaxQueue
    /\ worker \in Worker
    /\ known \subseteq Risks /\ completed \subseteq known
    /\ disabled \in BOOLEAN /\ degraded \in BOOLEAN
    /\ journal \in [records : Seq(Record), readable : BOOLEAN]
    /\ main \in Main

Init ==
    /\ committed = 0 /\ ledgerDown = FALSE
    /\ queue = <<>>
    /\ worker = [pc |-> "idle", item |-> 0, risk |-> NoRisk, todo |-> <<>>]
    /\ known = {} /\ completed = {} /\ disabled = FALSE
    /\ journal = [records |-> <<>>, readable |-> TRUE]
    /\ degraded = FALSE
    /\ main = [pc |-> "running", probe |-> NoRisk, aborted |-> FALSE, clean |-> TRUE]

------------------------------------------------------------------------------
(* The ledger's writer thread: after_append.                               *)

\* Variant: an exchange that finds the queue full is dropped.
Commit_Drops ==
    /\ main.pc = "running" /\ ~ledgerDown /\ committed < MaxExchanges
    /\ committed' = committed + 1
    /\ queue' = IF Len(queue) < MaxQueue THEN Append(queue, committed + 1) ELSE queue
    /\ UNCHANGED <<ledgerDown, worker, known, completed, disabled, journal, degraded, main>>

Commit ==
    /\ main.pc = "running" /\ ~ledgerDown /\ committed < MaxExchanges
    /\ committed' = committed + 1
    /\ \/ /\ Len(queue) < MaxQueue
          /\ queue' = Append(queue, committed + 1)
          /\ UNCHANGED <<ledgerDown, journal, degraded>>
       \/ /\ Len(queue) = MaxQueue
          /\ ledgerDown' = TRUE /\ degraded' = TRUE
          /\ journal' \in Degrades(journal)
          /\ UNCHANGED queue
    /\ UNCHANGED <<worker, known, completed, disabled, main>>

------------------------------------------------------------------------------
(* The worker thread.                                                      *)
probes == <<known, completed, disabled>>
others == <<committed, ledgerDown, main>>

Go(pc) == worker' = [worker EXCEPT !.pc = pc]

\* The item leaves the queue before the worker counts itself as active.
Take ==
    /\ worker.pc = "idle" /\ queue # <<>>
    /\ queue' = Tail(queue)
    /\ worker' = [worker EXCEPT !.pc = "taken", !.item = Head(queue)]
    /\ UNCHANGED <<probes, journal, degraded, others>>

\* A degraded controller reviews nothing more.
Enter ==
    /\ worker.pc = "taken"
    /\ worker' = IF degraded
                 THEN [worker EXCEPT !.pc = "failing"]
                 ELSE [worker EXCEPT !.pc = "deriving", !.todo = StagesOf(worker.item)]
    /\ UNCHANGED <<queue, probes, journal, degraded, others>>

Due == [type |-> Head(worker.todo),
        of |-> IF Head(worker.todo) \in ProbeRecords THEN worker.risk ELSE worker.item]

\* Where the worker stands once the record it owed is in the journal.
Recorded ==
    [worker EXCEPT !.todo = Tail(@),
                   !.pc = CASE Due.type = "outcome"  -> "completing"
                            [] Due.type = "findings" -> "checking"
                            [] Due.type = "job"      -> "starting"
                            [] OTHER -> IF Tail(worker.todo) = <<>> THEN "scheduling" ELSE "deriving"]

\* One stage: journal its record, then remember what it derived.
Derive ==
    /\ worker.pc = "deriving"
    /\ \E a \in Appends(journal, Due) :
         /\ journal' = a.journal
         /\ \/ /\ a.ok /\ worker' = Recorded
               /\ known' = known \cup (IF Due.type = "job" THEN {worker.risk} ELSE {})
               /\ disabled' = (disabled \/ Due.type = "disabled")
            \/ ~a.ok /\ Go("failing") /\ UNCHANGED <<known, disabled>>
    /\ UNCHANGED <<queue, completed, degraded, others>>

\* A completion event whose transcript is rejected degrades the controller and goes on.
RejectTranscript ==
    /\ "transcript" \in Faults
    /\ worker.pc = "deriving" /\ Due.type = "transcript"
    /\ degraded' = TRUE
    /\ \E j \in Degrades(journal) : \E a \in Appends(j, Due) :
         /\ journal' = a.journal
         /\ IF a.ok THEN worker' = Recorded ELSE Go("failing")
    /\ UNCHANGED <<queue, probes, others>>

\* A failed extraction is journalled and then degrades the controller; a boundary that
\* was aborted fails every extraction that has something to extract.
FailExtraction ==
    /\ "extraction" \in Faults \/ Closing
    /\ worker.pc = "deriving" /\ Due.type = "extraction"
    /\ \E a \in Appends(journal, Due) :
         \/ /\ a.ok /\ worker' = Recorded
            /\ degraded' = TRUE /\ journal' \in Degrades(a.journal)
         \/ /\ ~a.ok /\ Go("failing")
            /\ journal' = a.journal /\ UNCHANGED degraded
    /\ UNCHANGED <<queue, probes, others>>

\* Anything a stage or the probe runner raises.
Raise ==
    /\ "exception" \in Faults
    /\ worker.pc \in {"deriving", "probing"}
    /\ Go("failing")
    /\ UNCHANGED <<queue, probes, journal, degraded, others>>

\* Probes wait while other exchanges do.
CheckDrained ==
    /\ worker.pc = "checking"
    /\ Go(IF queue = <<>> THEN "scheduling" ELSE "leaving")
    /\ UNCHANGED <<queue, probes, journal, degraded, others>>

\* Variant: a risk is probed each time it shows up.
Candidates_Again ==
    IF Closing \/ disabled THEN {} ELSE {r \in Risks : Reveals[r] <= worker.item}

\* Variant: only the risks this exchange revealed are probed.
Candidates_OfThisExchange ==
    IF Closing \/ disabled THEN {}
    ELSE {r \in Risks : Reveals[r] = worker.item /\ r \notin known}

Candidates ==
    IF Closing \/ disabled THEN {}
    ELSE {r \in Risks : Reveals[r] <= worker.item /\ r \notin known}

\* The window of a probe is refused when an exchange arrived meanwhile.
Reserve ==
    /\ worker.pc = "scheduling"
    /\ \/ Candidates = {} /\ Go("leaving")
       \/ Candidates # {} /\ queue # <<>> /\ Go("leaving")
       \/ /\ queue = <<>>
          /\ \E r \in Candidates :
               worker' = [worker EXCEPT !.pc = "deriving", !.risk = r, !.todo = <<"job">>]
    /\ UNCHANGED <<queue, probes, journal, degraded, others>>

\* A snapshot that cannot be built ends the risk without a probe.
RejectSnapshot ==
    /\ "snapshot" \in Faults
    /\ worker.pc = "scheduling"
    /\ \E r \in Candidates : \E a \in Appends(journal, [type |-> "rejection", of |-> r]) :
         /\ journal' = a.journal
         /\ \/ /\ a.ok
               /\ known' = known \cup {r} /\ completed' = completed \cup {r}
               /\ UNCHANGED worker
            \/ ~a.ok /\ Go("failing") /\ UNCHANGED <<known, completed>>
    /\ UNCHANGED <<queue, disabled, degraded, others>>

Start ==
    /\ worker.pc = "starting"
    /\ Go("probing")
    /\ UNCHANGED <<queue, probes, journal, degraded, others>>

\* _append_probe_cancellation by the worker; a risk that is completed is left alone.
CancelJob(r) ==
    \/ /\ r \in completed
       /\ Go("scheduling") /\ UNCHANGED <<completed, journal>>
    \/ /\ r \notin completed
       /\ \E a \in Appends(journal, Cancellation(r)) :
            /\ journal' = a.journal
            /\ \/ a.ok /\ Go("scheduling") /\ completed' = completed \cup {r}
               \/ ~a.ok /\ Go("failing") /\ UNCHANGED completed

\* The scheduler does not take the job, or what it returns belongs to another snapshot.
RejectJob ==
    /\ "scheduler" \in Faults
    /\ \/ worker.pc = "starting"
       \/ worker.pc = "returned" /\ worker.risk \notin completed
    /\ CancelJob(worker.risk)
    /\ UNCHANGED <<queue, known, disabled, degraded, others>>

Return ==
    /\ worker.pc = "probing"
    /\ Go("returned")
    /\ UNCHANGED <<queue, probes, journal, degraded, others>>

\* The run's thread may have cancelled the probe.  Otherwise its outcome is journalled,
\* which nothing checks again.
Outcomes == {<<"outcome">>, <<"outcome", "verified">>}
            \cup (IF "unsafe" \in Faults THEN {<<"disabled", "outcome">>} ELSE {})

CheckCancelled ==
    /\ worker.pc = "returned"
    /\ \/ worker.risk \in completed /\ Go("scheduling")
       \/ /\ worker.risk \notin completed
          /\ \E o \in Outcomes : worker' = [worker EXCEPT !.pc = "deriving", !.todo = o]
    /\ UNCHANGED <<queue, probes, journal, degraded, others>>

Complete ==
    /\ worker.pc = "completing"
    /\ completed' = completed \cup {worker.risk}
    /\ Go(IF worker.todo = <<>> THEN "scheduling" ELSE "deriving")
    /\ UNCHANGED <<queue, known, disabled, journal, degraded, others>>

\* Variant: the exception ends at the exchange.
Fail_Silently ==
    /\ worker.pc = "failing"
    /\ Go("leaving")
    /\ UNCHANGED <<queue, probes, journal, degraded, others>>

\* Variant: the exception ends the thread while it counts as active.
Fail_Forever ==
    /\ worker.pc = "failing" /\ ~degraded
    /\ degraded' = TRUE /\ journal' \in Degrades(journal)
    /\ UNCHANGED <<queue, worker, probes, others>>

Fail ==
    /\ worker.pc = "failing"
    /\ degraded' = TRUE /\ journal' \in Degrades(journal)
    /\ Go("leaving")
    /\ UNCHANGED <<queue, probes, others>>

Leave ==
    /\ worker.pc = "leaving"
    /\ worker' = [pc |-> "idle", item |-> 0, risk |-> NoRisk, todo |-> <<>>]
    /\ UNCHANGED <<queue, probes, journal, degraded, others>>

Exit ==
    /\ worker.pc = "idle" /\ Closing /\ queue = <<>>
    /\ Go("gone")
    /\ UNCHANGED <<queue, probes, journal, degraded, others>>

------------------------------------------------------------------------------
(* The run's thread.                                                       *)
pipeline == <<committed, ledgerDown, queue, worker, known, disabled>>

MainGoes(pc) == main' = [main EXCEPT !.pc = pc]
Unclean(pc) == main' = [main EXCEPT !.pc = pc, !.clean = FALSE]

\* The Mission is over and the collector and the ledger are stopped.
End ==
    /\ main.pc = "running"
    /\ MainGoes("draining")
    /\ UNCHANGED <<pipeline, completed, journal, degraded>>

Drain ==
    /\ main.pc = "draining"
    /\ Quiet \/ ProbeOnly \/ "slow" \in Faults
    /\ MainGoes("outage")
    /\ UNCHANGED <<pipeline, completed, journal, degraded>>

\* Deltas the router made so far: by exchanges, and by the final reconciliation.
DeltaCount == Cardinality(Deltas \cap 1..committed)
              + Cardinality({i \in DOMAIN journal.records : journal.records[i].type = "outage"})

\* The router journals what hooks left in the latch, then what late evidence changes.
Reconcile(from, to) ==
    /\ main.pc = from
    /\ \/ MainGoes(to) /\ UNCHANGED <<journal, degraded>>
       \/ \E a \in Appends(journal, [type |-> "outage", of |-> DeltaCount + 1]) :
            \/ a.ok /\ journal' = a.journal /\ MainGoes(to) /\ UNCHANGED degraded
            \/ /\ ~a.ok
               /\ degraded' = TRUE /\ journal' \in Degrades(a.journal)
               /\ Unclean("stopping")
    /\ UNCHANGED <<pipeline, completed>>

Close ==
    /\ main.pc = "stopping"
    /\ main' = [main EXCEPT !.pc = "aborting",
                            !.probe = IF ProbeOnly THEN worker.risk ELSE NoRisk]
    /\ UNCHANGED <<pipeline, completed, journal, degraded>>

\* Both boundaries are told to abort and have to acknowledge it in time.
Abort ==
    /\ main.pc = "aborting"
    /\ \E extraction, probe \in (IF "abort" \in Faults THEN BOOLEAN ELSE {TRUE}) :
         /\ main' = [main EXCEPT !.pc = "cancelling", !.aborted = probe,
                                 !.clean = @ /\ extraction /\ probe]
         /\ degraded' = (degraded \/ ~extraction \/ ~probe)
         /\ journal' \in IF extraction /\ probe THEN {journal} ELSE Degrades(journal)
    /\ UNCHANGED <<pipeline, completed>>

\* Variant: a cancellation that cannot be journalled is given up.
CancelPending_Quietly ==
    /\ main.pc = "cancelling"
    /\ MainGoes("finishing")
    /\ IF main.probe = NoRisk \/ ~main.aborted \/ main.probe \in completed
       THEN UNCHANGED <<completed, journal>>
       ELSE \E a \in Appends(journal, Cancellation(main.probe)) :
              /\ journal' = a.journal
              /\ completed' = IF a.ok THEN completed \cup {main.probe} ELSE completed
    /\ UNCHANGED <<pipeline, degraded>>

\* A probe that was the only work left is cancelled, unless it ended by itself.
CancelPending ==
    /\ main.pc = "cancelling"
    /\ IF main.probe = NoRisk \/ ~main.aborted \/ main.probe \in completed
       THEN MainGoes("finishing") /\ UNCHANGED <<completed, journal, degraded>>
       ELSE \E a \in Appends(journal, Cancellation(main.probe)) :
              \/ /\ a.ok
                 /\ journal' = a.journal /\ completed' = completed \cup {main.probe}
                 /\ MainGoes("finishing") /\ UNCHANGED degraded
              \/ /\ ~a.ok
                 /\ degraded' = TRUE /\ journal' \in Degrades(a.journal)
                 /\ Unclean("finishing") /\ UNCHANGED completed
    /\ UNCHANGED pipeline

Finish ==
    /\ main.pc = "finishing"
    /\ Quiet \/ ProbeOnly
    /\ MainGoes("joining")
    /\ UNCHANGED <<pipeline, completed, journal, degraded>>

\* Out of time: the probe that still runs is cancelled as far as possible.
FinishTimesOut ==
    /\ "slow" \in Faults
    /\ main.pc = "finishing"
    /\ IF main.aborted /\ Probing /\ worker.risk \notin completed
       THEN \E a \in Appends(journal, Cancellation(worker.risk)) :
              /\ journal' \in Degrades(a.journal)
              /\ completed' = IF a.ok THEN completed \cup {worker.risk} ELSE completed
       ELSE journal' \in Degrades(journal) /\ UNCHANGED completed
    /\ degraded' = TRUE
    /\ Unclean("joining")
    /\ UNCHANGED pipeline

Join ==
    /\ main.pc = "joining" /\ worker.pc = "gone"
    /\ MainGoes(IF main.clean /\ ~degraded THEN "released" ELSE "kept")
    /\ UNCHANGED <<pipeline, completed, journal, degraded>>

JoinTimesOut ==
    /\ "slow" \in Faults
    /\ main.pc = "joining" /\ worker.pc # "gone"
    /\ degraded' = TRUE /\ journal' \in Degrades(journal)
    /\ Unclean("kept")
    /\ UNCHANGED <<pipeline, completed>>

------------------------------------------------------------------------------
WorkerStep ==
    \/ Take \/ Enter \/ Derive \/ RejectTranscript \/ FailExtraction \/ Raise
    \/ CheckDrained \/ Reserve \/ RejectSnapshot \/ Start \/ RejectJob \/ Return
    \/ CheckCancelled \/ Complete \/ Fail \/ Leave \/ Exit

MainStep ==
    \/ Drain \/ Reconcile("outage", "evidence") \/ Reconcile("evidence", "stopping")
    \/ Close \/ Abort \/ CancelPending \/ Finish \/ FinishTimesOut \/ Join \/ JoinTimesOut

Concluded == main.pc \in {"released", "kept"}
Done == Concluded /\ worker.pc = "gone" /\ UNCHANGED vars

Next == Commit \/ End \/ WorkerStep \/ MainStep \/ Done

Spec == Init /\ [][Next]_vars

\* The worker is a thread of its own and everything it calls has a time limit; so has
\* everything the run's thread waits for once the Mission ended.
FairSpec == Spec /\ WF_vars(WorkerStep) /\ WF_vars(MainStep)

------------------------------------------------------------------------------
(* Properties.                                                             *)
\* In the complete review r comes right after l: the next stage of the same exchange, or
\* the first one of the next exchange.
Succeeds(l, r) ==
    LET stages == StagesOf(r.of)
    IN  \/ l.of = r.of /\ \E p \in 2..Len(stages) : l.type = stages[p - 1] /\ r.type = stages[p]
        \/ l.of = r.of - 1 /\ l.type = "findings" /\ r.type = stages[1]

\* The complete review begins with r.
Begins(r) == r.of = 1 /\ r.type = StagesOf(1)[1]

\* Where the journal's exchange records are.
Reviews == {i \in DOMAIN journal.records : journal.records[i].type \in ExchangeRecords}

Count(type, r) == Cardinality({i \in DOMAIN journal.records :
                                  journal.records[i].of = r /\ journal.records[i].type = type})

\* The journal's exchange records are at every moment a beginning of the complete review
\* of the ledger: no exchange is skipped, none is reviewed twice, no stage is out of
\* order, whatever stage of whatever exchange fails (review.py _process_exchange,
\* _flush_ordered_locked).
ReviewsInOrder ==
    \A i \in Reviews :
      LET r == journal.records[i]
      IN  /\ r.of \in 1..committed
          /\ \E gap \in 1..i :
               /\ \A l \in i - gap + 1..i - 1 : journal.records[l].type \notin ExchangeRecords
               /\ IF gap = i THEN Begins(r) ELSE Succeeds(journal.records[i - gap], r)

\* As long as the controller calls itself sound, the file is the digest chain of exactly
\* the records it remembers: a refused append, which may have left bytes in the file,
\* always ends in a degraded controller (review_journal.py append, review.py
\* _worker_loop, stop, reconcile_final_outage).
JournalReadable ==
    degraded \/ worker.pc = "failing" \/ journal.readable

\* A risk has one job at most, what ends a job comes after it, a probe has one outcome
\* and is cancelled once at most, although two threads cancel it (review.py
\* _schedule_probes, _append_probe_cancellation, stop).
ProbedOnce ==
    \A r \in Risks :
      /\ Count("job", r) + Count("rejection", r) <= 1
      /\ Count("outcome", r) <= Count("job", r)
      /\ Count("cancellation", r) <= Count("job", r)

\* A risk that was not probed because exchanges were waiting is taken up by one of them:
\* whenever the pipeline is empty, every risk that was found is settled (review.py
\* _process_exchange, _reserve_probe_window).
NoRiskForgotten ==
    worker.pc = "idle" /\ queue = <<>> /\ ~degraded /\ ~disabled /\ ~Closing
        => \A r \in Risks : Reveals[r] <= committed => r \in completed

\* A controller that stopped cleanly, which releases the run, has reviewed every
\* exchange of the ledger and ended every probe it journalled, and its journal can be
\* read (review.py stop, releasable; runtime.py MissionRuntime.run).
ReleasedMeansReviewed ==
    main.pc = "released" =>
      /\ ~degraded /\ ~ledgerDown
      /\ \A n \in 1..committed : \A s \in Range(StagesOf(n)) :
           \E i \in Reviews : journal.records[i] = [type |-> s, of |-> n]
      /\ \A r \in Risks : Count("job", r) <= Count("outcome", r) + Count("cancellation", r)
      /\ journal.readable

\* Every committed exchange is reviewed to its last stage, or the controller says that
\* it is degraded (review.py _worker_loop): however often new ones come, there is always
\* a moment when none is left over.
Reviewed ==
    []<>(degraded \/ \A n \in 1..committed : \E i \in DOMAIN journal.records :
                        journal.records[i] = [type |-> "findings", of |-> n])

\* Once the Mission ended, draining, reconciling and stopping come to an end, and so does
\* the worker, whatever each of the two waits for (review.py drain, stop, _worker_loop).
Stops == main.pc = "draining" ~> Concluded /\ worker.pc = "gone"

=============================================================================
