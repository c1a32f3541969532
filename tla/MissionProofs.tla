---------------------------- MODULE MissionProofs ----------------------------
(***************************************************************************)
(* Theorems about MissionRuntime and MissionFinalization together, for any *)
(* number of runs, any evaluator names, preflights and flags, and any      *)
(* number of faults.                                                       *)
(*                                                                         *)
(* The invariant says four things of each run: it holds mission.lock for   *)
(* as long as it or its process group may act (Holds), what it remembers   *)
(* of its group is so (Measured), an outcome that may be reported is that  *)
(* of a Mission that stopped with its heartbeat (Sober), and what it       *)
(* records of its evaluator comes after the fact (Evaluated).  A step is   *)
(* one run's own (StepOf), or Intrude: the lemmas ending in Own are about  *)
(* the run that takes it, Elsewhere and Shared about the others.           *)
(* What the ledger of authorizations counts (Tallied) comes last: it needs *)
(* the invariant of the lock, and is about all runs at once.               *)
(***************************************************************************)
EXTENDS MissionFinalization, FiniteSetTheorems, TLAPS

StepOf(r) == \/ (Main(r) \/ Beat(r) \/ Outside(r)) /\ UNCHANGED evaluators
             \/ Concluding(r)

Alive(r) == group[r] \in {"running", "orphans"}
Still(r) == beat[r] \in {"off", "dead"}
Reportable(outcome) == outcome \in RELEASE_REPORTABLE_RUNTIME_OUTCOMES
Judging == {"closing", "quiescing", "settled"}
Evaluating == {"admitted", "exported", "frozen", "cleared", "starting", "started", "deleting",
               "deleted"}

\* A Mission holds the lock from its acquisition until it has returned, and longer while its
\* process group lives.
Holds(r) ==
    /\ pc[r] \in {"validated", "locked", "armed", "spawning"} \cup Landing => r \in Missions
    /\ pc[r] = "recovering" => r \in Baselines
    /\ r \in Missions =>
        /\ pc[r] \in Flying \cup {"locked", "armed", "staged", "linked", "counted"}
              => mem[r].acquired
        /\ mem[r].acquired /\ pc[r] \in Setup \cup Flying \cup Landing => lock = r
        /\ mem[r].launched => mem[r].acquired
        /\ pc[r] \in Landing \ Judging => mem[r].launched
        /\ Alive(r) => lock = r

\* What a run remembers and records of its process group is so.
Measured(r) ==
    /\ pc[r] \in Setup \cup {"spawning"} =>
          group[r] = "none" /\ mem[r].stopped = "unknown" /\ ~disk[r].record.stopped
    /\ pc[r] \in {"running", "reaping"} => group[r] # "none" /\ mem[r].stopped = "unknown"
    /\ pc[r] = "reaped" => group[r] # "none"
    /\ pc[r] \in Flying \cup {"counted"} => mem[r].launched
    /\ r \in Missions /\ pc[r] \in Flying => mem[r].started
    /\ group[r] # "none" => mem[r].launched /\ (r \in Missions => mem[r].started)
    /\ mem[r].stopped = "yes" \/ disk[r].record.stopped => ~Alive(r)
    /\ r \in Baselines /\ pc[r] = "reaped" /\ ~mem[r].error => group[r] = "gone"
    /\ disk[r].relation => group[r] # "none"
    /\ pc[r] \in Evaluating => group[r] = "gone"

\* An outcome that may be reported is that of a Mission that stopped, with its heartbeat.
Sober(r) ==
    /\ r \in Missions /\ pc[r] \in Landing \ {"closing"} /\ ~mem[r].cleanup => Still(r)
    /\ Reportable(mem[r].outcome) =>
        /\ Still(r) /\ pc[r] \notin Setup \cup Flying \cup Judging
        /\ mem[r].seen \subseteq {"blocked"} /\ ~mem[r].checks
        /\ mem[r].cleanup => lock = r /\ pc[r] \notin Landing
        /\ pc[r] = "stated" => disk[r].status = "terminal"
    /\ r \in Missions /\ Reportable(disk[r].record.outcome) =>
        /\ Reportable(mem[r].outcome) /\ disk[r].status = "terminal"
        /\ pc[r] \notin {"concluded", "stated"}

\* The evaluator is the run's own, and a record of its deletion comes last.
Evaluated(r) ==
    /\ \A n \in Names : vm[n] = r => n = name[r]
    /\ pc[r] = "deleted" => Vm(r) # r
    /\ pc[r] \in Evaluating \ {"admitted"} => disk[r].source
    /\ pc[r] = "linked" \/ (mem[r].launched /\ r \in Missions) => Counted(r)
    /\ disk[r].record.deleted =>
        /\ pc[r] \in {"done", "failed"} /\ Vm(r) # r
        /\ group[r] = "gone" /\ disk[r].source
        /\ r \in Missions => disk[r].record.verdict = disk[r].evaluation
    /\ r \in Missions /\ pc[r] = "done" =>
        /\ disk[r].record.deleted /\ Reportable(disk[r].record.outcome)
        /\ disk[r].evaluation = "pass"

IInv == \A r \in Runs : Holds(r) /\ Measured(r) /\ Sober(r) /\ Evaluated(r)

------------------------------------------------------------------------------
(* Types, one part of the state at a time. *)
\* The outcome of a Mission, and what one that may be reported stands for.
LEMMA OutcomeMeans ==
    ASSUME NEW m \in Memory
    PROVE  /\ Outcome(m) \in Outcomes
           /\ Reportable(Outcome(m)) =>
                 /\ m.stopped = "yes" /\ ~m.checks /\ ~m.cleanup
                 /\ m.seen \cap {"terminal", "collector", "degraded"} = {}
<1> DEFINE clean == m.result = "zero" /\ ~m.error
           reasons == << <<m.stopped # "yes", "cleanup-failed">>,
                         <<"terminal" \in m.seen, "unresolved-blocker">>,
                         <<m.checks, "review-termination-check-failed">>,
                         <<m.cleanup, "cleanup-failed">>,
                         <<"collector" \in m.seen, "collector-degraded">>,
                         <<"degraded" \in m.seen, "review-controller-degraded">>,
                         <<clean /\ "blocked" \in m.seen, "completion-blocked">>,
                         <<clean, "mission-terminated">>,
                         <<m.result # "none", "mission-exit">>,
                         <<TRUE, "mission-process-error">> >>
           First(i) == reasons[i][1] /\ \A j \in 1..(i - 1) : ~reasons[j][1]
           first == CHOOSE i \in DOMAIN reasons : First(i)
<1>1. DOMAIN reasons = 1..10
  OBVIOUS
<1>2. \E i \in 1..10 : First(i)
  OBVIOUS
<1>3. first \in 1..10 /\ First(first)
  BY <1>1, <1>2
<1>4. Outcome(m) = reasons[first][2]
  BY DEF Outcome
<1>5. /\ reasons[1][2] = "cleanup-failed" /\ reasons[2][2] = "unresolved-blocker"
      /\ reasons[3][2] = "review-termination-check-failed" /\ reasons[4][2] = "cleanup-failed"
      /\ reasons[5][2] = "collector-degraded" /\ reasons[6][2] = "review-controller-degraded"
      /\ reasons[7][2] = "completion-blocked" /\ reasons[8][2] = "mission-terminated"
      /\ reasons[9][2] = "mission-exit" /\ reasons[10][2] = "mission-process-error"
  OBVIOUS
<1>6. /\ reasons[1][1] = (m.stopped # "yes") /\ reasons[2][1] = ("terminal" \in m.seen)
      /\ reasons[3][1] = m.checks /\ reasons[4][1] = m.cleanup
      /\ reasons[5][1] = ("collector" \in m.seen) /\ reasons[6][1] = ("degraded" \in m.seen)
  OBVIOUS
<1>7. Outcome(m) \in Outcomes /\ (Reportable(Outcome(m)) => first \in {7, 8})
  <2> HIDE DEF reasons, first
  <2>1. first \in {1, 2, 3, 4, 5, 6, 7, 8, 9, 10}
    BY <1>3
  <2> QED
    BY <1>4, <1>5, <2>1 DEF Outcomes, Reportable, RELEASE_REPORTABLE_RUNTIME_OUTCOMES
<1>8. first \in {7, 8} => \A j \in {1, 2, 3, 4, 5, 6} : ~reasons[j][1]
  <2> HIDE DEF reasons, first
  <2> QED
    BY <1>3
<1> HIDE DEF reasons, first
<1> QED
  BY <1>6, <1>7, <1>8

\* A step of a run leaves memory one of the shapes the code builds.
LEMMA MemType ==
    ASSUME FinalTypeOK, NEW r \in Runs, StepOf(r)
    PROVE  mem' \in [Runs -> Memory]
<1> DEFINE Stays == mem' = mem \/ \E x \in Memory : mem' = [mem EXCEPT ![r] = x]
<1> USE DEF world, given, evaluators, Goto, Trip, Calm, Raise, GiveUp
<1>1. mem[r] \in Memory /\ review[r] \in SUBSET Flags
  BY DEF FinalTypeOK, TypeOK
<1>2. /\ [mem[r] EXCEPT !.acquired = TRUE] \in Memory
      /\ [mem[r] EXCEPT !.launched = TRUE] \in Memory
      /\ [mem[r] EXCEPT !.started = TRUE] \in Memory
      /\ [mem[r] EXCEPT !.error = TRUE] \in Memory
      /\ [mem[r] EXCEPT !.cleanup = TRUE] \in Memory
      /\ [mem[r] EXCEPT !.checks = TRUE] \in Memory
  BY <1>1 DEF Memory
<1>3. ASSUME NEW c \in {"zero", "other"}
      PROVE  /\ [mem[r] EXCEPT !.result = c] \in Memory
             /\ [mem[r] EXCEPT !.result = c, !.checks = TRUE] \in Memory
  BY <1>1 DEF Memory
<1>4. ASSUME NEW f \in SUBSET Flags
      PROVE  /\ [mem[r] EXCEPT !.seen = f] \in Memory
             /\ [mem[r] EXCEPT !.seen = f, !.cleanup = TRUE] \in Memory
             /\ [mem[r] EXCEPT !.seen = f, !.checks = TRUE] \in Memory
  BY <1>1 DEF Memory
<1>5. ASSUME NEW o \in Outcomes
      PROVE  /\ [mem[r] EXCEPT !.outcome = o] \in Memory
             /\ [mem[r] EXCEPT !.outcome = o, !.cleanup = TRUE] \in Memory
  BY <1>1 DEF Memory
<1>6. Outcome(mem[r]) \in Outcomes /\ "cleanup-failed" \in Outcomes
  BY <1>1, OutcomeMeans DEF Outcomes
<1>7. ASSUME Launching(r), UNCHANGED evaluators PROVE Stays
  <2>1. CASE Prepare(r) \/ Validate(r)
    BY <1>7, <2>1 DEF Prepare, Validate
  <2>2. CASE Acquire(r) \/ Arm(r)
    BY <1>7, <2>2, <1>2 DEF Acquire, Arm
  <2>3. CASE Stage(r) \/ Link(r) \/ Unstage(r) \/ Announce(r)
    BY <1>7, <2>3, <1>2 DEF Stage, Link, Unstage, Announce
  <2> QED
    BY <1>7, <2>1, <2>2, <2>3 DEF Launching
<1>8. ASSUME Executing(r), UNCHANGED evaluators PROVE Stays
  <2>1. CASE Spawn(r)
    <3>1. /\ [mem[r] EXCEPT !.error = TRUE, !.stopped = "yes"] \in Memory
          /\ [mem[r] EXCEPT !.error = TRUE, !.stopped = mem[r].stopped] \in Memory
      BY <1>1 DEF Memory
    <3>2. \/ mem' = mem
          \/ mem' = [mem EXCEPT ![r] = [mem[r] EXCEPT !.error = TRUE, !.stopped = "yes"]]
          \/ mem' = [mem EXCEPT ![r] = [mem[r] EXCEPT !.error = TRUE, !.stopped = mem[r].stopped]]
      BY <1>8, <2>1 DEF Spawn
    <3> QED
      BY <3>1, <3>2
  <2>2. CASE Poll(r)
    <3>1. CASE \E code \in {"zero", "other"} : mem' = [mem EXCEPT ![r].result = code]
      BY <1>3, <3>1
    <3>2. CASE \E code \in {"zero", "other"} :
                  mem' = [mem EXCEPT ![r].result = code, ![r].checks = TRUE]
      <4>1. PICK code \in {"zero", "other"} :
               mem' = [mem EXCEPT ![r].result = code, ![r].checks = TRUE]
        BY <3>2
      <4>2. mem' = [mem EXCEPT ![r] = [mem[r] EXCEPT !.result = code, !.checks = TRUE]]
        BY <4>1
      <4> QED
        BY <1>3, <4>2
    <3>3. CASE mem' = [mem EXCEPT ![r].error = TRUE]
      BY <1>2, <3>3
    <3> QED
      BY <2>2, <3>1, <3>2, <3>3 DEF Poll
  <2>3. CASE Reap(r)
    <3>1. PICK left \in Survivors(r), drained \in BOOLEAN :
             mem' = [mem EXCEPT ![r].stopped = IF left = "gone" THEN "yes" ELSE "no",
                                ![r].error = @ \/ ~drained \/ (r \in Baselines /\ left # "gone"),
                                ![r].result = IF drained THEN @ ELSE "none"]
      BY <1>8, <2>3 DEF Reap
    <3> DEFINE b == mem[r].error \/ ~drained \/ (r \in Baselines /\ left # "gone")
               x == [mem[r] EXCEPT !.stopped = IF left = "gone" THEN "yes" ELSE "no",
                                   !.error = b, !.result = IF drained THEN @ ELSE "none"]
    <3>2. b \in BOOLEAN
      BY <1>1 DEF Memory
    <3>3. mem' = [mem EXCEPT ![r] = x]
      BY <1>1, <3>1 DEF FinalTypeOK, TypeOK, Memory
    <3>4. x \in Memory
      <4> HIDE DEF b
      <4> QED
        BY <1>1, <3>2 DEF Memory
    <3> QED
      BY <3>3, <3>4
  <2>4. CASE Correlate(r)
    BY <1>8, <2>4, <1>2 DEF Correlate
  <2> QED
    BY <1>8, <2>1, <2>2, <2>3, <2>4 DEF Executing
<1>9. ASSUME Returning(r), UNCHANGED evaluators PROVE Stays
  <2>1. CASE StopBeat(r) \/ Abandon(r) \/ Record(r) \/ Unlock(r)
    BY <1>9, <2>1, <1>2 DEF StopBeat, Abandon, Record, Unlock
  <2>2. CASE Quiesce(r)
    <3>1. (review[r] \cup ({"terminal"} \cap Flags)) \in SUBSET Flags
      BY <1>1
    <3>2. CASE mem' = [mem EXCEPT ![r].seen = review[r]]
      BY <1>1, <1>4, <3>2
    <3>3. CASE mem' = [mem EXCEPT ![r].seen = review[r], ![r].cleanup = TRUE]
      BY <1>1, <1>4, <3>3
    <3>4. CASE mem' = [mem EXCEPT ![r].seen = review[r] \cup ({"terminal"} \cap Flags),
                                  ![r].checks = TRUE]
      BY <1>4, <3>1, <3>4
    <3> QED
      BY <1>9, <2>2, <3>2, <3>3, <3>4 DEF Quiesce
  <2>3. CASE Conclude(r)
    <3>1. CASE mem' = [mem EXCEPT ![r].outcome = Outcome(mem[r])]
      BY <1>5, <1>6, <3>1
    <3>2. CASE mem' = [mem EXCEPT ![r].outcome = "cleanup-failed", ![r].cleanup = TRUE]
      BY <1>5, <1>6, <3>2
    <3> QED
      BY <1>9, <2>3, <3>1, <3>2 DEF Conclude
  <2>4. CASE Terminate(r)
    <3>1. CASE mem' = mem
      BY <3>1
    <3>2. CASE mem' = [mem EXCEPT ![r].outcome = "cleanup-failed", ![r].cleanup = TRUE]
      BY <1>5, <1>6, <3>2
    <3> QED
      BY <1>9, <2>4, <3>1, <3>2 DEF Terminate
  <2> QED
    BY <1>9, <2>1, <2>2, <2>3, <2>4 DEF Returning
<1>10. ASSUME Beat(r), UNCHANGED evaluators PROVE Stays
  <2>1. CASE BeatWakes(r)
    BY <1>10, <2>1 DEF BeatWakes
  <2>2. CASE BeatWrites(r) \/ BeatEnds(r)
    BY <1>10, <2>2, <1>2 DEF BeatWrites, BeatEnds
  <2> QED
    BY <1>10, <2>1, <2>2 DEF Beat
<1>11. ASSUME Outside(r), UNCHANGED evaluators PROVE Stays
  BY <1>11 DEF Outside, LeaderExits, OrphansEnd, Review, Crash
<1>12. ASSUME Concluding(r) PROVE Stays
  BY <1>12 DEF Concluding, Admit, Discover, Export, Freeze, Inspect, StartVm, Claim, Evaluate,
     DeleteVm, Complete, Qualify, Recover
<1>13. Stays
  BY <1>7, <1>8, <1>9, <1>10, <1>11, <1>12 DEF StepOf, Main
<1> QED
  BY <1>13 DEF FinalTypeOK, TypeOK

\* So it leaves its directory.
LEMMA DiskType ==
    ASSUME FinalTypeOK, NEW r \in Runs, StepOf(r)
    PROVE  disk' \in [Runs -> Directory]
<1> DEFINE Stays == disk' = disk \/ \E x \in Directory : disk' = [disk EXCEPT ![r] = x]
<1> USE DEF world, given, evaluators, Goto, Trip, Calm, Raise, GiveUp
<1>1. disk[r] \in Directory /\ mem[r] \in Memory
  BY DEF FinalTypeOK, TypeOK
<1>2. /\ [disk[r] EXCEPT !.source = TRUE] \in Directory
      /\ [disk[r] EXCEPT !.frozen = TRUE] \in Directory
  BY <1>1 DEF Directory
<1>3. ASSUME NEW s \in {"none", "active", "terminal"}, NEW b \in BOOLEAN
      PROVE  /\ [disk[r] EXCEPT !.status = s] \in Directory
             /\ [disk[r] EXCEPT !.launch = b, !.status = s] \in Directory
             /\ [disk[r] EXCEPT !.relation = b] \in Directory
             /\ [disk[r] EXCEPT !.relation = b, !.status = s] \in Directory
  BY <1>1 DEF Directory
<1>4. ASSUME NEW v \in {"none", "pass", "fail"}
      PROVE  [disk[r] EXCEPT !.evaluation = v] \in Directory
  BY <1>1 DEF Directory
<1>5. ASSUME NEW k \in RunRecord PROVE [disk[r] EXCEPT !.record = k] \in Directory
  BY <1>1 DEF Directory
<1>6. disk[r].record \in RunRecord /\ disk[r].evaluation \in {"none", "pass", "fail"}
  BY <1>1 DEF Directory
<1>7. ASSUME Launching(r), UNCHANGED evaluators PROVE Stays
  <2>1. CASE Prepare(r) \/ Validate(r) \/ Acquire(r) \/ Arm(r) \/ Stage(r) \/ Link(r)
             \/ Unstage(r)
    BY <1>7, <2>1 DEF Prepare, Validate, Acquire, Arm, Stage, Link, Unstage
  <2>2. CASE Announce(r)
    <3>1. CASE disk' = [disk EXCEPT ![r].launch = TRUE, ![r].status = "active"]
      BY <1>3, <3>1
    <3>2. CASE \E written \in {{}, {"launch"}, {"launch", "status"}} :
                  disk' = [disk EXCEPT ![r].launch = "launch" \in written,
                                       ![r].status = IF "status" \in written
                                                     THEN "active" ELSE "none"]
      <4>1. PICK b \in BOOLEAN, s \in {"none", "active", "terminal"} :
               disk' = [disk EXCEPT ![r].launch = b, ![r].status = s]
        <5>1. PICK written \in {{}, {"launch"}, {"launch", "status"}} :
                 disk' = [disk EXCEPT ![r].launch = "launch" \in written,
                                      ![r].status = IF "status" \in written
                                                    THEN "active" ELSE "none"]
          BY <3>2
        <5>2. ("launch" \in written) \in BOOLEAN
          OBVIOUS
        <5>3. (IF "status" \in written THEN "active" ELSE "none") \in {"none", "active", "terminal"}
          OBVIOUS
        <5> QED
          BY <5>1, <5>2, <5>3
      <4> QED
        BY <1>3, <4>1
    <3> QED
      BY <1>7, <2>2, <3>1, <3>2 DEF Announce
  <2> QED
    BY <1>7, <2>1, <2>2 DEF Launching
<1>8. ASSUME Executing(r), UNCHANGED evaluators PROVE Stays
  <2>1. CASE Spawn(r) \/ Poll(r) \/ Reap(r)
    BY <1>8, <2>1 DEF Spawn, Poll, Reap
  <2>2. CASE Correlate(r)
    <3>1. CASE disk' = disk
      BY <3>1
    <3>2. CASE disk' = [disk EXCEPT ![r].relation = TRUE, ![r].status = "active"]
      BY <1>3, <3>2
    <3>3. CASE \E kept \in BOOLEAN : disk' = [disk EXCEPT ![r].relation = kept]
      BY <1>3, <3>3
    <3> QED
      BY <1>8, <2>2, <3>1, <3>2, <3>3 DEF Correlate
  <2> QED
    BY <1>8, <2>1, <2>2 DEF Executing
<1>9. ASSUME Returning(r), UNCHANGED evaluators PROVE Stays
  <2>1. CASE StopBeat(r) \/ Quiesce(r) \/ Abandon(r)
    BY <1>9, <2>1 DEF StopBeat, Quiesce, Abandon
  <2>2. CASE Conclude(r)
    BY <1>9, <2>2 DEF Conclude
  <2>3. CASE Terminate(r) \/ Unlock(r)
    BY <1>9, <2>3, <1>3 DEF Terminate, Unlock
  <2>4. CASE Record(r)
    <3> DEFINE b == mem[r].stopped = "yes"
               k == [disk[r].record EXCEPT !.outcome = mem[r].outcome, !.stopped = b]
    <3>1. b \in BOOLEAN
      OBVIOUS
    <3>2. disk' = disk \/ disk' = [disk EXCEPT ![r] = [disk[r] EXCEPT !.record = k]]
      BY <1>9, <2>4 DEF Record
    <3>3. k \in RunRecord
      <4> HIDE DEF b
      <4> QED
        BY <1>1, <1>6, <3>1 DEF RunRecord, Memory
    <3> QED
      BY <1>5, <3>2, <3>3
  <2> QED
    BY <1>9, <2>1, <2>2, <2>3, <2>4 DEF Returning
<1>10. ASSUME Beat(r), UNCHANGED evaluators PROVE Stays
  <2>1. CASE BeatWakes(r)
    BY <1>10, <2>1 DEF BeatWakes
  <2>2. CASE BeatWrites(r) \/ BeatEnds(r)
    BY <1>10, <2>2, <1>3 DEF BeatWrites, BeatEnds
  <2> QED
    BY <1>10, <2>1, <2>2 DEF Beat
<1>11. ASSUME Outside(r), UNCHANGED evaluators PROVE Stays
  <2>1. CASE LeaderExits(r) \/ OrphansEnd(r)
    BY <1>11, <2>1 DEF LeaderExits, OrphansEnd
  <2>2. CASE Review(r) \/ Crash(r)
    BY <1>11, <2>2 DEF Review, Crash
  <2> QED
    BY <1>11, <2>1, <2>2 DEF Outside
<1>12. ASSUME Concluding(r) PROVE Stays
  <2>1. CASE Admit(r) \/ Discover(r)
    BY <1>12, <2>1 DEF Admit, Discover
  <2>2. CASE Export(r) \/ Freeze(r)
    BY <1>12, <2>2, <1>2 DEF Export, Freeze
  <2>3. CASE Inspect(r) \/ StartVm(r)
    BY <1>12, <2>3 DEF Inspect, StartVm
  <2>4. CASE Claim(r)
    BY <1>12, <2>4 DEF Claim
  <2>5. CASE Evaluate(r) \/ DeleteVm(r)
    BY <1>12, <2>5, <1>4 DEF Evaluate, DeleteVm
  <2>6. CASE Complete(r)
    <3>1. [disk[r].record EXCEPT !.verdict = disk[r].evaluation, !.deleted = TRUE] \in RunRecord
      BY <1>6 DEF RunRecord
    <3>2. disk' = disk \/ disk' = [disk EXCEPT ![r] = [disk[r] EXCEPT !.record =
             [disk[r].record EXCEPT !.verdict = disk[r].evaluation, !.deleted = TRUE]]]
      BY <1>12, <2>6 DEF Complete
    <3> QED
      BY <1>5, <3>1, <3>2
  <2>7. CASE Qualify(r)
    <3>1. [outcome |-> "mission-complete", stopped |-> TRUE, verdict |-> disk[r].evaluation,
           deleted |-> TRUE] \in RunRecord
      BY <1>6 DEF RunRecord
    <3> QED
      BY <1>12, <2>7, <1>5, <3>1 DEF Qualify
  <2>8. CASE Recover(r)
    <3> DEFINE b == mem[r].stopped # "unknown" /\ group[r] = "gone"
               v == IF disk[r].source THEN disk[r].evaluation ELSE "none"
               k == [outcome |-> "mission-failed", stopped |-> b, verdict |-> v, deleted |-> FALSE]
    <3>1. b \in BOOLEAN /\ v \in {"none", "pass", "fail"}
      BY <1>6
    <3>2. disk' = disk \/ disk' = [disk EXCEPT ![r].record = k]
      BY <1>12, <2>8 DEF Recover
    <3>3. k \in RunRecord
      <4> HIDE DEF b, v
      <4> QED
        BY <3>1 DEF RunRecord
    <3> HIDE DEF k
    <3> QED
      BY <1>5, <3>2, <3>3
  <2> QED
    BY <1>12, <2>1, <2>2, <2>3, <2>4, <2>5, <2>6, <2>7, <2>8 DEF Concluding
<1>13. Stays
  BY <1>7, <1>8, <1>9, <1>10, <1>11, <1>12 DEF StepOf, Main
<1> QED
  BY <1>13 DEF FinalTypeOK, TypeOK

\* A step of a run ends at a point of the program.
LEMMA PcType ==
    ASSUME FinalTypeOK, NEW r \in Runs, StepOf(r)
    PROVE  pc' \in [Runs -> Setup \cup Flying \cup Landing \cup Finalizing \cup Ended]
<1> DEFINE Typed == pc' \in [Runs -> Setup \cup Flying \cup Landing \cup Finalizing \cup Ended]
<1> USE DEF world, given, evaluators, Goto, Trip, Calm, Raise, GiveUp, Setup, Flying, Landing,
            Finalizing, Ended
<1>1. ASSUME Launching(r), UNCHANGED evaluators PROVE Typed
  <2>1. CASE Prepare(r) \/ Validate(r) \/ Acquire(r)
    BY <1>1, <2>1 DEF Prepare, Validate, Acquire, FinalTypeOK, TypeOK
  <2>2. CASE Arm(r)
    BY <1>1, <2>2 DEF Arm, FinalTypeOK, TypeOK
  <2>3. CASE Unstage(r)
    BY <1>1, <2>3 DEF Unstage, FinalTypeOK, TypeOK
  <2>4. CASE Announce(r)
    BY <1>1, <2>4 DEF Announce, FinalTypeOK, TypeOK
  <2>5. CASE Stage(r)
    <3>1. CASE \E step \in {"staged", "closing", "recovering", "refused"} :
                   pc' = [pc EXCEPT ![r] = step]
      BY <3>1 DEF FinalTypeOK, TypeOK
    <3> QED
      BY <1>1, <2>5, <3>1 DEF Stage
  <2>6. CASE Link(r)
    <3>1. CASE \E step \in {"linked", "closing", "recovering", "refused"} :
                   pc' = [pc EXCEPT ![r] = step]
      BY <3>1 DEF FinalTypeOK, TypeOK
    <3> QED
      BY <1>1, <2>6, <3>1 DEF Link
  <2> QED
    BY <1>1, <2>1, <2>2, <2>3, <2>4, <2>5, <2>6 DEF Launching
<1>2. ASSUME Executing(r), UNCHANGED evaluators PROVE Typed
  <2>1. CASE Spawn(r) \/ Poll(r)
    BY <1>2, <2>1 DEF Spawn, Poll, FinalTypeOK, TypeOK
  <2>2. CASE Reap(r)
    BY <1>2, <2>2 DEF Reap, FinalTypeOK, TypeOK
  <2>3. CASE Correlate(r)
    BY <1>2, <2>3 DEF Correlate, FinalTypeOK, TypeOK
  <2> QED
    BY <1>2, <2>1, <2>2, <2>3 DEF Executing
<1>3. ASSUME Returning(r), UNCHANGED evaluators PROVE Typed
  BY <1>3 DEF Returning, StopBeat, Quiesce, Abandon, Conclude, Terminate, Record, Unlock,
     FinalTypeOK, TypeOK
<1>4. ASSUME Beat(r), UNCHANGED evaluators PROVE Typed
  BY <1>4 DEF Beat, BeatWakes, BeatWrites, BeatEnds, FinalTypeOK, TypeOK
<1>5. ASSUME Outside(r), UNCHANGED evaluators PROVE Typed
  BY <1>5 DEF Outside, LeaderExits, OrphansEnd, Review, Crash, FinalTypeOK, TypeOK
<1>6. ASSUME Concluding(r) PROVE Typed
  BY <1>6 DEF Concluding, Admit, Discover, Export, Freeze, Inspect, StartVm, Claim, Evaluate,
     DeleteVm, Complete, Qualify, Recover, FinalTypeOK, TypeOK
<1> QED
  BY <1>1, <1>2, <1>3, <1>4, <1>5, <1>6 DEF StepOf, Main

\* What a step adds to the runs directory is an entry of the run that takes it.
LEMMA EntryType ==
    ASSUME FinalTypeOK, NEW r \in Runs, StepOf(r)
    PROVE  entries' \subseteq Entry
<1> DEFINE Typed == entries' \subseteq Entry
<1> USE DEF world, given, evaluators, Goto, Trip, Calm, Raise, GiveUp
<1> Own(r, TRUE) \in Entry /\ Own(r, FALSE) \in Entry
  BY DEF FinalTypeOK, TypeOK, Own, Entry
<1>1. ASSUME Launching(r), UNCHANGED evaluators PROVE Typed
  <2>1. CASE Prepare(r) \/ Validate(r) \/ Acquire(r) \/ Arm(r)
    BY <1>1, <2>1 DEF Prepare, Validate, Acquire, Arm, FinalTypeOK, TypeOK
  <2>2. CASE Stage(r)
    BY <1>1, <2>2 DEF Stage, FinalTypeOK, TypeOK
  <2>3. CASE Link(r)
    <3>1. entries' = entries \ {Own(r, TRUE)} \/ entries' = entries \cup {Own(r, FALSE)}
      BY <2>3 DEF Link
    <3> QED
      BY <3>1 DEF FinalTypeOK, TypeOK
  <2>4. CASE Unstage(r) \/ Announce(r)
    BY <1>1, <2>4 DEF Unstage, Announce, FinalTypeOK, TypeOK
  <2> QED
    BY <1>1, <2>1, <2>2, <2>3, <2>4 DEF Launching
<1>2. ASSUME Executing(r), UNCHANGED evaluators PROVE Typed
  BY <1>2 DEF Executing, Spawn, Poll, Reap, Correlate, FinalTypeOK, TypeOK
<1>3. ASSUME Returning(r), UNCHANGED evaluators PROVE Typed
  BY <1>3 DEF Returning, StopBeat, Quiesce, Abandon, Conclude, Terminate, Record, Unlock,
     FinalTypeOK, TypeOK
<1>4. ASSUME Beat(r), UNCHANGED evaluators PROVE Typed
  BY <1>4 DEF Beat, BeatWakes, BeatWrites, BeatEnds, FinalTypeOK, TypeOK
<1>5. ASSUME Outside(r), UNCHANGED evaluators PROVE Typed
  BY <1>5 DEF Outside, LeaderExits, OrphansEnd, Review, Crash, FinalTypeOK, TypeOK
<1>6. ASSUME Concluding(r) PROVE Typed
  BY <1>6 DEF Concluding, Admit, Discover, Export, Freeze, Inspect, StartVm, Claim, Evaluate,
     DeleteVm, Complete, Qualify, Recover, FinalTypeOK, TypeOK
<1> QED
  BY <1>1, <1>2, <1>3, <1>4, <1>5, <1>6 DEF StepOf, Main

\* The rest of the state of MissionRuntime.
LEMMA RunTypes ==
    ASSUME FinalTypeOK, NEW r \in Runs, StepOf(r)
    PROVE  /\ kind' \in [Runs -> Kinds] /\ pre' \in [Runs -> Preflights]
           /\ lock' \in Runs \cup {Nobody} /\ review' \in [Runs -> SUBSET Flags]
           /\ beat' \in [Runs -> {"off", "idle", "writing", "dead"}]
           /\ group' \in [Runs -> {"none", "running", "orphans", "gone"}]
<1> DEFINE Typed == /\ kind' \in [Runs -> Kinds] /\ pre' \in [Runs -> Preflights]
                    /\ lock' \in Runs \cup {Nobody} /\ review' \in [Runs -> SUBSET Flags]
                    /\ beat' \in [Runs -> {"off", "idle", "writing", "dead"}]
                    /\ group' \in [Runs -> {"none", "running", "orphans", "gone"}]
<1> USE DEF world, given, evaluators, Goto, Trip, Calm, Raise, GiveUp
<1>1. ASSUME Launching(r), UNCHANGED evaluators PROVE Typed
  BY <1>1 DEF Launching, Prepare, Validate, Acquire, Arm, Stage, Link, Unstage, Announce,
     FinalTypeOK, TypeOK
<1>2. ASSUME Executing(r), UNCHANGED evaluators PROVE Typed
  <2>1. CASE Spawn(r) \/ Poll(r)
    BY <1>2, <2>1 DEF Spawn, Poll, FinalTypeOK, TypeOK
  <2>2. CASE Reap(r)
    BY <1>2, <2>2 DEF Reap, FinalTypeOK, TypeOK, Survivors
  <2>3. CASE Correlate(r)
    BY <1>2, <2>3 DEF Correlate, FinalTypeOK, TypeOK
  <2> QED
    BY <1>2, <2>1, <2>2, <2>3 DEF Executing
<1>3. ASSUME Returning(r), UNCHANGED evaluators PROVE Typed
  BY <1>3 DEF Returning, StopBeat, Quiesce, Abandon, Conclude, Terminate, Record, Unlock,
     FinalTypeOK, TypeOK
<1>4. ASSUME Beat(r), UNCHANGED evaluators PROVE Typed
  BY <1>4 DEF Beat, BeatWakes, BeatWrites, BeatEnds, FinalTypeOK, TypeOK
<1>5. ASSUME Outside(r), UNCHANGED evaluators PROVE Typed
  BY <1>5 DEF Outside, LeaderExits, OrphansEnd, Review, Crash, FinalTypeOK, TypeOK
<1>6. ASSUME Concluding(r) PROVE Typed
  BY <1>6 DEF Concluding, Admit, Discover, Export, Freeze, Inspect, StartVm, Claim, Evaluate,
     DeleteVm, Complete, Qualify, Recover, FinalTypeOK, TypeOK
<1> QED
  BY <1>1, <1>2, <1>3, <1>4, <1>5, <1>6 DEF StepOf, Main

\* A step counts at most one fault, and none beyond the bound.
LEMMA FaultType ==
    ASSUME FinalTypeOK, NEW r \in Runs, StepOf(r)
    PROVE  faults' = faults \/ (faults < MaxFaults /\ faults' = faults + 1)
<1> DEFINE Typed == faults' = faults \/ (faults < MaxFaults /\ faults' = faults + 1)
<1> USE DEF world, given, evaluators, Goto, Trip, Calm, Raise, GiveUp
<1>1. ASSUME Launching(r), UNCHANGED evaluators PROVE Typed
  BY <1>1 DEF Launching, Prepare, Validate, Acquire, Arm, Stage, Link, Unstage, Announce
<1>2. ASSUME Executing(r), UNCHANGED evaluators PROVE Typed
  BY <1>2 DEF Executing, Spawn, Poll, Reap, Correlate
<1>3. ASSUME Returning(r), UNCHANGED evaluators PROVE Typed
  BY <1>3 DEF Returning, StopBeat, Quiesce, Abandon, Conclude, Terminate, Record, Unlock
<1>4. ASSUME Beat(r), UNCHANGED evaluators PROVE Typed
  BY <1>4 DEF Beat, BeatWakes, BeatWrites, BeatEnds
<1>5. ASSUME Outside(r), UNCHANGED evaluators PROVE Typed
  BY <1>5 DEF Outside, LeaderExits, OrphansEnd, Review, Crash
<1>6. ASSUME Concluding(r) PROVE Typed
  BY <1>6 DEF Concluding, Admit, Discover, Export, Freeze, Inspect, StartVm, Claim, Evaluate,
     DeleteVm, Complete, Qualify, Recover
<1> QED
  BY <1>1, <1>2, <1>3, <1>4, <1>5, <1>6 DEF StepOf, Main

\* The state of MissionFinalization: names, machines and errors.
LEMMA EvaluatorTypes ==
    ASSUME FinalTypeOK, NEW r \in Runs, StepOf(r)
    PROVE  /\ name' \in [Runs -> Names] /\ vm' \in [Names -> Runs \cup {Nobody, Foreign}]
           /\ error' \in [Runs -> BOOLEAN]
<1> DEFINE Typed == /\ name' \in [Runs -> Names] /\ vm' \in [Names -> Runs \cup {Nobody, Foreign}]
                    /\ error' \in [Runs -> BOOLEAN]
<1> USE DEF world, given, evaluators, Goto, Trip, Calm, Raise, GiveUp, SetVm, Vm
<1>1. ASSUME Launching(r), UNCHANGED evaluators PROVE Typed
  BY <1>1 DEF Launching, Prepare, Validate, Acquire, Arm, Stage, Link, Unstage, Announce,
     FinalTypeOK, TypeOK
<1>2. ASSUME Executing(r), UNCHANGED evaluators PROVE Typed
  BY <1>2 DEF Executing, Spawn, Poll, Reap, Correlate, FinalTypeOK, TypeOK
<1>3. ASSUME Returning(r), UNCHANGED evaluators PROVE Typed
  BY <1>3 DEF Returning, StopBeat, Quiesce, Abandon, Conclude, Terminate, Record, Unlock,
     FinalTypeOK, TypeOK
<1>4. ASSUME Beat(r), UNCHANGED evaluators PROVE Typed
  BY <1>4 DEF Beat, BeatWakes, BeatWrites, BeatEnds, FinalTypeOK, TypeOK
<1>5. ASSUME Outside(r), UNCHANGED evaluators PROVE Typed
  BY <1>5 DEF Outside, LeaderExits, OrphansEnd, Review, Crash, FinalTypeOK, TypeOK
<1>6. ASSUME Concluding(r) PROVE Typed
  <2>1. CASE Admit(r) \/ Discover(r) \/ Export(r) \/ Freeze(r) \/ Inspect(r) \/ Claim(r)
             \/ Evaluate(r) \/ DeleteVm(r) \/ Complete(r) \/ Qualify(r) \/ Recover(r)
    BY <1>6, <2>1 DEF Admit, Discover, Export, Freeze, Inspect, Claim, Evaluate, DeleteVm,
       Complete, Qualify, Recover, FinalTypeOK, TypeOK
  <2>2. CASE StartVm(r)
    <3>1. name' = name /\ name[r] \in Names
      BY <1>6, <2>2 DEF StartVm, FinalTypeOK
    <3>2. vm' = vm \/ vm' = [vm EXCEPT ![name[r]] = r]
      BY <1>6, <2>2 DEF StartVm
    <3>3. error' = error \/ error' = [error EXCEPT ![r] = TRUE]
      BY <1>6, <2>2 DEF StartVm
    <3>4. vm' \in [Names -> Runs \cup {Nobody, Foreign}]
      BY <3>1, <3>2 DEF FinalTypeOK
    <3>5. error' \in [Runs -> BOOLEAN]
      BY <3>3 DEF FinalTypeOK
    <3> QED
      BY <3>1, <3>4, <3>5 DEF FinalTypeOK
  <2> QED
    BY <1>6, <2>1, <2>2 DEF Concluding
<1> QED
  BY <1>1, <1>2, <1>3, <1>4, <1>5, <1>6 DEF StepOf, Main

\* Types are kept by every step.
LEMMA TypeStep == ASSUME FinalTypeOK, [Next]_allvars PROVE FinalTypeOK'
<1>1. ASSUME NEW r \in Runs, StepOf(r) PROVE FinalTypeOK'
  <2>1. faults' \in 0..MaxFaults
    BY <1>1, FaultType, RuntimeAssumption DEF FinalTypeOK, TypeOK
  <2> QED
    BY <1>1, <2>1, PcType, MemType, DiskType, EntryType, RunTypes, EvaluatorTypes
       DEF FinalTypeOK, TypeOK
<1>2. CASE Intrude
  BY <1>2, RuntimeAssumption DEF Intrude, Trip, given, FinalTypeOK, TypeOK
<1>3. CASE UNCHANGED allvars
  BY <1>3 DEF allvars, vars, given, evaluators, FinalTypeOK, TypeOK
<1> QED
  BY <1>1, <1>2, <1>3 DEF Next, StepOf

\* A step of one run changes no other run's point, group, memory, directory or heartbeat.
LEMMA Elsewhere ==
    ASSUME FinalTypeOK, NEW r \in Runs, StepOf(r), NEW s \in Runs \ {r}
    PROVE  /\ pc'[s] = pc[s] /\ group'[s] = group[s] /\ mem'[s] = mem[s]
           /\ disk'[s] = disk[s] /\ beat'[s] = beat[s]
<1> DEFINE Same == /\ pc'[s] = pc[s] /\ group'[s] = group[s] /\ mem'[s] = mem[s]
                  /\ disk'[s] = disk[s] /\ beat'[s] = beat[s]
<1> USE DEF world, given, evaluators, Goto, Trip, Calm, Raise, GiveUp
<1>1. ASSUME Launching(r), UNCHANGED evaluators PROVE Same
  BY <1>1 DEF Launching, Prepare, Validate, Acquire, Arm, Stage, Link, Unstage, Announce,
     FinalTypeOK, TypeOK
<1>2. ASSUME Executing(r), UNCHANGED evaluators PROVE Same
  BY <1>2 DEF Executing, Spawn, Poll, Reap, Correlate, FinalTypeOK, TypeOK
<1>3. ASSUME Returning(r), UNCHANGED evaluators PROVE Same
  BY <1>3 DEF Returning, StopBeat, Quiesce, Abandon, Conclude, Terminate, Record, Unlock,
     FinalTypeOK, TypeOK
<1>4. ASSUME Beat(r), UNCHANGED evaluators PROVE Same
  BY <1>4 DEF Beat, BeatWakes, BeatWrites, BeatEnds, FinalTypeOK, TypeOK
<1>5. ASSUME Outside(r), UNCHANGED evaluators PROVE Same
  BY <1>5 DEF Outside, LeaderExits, OrphansEnd, Review, Crash, FinalTypeOK, TypeOK
<1>6. ASSUME Concluding(r) PROVE Same
  BY <1>6 DEF Concluding, Admit, Discover, Export, Freeze, Inspect, StartVm, Claim, Evaluate,
     DeleteVm, Complete, Qualify, Recover, FinalTypeOK, TypeOK
<1> QED
  BY <1>1, <1>2, <1>3, <1>4, <1>5, <1>6 DEF StepOf, Main

\* Of what runs share, a step of one takes no lock, entry or machine from another.
LEMMA Shared ==
    ASSUME FinalTypeOK, NEW r \in Runs, Holds(r), StepOf(r)
    PROVE  /\ kind' = kind /\ pre' = pre /\ name' = name
           /\ \A s \in Runs \ {r} : /\ lock = s => lock' = s
                                    /\ Own(s, FALSE) \in entries => Own(s, FALSE)' \in entries'
                                    /\ \A n \in Names : vm'[n] = s => vm[n] = s
<1> DEFINE Kept == /\ kind' = kind /\ pre' = pre /\ name' = name
                  /\ \A s \in Runs \ {r} : /\ lock = s => lock' = s
                                           /\ Own(s, FALSE) \in entries => Own(s, FALSE)' \in entries'
                                           /\ \A n \in Names : vm'[n] = s => vm[n] = s
<1> USE RuntimeAssumption, FinalizationAssumption
        DEF world, given, evaluators, Goto, Trip, Calm, Raise, GiveUp, Own, SetVm, Vm
<1>1. ASSUME Launching(r), UNCHANGED evaluators PROVE Kept
  <2>1. CASE Prepare(r) \/ Validate(r)
    BY <1>1, <2>1 DEF Prepare, Validate, FinalTypeOK, TypeOK
  <2>2. CASE Acquire(r)
    BY <1>1, <2>2 DEF Acquire, FinalTypeOK, TypeOK
  <2>3. CASE Arm(r)
    BY <1>1, <2>3 DEF Arm, FinalTypeOK, TypeOK
  <2>4. CASE Stage(r) \/ Link(r) \/ Unstage(r) \/ Announce(r)
    BY <1>1, <2>4 DEF Stage, Link, Unstage, Announce, FinalTypeOK, TypeOK
  <2> QED
    BY <1>1, <2>1, <2>2, <2>3, <2>4 DEF Launching
<1>2. ASSUME Executing(r), UNCHANGED evaluators PROVE Kept
  BY <1>2 DEF Executing, Spawn, Poll, Reap, Correlate, FinalTypeOK, TypeOK
<1>3. ASSUME Returning(r), UNCHANGED evaluators PROVE Kept
  <2>1. CASE StopBeat(r) \/ Quiesce(r) \/ Conclude(r) \/ Terminate(r) \/ Record(r)
    BY <1>3, <2>1 DEF StopBeat, Quiesce, Conclude, Terminate, Record, FinalTypeOK, TypeOK
  <2>2. CASE Abandon(r)
    <3>1. lock' = lock \/ (lock = r /\ lock' = Nobody)
      BY <1>3, <2>2 DEF Abandon, Holds, Setup, Flying, Landing, Judging
    <3> QED
      BY <1>3, <2>2, <3>1 DEF Abandon, FinalTypeOK, TypeOK
  <2>3. CASE Unlock(r)
    <3>1. lock' = lock \/ (lock = r /\ lock' = Nobody)
      BY <1>3, <2>3 DEF Unlock, Holds, Setup, Flying, Landing, Judging
    <3> QED
      BY <1>3, <2>3, <3>1 DEF Unlock, FinalTypeOK, TypeOK
  <2> QED
    BY <1>3, <2>1, <2>2, <2>3 DEF Returning
<1>4. ASSUME Beat(r), UNCHANGED evaluators PROVE Kept
  BY <1>4 DEF Beat, BeatWakes, BeatWrites, BeatEnds, FinalTypeOK, TypeOK
<1>5. ASSUME Outside(r), UNCHANGED evaluators PROVE Kept
  <2>1. CASE LeaderExits(r) \/ OrphansEnd(r)
    BY <1>5, <2>1 DEF LeaderExits, OrphansEnd, FinalTypeOK, TypeOK
  <2>2. CASE Review(r)
    BY <1>5, <2>2 DEF Review, FinalTypeOK, TypeOK
  <2>3. CASE Crash(r)
    BY <1>5, <2>3 DEF Crash, FinalTypeOK, TypeOK
  <2> QED
    BY <1>5, <2>1, <2>2, <2>3 DEF Outside
<1>6. ASSUME Concluding(r) PROVE Kept
  <2>1. CASE Admit(r) \/ Discover(r) \/ Export(r)
    BY <1>6, <2>1 DEF Admit, Discover, Export, FinalTypeOK, TypeOK
  <2>2. CASE Freeze(r)
    BY <1>6, <2>2 DEF Freeze, FinalTypeOK, TypeOK
  <2>3. CASE Inspect(r)
    BY <1>6, <2>3 DEF Inspect, FinalTypeOK, TypeOK
  <2>4. CASE StartVm(r)
    BY <1>6, <2>4 DEF StartVm, FinalTypeOK, TypeOK
  <2>5. CASE Claim(r)
    BY <1>6, <2>5 DEF Claim, FinalTypeOK, TypeOK
  <2>6. CASE Evaluate(r)
    BY <1>6, <2>6 DEF Evaluate, FinalTypeOK, TypeOK
  <2>7. CASE DeleteVm(r)
    BY <1>6, <2>7 DEF DeleteVm, FinalTypeOK, TypeOK
  <2>8. CASE Complete(r) \/ Qualify(r) \/ Recover(r)
    BY <1>6, <2>8 DEF Complete, Qualify, Recover, FinalTypeOK, TypeOK
  <2> QED
    BY <1>6, <2>1, <2>2, <2>3, <2>4, <2>5, <2>6, <2>7, <2>8 DEF Concluding
<1> QED
  BY <1>1, <1>2, <1>3, <1>4, <1>5, <1>6 DEF StepOf, Main

\* A run's own step keeps what is said of its lock: only Acquire takes it, only Unlock drops
\* it.
LEMMA HoldsOwn ==
    ASSUME FinalTypeOK, NEW r \in Runs, Holds(r), Measured(r), StepOf(r)
    PROVE  Holds(r)'
<1> USE DEF world, given, evaluators, Goto, Trip, Calm, Raise, GiveUp, Setup, Flying, Landing,
            Finalizing, Ended, Judging, Evaluating
<1>1. /\ Missions' = Missions /\ Baselines' = Baselines
      /\ r \in Baselines <=> r \notin Missions
  BY Shared DEF Missions, Baselines
<1>2. ASSUME Launching(r), UNCHANGED evaluators PROVE Holds(r)'
  <2>1. CASE Prepare(r)
    BY <1>1, <1>2, <2>1 DEF Prepare, FinalTypeOK, TypeOK, Memory, Holds, Alive
  <2>2. CASE Validate(r)
    BY <1>1, <1>2, <2>2 DEF Validate, FinalTypeOK, TypeOK, Memory, Holds, Alive
  <2>3. CASE Acquire(r)
    BY <1>1, <1>2, <2>3 DEF Acquire, FinalTypeOK, TypeOK, Memory, Holds, Alive
  <2>4. CASE Arm(r)
    <3>1. CASE Goto(r, "armed") /\ UNCHANGED mem
      BY <1>1, <1>2, <2>4, <3>1 DEF Arm, FinalTypeOK, TypeOK, Memory, Holds, Alive
    <3>2. CASE Raise(r)
      BY <1>1, <1>2, <2>4, <3>2 DEF Arm, FinalTypeOK, TypeOK, Memory, Holds, Alive
    <3> QED
      BY <1>2, <2>4, <3>1, <3>2 DEF Arm
  <2>5. CASE Stage(r)
    <3>1. CASE Goto(r, "staged") /\ UNCHANGED mem
      BY <1>1, <1>2, <2>5, <3>1 DEF Stage, FinalTypeOK, TypeOK, Memory, Holds, Alive
    <3>2. CASE Raise(r)
      BY <1>1, <1>2, <2>5, <3>2 DEF Stage, FinalTypeOK, TypeOK, Memory, Holds, Alive
    <3> QED
      BY <1>1, <1>2, <2>5, <3>1, <3>2 DEF Stage
  <2>6. CASE Link(r)
    <3>1. CASE Goto(r, "linked") /\ UNCHANGED mem
      BY <1>1, <1>2, <2>6, <3>1 DEF Link, FinalTypeOK, TypeOK, Memory, Holds, Alive
    <3>2. CASE Raise(r)
      BY <1>1, <1>2, <2>6, <3>2 DEF Link, FinalTypeOK, TypeOK, Memory, Holds, Alive
    <3> QED
      BY <1>1, <1>2, <2>6, <3>1, <3>2 DEF Link
  <2>7. CASE Unstage(r)
    BY <1>1, <1>2, <2>7 DEF Unstage, FinalTypeOK, TypeOK, Memory, Holds, Alive
  <2>8. CASE Announce(r)
    <3>1. pc[r] = "counted" /\ pc'[r] \in {"spawning", "closing"} /\ r \in Missions
          /\ UNCHANGED <<lock, group>>
      BY <1>1, <1>2, <2>8 DEF Announce, FinalTypeOK, TypeOK
    <3>2. mem'[r].acquired = mem[r].acquired /\ mem'[r].launched = mem[r].launched
      BY <1>2, <2>8 DEF Announce, FinalTypeOK, TypeOK, Memory
    <3> QED
      BY <1>1, <3>1, <3>2 DEF Holds, Alive
  <2> QED
    BY <1>2, <2>1, <2>2, <2>3, <2>4, <2>5, <2>6, <2>7, <2>8 DEF Launching
<1>3. ASSUME Executing(r), UNCHANGED evaluators PROVE Holds(r)'
  <2>1. CASE Spawn(r)
    BY <1>1, <1>3, <2>1 DEF Spawn, FinalTypeOK, TypeOK, Memory, Holds, Alive
  <2>2. CASE Poll(r)
    BY <1>1, <1>3, <2>2 DEF Poll, FinalTypeOK, TypeOK, Memory, Holds, Alive
  <2>3. CASE Reap(r)
    BY <1>1, <1>3, <2>3 DEF Reap, FinalTypeOK, TypeOK, Memory, Holds, Alive
  <2>4. CASE Correlate(r)
    BY <1>1, <1>3, <2>4 DEF Correlate, FinalTypeOK, TypeOK, Memory, Holds, Alive
  <2> QED
    BY <1>3, <2>1, <2>2, <2>3, <2>4 DEF Executing
<1>4. ASSUME Returning(r), UNCHANGED evaluators PROVE Holds(r)'
  <2>1. CASE StopBeat(r)
    BY <1>1, <1>4, <2>1 DEF StopBeat, FinalTypeOK, TypeOK, Memory, Holds, Alive
  <2>2. CASE Quiesce(r)
    BY <1>1, <1>4, <2>2 DEF Quiesce, FinalTypeOK, TypeOK, Memory, Holds, Alive
  <2>3. CASE Abandon(r)
    <3>1. ~Alive(r)
      BY <1>1, <1>4, <2>3 DEF Abandon, Measured, Alive
    <3> QED
      BY <1>1, <1>4, <2>3, <3>1 DEF Abandon, FinalTypeOK, TypeOK, Memory, Holds, Alive
  <2>4. CASE Conclude(r)
    BY <1>1, <1>4, <2>4 DEF Conclude, FinalTypeOK, TypeOK, Memory, Holds, Alive
  <2>5. CASE Terminate(r)
    BY <1>1, <1>4, <2>5 DEF Terminate, FinalTypeOK, TypeOK, Memory, Holds, Alive
  <2>6. CASE Record(r)
    BY <1>1, <1>4, <2>6 DEF Record, FinalTypeOK, TypeOK, Memory, Holds, Alive
  <2>7. CASE Unlock(r)
    <3>1. MayUnlock(r) => ~Alive(r)
      BY <1>1, <1>4, <2>7 DEF Unlock, MayUnlock, Measured, Alive, Holds
    <3>2. Alive(r)' = Alive(r) /\ pc'[r] \in {"failed", "returned"}
      BY <1>1, <1>4, <2>7 DEF Unlock, Alive, FinalTypeOK, TypeOK
    <3>3. mem'[r].launched = mem[r].launched /\ mem'[r].acquired = mem[r].acquired
      BY <1>1, <1>4, <2>7 DEF Unlock, FinalTypeOK, TypeOK, Memory
    <3>4. lock' = lock \/ (lock' = Nobody /\ MayUnlock(r))
      BY <1>1, <1>4, <2>7 DEF Unlock
    <3> QED
      BY <1>1, <3>1, <3>2, <3>3, <3>4 DEF Holds
  <2> QED
    BY <1>4, <2>1, <2>2, <2>3, <2>4, <2>5, <2>6, <2>7 DEF Returning
<1>5. ASSUME Beat(r), UNCHANGED evaluators PROVE Holds(r)'
  <2>1. CASE BeatWakes(r)
    BY <1>1, <1>5, <2>1 DEF BeatWakes, FinalTypeOK, TypeOK, Memory, Holds, Alive
  <2>2. CASE BeatWrites(r)
    <3>1. CASE UNCHANGED mem
      BY <1>1, <1>5, <2>2, <3>1 DEF BeatWrites, FinalTypeOK, TypeOK, Memory, Holds, Alive
    <3>2. CASE mem' = [mem EXCEPT ![r].checks = TRUE]
      BY <1>1, <1>5, <2>2, <3>2 DEF BeatWrites, FinalTypeOK, TypeOK, Memory, Holds, Alive
    <3> QED
      BY <1>1, <1>5, <2>2, <3>1, <3>2 DEF BeatWrites
  <2>3. CASE BeatEnds(r)
    BY <1>1, <1>5, <2>3 DEF BeatEnds, FinalTypeOK, TypeOK, Memory, Holds, Alive
  <2> QED
    BY <1>5, <2>1, <2>2, <2>3 DEF Beat
<1>6. ASSUME Outside(r), UNCHANGED evaluators PROVE Holds(r)'
  <2>1. CASE LeaderExits(r)
    BY <1>1, <1>6, <2>1 DEF LeaderExits, FinalTypeOK, TypeOK, Memory, Holds, Alive
  <2>2. CASE OrphansEnd(r)
    BY <1>1, <1>6, <2>2 DEF OrphansEnd, FinalTypeOK, TypeOK, Memory, Holds, Alive
  <2>3. CASE Review(r)
    BY <1>1, <1>6, <2>3 DEF Review, FinalTypeOK, TypeOK, Memory, Holds, Alive
  <2>4. CASE Crash(r)
    BY <1>1, <1>6, <2>4 DEF Crash, FinalTypeOK, TypeOK, Memory, Holds, Alive
  <2> QED
    BY <1>6, <2>1, <2>2, <2>3, <2>4 DEF Outside
<1>7. ASSUME Concluding(r) PROVE Holds(r)'
  <2>1. CASE Admit(r)
    BY <1>1, <1>7, <2>1 DEF Admit, FinalTypeOK, TypeOK, Memory, Holds, Alive
  <2>2. CASE Discover(r)
    BY <1>1, <1>7, <2>2 DEF Discover, FinalTypeOK, TypeOK, Memory, Holds, Alive
  <2>3. CASE Export(r)
    BY <1>1, <1>7, <2>3 DEF Export, FinalTypeOK, TypeOK, Memory, Holds, Alive
  <2>4. CASE Freeze(r)
    BY <1>1, <1>7, <2>4 DEF Freeze, FinalTypeOK, TypeOK, Memory, Holds, Alive
  <2>5. CASE Inspect(r)
    BY <1>1, <1>7, <2>5 DEF Inspect, FinalTypeOK, TypeOK, Memory, Holds, Alive
  <2>6. CASE StartVm(r)
    BY <1>1, <1>7, <2>6 DEF StartVm, FinalTypeOK, TypeOK, Memory, Holds, Alive
  <2>7. CASE Claim(r)
    BY <1>1, <1>7, <2>7 DEF Claim, FinalTypeOK, TypeOK, Memory, Holds, Alive
  <2>8. CASE Evaluate(r)
    BY <1>1, <1>7, <2>8 DEF Evaluate, FinalTypeOK, TypeOK, Memory, Holds, Alive
  <2>9. CASE DeleteVm(r)
    BY <1>1, <1>7, <2>9 DEF DeleteVm, FinalTypeOK, TypeOK, Memory, Holds, Alive
  <2>10. CASE Complete(r)
    BY <1>1, <1>7, <2>10 DEF Complete, FinalTypeOK, TypeOK, Memory, Holds, Alive
  <2>11. CASE Qualify(r)
    BY <1>1, <1>7, <2>11 DEF Qualify, FinalTypeOK, TypeOK, Memory, Holds, Alive
  <2>12. CASE Recover(r)
    BY <1>1, <1>7, <2>12 DEF Recover, FinalTypeOK, TypeOK, Memory, Holds, Alive
  <2> QED
    BY <1>7, <2>1, <2>2, <2>3, <2>4, <2>5, <2>6, <2>7, <2>8, <2>9, <2>10, <2>11, <2>12 DEF
       Concluding
<1> QED
  BY <1>2, <1>3, <1>4, <1>5, <1>6, <1>7 DEF StepOf, Main

\* A run's own step keeps what is said of its process group: Reap alone measures it.
LEMMA MeasuredOwn ==
    ASSUME FinalTypeOK, NEW r \in Runs, Holds(r), Measured(r), StepOf(r)
    PROVE  Measured(r)'
<1> USE DEF world, given, evaluators, Goto, Trip, Calm, Raise, GiveUp, Setup, Flying, Landing,
            Finalizing, Ended, Judging, Evaluating
<1>1. /\ Missions' = Missions /\ Baselines' = Baselines
      /\ r \in Baselines <=> r \notin Missions
  BY Shared DEF Missions, Baselines
<1>2. ASSUME Launching(r), UNCHANGED evaluators PROVE Measured(r)'
  <2>1. CASE Prepare(r)
    BY <1>1, <1>2, <2>1 DEF Prepare, FinalTypeOK, TypeOK, Memory, Measured, Alive
  <2>2. CASE Validate(r)
    BY <1>1, <1>2, <2>2 DEF Validate, FinalTypeOK, TypeOK, Memory, Measured, Alive
  <2>3. CASE Acquire(r)
    BY <1>1, <1>2, <2>3 DEF Acquire, FinalTypeOK, TypeOK, Memory, Measured, Alive
  <2>4. CASE Arm(r)
    BY <1>1, <1>2, <2>4 DEF Arm, FinalTypeOK, TypeOK, Memory, Measured, Alive
  <2>5. CASE Stage(r)
    <3>1. CASE Goto(r, "staged") /\ UNCHANGED mem
      BY <1>1, <1>2, <2>5, <3>1 DEF Stage, FinalTypeOK, TypeOK, Memory, Measured, Alive
    <3>2. CASE Raise(r)
      BY <1>1, <1>2, <2>5, <3>2 DEF Stage, FinalTypeOK, TypeOK, Memory, Measured, Alive
    <3> QED
      BY <1>1, <1>2, <2>5, <3>1, <3>2 DEF Stage
  <2>6. CASE Link(r)
    <3>1. CASE Goto(r, "linked") /\ UNCHANGED mem
      BY <1>1, <1>2, <2>6, <3>1 DEF Link, FinalTypeOK, TypeOK, Memory, Measured, Alive
    <3>2. CASE Raise(r)
      BY <1>1, <1>2, <2>6, <3>2 DEF Link, FinalTypeOK, TypeOK, Memory, Measured, Alive
    <3> QED
      BY <1>1, <1>2, <2>6, <3>1, <3>2 DEF Link
  <2>7. CASE Unstage(r)
    BY <1>1, <1>2, <2>7 DEF Unstage, FinalTypeOK, TypeOK, Memory, Measured, Alive
  <2>8. CASE Announce(r)
    <3>1. disk'[r].record = disk[r].record /\ disk'[r].relation = disk[r].relation
      BY <1>1, <1>2, <2>8 DEF Announce, FinalTypeOK, TypeOK, Directory
    <3>2. CASE mem' = [mem EXCEPT ![r].started = TRUE] /\ Goto(r, "spawning")
      BY <1>1, <1>2, <2>8, <3>1, <3>2 DEF Announce, FinalTypeOK, TypeOK, Memory, Measured, Alive
    <3>3. CASE Raise(r)
      BY <1>1, <1>2, <2>8, <3>1, <3>3 DEF Announce, FinalTypeOK, TypeOK, Memory, Measured, Alive
    <3> QED
      BY <1>1, <1>2, <2>8, <3>2, <3>3 DEF Announce
  <2> QED
    BY <1>2, <2>1, <2>2, <2>3, <2>4, <2>5, <2>6, <2>7, <2>8 DEF Launching
<1>3. ASSUME Executing(r), UNCHANGED evaluators PROVE Measured(r)'
  <2>1. CASE Spawn(r)
    <3>1. CASE group' = [group EXCEPT ![r] = "running"] /\ Goto(r, "running") /\ UNCHANGED mem
      <4>1. group'[r] = "running" /\ pc'[r] = "running"
        BY <3>1 DEF FinalTypeOK, TypeOK
      <4> QED
        BY <1>1, <1>3, <2>1, <3>1, <4>1 DEF Spawn, Measured, Alive
    <3>2. CASE /\ pc'[r] \in {"closing", "recovering"}
               /\ mem' = [mem EXCEPT ![r].error = TRUE,
                                     ![r].stopped = IF r \in Missions THEN "yes" ELSE @]
      BY <1>1, <1>3, <2>1, <3>2 DEF Spawn, FinalTypeOK, TypeOK, Memory, Measured, Alive
    <3> QED
      BY <1>1, <1>3, <2>1, <3>1, <3>2 DEF Spawn, FinalTypeOK, TypeOK
  <2>2. CASE Poll(r)
    <3>1. CASE \E code \in {"zero", "other"} : mem' = [mem EXCEPT ![r].result = code]
      BY <1>1, <1>3, <2>2, <3>1 DEF Poll, FinalTypeOK, TypeOK, Memory, Measured, Alive
    <3>2. CASE \E code \in {"zero", "other"} :
                   mem' = [mem EXCEPT ![r].result = code, ![r].checks = TRUE]
      BY <1>1, <1>3, <2>2, <3>2 DEF Poll, FinalTypeOK, TypeOK, Memory, Measured, Alive
    <3>3. CASE mem' = [mem EXCEPT ![r].error = TRUE]
      BY <1>1, <1>3, <2>2, <3>3 DEF Poll, FinalTypeOK, TypeOK, Memory, Measured, Alive
    <3> QED
      BY <1>1, <1>3, <2>2, <3>1, <3>2, <3>3 DEF Poll
  <2>3. CASE Reap(r)
    <3>1. PICK left \in Survivors(r) :
             /\ group' = [group EXCEPT ![r] = left]
             /\ \E drained \in BOOLEAN :
                  mem' = [mem EXCEPT ![r].stopped = IF left = "gone" THEN "yes" ELSE "no",
                                     ![r].error = @ \/ ~drained \/ (r \in Baselines /\ left # "gone"),
                                     ![r].result = IF drained THEN @ ELSE "none"]
      BY <1>1, <1>3, <2>3 DEF Reap
    <3>2. /\ mem'[r].launched = mem[r].launched /\ mem'[r].started = mem[r].started
          /\ mem'[r].stopped = IF left = "gone" THEN "yes" ELSE "no"
          /\ r \in Baselines /\ left # "gone" => mem'[r].error
      BY <3>1 DEF FinalTypeOK, TypeOK, Memory
    <3>3. group'[r] = left /\ left # "none" /\ pc'[r] = "reaped" /\ disk' = disk
      BY <1>1, <1>3, <2>3, <3>1 DEF Reap, Survivors, Measured, FinalTypeOK, TypeOK
    <3>4. ~Alive(r) => left = "gone"
      BY <1>1, <1>3, <2>3, <3>1 DEF Reap, Survivors, Measured, Alive, FinalTypeOK, TypeOK
    <3> QED
      BY <1>1, <1>3, <2>3, <3>2, <3>3, <3>4 DEF Reap, Measured, Alive
  <2>4. CASE Correlate(r)
    <3>1. disk'[r].record = disk[r].record
      BY <1>1, <1>3, <2>4 DEF Correlate, FinalTypeOK, TypeOK, Directory
    <3>2. CASE ~mem[r].error /\ UNCHANGED mem /\ Goto(r, "closing")
      BY <1>1, <1>3, <2>4, <3>1, <3>2 DEF Correlate, FinalTypeOK, TypeOK, Memory, Measured, Alive
    <3>3. CASE Raise(r)
      BY <1>1, <1>3, <2>4, <3>1, <3>3 DEF Correlate, FinalTypeOK, TypeOK, Memory, Measured, Alive
    <3>4. CASE mem[r].error
      BY <1>1, <1>3, <2>4, <3>1, <3>4 DEF Correlate, FinalTypeOK, TypeOK, Memory, Measured, Alive
    <3> QED
      BY <1>1, <1>3, <2>4, <3>2, <3>3, <3>4 DEF Correlate
  <2> QED
    BY <1>3, <2>1, <2>2, <2>3, <2>4 DEF Executing
<1>4. ASSUME Returning(r), UNCHANGED evaluators PROVE Measured(r)'
  <2>1. CASE StopBeat(r)
    <3>1. CASE UNCHANGED mem
      BY <1>1, <1>4, <2>1, <3>1 DEF StopBeat, FinalTypeOK, TypeOK, Memory, Measured, Alive
    <3>2. CASE mem' = [mem EXCEPT ![r].cleanup = TRUE]
      BY <1>1, <1>4, <2>1, <3>2 DEF StopBeat, FinalTypeOK, TypeOK, Memory, Measured, Alive
    <3> QED
      BY <1>1, <1>4, <2>1, <3>1, <3>2 DEF StopBeat
  <2>2. CASE Quiesce(r)
    <3>1. CASE mem' = [mem EXCEPT ![r].seen = review[r]]
      BY <1>1, <1>4, <2>2, <3>1 DEF Quiesce, FinalTypeOK, TypeOK, Memory, Measured, Alive
    <3>2. CASE mem' = [mem EXCEPT ![r].seen = review[r], ![r].cleanup = TRUE]
      BY <1>1, <1>4, <2>2, <3>2 DEF Quiesce, FinalTypeOK, TypeOK, Memory, Measured, Alive
    <3>3. CASE mem' = [mem EXCEPT ![r].seen = review[r] \cup ({"terminal"} \cap Flags),
                             ![r].checks = TRUE]
      BY <1>1, <1>4, <2>2, <3>3 DEF Quiesce, FinalTypeOK, TypeOK, Memory, Measured, Alive
    <3> QED
      BY <1>1, <1>4, <2>2, <3>1, <3>2, <3>3 DEF Quiesce
  <2>3. CASE Abandon(r)
    BY <1>1, <1>4, <2>3 DEF Abandon, FinalTypeOK, TypeOK, Memory, Measured, Alive
  <2>4. CASE Conclude(r)
    <3>1. CASE mem' = [mem EXCEPT ![r].outcome = Outcome(mem[r])]
      BY <1>1, <1>4, <2>4, <3>1 DEF Conclude, FinalTypeOK, TypeOK, Memory, Measured, Alive
    <3>2. CASE mem' = [mem EXCEPT ![r].outcome = "cleanup-failed", ![r].cleanup = TRUE]
      BY <1>1, <1>4, <2>4, <3>2 DEF Conclude, FinalTypeOK, TypeOK, Memory, Measured, Alive
    <3> QED
      BY <1>1, <1>4, <2>4, <3>1, <3>2 DEF Conclude
  <2>5. CASE Terminate(r)
    <3>1. disk'[r].record = disk[r].record /\ disk'[r].relation = disk[r].relation
      BY <1>1, <1>4, <2>5 DEF Terminate, FinalTypeOK, TypeOK, Directory
    <3>2. CASE UNCHANGED mem
      BY <1>1, <1>4, <2>5, <3>1, <3>2 DEF Terminate, FinalTypeOK, TypeOK, Memory, Measured, Alive
    <3>3. CASE mem' = [mem EXCEPT ![r].outcome = "cleanup-failed", ![r].cleanup = TRUE]
      BY <1>1, <1>4, <2>5, <3>1, <3>3 DEF Terminate, FinalTypeOK, TypeOK, Memory, Measured, Alive
    <3> QED
      BY <1>1, <1>4, <2>5, <3>2, <3>3 DEF Terminate
  <2>6. CASE Record(r)
    <3>1. CASE UNCHANGED disk
      BY <1>1, <1>4, <2>6, <3>1 DEF Record, FinalTypeOK, TypeOK, Memory, Measured, Alive
    <3> DEFINE b == mem[r].stopped = "yes"
    <3>2. CASE disk' = [disk EXCEPT ![r].record =
                               [@ EXCEPT !.outcome = mem[r].outcome, !.stopped = b]]
      <4>1. disk'[r].relation = disk[r].relation
            /\ disk'[r].record = [disk[r].record EXCEPT !.outcome = mem[r].outcome, !.stopped = b]
        BY <3>2 DEF FinalTypeOK, TypeOK, Directory
      <4>2. disk'[r].record.stopped = b
        <5> HIDE DEF b
        <5> QED
          BY <4>1 DEF FinalTypeOK, TypeOK, Directory, RunRecord
      <4> QED
        BY <1>1, <1>4, <2>6, <4>1, <4>2 DEF Record, FinalTypeOK, TypeOK, Memory, Measured, Alive
    <3> QED
      BY <1>1, <1>4, <2>6, <3>1, <3>2 DEF Record
  <2>7. CASE Unlock(r)
    BY <1>1, <1>4, <2>7 DEF Unlock, FinalTypeOK, TypeOK, Memory, Measured, Alive
  <2> QED
    BY <1>4, <2>1, <2>2, <2>3, <2>4, <2>5, <2>6, <2>7 DEF Returning
<1>5. ASSUME Beat(r), UNCHANGED evaluators PROVE Measured(r)'
  <2>1. CASE BeatWakes(r)
    BY <1>1, <1>5, <2>1 DEF BeatWakes, FinalTypeOK, TypeOK, Memory, Measured, Alive
  <2>2. CASE BeatWrites(r)
    <3>1. disk'[r].record = disk[r].record /\ disk'[r].relation = disk[r].relation
      BY <1>1, <1>5, <2>2 DEF BeatWrites, FinalTypeOK, TypeOK, Directory
    <3>2. CASE UNCHANGED mem
      BY <1>1, <1>5, <2>2, <3>1, <3>2 DEF BeatWrites, FinalTypeOK, TypeOK, Memory, Measured, Alive
    <3>3. CASE mem' = [mem EXCEPT ![r].checks = TRUE]
      BY <1>1, <1>5, <2>2, <3>1, <3>3 DEF BeatWrites, FinalTypeOK, TypeOK, Memory, Measured, Alive
    <3> QED
      BY <1>1, <1>5, <2>2, <3>2, <3>3 DEF BeatWrites
  <2>3. CASE BeatEnds(r)
    BY <1>1, <1>5, <2>3 DEF BeatEnds, FinalTypeOK, TypeOK, Memory, Measured, Alive
  <2> QED
    BY <1>5, <2>1, <2>2, <2>3 DEF Beat
<1>6. ASSUME Outside(r), UNCHANGED evaluators PROVE Measured(r)'
  <2>1. CASE LeaderExits(r)
    BY <1>1, <1>6, <2>1 DEF LeaderExits, FinalTypeOK, TypeOK, Memory, Measured, Alive
  <2>2. CASE OrphansEnd(r)
    BY <1>1, <1>6, <2>2 DEF OrphansEnd, FinalTypeOK, TypeOK, Memory, Measured, Alive
  <2>3. CASE Review(r)
    BY <1>1, <1>6, <2>3 DEF Review, FinalTypeOK, TypeOK, Memory, Measured, Alive
  <2>4. CASE Crash(r)
    BY <1>1, <1>6, <2>4 DEF Crash, FinalTypeOK, TypeOK, Memory, Measured, Alive
  <2> QED
    BY <1>6, <2>1, <2>2, <2>3, <2>4 DEF Outside
<1>7. ASSUME Concluding(r) PROVE Measured(r)'
  <2>1. CASE Admit(r)
    <3>1. pc'[r] = "admitted" => group[r] = "gone"
      BY <1>1, <1>7, <2>1 DEF Admit, Admissible, Measured, Alive, FinalTypeOK, TypeOK
    <3>2. pc'[r] \in {"admitted", "failed"}
      BY <1>1, <1>7, <2>1 DEF Admit, FinalTypeOK, TypeOK
    <3> QED
      BY <1>1, <1>7, <2>1, <3>1, <3>2 DEF Admit, Measured, Alive
  <2>2. CASE Discover(r)
    BY <1>1, <1>7, <2>2 DEF Discover, FinalTypeOK, TypeOK, Memory, Measured, Alive
  <2>3. CASE Export(r)
    <3>1. disk'[r].record = disk[r].record /\ disk'[r].relation = disk[r].relation
      BY <1>1, <1>7, <2>3 DEF Export, FinalTypeOK, TypeOK, Directory
    <3> QED
      BY <1>1, <1>7, <2>3, <3>1 DEF Export, FinalTypeOK, TypeOK, Memory, Measured, Alive
  <2>4. CASE Freeze(r)
    <3>1. disk'[r].record = disk[r].record /\ disk'[r].relation = disk[r].relation
      BY <1>1, <1>7, <2>4 DEF Freeze, FinalTypeOK, TypeOK, Directory
    <3> QED
      BY <1>1, <1>7, <2>4, <3>1 DEF Freeze, FinalTypeOK, TypeOK, Memory, Measured, Alive
  <2>5. CASE Inspect(r)
    BY <1>1, <1>7, <2>5 DEF Inspect, FinalTypeOK, TypeOK, Memory, Measured, Alive
  <2>6. CASE StartVm(r)
    BY <1>1, <1>7, <2>6 DEF StartVm, FinalTypeOK, TypeOK, Memory, Measured, Alive
  <2>7. CASE Claim(r)
    BY <1>1, <1>7, <2>7 DEF Claim, FinalTypeOK, TypeOK, Memory, Measured, Alive
  <2>8. CASE Evaluate(r)
    <3>1. disk'[r].record = disk[r].record /\ disk'[r].relation = disk[r].relation
      BY <1>1, <1>7, <2>8 DEF Evaluate, FinalTypeOK, TypeOK, Directory
    <3> QED
      BY <1>1, <1>7, <2>8, <3>1 DEF Evaluate, FinalTypeOK, TypeOK, Memory, Measured, Alive
  <2>9. CASE DeleteVm(r)
    BY <1>1, <1>7, <2>9 DEF DeleteVm, FinalTypeOK, TypeOK, Memory, Measured, Alive
  <2>10. CASE Complete(r)
    <3>1. disk'[r].relation = disk[r].relation
      BY <1>1, <1>7, <2>10 DEF Complete, FinalTypeOK, TypeOK, Directory
    <3>2. disk'[r].record = disk[r].record \/ disk'[r].record =
             [disk[r].record EXCEPT !.verdict = disk[r].evaluation, !.deleted = TRUE]
      BY <1>1, <1>7, <2>10 DEF Complete, FinalTypeOK, TypeOK, Directory
    <3>3. disk'[r].record.stopped = disk[r].record.stopped
      BY <3>2 DEF FinalTypeOK, TypeOK, Directory, RunRecord
    <3> QED
      BY <1>1, <1>7, <2>10, <3>1, <3>3 DEF Complete, FinalTypeOK, TypeOK, Memory, Measured, Alive
  <2>11. CASE Qualify(r)
    <3>1. disk'[r].relation = disk[r].relation
      BY <1>1, <1>7, <2>11 DEF Qualify, FinalTypeOK, TypeOK, Directory
    <3> QED
      BY <1>1, <1>7, <2>11, <3>1 DEF Qualify, FinalTypeOK, TypeOK, Memory, Measured, Alive
  <2>12. CASE Recover(r)
    <3>1. /\ disk'[r].relation = disk[r].relation
          /\ \/ disk'[r].record.stopped = disk[r].record.stopped
             \/ disk'[r].record.stopped = (mem[r].stopped # "unknown" /\ group[r] = "gone")
      BY <1>1, <1>7, <2>12 DEF Recover, FinalTypeOK, TypeOK, Directory, RunRecord
    <3> QED
      BY <1>1, <1>7, <2>12, <3>1 DEF Recover, FinalTypeOK, TypeOK, Memory, Measured, Alive
  <2> QED
    BY <1>7, <2>1, <2>2, <2>3, <2>4, <2>5, <2>6, <2>7, <2>8, <2>9, <2>10, <2>11, <2>12 DEF
       Concluding
<1> QED
  BY <1>2, <1>3, <1>4, <1>5, <1>6, <1>7 DEF StepOf, Main

\* A run's own step keeps what is said of its outcome, from Conclude to the record.
LEMMA SoberOwn ==
    ASSUME FinalTypeOK, NEW r \in Runs, Holds(r), Sober(r), StepOf(r)
    PROVE  Sober(r)'
<1> USE DEF world, given, evaluators, Goto, Trip, Calm, Raise, GiveUp, Setup, Flying, Landing,
            Finalizing, Ended, Judging, Evaluating
<1>1. /\ Missions' = Missions /\ Baselines' = Baselines
      /\ r \in Baselines <=> r \notin Missions
  BY Shared DEF Missions, Baselines
<1>2. ASSUME Launching(r), UNCHANGED evaluators PROVE Sober(r)'
  <2>1. CASE Prepare(r)
    BY <1>1, <1>2, <2>1 DEF Prepare, FinalTypeOK, TypeOK, Memory, Sober, Still
  <2>2. CASE Validate(r)
    BY <1>1, <1>2, <2>2 DEF Validate, FinalTypeOK, TypeOK, Memory, Sober, Still
  <2>3. CASE Acquire(r)
    BY <1>1, <1>2, <2>3 DEF Acquire, FinalTypeOK, TypeOK, Memory, Sober, Still
  <2>4. CASE Arm(r)
    BY <1>1, <1>2, <2>4 DEF Arm, FinalTypeOK, TypeOK, Memory, Sober, Still
  <2>5. CASE Stage(r)
    <3>1. CASE UNCHANGED mem
      BY <1>1, <1>2, <2>5, <3>1 DEF Stage, FinalTypeOK, TypeOK, Memory, Sober, Still
    <3>2. CASE Raise(r)
      BY <1>1, <1>2, <2>5, <3>2 DEF Stage, FinalTypeOK, TypeOK, Memory, Sober, Still
    <3> QED
      BY <1>1, <1>2, <2>5, <3>1, <3>2 DEF Stage
  <2>6. CASE Link(r)
    <3>1. CASE UNCHANGED mem
      BY <1>1, <1>2, <2>6, <3>1 DEF Link, FinalTypeOK, TypeOK, Memory, Sober, Still
    <3>2. CASE Raise(r)
      BY <1>1, <1>2, <2>6, <3>2 DEF Link, FinalTypeOK, TypeOK, Memory, Sober, Still
    <3> QED
      BY <1>1, <1>2, <2>6, <3>1, <3>2 DEF Link
  <2>7. CASE Unstage(r)
    BY <1>1, <1>2, <2>7 DEF Unstage, FinalTypeOK, TypeOK, Memory, Sober, Still
  <2>8. CASE Announce(r)
    <3>1. pc[r] = "counted" /\ pc'[r] \in {"spawning", "closing"} /\ r \in Missions
      BY <1>1, <1>2, <2>8 DEF Announce, FinalTypeOK, TypeOK
    <3>2. disk'[r].record = disk[r].record /\ mem'[r].outcome = mem[r].outcome
      BY <1>1, <1>2, <2>8 DEF Announce, FinalTypeOK, TypeOK, Directory, Memory
    <3> QED
      BY <3>1, <3>2 DEF Sober
  <2> QED
    BY <1>2, <2>1, <2>2, <2>3, <2>4, <2>5, <2>6, <2>7, <2>8 DEF Launching
<1>3. ASSUME Executing(r), UNCHANGED evaluators PROVE Sober(r)'
  <2>1. CASE Spawn(r)
    BY <1>1, <1>3, <2>1 DEF Spawn, FinalTypeOK, TypeOK, Memory, Sober, Still
  <2>2. CASE Poll(r)
    <3>1. CASE \E code \in {"zero", "other"} : mem' = [mem EXCEPT ![r].result = code]
      BY <1>1, <1>3, <2>2, <3>1 DEF Poll, FinalTypeOK, TypeOK, Memory, Sober, Still
    <3>2. CASE \E code \in {"zero", "other"} :
                   mem' = [mem EXCEPT ![r].result = code, ![r].checks = TRUE]
      BY <1>1, <1>3, <2>2, <3>2 DEF Poll, FinalTypeOK, TypeOK, Memory, Sober, Still
    <3>3. CASE mem' = [mem EXCEPT ![r].error = TRUE]
      BY <1>1, <1>3, <2>2, <3>3 DEF Poll, FinalTypeOK, TypeOK, Memory, Sober, Still
    <3> QED
      BY <1>1, <1>3, <2>2, <3>1, <3>2, <3>3 DEF Poll
  <2>3. CASE Reap(r)
    BY <1>1, <1>3, <2>3 DEF Reap, FinalTypeOK, TypeOK, Memory, Sober, Still
  <2>4. CASE Correlate(r)
    <3>1. pc[r] = "reaped" /\ pc'[r] = "closing" /\ r \in Missions
      BY <1>1, <1>3, <2>4 DEF Correlate, FinalTypeOK, TypeOK
    <3>2. disk'[r].record = disk[r].record /\ mem'[r].outcome = mem[r].outcome
      BY <1>1, <1>3, <2>4 DEF Correlate, FinalTypeOK, TypeOK, Directory, Memory
    <3> QED
      BY <3>1, <3>2 DEF Sober
  <2> QED
    BY <1>3, <2>1, <2>2, <2>3, <2>4 DEF Executing
<1>4. ASSUME Returning(r), UNCHANGED evaluators PROVE Sober(r)'
  <2>1. CASE StopBeat(r)
    BY <1>1, <1>4, <2>1 DEF StopBeat, FinalTypeOK, TypeOK, Memory, Sober, Still
  <2>2. CASE Quiesce(r)
    BY <1>1, <1>4, <2>2 DEF Quiesce, FinalTypeOK, TypeOK, Memory, Sober, Still
  <2>3. CASE Abandon(r)
    BY <1>1, <1>4, <2>3 DEF Abandon, FinalTypeOK, TypeOK, Memory, Sober, Still
  <2>4. CASE Conclude(r)
    <3>1. pc[r] = "settled" /\ pc'[r] = "concluded" /\ UNCHANGED <<disk, beat, lock>>
          /\ r \in Missions
      BY <1>1, <1>4, <2>4 DEF Conclude, Holds, FinalTypeOK, TypeOK
    <3>2. ~Reportable(disk[r].record.outcome) /\ (~mem[r].cleanup => Still(r))
      BY <3>1 DEF Sober
    <3>3. CASE mem' = [mem EXCEPT ![r].outcome = Outcome(mem[r])]
      <4>1. /\ mem'[r].outcome = Outcome(mem[r]) /\ mem'[r].seen = mem[r].seen
            /\ mem'[r].checks = mem[r].checks /\ mem'[r].cleanup = mem[r].cleanup
        BY <3>3 DEF FinalTypeOK, TypeOK, Memory
      <4>2. /\ mem[r] \in Memory
            /\ mem[r].seen \subseteq {"terminal", "blocked", "degraded", "collector"}
        BY RuntimeAssumption DEF FinalTypeOK, TypeOK, Memory
      <4>3. Reportable(mem'[r].outcome) =>
               ~mem[r].checks /\ ~mem[r].cleanup /\ mem[r].seen \subseteq {"blocked"}
        BY <4>1, <4>2, OutcomeMeans
      <4> QED
        BY <1>1, <3>1, <3>2, <4>1, <4>3 DEF Sober, Still
    <3>4. CASE mem' = [mem EXCEPT ![r].outcome = "cleanup-failed", ![r].cleanup = TRUE]
      <4>1. mem'[r].outcome = "cleanup-failed" /\ mem'[r].cleanup
        BY <3>4 DEF FinalTypeOK, TypeOK, Memory
      <4>2. ~Reportable("cleanup-failed")
        BY DEF Reportable, RELEASE_REPORTABLE_RUNTIME_OUTCOMES
      <4> QED
        BY <1>1, <3>1, <3>2, <4>1, <4>2 DEF Sober
    <3> QED
      BY <1>1, <1>4, <2>4, <3>3, <3>4 DEF Conclude
  <2>5. CASE Terminate(r)
    <3>1. /\ pc[r] = "concluded" /\ pc'[r] = "stated" /\ UNCHANGED <<beat, lock>>
          /\ disk'[r].record = disk[r].record
      BY <1>1, <1>4, <2>5 DEF Terminate, FinalTypeOK, TypeOK, Directory
    <3>2. r \in Missions => ~Reportable(disk[r].record.outcome) /\ (~mem[r].cleanup => Still(r))
      BY <3>1 DEF Sober
    <3>3. CASE UNCHANGED mem /\ disk'[r].status = "terminal"
      BY <1>1, <3>1, <3>2, <3>3 DEF Sober, Still
    <3>4. CASE mem' = [mem EXCEPT ![r].outcome = "cleanup-failed", ![r].cleanup = TRUE]
      <4>1. mem'[r].outcome = "cleanup-failed" /\ mem'[r].cleanup
        BY <3>4 DEF FinalTypeOK, TypeOK, Memory
      <4>2. ~Reportable("cleanup-failed")
        BY DEF Reportable, RELEASE_REPORTABLE_RUNTIME_OUTCOMES
      <4> QED
        BY <1>1, <3>1, <3>2, <4>1, <4>2 DEF Sober
    <3> QED
      BY <1>1, <1>4, <2>5, <3>3, <3>4 DEF Terminate, FinalTypeOK, TypeOK, Directory
  <2>6. CASE Record(r)
    <3>1. /\ pc[r] = "stated" /\ pc'[r] = "recorded" /\ UNCHANGED <<beat, lock, mem>>
          /\ disk'[r].status = disk[r].status
      BY <1>1, <1>4, <2>6 DEF Record, FinalTypeOK, TypeOK, Directory
    <3>2. disk'[r].record.outcome \in {disk[r].record.outcome, mem[r].outcome}
      <4> DEFINE b == mem[r].stopped = "yes"
      <4>1. disk'[r].record = disk[r].record \/
            disk'[r].record = [disk[r].record EXCEPT !.outcome = mem[r].outcome, !.stopped = b]
        BY <1>1, <1>4, <2>6 DEF Record, FinalTypeOK, TypeOK, Directory
      <4>2. disk[r].record \in RunRecord
        BY DEF FinalTypeOK, TypeOK, Directory
      <4> HIDE DEF b
      <4> QED
        BY <4>1, <4>2 DEF RunRecord
    <3> QED
      BY <1>1, <3>1, <3>2 DEF Sober, Still
  <2>7. CASE Unlock(r)
    <3>1. /\ pc[r] = "recorded" /\ pc'[r] \in {"failed", "returned"} /\ UNCHANGED <<beat, disk>>
          /\ r \in Missions /\ lock = r
      BY <1>1, <1>4, <2>7 DEF Unlock, Holds, FinalTypeOK, TypeOK
    <3>2. /\ mem'[r].outcome = mem[r].outcome /\ mem'[r].seen = mem[r].seen
          /\ mem'[r].checks = mem[r].checks
          /\ mem'[r].cleanup = mem[r].cleanup \/ lock' = lock
      BY <1>1, <1>4, <2>7 DEF Unlock, FinalTypeOK, TypeOK, Memory
    <3> QED
      BY <1>1, <3>1, <3>2 DEF Sober, Still
  <2> QED
    BY <1>4, <2>1, <2>2, <2>3, <2>4, <2>5, <2>6, <2>7 DEF Returning
<1>5. ASSUME Beat(r), UNCHANGED evaluators PROVE Sober(r)'
  <2>1. CASE BeatWakes(r)
    BY <1>1, <1>5, <2>1 DEF BeatWakes, FinalTypeOK, TypeOK, Memory, Sober, Still
  <2>2. CASE BeatWrites(r)
    <3>1. /\ pc' = pc /\ ~Still(r) /\ disk'[r].record = disk[r].record
      BY <1>1, <1>5, <2>2 DEF BeatWrites, Still, FinalTypeOK, TypeOK, Directory
    <3>2. mem'[r].outcome = mem[r].outcome /\ mem'[r].cleanup = mem[r].cleanup
      BY <1>1, <1>5, <2>2 DEF BeatWrites, FinalTypeOK, TypeOK, Memory
    <3> QED
      BY <1>1, <3>1, <3>2 DEF Sober
  <2>3. CASE BeatEnds(r)
    BY <1>1, <1>5, <2>3 DEF BeatEnds, FinalTypeOK, TypeOK, Memory, Sober, Still
  <2> QED
    BY <1>5, <2>1, <2>2, <2>3 DEF Beat
<1>6. ASSUME Outside(r), UNCHANGED evaluators PROVE Sober(r)'
  <2>1. CASE LeaderExits(r)
    BY <1>1, <1>6, <2>1 DEF LeaderExits, FinalTypeOK, TypeOK, Memory, Sober, Still
  <2>2. CASE OrphansEnd(r)
    BY <1>1, <1>6, <2>2 DEF OrphansEnd, FinalTypeOK, TypeOK, Memory, Sober, Still
  <2>3. CASE Review(r)
    BY <1>1, <1>6, <2>3 DEF Review, FinalTypeOK, TypeOK, Memory, Sober, Still
  <2>4. CASE Crash(r)
    BY <1>1, <1>6, <2>4 DEF Crash, FinalTypeOK, TypeOK, Memory, Sober, Still
  <2> QED
    BY <1>6, <2>1, <2>2, <2>3, <2>4 DEF Outside
<1>7. ASSUME Concluding(r) PROVE Sober(r)'
  <2>1. CASE Admit(r)
    BY <1>1, <1>7, <2>1 DEF Admit, FinalTypeOK, TypeOK, Memory, Sober, Still
  <2>2. CASE Discover(r)
    BY <1>1, <1>7, <2>2 DEF Discover, FinalTypeOK, TypeOK, Memory, Sober, Still
  <2>3. CASE Export(r)
    <3>1. disk'[r].record = disk[r].record /\ disk'[r].status = disk[r].status
      BY <1>1, <1>7, <2>3 DEF Export, FinalTypeOK, TypeOK, Directory
    <3> QED
      BY <1>1, <1>7, <2>3, <3>1 DEF Export, FinalTypeOK, TypeOK, Memory, Sober, Still
  <2>4. CASE Freeze(r)
    <3>1. disk'[r].record = disk[r].record /\ disk'[r].status = disk[r].status
      BY <1>1, <1>7, <2>4 DEF Freeze, FinalTypeOK, TypeOK, Directory
    <3> QED
      BY <1>1, <1>7, <2>4, <3>1 DEF Freeze, FinalTypeOK, TypeOK, Memory, Sober, Still
  <2>5. CASE Inspect(r)
    BY <1>1, <1>7, <2>5 DEF Inspect, FinalTypeOK, TypeOK, Memory, Sober, Still
  <2>6. CASE StartVm(r)
    BY <1>1, <1>7, <2>6 DEF StartVm, FinalTypeOK, TypeOK, Memory, Sober, Still
  <2>7. CASE Claim(r)
    BY <1>1, <1>7, <2>7 DEF Claim, FinalTypeOK, TypeOK, Memory, Sober, Still
  <2>8. CASE Evaluate(r)
    <3>1. disk'[r].record = disk[r].record /\ disk'[r].status = disk[r].status
      BY <1>1, <1>7, <2>8 DEF Evaluate, FinalTypeOK, TypeOK, Directory
    <3> QED
      BY <1>1, <1>7, <2>8, <3>1 DEF Evaluate, FinalTypeOK, TypeOK, Memory, Sober, Still
  <2>9. CASE DeleteVm(r)
    BY <1>1, <1>7, <2>9 DEF DeleteVm, FinalTypeOK, TypeOK, Memory, Sober, Still
  <2>10. CASE Complete(r)
    <3>1. /\ pc[r] = "deleted" /\ pc'[r] \in {"done", "failed"} /\ UNCHANGED <<beat, lock, mem>>
          /\ disk'[r].status = disk[r].status
      BY <1>1, <1>7, <2>10 DEF Complete, FinalTypeOK, TypeOK, Directory
    <3>2. disk'[r].record = disk[r].record \/ disk'[r].record =
             [disk[r].record EXCEPT !.verdict = disk[r].evaluation, !.deleted = TRUE]
      BY <1>1, <1>7, <2>10 DEF Complete, FinalTypeOK, TypeOK, Directory
    <3>3. disk[r].record \in RunRecord
      BY DEF FinalTypeOK, TypeOK, Directory
    <3>4. disk'[r].record.outcome = disk[r].record.outcome
      BY <3>2, <3>3 DEF RunRecord
    <3> QED
      BY <1>1, <3>1, <3>4 DEF Sober, Still
  <2>11. CASE Qualify(r)
    BY <1>1, <1>7, <2>11 DEF Qualify, FinalTypeOK, TypeOK, Memory, Sober, Still
  <2>12. CASE Recover(r)
    <3>1. /\ pc[r] = "recovering" /\ pc'[r] = "failed" /\ UNCHANGED <<beat, lock, mem>>
          /\ r \notin Missions
      BY <1>1, <1>7, <2>12 DEF Recover, Holds, FinalTypeOK, TypeOK
    <3> QED
      BY <1>1, <3>1 DEF Sober, Still
  <2> QED
    BY <1>7, <2>1, <2>2, <2>3, <2>4, <2>5, <2>6, <2>7, <2>8, <2>9, <2>10, <2>11, <2>12 DEF
       Concluding
<1> QED
  BY <1>2, <1>3, <1>4, <1>5, <1>6, <1>7 DEF StepOf, Main

\* The steps up to the return of a run stay before its evaluation.
LEMMA EarlySteps ==
    ASSUME FinalTypeOK, NEW r \in Runs, Main(r), UNCHANGED evaluators
    PROVE  /\ pc[r] \notin {"deleted", "done", "failed"}
           /\ pc'[r] \notin {"deleted", "done"} \cup (Evaluating \ {"admitted"})
<1> DEFINE Moves == /\ pc[r] \notin {"deleted", "done", "failed"}
                    /\ pc'[r] \notin {"deleted", "done"} \cup (Evaluating \ {"admitted"})
<1> USE DEF world, given, evaluators, Goto, Trip, Calm, Raise, GiveUp
<1>1. ASSUME Launching(r), UNCHANGED evaluators PROVE Moves
  <2>1. CASE Prepare(r) \/ Validate(r) \/ Acquire(r) \/ Arm(r)
    BY <1>1, <2>1 DEF Prepare, Validate, Acquire, Arm, FinalTypeOK, TypeOK, Evaluating
  <2>2. CASE Stage(r) \/ Link(r)
    BY <1>1, <2>2 DEF Stage, Link, FinalTypeOK, TypeOK, Evaluating
  <2>3. CASE Unstage(r)
    BY <1>1, <2>3 DEF Unstage, FinalTypeOK, TypeOK, Evaluating
  <2>4. CASE Announce(r)
    BY <1>1, <2>4 DEF Announce, FinalTypeOK, TypeOK, Evaluating
  <2> QED
    BY <1>1, <2>1, <2>2, <2>3, <2>4 DEF Launching
<1>2. ASSUME Executing(r), UNCHANGED evaluators PROVE Moves
  BY <1>2 DEF Executing, Spawn, Poll, Reap, Correlate, FinalTypeOK, TypeOK, Evaluating
<1>3. ASSUME Returning(r), UNCHANGED evaluators PROVE Moves
  BY <1>3 DEF Returning, StopBeat, Quiesce, Abandon, Conclude, Terminate, Record, Unlock,
     FinalTypeOK, TypeOK, Evaluating
<1> QED
  BY <1>1, <1>2, <1>3 DEF Main

\* They touch no machine, and what they have linked stays linked.
LEMMA EarlyEntries ==
    ASSUME FinalTypeOK, NEW r \in Runs, Main(r), UNCHANGED evaluators
    PROVE  /\ vm' = vm
           /\ pc'[r] = "linked" => Own(r, FALSE) \in entries'
           /\ Own(r, FALSE) \in entries => Own(r, FALSE) \in entries'
<1> DEFINE Moves == /\ vm' = vm
                    /\ pc'[r] = "linked" => Own(r, FALSE) \in entries'
                    /\ Own(r, FALSE) \in entries => Own(r, FALSE) \in entries'
<1> USE DEF world, given, evaluators, Goto, Trip, Calm, Raise, GiveUp
<1>1. Own(r, TRUE) # Own(r, FALSE)
  BY DEF Own
<1>2. ASSUME Launching(r), UNCHANGED evaluators PROVE Moves
  BY <1>1, <1>2 DEF Launching, Prepare, Validate, Acquire, Arm, Stage, Link, Unstage, Announce,
     FinalTypeOK, TypeOK
<1>3. ASSUME Executing(r), UNCHANGED evaluators PROVE Moves
  BY <1>1, <1>3 DEF Executing, Spawn, Poll, Reap, Correlate, FinalTypeOK, TypeOK
<1>4. ASSUME Returning(r), UNCHANGED evaluators PROVE Moves
  BY <1>1, <1>4 DEF Returning, StopBeat, Quiesce, Abandon, Conclude, Terminate, Record, Unlock,
     FinalTypeOK, TypeOK
<1> QED
  BY <1>2, <1>3, <1>4 DEF Main

\* A run remembers that it launched only after its directory is linked.
LEMMA EarlyLaunched ==
    ASSUME FinalTypeOK, NEW r \in Runs, Main(r), UNCHANGED evaluators
    PROVE  mem'[r].launched => mem[r].launched \/ pc[r] = "linked"
<1> DEFINE Moves == mem'[r].launched => mem[r].launched \/ pc[r] = "linked"
<1> USE DEF world, given, evaluators, Goto, Trip, Calm, Raise, GiveUp
<1>1. ASSUME Launching(r), UNCHANGED evaluators PROVE Moves
  <2>1. CASE Prepare(r) \/ Validate(r)
    BY <1>1, <2>1 DEF Prepare, Validate, FinalTypeOK, TypeOK, Memory
  <2>2. CASE Acquire(r)
    BY <1>1, <2>2 DEF Acquire, FinalTypeOK, TypeOK, Memory
  <2>3. CASE Unstage(r)
    BY <1>1, <2>3 DEF Unstage, FinalTypeOK, TypeOK, Memory
  <2>4. CASE Arm(r)
    <3>1. mem' = mem \/ mem' = [mem EXCEPT ![r].error = TRUE]
      BY <1>1, <2>4 DEF Arm
    <3> QED
      BY <3>1 DEF FinalTypeOK, TypeOK, Memory
  <2>5. CASE Stage(r)
    <3>1. mem' = mem \/ mem' = [mem EXCEPT ![r].error = TRUE]
      BY <1>1, <2>5 DEF Stage
    <3> QED
      BY <3>1 DEF FinalTypeOK, TypeOK, Memory
  <2>6. CASE Link(r)
    <3>1. mem' = mem \/ mem' = [mem EXCEPT ![r].error = TRUE]
      BY <1>1, <2>6 DEF Link
    <3> QED
      BY <3>1 DEF FinalTypeOK, TypeOK, Memory
  <2>7. CASE Announce(r)
    <3>1. \/ mem' = mem \/ mem' = [mem EXCEPT ![r].error = TRUE]
          \/ mem' = [mem EXCEPT ![r].started = TRUE]
      BY <1>1, <2>7 DEF Announce
    <3> QED
      BY <3>1 DEF FinalTypeOK, TypeOK, Memory
  <2> QED
    BY <1>1, <2>1, <2>2, <2>3, <2>4, <2>5, <2>6, <2>7 DEF Launching
<1>2. ASSUME Executing(r), UNCHANGED evaluators PROVE Moves
  <2>1. CASE Spawn(r) \/ Poll(r)
    BY <1>2, <2>1 DEF Spawn, Poll, FinalTypeOK, TypeOK, Memory
  <2>2. CASE Reap(r)
    BY <1>2, <2>2 DEF Reap, FinalTypeOK, TypeOK, Memory
  <2>3. CASE Correlate(r)
    BY <1>2, <2>3 DEF Correlate, FinalTypeOK, TypeOK, Memory
  <2> QED
    BY <1>2, <2>1, <2>2, <2>3 DEF Executing
<1>3. ASSUME Returning(r), UNCHANGED evaluators PROVE Moves
  BY <1>3 DEF Returning, StopBeat, Quiesce, Abandon, Conclude, Terminate, Record, Unlock,
     FinalTypeOK, TypeOK, Memory
<1> QED
  BY <1>1, <1>2, <1>3 DEF Main

\* They record no deletion.
LEMMA EarlyRecord ==
    ASSUME FinalTypeOK, NEW r \in Runs, Main(r), UNCHANGED evaluators
    PROVE  disk'[r].record.deleted = disk[r].record.deleted
<1> DEFINE Moves == disk'[r].record.deleted = disk[r].record.deleted
<1> USE DEF world, given, evaluators, Goto, Trip, Calm, Raise, GiveUp
<1>1. ASSUME Launching(r), UNCHANGED evaluators PROVE Moves
  <2>1. CASE Prepare(r) \/ Validate(r) \/ Acquire(r) \/ Arm(r) \/ Stage(r) \/ Link(r)
             \/ Unstage(r)
    BY <1>1, <2>1 DEF Prepare, Validate, Acquire, Arm, Stage, Link, Unstage, FinalTypeOK,
       TypeOK, Directory
  <2>2. CASE Announce(r)
    <3>1. disk'[r].record = disk[r].record
      BY <1>1, <2>2 DEF Announce, FinalTypeOK, TypeOK, Directory
    <3> QED
      BY <3>1
  <2> QED
    BY <1>1, <2>1, <2>2 DEF Launching
<1>2. ASSUME Executing(r), UNCHANGED evaluators PROVE Moves
  <2>1. CASE Spawn(r) \/ Poll(r)
    BY <1>2, <2>1 DEF Spawn, Poll, FinalTypeOK, TypeOK, Directory
  <2>2. CASE Reap(r)
    BY <1>2, <2>2 DEF Reap, FinalTypeOK, TypeOK, Directory
  <2>3. CASE Correlate(r)
    <3>1. disk'[r].record = disk[r].record
      BY <1>2, <2>3 DEF Correlate, FinalTypeOK, TypeOK, Directory
    <3> QED
      BY <3>1
  <2> QED
    BY <1>2, <2>1, <2>2, <2>3 DEF Executing
<1>3. ASSUME Returning(r), UNCHANGED evaluators PROVE Moves
  <2>1. CASE StopBeat(r) \/ Quiesce(r) \/ Abandon(r)
    BY <1>3, <2>1 DEF StopBeat, Quiesce, Abandon, FinalTypeOK, TypeOK, Directory
  <2>2. CASE Conclude(r) \/ Terminate(r) \/ Unlock(r)
    BY <1>3, <2>2 DEF Conclude, Terminate, Unlock, FinalTypeOK, TypeOK, Directory
  <2>3. CASE Record(r)
    <3> DEFINE b == mem[r].stopped = "yes"
    <3>1. disk'[r].record = disk[r].record \/
          disk'[r].record = [disk[r].record EXCEPT !.outcome = mem[r].outcome, !.stopped = b]
      BY <1>3, <2>3 DEF Record, FinalTypeOK, TypeOK, Directory
    <3>2. disk[r].record \in RunRecord
      BY DEF FinalTypeOK, TypeOK, Directory
    <3> HIDE DEF b
    <3> QED
      BY <3>1, <3>2 DEF RunRecord
  <2> QED
    BY <1>3, <2>1, <2>2, <2>3 DEF Returning
<1> QED
  BY <1>1, <1>2, <1>3 DEF Main

\* A run's own step keeps what is said of its evaluator.
LEMMA EvaluatedOwn ==
    ASSUME FinalTypeOK, NEW r \in Runs, Holds(r), Measured(r), Evaluated(r), StepOf(r)
    PROVE  Evaluated(r)'
<1> USE DEF world, given, evaluators, Goto, Trip, Calm, Raise, GiveUp, Vm, SetVm
<1>1. /\ Missions' = Missions /\ Baselines' = Baselines
      /\ r \in Baselines <=> r \notin Missions
      /\ name' = name /\ name[r] \in Names /\ Own(r, FALSE)' = Own(r, FALSE)
      /\ r # Nobody /\ r # Foreign
  <2>1. kind' = kind /\ pre' = pre /\ name' = name
    BY Shared
  <2> QED
    BY <2>1, RuntimeAssumption, FinalizationAssumption
       DEF Missions, Baselines, Own, FinalTypeOK
<1>2. CASE Main(r) /\ UNCHANGED evaluators
  BY <1>1, <1>2, EarlySteps, EarlyEntries, EarlyLaunched, EarlyRecord DEF Evaluated, Counted
<1>3. ASSUME Beat(r), UNCHANGED evaluators PROVE Evaluated(r)'
  <2>1. CASE BeatWakes(r)
    BY <1>1, <1>3, <2>1 DEF BeatWakes, FinalTypeOK, TypeOK, Memory, Evaluated, Counted,
       Evaluating, Ended
  <2>2. CASE BeatWrites(r)
    <3>1. /\ disk'[r].record = disk[r].record /\ disk'[r].evaluation = disk[r].evaluation
          /\ disk'[r].source = disk[r].source
      BY <1>1, <1>3, <2>2 DEF BeatWrites, FinalTypeOK, TypeOK, Directory
    <3>2. mem'[r].launched = mem[r].launched
      BY <1>1, <1>3, <2>2 DEF BeatWrites, FinalTypeOK, TypeOK, Memory
    <3> QED
      BY <1>1, <1>3, <2>2, <3>1, <3>2 DEF BeatWrites, Evaluated, Counted
  <2>3. CASE BeatEnds(r)
    BY <1>1, <1>3, <2>3 DEF BeatEnds, FinalTypeOK, TypeOK, Memory, Evaluated, Counted,
       Evaluating, Ended
  <2> QED
    BY <1>3, <2>1, <2>2, <2>3 DEF Beat
<1>4. ASSUME Outside(r), UNCHANGED evaluators PROVE Evaluated(r)'
  <2>1. CASE LeaderExits(r)
    BY <1>1, <1>4, <2>1 DEF LeaderExits, FinalTypeOK, TypeOK, Memory, Evaluated, Counted,
       Evaluating, Ended
  <2>2. CASE OrphansEnd(r)
    BY <1>1, <1>4, <2>2 DEF OrphansEnd, FinalTypeOK, TypeOK, Memory, Evaluated, Counted,
       Evaluating, Ended
  <2>3. CASE Review(r)
    BY <1>1, <1>4, <2>3 DEF Review, FinalTypeOK, TypeOK, Memory, Evaluated, Counted, Evaluating,
       Ended
  <2>4. CASE Crash(r)
    BY <1>1, <1>4, <2>4 DEF Crash, FinalTypeOK, TypeOK, Memory, Evaluated, Counted, Evaluating,
       Ended
  <2> QED
    BY <1>4, <2>1, <2>2, <2>3, <2>4 DEF Outside
<1>5. ASSUME Concluding(r) PROVE Evaluated(r)'
  <2>1. CASE Admit(r)
    BY <1>1, <1>5, <2>1 DEF Admit, FinalTypeOK, TypeOK, Memory, Evaluated, Counted, Evaluating,
       Ended
  <2>2. CASE Discover(r)
    BY <1>1, <1>5, <2>2 DEF Discover, FinalTypeOK, TypeOK, Memory, Evaluated, Counted,
       Evaluating, Ended
  <2>3. CASE Export(r)
    <3>1. /\ disk'[r].record = disk[r].record /\ disk'[r].evaluation = disk[r].evaluation
          /\ disk'[r].source \/ disk'[r].source = disk[r].source
      BY <1>5, <2>3 DEF Export, FinalTypeOK, TypeOK, Directory
    <3>2. /\ pc[r] = "admitted" /\ pc'[r] \in {"exported", "failed", "recovering"}
          /\ UNCHANGED <<mem, entries, group, vm>>
      BY <1>5, <2>3 DEF Export, FinalTypeOK, TypeOK
    <3>3. pc'[r] = "exported" => disk'[r].source
      BY <1>5, <2>3 DEF Export, FinalTypeOK, TypeOK, Directory
    <3> QED
      BY <1>1, <3>1, <3>2, <3>3 DEF Evaluated, Counted, Evaluating
  <2>4. CASE Freeze(r)
    <3>1. /\ disk'[r].record = disk[r].record /\ disk'[r].evaluation = disk[r].evaluation
          /\ disk'[r].source = disk[r].source
      BY <1>1, <1>5, <2>4 DEF Freeze, FinalTypeOK, TypeOK, Directory
    <3> QED
      BY <1>1, <1>5, <2>4, <3>1 DEF Freeze, FinalTypeOK, TypeOK, Memory, Evaluated, Counted,
         Evaluating, Ended
  <2>5. CASE Inspect(r)
    BY <1>1, <1>5, <2>5 DEF Inspect, FinalTypeOK, TypeOK, Memory, Evaluated, Counted,
       Evaluating, Ended
  <2>6. CASE StartVm(r)
    <3>1. /\ pc[r] = "cleared" /\ pc'[r] \in {"started", "starting"}
          /\ UNCHANGED <<disk, mem, entries, group>>
      BY <1>1, <1>5, <2>6 DEF StartVm, FinalTypeOK, TypeOK
    <3>2. vm' = vm \/ vm' = [vm EXCEPT ![name[r]] = r]
      BY <1>1, <1>5, <2>6 DEF StartVm
    <3>3. \A n \in Names : vm'[n] = r => vm[n] = r \/ n = name[r]
      BY <3>2 DEF FinalTypeOK
    <3> QED
      BY <1>1, <3>1, <3>3 DEF Evaluated, Counted, Evaluating
  <2>7. CASE Claim(r)
    BY <1>1, <1>5, <2>7 DEF Claim, FinalTypeOK, TypeOK, Memory, Evaluated, Counted, Evaluating,
       Ended
  <2>8. CASE Evaluate(r)
    <3>1. disk'[r].record = disk[r].record /\ disk'[r].source = disk[r].source
      BY <1>1, <1>5, <2>8 DEF Evaluate, FinalTypeOK, TypeOK, Directory
    <3> QED
      BY <1>1, <1>5, <2>8, <3>1 DEF Evaluate, FinalTypeOK, TypeOK, Memory, Evaluated, Counted,
         Evaluating, Ended
  <2>9. CASE DeleteVm(r)
    <3>1. /\ pc[r] = "deleting" /\ pc'[r] \in {"deleted", "failed", "recovering"}
          /\ UNCHANGED <<disk, mem, entries, group>>
      BY <1>1, <1>5, <2>9 DEF DeleteVm, FinalTypeOK, TypeOK
    <3>2. \/ vm' = vm /\ pc'[r] # "deleted"
          \/ vm' = [vm EXCEPT ![name[r]] = Nobody]
      BY <1>1, <1>5, <2>9, <3>1 DEF DeleteVm, FinalTypeOK, TypeOK
    <3>3. /\ \A n \in Names : vm'[n] = r => vm[n] = r
          /\ pc'[r] = "deleted" => vm'[name[r]] # r
      BY <1>1, <3>2 DEF FinalTypeOK
    <3> QED
      BY <1>1, <3>1, <3>3 DEF Evaluated, Counted, Evaluating
  <2>10. CASE Complete(r)
    <3>1. /\ pc[r] = "deleted" /\ pc'[r] \in {"done", "failed"} /\ r \in Missions
          /\ UNCHANGED <<mem, entries, group, vm>>
          /\ disk'[r].source = disk[r].source /\ disk'[r].evaluation = disk[r].evaluation
      BY <1>1, <1>5, <2>10 DEF Complete, FinalTypeOK, TypeOK, Directory
    <3>2. disk[r].record \in RunRecord /\ group[r] = "gone" /\ disk[r].source /\ vm[name[r]] # r
      BY <3>1 DEF Measured, Evaluated, Evaluating, FinalTypeOK, TypeOK, Directory
    <3>3. CASE disk' = disk /\ pc'[r] = "failed"
      BY <1>1, <3>1, <3>3 DEF Evaluated, Counted, Evaluating
    <3>4. CASE disk' = [disk EXCEPT ![r].record = [@ EXCEPT !.verdict = disk[r].evaluation,
                                                             !.deleted = TRUE]]
      <4>1. disk'[r].record = [disk[r].record EXCEPT !.verdict = disk[r].evaluation,
                                                     !.deleted = TRUE]
        BY <3>4 DEF FinalTypeOK, TypeOK, Directory
      <4>2. /\ disk'[r].record.deleted /\ disk'[r].record.verdict = disk[r].evaluation
            /\ disk'[r].record.outcome = disk[r].record.outcome
        BY <3>2, <4>1 DEF RunRecord
      <4>3. pc'[r] = "done" => disk[r].evaluation = "pass" /\ Reportable(disk[r].record.outcome)
        BY <1>1, <1>5, <2>10 DEF Complete, Reportable, FinalTypeOK, TypeOK
      <4> QED
        BY <1>1, <3>1, <3>2, <4>2, <4>3 DEF Evaluated, Counted, Evaluating
    <3> QED
      BY <1>1, <1>5, <2>10, <3>3, <3>4 DEF Complete, FinalTypeOK, TypeOK
  <2>11. CASE Qualify(r)
    <3>1. /\ pc[r] = "deleted" /\ pc'[r] \in {"done", "failed", "recovering"} /\ r \notin Missions
          /\ UNCHANGED <<mem, entries, group, vm>> /\ disk'[r].source = disk[r].source
      BY <1>1, <1>5, <2>11 DEF Qualify, FinalTypeOK, TypeOK, Directory
    <3>2. disk'[r].record = disk[r].record \/ pc'[r] \in {"done", "failed"}
      BY <1>1, <1>5, <2>11 DEF Qualify, FinalTypeOK, TypeOK
    <3>3. group[r] = "gone" /\ disk[r].source /\ vm[name[r]] # r
      BY <3>1 DEF Measured, Evaluated, Evaluating
    <3> QED
      BY <1>1, <3>1, <3>2, <3>3 DEF Evaluated, Counted, Evaluating
  <2>12. CASE Recover(r)
    <3>1. /\ pc[r] = "recovering" /\ pc'[r] = "failed" /\ r \notin Missions
          /\ UNCHANGED <<mem, entries, group, vm>>
      BY <1>1, <1>5, <2>12 DEF Recover, Holds, FinalTypeOK, TypeOK
    <3>2. ~disk'[r].record.deleted
      BY <1>1, <1>5, <2>12, <3>1 DEF Recover, Evaluated, FinalTypeOK, TypeOK, Directory
    <3> QED
      BY <1>1, <3>1, <3>2 DEF Evaluated, Counted, Evaluating
  <2> QED
    BY <1>5, <2>1, <2>2, <2>3, <2>4, <2>5, <2>6, <2>7, <2>8, <2>9, <2>10, <2>11, <2>12 DEF
       Concluding
<1> QED
  BY <1>2, <1>3, <1>4, <1>5 DEF StepOf, Main

------------------------------------------------------------------------------
(* The invariant. *)
\* A step of one run leaves what is said of the others.
LEMMA OthersStep ==
    ASSUME FinalTypeOK, NEW r \in Runs, Holds(r), StepOf(r), NEW s \in Runs \ {r},
           Holds(s), Measured(s), Sober(s), Evaluated(s)
    PROVE  Holds(s)' /\ Measured(s)' /\ Sober(s)' /\ Evaluated(s)'
<1>1. /\ pc'[s] = pc[s] /\ group'[s] = group[s] /\ mem'[s] = mem[s]
      /\ disk'[s] = disk[s] /\ beat'[s] = beat[s]
  BY Elsewhere
<1>2. /\ Missions' = Missions /\ Baselines' = Baselines /\ name' = name /\ name[s] \in Names
      /\ lock = s => lock' = s
      /\ \A n \in Names : vm'[n] = s => vm[n] = s
      /\ Counted(s) => Counted(s)'
  BY Shared DEF Missions, Baselines, Counted, FinalTypeOK
<1>3. Holds(s)'
  BY <1>1, <1>2 DEF Holds, Alive
<1>4. Measured(s)'
  BY <1>1, <1>2 DEF Measured, Alive
<1>5. Sober(s)'
  BY <1>1, <1>2 DEF Sober, Still
<1>6. Evaluated(s)'
  BY <1>1, <1>2 DEF Evaluated, Vm
<1> QED
  BY <1>3, <1>4, <1>5, <1>6

\* A machine that appears or goes on its own belongs to no run.
LEMMA IntrudeStep == ASSUME FinalTypeOK, IInv, Intrude PROVE IInv'
<1> SUFFICES ASSUME NEW r \in Runs
             PROVE  Holds(r)' /\ Measured(r)' /\ Sober(r)' /\ Evaluated(r)'
  BY DEF IInv
<1>1. UNCHANGED <<kind, pre, pc, lock, entries, group, mem, disk, beat, name>>
  BY DEF Intrude, given
<1>2. \A n \in Names : vm'[n] = r => vm[n] = r
  BY FinalizationAssumption DEF Intrude, FinalTypeOK
<1>3. /\ Missions' = Missions /\ Baselines' = Baselines /\ name[r] \in Names
      /\ Counted(r)' <=> Counted(r)
  BY <1>1 DEF Missions, Baselines, Counted, Own, FinalTypeOK
<1>4. Holds(r)' /\ Measured(r)' /\ Sober(r)'
  BY <1>1, <1>3 DEF IInv, Holds, Measured, Sober, Alive, Still
<1>5. Evaluated(r)'
  BY <1>1, <1>2, <1>3 DEF IInv, Evaluated, Vm
<1> QED
  BY <1>4, <1>5

\* Every step keeps the invariant.
LEMMA InvariantStep == ASSUME FinalTypeOK, IInv, [Next]_allvars PROVE IInv'
<1>1. ASSUME NEW r \in Runs, StepOf(r) PROVE IInv'
  <2> SUFFICES ASSUME NEW s \in Runs
               PROVE  Holds(s)' /\ Measured(s)' /\ Sober(s)' /\ Evaluated(s)'
    BY DEF IInv
  <2>1. CASE s = r
    BY <1>1, <2>1, HoldsOwn, MeasuredOwn, SoberOwn, EvaluatedOwn DEF IInv
  <2>2. CASE s # r
    BY <1>1, <2>2, OthersStep DEF IInv
  <2> QED
    BY <2>1, <2>2
<1>2. CASE Intrude
  BY <1>2, IntrudeStep
<1>3. CASE UNCHANGED allvars
  BY <1>3 DEF allvars, vars, given, evaluators, IInv, Holds, Measured, Sober, Evaluated, Alive,
              Still, Vm, Counted, Own, Missions, Baselines
<1> QED
  BY <1>1, <1>2, <1>3 DEF Next, StepOf

\* The initial states are typed.
LEMMA InitType == FinalInit => FinalTypeOK
<1> SUFFICES ASSUME FinalInit PROVE FinalTypeOK
  OBVIOUS
<1>1. NoRecord \in RunRecord
  BY DEF NoRecord, RunRecord
<1>2. \A r \in Runs : mem[r] \in Memory
  BY DEF FinalInit, Init, Memory
<1>3. \A r \in Runs : disk[r] \in Directory
  BY <1>1 DEF FinalInit, Init, Directory
<1>4. mem \in [Runs -> Memory] /\ disk \in [Runs -> Directory]
  BY <1>2, <1>3 DEF FinalInit, Init
<1>5. pc \in [Runs -> Setup] /\ faults \in 0..MaxFaults
  BY RuntimeAssumption DEF FinalInit, Init, Setup
<1>6. TypeOK
  BY <1>4, <1>5 DEF FinalInit, Init, TypeOK
<1> QED
  BY <1>6 DEF FinalInit, FinalTypeOK

\* The invariant holds where nothing has run.
LEMMA InitInvariant == FinalInit => IInv
<1> SUFFICES ASSUME FinalInit, NEW r \in Runs
             PROVE  Holds(r) /\ Measured(r) /\ Sober(r) /\ Evaluated(r)
  BY DEF IInv
<1> USE DEF Setup, Flying, Landing, Judging, Evaluating
<1>1. /\ pc[r] = "idle" /\ group[r] = "none" /\ beat[r] = "off" /\ lock = Nobody
      /\ mem[r].stopped = "unknown" /\ ~mem[r].acquired /\ ~mem[r].launched
      /\ mem[r].outcome = "none"
      /\ ~disk[r].relation /\ disk[r].record = NoRecord
      /\ \A n \in Names : vm[n] = Nobody
  BY DEF FinalInit, Init
<1>2. ~disk[r].record.stopped /\ ~disk[r].record.deleted /\ disk[r].record.outcome = "none"
  BY <1>1 DEF NoRecord
<1>3. ~Reportable("none") /\ r # Nobody
  BY RuntimeAssumption DEF Reportable, RELEASE_REPORTABLE_RUNTIME_OUTCOMES
<1>4. Holds(r)
  BY <1>1 DEF Holds, Alive
<1>5. Measured(r)
  BY <1>1, <1>2 DEF Measured, Alive
<1>6. Sober(r)
  BY <1>1, <1>2, <1>3 DEF Sober
<1>7. Evaluated(r)
  BY <1>1, <1>2, <1>3 DEF Evaluated
<1> QED
  BY <1>4, <1>5, <1>6, <1>7

\* Types and invariant hold in every state of every behaviour.
LEMMA MissionInvariant == Spec => [](FinalTypeOK /\ IInv)
<1>1. FinalInit => FinalTypeOK /\ IInv
  BY InitType, InitInvariant
<1>2. FinalTypeOK /\ IInv /\ [Next]_allvars => (FinalTypeOK /\ IInv)'
  BY TypeStep, InvariantStep
<1> QED
  BY <1>1, <1>2, PTL DEF Spec

------------------------------------------------------------------------------
(* The theorems. *)
\* mission.lock keeps two Missions apart, although a crash leaves both the file and the
\* process group behind.
THEOREM OneMission == Spec => []OneMissionAtATime
<1>1. IInv => OneMissionAtATime
  BY DEF IInv, Holds, Alive, OneMissionAtATime, Missions
<1> QED
  BY <1>1, MissionInvariant, PTL

\* A record with an outcome that may be reported keeps its terminal status: its heartbeat
\* has ended, or the outcome would be another.
THEOREM TerminalStatus == Spec => []TerminalStatusStays
<1>1. IInv => TerminalStatusStays
  BY DEF IInv, Sober, Still, Reportable, TerminalStatusStays, Missions
<1> QED
  BY <1>1, MissionInvariant, PTL

\* A record of a deleted evaluator is that of one that is gone, and came after the Mission.
THEOREM EvaluatorGone == Spec => []DeletedMeansGone
<1>1. FinalTypeOK /\ IInv => DeletedMeansGone
  BY DEF FinalTypeOK, IInv, Evaluated, Vm, DeletedMeansGone
<1> QED
  BY <1>1, MissionInvariant, PTL

\* Success stands for a Mission that stopped, was counted, was reviewed to its end and
\* passed its evaluation.
THEOREM Success == Spec => []WholeSuccess
<1>1. FinalTypeOK /\ IInv => StoppedMeansGone
  BY DEF FinalTypeOK, TypeOK, IInv, Measured, Alive, StoppedMeansGone
<1>2. ASSUME FinalTypeOK, IInv, NEW r \in Missions, pc[r] = "done" \/ Reported(r) = "final"
      PROVE  /\ group[r] = "gone" /\ Counted(r)
             /\ mem[r].seen \subseteq {"blocked"} /\ ~mem[r].checks
             /\ mem[r].cleanup => lock = r
             /\ disk[r].evaluation = "pass" /\ disk[r].status = "terminal"
  <2>1. r \in Runs /\ Holds(r) /\ Measured(r) /\ Sober(r) /\ Evaluated(r)
    BY <1>2 DEF IInv, Missions
  <2>2. /\ disk[r].record.deleted /\ Reportable(disk[r].record.outcome)
        /\ disk[r].evaluation = "pass"
    BY <1>2, <2>1 DEF Reported, Evaluated, Reportable
  <2>3. Reportable(mem[r].outcome) /\ disk[r].status = "terminal"
    BY <1>2, <2>1, <2>2 DEF Sober
  <2>4. group[r] = "gone" /\ Counted(r)
    BY <1>2, <2>1, <2>2 DEF Evaluated, Measured
  <2> QED
    BY <2>1, <2>2, <2>3, <2>4 DEF Sober
<1>3. FinalTypeOK /\ IInv => WholeSuccess
  BY <1>1, <1>2 DEF SuccessMeansAll, WholeSuccess
<1> QED
  BY <1>3, MissionInvariant, PTL
------------------------------------------------------------------------------
(***************************************************************************)
(* The count of live runs, where every command is a Mission.  A baseline   *)
(* stages its entry without mission.lock and shows the others a temporary  *)
(* file that goes again; with one between them two Missions may find the   *)
(* same number of files.                                                   *)
(***************************************************************************)
Lasting == {e \in entries : ~e.temporary}

\* A temporary entry is that of the run that holds the lock, and of one that is about to
\* link it or never will; who has staged found as many entries as it was approved for, and
\* who is counted is among the entries of everybody after.
Tallied ==
    /\ Baselines = {}
    /\ IsFiniteSet(entries)
    /\ \A e \in entries : e.temporary =>
          /\ lock = e.run /\ pc[e.run] \in {"staged", "linked", "crashed"}
          /\ e = Own(e.run, TRUE)
    /\ \A r \in Runs : pc[r] = "staged" => Cardinality(Lasting) + 2 = pre[r].count
    /\ \A r \in Runs : Counted(r) => pre[r].count <= Cardinality(Lasting) + 1
    /\ MissionsCountedOnce

\* Only three steps change the entries; no other brings a run to their places, and a run
\* that is at one of them keeps the lock where it is.
LEMMA EntrySteps ==
    ASSUME FinalTypeOK, NEW r \in Runs, Holds(r), StepOf(r)
    PROVE  \/ (Stage(r) \/ Link(r) \/ Unstage(r)) /\ UNCHANGED evaluators
           \/ /\ entries' = entries
              /\ pc'[r] = "staged" => pc[r] = "staged"
              /\ pc[r] \in {"staged", "linked", "crashed"} =>
                    lock' = lock /\ pc'[r] \in {"staged", "linked", "crashed"}
<1> DEFINE Far == /\ entries' = entries
                  /\ pc'[r] = "staged" => pc[r] = "staged"
                  /\ pc[r] \in {"staged", "linked", "crashed"} =>
                        lock' = lock /\ pc'[r] \in {"staged", "linked", "crashed"}
<1> USE DEF world, given, evaluators, Goto, Trip, Calm, Raise, GiveUp
<1>1. ASSUME Prepare(r) \/ Validate(r) \/ Acquire(r) \/ Arm(r) PROVE Far
  BY <1>1 DEF Prepare, Validate, Acquire, Arm, FinalTypeOK, TypeOK
<1>2. ASSUME Announce(r) PROVE Far
  BY <1>2 DEF Announce, FinalTypeOK, TypeOK
<1>3. ASSUME Executing(r) PROVE Far
  BY <1>3 DEF Executing, Spawn, Poll, Reap, Correlate, FinalTypeOK, TypeOK
<1>4. ASSUME Returning(r) PROVE Far
  BY <1>4 DEF Returning, StopBeat, Quiesce, Abandon, Conclude, Terminate, Record, Unlock,
     FinalTypeOK, TypeOK
<1>5. ASSUME Beat(r) PROVE Far
  BY <1>5 DEF Beat, BeatWakes, BeatWrites, BeatEnds, FinalTypeOK, TypeOK
<1>6. ASSUME Outside(r) PROVE Far
  BY <1>6 DEF Outside, LeaderExits, OrphansEnd, Review, Crash, Setup, Flying, Ended,
     FinalTypeOK, TypeOK
<1>7. ASSUME Concluding(r) PROVE Far
  BY <1>7 DEF Concluding, Admit, Discover, Export, Freeze, Inspect, StartVm, Claim, Evaluate,
     DeleteVm, Complete, Qualify, Recover, FinalTypeOK, TypeOK
<1> QED
  BY <1>1, <1>2, <1>3, <1>4, <1>5, <1>6, <1>7 DEF StepOf, Main, Launching

\* What a step does not change of the other runs is said of them as before.
LEMMA TallyElsewhere ==
    ASSUME FinalTypeOK, Tallied, NEW r \in Runs, Holds(r), StepOf(r)
    PROVE  /\ kind' = kind /\ pre' = pre /\ Baselines' = {} /\ Missions' = Missions
           /\ Missions = Runs
           /\ \A s \in Runs : Own(s, TRUE)' = Own(s, TRUE) /\ Own(s, FALSE)' = Own(s, FALSE)
           /\ \A s \in Runs \ {r} : pc'[s] = pc[s] /\ (lock = s => lock' = s)
<1>1. kind' = kind /\ pre' = pre /\ \A s \in Runs \ {r} : lock = s => lock' = s
  BY Shared
<1>2. \A s \in Runs \ {r} : pc'[s] = pc[s]
  BY Elsewhere
<1> QED
  BY <1>1, <1>2 DEF Tallied, Baselines, Missions, Own

\* Under the lock nothing is temporary but the run's own: it counts what lasts, and adds
\* a temporary entry to it.
LEMMA TallyStage ==
    ASSUME FinalTypeOK, Tallied, NEW r \in Runs, Holds(r), StepOf(r), Stage(r)
    PROVE  Tallied'
<1> USE DEF Own
<1>1. /\ pre' = pre /\ Baselines' = {} /\ Missions' = Missions /\ Missions = Runs
      /\ \A s \in Runs \ {r} : pc'[s] = pc[s] /\ (lock = s => lock' = s)
  BY TallyElsewhere
<1>2. pc[r] = "armed" /\ lock = r /\ lock' = r
  BY <1>1 DEF Stage, Holds, Setup
<1>3. \A e \in entries : ~e.temporary
  BY <1>2, RuntimeAssumption DEF Tallied
<1>4. Lasting = entries
  BY <1>3 DEF Lasting
<1>5. CASE entries' = entries /\ Raise(r)
  <2>1. Lasting' = Lasting /\ pc'[r] # "staged"
    BY <1>2, <1>5, <1>1 DEF Lasting, Stage, Goto, Raise, FinalTypeOK, TypeOK, Tallied
  <2> QED
    BY <1>1, <1>3, <1>5, <2>1 DEF Tallied, Counted, MissionsCountedOnce, Resulting
<1>6. CASE Reconciles(r) /\ entries' = entries \cup {Own(r, TRUE)} /\ Goto(r, "staged")
  <2>1. Lasting' = Lasting
    BY <1>6 DEF Lasting
  <2>2. IsFiniteSet(entries')
    BY <1>6, FS_AddElement DEF Tallied
  <2>3. pc' = [pc EXCEPT ![r] = "staged"] /\ pc'[r] = "staged"
    BY <1>6 DEF Goto, FinalTypeOK, TypeOK
  <2>4. Cardinality(Lasting) + 2 = pre[r].count
    <3>1. Cardinality(entries) \in Nat
      BY FS_CardinalityType DEF Tallied
    <3>2. pre[r].count \in Nat
      BY RuntimeAssumption DEF FinalTypeOK, TypeOK
    <3> QED
      BY <1>4, <1>6, <3>1, <3>2 DEF Reconciles
  <2>5. \A s \in Runs : Counted(s)' <=> Counted(s)
    BY <1>1, <1>6 DEF Counted
  <2>6. MissionsCountedOnce'
    BY <1>1, <2>5 DEF Tallied, MissionsCountedOnce, Resulting
  <2>7. \A e \in entries' : e.temporary => e = Own(r, TRUE)
    BY <1>3, <1>6
  <2> QED
    BY <1>1, <1>2, <2>1, <2>2, <2>3, <2>4, <2>5, <2>6, <2>7 DEF Tallied
<1> QED
  BY <1>5, <1>6 DEF Stage

\* The link makes one entry more that lasts, and only the run that staged can make it.
LEMMA TallyLink ==
    ASSUME FinalTypeOK, IInv, Tallied, NEW r \in Runs, StepOf(r), Link(r)
    PROVE  Tallied'
<1> USE DEF Own
<1>1. /\ pre' = pre /\ Baselines' = {} /\ Missions' = Missions /\ Missions = Runs
      /\ \A s \in Runs \ {r} : pc'[s] = pc[s] /\ (lock = s => lock' = s)
  BY TallyElsewhere DEF IInv
<1>2. pc[r] = "staged" /\ lock = r /\ lock' = r /\ Cardinality(Lasting) + 2 = pre[r].count
  BY <1>1 DEF Link, IInv, Holds, Setup, Flying, Tallied
<1>3. pc'[r] # "staged" /\ \A s \in Runs : pc'[s] = "staged" => pc[s] = "staged" /\ s # r
  BY <1>1 DEF Link, Goto, Raise, FinalTypeOK, TypeOK
<1>4. \A e \in entries : e.temporary => e = Own(r, TRUE)
  BY <1>2 DEF Tallied
<1>5. IsFiniteSet(Lasting) /\ Cardinality(Lasting) \in Nat
  <2>1. Lasting \in SUBSET entries
    BY DEF Lasting
  <2> QED
    BY <2>1, FS_Subset, FS_CardinalityType DEF Tallied
<1>6. CASE \E e \in entries : e.auth = pre[r].auth /\ ~e.temporary
  <2>1. entries' = entries \ {Own(r, TRUE)}
    BY <1>6 DEF Link
  <2>2. Lasting' = Lasting /\ \A e \in entries' : ~e.temporary
    BY <1>4, <2>1 DEF Lasting
  <2>3. IsFiniteSet(entries')
    BY <2>1, FS_RemoveElement DEF Tallied
  <2>4. \A s \in Runs : Counted(s)' <=> Counted(s)
    BY <1>1, <2>1 DEF Counted
  <2>5. MissionsCountedOnce'
    BY <1>1, <2>4 DEF Tallied, MissionsCountedOnce, Resulting
  <2> QED
    BY <1>1, <1>3, <2>2, <2>3, <2>4, <2>5 DEF Tallied
<1>7. CASE ~\E e \in entries : e.auth = pre[r].auth /\ ~e.temporary
  <2>1. entries' = entries \cup {Own(r, FALSE)} /\ pc'[r] = "linked"
    BY <1>7 DEF Link, Goto, FinalTypeOK, TypeOK
  <2>2. Lasting' = Lasting \cup {Own(r, FALSE)} /\ Own(r, FALSE) \notin Lasting
    BY <1>7, <2>1 DEF Lasting
  <2>3. Cardinality(Lasting') = Cardinality(Lasting) + 1
    BY <1>5, <2>2, FS_AddElement
  <2>4. IsFiniteSet(entries')
    BY <2>1, FS_AddElement DEF Tallied
  <2>5. \A s \in Runs : Counted(s)' => Counted(s) \/ s = r
    BY <1>1, <2>1 DEF Counted
  <2>6. \A s \in Runs : pre[s].count \in Nat
    BY RuntimeAssumption DEF FinalTypeOK, TypeOK
  <2>7. \A s \in Runs : Counted(s) => pre[s].count < pre[r].count
    BY <1>2, <1>5, <2>6 DEF Tallied
  <2>8. MissionsCountedOnce'
    BY <1>1, <2>5, <2>6, <2>7 DEF Tallied, MissionsCountedOnce, Resulting
  <2>9. \A s \in Runs : Counted(s)' => pre'[s].count <= Cardinality(Lasting') + 1
    BY <1>1, <1>2, <1>5, <2>3, <2>5, <2>6 DEF Tallied
  <2>10. \A s \in Runs : pc'[s] # "staged"
    BY <1>1, <1>2, <1>3 DEF IInv, Holds, Setup
  <2> QED
    BY <1>1, <1>2, <1>4, <2>1, <2>4, <2>8, <2>9, <2>10 DEF Tallied
<1> QED
  BY <1>6, <1>7

\* The temporary name goes, and nothing that lasts.
LEMMA TallyUnstage ==
    ASSUME FinalTypeOK, Tallied, NEW r \in Runs, Holds(r), StepOf(r), Unstage(r)
    PROVE  Tallied'
<1> USE DEF Own
<1>1. /\ pre' = pre /\ Baselines' = {} /\ Missions' = Missions /\ Missions = Runs
      /\ \A s \in Runs \ {r} : pc'[s] = pc[s] /\ (lock = s => lock' = s)
  BY TallyElsewhere
<1>2. pc[r] = "linked" /\ lock = r /\ entries' = entries \ {Own(r, TRUE)}
  BY <1>1 DEF Unstage, Holds, Setup
<1>3. \A s \in Runs : pc'[s] = "staged" => pc[s] = "staged"
  BY <1>1 DEF Unstage, Goto, Raise, FinalTypeOK, TypeOK
<1>4. Lasting' = Lasting /\ \A e \in entries' : ~e.temporary
  BY <1>2 DEF Lasting, Tallied
<1>5. IsFiniteSet(entries')
  BY <1>2, FS_RemoveElement DEF Tallied
<1>6. \A s \in Runs : Counted(s)' <=> Counted(s)
  BY <1>1, <1>2 DEF Counted
<1>7. MissionsCountedOnce'
  BY <1>1, <1>6 DEF Tallied, MissionsCountedOnce, Resulting
<1> QED
  BY <1>1, <1>3, <1>4, <1>5, <1>6, <1>7 DEF Tallied

\* No other step touches the entries or what is said of their run.
LEMMA TallyRest ==
    ASSUME FinalTypeOK, Tallied, NEW r \in Runs, Holds(r), StepOf(r), entries' = entries,
           pc'[r] = "staged" => pc[r] = "staged",
           pc[r] \in {"staged", "linked", "crashed"} =>
              lock' = lock /\ pc'[r] \in {"staged", "linked", "crashed"}
    PROVE  Tallied'
<1>1. /\ pre' = pre /\ Baselines' = {} /\ Missions' = Missions /\ Missions = Runs
      /\ \A s \in Runs : Own(s, TRUE)' = Own(s, TRUE) /\ Own(s, FALSE)' = Own(s, FALSE)
      /\ \A s \in Runs \ {r} : pc'[s] = pc[s] /\ (lock = s => lock' = s)
  BY TallyElsewhere
<1>2. Lasting' = Lasting /\ \A s \in Runs : Counted(s)' <=> Counted(s)
  BY <1>1 DEF Lasting, Counted
<1>3. MissionsCountedOnce'
  BY <1>1, <1>2 DEF Tallied, MissionsCountedOnce, Resulting
<1>4. ASSUME NEW e \in entries, e.temporary
      PROVE  /\ lock' = e.run /\ pc'[e.run] \in {"staged", "linked", "crashed"}
             /\ e = Own(e.run, TRUE)'
  <2>1. /\ lock = e.run /\ pc[e.run] \in {"staged", "linked", "crashed"}
        /\ e = Own(e.run, TRUE) /\ e.run \in Runs
    BY <1>4 DEF Tallied, FinalTypeOK, TypeOK, Entry
  <2> QED
    BY <1>1, <2>1
<1> QED
  BY <1>1, <1>2, <1>3, <1>4 DEF Tallied

\* Every step keeps the count.
LEMMA TallyStep == ASSUME FinalTypeOK, IInv, Tallied, [Next]_allvars PROVE Tallied'
<1>1. ASSUME NEW r \in Runs, StepOf(r) PROVE Tallied'
  BY <1>1, EntrySteps, TallyStage, TallyLink, TallyUnstage, TallyRest DEF IInv
<1>2. CASE Intrude
  BY <1>2 DEF Intrude, given, Tallied, Lasting, Counted, Own, MissionsCountedOnce, Resulting,
     Missions, Baselines
<1>3. CASE UNCHANGED allvars
  BY <1>3 DEF allvars, vars, given, Tallied, Lasting, Counted, Own, MissionsCountedOnce,
     Resulting, Missions, Baselines
<1> QED
  BY <1>1, <1>2, <1>3 DEF Next, StepOf

\* Nobody turns into a baseline or a Mission.
LEMMA KindsStay == ASSUME FinalTypeOK, IInv, [Next]_allvars PROVE kind' = kind
<1>1. ASSUME NEW r \in Runs, StepOf(r) PROVE kind' = kind
  BY <1>1, Shared DEF IInv
<1> QED
  BY <1>1 DEF Next, StepOf, Intrude, allvars, vars, given

\* Where every command is a Mission, two that are counted have numbers of their own: the
\* second count happens under the lock, and what it finds does not go again.
THEOREM CountedOnce == Spec => []MissionsCountedOnce
<1>1. FinalInit => (Baselines = {} => Tallied)
  BY FS_EmptySet DEF FinalInit, Init, Tallied, Counted, MissionsCountedOnce
<1>2. FinalTypeOK /\ IInv /\ (Baselines = {} => Tallied) /\ [Next]_allvars
         => (Baselines = {} => Tallied)'
  BY TallyStep, KindsStay DEF Baselines, Missions
<1>3. (Baselines = {} => Tallied) => MissionsCountedOnce
  BY DEF Tallied, MissionsCountedOnce
<1> QED
  BY <1>1, <1>2, <1>3, MissionInvariant, PTL DEF Spec
==============================================================================
