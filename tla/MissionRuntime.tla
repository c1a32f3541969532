--------------------------- MODULE MissionRuntime ---------------------------
(***************************************************************************)
(* One host, one state root, several commands on it (runtime.py,           *)
(* MissionRuntime.run; demo/run_baseline.py, run_host_baseline): the       *)
(* authorization ledger that counts live runs, mission.lock, the Droid     *)
(* process group and its bounded runner, the heartbeat thread that         *)
(* rewrites status.json, the teardown, the outcome and run.json.           *)
(*                                                                         *)
(* A run is one command.  A Mission takes mission.lock before it counts    *)
(* itself; a baseline counts itself without the lock.  Any command may be  *)
(* killed between two steps; its files and its process group stay.         *)
(***************************************************************************)
EXTENDS Naturals, FiniteSets

CONSTANTS
    Runs,        \* commands that are started during the behaviour
    Kinds,       \* what they can be: see Kind
    Nobody,      \* no run
    Preflights,  \* approved release preflights: authorization and live run count
    Flags,       \* what the review can come to: see Review
    Faults,      \* what can go wrong: see Trip
    MaxFaults    \* how often that happens

ASSUME RuntimeAssumption ==
    /\ Nobody \notin Runs /\ Kinds \subseteq {"mission", "baseline"}
    /\ \A p \in Preflights : DOMAIN p = {"auth", "count"} /\ p.count \in Nat
    /\ Flags \subseteq {"terminal", "blocked", "degraded", "collector"}
    /\ MaxFaults \in Nat

VARIABLES
    kind,     \* a Mission or a baseline
    pre,      \* the preflight each run was started with
    pc,       \* the step each run takes next
    lock,     \* the run that created mission.lock, while the file exists
    entries,  \* files under authorizations/, the temporary ones included
    group,    \* the Droid process group of each run
    mem,      \* what each run remembers until it returns
    disk,     \* the files of each run's directory
    beat,     \* the heartbeat thread of each run
    review,   \* what the review controller and the collector of each run say
    faults    \* faults so far

given == <<kind, pre>>
world == <<given, group, review, beat>>
vars == <<given, pc, lock, entries, group, mem, disk, beat, review, faults>>

------------------------------------------------------------------------------
Missions == {r \in Runs : kind[r] = "mission"}
Baselines == Runs \ Missions
Setup == {"idle", "prepared", "validated", "locked", "armed", "staged", "linked", "counted"}
Flying == {"spawning", "running", "reaping", "reaped"}
Landing == {"closing", "quiescing", "settled", "concluded", "stated", "recorded"}
Finalizing == {"returned", "admitted", "exported", "frozen", "cleared", "starting", "started",
               "deleting", "deleted", "recovering"}
Ended == {"refused", "failed", "done", "crashed"}

Outcomes == {"cleanup-failed", "unresolved-blocker", "review-termination-check-failed",
             "collector-degraded", "review-controller-degraded", "completion-blocked",
             "mission-terminated", "mission-exit", "mission-process-error"}
RELEASE_REPORTABLE_RUNTIME_OUTCOMES == {"mission-terminated", "completion-blocked"}

Entry == [run : Runs, auth : {p.auth : p \in Preflights}, temporary : BOOLEAN]
Memory == [acquired : BOOLEAN, launched : BOOLEAN, started : BOOLEAN,
           stopped : {"unknown", "yes", "no"}, result : {"none", "zero", "other"},
           error : BOOLEAN, cleanup : BOOLEAN, checks : BOOLEAN, seen : SUBSET Flags,
           outcome : Outcomes \cup {"none"}]
NoRecord == [outcome |-> "none", stopped |-> FALSE, verdict |-> "none", deleted |-> FALSE]
RunRecord == [outcome : Outcomes \cup {"none", "mission-complete", "mission-failed"},
              stopped : BOOLEAN, verdict : {"none", "pass", "fail"}, deleted : BOOLEAN]
Directory == [launch : BOOLEAN, status : {"none", "active", "terminal"}, relation : BOOLEAN,
              record : RunRecord, source : BOOLEAN, frozen : BOOLEAN,
              evaluation : {"none", "pass", "fail"}]

TypeOK ==
    /\ kind \in [Runs -> Kinds]
    /\ pre \in [Runs -> Preflights]
    /\ pc \in [Runs -> Setup \cup Flying \cup Landing \cup Finalizing \cup Ended]
    /\ lock \in Runs \cup {Nobody}
    /\ entries \subseteq Entry
    /\ group \in [Runs -> {"none", "running", "orphans", "gone"}]
    /\ mem \in [Runs -> Memory]
    /\ disk \in [Runs -> Directory]
    /\ beat \in [Runs -> {"off", "idle", "writing", "dead"}]
    /\ review \in [Runs -> SUBSET Flags]
    /\ faults \in 0..MaxFaults

------------------------------------------------------------------------------
Goto(r, step) == pc' = [pc EXCEPT ![r] = step]

\* A fault of this kind happens now.
Trip(what) == what \in Faults /\ faults < MaxFaults /\ faults' = faults + 1
Calm == UNCHANGED faults

\* An exception is raised: a Mission runs its finally block, a baseline that was counted
\* writes a failure record, one that was not gives up.
Raise(r) ==
    /\ mem' = [mem EXCEPT ![r].error = TRUE]
    /\ Goto(r, IF r \notin Baselines THEN "closing"
               ELSE IF mem[r].launched THEN "recovering" ELSE "refused")

\* validate_live_authorization_ledger: every file in the directory counts.
Reconciles(r) == pre[r].count >= 2 /\ Cardinality(entries) = pre[r].count - 2

Own(r, temporary) == [run |-> r, auth |-> pre[r].auth, temporary |-> temporary]

Init ==
    /\ kind \in [Runs -> Kinds]
    /\ pre \in [Runs -> Preflights]
    /\ pc = [r \in Runs |-> "idle"]
    /\ lock = Nobody
    /\ entries = {}
    /\ group = [r \in Runs |-> "none"]
    /\ mem = [r \in Runs |-> [acquired |-> FALSE, launched |-> FALSE, started |-> FALSE,
                              stopped |-> "unknown", result |-> "none", error |-> FALSE,
                              cleanup |-> FALSE, checks |-> FALSE, seen |-> {},
                              outcome |-> "none"]]
    /\ disk = [r \in Runs |-> [launch |-> FALSE, status |-> "none", relation |-> FALSE,
                               record |-> NoRecord, source |-> FALSE, frozen |-> FALSE,
                               evaluation |-> "none"]]
    /\ beat = [r \in Runs |-> "off"]
    /\ review = [r \in Runs |-> {}]
    /\ faults = 0

(***************************************************************************)
(* Up to the launch                                                        *)
(***************************************************************************)
\* Every file the approval names is compared with its digest, the launch is staged in
\* sealed descriptors and the Droid version observed.
Prepare(r) ==
    /\ pc[r] = "idle"
    /\ \/ Goto(r, "prepared") /\ Calm
       \/ Trip("preflight") /\ Goto(r, "refused")
    /\ UNCHANGED <<world, lock, entries, mem, disk>>

\* The first count of the ledger, outside the lock.
Validate(r) ==
    /\ pc[r] = "prepared" /\ r \in Missions
    /\ Goto(r, IF Reconciles(r) THEN "validated" ELSE "refused")
    /\ Calm /\ UNCHANGED <<world, lock, entries, mem, disk>>

\* mission.lock is created exclusively; the file that is there already stops this run.
Acquire(r) ==
    /\ pc[r] = "validated"
    /\ IF lock = Nobody
       THEN /\ lock' = r
            /\ mem' = [mem EXCEPT ![r].acquired = TRUE]
            /\ Goto(r, "locked")
       ELSE Raise(r) /\ UNCHANGED lock
    /\ Calm /\ UNCHANGED <<world, entries, disk>>

\* bind, the descriptor, controller.start, collector.start, the installed plugin's digest.
Arm(r) ==
    /\ pc[r] = "locked"
    /\ \/ Goto(r, "armed") /\ Calm /\ UNCHANGED mem
       \/ Trip("setup") /\ Raise(r)
    /\ UNCHANGED <<world, lock, entries, disk>>

\* Variant: trusts the first count.
Stage_Trusting(r) ==
    /\ pc[r] = (IF r \in Missions THEN "armed" ELSE "prepared")
    /\ entries' = entries \cup {Own(r, TRUE)}
    /\ Goto(r, "staged") /\ Calm
    /\ UNCHANGED <<world, lock, disk, mem>>

\* consume_release_authorization counts the ledger again and stages its entry in the same
\* directory.  A write that fails takes its temporary file away.
Stage(r) ==
    /\ pc[r] = (IF r \in Missions THEN "armed" ELSE "prepared")
    /\ \/ /\ Reconciles(r)
          /\ entries' = entries \cup {Own(r, TRUE)}
          /\ Goto(r, "staged") /\ Calm /\ UNCHANGED mem
       \/ /\ \/ ~Reconciles(r) /\ Calm
             \/ Trip("disk")
          /\ Raise(r) /\ UNCHANGED entries
    /\ UNCHANGED <<world, lock, disk>>

\* The entry is named after the authorization and linked exclusively.
Link(r) ==
    /\ pc[r] = "staged"
    /\ IF \E e \in entries : e.auth = pre[r].auth /\ ~e.temporary
       THEN entries' = entries \ {Own(r, TRUE)} /\ Raise(r)
       ELSE entries' = entries \cup {Own(r, FALSE)} /\ Goto(r, "linked") /\ UNCHANGED mem
    /\ Calm /\ UNCHANGED <<world, lock, disk>>

\* The temporary name goes; when the directory cannot be synchronised the entry stays,
\* and the run is not launched.
Unstage(r) ==
    /\ pc[r] = "linked"
    /\ entries' = entries \ {Own(r, TRUE)}
    /\ \/ mem' = [mem EXCEPT ![r].launched = TRUE] /\ Goto(r, "counted") /\ Calm
       \/ Trip("disk") /\ Raise(r)
    /\ UNCHANGED <<world, lock, disk>>

\* launch.json, the first status.json, the heartbeat thread.
Announce(r) ==
    /\ pc[r] = "counted" /\ r \in Missions
    /\ \/ /\ disk' = [disk EXCEPT ![r].launch = TRUE, ![r].status = "active"]
          /\ beat' = [beat EXCEPT ![r] = "idle"]
          /\ mem' = [mem EXCEPT ![r].started = TRUE]
          /\ Goto(r, "spawning") /\ Calm
       \/ /\ Trip("disk") /\ Raise(r)
          /\ \E written \in {{}, {"launch"}, {"launch", "status"}} :
                disk' = [disk EXCEPT ![r].launch = "launch" \in written,
                                     ![r].status = IF "status" \in written
                                                   THEN "active" ELSE "none"]
          /\ UNCHANGED beat
    /\ UNCHANGED <<given, group, review, lock, entries>>

(***************************************************************************)
(* The Droid process group                                                 *)
(***************************************************************************)
Spawn(r) ==
    /\ pc[r] = (IF r \in Missions THEN "spawning" ELSE "counted")
    /\ \/ /\ group' = [group EXCEPT ![r] = "running"]
          /\ Goto(r, "running") /\ Calm /\ UNCHANGED mem
       \/ /\ Trip("spawn")
          /\ mem' = [mem EXCEPT ![r].error = TRUE,
                                ![r].stopped = IF r \in Missions THEN "yes" ELSE @]
          /\ Goto(r, IF r \in Missions THEN "closing" ELSE "recovering")
          /\ UNCHANGED group
    /\ UNCHANGED <<given, lock, entries, disk, beat, review>>

\* The group's leader ends by itself, perhaps before its children; they end when they like.
LeaderExits(r) ==
    /\ group[r] = "running"
    /\ \/ group' = [group EXCEPT ![r] = "gone"]
       \/ "orphans" \in Faults /\ group' = [group EXCEPT ![r] = "orphans"]
    /\ Calm /\ UNCHANGED <<given, pc, lock, entries, mem, disk, beat, review>>

OrphansEnd(r) ==
    /\ group[r] = "orphans"
    /\ group' = [group EXCEPT ![r] = "gone"]
    /\ Calm /\ UNCHANGED <<given, pc, lock, entries, mem, disk, beat, review>>

\* What termination_required reads.
MustStop(r) == r \in Missions /\ review[r] \cap {"terminal", "degraded"} # {}

\* run_interruptible: the leader has exited, its output cannot be kept, the review wants
\* the end (or cannot be asked), the time is up.
Poll(r) ==
    /\ pc[r] = "running"
    /\ \/ /\ group[r] # "running" \/ MustStop(r)
          /\ \E code \in {"zero", "other"} : mem' = [mem EXCEPT ![r].result = code]
          /\ Calm
       \/ /\ group[r] = "running" /\ r \in Missions /\ Trip("check")
          /\ \E code \in {"zero", "other"} :
                mem' = [mem EXCEPT ![r].result = code, ![r].checks = TRUE]
       \/ /\ group[r] = "running"
          /\ Calm \/ Trip("capture")
          /\ mem' = [mem EXCEPT ![r].error = TRUE]
    /\ Goto(r, "reaping")
    /\ UNCHANGED <<world, lock, entries, disk>>

\* What _terminate_process_group leaves.  The Mission's sends SIGTERM only while the leader
\* runs and SIGKILL only if the leader outlives it; the baseline's sends both to the group.
Survivors(r) ==
    IF group[r] = "gone" THEN {"gone"}
    ELSE {"gone"} \cup (IF r \in Missions /\ "orphans" \in Faults THEN {"orphans"} ELSE {})
                  \cup (IF "stubborn" \in Faults THEN {group[r]} ELSE {})

\* The group is ended, its exit measured, the output drained.
Reap(r) ==
    /\ pc[r] = "reaping"
    /\ \E left \in Survivors(r), drained \in BOOLEAN :
          /\ group' = [group EXCEPT ![r] = left]
          /\ mem' = [mem EXCEPT ![r].stopped = IF left = "gone" THEN "yes" ELSE "no",
                                ![r].error = @ \/ ~drained \/ (r \in Baselines /\ left # "gone"),
                                ![r].result = IF drained THEN @ ELSE "none"]
          /\ IF drained THEN Calm ELSE Trip("capture")
    /\ Goto(r, "reaped")
    /\ UNCHANGED <<given, lock, entries, disk, beat, review>>

\* finalize_record, correlation.json and the last active status.
Correlate(r) ==
    /\ pc[r] = "reaped" /\ r \in Missions
    /\ \/ /\ ~mem[r].error
          /\ disk' = [disk EXCEPT ![r].relation = TRUE, ![r].status = "active"]
          /\ Goto(r, "closing") /\ Calm /\ UNCHANGED mem
       \/ /\ ~mem[r].error /\ Trip("disk")
          /\ \E kept \in BOOLEAN : disk' = [disk EXCEPT ![r].relation = kept]
          /\ Raise(r)
       \/ mem[r].error /\ Goto(r, "closing") /\ Calm /\ UNCHANGED <<mem, disk>>
    /\ UNCHANGED <<world, lock, entries>>

(***************************************************************************)
(* The heartbeat thread and the review                                     *)
(***************************************************************************)
\* status_stop is set when the finally block begins.
BeatTold(r) == pc[r] \notin Setup \cup Flying

BeatWakes(r) ==
    /\ beat[r] = "idle" /\ ~BeatTold(r)
    /\ beat' = [beat EXCEPT ![r] = "writing"]
    /\ Calm /\ UNCHANGED <<given, pc, lock, entries, group, mem, disk, review>>

\* write_active_status; its exception is kept for the main thread and ends the thread.
BeatWrites(r) ==
    /\ beat[r] = "writing"
    /\ \/ /\ disk' = [disk EXCEPT ![r].status = "active"]
          /\ beat' = [beat EXCEPT ![r] = "idle"]
          /\ Calm /\ UNCHANGED mem
       \/ /\ Trip("disk")
          /\ mem' = [mem EXCEPT ![r].checks = TRUE]
          /\ beat' = [beat EXCEPT ![r] = "dead"]
          /\ UNCHANGED disk
    /\ UNCHANGED <<given, pc, lock, entries, group, review>>

BeatEnds(r) ==
    /\ beat[r] = "idle" /\ BeatTold(r)
    /\ beat' = [beat EXCEPT ![r] = "dead"]
    /\ Calm /\ UNCHANGED <<given, pc, lock, entries, group, mem, disk, review>>

\* A blocker or an unusable latch ("terminal"), a deferred completion ("blocked"), a
\* controller that is not releasable ("degraded"), a collector that lost something.
Review(r) ==
    /\ r \in Missions /\ pc[r] \in Flying \cup {"closing", "quiescing"} /\ mem[r].launched
    /\ \E f \in Flags \ review[r] : review' = [review EXCEPT ![r] = @ \cup {f}]
    /\ Calm /\ UNCHANGED <<given, pc, lock, entries, group, mem, disk, beat>>

(***************************************************************************)
(* The finally block and the record                                        *)
(***************************************************************************)
\* Variant: forgets to look whether the thread has ended.
StopBeat_Ignoring(r) ==
    /\ pc[r] = "closing"
    /\ Goto(r, "quiescing") /\ Calm
    /\ UNCHANGED <<world, lock, entries, disk, mem>>

\* The heartbeat is joined for two seconds.
StopBeat(r) ==
    /\ pc[r] = "closing"
    /\ \/ beat[r] \in {"off", "dead"} /\ Calm /\ UNCHANGED mem
       \/ /\ beat[r] = "writing" /\ Trip("slow")
          /\ mem' = [mem EXCEPT ![r].cleanup = TRUE]
    /\ Goto(r, "quiescing")
    /\ UNCHANGED <<world, lock, entries, disk>>

\* collector.stop, drain, reconcile_final_outage, controller.stop, the state of review and
\* latch, the private files.
Quiesce(r) ==
    /\ pc[r] = "quiescing"
    /\ \/ mem' = [mem EXCEPT ![r].seen = review[r]] /\ Calm
       \/ /\ Trip("teardown")
          /\ mem' = [mem EXCEPT ![r].seen = review[r], ![r].cleanup = TRUE]
       \/ /\ Trip("check")
          /\ mem' = [mem EXCEPT ![r].seen = review[r] \cup ({"terminal"} \cap Flags),
                                ![r].checks = TRUE]
    /\ Goto(r, "settled")
    /\ UNCHANGED <<world, lock, entries, disk>>

\* A run that was not launched removes its lock and leaves no record.
Abandon(r) ==
    /\ pc[r] = "settled" /\ ~mem[r].launched
    /\ \/ lock' = (IF mem[r].acquired THEN Nobody ELSE lock) /\ Calm
       \/ mem[r].acquired /\ Trip("unlink") /\ UNCHANGED lock
    /\ Goto(r, "refused")
    /\ UNCHANGED <<world, entries, mem, disk>>

\* The first reason that applies names the outcome.
Outcome(m) ==
    LET clean == m.result = "zero" /\ ~m.error
        reasons == << <<m.stopped # "yes", "cleanup-failed">>,
                      <<"terminal" \in m.seen, "unresolved-blocker">>,
                      <<m.checks, "review-termination-check-failed">>,
                      <<m.cleanup, "cleanup-failed">>,
                      <<"collector" \in m.seen, "collector-degraded">>,
                      <<"degraded" \in m.seen, "review-controller-degraded">>,
                      <<clean /\ "blocked" \in m.seen, "completion-blocked">>,
                      <<clean, "mission-terminated">>,
                      <<m.result # "none", "mission-exit">>,
                      <<TRUE, "mission-process-error">> >>
        first == CHOOSE i \in DOMAIN reasons :
                    reasons[i][1] /\ \A j \in 1..(i - 1) : ~reasons[j][1]
    IN  reasons[first][2]

\* The outcome is fixed and the repository inspected.
Conclude(r) ==
    /\ pc[r] = "settled" /\ mem[r].launched
    /\ \/ mem' = [mem EXCEPT ![r].outcome = Outcome(mem[r])] /\ Calm
       \/ /\ Trip("git")
          /\ mem' = [mem EXCEPT ![r].outcome = "cleanup-failed", ![r].cleanup = TRUE]
    /\ Goto(r, "concluded")
    /\ UNCHANGED <<world, lock, entries, disk>>

\* status.json becomes terminal; when it cannot, the run has failed.
Terminate(r) ==
    /\ pc[r] = "concluded"
    /\ \/ disk' = [disk EXCEPT ![r].status = "terminal"] /\ Calm /\ UNCHANGED mem
       \/ /\ Trip("disk")
          /\ mem' = [mem EXCEPT ![r].outcome = "cleanup-failed", ![r].cleanup = TRUE]
          /\ UNCHANGED disk
    /\ Goto(r, "stated")
    /\ UNCHANGED <<world, lock, entries>>

\* run.json; when it cannot be written the lock is still handled before the error leaves.
Record(r) ==
    /\ pc[r] = "stated"
    /\ \/ /\ disk' = [disk EXCEPT ![r].record =
                        [@ EXCEPT !.outcome = mem[r].outcome, !.stopped = mem[r].stopped = "yes"]]
          /\ Calm
       \/ Trip("disk") /\ UNCHANGED disk
    /\ Goto(r, "recorded")
    /\ UNCHANGED <<world, lock, entries, mem>>

\* Variant: the lock always goes.
MayUnlock_Always(r) == TRUE

\* The lock stays while the Mission is not known to have stopped.
MayUnlock(r) == ~mem[r].started \/ mem[r].stopped = "yes"

Unlock(r) ==
    /\ pc[r] = "recorded"
    /\ \/ lock' = (IF MayUnlock(r) THEN Nobody ELSE lock) /\ Calm /\ UNCHANGED mem
       \/ /\ MayUnlock(r) /\ Trip("unlink")
          /\ mem' = [mem EXCEPT ![r].cleanup = TRUE]
          /\ UNCHANGED lock
    /\ Goto(r, IF disk[r].record = NoRecord THEN "failed" ELSE "returned")
    /\ UNCHANGED <<world, entries, disk>>

\* Whether run raises instead of returning the record.
Raised(r) ==
    LET m == mem[r]
    IN  m.cleanup \/ m.checks \/ m.error \/ m.stopped # "yes" \/ m.result # "zero"
        \/ m.seen # {}

\* The host process is killed: its threads go with it, files and process groups stay.
Crash(r) ==
    /\ pc[r] \notin {"idle"} \cup Ended
    /\ Trip("crash")
    /\ Goto(r, "crashed")
    /\ beat' = [beat EXCEPT ![r] = IF @ = "off" THEN @ ELSE "dead"]
    /\ UNCHANGED <<given, lock, entries, group, mem, disk, review>>

------------------------------------------------------------------------------
Launching(r) == Prepare(r) \/ Validate(r) \/ Acquire(r) \/ Arm(r) \/ Stage(r) \/ Link(r) 
                \/ Unstage(r) \/ Announce(r)
Executing(r) == Spawn(r) \/ Poll(r) \/ Reap(r) \/ Correlate(r)
Returning(r) == StopBeat(r) \/ Quiesce(r) \/ Abandon(r) \/ Conclude(r) \/ Terminate(r)
                \/ Record(r) \/ Unlock(r)
Main(r) == Launching(r) \/ Executing(r) \/ Returning(r)
Beat(r) == BeatWakes(r) \/ BeatWrites(r) \/ BeatEnds(r)
Outside(r) == LeaderExits(r) \/ OrphansEnd(r) \/ Review(r) \/ Crash(r)

------------------------------------------------------------------------------
(***************************************************************************)
(* Properties                                                              *)
(***************************************************************************)
Counted(r) == Own(r, FALSE) \in entries
Resulting(r) == pre[r].count + 1

\* Where every command is a Mission, two that are counted never carry the same live run
\* number: the ledger is counted again under the lock, whatever was counted before it was
\* taken.  A baseline counts itself without the lock; nothing is said of its number.
MissionsCountedOnce ==
    Baselines = {} =>
        \A r, s \in Runs : r # s /\ Counted(r) /\ Counted(s) => Resulting(r) # Resulting(s)

\* Only one Mission's process group is alive, however the others ended: a lock outlives a
\* crash, and a Mission that may still run keeps it.
OneMissionAtATime ==
    \A r, s \in Missions :
        group[r] \in {"running", "orphans"} /\ group[s] \in {"running", "orphans"} => r = s

\* A run that says its process group stopped has none.
StoppedMeansGone ==
    \A r \in Runs :
        (mem[r].stopped = "yes" \/ disk[r].record.stopped) => group[r] \in {"none", "gone"}

\* A record that may be released is not contradicted by a later heartbeat.
TerminalStatusStays ==
    \A r \in Missions :
        disk[r].record.outcome \in RELEASE_REPORTABLE_RUNTIME_OUTCOMES
            => disk[r].status = "terminal" /\ beat[r] \in {"off", "dead"}
==============================================================================
