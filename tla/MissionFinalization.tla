------------------------- MODULE MissionFinalization -------------------------
(***************************************************************************)
(* What a command does after its Mission (cli.py, _run_mission;            *)
(* finalization.py; evaluation.py, run_isolated_evaluator;                 *)
(* demo/run_baseline.py): export the source, freeze the records, evaluate  *)
(* in one fresh virtual machine, delete it, complete run.json or write the *)
(* baseline's record.  Also what `shadow status` and `shadow report` make  *)
(* of the files (status.py, load_status; reporting.py).                    *)
(*                                                                         *)
(* The lock is gone by then: two commands finalize at the same time.  They *)
(* use the evaluator name of their command line.                           *)
(***************************************************************************)
EXTENDS MissionRuntime

CONSTANTS Names,   \* evaluator VM names on the command lines
          Foreign  \* the owner of a VM that no run started

ASSUME FinalizationAssumption == Foreign \notin Runs \cup {Nobody}

VARIABLES
    name,  \* the --evaluator-vm-name of each run
    vm,    \* who started the VM of each name, or Nobody
    error  \* run_isolated_evaluator of a run keeps an error until the VM is gone

evaluators == <<name, vm, error>>
allvars == <<vars, evaluators>>

FinalTypeOK ==
    /\ TypeOK
    /\ name \in [Runs -> Names]
    /\ vm \in [Names -> Runs \cup {Nobody, Foreign}]
    /\ error \in [Runs -> BOOLEAN]

FinalInit ==
    /\ Init
    /\ name \in [Runs -> Names]
    /\ vm = [n \in Names |-> Nobody]
    /\ error = [r \in Runs |-> FALSE]

------------------------------------------------------------------------------
Vm(r) == vm[name[r]]
SetVm(r, owner) == vm' = [vm EXCEPT ![name[r]] = owner]

\* A command that fails after its Mission ends, or writes a baseline's failure record.
GiveUp(r) == Goto(r, IF r \in Missions THEN "failed" ELSE "recovering")

\* finalize_run looks at the record before anything else: the process group stopped, the
\* relation record is there, and the exception agrees with the recorded outcome.
Admissible(r) ==
    LET recorded == disk[r].record
    IN  /\ recorded.stopped /\ disk[r].relation
        /\ (recorded.outcome = "mission-terminated") = ~Raised(r)

Admit(r) ==
    /\ pc[r] = "returned"
    /\ Goto(r, IF Admissible(r) THEN "admitted" ELSE "failed")
    /\ Calm /\ UNCHANGED <<world, lock, entries, mem, disk, evaluators>>

\* A baseline goes on from a Mission that exited with zero and left one Factory Mission.
Discover(r) ==
    /\ pc[r] = "reaped" /\ r \in Baselines
    /\ \/ Goto(r, IF mem[r].error \/ mem[r].result # "zero" THEN "recovering" ELSE "admitted")
          /\ Calm
       \/ ~mem[r].error /\ Trip("discovery") /\ Goto(r, "recovering")
    /\ UNCHANGED <<world, lock, entries, mem, disk, evaluators>>

\* export_final_source into a directory that must not exist.
Export(r) ==
    /\ pc[r] = "admitted"
    /\ \/ disk' = [disk EXCEPT ![r].source = TRUE] /\ Goto(r, "exported") /\ Calm
       \/ Trip("export") /\ GiveUp(r) /\ UNCHANGED disk
    /\ UNCHANGED <<world, lock, entries, mem, evaluators>>

\* pre-evaluation-run.json and pre-evaluation.json, each created exclusively.
Freeze(r) ==
    /\ pc[r] = "exported"
    /\ IF r \in Missions
       THEN \/ disk' = [disk EXCEPT ![r].frozen = TRUE] /\ Goto(r, "frozen") /\ Calm
            \/ Trip("disk") /\ GiveUp(r) /\ UNCHANGED disk
       ELSE Goto(r, "frozen") /\ Calm /\ UNCHANGED disk
    /\ UNCHANGED <<world, lock, entries, mem, evaluators>>

\* The assets and the source are checked and no VM may have the name.
Inspect(r) ==
    /\ pc[r] = "frozen"
    /\ \/ Vm(r) = Nobody /\ Goto(r, "cleared") /\ Calm
       \/ Vm(r) # Nobody /\ Calm /\ GiveUp(r)
       \/ Trip("vm") /\ GiveUp(r)
    /\ UNCHANGED <<world, lock, entries, mem, disk, evaluators>>

\* limactl start.  It fails when the name is taken by now; otherwise it can fail with or
\* without a VM left behind.
StartVm(r) ==
    /\ pc[r] = "cleared"
    /\ \/ /\ Vm(r) = Nobody
          /\ SetVm(r, r) /\ Goto(r, "started") /\ Calm /\ UNCHANGED error
       \/ /\ Vm(r) # Nobody /\ Calm /\ UNCHANGED vm
          /\ error' = [error EXCEPT ![r] = TRUE] /\ Goto(r, "starting")
       \/ /\ Vm(r) = Nobody /\ Trip("vm")
          /\ SetVm(r, r) \/ UNCHANGED vm
          /\ error' = [error EXCEPT ![r] = TRUE] /\ Goto(r, "starting")
    /\ UNCHANGED <<world, lock, entries, mem, disk, name>>

\* After a failed start a VM of that name is taken for this run's own.
Claim(r) ==
    /\ pc[r] = "starting"
    /\ \/ (IF Vm(r) = Nobody THEN GiveUp(r) ELSE Goto(r, "deleting")) /\ Calm
       \/ Trip("vm") /\ GiveUp(r)
    /\ UNCHANGED <<world, lock, entries, mem, disk, evaluators>>

\* Attest, copy in, run, copy out, check the bindings.  The result is on the host first.
Evaluate(r) ==
    /\ pc[r] = "started"
    /\ \/ /\ Vm(r) = r
          /\ \E v \in {"pass", "fail"} : disk' = [disk EXCEPT ![r].evaluation = v]
          /\ Calm /\ UNCHANGED error
       \/ /\ Vm(r) # r /\ Calm
          /\ error' = [error EXCEPT ![r] = TRUE] /\ UNCHANGED disk
       \/ /\ Vm(r) = r /\ Trip("vm")
          /\ error' = [error EXCEPT ![r] = TRUE]
          /\ \E v \in {"none", "pass", "fail"} : disk' = [disk EXCEPT ![r].evaluation = v]
    /\ Goto(r, "deleting")
    /\ UNCHANGED <<world, lock, entries, mem, name, vm>>

\* Variant: takes the deletion for granted.
DeleteVm_Optimistic(r) ==
    /\ pc[r] = "deleting"
    /\ \/ SetVm(r, Nobody) /\ Calm
       \/ Trip("vm") /\ UNCHANGED vm
    /\ IF error[r] THEN GiveUp(r) ELSE Goto(r, "deleted")
    /\ UNCHANGED <<world, lock, entries, mem, disk, name, error>>

\* limactl stop and delete must both succeed, also when the evaluation failed.
DeleteVm(r) ==
    /\ pc[r] = "deleting"
    /\ \/ /\ Vm(r) # Nobody /\ Calm
          /\ SetVm(r, Nobody)
          /\ IF error[r] THEN GiveUp(r) ELSE Goto(r, "deleted")
       \/ Vm(r) = Nobody /\ Calm /\ GiveUp(r) /\ UNCHANGED vm
       \/ Vm(r) # Nobody /\ Trip("vm") /\ GiveUp(r) /\ UNCHANGED vm
    /\ UNCHANGED <<world, lock, entries, mem, disk, name, error>>

\* Variant: a passing evaluation is enough.
Complete_OnPass(r) ==
    /\ pc[r] = "deleted" /\ r \in Missions
    /\ disk' = [disk EXCEPT ![r].record =
                    [@ EXCEPT !.verdict = disk[r].evaluation, !.deleted = TRUE]]
    /\ Goto(r, IF disk[r].evaluation = "pass" THEN "done" ELSE "failed")
    /\ Calm /\ UNCHANGED <<world, lock, entries, mem, evaluators>>

\* The evaluator's verdict and the deletion go into run.json; the exit status follows.
Complete(r) ==
    /\ pc[r] = "deleted" /\ r \in Missions
    /\ \/ /\ disk' = [disk EXCEPT ![r].record =
                        [@ EXCEPT !.verdict = disk[r].evaluation, !.deleted = TRUE]]
          /\ Goto(r, IF /\ disk[r].evaluation = "pass"
                        /\ disk[r].record.outcome \in RELEASE_REPORTABLE_RUNTIME_OUTCOMES
                     THEN "done" ELSE "failed")
          /\ Calm
       \/ Trip("disk") /\ Goto(r, "failed") /\ UNCHANGED disk
    /\ UNCHANGED <<world, lock, entries, mem, evaluators>>

\* A baseline is meant to fail its evaluation.
Qualify(r) ==
    /\ pc[r] = "deleted" /\ r \in Baselines
    /\ \/ /\ disk' = [disk EXCEPT ![r].record =
                        [outcome |-> "mission-complete", stopped |-> TRUE,
                         verdict |-> disk[r].evaluation, deleted |-> TRUE]]
          /\ Goto(r, IF disk[r].evaluation = "fail" THEN "done" ELSE "failed") /\ Calm
       \/ Trip("disk") /\ Goto(r, "recovering") /\ UNCHANGED disk
    /\ UNCHANGED <<world, lock, entries, mem, evaluators>>

\* The failure record keeps what was found out, the group's state measured once more.
Recover(r) ==
    /\ pc[r] = "recovering"
    /\ \/ /\ disk' = [disk EXCEPT ![r].record =
                        [outcome |-> "mission-failed",
                         stopped |-> mem[r].stopped # "unknown" /\ group[r] = "gone",
                         verdict |-> IF disk[r].source THEN disk[r].evaluation ELSE "none",
                         deleted |-> FALSE]]
          /\ Calm
       \/ Trip("disk") /\ UNCHANGED disk
    /\ Goto(r, "failed")
    /\ UNCHANGED <<world, lock, entries, mem, evaluators>>

\* Somebody else uses the name for a VM of their own.
Intrude ==
    /\ \E n \in Names : vm[n] = Nobody /\ vm' = [vm EXCEPT ![n] = Foreign]
    /\ Trip("foreign")
    /\ UNCHANGED <<given, pc, lock, entries, group, mem, disk, beat, review, name, error>>

Concluding(r) ==
    Admit(r) \/ Discover(r) \/ Export(r) \/ Freeze(r) \/ Inspect(r) \/ StartVm(r) \/ Claim(r)
    \/ Evaluate(r) \/ DeleteVm(r) \/ Complete(r) \/ Qualify(r) \/ Recover(r)

Next ==
    \/ \E r \in Runs : /\ Main(r) \/ Beat(r) \/ Outside(r)
                       /\ UNCHANGED evaluators
    \/ \E r \in Runs : Concluding(r)
    \/ Intrude

Spec == FinalInit /\ [][Next]_allvars

------------------------------------------------------------------------------
\* What load_status makes of the files of a run.
Reported(r) ==
    IF disk[r].record # NoRecord
    THEN IF disk[r].record.deleted /\ disk[r].frozen /\ disk[r].relation
            /\ (disk[r].record.outcome \in RELEASE_REPORTABLE_RUNTIME_OUTCOMES)
         THEN IF disk[r].record.verdict = "pass" THEN "final" ELSE "failed"
         ELSE "corrupt"
    ELSE IF disk[r].status = "none" THEN "corrupt"
    ELSE IF lock = Nobody THEN "degraded" ELSE "active"

(***************************************************************************)
(* Properties                                                              *)
(***************************************************************************)
\* A record that says its evaluator VM is deleted is right, and the source it evaluated is
\* that of a Mission that has ended.
DeletedMeansGone ==
    \A r \in Runs :
        disk[r].record.deleted => \A n \in Names : vm[n] # r
                                  /\ group[r] = "gone" /\ disk[r].source

\* Exit status 0 and a final status stand for a Mission that stopped, whose review asked
\* for no end, that the evaluator passed, with the terminal status still in place.  Nothing
\* was left behind but, perhaps, the lock.
SuccessMeansAll ==
    \A r \in Missions :
        pc[r] = "done" \/ Reported(r) = "final" =>
            /\ group[r] = "gone" /\ Counted(r)
            /\ mem[r].seen \subseteq {"blocked"} /\ ~mem[r].checks
            /\ mem[r].cleanup => lock = r
            /\ disk[r].evaluation = "pass" /\ disk[r].status = "terminal"

\* SuccessMeansAll and StoppedMeansGone, in a state of the right type.
WholeSuccess == FinalTypeOK /\ StoppedMeansGone /\ SuccessMeansAll
==============================================================================
