------------------------------- MODULE LiveRun -------------------------------
(***************************************************************************)
(* The one paid Mission of the feasibility gate (live.py, and the commands *)
(* of feasibility.py).  A command on the host has the guest check itself,  *)
(* reserves the launch, has the guest run the Mission, claims the run on   *)
(* the host, copies the evidence out, destroys the VM and writes the gate; *)
(* another command only does the second half.  Nothing keeps two commands  *)
(* apart but the files they create; a command, the guest's process or the  *)
(* host may die between any two steps, and the operator may make a new VM. *)
(***************************************************************************)
EXTENDS Naturals

CONSTANTS
    Commands,   \* host commands the operator may start
    None,
    LIMIT,      \* preflight attempts
    MaxMishaps, \* failures and kills
    MaxVms      \* VMs made under the one name

Candidates == [by : Commands, verdict : {"pass", "stop"}] \cup {None}
Copies == [candidate : Candidates, events : Commands \cup {None}]

ASSUME LiveRunAssumption ==
    /\ LIMIT \in Nat \ {0} /\ MaxMishaps \in Nat /\ MaxVms \in Nat \ {0}
    /\ None \notin Commands \cup Copies

VARIABLES
    machine,     \* the VM: its number, is it running
    inGuest,     \* the guest's files: counter, attempts, candidate, ledger of events
    reservation, \* feasibility-launch-reservation.json: none, made, held
    hostLedger,  \* feasibility-live-run.json: none, torn, one
    import,      \* feasibility-import: none, or the two files copied
    gate,        \* feasibility-gate.json
    cmd,         \* each command: where it is, its local variables
    guest,       \* the process a command started in the guest
    mishaps,     \* failures and kills so far
    missions     \* history: each Mission launched and how it ended

hostFiles == <<reservation, hostLedger, import, gate>>
liveRunVars == <<machine, inGuest, hostFiles, cmd, guest, mishaps, missions>>

------------------------------------------------------------------------------
EmptyDisk == [counter |-> "none", attempts |-> 0, candidate |-> None, events |-> None]
NoCommand == [pc |-> "new", guestOk |-> TRUE, claimOk |-> TRUE, versionOk |-> FALSE, ready |-> FALSE,
              copied |-> FALSE, hadDisk |-> FALSE, diskGone |-> FALSE,
              stopped |-> FALSE, deleted |-> FALSE, absent |-> FALSE]
NoGuest == [pc |-> "none", full |-> FALSE, count |-> 0, tries |-> 0, status |-> 0, decoy |-> "none", rc |-> 0]

LiveRunInit ==
    /\ machine = [no |-> 1, up |-> "running"] /\ inGuest = EmptyDisk
    /\ reservation = "none" /\ hostLedger = "none" /\ import = None /\ gate = None
    /\ cmd = [c \in Commands |-> NoCommand] /\ guest = [c \in Commands |-> NoGuest]
    /\ mishaps = 0 /\ missions = {}

\* A step that may fail, a bounded number of times.
Mishap == mishaps < MaxMishaps /\ mishaps' = mishaps + 1
Well == UNCHANGED mishaps

------------------------------------------------------------------------------
(* The guest: run_live_command and, in it, run_authorized_live.             *)
Step(c, pc) == guest' = [guest EXCEPT ![c].pc = pc]
Exit(c, rc) == guest' = [guest EXCEPT ![c].pc = "over", ![c].rc = rc]
Guest(c, pc) == guest[c].pc = pc /\ UNCHANGED <<machine, hostFiles, cmd>>

\* PreflightAttemptCounter.claim_attempt, under its lock: the file is emptied
\* before the new count is written, and an empty file counts as none.
Attempt(c) ==
    /\ Guest(c, "start") /\ \A o \in Commands : guest[o].pc # "counting"
    /\ IF inGuest.attempts >= LIMIT THEN Exit(c, 1) /\ UNCHANGED inGuest
       ELSE /\ guest' = [guest EXCEPT ![c].pc = "counting", ![c].count = inGuest.attempts + 1]
            /\ inGuest' = [inGuest EXCEPT !.attempts = 0]
    /\ Well /\ UNCHANGED missions

CountAttempt(c) ==
    /\ Guest(c, "counting") /\ inGuest' = [inGuest EXCEPT !.attempts = guest[c].count] /\ Step(c, "checking")
    /\ Well /\ UNCHANGED missions

\* The dry run, the records, the bindings; the launch checks its counter too.
Preflight(c) ==
    /\ Guest(c, "checking")
    /\ \/ /\ ~guest[c].full /\ Well /\ Exit(c, 0)
       \/ /\ guest[c].full /\ Well /\ IF inGuest.counter = "none" THEN Step(c, "probing") ELSE Exit(c, 1)
       \/ Mishap /\ Exit(c, 1)
    /\ UNCHANGED <<inGuest, missions>>

\* run_bounded_probe_attempts: one transient failure is tried again.
Probe(c) ==
    /\ Guest(c, "probing")
    /\ \/ Well /\ Step(c, "decoy")
       \/ Mishap /\ Exit(c, 1)
       \/ /\ Mishap
          /\ IF guest[c].tries = 0 THEN guest' = [guest EXCEPT ![c].tries = 1] ELSE Exit(c, 1)
    /\ UNCHANGED <<inGuest, missions>>

\* The decoy session starts, then the inert one; when that fails the decoy is closed.
StartControls(c) ==
    /\ Guest(c, "decoy")
    /\ \/ Well /\ guest' = [guest EXCEPT ![c].pc = "claiming", ![c].decoy = "open"]
       \/ Mishap /\ \E d \in {"none", "closed"} :
             guest' = [guest EXCEPT ![c].pc = "over", ![c].rc = 1, ![c].decoy = d]
    /\ UNCHANGED <<inGuest, missions>>

\* LiveRunCounter.claim: the file is created, then written and synced.
ClaimLaunch(c) ==
    /\ Guest(c, "claiming") /\ Well
    /\ IF inGuest.counter = "none" THEN inGuest' = [inGuest EXCEPT !.counter = "torn"] /\ Step(c, "claimed")
       ELSE Exit(c, 1) /\ UNCHANGED inGuest
    /\ UNCHANGED missions

WriteClaim(c) ==
    /\ Guest(c, "claimed") /\ inGuest' = [inGuest EXCEPT !.counter = "one"]
    /\ \/ Well /\ Step(c, "launch")
       \/ Mishap /\ Exit(c, 1)
    /\ UNCHANGED missions

Launch(c) ==
    /\ Guest(c, "launch") /\ Well /\ Step(c, "mission")
    /\ missions' = missions \cup {[by |-> c, vm |-> machine.no, rc |-> "running"]}
    /\ UNCHANGED inGuest

Concluded(c, rc) == missions' = {IF m.by = c THEN [m EXCEPT !.rc = rc] ELSE m : m \in missions}
MissionEnds(c) ==
    /\ Guest(c, "mission") /\ UNCHANGED inGuest
    /\ \/ Well /\ Concluded(c, "zero") /\ Step(c, "closing")
       \/ Mishap /\ Concluded(c, "other") /\ guest' = [guest EXCEPT ![c].pc = "closing", ![c].status = 1]
       \/ Mishap /\ Concluded(c, "raised") /\ guest' = [guest EXCEPT ![c].pc = "closing", ![c].status = 2]

\* The decoy closes and nothing reached its context; a Mission that raised
\* ends the command here, as does a decoy that does not close or was reached.
CloseDecoy(c) ==
    /\ Guest(c, "closing") /\ UNCHANGED <<inGuest, missions>>
    /\ \/ /\ Well
          /\ guest' = [guest EXCEPT ![c].decoy = "closed", ![c].rc = IF guest[c].status = 2 THEN 1 ELSE 0,
                                    ![c].pc = IF guest[c].status = 2 THEN "over" ELSE "settling"]
       \/ Mishap /\ Exit(c, 1)

\* The plugin, the usage and Droid again, then the ledger is exported.
ExportEvents(c) ==
    /\ Guest(c, "settling") /\ UNCHANGED missions
    /\ \/ Well /\ inGuest' = [inGuest EXCEPT !.events = c] /\ Step(c, "judging")
       \/ Mishap /\ Exit(c, 1) /\ UNCHANGED inGuest

\* A failed Mission stops every capability; write_candidate_gate.
\* Variant: the return code of the Mission is not looked at.
Verdicts_AnyStatus(c) == {"pass", "stop"}
Verdicts(c) == IF guest[c].status = 0 THEN {"pass", "stop"} ELSE {"stop"}
WriteCandidate(c) ==
    /\ Guest(c, "judging") /\ UNCHANGED missions
    /\ \/ /\ Well /\ Step(c, "cleaning")
          /\ \E v \in Verdicts(c) : inGuest' = [inGuest EXCEPT !.candidate = [by |-> c, verdict |-> v]]
       \/ Mishap /\ Exit(c, 1) /\ UNCHANGED inGuest

CleanUp(c) ==
    /\ Guest(c, "cleaning") /\ UNCHANGED <<inGuest, missions>>
    /\ \/ Well /\ Exit(c, 0)
       \/ Mishap /\ Exit(c, 1)

GuestStep(c) ==
    /\ machine.up = "running"
    /\ \/ Attempt(c) \/ CountAttempt(c) \/ Preflight(c) \/ Probe(c) \/ StartControls(c)
       \/ ClaimLaunch(c) \/ WriteClaim(c) \/ Launch(c) \/ MissionEnds(c) \/ CloseDecoy(c)
       \/ ExportEvents(c) \/ WriteCandidate(c) \/ CleanUp(c)

------------------------------------------------------------------------------
(* The host: run_host_live_gate_command, run_host_finalize_command.         *)
Host(c, pc) == cmd[c].pc = pc /\ UNCHANGED missions
On(c, pc) == cmd' = [cmd EXCEPT ![c].pc = pc]
GuestAside == UNCHANGED <<machine, inGuest, guest>>

StartGate(c) ==
    /\ Host(c, "new") /\ Well /\ GuestAside /\ On(c, "preflight") /\ UNCHANGED hostFiles

StartFinalize(c) ==
    /\ Host(c, "new") /\ Well /\ GuestAside /\ UNCHANGED hostFiles
    /\ cmd' = [cmd EXCEPT ![c].pc = "version", ![c].claimOk = (hostLedger = "one")]

\* run_guest_feasibility, for the preflight and for the Mission.
Fresh(full) == [NoGuest EXCEPT !.pc = "start", !.full = full]
Shell(c, pc, awaiting, full, instead) ==
    /\ Host(c, pc) /\ UNCHANGED <<machine, inGuest, hostFiles>>
    /\ \/ /\ Well /\ machine.up = "running" /\ On(c, awaiting)
          /\ guest' = [guest EXCEPT ![c] = Fresh(full)]
       \/ /\ \/ Mishap
             \/ machine.up # "running" /\ Well
          /\ cmd' = [cmd EXCEPT ![c].pc = instead, ![c].guestOk = FALSE] /\ UNCHANGED guest

\* It has ended, or the time is up and it goes on without its host.
Await(c, pc, good, instead) ==
    /\ Host(c, pc) /\ UNCHANGED hostFiles /\ GuestAside
    /\ \/ /\ guest[c].pc = "over" /\ Well
          /\ IF guest[c].rc = 0 THEN On(c, good)
             ELSE cmd' = [cmd EXCEPT ![c].pc = instead, ![c].guestOk = FALSE]
       \/ /\ guest[c].pc # "over" /\ Mishap
          /\ cmd' = [cmd EXCEPT ![c].pc = instead, ![c].guestOk = FALSE]

\* LaunchReservation.claim: the file must be new; then it is synced.
\* Variant: a reservation that is there is taken over.
Free_Anyway == TRUE
Free == reservation = "none"
Reserve(c) ==
    /\ Host(c, "reserve") /\ GuestAside /\ Well /\ UNCHANGED <<hostLedger, import, gate>>
    /\ IF Free THEN reservation' = "made" /\ On(c, "sync")
       ELSE /\ cmd' = [cmd EXCEPT ![c].pc = "version", ![c].claimOk = FALSE, ![c].guestOk = FALSE]
            /\ UNCHANGED reservation

SyncReservation(c) ==
    /\ Host(c, "sync") /\ GuestAside /\ reservation' = "held" /\ UNCHANGED <<hostLedger, import, gate>>
    /\ \/ Well /\ On(c, "run")
       \/ Mishap /\ cmd' = [cmd EXCEPT ![c].pc = "version", ![c].claimOk = FALSE, ![c].guestOk = FALSE]

\* guest_live_run_count: a cat that fails without output counts as none.
CountRun(c) ==
    /\ Host(c, "count") /\ GuestAside /\ UNCHANGED hostFiles
    /\ \/ /\ Well
          /\ IF machine.up = "running" /\ inGuest.counter = "one" THEN On(c, "claim")
             ELSE cmd' = [cmd EXCEPT ![c].pc = "version", ![c].claimOk = FALSE]
       \/ Mishap /\ cmd' = [cmd EXCEPT ![c].pc = "version", ![c].claimOk = FALSE]

ClaimRun(c) ==
    /\ Host(c, "claim") /\ GuestAside /\ Well /\ UNCHANGED <<reservation, import, gate>>
    /\ IF hostLedger = "none" THEN hostLedger' = "torn" /\ On(c, "record")
       ELSE cmd' = [cmd EXCEPT ![c].pc = "version", ![c].claimOk = FALSE] /\ UNCHANGED hostLedger

RecordRun(c) ==
    /\ Host(c, "record") /\ GuestAside /\ hostLedger' = "one" /\ UNCHANGED <<reservation, import, gate>>
    /\ \/ Well /\ On(c, "version")
       \/ Mishap /\ cmd' = [cmd EXCEPT ![c].pc = "version", ![c].claimOk = FALSE]

\* export_and_teardown: the directory must be new, both files must arrive.
CheckVersion(c) ==
    /\ Host(c, "version") /\ GuestAside /\ UNCHANGED hostFiles
    /\ \/ Well /\ cmd' = [cmd EXCEPT ![c].pc = "import", ![c].versionOk = TRUE]
       \/ Mishap /\ On(c, "import")

MakeImport(c) ==
    /\ Host(c, "import") /\ GuestAside /\ Well /\ UNCHANGED <<reservation, hostLedger, gate>>
    /\ IF import = None
       THEN /\ import' = [candidate |-> None, events |-> None]
            /\ cmd' = [cmd EXCEPT ![c].pc = "candidate", ![c].ready = TRUE, ![c].copied = TRUE]
       ELSE On(c, "stop") /\ UNCHANGED import

CopyOut(c, file, next) ==
    /\ Host(c, file) /\ GuestAside /\ UNCHANGED <<reservation, hostLedger, gate>>
    /\ \/ /\ Well /\ machine.up = "running" /\ inGuest[file] # None
          /\ import' = [import EXCEPT ![file] = inGuest[file]] /\ On(c, next)
       \/ /\ \/ Mishap
             \/ Well /\ (machine.up # "running" \/ inGuest[file] = None)
          /\ cmd' = [cmd EXCEPT ![c].pc = next, ![c].copied = FALSE] /\ UNCHANGED import

\* What runs in a VM ends with it.
Halt == guest' = [c \in Commands |-> IF guest[c].pc \in {"none", "over"} THEN guest[c]
                                     ELSE [guest[c] EXCEPT !.pc = "over", !.rc = 1]]
StopVm(c) ==
    /\ Host(c, "stop") /\ UNCHANGED <<inGuest, hostFiles>>
    /\ \/ /\ Well /\ machine.up = "running" /\ machine' = [machine EXCEPT !.up = "stopped"] /\ Halt
          /\ cmd' = [cmd EXCEPT ![c].pc = "delete", ![c].stopped = TRUE, ![c].hadDisk = TRUE]
       \/ /\ \/ Mishap
             \/ machine.up # "running" /\ Well
          /\ cmd' = [cmd EXCEPT ![c].pc = "list", ![c].hadDisk = (machine.up # "gone")]
          /\ UNCHANGED <<machine, guest>>

RemoveVm(c) ==
    /\ Host(c, "delete") /\ UNCHANGED hostFiles
    /\ \/ /\ Well /\ machine.up # "gone" /\ machine' = [machine EXCEPT !.up = "gone"]
          /\ inGuest' = EmptyDisk /\ Halt
          /\ cmd' = [cmd EXCEPT ![c].pc = "list", ![c].deleted = TRUE]
       \/ /\ \/ Mishap
             \/ machine.up = "gone" /\ Well
          /\ On(c, "list") /\ UNCHANGED <<machine, inGuest, guest>>

ListVms(c) ==
    /\ Host(c, "list") /\ GuestAside /\ UNCHANGED hostFiles
    /\ \/ Well /\ cmd' = [cmd EXCEPT ![c].pc = "disk", ![c].absent = (machine.up = "gone")]
       \/ Mishap /\ On(c, "disk")

LookForDisk(c) ==
    /\ Host(c, "disk") /\ GuestAside /\ Well /\ UNCHANGED hostFiles
    /\ cmd' = [cmd EXCEPT ![c].pc = "verdict", ![c].diskGone = (cmd[c].hadDisk /\ machine.up = "gone")]

TornDown(c) == cmd[c].stopped /\ cmd[c].deleted /\ cmd[c].absent /\ cmd[c].diskGone

\* finalize_host_gate and finalize_exported_gate.
Evidenced(c) ==
    /\ cmd[c].versionOk /\ cmd[c].claimOk /\ cmd[c].guestOk /\ cmd[c].ready /\ cmd[c].copied
    /\ import.candidate # None /\ import.candidate.by = import.events
WriteGate(c) ==
    /\ Host(c, "verdict") /\ GuestAside /\ Well /\ On(c, "ended") /\ UNCHANGED <<reservation, hostLedger, import>>
    /\ gate' = IF Evidenced(c)
               THEN [by |-> c, of |-> import.candidate.by,
                     complete |-> TornDown(c) /\ import.candidate.verdict = "pass"]
               ELSE [by |-> c, of |-> None, complete |-> FALSE]

HostStep(c) ==
    \/ StartGate(c) \/ StartFinalize(c)
    \/ Shell(c, "preflight", "checked", FALSE, "version") \/ Await(c, "checked", "reserve", "version")
    \/ Reserve(c) \/ SyncReservation(c)
    \/ Shell(c, "run", "running", TRUE, "count") \/ Await(c, "running", "count", "count")
    \/ CountRun(c) \/ ClaimRun(c) \/ RecordRun(c) \/ CheckVersion(c) \/ MakeImport(c)
    \/ CopyOut(c, "candidate", "events") \/ CopyOut(c, "events", "stop")
    \/ StopVm(c) \/ RemoveVm(c) \/ ListVms(c) \/ LookForDisk(c) \/ WriteGate(c)

------------------------------------------------------------------------------
(* Kills, of a command, of the guest's process, or of the whole host, when   *)
(* a file not synced may be gone; the operator makes a new VM.               *)
KillCommand(c) ==
    /\ cmd[c].pc \notin {"new", "ended", "killed"} /\ Mishap /\ On(c, "killed")
    /\ UNCHANGED <<machine, inGuest, hostFiles, guest, missions>>

KillGuest(c) ==
    /\ guest[c].pc \notin {"none", "over"} /\ Mishap /\ Exit(c, 1)
    /\ UNCHANGED <<machine, inGuest, hostFiles, cmd, missions>>

HostLoss ==
    /\ Mishap /\ Halt /\ machine' = [machine EXCEPT !.up = IF @ = "gone" THEN "gone" ELSE "stopped"]
    /\ cmd' = [c \in Commands |-> IF cmd[c].pc \in {"new", "ended"} THEN cmd[c]
                              ELSE [cmd[c] EXCEPT !.pc = "killed"]]
    /\ reservation' \in (IF reservation = "made" THEN {"none", "held"} ELSE {reservation})
    /\ hostLedger' \in (IF hostLedger = "torn" THEN {"none", "torn", "one"} ELSE {hostLedger})
    /\ \E n \in (IF inGuest.counter = "torn" THEN {"none", "torn", "one"} ELSE {inGuest.counter}) :
          inGuest' = [inGuest EXCEPT !.counter = n]
    /\ UNCHANGED <<import, gate, missions>>

MakeVm ==
    /\ machine.up # "running" /\ Well /\ UNCHANGED <<hostFiles, cmd, guest, missions>>
    /\ \/ machine.up = "stopped" /\ machine' = [machine EXCEPT !.up = "running"] /\ UNCHANGED inGuest
       \/ /\ machine.up = "gone" /\ machine.no < MaxVms /\ machine' = [no |-> machine.no + 1, up |-> "running"]
          /\ inGuest' = EmptyDisk

LiveRunNext ==
    \/ \E c \in Commands : GuestStep(c) \/ HostStep(c) \/ KillCommand(c) \/ KillGuest(c)
    \/ HostLoss \/ MakeVm
LiveRunSpec == LiveRunInit /\ [][LiveRunNext]_liveRunVars

------------------------------------------------------------------------------
\* Every variable keeps its type.
CommandState ==
    [pc : {"new", "preflight", "checked", "reserve", "sync", "run", "running", "count", "claim",
           "record", "version", "import", "candidate", "events", "stop", "delete", "list", "disk",
           "verdict", "ended", "killed"},
     guestOk : BOOLEAN, claimOk : BOOLEAN, versionOk : BOOLEAN, ready : BOOLEAN, copied : BOOLEAN,
     hadDisk : BOOLEAN, diskGone : BOOLEAN, stopped : BOOLEAN, deleted : BOOLEAN, absent : BOOLEAN]
GuestState ==
    [pc : {"none", "start", "counting", "checking", "probing", "decoy", "claiming", "claimed",
           "launch", "mission", "closing", "settling", "judging", "cleaning", "over"},
     full : BOOLEAN, count : 0 .. LIMIT, tries : 0 .. 1, status : 0 .. 2,
     decoy : {"none", "open", "closed"}, rc : 0 .. 1]

LiveRunTypeOK ==
    /\ machine \in [no : 1 .. MaxVms, up : {"running", "stopped", "gone"}]
    /\ inGuest \in [counter : {"none", "torn", "one"}, attempts : 0 .. LIMIT,
                    candidate : Candidates, events : Commands \cup {None}]
    /\ reservation \in {"none", "made", "held"} /\ hostLedger \in {"none", "torn", "one"}
    /\ import \in Copies \cup {None}
    /\ gate \in [by : Commands, of : Commands \cup {None}, complete : BOOLEAN] \cup {None}
    /\ cmd \in [Commands -> CommandState] /\ guest \in [Commands -> GuestState]
    /\ mishaps \in 0 .. MaxMishaps
    /\ missions \subseteq [by : Commands, vm : 1 .. machine.no,
                           rc : {"running", "zero", "other", "raised"}]

\* "A crash-durable one-shot reservation for the authorized live attempt"
\* (live.py, LaunchReservation): one Mission at most is ever launched,
\* whoever runs the command again, whatever dies, in whichever VM.
OneMissionEver == \A m, n \in missions : m = n

\* A gate of complete success is that of a Mission that ended well, whose
\* decoy was closed and untouched, whose run is recorded on the host, and
\* whose VM is no more.
SuccessMeansCleanRun ==
    gate # None /\ gate.complete =>
        /\ \E m \in missions : m.by = gate.of /\ m.rc = "zero" /\ (m.vm < machine.no \/ machine.up = "gone")
        /\ guest[gate.of].decoy = "closed" /\ hostLedger = "one" /\ reservation = "held"
\* SuccessMeansCleanRun in states of the right type.
CleanSuccess == LiveRunTypeOK /\ SuccessMeansCleanRun
==============================================================================
