-------------------------- MODULE MissionRelations --------------------------
(***************************************************************************)
(* Which sessions belong to the Mission.  Factory writes its Mission       *)
(* directory (state.json, features.json, progress_log.jsonl); every hook   *)
(* request has the producer read the three files again (correlation.py,    *)
(* refresh, under one lock) and admits the sessions that all of them name; *)
(* a request of an admitted session enters the ledger (collector.py), the  *)
(* review thread gives its session a role (roles.py) and journals the      *)
(* decision with a digest of the relations (review.py).  When the Mission  *)
(* process has stopped the run freezes the relations in correlation.json   *)
(* (runtime.py).                                                           *)
(*                                                                         *)
(* Threads: Factory, one per hook request, the review thread, and the      *)
(* run's own thread.  Requests are served concurrently; the lock is held   *)
(* by one refresh at a time.                                               *)
(***************************************************************************)
EXTENDS Naturals, FiniteSets, SequencesExt

CONSTANTS
    Main,        \* the orchestrator: the Mission directory bears its session id
    Workers,     \* sessions Factory starts for features
    Shadow,      \* the session of the probe boundary, excluded before the Mission
    Decoy,       \* the control session in the same project, excluded as well
    Features,
    Order,       \* the place of each feature in features.json
    Plan,        \* the feature Factory lists each worker under, faults aside
    Validators,  \* the features whose skill is a validator's
    Run,         \* the thread that runs the Mission and closes it
    Free,        \* nobody holds the lock
    Nothing,     \* no relation, no role
    Excluded,    \* a session shown not to be the Mission's
    Events,      \* what a request can be about: the start of its session, a tool
    MaxHooks,    \* hook requests in all
    Faults,      \* what Factory's files may go through: see the Fault actions
    MaxFaults    \* how often

ASSUME RelationsAssumption ==
    /\ Plan \in [Workers -> Features] /\ Validators \subseteq Features
    /\ Order \in [Features -> Nat] /\ \A f, g \in Features : Order[f] = Order[g] => f = g
    /\ Events \subseteq {"start", "tool"} /\ MaxHooks \in Nat /\ MaxFaults \in Nat
    /\ Workers \cap {Main, Shadow, Decoy} = {} /\ Shadow # Decoy /\ Main \notin {Shadow, Decoy}
    /\ Run \notin Nat /\ Free \notin Nat /\ Run # Free

VARIABLES
    root,     \* the Mission root: the new directories in it, as the producer finds them
    state,    \* state.json: is it there, whole, and whose
    feats,    \* features.json: the worker sessions of each feature, in their order
    log,      \* progress_log.jsonl: who selected and who started which feature
    said,     \* history: everything the three files ever said
    faults,   \* faults so far
    lock,     \* the thread inside refresh
    scan,     \* its local variables
    picked,   \* the Mission directory the producer opened and the Mission in its state.json
    raw,      \* the producer's _raw_relations: by session a role, Excluded or Nothing
    relations,\* LiveMissionRelations: by session its role or Nothing
    roles,    \* the roles the mapper knows
    registry, \* MissionCorrelationRegistry: allowed and excluded sessions
    assigned, \* the binding's role_assignments: by session, as roles are not shared
    hook,     \* each request: its session, its event, where it is
    mapper,   \* RoleMapper: the holder sessions, the quarantined ones
    ledger,   \* accepted requests, in the order of the event ledger
    journal,  \* role decisions, in the order they were journalled
    review,   \* the decision the review thread has made and not journalled yet
    degraded, \* the collector's "correlation" degradation
    final     \* correlation.json

factory == <<root, state, feats, log, said, faults>>
binding == <<raw, relations, roles, registry, assigned>>
reviewing == <<mapper, journal, review>>
relationVars == <<factory, lock, scan, picked, binding, hook, reviewing, ledger, degraded, final>>

------------------------------------------------------------------------------
Sessions == {Main, Shadow, Decoy} \cup Workers
Listable == Workers \cup {Decoy}
Hooks == 1 .. MaxHooks

\* A role is its kind, its feature and the place of the session in the
\* feature's list; the orchestrator has no feature.
Kind(f) == IF f \in Validators THEN "validator" ELSE "worker"
Role(k, f, n) == [kind |-> k, feature |-> f, attempt |-> n]
Orchestrator == Role("orchestrator", Nothing, 0)
RoleSet == {Orchestrator} \cup [kind : {"worker", "validator"}, feature : Features, attempt : Nat]

ASSUME RolesAssumption == Nothing \notin RoleSet /\ Excluded \notin RoleSet /\ Nothing # Excluded

NoScan == [pc |-> "none", known |-> {}, list |-> <<>>, queue |-> {}, now |-> Nothing]
Known == {s \in Sessions : raw[s] \notin {Nothing, Excluded}}
Listed(list, s) == {f \in Features : Contains(list[f], s)}
Named(pairs, s) == {f \in Features : <<s, f>> \in pairs}

RelationsInit ==
    /\ root = [path |-> "kept", dir |-> "absent", extra |-> FALSE]
    /\ state = "missing"
    /\ feats = [at |-> "missing", list |-> [f \in Features |-> <<>>]]
    /\ log = [at |-> "missing", selected |-> {}, started |-> {}]
    /\ said = [state |-> FALSE, listed |-> {}, selected |-> {}, started |-> {}]
    /\ faults = 0 /\ lock = Free /\ scan = NoScan /\ picked = [dir |-> "absent", mission |-> "none"]
    /\ raw = [s \in Sessions |-> Nothing] /\ relations = [s \in Sessions |-> Nothing]
    /\ roles = {} /\ registry = [allowed |-> {}, excluded |-> {}]
    /\ assigned = [s \in Sessions |-> Nothing]
    /\ hook = [h \in Hooks |-> [pc |-> "unborn", session |-> Nothing, event |-> "tool", sound |-> TRUE]]
    /\ mapper = [held |-> [s \in Sessions |-> Nothing], quarantined |-> {}, excluded |-> {}]
    /\ ledger = <<>> /\ journal = <<>> /\ review = Nothing /\ degraded = FALSE
    /\ final = [pc |-> "flying", roles |-> [s \in Sessions |-> Nothing]]

------------------------------------------------------------------------------
(* Factory.  A Mission makes its directory, writes state.json, lists a      *)
(* worker under a feature, and logs that the worker selected and started it. *)
Trip(kind) == /\ kind \in Faults /\ faults < MaxFaults
              /\ faults' = faults + 1
Ours == UNCHANGED <<lock, scan, picked, binding, hook, reviewing, ledger, degraded, final>>
Say == said' = [state |-> said.state \/ state' = "ours",
                listed |-> said.listed \cup
                    {p \in Listable \X Features : feats'.at = "whole" /\ Contains(feats'.list[p[2]], p[1])},
                selected |-> said.selected \cup log'.selected,
                started |-> said.started \cup log'.started]

MakeDirectory ==
    /\ root.dir = "absent" /\ root' = [root EXCEPT !.dir = "made"]
    /\ UNCHANGED <<state, feats, log, faults>> /\ Say /\ Ours

WriteState ==
    /\ root.dir = "made" /\ state \in {"missing", "torn"} /\ state' = "ours"
    /\ UNCHANGED <<root, feats, log, faults>> /\ Say /\ Ours

ListWorker(s, f) ==
    /\ state = "ours" /\ s \in Workers /\ f = Plan[s] /\ Listed(feats.list, s) = {}
    /\ feats' = [at |-> "whole", list |-> [feats.list EXCEPT ![f] = Append(@, s)]]
    /\ UNCHANGED <<root, state, log, faults>> /\ Say /\ Ours

Select(s, f) ==
    /\ Contains(feats.list[f], s) /\ Named(log.selected, s) = {}
    /\ log' = [log EXCEPT !.at = "whole", !.selected = @ \cup {<<s, f>>}]
    /\ UNCHANGED <<root, state, feats, faults>> /\ Say /\ Ours

Start(s, f) ==
    /\ <<s, f>> \in log.selected \ log.started
    /\ log' = [log EXCEPT !.at = "whole", !.started = @ \cup {<<s, f>>}]
    /\ UNCHANGED <<root, state, feats, faults>> /\ Say /\ Ours

\* A file is read while Factory rewrites it, or is gone.
Tear ==
    /\ \/ /\ Trip("torn")
          /\ \/ /\ state = "ours" /\ state' = "torn" /\ UNCHANGED <<feats, log>>
             \/ /\ feats.at = "whole" /\ feats' = [feats EXCEPT !.at = "torn"] /\ UNCHANGED <<state, log>>
             \/ /\ log.at = "whole" /\ log' = [log EXCEPT !.at = "torn"] /\ UNCHANGED <<state, feats>>
       \/ /\ Trip("removed")
          /\ \/ /\ state = "ours" /\ state' = "missing" /\ UNCHANGED <<feats, log>>
             \/ /\ feats.at = "whole" /\ feats' = [feats EXCEPT !.at = "missing"] /\ UNCHANGED <<state, log>>
             \/ /\ log.at = "whole" /\ log' = [log EXCEPT !.at = "missing"] /\ UNCHANGED <<state, feats>>
    /\ UNCHANGED root /\ Say /\ Ours

Mend ==
    /\ \/ /\ feats.at = "torn" /\ feats' = [feats EXCEPT !.at = "whole"] /\ UNCHANGED log
       \/ /\ log.at = "torn" /\ log' = [log EXCEPT !.at = "whole"] /\ UNCHANGED feats
    /\ UNCHANGED <<root, state, faults>> /\ Say /\ Ours

\* The lists come to say something else: a worker is put in front of the
\* others, moves to a second feature or is taken off its own, the control
\* session is listed as a worker, or a worker selects or starts another feature.
Relist(s, f) ==
    /\ feats.at = "whole"
    /\ \/ /\ Trip("front") /\ ~Contains(feats.list[f], s)
          /\ feats' = [feats EXCEPT !.list[f] = <<s>> \o @] /\ UNCHANGED log
       \/ /\ Trip("dropped") /\ UNCHANGED log
          /\ \E i \in DOMAIN feats.list[f] :
                feats.list[f][i] = s /\ feats' = [feats EXCEPT !.list[f] = RemoveAt(@, i)]
       \/ /\ Trip("decoy") /\ s = Decoy /\ ~Contains(feats.list[f], s)
          /\ feats' = [feats EXCEPT !.list[f] = Append(@, s)]
          /\ log' = [at |-> "whole", selected |-> log.selected \cup {<<s, f>>},
                                     started |-> log.started \cup {<<s, f>>}]
       \/ /\ Trip("elsewhere") /\ Named(log.selected, s) \notin {{}, {f}}
          /\ log' = [log EXCEPT !.started = @ \cup {<<s, f>>}] /\ UNCHANGED feats
    /\ UNCHANGED <<root, state>> /\ Say /\ Ours

\* The Mission root changes hands, a second Mission starts in it, the
\* directory is made anew, or state.json names another workspace or Mission.
Upset ==
    /\ root.dir = "made"
    /\ \/ /\ Trip("root") /\ root' = [root EXCEPT !.path = "replaced"] /\ UNCHANGED state
       \/ /\ Trip("second") /\ root' = [root EXCEPT !.extra = TRUE] /\ UNCHANGED state
       \/ /\ Trip("remade") /\ root' = [root EXCEPT !.dir = "remade"] /\ UNCHANGED state
       \/ /\ Trip("workspace") /\ state = "ours" /\ state' = "another workspace" /\ UNCHANGED root
       \/ /\ Trip("mission") /\ said.state /\ state = "ours" /\ state' = "another Mission" /\ UNCHANGED root
    /\ UNCHANGED <<feats, log>> /\ Say /\ Ours

Factory ==
    \/ MakeDirectory \/ WriteState \/ Tear \/ Mend \/ Upset
    \/ \E s \in Listable, f \in Features : \/ ListWorker(s, f) \/ Select(s, f)
                                           \/ Start(s, f) \/ Relist(s, f)

------------------------------------------------------------------------------
(* exclude: the two control sessions, before the collector is bound.        *)
Exclude(s) ==
    /\ final.pc = "flying" /\ raw[s] = Nothing /\ (s = Decoy => raw[Shadow] = Excluded)
    /\ raw' = [raw EXCEPT ![s] = Excluded]
    /\ registry' = [allowed |-> registry.allowed \ {s}, excluded |-> registry.excluded \cup {s}]
    /\ mapper' = [mapper EXCEPT !.excluded = @ \cup {s}]
    /\ UNCHANGED <<factory, lock, scan, picked, relations, roles, assigned, hook, ledger, journal,
                   review, degraded, final>>

------------------------------------------------------------------------------
(* refresh, run by the thread that holds the lock.                          *)
Raise(t) ==
    /\ lock' = Free /\ scan' = NoScan
    /\ IF t = Run THEN /\ final' = [final EXCEPT !.pc = "failed"] /\ UNCHANGED <<hook, degraded>>
       ELSE /\ hook' = [hook EXCEPT ![t].pc = "refused"] /\ degraded' = TRUE /\ UNCHANGED final

\* finalize_record takes its snapshot after the refresh and before it gives the
\* lock back; the record must name each role once and both control sessions.
Snapshot == [s \in Sessions |-> IF s \in Known THEN raw[s] ELSE Nothing]
RecordValid == /\ \A s, r \in Known : s # r => raw[s] # raw[r]
               /\ raw[Shadow] = Excluded /\ raw[Decoy] = Excluded
Return(t) ==
    /\ lock' = Free /\ scan' = NoScan /\ UNCHANGED degraded
    /\ IF t # Run THEN /\ hook' = [hook EXCEPT ![t].pc = "refreshed"] /\ UNCHANGED final
       ELSE /\ final' = IF RecordValid' THEN [pc |-> "frozen", roles |-> Snapshot']
                        ELSE [final EXCEPT !.pc = "failed"]
            /\ UNCHANGED hook
Go(pc) == /\ scan' = [scan EXCEPT !.pc = pc] /\ UNCHANGED <<lock, hook, degraded, final>>
Still == UNCHANGED <<factory, reviewing, ledger>>

\* _mission_directory: the root is the one opened first, and beside the names
\* it had then it holds the one Mission directory, always the same.
\* Variant: a second Mission in the root goes unseen.
DirectoryChanged_FirstFound ==
    \/ root.path = "replaced"
    \/ picked.dir # "absent" /\ root.dir # picked.dir
DirectoryChanged ==
    \/ root.path = "replaced" \/ root.extra
    \/ picked.dir # "absent" /\ root.dir # picked.dir
Locate(t) ==
    /\ lock = t /\ scan.pc = "locate" /\ UNCHANGED binding /\ Still
    /\ \/ /\ DirectoryChanged /\ Raise(t) /\ UNCHANGED picked
       \/ /\ ~DirectoryChanged /\ root.dir = "absent" /\ UNCHANGED picked
          /\ IF scan.known = {} THEN Return(t) ELSE Raise(t)
       \/ /\ ~DirectoryChanged /\ root.dir # "absent"
          /\ picked' = [picked EXCEPT !.dir = root.dir] /\ Go("state")

\* A missing state.json is an error once a session has been admitted.
StateRefused ==
    \/ state \in {"torn", "another workspace"}
    \/ state = "missing" /\ scan.known # {}
    \/ state # "missing" /\ picked.mission \notin {"none", state}
ReadState(t) ==
    /\ lock = t /\ scan.pc = "state" /\ UNCHANGED binding /\ Still
    /\ \/ /\ StateRefused /\ Raise(t) /\ UNCHANGED picked
       \/ /\ ~StateRefused /\ state = "missing" /\ Return(t) /\ UNCHANGED picked
       \/ /\ ~StateRefused /\ state # "missing"
          /\ picked' = [picked EXCEPT !.mission = state]
          /\ scan' = [scan EXCEPT !.pc = "admit",
                                  !.queue = {[session |-> Main, role |-> Orchestrator]}]
          /\ UNCHANGED <<lock, hook, degraded, final>>

ReadFeatures(t) ==
    /\ lock = t /\ scan.pc = "features" /\ UNCHANGED <<picked, binding>> /\ Still
    /\ \/ /\ feats.at = "torn" /\ Raise(t)
       \/ /\ feats.at # "torn"
          /\ scan' = [scan EXCEPT !.pc = "log", !.list = IF feats.at = "whole" THEN <<feats.list>> ELSE <<>>]
          /\ UNCHANGED <<lock, hook, degraded, final>>

\* The workers the list and both kinds of log entries agree on.
Attempts(list) ==
    UNION {{[session |-> list[f][i], role |-> Role(Kind(f), f, i)] : i \in DOMAIN list[f]} : f \in Features}
\* Variant: a worker that was only selected is admitted.
Corroborated_Selected(list) == {c \in Attempts(list) : <<c.session, c.role.feature>> \in log.selected}
Corroborated(list) ==
    {c \in Attempts(list) : <<c.session, c.role.feature>> \in log.selected \cap log.started}

Contradicted(list) ==
    \E s \in Listable :
        \/ Cardinality(Listed(list, s)) > 1
        \/ Cardinality(Named(log.selected, s)) > 1 \/ Cardinality(Named(log.started, s)) > 1
        \/ /\ Named(log.selected, s) # {} /\ Named(log.started, s) # {}
           /\ Named(log.selected, s) # Named(log.started, s)
Disappeared(list) == ~(scan.known \subseteq {Main} \cup {c.session : c \in Corroborated(list)})

\* Without both files the refresh ends with what it has; a log that is being
\* written is refused only when it is parsed or seen to change.
ReadLog(t) ==
    /\ lock = t /\ scan.pc = "log" /\ UNCHANGED <<picked, binding>> /\ Still
    /\ LET list == scan.list[1]
           sources == scan.list # <<>> /\ log.at = "whole"
           refused == sources /\ (Contradicted(list) \/ Disappeared(list))
       IN \/ /\ log.at = "torn" \/ refused
             /\ Raise(t)
          \/ /\ ~sources /\ (log.at = "torn" => scan.list = <<>>)
             /\ Return(t)
          \/ /\ sources /\ ~refused
             /\ IF Corroborated(list) = {} THEN Return(t)
                ELSE /\ scan' = [scan EXCEPT !.pc = "admit", !.queue = Corroborated(list)]
                     /\ UNCHANGED <<lock, hook, degraded, final>>

\* The candidates are taken in the order of the features and of their attempts;
\* then the refresh goes on to the next file, or ends.
Before(c, d) == \/ Order[c.role.feature] < Order[d.role.feature]
                \/ c.role.feature = d.role.feature /\ c.role.attempt < d.role.attempt
First(c) == \A d \in scan.queue \ {c} : Before(c, d)
Advance(t, c) ==
    IF c.session # Main /\ scan.queue = {c} THEN Return(t)
    ELSE /\ scan' = [scan EXCEPT !.pc = IF c.session = Main THEN "features" ELSE "admit",
                                 !.queue = @ \ {c}, !.now = Nothing]
         /\ UNCHANGED <<lock, hook, degraded, final>>

\* _allow_role and allow_relation: the relation, the role, the registry that
\* lets its requests in, the assignment.
RoleTaken(s, r) == \E o \in Sessions \ {s} : assigned[o] = r
\* Variant: the session is let in together with its relation.
Relate_LetsIn(s, r) ==
    /\ relations' = [relations EXCEPT ![s] = r]
    /\ registry' = [registry EXCEPT !.allowed = @ \cup {s}]
Relate(s, r) == relations' = [relations EXCEPT ![s] = r] /\ UNCHANGED registry
AdmitRelation(t) ==
    /\ lock = t /\ scan.pc = "admit" /\ UNCHANGED <<picked, raw, roles, assigned>> /\ Still
    /\ \E c \in scan.queue :
          LET s == c.session
              r == c.role
          IN /\ First(c)
             /\ \/ /\ raw[s] = r /\ Advance(t, c) /\ UNCHANGED <<relations, registry>>
                \/ /\ raw[s] \notin {Nothing, r} \/ (raw[s] = Nothing /\ RoleTaken(s, r))
                   /\ Raise(t) /\ UNCHANGED <<relations, registry>>
                \/ /\ raw[s] = Nothing /\ ~RoleTaken(s, r) /\ Relate(s, r)
                   /\ scan' = [scan EXCEPT !.pc = "role", !.now = c]
                   /\ UNCHANGED <<lock, hook, degraded, final>>

AdmitRole(t) ==
    /\ lock = t /\ scan.pc = "role"
    /\ roles' = roles \cup {scan.now.role} /\ Go("registry")
    /\ UNCHANGED <<picked, raw, relations, registry, assigned>> /\ Still

AdmitSession(t) ==
    /\ lock = t /\ scan.pc = "registry"
    /\ registry' = [registry EXCEPT !.allowed = @ \cup {scan.now.session}] /\ Go("assign")
    /\ UNCHANGED <<picked, raw, relations, roles, assigned>> /\ Still

Assign(t) ==
    /\ lock = t /\ scan.pc = "assign"
    /\ assigned' = [assigned EXCEPT ![scan.now.session] = scan.now.role]
    /\ raw' = [raw EXCEPT ![scan.now.session] = scan.now.role]
    /\ Advance(t, scan.now)
    /\ UNCHANGED <<picked, relations, roles, registry>> /\ Still

Refresh(t) ==
    \/ Locate(t) \/ ReadState(t) \/ ReadFeatures(t) \/ ReadLog(t)
    \/ AdmitRelation(t) \/ AdmitRole(t) \/ AdmitSession(t) \/ Assign(t)

------------------------------------------------------------------------------
(* A hook request: it refreshes the relations, and enters the ledger when   *)
(* its session is admitted.                                                 *)
Enter(t) == /\ lock = Free /\ lock' = t
            /\ scan' = [NoScan EXCEPT !.pc = "locate", !.known = Known]
Contradictory == \/ root.path = "replaced" \/ root.extra \/ (root.dir = "remade" /\ picked.dir = "made")
                 \/ state = "another workspace"
                 \/ picked.mission = "ours" /\ state = "another Mission"

\* Refresh is the same whoever asks; the session comes in with Accept.
Request(h) ==
    /\ hook[h].pc = "unborn" /\ raw[Decoy] = Excluded
    /\ \A i \in 1 .. h - 1 : hook[i].pc # "unborn"
    /\ hook' = [hook EXCEPT ![h].pc = "refreshing", ![h].sound = ~Contradictory]
    /\ Enter(h) /\ UNCHANGED <<factory, picked, binding, reviewing, ledger, degraded, final>>

Accept(h, s, e) ==
    /\ hook[h].pc = "refreshed"
    /\ IF s \in registry.allowed \ registry.excluded
       THEN /\ ledger' = Append(ledger, h)
            /\ hook' = [hook EXCEPT ![h].pc = "accepted", ![h].session = s, ![h].event = e]
       ELSE /\ hook' = [hook EXCEPT ![h].pc = "ignored"] /\ UNCHANGED ledger
    /\ UNCHANGED <<factory, lock, scan, picked, binding, reviewing, degraded, final>>

------------------------------------------------------------------------------
(* The review thread: RoleMapper.observe, then the record of the decision,  *)
(* with the digest the relations have by then.                              *)
Quarantines(s, e) ==
    \/ relations[s] \notin roles
    \/ e = "start" /\ mapper.held[s] \notin {Nothing, relations[s]}
    \/ \E o \in Sessions \ {s} : mapper.held[o] = relations[s]
Decision(s, e) ==
    IF s \in mapper.excluded THEN "ignored"
    ELSE IF s \in mapper.quarantined THEN "quarantined"
    ELSE IF e = "tool" /\ mapper.held[s] # Nothing THEN "assigned"
    ELSE IF relations[s] = Nothing THEN "ignored"
    ELSE IF Quarantines(s, e) THEN "quarantined" ELSE "assigned"

Observe ==
    /\ review = Nothing /\ Len(journal) < Len(ledger)
    /\ LET h == ledger[Len(journal) + 1]
           s == hook[h].session
           d == Decision(s, hook[h].event)
       IN /\ review' = d
          /\ mapper' = CASE d = "assigned" /\ mapper.held[s] = Nothing ->
                              [mapper EXCEPT !.held[s] = relations[s]]
                         [] d = "quarantined" -> [mapper EXCEPT !.quarantined = @ \cup {s}]
                         [] OTHER -> mapper
    /\ UNCHANGED <<factory, lock, scan, picked, binding, hook, ledger, journal, degraded, final>>

Record ==
    /\ review # Nothing
    /\ journal' = Append(journal, [session |-> hook[ledger[Len(journal) + 1]].session,
                                   status |-> review, digest |-> relations])
    /\ review' = Nothing
    /\ UNCHANGED <<factory, lock, scan, picked, binding, hook, mapper, ledger, degraded, final>>

------------------------------------------------------------------------------
(* The Mission process has stopped: finalize_record, then, without the      *)
(* lock, the assignments, which must be those of the record.                *)
Freeze ==
    /\ final.pc = "flying" /\ raw[Decoy] = Excluded
    /\ final' = [final EXCEPT !.pc = "freezing"]
    /\ Enter(Run) /\ UNCHANGED <<factory, picked, binding, hook, reviewing, ledger, degraded>>

Write ==
    /\ final.pc = "frozen"
    /\ final' = [final EXCEPT !.pc = IF assigned = final.roles THEN "written" ELSE "failed"]
    /\ UNCHANGED <<factory, lock, scan, picked, binding, hook, reviewing, ledger, degraded>>

RelationsNext ==
    \/ Factory \/ Exclude(Shadow) \/ Exclude(Decoy)
    \/ \E h \in Hooks : \/ Request(h) \/ Refresh(h)
                         \/ \E s \in Sessions, e \in Events : Accept(h, s, e)
    \/ Refresh(Run) \/ Freeze \/ Write \/ Observe \/ Record
RelationsSpec == RelationsInit /\ [][RelationsNext]_relationVars

------------------------------------------------------------------------------
(* Types, and that no two sessions hold one role in the relations or in the *)
(* role mapper, however Factory reorders its lists.                         *)
RelationsTypeOK ==
    /\ lock \in Hooks \cup {Run, Free}
    /\ \A s \in Sessions : /\ raw[s] \in RoleSet \cup {Nothing, Excluded}
                            /\ relations[s] \in RoleSet \cup {Nothing}
                            /\ assigned[s] \in RoleSet \cup {Nothing}
                            /\ mapper.held[s] \in RoleSet \cup {Nothing}
    /\ roles \subseteq RoleSet /\ Len(journal) <= Len(ledger)
    /\ (lock = Free) = (scan = NoScan)
    /\ \A s, o \in Sessions :
          s # o => /\ relations[s] = relations[o] => relations[s] = Nothing
                   /\ mapper.held[s] = mapper.held[o] => mapper.held[s] = Nothing

\* A request enters the ledger only when its session is the orchestrator of
\* the Mission in state.json or was listed, selected and started for the
\* feature of its role, by the three files though they are read one after
\* the other while Factory writes them; a control session never does
\* (correlation.py, refresh and _worker_log_relations).
AcceptedMeansNamed ==
    \A i \in 1 .. Len(ledger) :
        LET s == hook[ledger[i]].session
            f == relations[s].feature
        IN /\ s \notin {Shadow, Decoy} /\ relations[s] # Nothing
           /\ IF s = Main THEN said.state
              ELSE <<s, f>> \in said.listed \cap said.selected \cap said.started

\* A session whose requests are let in has its role by the time the review
\* thread looks, so that it is never quarantined for good: the registry is
\* the last to learn of it (correlation.py, allow_relation against roles.py,
\* observe, on another thread).
AdmittedNeverQuarantined == \A i \in 1 .. Len(journal) : journal[i].status = "assigned"

\* A request that came after the Mission root or state.json contradicted what
\* the producer had opened is not accepted (correlation.py,
\* _mission_directory and refresh fail closed).
ContradictionClosesIntake == \A i \in 1 .. Len(ledger) : hook[ledger[i]].sound
==============================================================================
