--------------------- MODULE InterventionRouterProofs ---------------------
(***************************************************************************)
(* Theorems about InterventionPolicy and InterventionRouter, for any       *)
(* finite set of interventions, any sessions, targets, workers, scope,     *)
(* bounds, verdicts, sources of evidence and faults.                       *)
(*                                                                         *)
(* Everything that is done to a record makes it grow (Grown): it takes     *)
(* transitions or stays as it is, and neither what hooks added nor a       *)
(* failure is taken back.  A generation counts transitions, so two copies  *)
(* of one generation of which one has grown from the other are the same,   *)
(* and a commit that finds the generation it planned on finds the latch it *)
(* planned on (PlannedFrom).  The invariant RouterIInv says that a latch   *)
(* which is whole, or that a hook holding the lock will make whole         *)
(* (Steady), has grown from the router's state by hooks alone or by the    *)
(* durable commit that failed (Covered), that the state which is being     *)
(* committed has grown from the latch it was planned on (Planning), and    *)
(* that the durable deltas replay to the router's state (Replays).         *)
(***************************************************************************)
EXTENDS MCInterventionRouter, FiniteSetTheorems, SequenceTheorems, WellFoundedInduction, TLAPS

\* A record that is stored; the one that is not is Unborn.
Stored(r) == r \in Record /\ (r.state = "absent" => r = Unborn)
Copies == {s \in RouterState : \A i \in Ids : Stored(s[i])}

\* A record is neither queued nor delivered anew, and leaves a failure or an end only as
\* the life cycle has it.
Onward(b, a) ==
    /\ a = "absent" => b = "absent"
    /\ a = "queued" => b \in {"absent", "queued"}
    /\ a = "delivered" => b \in {"absent", "queued", "delivered"}
    /\ b \in Failed => a \in {b, "termination_acknowledged"}
    /\ b \in Nonblocking => a = b

\* What a record may become in the router: it takes transitions, or stays as it is,
\* and neither the hooks' part of it nor a failure is taken back.
Grown(b, a) ==
    /\ Stored(a) /\ a.n >= b.n /\ (a.n = b.n => a = b)
    /\ a.attempts >= b.attempts /\ a.outage >= b.outage
    /\ Onward(b.state, a.state)
AllGrown(b, a) == \A i \in Ids : Grown(b[i], a[i])

\* An event that finds an intervention absent leaves it neither resolved nor with a
\* repairing worker.
Unready(b, a) ==
    \A i \in Ids : b[i].state = "absent" => a[i].state \notin {"resolved", "repair_assigned"}

------------------------------------------------------------------------------
\* The latch files are whole, or a hook that holds the lock is about to make them so.
\* Files that are neither stay so: nobody writes to a latch it cannot verify.
Steady == Intact \/ lock # NoOne
\* Unless the latch is lost it is s, advanced by hooks at most.
Follows(s) == Steady => OutageAdvance(s, latch) /\ AllGrown(s, latch)

Typed ==
    /\ latch \in Copies /\ head \in Copies /\ lock \in Sessions \cup {NoOne}
    /\ durable \in Copies /\ router \in Copies
    /\ writer \in [pc : {"idle", "commit"}, seen : Nat, next : Copies,
                   session : Sessions \cup {NoOne}, event : Event]
    /\ ledgerDown \in BOOLEAN /\ reviewDown \in BOOLEAN
    /\ inputs \in Inputs
    /\ call \in [Sessions -> {"none", "waiting", "late"}]
    /\ pending \in [Sessions -> Seq(Event)]
    /\ \A m \in Sessions : Len(pending[m]) <= MaxPending[m]
    /\ alive \in BOOLEAN /\ phase \in Phases /\ now \in 0..MaxTime

\* The latch has grown from the router's state, and LatchCoversRouter holds, while a hook
\* is at work as well.
Covered ==
    Steady =>
      /\ AllGrown(router, latch)
      /\ \A i \in Ids :
           \/ ExtendedByHooks(router[i], latch[i])
           \/ (ledgerDown \/ reviewDown) /\ ExtendedByHooks(durable[i], latch[i])

\* The planned state grew from the latch that the writer read; that one advanced the
\* router's state, and hooks alone have advanced it since.
Planning ==
    writer.pc = "commit" =>
      /\ ~ledgerDown /\ phase \in {"running", "stopping"}
      /\ \E base \in Copies :
           /\ Gen(base) = writer.seen /\ OutageAdvance(router, base) /\ AllGrown(router, base)
           /\ AllGrown(base, writer.next) /\ Unready(base, writer.next) /\ Follows(base)

TakenOver == phase = "reconciled" => Follows(router)

\* DeltasReplayToRouter holds until the end of the run even if the review has failed.
Replays ==
    ~ledgerDown /\ (phase \notin {"settled", "released", "kept"} \/ ~reviewDown) =>
      durable = (IF writer.pc = "commit" THEN writer.next ELSE router)

\* A released run has nothing running that could change it.
Released ==
    phase = "released" =>
      /\ ~ledgerDown /\ ~reviewDown /\ ~alive /\ Intact
      /\ \A m \in Sessions : call[m] = "none"
      /\ ~TerminationDue(router) /\ ~CompletionBlocked(router)
      /\ ~TerminationDue(latch) /\ ~CompletionBlocked(latch)

RouterIInv == Typed /\ Covered /\ Planning /\ TakenOver /\ Replays /\ Released
\* The least of some numbers is one of them.
LEMMA LeastOf == ASSUME NEW S \in SUBSET Nat, S # {} PROVE Min(S) \in S
<1>1. PICK x \in S : \A y \in S : ~(<<y, x>> \in OpToRel(<, Nat))
  BY NatLessThanWellFounded, WFMin
<1>2. \A y \in S : ~(y < x)
  BY <1>1, Zenon DEF OpToRel
<1>3. \A y \in S : x <= y
  BY <1>2
<1> QED
  BY <1>3 DEF Min

\* What is known of the fields of a record.
LEMMA Fields ==
    ASSUME NEW r, Stored(r) PROVE
    /\ r \in Record /\ r.state \in States /\ r.level \in {"concern", "blocker"}
    /\ r.probe \in {"missing", "inconclusive", "confirmed"} /\ r.support \in 1..MaxSupport
    /\ r.attempts \in 0..MaxAttempts /\ r.deadline \in Nat /\ r.deliveries \in Nat
    /\ r.worker \in Workers \cup {NoWorker} /\ r.told \in BOOLEAN /\ r.marked \in BOOLEAN
    /\ r.proof \in SUBSET {"diff", "test"} /\ r.n \in Nat /\ r.outage \in Nat
    /\ r.attempts \in Nat
    /\ (r.state = "absent" => r = Unborn)
BY DEF Stored, Record, MaxAttempts

\* A record that is not yet there may be stored.
LEMMA UnbornStored == Stored(Unborn)
BY PolicyAssumption DEF Stored, Unborn, Record, States, MaxAttempts

\* A record that is left alone has grown from itself.
LEMMA GrownSame == ASSUME NEW r, Stored(r) PROVE Grown(r, r)
BY Fields DEF Grown, Onward

\* Growth adds up.
LEMMA GrownOn ==
    ASSUME NEW a, NEW b, NEW c, Stored(a), Grown(a, b), Grown(b, c) PROVE Grown(a, c)
<1>1. Stored(b) /\ Stored(c)
  BY DEF Grown
<1>2. Onward(a.state, b.state) /\ Onward(b.state, c.state)
  BY DEF Grown
<1>3. Onward(a.state, c.state)
  BY <1>2 DEF Onward, Failed, Nonblocking
<1> QED
  BY <1>1, <1>3, Fields DEF Grown

\* A transition of a record that is neither absent nor at an end, whatever else changes with it.
LEMMA OneMore ==
    ASSUME NEW r, Stored(r), NEW a \in Record, a.state # "absent", a.n > r.n,
           a.attempts >= r.attempts, a.outage >= r.outage,
           Onward(r.state, a.state)
    PROVE  Grown(r, a)
<1>1. Stored(a) /\ a.n \in Nat /\ r.n \in Nat
  BY Fields DEF Stored, Record
<1> QED
  BY <1>1 DEF Grown

\* What one transition leaves of a record.
LEMMA Moves ==
    ASSUME NEW r, Stored(r), NEW st \in States
    PROVE  /\ Move(r, st) \in Record /\ Move(r, st).state = st /\ Move(r, st).n = r.n + 1
           /\ Move(r, st).attempts = r.attempts /\ Move(r, st).outage = r.outage
           /\ Move(r, st).level = r.level /\ Move(r, st).deadline = r.deadline
           /\ Move(r, st).deliveries = r.deliveries /\ Move(r, st).worker = r.worker
           /\ Move(r, st).proof = r.proof
<1>m. r \in Record /\ r.n + 1 \in Nat
  BY Fields
<1> DEFINE a == [r EXCEPT !.state = st]
<1>1. a \in Record /\ a.state = st /\ a.n = r.n /\ a.attempts = r.attempts
      /\ a.outage = r.outage
      /\ a.level = r.level /\ a.deadline = r.deadline /\ a.deliveries = r.deliveries
      /\ a.worker = r.worker /\ a.proof = r.proof
  BY <1>m DEF Record
<1>2. Move(r, st) = [a EXCEPT !.n = r.n + 1]
  BY <1>m DEF Move, Record
<1> HIDE DEF a
<1> QED
  BY <1>m, <1>1, <1>2 DEF Record

------------------------------------------------------------------------------
(* Growth of one record: findings, cancellations, repairs and evidence.    *)

\* A queued record is the first of its intervention.
LEMMA QueuedGrown == ASSUME NEW f \in Findings, f.level # "none" PROVE Grown(Unborn, Queued(f))
<1> DEFINE u == Unborn
<1>f. /\ f.level \in {"concern", "blocker"} /\ f.support \in 1..MaxSupport
      /\ f.probe \in {"missing", "inconclusive", "confirmed"}
  BY DEF Findings
<1>u. u \in Record /\ u.attempts = 0 /\ u.outage = 0
  BY UnbornStored DEF Stored, Unborn
<1>q. Queued(f) = [u EXCEPT !.state = "queued", !.n = 1, !.support = f.support,
         !.level = f.level, !.probe = f.probe]
  BY DEF Queued
<1> HIDE DEF u
<1> DEFINE v == [u EXCEPT !.state = "queued", !.n = 1, !.support = f.support]
           a == [v EXCEPT !.level = f.level, !.probe = f.probe]
<1>v. v \in Record /\ v.state = "queued" /\ v.n = 1 /\ v.attempts = 0 /\ v.outage = 0
  BY <1>f, <1>u DEF Record, States
<1>e. Queued(f) = a
  BY <1>q
<1> HIDE DEF v
<1>a. a \in Record /\ a.state = "queued" /\ a.n = 1 /\ a.attempts = 0 /\ a.outage = 0
  BY <1>f, <1>v DEF Record
<1> HIDE DEF a
<1>1. /\ Queued(f).state = "queued" /\ Queued(f).n = 1 /\ Queued(f).attempts = 0
      /\ Queued(f).outage = 0
      /\ Queued(f) \in Record
  BY <1>a, <1>e
<1>2. Unborn.n = 0 /\ Unborn.attempts = 0 /\ Unborn.outage = 0 /\ Unborn.state = "absent"
  BY DEF Unborn
<1> QED
  BY <1>1, <1>2, UnbornStored, OneMore DEF Failed, Onward, Nonblocking

\* A finding that is reported again adds to its intervention.
LEMMA ExtendedGrown ==
    ASSUME NEW r, Stored(r), r.state # "absent", NEW f \in Findings, f.level # "none"
    PROVE  Grown(r, Extended(r, f))
<1>m. r.state \in States /\ r.n \in Nat /\ f.support \in 1..MaxSupport
      /\ f.probe \in {"missing", "inconclusive", "confirmed"}
  BY Fields DEF Findings
<1> DEFINE grown == r.state \notin Nonblocking \cup Failed /\ r.support # f.support
           bound == f.probe \notin {"missing", r.probe}
           raised == r.level = "concern" /\ f.level = "blocker" /\ r.state \notin Nonblocking
           w == Move(r, r.state)
           s == IF grown THEN f.support ELSE w.support
           p == IF bound THEN f.probe ELSE w.probe
           l == IF raised THEN "blocker" ELSE w.level
           a == [w EXCEPT !.support = s, !.probe = p, !.level = l]
<1>1. w \in Record /\ w.state = r.state /\ w.n = r.n + 1 /\ w.attempts = r.attempts
      /\ w.outage = r.outage
  BY <1>m, Moves
<1>2. Extended(r, f) = IF grown \/ bound \/ raised THEN a ELSE r
  BY DEF Extended
<1> HIDE DEF w, grown, bound, raised
<1>3. s \in 1..MaxSupport /\ p \in {"missing", "inconclusive", "confirmed"}
      /\ l \in {"concern", "blocker"}
  BY <1>m, <1>1 DEF Record
<1> HIDE DEF s, p, l
<1>4. a \in Record /\ a.state = r.state /\ a.n = r.n + 1 /\ a.attempts = r.attempts
      /\ a.outage = r.outage
  BY <1>1, <1>3 DEF Record
<1> HIDE DEF a
<1>5. Grown(r, a)
  BY <1>m, <1>4, Fields, OneMore DEF Onward, Failed, Nonblocking
<1> QED
  BY <1>2, <1>5, GrownSame

\* So does any finding, to whatever record its conflict has.
LEMMA RoutedGrown == ASSUME NEW r, Stored(r), NEW f \in Findings PROVE Grown(r, Routed(r, f))
<1>1. CASE f.level = "none"
  BY <1>1, GrownSame DEF Routed
<1>2. CASE f.level # "none" /\ r.state = "absent"
  <2>1. r = Unborn
    BY <1>2 DEF Stored
  <2> QED
    BY <1>2, <2>1, QueuedGrown DEF Routed
<1>3. CASE f.level # "none" /\ r.state # "absent"
  BY <1>3, ExtendedGrown DEF Routed
<1> QED
  BY <1>1, <1>2, <1>3

\* A transition to a state that the life cycle has next.
LEMMA MoveGrown ==
    ASSUME NEW r, Stored(r), NEW st \in States, st # "absent",
           Onward(r.state, st)
    PROVE  Grown(r, Move(r, st))
<1>1. /\ Move(r, st) \in Record /\ Move(r, st).state = st /\ Move(r, st).n = r.n + 1
      /\ Move(r, st).attempts = r.attempts /\ Move(r, st).outage = r.outage /\ r.n \in Nat
      /\ r.attempts \in Nat /\ r.outage \in Nat
  BY Moves, Fields
<1> QED
  BY <1>1, OneMore

\* An intervention that is cancelled.
LEMMA CancelledGrown == ASSUME NEW r, Stored(r), NEW c PROVE Grown(r, Cancelled(r, c))
<1>1. CASE c /\ r.state \notin Closed
  <2>1. Grown(r, Move(r, "quarantined"))
    BY <1>1, MoveGrown DEF States, Closed, Nonblocking, Onward, Failed
  <2> QED
    BY <1>1, <2>1 DEF Cancelled
<1> QED
  BY <1>1, GrownSame DEF Cancelled

\* A repair that is assigned.
LEMMA AssignedGrown ==
    ASSUME NEW r, Stored(r), NEW w \in Workers \cup {NoWorker} PROVE Grown(r, Assigned(r, w))
<1>1. CASE w # NoWorker /\ r.worker = NoWorker /\ r.state = "repair_requested"
  <2> DEFINE v == Move(r, "repair_assigned")
             a == [v EXCEPT !.worker = w]
  <2>1. v \in Record /\ v.state = "repair_assigned" /\ v.n = r.n + 1
        /\ v.attempts = r.attempts /\ v.outage = r.outage
    BY Moves DEF States
  <2> HIDE DEF v
  <2>2. a \in Record /\ a.state = "repair_assigned" /\ a.n = r.n + 1
        /\ a.attempts = r.attempts /\ a.outage = r.outage
    BY <2>1 DEF Record
  <2> HIDE DEF a
  <2>3. Grown(r, a)
    BY <1>1, <2>2, Fields, OneMore DEF Failed, Onward, Nonblocking
  <2> QED
    BY <1>1, <2>3 DEF Assigned, a, v
<1> QED
  BY <1>1, GrownSame DEF Assigned

\* Guidance that is acknowledged.
LEMMA AcknowledgedGrown == ASSUME NEW r, Stored(r), NEW ev PROVE Grown(r, Acknowledged(r, ev))
<1>1. CASE r.state \in {"delivered", "repair_assigned"}
  <2>1. Grown(r, Move(r, "acknowledged"))
    BY <1>1, MoveGrown DEF States, Failed, Onward, Nonblocking
  <2> QED
    BY <2>1, GrownSame DEF Acknowledged
<1> QED
  BY <1>1, GrownSame DEF Acknowledged

\* A source change, a passing test, or both.
LEMMA CorrectedGrown ==
    ASSUME NEW r, Stored(r), r.state \notin Closed, NEW before, NEW ev
    PROVE  Grown(r, Corrected(before, r, ev))
<1> DEFINE found == ev \cap {"diff", "test"}
<1>m. r.state \in States /\ r.n \in Nat /\ r.proof \in SUBSET {"diff", "test"} /\ r \in Record
      /\ r.attempts \in Nat /\ r.outage \in Nat
  BY Fields
<1>f. found \in SUBSET {"diff", "test"}
  OBVIOUS
<1>1. Corrected(before, r, ev) \in
        {r, [Move(Move(r, "corrected"), "resolved") EXCEPT !.proof = found],
         [Move(r, r.state) EXCEPT !.proof = @ \cup found]}
  BY DEF Corrected
<1> HIDE DEF found
<1>2. Grown(r, [Move(Move(r, "corrected"), "resolved") EXCEPT !.proof = found])
  <2> DEFINE v == [r EXCEPT !.state = "corrected", !.n = r.n + 1]
             u == [v EXCEPT !.state = "resolved", !.n = v.n + 1]
             a == [u EXCEPT !.proof = found]
  <2>1. /\ DOMAIN v = DOMAIN r /\ v.n = r.n + 1
        /\ \A x \in DOMAIN r \ {"state", "n"} : v[x] = r[x]
        /\ v = [x \in DOMAIN r |-> v[x]]
    BY <1>m DEF Record
  <2>2. [Move(Move(r, "corrected"), "resolved") EXCEPT !.proof = found] = a
    BY DEF Move
  <2>3. DOMAIN r = {"state", "level", "probe", "support", "attempts", "deadline", "deliveries",
                    "worker", "told", "marked", "proof", "n", "outage"}
    BY <1>m DEF Record
  <2> HIDE DEF v
  <2>4. /\ DOMAIN u = DOMAIN r /\ u.n = r.n + 2 /\ u.state = "resolved"
        /\ \A x \in DOMAIN r \ {"state", "n"} : u[x] = r[x]
        /\ u = [x \in DOMAIN r |-> u[x]]
    <3>1. DOMAIN u = DOMAIN v /\ u = [x \in DOMAIN v |-> u[x]]
      OBVIOUS
    <3>2. u.state = "resolved" /\ u.n = v.n + 1
          /\ \A x \in DOMAIN v \ {"state", "n"} : u[x] = v[x]
      BY <2>1, <2>3
    <3>3. v.n + 1 = r.n + 2
      BY <1>m, <2>1
    <3> HIDE DEF u
    <3> QED
      BY <2>1, <3>1, <3>2, <3>3
  <2> HIDE DEF u
  <2>5. /\ DOMAIN a = DOMAIN r /\ a.n = r.n + 2 /\ a.state = "resolved" /\ a.proof = found
        /\ \A x \in DOMAIN r \ {"state", "n", "proof"} : a[x] = r[x]
        /\ a = [x \in DOMAIN r |-> a[x]]
    BY <1>m, <2>4, <2>3
  <2> HIDE DEF a
  <2>6. a \in Record
    BY <1>m, <1>f, <2>3, <2>5 DEF Record, States
  <2>7. a.attempts = r.attempts /\ a.outage = r.outage
    BY <2>3, <2>5
  <2>8. Grown(r, a)
    BY <1>m, <2>5, <2>6, <2>7, OneMore DEF Closed, Nonblocking, Onward, Failed
  <2> QED
    BY <2>2, <2>8
<1>3. Grown(r, [Move(r, r.state) EXCEPT !.proof = @ \cup found])
  <2> DEFINE v == Move(r, r.state)
             q == v.proof \cup found
             a == [v EXCEPT !.proof = q]
  <2>1. v \in Record /\ v.state = r.state /\ v.n = r.n + 1 /\ v.attempts = r.attempts
        /\ v.outage = r.outage
    BY <1>m, Moves
  <2> HIDE DEF v
  <2>2. q \in SUBSET {"diff", "test"}
    BY <1>f, <2>1 DEF Record
  <2> HIDE DEF q
  <2>3. a \in Record /\ a.state = r.state /\ a.n = r.n + 1 /\ a.attempts = r.attempts
        /\ a.outage = r.outage
    BY <2>1, <2>2 DEF Record
  <2> HIDE DEF a
  <2>4. Grown(r, a)
    BY <1>m, <2>3, OneMore DEF Closed, Nonblocking, Onward, Failed
  <2> QED
    BY <2>4 DEF a, q, v
<1> QED
  BY <1>1, <1>2, <1>3, GrownSame

\* All evidence of one intervention.
LEMMA EvidencedGrown == ASSUME NEW r, Stored(r), NEW ev PROVE Grown(r, Evidenced(r, ev))
<1>1. CASE r.state \in Failed /\ "termination_ack" \in ev
  <2>1. Grown(r, Move(r, "termination_acknowledged"))
    BY <1>1, MoveGrown DEF States, Onward, Failed, Nonblocking
  <2> QED
    BY <1>1, <2>1 DEF Evidenced
<1>2. CASE r.state \notin Closed
  <2> DEFINE a == Acknowledged(r, ev)
  <2>1. Grown(r, a)
    BY AcknowledgedGrown
  <2>2. a.state \notin Closed
    BY <1>2, Moves DEF Acknowledged, States, Closed, Nonblocking, Failed
  <2>3. Stored(a)
    BY <2>1 DEF Grown
  <2> HIDE DEF a
  <2>4. Grown(a, Corrected(r.state, a, ev))
    BY <2>2, <2>3, CorrectedGrown
  <2>5. Grown(r, Corrected(r.state, a, ev))
    BY <2>1, <2>4, GrownOn
  <2> QED
    BY <1>2, <2>5 DEF Evidenced, a, Closed
<1> QED
  BY <1>1, <1>2, GrownSame DEF Evidenced

------------------------------------------------------------------------------
(* Growth of one record: the response to an event.                         *)

\* The session's guidance is delivered or the repairing worker told.
LEMMA DeliverGrown ==
    ASSUME NEW r, Stored(r), r.state \in {"queued", "delivered"}
    PROVE  Grown(r, Deliver(r)) /\ Deliver(r).state = "delivered"
           /\ Deliver(r).attempts = r.attempts
           /\ Deliver(r).deadline = r.deadline
<1> DEFINE v == Move(r, "delivered")
           d == v.deliveries + 1
           a == [v EXCEPT !.deliveries = d]
<1>m. r.n \in Nat /\ r.attempts \in Nat /\ r.outage \in Nat /\ r.deliveries \in Nat
  BY Fields
<1>1. v \in Record /\ v.state = "delivered" /\ v.n = r.n + 1 /\ v.attempts = r.attempts
      /\ v.outage = r.outage
      /\ v.deliveries = r.deliveries /\ v.deadline = r.deadline
  BY Moves DEF States
<1> HIDE DEF v
<1>2. d \in Nat
  BY <1>m, <1>1
<1> HIDE DEF d
<1>3. a \in Record /\ a.state = "delivered" /\ a.n = r.n + 1 /\ a.attempts = r.attempts
      /\ a.outage = r.outage
      /\ a.deadline = r.deadline
  BY <1>1, <1>2 DEF Record
<1>4. Deliver(r) = a
  BY DEF Deliver, a, d, v
<1> HIDE DEF a
<1>5. Grown(r, a)
  BY <1>m, <1>3, OneMore DEF Failed, Onward, Nonblocking
<1> QED
  BY <1>3, <1>4, <1>5

\* The repairing worker is told.
LEMMA TellGrown ==
    ASSUME NEW r, Stored(r), r.state = "repair_assigned" PROVE Grown(r, Tell(r))
<1> DEFINE v == Move(r, r.state)
           a == [v EXCEPT !.told = TRUE]
<1>m. r.n \in Nat /\ r.attempts \in Nat /\ r.outage \in Nat /\ r.state \in States
  BY Fields
<1>1. v \in Record /\ v.state = r.state /\ v.n = r.n + 1 /\ v.attempts = r.attempts
      /\ v.outage = r.outage
  BY <1>m, Moves
<1>2. Tell(r) = a
  BY DEF Tell
<1> HIDE DEF v
<1>3. a \in Record /\ a.state = r.state /\ a.n = r.n + 1 /\ a.attempts = r.attempts
      /\ a.outage = r.outage
  BY <1>1 DEF Record
<1> HIDE DEF a
<1>4. Grown(r, a)
  BY <1>m, <1>3, OneMore DEF Onward, Failed, Nonblocking
<1> QED
  BY <1>2, <1>4

\* An intervention without a probe is marked once.
LEMMA MarkGrown ==
    ASSUME NEW r, Stored(r), r.state \notin Closed
    PROVE Grown(r, [Move(r, r.state) EXCEPT !.marked = TRUE])
<1> DEFINE v == Move(r, r.state)
           a == [v EXCEPT !.marked = TRUE]
<1>m. r.n \in Nat /\ r.attempts \in Nat /\ r.outage \in Nat /\ r.state \in States
  BY Fields
<1>1. v \in Record /\ v.state = r.state /\ v.n = r.n + 1 /\ v.attempts = r.attempts
      /\ v.outage = r.outage
  BY <1>m, Moves
<1> HIDE DEF v
<1>3. a \in Record /\ a.state = r.state /\ a.n = r.n + 1 /\ a.attempts = r.attempts
      /\ a.outage = r.outage
  BY <1>1 DEF Record
<1> HIDE DEF a
<1>4. Grown(r, a)
  BY <1>m, <1>3, OneMore DEF Closed, Onward, Failed, Nonblocking
<1> QED
  BY <1>4 DEF a, v

\* One more blocked completion, of a record that had fewer than all.
LEMMA HeldGrown ==
    ASSUME NEW r, Stored(r), r.state # "absent", r.attempts < MaxAttempts, NEW at \in Nat
    PROVE  Grown(r, Held(r, at))
<1> DEFINE t == r.attempts + 1
           k == r.n + 1
           d == IF r.deadline = 0 THEN at + HoldTime ELSE r.deadline
           a == [r EXCEPT !.attempts = t, !.n = k, !.deadline = d]
<1>m. r \in Record /\ r.n \in Nat /\ r.attempts \in 0..MaxAttempts /\ r.outage \in Nat
      /\ r.state \in States
      /\ r.deadline \in Nat /\ HoldTime \in Nat
  BY Fields, PolicyAssumption
<1>1. Held(r, at) = a
  BY DEF Held
<1>2. t \in 0..MaxAttempts /\ k \in Nat /\ d \in Nat /\ t > r.attempts /\ k > r.n
  BY <1>m DEF MaxAttempts
<1> HIDE DEF t, k, d
<1>3. a \in Record /\ a.state = r.state /\ a.n = k /\ a.attempts = t /\ a.outage = r.outage
  BY <1>m, <1>2 DEF Record
<1> HIDE DEF a
<1>4. t >= r.attempts
  BY <1>m, <1>2 DEF MaxAttempts
<1>5. Grown(r, a)
  BY <1>m, <1>2, <1>3, <1>4, OneMore DEF Onward, Failed, Nonblocking
<1> QED
  BY <1>1, <1>5

\* A record that is not overdue has an attempt left.
LEMMA NotOverdue ==
    ASSUME NEW r, Stored(r), NEW at, ~Overdue(r, at) PROVE r.attempts < MaxAttempts
BY Fields DEF Overdue, MaxAttempts

\* A repair is requested, of guidance that was delivered.
LEMMA RequestedGrown ==
    ASSUME NEW r, Stored(r), r.state \notin Closed
    PROVE  Grown(r, Requested(r)) /\ Requested(r).state = "repair_requested"
           /\ Requested(r).attempts = r.attempts
<1>1. CASE r.state = "queued"
  <2>1. Grown(r, Deliver(r)) /\ Deliver(r).state = "delivered"
        /\ Deliver(r).attempts = r.attempts
    BY <1>1, DeliverGrown
  <2>2. Stored(Deliver(r))
    BY <2>1 DEF Grown
  <2>3. Grown(Deliver(r), Move(Deliver(r), "repair_requested"))
    BY <2>1, <2>2, MoveGrown DEF States, Failed, Onward, Nonblocking
  <2>4. Requested(r) = Move(Deliver(r), "repair_requested")
    BY <1>1 DEF Requested
  <2>5. Requested(r).state = "repair_requested" /\ Requested(r).attempts = r.attempts
    BY <2>1, <2>2, <2>4, Moves DEF States
  <2> QED
    BY <2>1, <2>3, <2>4, <2>5, GrownOn
<1>2. CASE r.state # "queued"
  <2>1. Requested(r) = Move(r, "repair_requested")
    BY <1>2 DEF Requested
  <2>2. Grown(r, Requested(r))
    BY <2>1, MoveGrown DEF States, Closed, Nonblocking, Onward, Failed
  <2> QED
    BY <2>1, <2>2, Moves DEF States
<1> QED
  BY <1>1, <1>2

\* A blocker holds its session once more.
LEMMA BlockedGrown ==
    ASSUME NEW i, NEW r, Stored(r), r.state \notin Closed, r.attempts < MaxAttempts,
           NEW at \in Nat
    PROVE  Grown(r, Blocked(i, r, at))
<1>0. r.state # "absent"
  BY DEF Closed
<1>1. Grown(r, Held(r, at))
  BY <1>0, HeldGrown
<1>2. ASSUME r.state = "queued" PROVE Grown(r, Held(Deliver(r), at))
  <2>1. Grown(r, Deliver(r)) /\ Deliver(r).state = "delivered"
        /\ Deliver(r).attempts = r.attempts
    BY <1>2, DeliverGrown
  <2>2. Stored(Deliver(r))
    BY <2>1 DEF Grown
  <2>3. Grown(Deliver(r), Held(Deliver(r), at))
    BY <2>1, <2>2, HeldGrown
  <2> QED
    BY <2>1, <2>3, GrownOn
<1>3. Grown(r, Held(Requested(r), at))
  <2>1. Grown(r, Requested(r)) /\ Requested(r).state = "repair_requested"
        /\ Requested(r).attempts = r.attempts
    BY RequestedGrown
  <2>2. Stored(Requested(r))
    BY <2>1 DEF Grown
  <2>3. Grown(Requested(r), Held(Requested(r), at))
    BY <2>1, <2>2, HeldGrown
  <2> QED
    BY <2>1, <2>3, GrownOn
<1>4. Grown(r, Move(r, "quarantined"))
  BY MoveGrown DEF States, Closed, Nonblocking, Onward, Failed
<1> QED
  BY <1>1, <1>2, <1>3, <1>4 DEF Blocked

\* Whatever is decided of a blocker.
LEMMA DecidedGrown ==
    ASSUME NEW i, NEW r, Stored(r), Blocking(r), NEW at \in Nat
    PROVE Grown(r, Decided(i, r, at))
<1>1. CASE r.state \in Failed
  BY <1>1, GrownSame DEF Decided
<1>2. CASE r.state \notin Failed
  <2>1. r.state \notin Closed
    BY <1>2 DEF Blocking, Closed
  <2>2. Grown(r, Move(r, "expired"))
    BY <2>1, MoveGrown DEF States, Closed, Nonblocking, Onward, Failed
  <2>3. ~Overdue(r, at) => Grown(r, Blocked(i, r, at))
    BY <2>1, NotOverdue, BlockedGrown
  <2> QED
    BY <1>2, <2>2, <2>3 DEF Decided
<1> QED
  BY <1>1, <1>2

------------------------------------------------------------------------------
(* Growth of a copy of the router's state.                                 *)

\* What is said of a copy record by record.
LEMMA CopyOf ==
    ASSUME NEW s \in Copies PROVE
    /\ s \in RouterState /\ DOMAIN s = Ids /\ s = [i \in Ids |-> s[i]]
    /\ \A i \in Ids : Stored(s[i]) /\ s[i] \in Record /\ s[i].n \in Nat
BY Fields DEF Copies, RouterState, Stored

\* What has grown from a copy of the router's state is one.
LEMMA GrownCopy ==
    ASSUME NEW s \in Copies, NEW t, t = [i \in Ids |-> t[i]], AllGrown(s, t) PROVE t \in Copies
BY DEF AllGrown, Grown, Copies, RouterState, Stored

\* A copy has grown from itself.
LEMMA CopyGrown == ASSUME NEW s \in Copies PROVE AllGrown(s, s)
BY CopyOf, GrownSame DEF AllGrown

\* Growth of copies adds up.
LEMMA CopiesGrownOn ==
    ASSUME NEW a \in Copies, NEW b, NEW c, AllGrown(a, b), AllGrown(b, c) PROVE AllGrown(a, c)
BY CopyOf, GrownOn DEF AllGrown

\* One record of a copy takes a transition.
LEMMA OneGrown ==
    ASSUME NEW s \in Copies, NEW i \in Ids, NEW r, Grown(s[i], r)
    PROVE  [s EXCEPT ![i] = r] \in Copies /\ AllGrown(s, [s EXCEPT ![i] = r])
<1> DEFINE t == [s EXCEPT ![i] = r]
<1>1. DOMAIN s = Ids /\ \A j \in Ids : Grown(s[j], s[j])
  BY CopyOf, GrownSame
<1>2. t = [j \in Ids |-> t[j]] /\ t[i] = r /\ \A j \in Ids \ {i} : t[j] = s[j]
  BY <1>1
<1> HIDE DEF t
<1>3. AllGrown(s, t)
  BY <1>1, <1>2 DEF AllGrown
<1>4. t \in Copies
  BY <1>2, <1>3, GrownCopy
<1> QED
  BY <1>3, <1>4 DEF t

\* The first state of a run.
LEMMA EmptyCopy == EmptyState \in Copies
BY UnbornStored DEF EmptyState, Copies, RouterState, Stored

\* What the review, the session's evidence and the operator say of the interventions.
LEMMA SettleGrown ==
    ASSUME NEW s \in Copies, NEW in \in Inputs, NEW session, NEW completes
    PROVE  Settle(s, in, session, completes) \in Copies
           /\ AllGrown(s, Settle(s, in, session, completes))
<1> DEFINE t == Settle(s, in, session, completes)
<1>1. t = [i \in Ids |-> t[i]]
  BY DEF Settle
<1>2. \A i \in Ids : Grown(s[i], t[i])
  <2> SUFFICES ASSUME NEW i \in Ids PROVE Grown(s[i], t[i])
    OBVIOUS
  <2> DEFINE c == i \in in.cancelled
             a == Routed(s[i], in.finding[i])
             b == Cancelled(a, c)
             r == Assigned(b, in.assigned[i])
  <2>1. in.finding[i] \in Findings /\ in.assigned[i] \in Workers \cup {NoWorker}
    BY DEF Inputs
  <2>2. t[i] = r \/ t[i] = Evidenced(r, in.evidence[i])
    BY DEF Settle
  <2>3. Stored(s[i])
    BY CopyOf
  <2>4. Grown(s[i], a) /\ Stored(a)
    BY <2>1, <2>3, RoutedGrown DEF Grown
  <2> HIDE DEF a, c, t
  <2>5. Grown(a, b) /\ Stored(b)
    BY <2>4, CancelledGrown DEF Grown
  <2> HIDE DEF b
  <2>6. Grown(b, r) /\ Stored(r)
    BY <2>1, <2>5, AssignedGrown DEF Grown
  <2> HIDE DEF r
  <2>7. Grown(s[i], r)
    BY <2>3, <2>4, <2>5, <2>6, GrownOn
  <2>8. Grown(r, Evidenced(r, in.evidence[i]))
    BY <2>6, EvidencedGrown
  <2> QED
    BY <2>2, <2>3, <2>7, <2>8, GrownOn
<1> HIDE DEF t
<1>3. AllGrown(s, t)
  BY <1>2 DEF AllGrown
<1>4. t \in Copies
  BY <1>1, <1>3, GrownCopy
<1> QED
  BY <1>3, <1>4 DEF t

\* The first of some interventions is one of them.
LEMMA IdsAreNumbers == ASSUME NEW S \in SUBSET Ids, S # {} PROVE Min(S) \in S
BY LeastOf, PolicyAssumption

\* The response to a tool event.
LEMMA GuidedGrown ==
    ASSUME NEW s \in Copies, NEW session, NEW chosen \in SUBSET Ids
    PROVE  Guided(s, session, chosen) \in Copies /\ AllGrown(s, Guided(s, session, chosen))
<1> DEFINE first == FirstTime(s, session, chosen)
           again == Again(s, session, chosen)
           repair == ToRepairer(s, session)
<1>s. \A i \in Ids : Stored(s[i])
  BY CopyOf
<1>1. /\ first \in SUBSET Ids /\ again \in SUBSET Ids /\ repair \in SUBSET Ids
      /\ \A i \in first : s[i].state = "queued"
      /\ \A i \in again : s[i].state = "delivered"
      /\ \A i \in repair : s[i].state = "repair_assigned"
  BY DEF FirstTime, Again, ToRepairer
<1>2. Guided(s, session, chosen) =
        IF first # {} THEN [s EXCEPT ![Min(first)] = Deliver(s[Min(first)])]
        ELSE IF again # {} THEN [s EXCEPT ![Min(again)] = Deliver(s[Min(again)])]
        ELSE IF repair # {} THEN [s EXCEPT ![Min(repair)] = Tell(s[Min(repair)])]
        ELSE s
  BY DEF Guided
<1> HIDE DEF first, again, repair
<1>3. \A i \in first \cup again : Grown(s[i], Deliver(s[i]))
  BY <1>s, <1>1, DeliverGrown
<1>4. \A i \in repair : Grown(s[i], Tell(s[i]))
  BY <1>s, <1>1, TellGrown
<1>5. CASE first # {}
  <2>1. PICK i \in first : i = Min(first)
    BY <1>1, <1>5, IdsAreNumbers
  <2>2. i \in Ids /\ Grown(s[i], Deliver(s[i]))
    BY <1>1, <1>3
  <2>3. [s EXCEPT ![i] = Deliver(s[i])] \in Copies
        /\ AllGrown(s, [s EXCEPT ![i] = Deliver(s[i])])
    BY <2>2, OneGrown
  <2> QED
    BY <1>2, <1>5, <2>1, <2>3
<1>6. CASE first = {} /\ again # {}
  <2>1. PICK i \in again : i = Min(again)
    BY <1>1, <1>6, IdsAreNumbers
  <2>2. i \in Ids /\ Grown(s[i], Deliver(s[i]))
    BY <1>1, <1>3
  <2>3. [s EXCEPT ![i] = Deliver(s[i])] \in Copies
        /\ AllGrown(s, [s EXCEPT ![i] = Deliver(s[i])])
    BY <2>2, OneGrown
  <2> QED
    BY <1>2, <1>6, <2>1, <2>3
<1>7. CASE first = {} /\ again = {} /\ repair # {}
  <2>1. PICK i \in repair : i = Min(repair)
    BY <1>1, <1>7, IdsAreNumbers
  <2>2. i \in Ids /\ Grown(s[i], Tell(s[i]))
    BY <1>1, <1>4
  <2>3. [s EXCEPT ![i] = Tell(s[i])] \in Copies /\ AllGrown(s, [s EXCEPT ![i] = Tell(s[i])])
    BY <2>2, OneGrown
  <2> QED
    BY <1>2, <1>7, <2>1, <2>3
<1>8. CASE first = {} /\ again = {} /\ repair = {}
  BY <1>2, <1>8, CopyGrown
<1> QED
  BY <1>5, <1>6, <1>7, <1>8

\* The first urgent one of some interventions, or the first, is one of them.
LEMMA FirstOf ==
    ASSUME NEW s, NEW S \in SUBSET Ids, S # {}, NEW U \in SUBSET S
    PROVE  (IF U # {} THEN Min(U) ELSE Min(S)) \in S
BY IdsAreNumbers

\* Every intervention of the session that has no probe is marked.
LEMMA MarkedGrown ==
    ASSUME NEW s \in Copies, NEW session
    PROVE Marked(s, session) \in Copies /\ AllGrown(s, Marked(s, session))
<1> DEFINE t == Marked(s, session)
<1>1. t = [i \in Ids |-> t[i]]
  BY DEF Marked
<1>2. \A i \in Ids : Grown(s[i], t[i])
  <2> SUFFICES ASSUME NEW i \in Ids PROVE Grown(s[i], t[i])
    OBVIOUS
  <2>1. Stored(s[i])
    BY CopyOf
  <2>2. \/ t[i] = s[i]
        \/ s[i].state \notin Closed /\ t[i] = [Move(s[i], s[i].state) EXCEPT !.marked = TRUE]
    BY DEF Marked
  <2> QED
    BY <2>1, <2>2, GrownSame, MarkGrown
<1> HIDE DEF t
<1>3. AllGrown(s, t)
  BY <1>2 DEF AllGrown
<1>4. t \in Copies
  BY <1>1, <1>3, GrownCopy
<1> QED
  BY <1>3, <1>4 DEF t

\* The response to a completion event.
LEMMA CompletedGrown ==
    ASSUME NEW s \in Copies, NEW session, NEW at \in Nat
    PROVE  Completed(s, session, at) \in Copies /\ AllGrown(s, Completed(s, session, at))
<1> DEFINE m == Marked(s, session)
           holds == Holds(m, session, at)
           blockers == Blockers(m, session)
           U == {i \in blockers : m[i].state \in Failed}
           b == IF U # {} THEN Min(U) ELSE Min(blockers)
<1>1. m \in Copies /\ AllGrown(s, m)
  BY MarkedGrown
<1>2. Completed(s, session, at) =
        IF holds # {} THEN [m EXCEPT ![Min(holds)] = Held(m[Min(holds)], at)]
        ELSE IF blockers # {} THEN [m EXCEPT ![b] = Decided(b, m[b], at)]
        ELSE m
  BY DEF Completed, First
<1> HIDE DEF m
<1>s. \A i \in Ids : Stored(m[i])
  BY <1>1, CopyOf
<1>3. holds \in SUBSET Ids /\ \A i \in holds : m[i].state = "acknowledged" /\ ~Overdue(m[i], at)
  BY DEF Holds
<1>4. blockers \in SUBSET Ids /\ \A i \in blockers : Blocking(m[i])
  BY DEF Blockers
<1>5. U \in SUBSET blockers
  OBVIOUS
<1> HIDE DEF holds, blockers, U
<1>6. CASE holds # {}
  <2>1. PICK i \in holds : i = Min(holds)
    BY <1>3, <1>6, IdsAreNumbers
  <2>2. Grown(m[i], Held(m[i], at))
    BY <1>s, <1>3, NotOverdue, HeldGrown
  <2>3. [m EXCEPT ![i] = Held(m[i], at)] \in Copies
        /\ AllGrown(m, [m EXCEPT ![i] = Held(m[i], at)])
    BY <1>1, <1>3, <2>2, OneGrown
  <2> QED
    BY <1>1, <1>2, <1>6, <2>1, <2>3, CopiesGrownOn
<1>7. CASE holds = {} /\ blockers # {}
  <2>1. PICK i \in blockers : i = b
    BY <1>4, <1>5, <1>7, FirstOf
  <2>2. Grown(m[i], Decided(i, m[i], at))
    BY <1>s, <1>4, DecidedGrown
  <2>3. [m EXCEPT ![i] = Decided(i, m[i], at)] \in Copies
        /\ AllGrown(m, [m EXCEPT ![i] = Decided(i, m[i], at)])
    BY <1>1, <1>4, <2>2, OneGrown
  <2> QED
    BY <1>1, <1>2, <1>7, <2>1, <2>3, CopiesGrownOn
<1>8. CASE holds = {} /\ blockers = {}
  BY <1>1, <1>2, <1>8
<1> QED
  BY <1>6, <1>7, <1>8

------------------------------------------------------------------------------
(* Generations.                                                            *)

\* A larger copy has the larger generation, and of the same generation there is one.
LEMMA TransitionsFinite == ASSUME NEW s \in Copies PROVE IsFiniteSet(Transitions(s))
<1> DEFINE of == [i \in Ids |-> {i} \X (1 .. s[i].n)]
           parts == {of[i] : i \in Ids}
<1>1. of \in Surjection(Ids, parts)
  BY DEF Surjection
<1>2. IsFiniteSet(Ids)
  BY PolicyAssumption
<1>3. IsFiniteSet(parts)
  BY <1>1, <1>2, FS_Surjection
<1>4. \A T \in parts : IsFiniteSet(T)
  <2> SUFFICES ASSUME NEW i \in Ids PROVE IsFiniteSet({i} \X (1 .. s[i].n))
    OBVIOUS
  <2>1. s[i].n \in Nat
    BY CopyOf
  <2>2. IsFiniteSet({i})
    BY FS_Singleton
  <2>3. IsFiniteSet(1 .. s[i].n)
    BY <2>1, FS_Interval
  <2> QED
    BY <2>2, <2>3, FS_Product
<1>5. IsFiniteSet(UNION parts)
  BY <1>3, <1>4, FS_UNION
<1>6. Transitions(s) = UNION parts
  BY DEF Transitions
<1> QED
  BY <1>5, <1>6

\* A generation is a number.
LEMMA GenIsNat == ASSUME NEW s \in Copies PROVE Gen(s) \in Nat
BY TransitionsFinite, FS_CardinalityType DEF Gen

\* Copies of the same generation that differ nowhere downwards have as many transitions
\* everywhere.
LEMMA GenGrows ==
    ASSUME NEW s \in Copies, NEW t \in Copies, \A i \in Ids : s[i].n <= t[i].n
    PROVE  Gen(s) <= Gen(t) /\ (Gen(s) = Gen(t) => \A i \in Ids : s[i].n = t[i].n)
<1>1. \A i \in Ids : s[i].n \in Nat /\ t[i].n \in Nat
  BY CopyOf
<1>2. Transitions(s) \subseteq Transitions(t)
  BY <1>1 DEF Transitions
<1>3. IsFiniteSet(Transitions(t))
  BY TransitionsFinite
<1>4. Gen(s) <= Gen(t) /\ (Gen(t) = Gen(s) => Transitions(t) = Transitions(s))
  BY <1>2, <1>3, FS_Subset DEF Gen
<1>5. ASSUME Transitions(t) = Transitions(s), NEW i \in Ids PROVE s[i].n = t[i].n
  <2>1. s[i].n \in Nat /\ t[i].n \in Nat /\ s[i].n <= t[i].n
    BY <1>1
  <2>2. \A k \in 1 .. t[i].n : <<i, k>> \in Transitions(t)
    BY DEF Transitions
  <2>3. \A k : <<i, k>> \in Transitions(s) => k \in 1 .. s[i].n
    BY DEF Transitions
  <2>4. \A k \in 1 .. t[i].n : k \in 1 .. s[i].n
    BY <1>5, <2>2, <2>3
  <2> QED
    BY <2>1, <2>4
<1> QED
  BY <1>4, <1>5

\* Growth that takes no generation changes nothing.
LEMMA SameGrown ==
    ASSUME NEW s \in Copies, NEW t \in Copies, AllGrown(s, t), Gen(t) <= Gen(s) PROVE t = s
<1>1. \A i \in Ids : s[i].n \in Nat /\ t[i].n \in Nat /\ t[i].n >= s[i].n
      /\ (t[i].n = s[i].n => t[i] = s[i])
  BY CopyOf DEF AllGrown, Grown
<1>2. \A i \in Ids : s[i].n <= t[i].n
  BY <1>1
<1>3. Gen(s) \in Nat /\ Gen(t) \in Nat
  BY GenIsNat
<1>4. Gen(s) = Gen(t)
  BY <1>2, <1>3, GenGrows
<1>5. \A i \in Ids : t[i] = s[i]
  BY <1>1, <1>2, <1>4, GenGrows
<1> QED
  BY <1>5, CopyOf

------------------------------------------------------------------------------
(* Advances by hooks.                                                      *)

\* Field by field, what ExtendedByHooks says.
LEMMA Extension ==
    ASSUME NEW b, Stored(b), NEW a, Stored(a), ExtendedByHooks(b, a), a # b
    PROVE  /\ b.state # "absent" /\ a.n > b.n
           /\ a.outage = b.outage + (a.n - b.n)
           /\ a.level = b.level /\ a.probe = b.probe /\ a.support = b.support
           /\ a.deliveries = b.deliveries
           /\ a.worker = b.worker /\ a.told = b.told /\ a.marked = b.marked /\ a.proof = b.proof
           /\ (b.state \notin Failed /\ a.state \in Failed) =>
                /\ a.state = "expired" /\ a.attempts = b.attempts + (a.n - b.n) - 1
                /\ (b.deadline # 0 \/ a.n = b.n + 1) => a.deadline = b.deadline
           /\ ~(b.state \notin Failed /\ a.state \in Failed) =>
                /\ a.state = IF b.state = "queued" THEN "delivered" ELSE b.state
                /\ a.attempts = b.attempts + (a.n - b.n)
                /\ b.deadline # 0 => a.deadline = b.deadline
<1> DEFINE added == a.n - b.n
           ended == b.state \notin Failed /\ a.state \in Failed
           blocked == IF ended THEN added - 1 ELSE added
           held == IF b.state = "queued" /\ blocked > 0 THEN "delivered" ELSE b.state
           st == IF ended THEN "expired" ELSE held
           k == b.n + added
           o == b.outage + added
           t == b.attempts + blocked
           d == IF b.deadline = 0 /\ blocked > 0 THEN a.deadline ELSE b.deadline
           c == [b EXCEPT !.state = st, !.n = k, !.outage = o, !.attempts = t, !.deadline = d]
<1>1. b \in Record /\ a \in Record /\ b.n \in Nat /\ a.n \in Nat /\ b.attempts \in Nat
      /\ b.outage \in Nat
      /\ b.deadline \in Nat /\ a.deadline \in Nat
  BY Fields
<1>2. b.state # "absent" /\ a.n > b.n /\ a = c
  BY DEF ExtendedByHooks
<1> HIDE DEF st, k, o, t, d
<1>3. /\ c.state = st /\ c.n = k /\ c.outage = o /\ c.attempts = t /\ c.deadline = d
      /\ c.level = b.level /\ c.probe = b.probe /\ c.support = b.support
      /\ c.deliveries = b.deliveries
      /\ c.worker = b.worker /\ c.told = b.told /\ c.marked = b.marked /\ c.proof = b.proof
  BY <1>1 DEF Record
<1> HIDE DEF c
<1>4. added \in Nat /\ added > 0
  BY <1>1, <1>2
<1>5. a.outage = b.outage + added
  BY <1>2, <1>3 DEF o
<1>6. ended => /\ a.state = "expired" /\ a.attempts = b.attempts + (added - 1)
               /\ (b.deadline # 0 \/ added = 1) => a.deadline = b.deadline
  BY <1>1, <1>2, <1>3, <1>4 DEF st, t, d
<1>7. ~ended => /\ a.state = IF b.state = "queued" THEN "delivered" ELSE b.state
                /\ a.attempts = b.attempts + added
                /\ b.deadline # 0 => a.deadline = b.deadline
  BY <1>1, <1>2, <1>3, <1>4 DEF st, t, d
<1>8. b.attempts + (added - 1) = b.attempts + (a.n - b.n) - 1 /\ (added = 1 <=> a.n = b.n + 1)
  BY <1>1
<1> HIDE DEF ended, blocked, held
<1> QED
  BY <1>2, <1>3, <1>5, <1>6, <1>7, <1>8 DEF ended

\* And what it takes to be an extension.
LEMMA Extends ==
    ASSUME NEW b, Stored(b), NEW a, Stored(a), b.state # "absent", a.n > b.n,
           a.outage = b.outage + (a.n - b.n),
           a.level = b.level, a.probe = b.probe, a.support = b.support,
              a.deliveries = b.deliveries,
           a.worker = b.worker, a.told = b.told, a.marked = b.marked, a.proof = b.proof,
           (b.state \notin Failed /\ a.state \in Failed) =>
             /\ a.state = "expired" /\ a.attempts = b.attempts + (a.n - b.n) - 1
             /\ (b.deadline # 0 \/ a.n = b.n + 1) => a.deadline = b.deadline,
           ~(b.state \notin Failed /\ a.state \in Failed) =>
             /\ a.state = IF b.state = "queued" THEN "delivered" ELSE b.state
             /\ a.attempts = b.attempts + (a.n - b.n)
             /\ b.deadline # 0 => a.deadline = b.deadline
    PROVE  ExtendedByHooks(b, a)
<1> DEFINE added == a.n - b.n
           ended == b.state \notin Failed /\ a.state \in Failed
           blocked == IF ended THEN added - 1 ELSE added
           held == IF b.state = "queued" /\ blocked > 0 THEN "delivered" ELSE b.state
           st == IF ended THEN "expired" ELSE held
           k == b.n + added
           o == b.outage + added
           t == b.attempts + blocked
           d == IF b.deadline = 0 /\ blocked > 0 THEN a.deadline ELSE b.deadline
           c == [b EXCEPT !.state = st, !.n = k, !.outage = o, !.attempts = t, !.deadline = d]
<1>1. b \in Record /\ a \in Record /\ b.n \in Nat /\ a.n \in Nat /\ b.attempts \in Nat
      /\ b.outage \in Nat
      /\ b.deadline \in Nat /\ a.deadline \in Nat
  BY Fields
<1>2. ExtendedByHooks(b, a) <=> (a = b \/ (b.state # "absent" /\ a.n > b.n /\ a = c))
  BY DEF ExtendedByHooks
<1>4. added \in Nat /\ added > 0 /\ a.n = k
  BY <1>1
<1>5. a.state = st /\ a.attempts = t /\ a.deadline = d /\ a.outage = o
  <2>1. CASE ended
    BY <1>1, <1>4, <2>1
  <2>2. CASE ~ended
    BY <1>1, <1>4, <2>2
  <2> QED
    BY <2>1, <2>2
<1> HIDE DEF st, k, o, t, d
<1>6. a = c
  <2>1. /\ DOMAIN c = DOMAIN b /\ c = [x \in DOMAIN b |-> c[x]]
        /\ DOMAIN b = {"state", "level", "probe", "support", "attempts", "deadline",
              "deliveries",
                       "worker", "told", "marked", "proof", "n", "outage"}
        /\ DOMAIN a = DOMAIN b /\ a = [x \in DOMAIN b |-> a[x]]
    BY <1>1 DEF Record
  <2>2. /\ c.state = st /\ c.n = k /\ c.outage = o /\ c.attempts = t /\ c.deadline = d
        /\ c.level = b.level /\ c.probe = b.probe /\ c.support = b.support
        /\ c.deliveries = b.deliveries
        /\ c.worker = b.worker /\ c.told = b.told /\ c.marked = b.marked /\ c.proof = b.proof
    BY <1>1 DEF Record
  <2> HIDE DEF c
  <2>3. \A x \in DOMAIN b : a[x] = c[x]
    BY <1>4, <1>5, <2>1, <2>2
  <2> QED
    BY <2>1, <2>3
<1> QED
  BY <1>2, <1>6

\* What hooks did, and did then, they did.
LEMMA ExtendsOn ==
    ASSUME NEW a, Stored(a), NEW b, Stored(b), NEW c, Stored(c), ExtendedByHooks(a, b),
           ExtendedByHooks(b, c)
    PROVE  ExtendedByHooks(a, c)
<1>1. CASE a = b \/ b = c
  BY <1>1
<1>2. CASE a # b /\ b # c
  <2>m. /\ a.n \in Nat /\ b.n \in Nat /\ c.n \in Nat /\ a.attempts \in Nat /\ b.attempts \in Nat
        /\ c.attempts \in Nat /\ a.outage \in Nat /\ b.outage \in Nat /\ c.outage \in Nat
        /\ a.deadline \in Nat /\ b.deadline \in Nat /\ c.deadline \in Nat
    BY Fields
  <2>1. /\ a.state # "absent" /\ b.n > a.n
        /\ b.outage = a.outage + (b.n - a.n)
        /\ b.level = a.level /\ b.probe = a.probe /\ b.support = a.support
        /\ b.deliveries = a.deliveries
        /\ b.worker = a.worker /\ b.told = a.told /\ b.marked = a.marked /\ b.proof = a.proof
        /\ (a.state \notin Failed /\ b.state \in Failed) =>
             /\ b.state = "expired" /\ b.attempts = a.attempts + (b.n - a.n) - 1
             /\ (a.deadline # 0 \/ b.n = a.n + 1) => b.deadline = a.deadline
        /\ ~(a.state \notin Failed /\ b.state \in Failed) =>
             /\ b.state = IF a.state = "queued" THEN "delivered" ELSE a.state
             /\ b.attempts = a.attempts + (b.n - a.n)
             /\ a.deadline # 0 => b.deadline = a.deadline
    BY <1>2, Extension
  <2>2. /\ c.n > b.n
        /\ c.outage = b.outage + (c.n - b.n)
        /\ c.level = b.level /\ c.probe = b.probe /\ c.support = b.support
        /\ c.deliveries = b.deliveries
        /\ c.worker = b.worker /\ c.told = b.told /\ c.marked = b.marked /\ c.proof = b.proof
        /\ (b.state \notin Failed /\ c.state \in Failed) =>
             /\ c.state = "expired" /\ c.attempts = b.attempts + (c.n - b.n) - 1
             /\ (b.deadline # 0 \/ c.n = b.n + 1) => c.deadline = b.deadline
        /\ ~(b.state \notin Failed /\ c.state \in Failed) =>
             /\ c.state = IF b.state = "queued" THEN "delivered" ELSE b.state
             /\ c.attempts = b.attempts + (c.n - b.n)
             /\ b.deadline # 0 => c.deadline = b.deadline
    BY <1>2, Extension
  <2>3. c.n > a.n /\ c.outage = a.outage + (c.n - a.n)
    BY <2>m, <2>1, <2>2
  <2>4. ~(c.n = a.n + 1)
    BY <2>m, <2>1, <2>2
  <2>5. (a.state \notin Failed /\ c.state \in Failed) =>
          /\ c.state = "expired" /\ c.attempts = a.attempts + (c.n - a.n) - 1
          /\ (a.deadline # 0 \/ c.n = a.n + 1) => c.deadline = a.deadline
    <3>1. CASE b.state \in Failed
      <4>1. b.state # "queued"
        BY <3>1 DEF Failed
      <4> QED
        BY <3>1, <4>1, <2>m, <2>1, <2>2, <2>4
    <3>2. CASE b.state \notin Failed
      BY <3>2, <2>m, <2>1, <2>2, <2>4
    <3> QED
      BY <3>1, <3>2
  <2>6. ~(a.state \notin Failed /\ c.state \in Failed) =>
          /\ c.state = IF a.state = "queued" THEN "delivered" ELSE a.state
          /\ c.attempts = a.attempts + (c.n - a.n)
          /\ a.deadline # 0 => c.deadline = a.deadline
    BY <2>m, <2>1, <2>2 DEF Failed
  <2> QED
    BY <2>1, <2>2, <2>3, <2>5, <2>6, Extends
<1> QED
  BY <1>1, <1>2

\* A hook that answers for the collector advances its blocker by one transition.
LEMMA HookMoves ==
    ASSUME NEW r, Stored(r), Blocking(r), NEW at \in Nat
    PROVE  ExtendedByHooks(r, OutageMove(r, at)) /\ Grown(r, OutageMove(r, at))
<1>m. /\ r \in Record /\ r.n \in Nat /\ r.attempts \in Nat /\ r.outage \in Nat
      /\ r.deadline \in Nat
      /\ r.state \in States \ {"absent"} /\ r.state \notin Nonblocking /\ HoldTime \in Nat
  BY Fields, PolicyAssumption DEF Blocking, Nonblocking
<1>1. CASE r.state \in Failed
  <2>1. OutageMove(r, at) = r
    BY <1>1 DEF OutageMove
  <2> QED
    BY <2>1, GrownSame DEF ExtendedByHooks
<1>2. CASE r.state \notin Failed /\ Overdue(r, at)
  <2> DEFINE v == Move(r, "expired")
             o == v.outage + 1
             a == [v EXCEPT !.outage = o]
  <2>1. OutageMove(r, at) = a
    BY <1>2 DEF OutageMove
  <2>2. /\ v \in Record /\ v.state = "expired" /\ v.n = r.n + 1 /\ v.attempts = r.attempts
        /\ v.outage = r.outage
        /\ v.level = r.level /\ v.deadline = r.deadline /\ v.deliveries = r.deliveries
        /\ v.worker = r.worker
        /\ v.proof = r.proof
    BY Moves DEF States
  <2>3. v.probe = r.probe /\ v.support = r.support /\ v.told = r.told /\ v.marked = r.marked
    BY <1>m DEF Move, Record
  <2> HIDE DEF v
  <2>4. o = r.outage + 1 /\ o \in Nat
    BY <1>m, <2>2
  <2> HIDE DEF o
  <2>5. /\ a \in Record /\ a.state = "expired" /\ a.n = r.n + 1 /\ a.attempts = r.attempts
        /\ a.outage = o
        /\ a.level = r.level /\ a.deadline = r.deadline /\ a.deliveries = r.deliveries
        /\ a.worker = r.worker
        /\ a.proof = r.proof /\ a.probe = r.probe /\ a.support = r.support /\ a.told = r.told
        /\ a.marked = r.marked
    BY <2>2, <2>3, <2>4 DEF Record
  <2> HIDE DEF a
  <2>6. Grown(r, a)
    BY <1>m, <1>2, <2>4, <2>5, OneMore DEF Onward, Failed, Nonblocking
  <2>7. a.n > r.n /\ a.outage = r.outage + (a.n - r.n)
        /\ a.attempts = r.attempts + (a.n - r.n) - 1
        /\ a.state \in Failed /\ Stored(a)
    BY <1>m, <2>4, <2>5, <2>6 DEF Failed, Grown
  <2>8. ExtendedByHooks(r, a)
    BY <1>m, <1>2, <2>5, <2>7, Extends
  <2> QED
    BY <2>1, <2>6, <2>8
<1>3. CASE r.state \notin Failed /\ ~Overdue(r, at)
  <2> DEFINE st == IF r.state = "queued" THEN "delivered" ELSE r.state
             u == [r EXCEPT !.state = st]
             v == Held(u, at)
             t == u.attempts + 1
             k == u.n + 1
             d == IF u.deadline = 0 THEN at + HoldTime ELSE u.deadline
             w == [u EXCEPT !.attempts = t, !.n = k, !.deadline = d]
             o == w.outage + 1
             a == [w EXCEPT !.outage = o]
  <2>0. (IF r.state = "queued" THEN [r EXCEPT !.state = "delivered"] ELSE r) = u
    BY <1>m DEF Record
  <2>1. OutageMove(r, at) = [v EXCEPT !.outage = v.outage + 1]
    BY <1>3, <2>0 DEF OutageMove
  <2>2. v = w
    BY DEF Held
  <2>s. st \in States \ (Failed \cup {"absent"}) /\ Onward(r.state, st)
    BY <1>m, <1>3 DEF States, Failed, Nonblocking, Onward
  <2> HIDE DEF v
  <2>e. OutageMove(r, at) = a
    BY <2>1, <2>2
  <2> HIDE DEF st
  <2>3. /\ u \in Record /\ u.state = st /\ u.n = r.n /\ u.attempts = r.attempts
        /\ u.outage = r.outage
        /\ u.level = r.level /\ u.deadline = r.deadline /\ u.deliveries = r.deliveries
        /\ u.worker = r.worker
        /\ u.proof = r.proof /\ u.probe = r.probe /\ u.support = r.support /\ u.told = r.told
        /\ u.marked = r.marked
    BY <1>m, <2>s DEF Record
  <2> HIDE DEF u
  <2>4. t = r.attempts + 1 /\ t \in 0..MaxAttempts /\ k = r.n + 1 /\ k \in Nat /\ d \in Nat
        /\ (r.deadline # 0 => d = r.deadline)
    BY <1>m, <1>3, <2>3, NotOverdue DEF MaxAttempts
  <2> HIDE DEF t, k, d
  <2>5. /\ w \in Record /\ w.state = st /\ w.n = k /\ w.attempts = t /\ w.outage = r.outage
        /\ w.level = r.level /\ w.deadline = d /\ w.deliveries = r.deliveries
        /\ w.worker = r.worker
        /\ w.proof = r.proof /\ w.probe = r.probe /\ w.support = r.support /\ w.told = r.told
        /\ w.marked = r.marked
    BY <2>3, <2>4 DEF Record
  <2> HIDE DEF w
  <2>6. o = r.outage + 1 /\ o \in Nat
    BY <1>m, <2>5
  <2> HIDE DEF o
  <2>7. /\ a \in Record /\ a.state = st /\ a.n = k /\ a.attempts = t /\ a.outage = o
        /\ a.level = r.level /\ a.deadline = d /\ a.deliveries = r.deliveries
        /\ a.worker = r.worker
        /\ a.proof = r.proof /\ a.probe = r.probe /\ a.support = r.support /\ a.told = r.told
        /\ a.marked = r.marked
    BY <2>5, <2>6 DEF Record
  <2> HIDE DEF a
  <2>8. a.n > r.n /\ a.attempts >= r.attempts /\ a.outage >= r.outage
    BY <1>m, <2>4, <2>6, <2>7
  <2>9. Grown(r, a)
    BY <1>m, <1>3, <2>s, <2>7, <2>8, OneMore
  <2>10. Stored(a)
    BY <2>9 DEF Grown
  <2>11. a.outage = r.outage + (a.n - r.n) /\ a.attempts = r.attempts + (a.n - r.n)
    BY <1>m, <2>4, <2>6, <2>7
  <2>12. ExtendedByHooks(r, a)
    BY <1>m, <1>3, <2>s, <2>4, <2>7, <2>8, <2>10, <2>11, Extends DEF st
  <2> QED
    BY <2>e, <2>9, <2>12
<1> QED
  BY <1>1, <1>2, <1>3

\* A hook that answers for the collector advances the latch by hooks alone.
LEMMA HookAdvances ==
    ASSUME NEW s \in Copies, NEW session, OutageCandidates(s, session) # {}, NEW at \in Nat
    PROVE  /\ OutageAdvanced(s, session, at) \in Copies
           /\ AllGrown(s, OutageAdvanced(s, session, at))
           /\ OutageAdvance(s, OutageAdvanced(s, session, at))
<1> DEFINE S == OutageCandidates(s, session)
           U == {i \in S : s[i].state \in Failed \/ Overdue(s[i], at)}
           b == IF U # {} THEN Min(U) ELSE Min(S)
<1>1. OutageAdvanced(s, session, at) = [s EXCEPT ![b] = OutageMove(s[b], at)]
  BY DEF OutageAdvanced, First
<1>2. S \in SUBSET Ids /\ \A i \in S : Blocking(s[i])
  BY DEF OutageCandidates, Blockers
<1>3. U \in SUBSET S /\ S # {}
  OBVIOUS
<1> HIDE DEF S, U
<1>4. PICK i \in S : i = b
  BY <1>2, <1>3, FirstOf
<1>5. ExtendedByHooks(s[i], OutageMove(s[i], at)) /\ Grown(s[i], OutageMove(s[i], at))
  BY <1>2, CopyOf, HookMoves
<1> DEFINE r == OutageMove(s[i], at)
           t == [s EXCEPT ![i] = r]
<1>6. OutageAdvanced(s, session, at) = t
  BY <1>1, <1>4
<1>7. t \in Copies /\ AllGrown(s, t)
  BY <1>2, <1>5, OneGrown
<1>8. t[i] = r /\ \A j \in Ids \ {i} : t[j] = s[j]
  BY <1>2, CopyOf
<1> HIDE DEF r, t
<1>9. \A j \in Ids : ExtendedByHooks(s[j], t[j])
  BY <1>5, <1>8 DEF ExtendedByHooks, r
<1> QED
  BY <1>6, <1>7, <1>9 DEF OutageAdvance

\* Advances by hooks add up.
LEMMA AdvanceOn ==
    ASSUME NEW a \in Copies, NEW b \in Copies, NEW c \in Copies, OutageAdvance(a, b),
           OutageAdvance(b, c)
    PROVE  OutageAdvance(a, c)
<1> SUFFICES ASSUME NEW i \in Ids PROVE ExtendedByHooks(a[i], c[i])
  BY DEF OutageAdvance
<1>1. Stored(a[i]) /\ Stored(b[i]) /\ Stored(c[i])
  BY CopyOf
<1>2. ExtendedByHooks(a[i], b[i]) /\ ExtendedByHooks(b[i], c[i])
  BY DEF OutageAdvance
<1> QED
  BY <1>1, <1>2, ExtendsOn

\* No advance is one.
LEMMA AdvanceSelf == ASSUME NEW s PROVE OutageAdvance(s, s)
BY DEF OutageAdvance, ExtendedByHooks

\* An advance of the same generation is none.
LEMMA AdvanceSame ==
    ASSUME NEW s \in Copies, NEW t \in Copies, OutageAdvance(s, t), Gen(t) = Gen(s) PROVE t = s
<1>1. \A i \in Ids : s[i].n \in Nat /\ t[i].n \in Nat
  BY CopyOf
<1>a. \A i \in Ids : t[i] = s[i] \/ t[i].n > s[i].n
  BY Zenon DEF OutageAdvance, ExtendedByHooks
<1>2. \A i \in Ids : s[i].n <= t[i].n /\ (s[i].n = t[i].n => t[i] = s[i])
  BY <1>1, <1>a
<1>3. \A i \in Ids : s[i].n = t[i].n
  BY <1>2, GenGrows
<1> QED
  BY <1>2, <1>3, CopyOf

------------------------------------------------------------------------------
(* States that one event can give.                                         *)

\* One transition of a response changes the state of a record as follows.
LEMMA MovedStates ==
    ASSUME NEW r, Stored(r), NEW at
    PROVE  /\ Deliver(r).state = "delivered" /\ Tell(r).state = r.state
           /\ [Move(r, r.state) EXCEPT !.marked = TRUE].state = r.state
           /\ Held(r, at).state = r.state /\ Held(Deliver(r), at).state = "delivered"
           /\ Held(Requested(r), at).state = "repair_requested"
           /\ Move(r, "quarantined").state = "quarantined"
           /\ Move(r, "expired").state = "expired"
<1>1. "state" \in DOMAIN r /\ "n" \in DOMAIN r /\ r.state \in States
  BY Fields DEF Record
<1>2. \A x, st : "state" \in DOMAIN x => "state" \in DOMAIN Move(x, st)
      /\ Move(x, st).state = st
  BY DEF Move
<1>3. \A x : "state" \in DOMAIN x => Held(x, at).state = x.state
  BY DEF Held
<1>4. \A x : "state" \in DOMAIN x => "state" \in DOMAIN Deliver(x)
      /\ Deliver(x).state = "delivered"
  BY <1>2 DEF Deliver
<1>5. Tell(r).state = r.state
  BY <1>1, <1>2 DEF Tell
<1>6. [Move(r, r.state) EXCEPT !.marked = TRUE].state = r.state
  BY <1>1, <1>2
<1>7. "state" \in DOMAIN Requested(r) /\ Requested(r).state = "repair_requested"
  BY <1>1, <1>2, <1>4 DEF Requested
<1> QED
  BY <1>1, <1>2, <1>3, <1>4, <1>5, <1>6, <1>7

\* The response to a tool event delivers or leaves states alone.
LEMMA GuidedStates ==
    ASSUME NEW s \in Copies, NEW session, NEW chosen, NEW j \in Ids
    PROVE  Guided(s, session, chosen)[j].state \in {s[j].state, "delivered"}
<1>1. DOMAIN s = Ids /\ Stored(s[j])
  BY CopyOf
<1>2. Deliver(s[j]).state = "delivered" /\ Tell(s[j]).state = s[j].state
  BY <1>1, MovedStates
<1>3. \/ Guided(s, session, chosen) = s
      \/ \E k : Guided(s, session, chosen) = [s EXCEPT ![k] = Deliver(s[k])]
      \/ \E k : Guided(s, session, chosen) = [s EXCEPT ![k] = Tell(s[k])]
  BY Zenon DEF Guided
<1> QED
  BY <1>1, <1>2, <1>3

\* The response to a completion event neither resolves nor assigns a repair.
LEMMA CompletedStates ==
    ASSUME NEW s \in Copies, NEW session, NEW at, NEW j \in Ids
    PROVE  Completed(s, session, at)[j].state
             \in {s[j].state, "delivered", "repair_requested", "expired", "quarantined"}
<1> DEFINE m == Marked(s, session)
<1>1. m \in Copies
  BY MarkedGrown
<1>2. m[j].state = s[j].state
  BY CopyOf, MovedStates DEF Marked
<1> HIDE DEF m
<1>3. DOMAIN m = Ids /\ Stored(m[j])
  BY <1>1, CopyOf
<1>4. Held(m[j], at).state = m[j].state
  BY <1>3, MovedStates
<1>5. Decided(j, m[j], at).state \in {m[j].state, "delivered", "repair_requested", "expired",
         "quarantined"}
  BY <1>3, MovedStates DEF Decided, Blocked
<1>6. \/ Completed(s, session, at) = m
      \/ \E k : Completed(s, session, at) = [m EXCEPT ![k] = Held(m[k], at)]
      \/ \E k : Completed(s, session, at) = [m EXCEPT ![k] = Decided(k, m[k], at)]
  BY Zenon DEF Completed, m
<1> QED
  BY <1>2, <1>3, <1>4, <1>5, <1>6

\* An intervention that is new to the event is at most queued or cancelled before the response.
LEMMA SettledStates ==
    ASSUME NEW s \in Copies, NEW in \in Inputs, NEW session, NEW completes, NEW j \in Ids,
           s[j].state = "absent"
    PROVE  Settle(s, in, session, completes)[j].state
             \in {"absent", "queued", "quarantined", "termination_acknowledged"}
<1> DEFINE f == in.finding[j]
           c == j \in in.cancelled
           r1 == Routed(s[j], f)
           r2 == Cancelled(r1, c)
           r3 == Assigned(r2, in.assigned[j])
           r4 == Evidenced(r3, in.evidence[j])
<1>1. Settle(s, in, session, completes)[j] \in {r3, r4}
  BY DEF Settle
<1>f. f \in Findings
  BY DEF Inputs
<1>2. Stored(s[j]) /\ Stored(r1)
  BY <1>f, CopyOf, RoutedGrown DEF Grown
<1>3. r1.state \in {"absent", "queued"}
  <2>1. f.level # "none" => Queued(f).state = "queued"
    BY DEF Queued, Unborn
  <2> QED
    BY <2>1 DEF Routed
<1> HIDE DEF f, c, r1
<1>4. r2.state \in {"absent", "queued", "quarantined"} /\ Stored(r2)
  <2>1. Stored(r2)
    BY <1>2, CancelledGrown DEF Grown
  <2>2. Move(r1, "quarantined").state = "quarantined"
    BY <1>2, MovedStates
  <2> QED
    BY <1>3, <2>1, <2>2 DEF Cancelled
<1> HIDE DEF r2
<1>5. r3 = r2
  BY <1>4 DEF Assigned
<1> HIDE DEF r3
<1>6. Move(r2, "termination_acknowledged").state = "termination_acknowledged"
  BY <1>4, Moves DEF States
<1>7. r4.state \in {"absent", "queued", "quarantined", "termination_acknowledged"}
  <2>1. CASE r2.state = "absent"
    BY <1>5, <2>1 DEF Evidenced, Failed, Closed
  <2>2. CASE r2.state = "queued"
    <3>1. Acknowledged(r2, in.evidence[j]) = r2
      BY <2>2 DEF Acknowledged
    <3>2. Corrected("queued", r2, in.evidence[j]) = r2
      BY DEF Corrected
    <3> QED
      BY <1>5, <2>2, <3>1, <3>2 DEF Evidenced, Failed, Closed, Nonblocking
  <2>3. CASE r2.state = "quarantined"
    BY <1>5, <1>6, <2>3 DEF Evidenced, Failed, Closed
  <2> QED
    BY <1>4, <2>1, <2>2, <2>3
<1> QED
  BY <1>1, <1>4, <1>5, <1>7

\* A whole tool event, of interventions that it finds absent.
LEMMA GuidedUnready ==
    ASSUME NEW b \in Copies, NEW in \in Inputs, NEW session, NEW chosen
    PROVE  /\ Unready(b, Settle(b, in, session, FALSE))
           /\ Unready(b, Guided(Settle(b, in, session, FALSE), session, chosen))
<1> DEFINE s == Settle(b, in, session, FALSE)
<1>1. s \in Copies
  BY SettleGrown
<1>2. \A j \in Ids : b[j].state = "absent" => s[j].state \in {"absent", "queued",
         "quarantined", "termination_acknowledged"}
  BY SettledStates
<1> HIDE DEF s
<1> QED
  BY <1>1, <1>2, GuidedStates DEF Unready, s

\* A whole completion event, of interventions that it finds absent.
LEMMA CompletedUnready ==
    ASSUME NEW b \in Copies, NEW in \in Inputs, NEW session, NEW at
    PROVE  Unready(b, Completed(Settle(b, in, session, TRUE), session, at))
<1> DEFINE s == Settle(b, in, session, TRUE)
<1>1. s \in Copies
  BY SettleGrown
<1>2. \A j \in Ids : b[j].state = "absent" => s[j].state \in {"absent", "queued",
         "quarantined", "termination_acknowledged"}
  BY SettledStates
<1> HIDE DEF s
<1> QED
  BY <1>1, <1>2, CompletedStates DEF Unready, s

------------------------------------------------------------------------------
(* The invariant.                                                          *)

\* A run starts in the invariant.
THEOREM RouterInit == Init => RouterIInv
<1> SUFFICES ASSUME Init PROVE RouterIInv
  OBVIOUS
<1>1. Typed
  <2>1. EmptyState \in Copies /\ 0 \in Nat /\ 0 \in 0..MaxTime /\ NoEvent \in Event
    BY EmptyCopy, RouterAssumption DEF NoEvent, Event
  <2>2. Idle \in [pc : {"idle", "commit"}, seen : Nat, next : Copies,
                  session : Sessions \cup {NoOne}, event : Event]
    BY <2>1 DEF Idle
  <2>3. inputs \in Inputs
    BY PolicyAssumption DEF Init, Inputs, Findings
  <2>4. pending \in [Sessions -> Seq(Event)]
        /\ \A m \in Sessions : Len(pending[m]) <= MaxPending[m]
    BY RouterAssumption DEF Init
  <2> QED
    BY <2>1, <2>2, <2>3, <2>4 DEF Init, Typed, Phases
<1>2. Covered
  <2>1. AllGrown(router, latch)
    BY EmptyCopy, CopyGrown DEF Init
  <2> QED
    BY <2>1 DEF Covered, Init, ExtendedByHooks
<1>3. Planning /\ TakenOver /\ Replays /\ Released
  BY DEF Init, Idle, Planning, TakenOver, Replays, Released
<1> QED
  BY <1>1, <1>2, <1>3 DEF RouterIInv

\* Steps that change neither the latch nor what the router knows.
LEMMA Quiet ==
    ASSUME RouterIInv, Typed',
           UNCHANGED <<latch, head, lock, durable, router, writer, ledgerDown, reviewDown,
              phase, alive>>,
           phase = "released" => UNCHANGED call
    PROVE  RouterIInv' /\ AllGrown(latch, latch')
<1>1. Covered'
  BY DEF RouterIInv, Covered, Steady, Intact
<1>2. Planning' /\ TakenOver'
  BY DEF RouterIInv, Planning, TakenOver, Follows, Steady, Intact
<1>3. Replays' /\ Released'
  BY DEF RouterIInv, Replays, Released, Intact
<1>4. AllGrown(latch, latch')
  BY CopyGrown DEF RouterIInv, Typed
<1> QED
  BY <1>1, <1>2, <1>3, <1>4 DEF RouterIInv

\* What the review pipeline hands over does not touch the state.
LEMMA ReviewStep == ASSUME RouterIInv, Review PROVE RouterIInv' /\ AllGrown(latch, latch')
<1>1. inputs' \in Inputs
  <2>0. inputs \in Inputs
    BY DEF RouterIInv, Typed
  <2> DEFINE F == [Ids -> Findings]
  <2>1. PICK i \in Ids : Report(i) \/ Extend(i) \/ Probe(i) \/ Bind(i) \/ Cancel(i)
        \/ AssignRepair(i)
    BY DEF Review
  <2>f. inputs.finding[i] \in Findings /\ inputs.finding \in [Ids -> Findings]
        /\ inputs.evidence[i] \in SUBSET Evidence
    BY <2>0 DEF Inputs
  <2>2. CASE Report(i)
    BY <2>0, <2>2, <2>f DEF Report, Inputs, Findings
  <2>3. CASE Extend(i)
    <3>1. inputs.finding[i].support + 1 \in 1..MaxSupport
      BY <2>3, <2>f, PolicyAssumption DEF Extend, Findings
    <3> QED
      BY <2>0, <2>3, <2>f, <3>1 DEF Extend, Inputs, Findings
  <2>4. CASE Probe(i)
    <3>1. PICK r \in Verdicts : inputs' = [inputs EXCEPT !.finding[i].level = r[1],
             !.finding[i].probe = r[2]]
      BY <2>4 DEF Probe
    <3>2. r[1] \in {"concern", "blocker"} /\ r[2] \in {"inconclusive", "confirmed"}
      BY RouterAssumption
    <3> QED
      BY <2>0, <2>f, <3>1, <3>2 DEF Inputs, Findings
  <2>5. CASE Bind(i)
    <3>1. PICK kind \in Sources \cap Evidence :
                 inputs' = [inputs EXCEPT !.evidence[i] = @ \cup {kind}]
      BY <2>5 DEF Bind
    <3> QED
      BY <2>0, <2>f, <3>1 DEF Inputs
  <2>6. CASE Cancel(i)
    BY <2>0, <2>6 DEF Cancel, Inputs
  <2>7. CASE AssignRepair(i)
    BY <2>0, <2>7 DEF AssignRepair, Inputs
  <2> QED
    BY <2>1, <2>2, <2>3, <2>4, <2>5, <2>6, <2>7
<1>2. UNCHANGED <<files, core, reviewDown, hooks, run>>
  BY DEF Review
<1>3. Typed'
  BY <1>1, <1>2 DEF RouterIInv, Typed, files, core, hooks, run
<1> QED
  BY <1>2, <1>3, Quiet DEF files, core, hooks, run

\* The review degrades: less is promised.
LEMMA ReviewFailsStep == ASSUME RouterIInv, ReviewFails
                         PROVE RouterIInv' /\ AllGrown(latch, latch')
<1>u. reviewDown' = TRUE /\ phase \in {"running", "stopping"}
      /\ UNCHANGED <<files, core, inputs, hooks, run>>
  BY DEF ReviewFails, Reviewing
<1>1. Typed'
  BY <1>u DEF RouterIInv, Typed, files, core, hooks, run
<1>2. Covered'
  BY <1>u DEF RouterIInv, Covered, Steady, Intact, files, core
<1>3. Planning' /\ TakenOver'
  BY <1>u DEF RouterIInv, Planning, TakenOver, Follows, Steady, Intact, files, core, run
<1>4. Replays' /\ Released'
  BY <1>u DEF RouterIInv, Replays, Released, files, core, run
<1>5. AllGrown(latch, latch')
  BY <1>u, CopyGrown DEF RouterIInv, Typed, files
<1> QED
  BY <1>1, <1>2, <1>3, <1>4, <1>5 DEF RouterIInv

\* What a degraded controller hands over is an input too.
LEMMA InputsGiven == ASSUME inputs \in Inputs PROVE GivenInputs \in Inputs
<1> DEFINE none == [i \in Ids |-> [level |-> "none", probe |-> "missing", support |-> 1]]
<1>1. none \in [Ids -> Findings]
  BY PolicyAssumption DEF Findings
<1>2. GivenInputs \in {inputs, [inputs EXCEPT !.finding = none]}
  BY DEF GivenInputs
<1> HIDE DEF none
<1> QED
  BY <1>1, <1>2 DEF Inputs

\* A delta carries one copy into the other.
LEMMA ReplayedTo ==
    ASSUME NEW b \in Copies, NEW a \in Copies PROVE Replayed(b, b, a) = a
<1>1. Replayed(b, b, a) = [i \in Ids |-> a[i]]
  BY DEF Replayed, Delta
<1> QED
  BY <1>1, CopyOf

\* Replaying a delta gives a copy, whatever it is replayed on.
LEMMA ReplayedCopy ==
    ASSUME NEW s \in Copies, NEW b \in Copies, NEW a \in Copies
    PROVE Replayed(s, b, a) \in Copies
BY CopyOf DEF Replayed, Copies, RouterState

\* The latch that the router may read is its state, advanced by hooks at most.
LEMMA ReadableAdvance == ASSUME Readable PROVE Intact /\ OutageAdvance(router, latch)
BY AdvanceSelf DEF Readable

\* The writer thread plans from the latch it reads.
LEMMA PlannedStep ==
    ASSUME RouterIInv, MayPlan, NEW next \in Copies, AllGrown(latch, next),
           Unready(latch, next), NEW m \in Sessions \cup {NoOne}, NEW e \in Event,
           Planned(next, m, e), Typed', UNCHANGED <<files, router, reviewDown, call, run>>
    PROVE  RouterIInv' /\ AllGrown(latch, latch')
<1>u. /\ writer' = [pc |-> "commit", seen |-> Gen(latch), next |-> next, session |-> m,
            event |-> e]
      /\ durable' = Replayed(durable, router, next) /\ ledgerDown' = ledgerDown /\ Readable
      /\ UNCHANGED <<latch, head, lock, router, reviewDown, call, alive, phase>>
  BY DEF Planned, files, run
<1>p. phase \in {"running", "stopping"} /\ writer.pc = "idle" /\ ~ledgerDown
  BY DEF MayPlan
<1>t. latch \in Copies /\ router \in Copies /\ durable \in Copies
  BY DEF RouterIInv, Typed
<1>w. writer'.pc = "commit" /\ writer'.seen = Gen(latch) /\ writer'.next = next
  BY <1>u
<1>r. OutageAdvance(router, latch) /\ AllGrown(router, latch)
  BY <1>u, ReadableAdvance DEF RouterIInv, Covered, Steady
<1>1. Covered'
  BY <1>u, <1>r DEF Covered, OutageAdvance
<1>2. Planning'
  <2>1. OutageAdvance(latch, latch) /\ AllGrown(latch, latch)
    BY <1>t, AdvanceSelf, CopyGrown
  <2> QED
    BY <1>u, <1>p, <1>t, <1>w, <1>r, <2>1 DEF Planning, Follows
<1>3. Replays'
  <2>1. durable = router
    BY <1>p DEF RouterIInv, Replays
  <2>2. durable' = next
    BY <1>u, <1>t, <2>1, ReplayedTo
  <2> QED
    BY <1>w, <2>2 DEF Replays
<1>4. TakenOver' /\ Released'
  BY <1>u, <1>p DEF TakenOver, Released
<1>5. AllGrown(latch, latch')
  BY <1>u, <1>t, CopyGrown
<1> QED
  BY <1>1, <1>2, <1>3, <1>4, <1>5 DEF RouterIInv

\* The ledger degrades.
LEMMA PlanFailsStep ==
    ASSUME RouterIInv, MayPlan, PlanFails, Typed',
           UNCHANGED <<files, router, reviewDown, call, run>>
    PROVE  RouterIInv' /\ AllGrown(latch, latch')
<1>u. /\ ledgerDown' = TRUE /\ writer.pc = "idle" /\ phase \in {"running", "stopping"}
      /\ UNCHANGED <<latch, head, lock, router, durable, writer, reviewDown, call, alive,
            phase>>
  BY DEF PlanFails, MayPlan, files, run
<1>1. Covered'
  BY <1>u DEF RouterIInv, Covered, Steady, Intact
<1>2. Planning' /\ TakenOver' /\ Replays' /\ Released'
  BY <1>u DEF Planning, TakenOver, Replays, Released
<1>3. AllGrown(latch, latch')
  BY <1>u, CopyGrown DEF RouterIInv, Typed
<1> QED
  BY <1>1, <1>2, <1>3 DEF RouterIInv

\* A tool event is planned.
LEMMA PlanToolStep ==
    ASSUME RouterIInv, NEW m \in Sessions \cup Workers, PlanTool(m)
    PROVE RouterIInv' /\ AllGrown(latch, latch')
<1>t. latch \in Copies /\ router \in Copies /\ durable \in Copies /\ inputs \in Inputs
  BY DEF RouterIInv, Typed
<1>u. MayPlan /\ UNCHANGED <<files, router, reviewDown, inputs, hooks, run>>
  BY DEF PlanTool
<1>v. UNCHANGED <<files, router, reviewDown, call, run>>
  BY <1>u DEF hooks
<1>1. CASE PlanFails
  <2>1. Typed'
    BY <1>1, <1>u DEF PlanFails, RouterIInv, Typed, files, hooks, run
  <2> QED
    BY <1>1, <1>u, <1>v, <2>1, PlanFailsStep
<1>2. CASE \E chosen \in SUBSET (IF reviewDown THEN {} ELSE Ids), note \in BOOLEAN :
             LET s == Settle(latch, GivenInputs, m, FALSE)
             IN  Planned(IF note THEN s ELSE Guided(s, m, chosen), NoOne, NoEvent)
  <2> DEFINE s == Settle(latch, GivenInputs, m, FALSE)
  <2>1. PICK chosen \in SUBSET Ids, note \in BOOLEAN :
               Planned(IF note THEN s ELSE Guided(s, m, chosen), NoOne, NoEvent)
    BY <1>2
  <2>2. s \in Copies /\ AllGrown(latch, s)
    BY <1>t, InputsGiven, SettleGrown
  <2> DEFINE next == IF note THEN s ELSE Guided(s, m, chosen)
  <2> HIDE DEF s
  <2>3. Guided(s, m, chosen) \in Copies /\ AllGrown(s, Guided(s, m, chosen))
    BY <2>2, GuidedGrown
  <2>4. next \in Copies /\ AllGrown(latch, next)
    BY <1>t, <2>2, <2>3, CopiesGrownOn
  <2>u. Unready(latch, next)
    BY <1>t, InputsGiven, GuidedUnready DEF s
  <2>5. Planned(next, NoOne, NoEvent)
    BY <2>1
  <2> HIDE DEF next
  <2>6. NoEvent \in Event
    BY RouterAssumption DEF NoEvent, Event
  <2>7. Gen(latch) \in Nat /\ durable' \in Copies
    BY <1>t, <2>4, <2>5, GenIsNat, ReplayedCopy DEF Planned
  <2>8. Typed'
    BY <1>u, <2>4, <2>5, <2>6, <2>7 DEF Planned, RouterIInv, Typed, files, hooks, run
  <2> QED
    BY <1>u, <1>v, <2>4, <2>u, <2>5, <2>6, <2>8, PlannedStep
<1> QED
  BY <1>1, <1>2 DEF PlanTool

\* Shortening or closing the events of a session.
LEMMA EventsOf ==
    ASSUME pending \in [Sessions -> Seq(Event)],
           \A k \in Sessions : Len(pending[k]) <= MaxPending[k],
           NEW m \in Sessions, NEW q \in Seq(Event), Len(q) <= MaxPending[m],
           pending' = [pending EXCEPT ![m] = q]
    PROVE  pending' \in [Sessions -> Seq(Event)]
           /\ \A k \in Sessions : Len(pending'[k]) <= MaxPending[k]
OBVIOUS

\* The event at the head of a queue leaves it.
LEMMA TailEvents ==
    ASSUME pending \in [Sessions -> Seq(Event)],
           \A k \in Sessions : Len(pending[k]) <= MaxPending[k],
           NEW m \in Sessions, pending[m] # <<>>, pending' = [pending EXCEPT ![m] = Tail(@)]
    PROVE  /\ pending' \in [Sessions -> Seq(Event)]
           /\ \A k \in Sessions : Len(pending'[k]) <= MaxPending[k]
           /\ Head(pending[m]) \in Event
<1> DEFINE q == Tail(pending[m])
<1>1. pending[m] \in Seq(Event) /\ Len(pending[m]) <= MaxPending[m] /\ MaxPending[m] \in Nat
  BY RouterAssumption
<1>2. q \in Seq(Event) /\ Len(q) <= MaxPending[m] /\ Head(pending[m]) \in Event
  BY <1>1
<1>3. pending' = [pending EXCEPT ![m] = q]
  OBVIOUS
<1> HIDE DEF q
<1> QED
  BY <1>2, <1>3, EventsOf

\* The events of a hook that no longer waits.
LEMMA ClosedEvents ==
    ASSUME NEW q \in Seq(Event)
    PROVE  /\ [k \in DOMAIN q |-> [q[k] EXCEPT !.open = FALSE]] \in Seq(Event)
           /\ Len([k \in DOMAIN q |-> [q[k] EXCEPT !.open = FALSE]]) = Len(q)
<1>1. \A k \in DOMAIN q : [q[k] EXCEPT !.open = FALSE] \in Event
  <2>1. \A k \in DOMAIN q : q[k] \in Event
    OBVIOUS
  <2>2. \A e \in Event : [e EXCEPT !.open = FALSE] \in Event
    BY DEF Event
  <2> QED
    BY <2>1, <2>2
<1> DEFINE c == [k \in 1..Len(q) |-> [q[k] EXCEPT !.open = FALSE]]
<1>2. [k \in DOMAIN q |-> [q[k] EXCEPT !.open = FALSE]] = c /\ Len(q) \in Nat
      /\ DOMAIN q = 1..Len(q)
  OBVIOUS
<1>3. c \in [1..Len(q) -> Event]
  BY <1>1, <1>2
<1>4. DOMAIN c = 1..Len(q)
  OBVIOUS
<1> HIDE DEF c
<1>5. c \in Seq(Event)
  BY <1>2, <1>3, SeqDef
<1>6. Len(c) \in Nat /\ DOMAIN c = 1..Len(c)
  BY <1>5, LenProperties
<1>7. Len(c) = Len(q)
  BY <1>2, <1>4, <1>6
<1> QED
  BY <1>2, <1>5, <1>7

\* A hook that no longer waits closes its events.
LEMMA GivenUp ==
    ASSUME Typed, NEW m \in Sessions, GiveUp(m)
    PROVE  /\ call' \in [Sessions -> {"none", "waiting", "late"}]
           /\ pending' \in [Sessions -> Seq(Event)]
           /\ \A k \in Sessions : Len(pending'[k]) <= MaxPending[k]
           /\ \A k \in Sessions : call'[k] = (IF k = m THEN "none" ELSE call[k])
<1> DEFINE q == [k \in DOMAIN pending[m] |-> [pending[m][k] EXCEPT !.open = FALSE]]
<1>1. call \in [Sessions -> {"none", "waiting", "late"}] /\ pending[m] \in Seq(Event)
      /\ Len(pending[m]) <= MaxPending[m]
  BY DEF Typed
<1>2. q \in Seq(Event) /\ Len(q) <= MaxPending[m]
  BY <1>1, ClosedEvents
<1>3. pending' = [pending EXCEPT ![m] = q] /\ call' = [call EXCEPT ![m] = "none"]
  BY DEF GiveUp
<1> HIDE DEF q
<1> QED
  BY <1>1, <1>2, <1>3, EventsOf DEF Typed

\* A completion event is planned.
LEMMA PlanCompletionStep ==
    ASSUME RouterIInv, NEW m \in Sessions, PlanCompletion(m)
    PROVE RouterIInv' /\ AllGrown(latch, latch')
<1> DEFINE e == Head(pending[m])
           s == Settle(latch, GivenInputs, m, TRUE)
           next == Completed(s, m, e.at)
<1>t. latch \in Copies /\ router \in Copies /\ durable \in Copies /\ inputs \in Inputs
  BY DEF RouterIInv, Typed
<1>u. MayPlan /\ UNCHANGED <<files, router, reviewDown, inputs, call, run>>
  BY DEF PlanCompletion
<1>v. UNCHANGED <<files, router, reviewDown, call, run>>
  BY <1>u
<1>p. pending' \in [Sessions -> Seq(Event)]
      /\ (\A k \in Sessions : Len(pending'[k]) <= MaxPending[k]) /\ e \in Event
  BY TailEvents DEF PlanCompletion, RouterIInv, Typed
<1>d. Planned(next, m, e) \/ PlanFails
  BY DEF PlanCompletion
<1> HIDE DEF e
<1>a. e.at \in Nat
  BY <1>p, RouterAssumption DEF Event
<1>1. CASE PlanFails
  <2>1. Typed'
    BY <1>1, <1>u, <1>p DEF PlanFails, RouterIInv, Typed, files, run
  <2> QED
    BY <1>1, <1>u, <1>v, <2>1, PlanFailsStep
<1>2. CASE Planned(next, m, e)
  <2>1. s \in Copies /\ AllGrown(latch, s)
    BY <1>t, InputsGiven, SettleGrown
  <2> HIDE DEF s
  <2>2. next \in Copies /\ AllGrown(s, next)
    BY <1>a, <2>1, CompletedGrown
  <2>u. Unready(latch, next)
    BY <1>t, InputsGiven, CompletedUnready DEF s
  <2> HIDE DEF next
  <2>3. AllGrown(latch, next)
    BY <1>t, <2>1, <2>2, CopiesGrownOn
  <2>4. Gen(latch) \in Nat /\ durable' \in Copies
    BY <1>t, <1>2, <2>2, GenIsNat, ReplayedCopy DEF Planned
  <2>5. Typed'
    BY <1>u, <1>p, <1>2, <2>2, <2>4 DEF Planned, RouterIInv, Typed, files, run
  <2> QED
    BY <1>u, <1>v, <1>p, <1>2, <2>2, <2>u, <2>3, <2>5, PlannedStep
<1> QED
  BY <1>d, <1>1, <1>2

\* A degraded ledger rejects an event.
LEMMA RejectStep ==
    ASSUME RouterIInv, NEW m \in Sessions, Reject(m)
    PROVE RouterIInv' /\ AllGrown(latch, latch')
<1>1. pending' \in [Sessions -> Seq(Event)]
      /\ \A k \in Sessions : Len(pending'[k]) <= MaxPending[k]
  BY TailEvents DEF Reject, RouterIInv, Typed
<1>2. UNCHANGED <<files, core, reviewDown, inputs, call, run>>
  BY DEF Reject
<1>3. Typed'
  BY <1>1, <1>2 DEF RouterIInv, Typed, files, core, run
<1> QED
  BY <1>2, <1>3, Quiet DEF files, core, run

\* A session tries to stop.
LEMMA StopStep ==
    ASSUME RouterIInv, NEW m \in Sessions, Stop(m) PROVE RouterIInv' /\ AllGrown(latch, latch')
<1>2. UNCHANGED <<files, core, reviewDown, inputs, run>> /\ phase = "running"
      /\ call' = [call EXCEPT ![m] = "waiting"]
  BY DEF Stop
<1>1. pending' \in [Sessions -> Seq(Event)]
      /\ \A k \in Sessions : Len(pending'[k]) <= MaxPending[k]
  <2>1. pending[m] \in Seq(Event) /\ now \in 0..MaxTime
    BY DEF RouterIInv, Typed
  <2> DEFINE q == Append(pending[m], [at |-> now, open |-> TRUE])
  <2>2. q \in Seq(Event) /\ Len(q) = Len(pending[m]) + 1
    BY <2>1 DEF Event
  <2>3. UNCHANGED pending
        \/ (Len(pending[m]) < MaxPending[m] /\ pending' = [pending EXCEPT ![m] = q])
    BY DEF Stop
  <2> HIDE DEF q
  <2>4. CASE UNCHANGED pending
    BY <2>4 DEF RouterIInv, Typed
  <2>5. CASE Len(pending[m]) < MaxPending[m] /\ pending' = [pending EXCEPT ![m] = q]
    <3>1. Len(q) <= MaxPending[m]
      BY <2>1, <2>2, <2>5, RouterAssumption
    <3> QED
      BY <2>2, <2>5, <3>1, EventsOf DEF RouterIInv, Typed
  <2> QED
    BY <2>3, <2>4, <2>5
<1>3. Typed'
  BY <1>1, <1>2 DEF RouterIInv, Typed, files, core, run
<1> QED
  BY <1>2, <1>3, Quiet DEF files, core, run

\* A hook blocks with nothing written.
LEMMA UnverifiedStep ==
    ASSUME RouterIInv, NEW m \in Sessions, Unverified(m)
    PROVE RouterIInv' /\ AllGrown(latch, latch')
<1>1. GiveUp(m) /\ UNCHANGED <<files, core, reviewDown, inputs, run>> /\ call[m] # "none"
  BY DEF Unverified
<1>2. /\ call' \in [Sessions -> {"none", "waiting", "late"}]
      /\ pending' \in [Sessions -> Seq(Event)]
      /\ \A k \in Sessions : Len(pending'[k]) <= MaxPending[k]
  BY <1>1, GivenUp DEF RouterIInv
<1>3. Typed'
  BY <1>1, <1>2 DEF RouterIInv, Typed, files, core, run
<1>4. phase # "released"
  BY <1>1 DEF RouterIInv, Released
<1> QED
  BY <1>1, <1>3, <1>4, Quiet DEF files, core, run

\* A hook's advance follows whatever the latch followed.
LEMMA FallbackStep ==
    ASSUME RouterIInv, NEW m \in Sessions, Fallback(m)
    PROVE RouterIInv' /\ AllGrown(latch, latch')
<1>u. /\ call[m] # "none" /\ Intact /\ OutageCandidates(latch, m) # {}
      /\ latch' = OutageAdvanced(latch, m, now)
      /\ lock' = m /\ UNCHANGED <<head, core, reviewDown, inputs, hooks, run>>
  BY DEF Fallback
<1>t. latch \in Copies /\ router \in Copies /\ durable \in Copies /\ now \in Nat
  BY RouterAssumption DEF RouterIInv, Typed
<1>1. latch' \in Copies /\ AllGrown(latch, latch') /\ OutageAdvance(latch, latch')
  BY <1>u, <1>t, HookAdvances
<1>2. Typed'
  BY <1>u, <1>1 DEF RouterIInv, Typed, core, hooks, run
<1>3. phase # "released"
  BY <1>u DEF RouterIInv, Released
<1>4. Covered'
  <2>g. AllGrown(router, latch) /\ Steady
    BY <1>u DEF RouterIInv, Covered, Steady
  <2>h. AllGrown(router, latch')
    BY <1>t, <1>1, <2>g, CopiesGrownOn
  <2> SUFFICES ASSUME NEW i \in Ids
               PROVE  \/ ExtendedByHooks(router[i], latch'[i])
                      \/ (ledgerDown \/ reviewDown) /\ ExtendedByHooks(durable[i], latch'[i])
    BY <1>u, <2>h DEF Covered, core
  <2>1. \/ ExtendedByHooks(router[i], latch[i])
        \/ (ledgerDown \/ reviewDown) /\ ExtendedByHooks(durable[i], latch[i])
    BY <1>u DEF RouterIInv, Covered, Steady
  <2>2. Stored(router[i]) /\ Stored(durable[i]) /\ Stored(latch[i]) /\ Stored(latch'[i])
        /\ ExtendedByHooks(latch[i], latch'[i])
    BY <1>t, <1>1, CopyOf DEF OutageAdvance
  <2>3. CASE ExtendedByHooks(router[i], latch[i])
    BY <2>2, <2>3, ExtendsOn
  <2>4. CASE (ledgerDown \/ reviewDown) /\ ExtendedByHooks(durable[i], latch[i])
    BY <2>2, <2>4, ExtendsOn
  <2> QED
    BY <2>1, <2>3, <2>4
<1>f. \A s \in Copies : Follows(s) => OutageAdvance(s, latch') /\ AllGrown(s, latch')
  BY <1>u, <1>t, <1>1, AdvanceOn, CopiesGrownOn DEF Follows, Steady
<1>5. Planning'
  <2> SUFFICES ASSUME writer.pc = "commit" PROVE Planning'
    BY <1>u DEF Planning, core
  <2>1. PICK base \in Copies : /\ Gen(base) = writer.seen /\ OutageAdvance(router, base)
                               /\ AllGrown(router, base)
                               /\ AllGrown(base, writer.next) /\ Unready(base, writer.next)
                               /\ Follows(base)
    BY DEF RouterIInv, Planning
  <2>2. ~ledgerDown /\ phase \in {"running", "stopping"}
    BY DEF RouterIInv, Planning
  <2>3. OutageAdvance(base, latch') /\ AllGrown(base, latch')
    BY <1>f, <2>1
  <2> QED
    BY <1>u, <2>1, <2>2, <2>3 DEF Planning, Follows, core, run
<1>6. TakenOver'
  BY <1>u, <1>t, <1>f DEF RouterIInv, TakenOver, Follows, core, run
<1>7. Replays' /\ Released'
  BY <1>u, <1>3 DEF RouterIInv, Replays, Released, core, run
<1> QED
  BY <1>1, <1>2, <1>4, <1>5, <1>6, <1>7 DEF RouterIInv

\* The hook replaces the head: its advance is whole.
LEMMA FallbackEndsStep ==
    ASSUME RouterIInv, NEW m \in Sessions, FallbackEnds(m)
    PROVE RouterIInv' /\ AllGrown(latch, latch')
<1>u. lock = m /\ head' = latch /\ lock' = NoOne /\ GiveUp(m)
      /\ UNCHANGED <<latch, core, reviewDown, inputs, run>>
  BY DEF FallbackEnds
<1>s. Steady
  BY <1>u, RouterAssumption DEF Steady
<1>2. /\ call' \in [Sessions -> {"none", "waiting", "late"}]
      /\ pending' \in [Sessions -> Seq(Event)]
      /\ \A k \in Sessions : Len(pending'[k]) <= MaxPending[k]
      /\ \A k \in Sessions : call'[k] = (IF k = m THEN "none" ELSE call[k])
  BY <1>u, GivenUp DEF RouterIInv
<1>3. Typed'
  BY <1>u, <1>2 DEF RouterIInv, Typed, core, run
<1>4. Covered'
  BY <1>u, <1>s DEF RouterIInv, Covered, core
<1>5. Planning' /\ TakenOver'
  BY <1>u, <1>s DEF RouterIInv, Planning, TakenOver, Follows, core, run
<1>6. Replays'
  BY <1>u DEF RouterIInv, Replays, core, run
<1>7. Released'
  BY <1>u, <1>2 DEF RouterIInv, Released, Intact, core, run
<1>8. AllGrown(latch, latch')
  BY <1>u, CopyGrown DEF RouterIInv, Typed
<1> QED
  BY <1>3, <1>4, <1>5, <1>6, <1>7, <1>8 DEF RouterIInv

\* The lock can go away, and with it the last hope of a latch whose files differ.
LEMMA Unlocked ==
    ASSUME RouterIInv, Typed',
           UNCHANGED <<latch, head, durable, router, writer, ledgerDown, reviewDown>>,
           lock' \in {lock, NoOne}, phase' = phase
           \/ (phase = "running" /\ phase' = "stopping"),
           phase # "released"
    PROVE  RouterIInv' /\ AllGrown(latch, latch')
<1>s. Steady' => Steady
  BY DEF Steady, Intact
<1>p. phase' # "released"
  OBVIOUS
<1>1. Covered'
  BY <1>s DEF RouterIInv, Covered
<1>2. Planning' /\ TakenOver'
  BY <1>s DEF RouterIInv, Planning, TakenOver, Follows
<1>3. Replays' /\ Released'
  BY <1>p DEF RouterIInv, Replays, Released
<1>4. AllGrown(latch, latch')
  BY CopyGrown DEF RouterIInv, Typed
<1> QED
  BY <1>1, <1>2, <1>3, <1>4 DEF RouterIInv

\* The hook is killed, maybe between the two files.
LEMMA HookKilledStep ==
    ASSUME RouterIInv, NEW m \in Sessions, HookKilled(m)
    PROVE RouterIInv' /\ AllGrown(latch, latch')
<1>u. /\ call[m] # "none" /\ lock' \in {lock, NoOne} /\ GiveUp(m)
      /\ UNCHANGED <<latch, head, core, reviewDown, inputs, run>>
  BY DEF HookKilled
<1>2. /\ call' \in [Sessions -> {"none", "waiting", "late"}]
      /\ pending' \in [Sessions -> Seq(Event)]
      /\ \A k \in Sessions : Len(pending'[k]) <= MaxPending[k]
  BY <1>u, GivenUp DEF RouterIInv
<1>3. Typed'
  BY <1>u, <1>2 DEF RouterIInv, Typed, core, run
<1>4. phase # "released"
  BY <1>u DEF RouterIInv, Released
<1> QED
  BY <1>u, <1>3, <1>4, Unlocked DEF core, run

\* The processes of the Mission are stopped.
LEMMA EndsStep == ASSUME RouterIInv, Ends PROVE RouterIInv' /\ AllGrown(latch, latch')
<1>u. /\ phase = "running" /\ phase' = "stopping" /\ alive' \in BOOLEAN
      /\ UNCHANGED <<latch, head, core, reviewDown, inputs, now>>
  BY DEF Ends
<1>1. lock' \in {lock, NoOne}
  BY DEF Ends
<1>2. /\ call' \in [Sessions -> {"none", "waiting", "late"}]
      /\ pending' \in [Sessions -> Seq(Event)]
      /\ \A k \in Sessions : Len(pending'[k]) <= MaxPending[k]
  <2>1. CASE alive'
    BY <2>1 DEF Ends, RouterIInv, Typed, hooks
  <2>2. CASE ~alive'
    <3>1. /\ call' = [m \in Sessions |-> "none"]
          /\ pending' = [m \in Sessions |->
                [k \in DOMAIN pending[m] |-> [pending[m][k] EXCEPT !.open = FALSE]]]
      BY <2>2 DEF Ends
    <3>2. \A m \in Sessions : pending[m] \in Seq(Event) /\ Len(pending[m]) <= MaxPending[m]
      BY DEF RouterIInv, Typed
    <3>3. \A m \in Sessions :
            /\ [k \in DOMAIN pending[m] |-> [pending[m][k] EXCEPT !.open = FALSE]]
                  \in Seq(Event)
            /\ Len([k \in DOMAIN pending[m] |-> [pending[m][k] EXCEPT !.open = FALSE]])
                  <= MaxPending[m]
      BY <3>2, ClosedEvents
    <3> QED
      BY <3>1, <3>3
  <2> QED
    BY <2>1, <2>2, <1>u
<1>3. Typed'
  BY <1>u, <1>1, <1>2 DEF RouterIInv, Typed, core, Phases
<1> QED
  BY <1>u, <1>1, <1>3, Unlocked DEF core

\* The clock.
LEMMA TickStep == ASSUME RouterIInv, Tick PROVE RouterIInv' /\ AllGrown(latch, latch')
<1>1. now' \in 0..MaxTime /\ UNCHANGED <<files, core, reviewDown, inputs, hooks, alive, phase>>
  BY RouterAssumption DEF Tick, RouterIInv, Typed
<1>2. Typed'
  BY <1>1 DEF RouterIInv, Typed, files, core, hooks
<1> QED
  BY <1>1, <1>2, Quiet DEF files, core, hooks

\* A commit that is not stale writes over exactly the latch that the writer planned from.
LEMMA PlannedFrom ==
    ASSUME RouterIInv, writer.pc = "commit"
    PROVE  \E base \in Copies :
              /\ Gen(base) = writer.seen /\ OutageAdvance(router, base)
              /\ AllGrown(router, base)
              /\ AllGrown(base, writer.next) /\ Unready(base, writer.next) /\ Follows(base)
              /\ (~Stale => latch = base) /\ (Unchanged => writer.next = base)
<1>1. PICK base \in Copies : /\ Gen(base) = writer.seen /\ OutageAdvance(router, base)
                             /\ AllGrown(router, base)
                             /\ AllGrown(base, writer.next) /\ Unready(base, writer.next)
                             /\ Follows(base)
  BY DEF RouterIInv, Planning
<1>t. latch \in Copies /\ writer.next \in Copies
  BY DEF RouterIInv, Typed
<1>2. ~Stale => latch = base
  BY <1>1, <1>t, AdvanceSame DEF Stale, Follows, Steady
<1>3. Unchanged => writer.next = base
  BY <1>1, <1>t, SameGrown DEF Unchanged
<1> QED
  BY <1>1, <1>2, <1>3

\* The commit gives router and latch the planned state, or finds nothing to write.
LEMMA CommitStep == ASSUME RouterIInv, Commit PROVE RouterIInv' /\ AllGrown(latch, latch')
<1>u. /\ writer.pc = "commit" /\ router' = writer.next /\ writer' = Idle
      /\ UNCHANGED <<durable, ledgerDown, reviewDown, inputs, pending, run>>
  BY DEF Commit
<1>b. PICK base \in Copies : 
              /\ Gen(base) = writer.seen /\ OutageAdvance(router, base)
              /\ AllGrown(router, base)
              /\ AllGrown(base, writer.next) /\ Unready(base, writer.next) /\ Follows(base)
              /\ (~Stale => latch = base) /\ (Unchanged => writer.next = base)
  BY <1>u, PlannedFrom
<1>t. latch \in Copies /\ writer.next \in Copies /\ head \in Copies
  BY DEF RouterIInv, Typed
<1>p. ~ledgerDown /\ phase \in {"running", "stopping"}
  BY <1>u DEF RouterIInv, Planning
<1>c. call' \in [Sessions -> {"none", "waiting", "late"}]
  BY DEF Commit, Answer, RouterIInv, Typed
<1>i. writer' \in [pc : {"idle", "commit"}, seen : Nat, next : Copies,
                   session : Sessions \cup {NoOne}, event : Event] /\ writer'.pc = "idle"
  BY <1>u, EmptyCopy, RouterAssumption DEF Idle, NoEvent, Event
<1>f. lock' = lock /\ latch' \in Copies /\ head' \in Copies /\ AllGrown(latch, latch')
      /\ (Steady' => OutageAdvance(router', latch') /\ AllGrown(router', latch'))
  <2>1. CASE Unchanged /\ UNCHANGED files
    <3>1. Steady' => Steady
      BY <2>1 DEF Steady, Intact, files
    <3> QED
      BY <1>u, <1>b, <1>t, <2>1, <3>1, CopyGrown DEF files, Follows
  <2>2. CASE ~Unchanged /\ lock = NoOne /\ ~Stale /\ WriteLatch(writer.next)
    <3>1. latch = base /\ latch' = writer.next /\ head' = writer.next /\ lock' = lock
      BY <1>b, <2>2 DEF WriteLatch
    <3>2. OutageAdvance(router', latch') /\ AllGrown(router', latch')
      BY <1>u, <1>t, <3>1, AdvanceSelf, CopyGrown
    <3> QED
      BY <1>b, <1>t, <3>1, <3>2
  <2> QED
    BY <2>1, <2>2 DEF Commit
<1>1. Typed'
  BY <1>u, <1>t, <1>c, <1>i, <1>f DEF RouterIInv, Typed, run
<1>2. Covered'
  BY <1>f DEF Covered, OutageAdvance
<1>3. Planning' /\ TakenOver' /\ Released'
  BY <1>u, <1>p, <1>i DEF Planning, TakenOver, Released, run
<1>4. Replays'
  BY <1>u, <1>p, <1>i DEF RouterIInv, Replays, run
<1> QED
  BY <1>f, <1>1, <1>2, <1>3, <1>4 DEF RouterIInv

\* A write that fails leaves a state that both hooks and router can tell, or none.
LEMMA Torn ==
    ASSUME NEW s, TornWrite(s), Intact
    PROVE  lock' = lock /\ latch' \in {latch, s} /\ head' \in {latch, s} /\ (Steady' => Intact')
BY DEF TornWrite, Intact, Steady

\* A commit that fails leaves the old latch, the durable one, or none that is whole.
LEMMA CommitFailsStep == ASSUME RouterIInv, CommitFails
                         PROVE RouterIInv' /\ AllGrown(latch, latch')
<1>u. /\ writer.pc = "commit" /\ ledgerDown' = TRUE /\ writer' = Idle
      /\ UNCHANGED <<durable, router, reviewDown, inputs, hooks, run>>
  BY DEF CommitFails
<1>b. PICK base \in Copies : 
              /\ Gen(base) = writer.seen /\ OutageAdvance(router, base)
              /\ AllGrown(router, base)
              /\ AllGrown(base, writer.next) /\ Unready(base, writer.next) /\ Follows(base)
              /\ (~Stale => latch = base) /\ (Unchanged => writer.next = base)
  BY <1>u, PlannedFrom
<1>t. latch \in Copies /\ writer.next \in Copies /\ head \in Copies
  BY DEF RouterIInv, Typed
<1>p. ~ledgerDown /\ phase \in {"running", "stopping"}
  BY <1>u DEF RouterIInv, Planning
<1>i. writer' \in [pc : {"idle", "commit"}, seen : Nat, next : Copies,
                   session : Sessions \cup {NoOne}, event : Event] /\ writer'.pc = "idle"
  BY <1>u, EmptyCopy, RouterAssumption DEF Idle, NoEvent, Event
<1>o. router \in Copies
  BY DEF RouterIInv, Typed
<1>f. lock' = lock /\ latch' \in Copies /\ head' \in Copies /\ AllGrown(latch, latch')
      /\ Covered'
  <2>1. CASE (lock # NoOne \/ Stale) /\ UNCHANGED files
    <3>1. Covered'
      BY <1>u, <2>1 DEF RouterIInv, Covered, Steady, Intact, files
    <3> QED
      BY <1>t, <2>1, <3>1, CopyGrown DEF files
  <2>2. CASE ~Stale /\ TornWrite(writer.next)
    <3>1. latch = base /\ Intact
      BY <1>b, <2>2 DEF Stale
    <3>2. lock' = lock /\ latch' \in {latch, writer.next} /\ head' \in {latch, writer.next}
          /\ (Steady' => Intact')
      BY <2>2, <3>1, Torn
    <3>3. AllGrown(latch, latch')
      BY <1>b, <1>t, <3>1, <3>2, CopyGrown
    <3>4. durable = writer.next
      BY <1>u, <1>p DEF RouterIInv, Replays
    <3>5. CASE latch' = latch
      <4>1. \A i \in Ids : ExtendedByHooks(router'[i], latch'[i])
        BY <1>u, <1>b, <3>1, <3>5 DEF OutageAdvance
      <4>2. AllGrown(router', latch')
        BY <1>u, <1>b, <3>1, <3>5
      <4> QED
        BY <3>2, <3>3, <1>t, <4>1, <4>2 DEF Covered
    <3>6. CASE latch' = writer.next
      <4>1. durable' = latch' /\ ledgerDown'
        BY <1>u, <3>4, <3>6
      <4>2. \A i \in Ids : ExtendedByHooks(durable'[i], latch'[i])
        BY <4>1 DEF ExtendedByHooks
      <4>3. AllGrown(router', latch')
        BY <1>u, <1>b, <3>6, <1>o, CopiesGrownOn
      <4> QED
        BY <3>2, <3>3, <1>t, <4>1, <4>2, <4>3 DEF Covered
    <3> QED
      BY <1>t, <3>2, <3>3, <3>5, <3>6
  <2> QED
    BY <2>1, <2>2 DEF CommitFails
<1>1. Typed'
  BY <1>u, <1>t, <1>i, <1>f DEF RouterIInv, Typed, hooks, run
<1>3. Planning' /\ TakenOver' /\ Released' /\ Replays'
  BY <1>u, <1>p, <1>i DEF Planning, TakenOver, Released, Replays, run
<1> QED
  BY <1>f, <1>1, <1>3 DEF RouterIInv

\* The ledger is drained.
LEMMA DrainStep == ASSUME RouterIInv, Drain PROVE RouterIInv' /\ AllGrown(latch, latch')
<1>u. /\ phase = "stopping" /\ phase' = "drained" /\ writer.pc = "idle"
      /\ UNCHANGED <<files, core, reviewDown, inputs, hooks, alive, now>>
  BY DEF Drain
<1>1. Typed'
  BY <1>u DEF RouterIInv, Typed, files, core, hooks, Phases
<1>2. Covered'
  BY <1>u DEF RouterIInv, Covered, Steady, Intact, files, core
<1>3. Planning' /\ TakenOver' /\ Released'
  BY <1>u DEF Planning, TakenOver, Released, core
<1>4. Replays'
  BY <1>u DEF RouterIInv, Replays, core
<1>5. AllGrown(latch, latch')
  BY <1>u, CopyGrown DEF RouterIInv, Typed, files
<1> QED
  BY <1>1, <1>2, <1>3, <1>4, <1>5 DEF RouterIInv

\* The writer thread is at rest once the run is drained.
LEMMA Rested == ASSUME RouterIInv, phase \notin {"running", "stopping"} PROVE writer.pc = "idle"
BY DEF RouterIInv, Typed, Planning

\* The router takes over what the hooks left.
LEMMA TakeOutageStep == ASSUME RouterIInv, TakeOutage
                        PROVE RouterIInv' /\ AllGrown(latch, latch')
<1>u. /\ phase = "drained" /\ phase' = "reconciled"
      /\ durable' = Replayed(durable, router, latch) /\ router' = latch
      /\ UNCHANGED <<files, writer, ledgerDown, reviewDown, inputs, hooks, alive, now>>
  BY DEF TakeOutage
<1>t. latch \in Copies /\ router \in Copies /\ durable \in Copies
  BY DEF RouterIInv, Typed
<1>i. writer.pc = "idle"
  BY <1>u, Rested
<1>1. Typed'
  <2>1. durable' \in Copies
    BY <1>u, <1>t, ReplayedCopy
  <2> QED
    BY <1>u, <1>t, <2>1 DEF RouterIInv, Typed, files, hooks, Phases
<1>2. Covered'
  BY <1>u, <1>t, CopyGrown DEF Covered, ExtendedByHooks, files
<1>3. TakenOver'
  <2>1. OutageAdvance(latch, latch) /\ AllGrown(latch, latch)
    BY <1>t, AdvanceSelf, CopyGrown
  <2> QED
    BY <1>u, <2>1 DEF TakenOver, Follows, files
<1>4. Planning' /\ Released'
  BY <1>u, <1>i DEF Planning, Released
<1>5. Replays'
  <2>1. ~ledgerDown => durable = router
    BY <1>u, <1>i DEF RouterIInv, Replays
  <2>2. ~ledgerDown => durable' = latch
    BY <1>u, <1>t, <2>1, ReplayedTo
  <2> QED
    BY <1>u, <1>i, <2>2 DEF Replays
<1>6. AllGrown(latch, latch')
  BY <1>u, <1>t, CopyGrown DEF files
<1> QED
  BY <1>1, <1>2, <1>3, <1>4, <1>5, <1>6 DEF RouterIInv

\* What was bound after the last event of its session only adds to the router's state.
LEMMA LateGrown == ASSUME Typed PROVE Late \in Copies /\ AllGrown(router, Late)
<1>1. router \in Copies
  BY DEF Typed
<1> DEFINE t == Late
<1>2. t = [i \in Ids |-> t[i]]
  BY DEF Late
<1>3. \A i \in Ids : Grown(router[i], t[i])
  <2> SUFFICES ASSUME NEW i \in Ids PROVE Grown(router[i], t[i])
    OBVIOUS
  <2>1. t[i] = Evidenced(router[i], inputs.evidence[i])
    BY DEF Late
  <2> QED
    BY <1>1, <2>1, CopyOf, EvidencedGrown
<1> HIDE DEF t
<1>4. AllGrown(router, t)
  BY <1>3 DEF AllGrown
<1>5. t \in Copies
  BY <1>1, <1>2, <1>4, GrownCopy
<1> QED
  BY <1>4, <1>5 DEF t

\* Late evidence goes to journal, latch and router.
LEMMA TakeEvidenceStep == ASSUME RouterIInv, TakeEvidence
                          PROVE RouterIInv' /\ AllGrown(latch, latch')
<1>u. /\ phase = "reconciled" /\ phase' = "settled"
      /\ UNCHANGED <<writer, ledgerDown, reviewDown, inputs, hooks, alive, now>>
  BY DEF TakeEvidence
<1>t. latch \in Copies /\ head \in Copies /\ router \in Copies /\ durable \in Copies
  BY DEF RouterIInv, Typed
<1>i. writer.pc = "idle"
  BY <1>u, Rested
<1>l. Late \in Copies /\ AllGrown(router, Late)
  BY LateGrown DEF RouterIInv
<1>r. ~ledgerDown => durable = router
  BY <1>u, <1>i DEF RouterIInv, Replays
<1>4. Planning' /\ Released' /\ TakenOver'
  BY <1>u, <1>i DEF Planning, Released, TakenOver
<1>1. CASE Late = router /\ UNCHANGED <<files, durable, router>>
  <2>1. Typed'
    BY <1>u, <1>1 DEF RouterIInv, Typed, files, hooks, Phases
  <2>2. Covered'
    BY <1>u, <1>1 DEF RouterIInv, Covered, Steady, Intact, files
  <2>3. Replays'
    BY <1>u, <1>1, <1>i, <1>r DEF Replays
  <2>4. AllGrown(latch, latch')
    BY <1>1, <1>t, CopyGrown DEF files
  <2> QED
    BY <1>4, <2>1, <2>2, <2>3, <2>4 DEF RouterIInv
<1>2. CASE latch = router /\ durable' = Replayed(durable, router, Late) /\ WriteLatch(Late)
      /\ router' = Late
  <2>0. latch' = Late /\ head' = Late /\ lock' = lock
    BY <1>2 DEF WriteLatch
  <2>d. durable' \in Copies /\ (~ledgerDown => durable' = Late)
    BY <1>2, <1>t, <1>l, <1>r, ReplayedCopy, ReplayedTo
  <2>1. Typed'
    BY <1>u, <1>2, <1>l, <2>0, <2>d DEF RouterIInv, Typed, hooks, Phases
  <2>2. Covered'
    BY <1>2, <1>l, <2>0, CopyGrown DEF Covered, ExtendedByHooks
  <2>3. Replays'
    BY <1>u, <1>2, <1>i, <2>d DEF Replays
  <2>4. AllGrown(latch, latch')
    BY <1>2, <1>l, <2>0
  <2> QED
    BY <1>4, <2>1, <2>2, <2>3, <2>4 DEF RouterIInv
<1> QED
  BY <1>1, <1>2 DEF TakeEvidence

\* A reconciliation that fails leaves a latch that the router or the journal covers.
LEMMA ReconcileFailsStep == ASSUME RouterIInv, ReconcileFails
                            PROVE RouterIInv' /\ AllGrown(latch, latch')
<1>u. /\ phase \in {"drained", "reconciled"} /\ reviewDown' = TRUE /\ phase' = "settled"
      /\ UNCHANGED <<router, writer, ledgerDown, inputs, hooks, alive, now>>
  BY DEF ReconcileFails
<1>t. latch \in Copies /\ head \in Copies /\ router \in Copies /\ durable \in Copies
  BY DEF RouterIInv, Typed
<1>i. writer.pc = "idle"
  BY <1>u, Rested
<1>l. Late \in Copies /\ AllGrown(router, Late)
  BY LateGrown DEF RouterIInv
<1>4. Planning' /\ Released' /\ TakenOver' /\ Replays'
  BY <1>u, <1>i DEF Planning, Released, TakenOver, Replays
<1> SUFFICES ASSUME TRUE PROVE
      /\ lock' = lock /\ latch' \in Copies /\ head' \in Copies /\ durable' \in Copies
      /\ Covered' /\ AllGrown(latch, latch')
  <2>1. Typed'
    BY <1>u DEF RouterIInv, Typed, hooks, Phases
  <2> QED
    BY <1>4, <2>1 DEF RouterIInv
<1>1. CASE UNCHANGED <<files, durable>>
  <2>1. Covered'
    BY <1>u, <1>1 DEF RouterIInv, Covered, Steady, Intact, files
  <2> QED
    BY <1>1, <1>t, <2>1, CopyGrown DEF files
<1>2. CASE /\ phase = "reconciled" /\ durable' = Replayed(durable, router, Late)
           /\ \/ UNCHANGED files
              \/ Intact /\ latch = router /\ TornWrite(Late)
  <2>d. durable' \in Copies
    BY <1>2, <1>t, <1>l, ReplayedCopy
  <2>f. Follows(router)
    BY <1>2 DEF RouterIInv, TakenOver
  <2>1. CASE UNCHANGED files
    <3>1. Steady' => Steady
      BY <2>1 DEF Steady, Intact, files
    <3>2. Covered'
      BY <1>u, <2>1, <2>f, <3>1 DEF Covered, Follows, OutageAdvance, files
    <3> QED
      BY <1>t, <2>1, <2>d, <3>2, CopyGrown DEF files
  <2>2. CASE Intact /\ latch = router /\ TornWrite(Late)
    <3>1. lock' = lock /\ latch' \in {latch, Late} /\ head' \in {latch, Late}
      BY <2>2, Torn
    <3>2. AllGrown(latch, latch')
      BY <1>t, <1>l, <2>2, <3>1, CopyGrown
    <3>3. \A j \in Ids : latch'[j] = router[j] \/ latch'[j] = durable'[j]
      BY <1>2, <2>2, <3>1 DEF Replayed, Delta
    <3>g. AllGrown(router, latch')
      BY <2>2, <3>2
    <3>4. Covered'
      BY <1>u, <3>3, <3>g DEF Covered, ExtendedByHooks
    <3> QED
      BY <1>t, <1>l, <2>d, <3>1, <3>2, <3>4
  <2> QED
    BY <1>2, <2>1, <2>2
<1> QED
  BY <1>1, <1>2 DEF ReconcileFails

\* The outcome.
LEMMA ConcludeStep == ASSUME RouterIInv, Conclude PROVE RouterIInv' /\ AllGrown(latch, latch')
<1>u. /\ phase = "settled" /\ phase' = (IF Releasable THEN "released" ELSE "kept")
         /\ alive' = FALSE
      /\ call' = [m \in Sessions |-> "none"]
      /\ UNCHANGED <<files, core, reviewDown, inputs, pending, now>>
  BY DEF Conclude
<1>i. writer.pc = "idle"
  BY <1>u, Rested
<1>1. Typed'
  BY <1>u DEF RouterIInv, Typed, files, core, Phases
<1>2. Covered'
  BY <1>u DEF RouterIInv, Covered, Steady, Intact, files, core
<1>3. Planning' /\ TakenOver'
  BY <1>u, <1>i DEF Planning, TakenOver, core
<1>4. Replays'
  BY <1>u DEF RouterIInv, Replays, core
<1>5. Released'
  BY <1>u DEF Released, Releasable, Intact, files, core
<1>6. AllGrown(latch, latch')
  BY <1>u, CopyGrown DEF RouterIInv, Typed, files
<1> QED
  BY <1>1, <1>2, <1>3, <1>4, <1>5, <1>6 DEF RouterIInv

\* Every step keeps the invariant, and the latch only grows.
LEMMA RouterStep == ASSUME RouterIInv, [Next]_vars PROVE RouterIInv' /\ AllGrown(latch, latch')
<1>1. CASE Review
  BY <1>1, ReviewStep
<1>2. CASE ReviewFails
  BY <1>2, ReviewFailsStep
<1>3. ASSUME NEW m \in Sessions \cup Workers, PlanTool(m)
      PROVE RouterIInv' /\ AllGrown(latch, latch')
  BY <1>3, PlanToolStep
<1>4. ASSUME NEW m \in Sessions, PlanCompletion(m) \/ Reject(m) \/ Stop(m) \/ Unverified(m)
                                 \/ Fallback(m) \/ FallbackEnds(m) \/ HookKilled(m)
      PROVE  RouterIInv' /\ AllGrown(latch, latch')
  BY <1>4, PlanCompletionStep, RejectStep, StopStep, UnverifiedStep, FallbackStep,
     FallbackEndsStep,
     HookKilledStep
<1>5. CASE Commit
  BY <1>5, CommitStep
<1>6. CASE CommitFails
  BY <1>6, CommitFailsStep
<1>7. CASE Tick
  BY <1>7, TickStep
<1>8. CASE Poll \/ MissionEnds
  BY <1>8, EndsStep DEF Poll, MissionEnds
<1>9. CASE Drain
  BY <1>9, DrainStep
<1>10. CASE TakeOutage
  BY <1>10, TakeOutageStep
<1>11. CASE TakeEvidence
  BY <1>11, TakeEvidenceStep
<1>12. CASE ReconcileFails
  BY <1>12, ReconcileFailsStep
<1>13. CASE Conclude
  BY <1>13, ConcludeStep
<1>14. CASE UNCHANGED vars
  <2>1. UNCHANGED <<files, core, reviewDown, inputs, hooks, run>>
    BY <1>14 DEF vars
  <2>2. Typed'
    BY <2>1 DEF RouterIInv, Typed, files, core, hooks, run
  <2> QED
    BY <2>1, <2>2, Quiet DEF files, core, hooks, run
<1> QED
  BY <1>1, <1>2, <1>3, <1>4, <1>5, <1>6, <1>7, <1>8, <1>9, <1>10, <1>11, <1>12, <1>13,
     <1>14 DEF Next

\* In every behaviour, whatever the interventions, sessions, scopes, verdicts, sources
\* and faults, the latch has grown from the router's state while its files are whole, a
\* planned event from the latch it was planned on, and the durable deltas replay to the
\* router's state.
THEOREM RouterInvariant == Spec => []RouterIInv
<1>1. RouterIInv /\ [Next]_vars => RouterIInv'
  BY RouterStep
<1> QED
  BY RouterInit, <1>1, PTL DEF Spec

\* What the invariant says of each copy.
LEMMA CopyParts ==
    ASSUME RouterIInv
    PROVE  TypeOK /\ DeltasReplayToRouter /\ LatchCoversRouter /\ ReleasedMeansResolved
<1>1. TypeOK
  <2>1. \A s \in Copies : s \in RouterState
    BY CopyOf
  <2>2. latch \in RouterState /\ head \in RouterState /\ durable \in RouterState
        /\ router \in RouterState
        /\ writer \in [pc : {"idle", "commit"}, seen : Nat, next : RouterState,
                       session : Sessions \cup {NoOne}, event : Event]
    BY <2>1 DEF RouterIInv, Typed
  <2> QED
    BY <2>2 DEF RouterIInv, Typed, TypeOK
<1>2. DeltasReplayToRouter
  BY DEF RouterIInv, Replays, DeltasReplayToRouter
<1>3. LatchCoversRouter
  BY DEF RouterIInv, Covered, Steady, LatchCoversRouter
<1>4. ReleasedMeansResolved
  <2> SUFFICES ASSUME phase = "released"
               PROVE  \A s \in {durable, router, latch, head} : ~CompletionBlocked(s)
                      /\ ~TerminationDue(s)
    BY DEF ReleasedMeansResolved
  <2>1. writer.pc = "idle"
    BY Rested
  <2>2. durable = router
    BY <2>1 DEF RouterIInv, Released, Replays
  <2>3. head = latch
    BY DEF RouterIInv, Released, Intact
  <2> QED
    BY <2>2, <2>3 DEF RouterIInv, Released
<1> QED
  BY <1>1, <1>2, <1>3, <1>4

\* Whatever the constants: every copy of the router's state is one, the durable deltas replay
\* to the one in memory, the latch is not behind it, and a released run has an open blocker
\* in none of them.
THEOREM RouterCopies ==
    Spec => [](TypeOK /\ DeltasReplayToRouter /\ LatchCoversRouter /\ ReleasedMeansResolved)
BY RouterInvariant, CopyParts, PTL

\* A latch that has grown has forgotten nothing.
LEMMA GrownRemembers == ASSUME Typed, AllGrown(latch, latch') PROVE Remembered
BY CopyOf DEF AllGrown, Grown, Onward, Typed, Remembered

\* In every step the latch keeps the attempts, the generations and the failures that hooks
\* wrote into it (NothingForgotten: the commit, the outage fallback and both
\* reconciliations, with or without a fault of the disk).
THEOREM LatchRemembers == Spec => NothingForgotten
<1>1. RouterIInv /\ [Next]_vars => [Remembered]_vars
  BY RouterStep, GrownRemembers DEF RouterIInv
<1> QED
  BY RouterInvariant, <1>1, PTL DEF Spec, NothingForgotten

\* The invariant, of the first instance.
FirstIInv == part = "first" /\ RouterIInv

\* The behaviours of a run's first instance, whose constants are the module's own, have
\* the invariant.
THEOREM FirstInvariant == BothSpec /\ part = "first" => []FirstIInv
<1>1. BothInit /\ part = "first" => FirstIInv
  BY RouterInit DEF BothInit, FirstIInv
<1>2. FirstIInv /\ [BothNext]_<<part, vars>> => FirstIInv'
  BY RouterStep DEF BothNext, FirstIInv
<1> QED
  BY <1>1, <1>2, PTL DEF BothSpec

\* A run always has CopiesAgree: the latch, its head, the durable deltas and the router
\* are copies of one state, the latch is not behind the router, and a released run has an
\* open blocker in none of them.
THEOREM CopiesAgreeAlways == BothSpec /\ part = "first" => []CopiesAgree
<1>1. FirstIInv => CopiesAgree
  BY CopyParts DEF FirstIInv, CopiesAgree
<1> QED
  BY FirstInvariant, <1>1, PTL

\* A run is never released while a copy of its state holds an open blocker.
THEOREM ReleaseResolved == BothSpec /\ part = "first" => []NoOpenBlockerReleased
<1>1. FirstIInv => NoOpenBlockerReleased
  BY CopyParts DEF FirstIInv, NoOpenBlockerReleased
<1> QED
  BY FirstInvariant, <1>1, PTL

\* What a hook wrote into the latch during an outage is never lost (the action property
\* that the runs check).
THEOREM NothingIsForgotten == BothSpec /\ part = "first" => NothingEverForgotten
<1>1. FirstIInv /\ [BothNext]_<<part, vars>> =>
        [IF part = "first" THEN Remembered ELSE Other!Remembered]_<<part, vars>>
  BY RouterStep, GrownRemembers DEF BothNext, FirstIInv, RouterIInv
<1> QED
  BY FirstInvariant, <1>1, PTL DEF BothSpec, NothingEverForgotten

------------------------------------------------------------------------------
(* The moves of a step.                                                    *)

\* An advance by hooks creates no intervention.
LEMMA AbsentStays ==
    ASSUME NEW s \in Copies, NEW t \in Copies, OutageAdvance(s, t), NEW i \in Ids,
           s[i].state = "absent"
    PROVE  t[i].state = "absent"
<1>1. t[i] = s[i] \/ s[i].state # "absent"
  BY Zenon DEF OutageAdvance, ExtendedByHooks
<1> QED
  BY <1>1

\* What a step does to the router's own records.
RouterMoved == AllGrown(router, router') /\ Unready(router, router')

\* Nothing new, nothing unready.
LEMMA UnreadySame == ASSUME NEW s PROVE Unready(s, s)
BY DEF Unready

\* In every step the router's records only grow, and none is resolved or assigned for
\* repair in the step that creates it.
LEMMA RouterMoves == ASSUME RouterIInv, [Next]_vars PROVE RouterMoved
<1>t. latch \in Copies /\ router \in Copies /\ writer.next \in Copies
  BY DEF RouterIInv, Typed
<1>1. CASE UNCHANGED router
  BY <1>1, <1>t, CopyGrown, UnreadySame DEF RouterMoved
<1>2. CASE Commit
  <2>1. writer.pc = "commit" /\ router' = writer.next
    BY <1>2 DEF Commit
  <2>2. PICK base \in Copies :
              /\ OutageAdvance(router, base) /\ AllGrown(router, base)
              /\ AllGrown(base, writer.next) /\ Unready(base, writer.next)
    BY <2>1, PlannedFrom
  <2>3. AllGrown(router, router')
    BY <1>t, <2>1, <2>2, CopiesGrownOn
  <2>4. Unready(router, router')
    BY <1>t, <2>1, <2>2, AbsentStays DEF Unready
  <2> QED
    BY <2>3, <2>4 DEF RouterMoved
<1>3. CASE TakeOutage
  <2>1. Readable /\ router' = latch
    BY <1>3 DEF TakeOutage
  <2>2. Intact /\ OutageAdvance(router, latch)
    BY <2>1, ReadableAdvance
  <2>3. AllGrown(router, latch)
    BY <2>2 DEF RouterIInv, Covered, Steady
  <2>4. Unready(router, latch)
    BY <1>t, <2>2, AbsentStays DEF Unready
  <2> QED
    BY <2>1, <2>3, <2>4 DEF RouterMoved
<1>4. CASE TakeEvidence
  <2>1. router' = router \/ router' = Late
    BY <1>4 DEF TakeEvidence
  <2>2. AllGrown(router, Late)
    BY LateGrown DEF RouterIInv
  <2>3. \A i \in Ids : router[i].state = "absent" => Late[i] = router[i]
    BY DEF Late, Evidenced, Closed, Failed
  <2>4. Unready(router, Late)
    BY <2>3 DEF Unready
  <2> QED
    BY <1>1, <2>1, <2>2, <2>4 DEF RouterMoved
<1>5. CASE Review \/ ReviewFails \/ Tick \/ Drain \/ Conclude \/ UNCHANGED vars
  <2>1. UNCHANGED router
    BY <1>5 DEF Review, ReviewFails, Tick, Drain, Conclude, vars, core
  <2> QED
    BY <1>1, <2>1
<1>6. CASE CommitFails \/ Poll \/ MissionEnds \/ ReconcileFails
  <2>1. UNCHANGED router
    BY <1>6 DEF CommitFails, Poll, MissionEnds, Ends, ReconcileFails, core
  <2> QED
    BY <1>1, <2>1
<1>7. ASSUME NEW m \in Sessions \cup Workers, PlanTool(m) PROVE RouterMoved
  <2>1. UNCHANGED router
    BY <1>7 DEF PlanTool
  <2> QED
    BY <1>1, <2>1
<1>8. ASSUME NEW m \in Sessions, PlanCompletion(m) \/ Reject(m) \/ Stop(m) \/ Unverified(m)
                                 \/ Fallback(m) \/ FallbackEnds(m) \/ HookKilled(m)
      PROVE  RouterMoved
  <2>1. UNCHANGED router
    BY <1>8 DEF PlanCompletion, Reject, Stop, Unverified, Fallback, FallbackEnds, HookKilled,
       core
  <2> QED
    BY <1>1, <2>1
<1> QED
  BY <1>2, <1>3, <1>4, <1>5, <1>6, <1>7, <1>8 DEF Next

\* What one allowed move adds.
LEMMA Reaches ==
    ASSUME NEW S PROVE /\ S \subseteq ReachableFrom(S)
                       /\ \A b, a : b \in S /\ <<b, a>> \in Allowed => a \in ReachableFrom(S)
<1>1. \A b, a : b \in S
      /\ <<b, a>> \in Allowed => a \in {p[2] : p \in {q \in Allowed : q[1] \in S}}
  <2> SUFFICES ASSUME NEW b, NEW a, b \in S, <<b, a>> \in Allowed
               PROVE  a \in {p[2] : p \in {q \in Allowed : q[1] \in S}}
    OBVIOUS
  <2>1. <<b, a>> \in {q \in Allowed : q[1] \in S} /\ <<b, a>>[2] = a
    OBVIOUS
  <2> QED
    BY <2>1
<1> QED
  BY <1>1 DEF ReachableFrom

\* Three moves lead to all that a record of the router may become.
LEMMA ThreeMoves ==
    ASSUME NEW b \in States, NEW a \in States, Onward(b, a),
           b = "absent" => a \notin {"resolved", "repair_assigned"},
              a = "absent" => b = "absent"
    PROVE  a \in ReachableFrom(ReachableFrom(ReachableFrom({b})))
<1> DEFINE R1 == ReachableFrom({b})
           R2 == ReachableFrom(R1)
           R3 == ReachableFrom(R2)
<1>1. b \in R1 /\ \A x : <<b, x>> \in Allowed => x \in R1
  BY Reaches
<1>2. R1 \subseteq R2 /\ \A x, y : x \in R1 /\ <<x, y>> \in Allowed => y \in R2
  BY Reaches
<1>3. R2 \subseteq R3 /\ \A x, y : x \in R2 /\ <<x, y>> \in Allowed => y \in R3
  BY Reaches
<1> SUFFICES a \in R3
  OBVIOUS
<1> HIDE DEF R1, R2, R3
<1>4. b \in R3
  BY <1>1, <1>2, <1>3
<1>5. CASE b = "absent"
  BY <1>1, <1>2, <1>3, <1>5 DEF Allowed, Onward, States
<1>6. CASE b = "queued"
  BY <1>1, <1>2, <1>3, <1>6 DEF Allowed, Onward, States
<1>7. CASE b = "delivered"
  BY <1>1, <1>2, <1>3, <1>7 DEF Allowed, Onward, States
<1>8. CASE b = "acknowledged"
  BY <1>1, <1>2, <1>3, <1>8 DEF Allowed, Onward, States
<1>9. CASE b = "repair_requested"
  BY <1>1, <1>2, <1>3, <1>9 DEF Allowed, Onward, States
<1>10. CASE b = "repair_assigned"
  BY <1>1, <1>2, <1>3, <1>10 DEF Allowed, Onward, States
<1>11. CASE b \in {"expired", "quarantined"}
  BY <1>1, <1>2, <1>3, <1>11 DEF Allowed, Onward, Failed, States
<1>12. CASE b \in {"resolved", "termination_acknowledged"}
  BY <1>4, <1>12 DEF Onward, Nonblocking
<1> QED
  BY <1>5, <1>6, <1>7, <1>8, <1>9, <1>10, <1>11, <1>12 DEF States

\* Such a step takes each record along the allowed transitions.
LEMMA MovedAllowed == ASSUME Typed, Typed', RouterMoved PROVE AllowedMoves
<1> SUFFICES ASSUME NEW i \in Ids
             PROVE  router'[i].state
                      \in ReachableFrom(ReachableFrom(ReachableFrom({router[i].state})))
  BY DEF AllowedMoves
<1>1. Stored(router[i]) /\ Stored(router'[i])
  BY CopyOf DEF Typed
<1>2. router[i].state \in States /\ router'[i].state \in States
  BY <1>1, Fields
<1>3. Onward(router[i].state, router'[i].state)
  BY DEF RouterMoved, AllGrown, Grown
<1>4. router[i].state = "absent" => router'[i].state \notin {"resolved", "repair_assigned"}
  BY DEF RouterMoved, Unready
<1>5. router'[i].state = "absent" => router[i].state = "absent"
  BY <1>3 DEF Onward
<1> QED
  BY <1>2, <1>3, <1>4, <1>5, ThreeMoves

\* Whatever the constants: in every step each record moves along the allowed transitions
\* (MovesAllowed).
THEOREM RouterMovesAllowed == Spec => MovesAllowed
<1>1. RouterIInv /\ [Next]_vars => [AllowedMoves]_vars
  BY RouterStep, RouterMoves, MovedAllowed DEF RouterIInv
<1> QED
  BY RouterInvariant, <1>1, PTL DEF Spec, MovesAllowed

\* In every step, whatever the number of transitions it takes, each record moves along the
\* allowed transitions, at most three of them (the action property that the runs check).
THEOREM MovesStayAllowed == BothSpec /\ part = "first" => MovesAlwaysAllowed
<1>1. FirstIInv /\ [BothNext]_<<part, vars>> =>
        [IF part = "first" THEN AllowedMoves ELSE Other!AllowedMoves]_<<part, vars>>
  BY RouterStep, RouterMoves, MovedAllowed DEF BothNext, FirstIInv, RouterIInv
<1> QED
  BY FirstInvariant, <1>1, PTL DEF BothSpec, MovesAlwaysAllowed
=============================================================================
