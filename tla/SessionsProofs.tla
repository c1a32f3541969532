----------------------------- MODULE SessionsProofs -----------------------------
(***************************************************************************)
(* Theorems about the probes' side of MCSessions (ProbeBroker over its     *)
(* SessionWorker), for any number of sessions and probes, any faults.      *)
(*                                                                         *)
(* Each session's worker, its turns, its process and its home are followed *)
(* by themselves: whatever a coroutine does (Runs, Prepares) and whatever  *)
(* a thread does to a turn (Touched) leaves a session as ProbeSession says *)
(* and takes back nothing its threads rely on (Serves, Keeps, Lasts).  On  *)
(* this rests what each thread knows of the session it works with          *)
(* (ThreadFits, ProbeFits), and that every session is somebody's until it  *)
(* is gone (SessionsHeld).                                                 *)
(***************************************************************************)
EXTENDS MCSessions, SequenceTheorems, TLAPS

(* The sessions' workers.                                                    *)

\* What every turn c of a worker in this phase is like: a future that was answered
\* cuts its coroutine, unless it is over.
Opened == {"connect", "open", "turn"}
TurnFits(phase, c) ==
    /\ c.at \in {"connect", "open"} => c.kind \in {"prepare", "fresh"}
    /\ c.at = "claim" => c.kind = "prepare"
    /\ c.at = "turn" => c.kind \in {"fresh", "send", "ask"}
    /\ c.at = "home" => c.kind \in {"prepare", "fresh", "send"}
    /\ c.at \in {"session", "transport", "exit"} => c.kind # "ask"
    /\ c.at = "queued" => c.future = "pending" /\ c.cut = "no" /\ ~c.unclosed
    /\ c.at = "done" => c.future # "pending"
    /\ c.future = "ok" => c.at = "done"
    /\ c.at \in Opened =>
          /\ ~c.unclosed
          /\ c.future # "pending" => c.cut # "no"
          /\ phase # "running" => c.cut # "no"
    /\ phase = "stopped" => ~Started(c)
WorkerFits(l, t) ==
    /\ l \in Worker /\ t \in Seq(Turn) /\ l.submitted = Len(t)
    /\ l.active <= Len(t) /\ l.completed <= Len(t)
    /\ l.phase = "none" => t = <<>>
    /\ \A g \in 1 .. Len(t) : TurnFits(l.phase, t[g])

\* What a thread may do to the turns of a session: answer one that is pending, cut it.
Touched(c, d) ==
    /\ d.kind = c.kind /\ d.raised = c.raised /\ d.unclosed = c.unclosed
    /\ d.future = c.future \/ (c.future = "pending" /\ d.future \in {"cancelled", "timeout"})
    /\ d.at = c.at \/ (c.at = "queued" /\ d.at = "done")
    /\ d.cut = c.cut \/ (Started(c) /\ d.cut = "cancelled")
Handled(t, u) ==
    /\ u \in Seq(Turn) /\ Len(t) <= Len(u)
    /\ \A g \in 1 .. Len(t) : Touched(t[g], u[g])

LEMMA TouchedSame == ASSUME NEW c PROVE Touched(c, c)
BY DEF Touched

LEMMA HandledSame == ASSUME NEW t \in Seq(Turn) PROVE Handled(t, t)
BY TouchedSame, LenProperties DEF Handled

\* A touched turn fits as it did.
LEMMA TouchedFits ==
    ASSUME NEW phase, NEW c \in Turn, NEW d \in Turn, TurnFits(phase, c), Touched(c, d),
           d.at = "done" => d.future # "pending",
           c.future # d.future /\ c.at # "queued" => d.cut = "cancelled",
           d.future # "pending" => d.at # "queued"
    PROVE  TurnFits(phase, d)
BY DEF TurnFits, Touched, Started, Opened, Turn

\* _mark_completed_locked.
LEMMA CompletedFits ==
    ASSUME NEW l \in Worker, NEW n \in Nat, NEW g \in 1 .. n, l.active <= n, l.completed <= n
    PROVE  LET m == Completed(l, g)
           IN /\ m \in Worker /\ m.submitted = l.submitted /\ m.phase = l.phase
              /\ m.active <= n /\ m.completed <= n
<1>1. l.active \in Nat /\ l.completed \in Nat /\ g \in Nat
  BY DEF Worker
<1> DEFINE a == IF l.active = g THEN 0 ELSE l.active
<1> DEFINE b == IF l.completed < g THEN g ELSE l.completed
<1>2. a \in Nat /\ b \in Nat /\ a <= n /\ b <= n
  BY <1>1
<1>3. Completed(l, g) = [l EXCEPT !.completed = b, !.active = a]
  BY DEF Completed, Worker
<1> HIDE DEF a, b
<1> QED BY <1>2, <1>3 DEF Worker

\* future.cancel() on one of the turns.
LEMMA CutFits ==
    ASSUME NEW l, NEW t, WorkerFits(l, t), NEW g \in 1 .. Len(t), NEW why \in {"cancelled", "timeout"}
    PROVE  LET c == Cut(l, t, g, why)
           IN /\ WorkerFits(c.loop, c.turn) /\ Handled(t, c.turn) /\ Len(c.turn) = Len(t)
              /\ c.loop.phase = l.phase
<1> DEFINE c == Cut(l, t, g, why)
<1> DEFINE d == IF t[g].at = "queued" THEN [t[g] EXCEPT !.at = "done", !.future = why]
                ELSE [t[g] EXCEPT !.cut = "cancelled", !.future = why]
<1>1. /\ l \in Worker /\ t \in Seq(Turn) /\ Len(t) \in Nat /\ l.submitted = Len(t)
      /\ l.active <= Len(t) /\ l.completed <= Len(t) /\ t # <<>> /\ l.phase # "none"
      /\ \A h \in 1 .. Len(t) : TurnFits(l.phase, t[h]) /\ t[h] \in Turn
      /\ t \in [1 .. Len(t) -> Turn]
  BY LenProperties, ElementOfSeq, EmptySeq DEF WorkerFits
<1>2. CASE t[g].future # "pending"
  BY <1>1, <1>2, HandledSame DEF Cut, WorkerFits
<1>3. CASE t[g].future = "pending"
  <2>1. d \in Turn /\ Touched(t[g], d) /\ TurnFits(l.phase, d)
    <3>1. t[g] \in Turn /\ TurnFits(l.phase, t[g])
      BY <1>1
    <3>2. d \in Turn
      BY <3>1 DEF Turn, Results, Steps
    <3>3. Touched(t[g], d)
      BY <3>1, <1>3 DEF Touched, Started, Turn, TurnFits
    <3> QED BY <3>1, <3>2, <3>3, <1>3, TouchedFits DEF Turn
  <2>2. /\ c.turn = [t EXCEPT ![g] = d]
        /\ c.loop = IF t[g].at = "queued" THEN Completed(l, g) ELSE l
    BY <1>1, <1>3 DEF Cut, Turn
  <2>3. /\ c.turn \in Seq(Turn) /\ Len(c.turn) = Len(t)
        /\ \A h \in 1 .. Len(t) : c.turn[h] = IF h = g THEN d ELSE t[h]
    BY <2>1, <2>2, <1>1, ExceptSeq
  <2>4. /\ c.loop \in Worker /\ c.loop.submitted = Len(t) /\ c.loop.phase = l.phase
        /\ c.loop.active <= Len(t) /\ c.loop.completed <= Len(t)
    BY <2>2, <1>1, CompletedFits
  <2> HIDE DEF c, d
  <2>5. \A h \in 1 .. Len(t) : TurnFits(l.phase, c.turn[h]) /\ Touched(t[h], c.turn[h])
    BY <2>1, <2>3, <1>1, TouchedSame
  <2>6. WorkerFits(c.loop, c.turn)
    BY <2>3, <2>4, <2>5, <1>1 DEF WorkerFits
  <2>7. Handled(t, c.turn)
    BY <2>3, <2>5, <1>1 DEF Handled
  <2> QED BY <2>3, <2>4, <2>6, <2>7 DEF c
<1> QED BY <1>2, <1>3

\* run, up to its wait.
LEMMA SubmissionFits ==
    ASSUME NEW s \in Sessions, WorkerFits(loop[s], turn[s]), NEW kind \in Kinds, loop[s].phase # "none"
    PROVE  LET n == Submission(s, kind)
               g == Len(turn[s]) + 1
           IN /\ WorkerFits(n.loop, n.turn) /\ Handled(turn[s], n.turn) /\ Len(n.turn) = g
              /\ n.loop.phase = loop[s].phase
              /\ n.turn[g].kind = kind /\ n.turn[g].at \in {"queued", "done"} /\ ~n.turn[g].unclosed
              /\ n.turn[g].future # "ok"
<1> DEFINE g == Len(turn[s]) + 1
<1> DEFINE l == [loop[s] EXCEPT !.submitted = g]
<1>1. /\ loop[s] \in Worker /\ turn[s] \in Seq(Turn) /\ Len(turn[s]) \in Nat /\ g \in Nat
      /\ loop[s].submitted = Len(turn[s])
      /\ loop[s].active <= Len(turn[s]) /\ loop[s].completed <= Len(turn[s])
      /\ \A h \in 1 .. Len(turn[s]) : TurnFits(loop[s].phase, turn[s][h]) /\ turn[s][h] \in Turn
  BY LenProperties, ElementOfSeq DEF WorkerFits
<1>2. l \in Worker /\ l.phase = loop[s].phase /\ l.active = loop[s].active /\ l.submitted = g
      /\ l.completed = loop[s].completed
  BY <1>1 DEF Worker
<1>q. ASSUME NEW n \in Turn, NEW m, m \in Worker, m.phase = loop[s].phase, m.submitted = g,
             m.active <= g, m.completed <= g, TurnFits(loop[s].phase, n), n.kind = kind,
             n.at \in {"queued", "done"}, ~n.unclosed, n.future # "ok"
      PROVE  LET t == Append(turn[s], n)
             IN /\ WorkerFits(m, t) /\ Handled(turn[s], t) /\ Len(t) = g
                /\ t[g] = n
  <2> DEFINE t == Append(turn[s], n)
  <2>1. /\ t \in Seq(Turn) /\ Len(t) = g /\ t[g] = n /\ t # <<>>
        /\ \A h \in 1 .. Len(turn[s]) : t[h] = turn[s][h]
    BY <1>1, AppendProperties
  <2> HIDE DEF t
  <2>2. \A h \in 1 .. g : h = g \/ h \in 1 .. Len(turn[s])
    BY <1>1
  <2>3. \A h \in 1 .. Len(t) : TurnFits(m.phase, t[h])
    BY <2>1, <2>2, <1>1, <1>q
  <2>4. \A h \in 1 .. Len(turn[s]) : Touched(turn[s][h], t[h])
    BY <2>1, TouchedSame
  <2>5. WorkerFits(m, t)
    BY <2>1, <2>3, <1>q DEF WorkerFits
  <2>6. Handled(turn[s], t)
    BY <2>1, <2>4, <1>1 DEF Handled
  <2> QED BY <2>1, <2>5, <2>6 DEF t
<1>3. CASE Stopped(s)
  <2> DEFINE n == NewTurn(kind, "done", "error")
  <2>1. n \in Turn /\ TurnFits(loop[s].phase, n) /\ n.kind = kind /\ n.at = "done" /\ ~n.unclosed
        /\ n.future = "error"
    BY DEF NewTurn, Turn, TurnFits, Started, Opened, Kinds, Steps, Results
  <2>2. Submission(s, kind) = [loop |-> Completed(l, g), turn |-> Append(turn[s], n)]
    BY <1>3, <1>1 DEF Submission
  <2>3. /\ Completed(l, g) \in Worker /\ Completed(l, g).phase = loop[s].phase
        /\ Completed(l, g).submitted = g /\ Completed(l, g).active <= g /\ Completed(l, g).completed <= g
    <3>1. loop[s].active \in Nat /\ loop[s].completed \in Nat
      BY <1>1 DEF Worker
    <3>2. l.active <= g /\ l.completed <= g /\ g \in 1 .. g
      BY <3>1, <1>1, <1>2
    <3> QED BY <3>2, <1>1, <1>2, CompletedFits
  <2> HIDE DEF n, l, g
  <2> QED BY <2>1, <2>2, <2>3, <1>q DEF g
<1>4. CASE ~Stopped(s)
  <2> DEFINE n == NewTurn(kind, "queued", "pending")
  <2> DEFINE t == Append(turn[s], n)
  <2>1. n \in Turn /\ TurnFits(loop[s].phase, n) /\ n.kind = kind /\ n.at = "queued" /\ ~n.unclosed
        /\ n.future = "pending"
    <3>1. loop[s].phase # "stopped"
      BY <1>4 DEF Stopped
    <3> QED BY <3>1 DEF NewTurn, Turn, TurnFits, Started, Opened, Kinds, Steps, Results
  <2> DEFINE k == [l EXCEPT !.active = g]
  <2> DEFINE m == [l EXCEPT !.active = g, !.wanted = FALSE]
  <2>2. /\ k \in Worker /\ k.phase = loop[s].phase /\ k.submitted = g /\ k.active <= g /\ k.completed <= g
        /\ m \in Worker /\ m.phase = loop[s].phase /\ m.submitted = g /\ m.active <= g /\ m.completed <= g
    <3>1. loop[s].active \in Nat /\ loop[s].completed \in Nat /\ g <= g /\ loop[s].completed <= g
      BY <1>1 DEF Worker
    <3> HIDE DEF g, l
    <3> QED BY <3>1, <1>1, <1>2 DEF Worker
  <2>3. Submission(s, kind) = IF l.wanted THEN Cut(m, t, g, "cancelled") ELSE [loop |-> k, turn |-> t]
    BY <1>4, <1>1 DEF Submission
  <2> HIDE DEF n, k, m, l
  <2>4. /\ WorkerFits(m, t) /\ WorkerFits(k, t) /\ Handled(turn[s], t) /\ Len(t) = g /\ t[g] = n
    BY <2>1, <2>2, <1>q
  <2> HIDE DEF t
  <2>5. CASE ~l.wanted
    BY <2>1, <2>2, <2>3, <2>4, <2>5, <1>1
  <2>6. CASE l.wanted
    <3> DEFINE c == Cut(m, t, g, "cancelled")
    <3>1. /\ WorkerFits(c.loop, c.turn) /\ Handled(t, c.turn) /\ Len(c.turn) = Len(t)
          /\ c.loop.phase = m.phase
      BY <2>4, <1>1, CutFits
    <3>2. Touched(t[g], c.turn[g])
      BY <3>1, <2>4, <1>1 DEF Handled
    <3>3. /\ c.turn[g].kind = kind /\ c.turn[g].at \in {"queued", "done"} /\ ~c.turn[g].unclosed
          /\ c.turn[g].future # "ok"
      BY <3>2, <2>1, <2>4 DEF Touched
    <3>4. Handled(turn[s], c.turn)
      <4>1. \A h \in 1 .. Len(turn[s]) : c.turn[h] = t[h]
        <5>1. /\ t[g].at = "queued" /\ t[g].future = "pending" /\ t \in Seq(Turn) /\ g \in 1 .. Len(t)
          BY <2>1, <2>4, <1>1 DEF Handled
        <5>2. c.turn = [t EXCEPT ![g] = [t[g] EXCEPT !.at = "done", !.future = "cancelled"]]
          BY <5>1, ElementOfSeq, LenProperties DEF Cut, Turn
        <5>3. [t[g] EXCEPT !.at = "done", !.future = "cancelled"] \in Turn
          <6>1. t[g] \in Turn
            BY <5>1, ElementOfSeq
          <6> QED BY <6>1 DEF Turn, Steps, Results
        <5>4. \A h \in 1 .. Len(turn[s]) : h \in 1 .. Len(t) /\ h # g
          BY <2>4, <1>1
        <5> QED BY <5>1, <5>2, <5>3, <5>4, ExceptSeq
      <4>2. \A h \in 1 .. Len(turn[s]) : Touched(turn[s][h], c.turn[h])
        BY <4>1, <2>4 DEF Handled
      <4>3. c.turn \in Seq(Turn) /\ Len(turn[s]) <= Len(c.turn)
        BY <3>1, <2>4, <1>1 DEF Handled
      <4> QED BY <4>2, <4>3 DEF Handled
    <3> HIDE DEF c, g
    <3>5. Submission(s, kind) = c
      BY <2>3, <2>6 DEF c
    <3> QED BY <3>1, <3>3, <3>4, <3>5, <2>2, <2>4 DEF g
  <2> QED BY <2>5, <2>6
<1> QED BY <1>3, <1>4

\* stop, its first half.
LEMMA StoppedFits ==
    ASSUME NEW l, NEW t, WorkerFits(l, t), l.phase = "running"
    PROVE  LET c == StopCut([l EXCEPT !.phase = "stopping"], t)
           IN /\ WorkerFits(c.loop, c.turn) /\ Handled(t, c.turn) /\ Len(c.turn) = Len(t)
              /\ c.loop.phase = "stopping"
<1> DEFINE m == [l EXCEPT !.phase = "stopping"]
<1> DEFINE F(i) == IF Started(t[i]) /\ t[i].cut = "no" THEN [t[i] EXCEPT !.cut = "cancelled"] ELSE t[i]
<1> DEFINE u == [i \in DOMAIN t |-> F(i)]
<1>1. /\ l \in Worker /\ t \in Seq(Turn) /\ Len(t) \in Nat /\ l.submitted = Len(t)
      /\ l.active <= Len(t) /\ l.completed <= Len(t) /\ DOMAIN t = 1 .. Len(t)
      /\ \A h \in 1 .. Len(t) : TurnFits("running", t[h]) /\ t[h] \in Turn
  BY LenProperties, ElementOfSeq DEF WorkerFits
<1>2. /\ m \in Worker /\ m.phase = "stopping" /\ m.submitted = Len(t)
      /\ m.active = l.active /\ m.completed = l.completed
  BY <1>1 DEF Worker, Phases
<1>3. \A i \in 1 .. Len(t) : F(i) \in Turn /\ Touched(t[i], F(i)) /\ TurnFits("stopping", F(i))
  <2> TAKE i \in 1 .. Len(t)
  <2> HIDE DEF F
  <2> DEFINE c == t[i]
  <2>1. c \in Turn /\ TurnFits("running", c)
    BY <1>1
  <2>2. F(i) = IF Started(c) /\ c.cut = "no" THEN [c EXCEPT !.cut = "cancelled"] ELSE c
    BY DEF F
  <2> HIDE DEF c
  <2>3. F(i) \in Turn
    BY <2>1, <2>2 DEF Turn
  <2>4. Touched(c, F(i))
    BY <2>1, <2>2 DEF Turn, Touched
  <2>5. TurnFits("stopping", F(i))
    BY <2>1, <2>2 DEF Turn, TurnFits, Started, Opened
  <2> QED BY <2>3, <2>4, <2>5 DEF c
<1> HIDE DEF F, m
<1>4. /\ u \in Seq(Turn) /\ Len(u) = Len(t) /\ \A i \in 1 .. Len(t) : u[i] = F(i)
  <2>1. u \in [1 .. Len(t) -> Turn]
    BY <1>1, <1>3
  <2>2. u \in Seq(Turn)
    <3> HIDE DEF u
    <3> QED BY <2>1, <1>1, SeqDef
  <2>3. DOMAIN u = 1 .. Len(t) /\ DOMAIN u = 1 .. Len(u) /\ Len(u) \in Nat
    BY <2>1, <2>2, LenProperties
  <2> QED BY <2>2, <2>3, <1>1
<1>5. WorkerFits(m, u)
  <2>1. \A g \in 1 .. Len(u) : TurnFits(m.phase, u[g])
    BY <1>2, <1>3, <1>4
  <2> QED BY <1>1, <1>2, <1>4, <2>1 DEF WorkerFits
<1>6. Handled(t, u)
  BY <1>1, <1>3, <1>4 DEF Handled
<1> DEFINE g == m.submitted
<1> DEFINE c == IF g \in DOMAIN t /\ t[g].at = "queued" THEN Cut(m, u, g, "cancelled") ELSE [loop |-> m, turn |-> u]
<1>7. StopCut(m, t) = c
  BY DEF StopCut, F
<1>8. CASE g \in DOMAIN t /\ t[g].at = "queued"
  <2>0. g \in 1 .. Len(u) /\ c = Cut(m, u, g, "cancelled")
    BY <1>8, <1>1, <1>4
  <2> HIDE DEF u
  <2>1. /\ WorkerFits(c.loop, c.turn) /\ Handled(u, c.turn) /\ Len(c.turn) = Len(u)
        /\ c.loop.phase = m.phase
    BY <2>0, <1>5, CutFits
  <2>2. \A h \in 1 .. Len(t) : Touched(t[h], c.turn[h])
    <3> TAKE h \in 1 .. Len(t)
    <3>1. Touched(t[h], u[h])
      BY <1>6 DEF Handled
    <3>2. Touched(u[h], c.turn[h])
      BY <2>1, <1>4 DEF Handled
    <3>3. t[h] \in Turn /\ u[h] \in Turn
      BY <1>1, <1>3, <1>4
    <3> HIDE DEF c
    <3> QED BY <3>1, <3>2, <3>3 DEF Touched, Started, Turn
  <2>3. Handled(t, c.turn)
    BY <2>1, <2>2, <1>4, <1>1 DEF Handled
  <2> HIDE DEF c
  <2> QED BY <2>1, <2>3, <1>2, <1>4, <1>7 DEF m
<1>9. CASE ~(g \in DOMAIN t /\ t[g].at = "queued")
  <2>1. StopCut(m, t) = [loop |-> m, turn |-> u]
    BY <1>9, <1>7
  <2> HIDE DEF u, c
  <2>2. StopCut(m, t).loop = m /\ StopCut(m, t).turn = u
    BY <2>1
  <2> QED BY <2>2, <1>2, <1>4, <1>5, <1>6 DEF m
<1> QED BY <1>8, <1>9

------------------------------------------------------------------------------
(* What a coroutine's step does to its turn c and to the process p, faults   *)
(* aside.                                                                    *)
Moved(c, step, raised) ==
    [c EXCEPT !.at = step, !.raised = raised,
              !.cut = IF raised \in {"cancelled", "timeout"} THEN "no" ELSE @]
Settled(c, raised) ==
    [c EXCEPT !.at = "done", !.raised = raised, !.cut = "no",
              !.future = IF @ = "pending" THEN raised ELSE @]
Unwound(c, raised) ==
    IF c.kind = "ask" \/ (c.kind = "prepare" /\ raised # "error") THEN Settled(c, raised)
    ELSE Moved(c, IF c.kind = "prepare" THEN "claim" ELSE "session", raised)
Left(c, wrong) ==
    IF c.kind = "close" THEN Settled(c, IF c.unclosed \/ wrong THEN "error" ELSE "ok")
    ELSE [c EXCEPT !.at = "home", !.cut = "no", !.unclosed = @ \/ wrong]
Living(p) == p.process \in {"alive", "told"}

Begun(phase, c, d, p, q) ==
    /\ phase = "running" /\ c.at = "queued" /\ c.kind = "close"
    /\ d = Moved(c, "session", "ok") /\ q = p
Expired(c, d, p, q) ==
    /\ Started(c) /\ c.cut = "no" /\ d = [c EXCEPT !.cut = "timeout"] /\ q = p
Cancelled(c, d, p, q) == c.at \in Opened /\ c.cut # "no" /\ d = Unwound(c, c.cut) /\ q = p
Connected(c, d, p, q) ==
    /\ c.at = "connect" /\ c.cut = "no" /\ d \in {Moved(c, "open", "ok"), Unwound(c, "error")}
    /\ q = [p EXCEPT !.process = IF @ = "none" THEN "alive" ELSE @]
OpenedUp(c, d, p, q) ==
    /\ c.at = "open" /\ c.cut = "no" /\ q = p
    /\ \/ d = Unwound(c, "error")
       \/ /\ Living(p) /\ ~p.closing
          /\ d = IF c.kind = "prepare" THEN Settled(c, "ok") ELSE Moved(c, "turn", "ok")
Turned(c, d, p, q) ==
    /\ c.at = "turn" /\ c.cut = "no" /\ q = p
    /\ \/ d = Unwound(c, "error")
       \/ Living(p) /\ ~p.closing /\ d = Unwound(c, "ok")
Closed(c, d, p, q) ==
    /\ c.at = "session" /\ q = p
    /\ d = IF p.process = "none" THEN Left(c, FALSE)
           ELSE [c EXCEPT !.at = "transport", !.cut = "no", !.unclosed = @ \/ c.cut # "no"]
Told(c, d, p, q) ==
    /\ c.at = "transport"
    /\ IF p.closing THEN d = Left(c, TRUE) /\ q = p
       ELSE /\ d = [c EXCEPT !.at = "exit"]
            /\ q = [process |-> IF p.process = "alive" THEN "told" ELSE p.process, closing |-> TRUE]
Ended(c, d, p, q) ==
    /\ c.at = "exit"
    /\ \/ c.cut = "no" /\ d = Left(c, FALSE) /\ q = [process |-> "dead", closing |-> FALSE]
       \/ /\ c.cut = "no" => Living(p)
          /\ d = Left(c, TRUE) /\ q = [p EXCEPT !.closing = FALSE]
Runs(phase, c, d, p, q) ==
    \/ Begun(phase, c, d, p, q) \/ Expired(c, d, p, q)
    \/ /\ phase \in {"running", "stopping"}
       /\ \/ Cancelled(c, d, p, q) \/ Connected(c, d, p, q) \/ OpenedUp(c, d, p, q)
          \/ Turned(c, d, p, q) \/ Closed(c, d, p, q) \/ Told(c, d, p, q) \/ Ended(c, d, p, q)

\* The g-th turn of s becomes d; its generation may be complete by that.
Turns(s, g, d) ==
    /\ turn' = [turn EXCEPT ![s] = [turn[s] EXCEPT ![g] = d]]
    /\ loop' \in {loop, [loop EXCEPT ![s] = Completed(loop[s], g)]}
Processes == [process : {"none", "alive", "told", "dead"}, closing : BOOLEAN]
Coroutine(s, g) ==
    \E d \in Turn, q \in Processes :
        /\ Runs(loop[s].phase, turn[s][g], d, proc[s], q)
        /\ Turns(s, g, d) /\ proc' = [proc EXCEPT ![s] = q] /\ home' = home

\* The workers of all sessions.
Workers ==
    /\ loop \in [Sessions -> Worker] /\ turn \in [Sessions -> Seq(Turn)]
    /\ proc \in [Sessions -> Processes]
    /\ home \in [Sessions -> {"none", "there", "gone"}]
    /\ \A s \in Sessions : WorkerFits(loop[s], turn[s])

LEMMA WorkerTypes ==
    ASSUME Workers, NEW s \in Sessions
    PROVE  /\ loop[s] \in Worker /\ turn[s] \in Seq(Turn) /\ Len(turn[s]) \in Nat
           /\ DOMAIN turn[s] = 1 .. Len(turn[s]) /\ loop[s].submitted = Len(turn[s])
           /\ loop[s].active \in 0 .. Len(turn[s]) /\ loop[s].completed \in 0 .. Len(turn[s])
           /\ proc[s] \in Processes
           /\ \A g \in 1 .. Len(turn[s]) : turn[s][g] \in Turn /\ TurnFits(loop[s].phase, turn[s][g])
           /\ loop[s].phase = "none" => turn[s] = <<>>
<1>1. /\ loop[s] \in Worker /\ turn[s] \in Seq(Turn) /\ WorkerFits(loop[s], turn[s])
      /\ loop[s].active \in Nat /\ loop[s].completed \in Nat /\ proc[s] \in Processes
  BY DEF Workers, Worker
<1>2. Len(turn[s]) \in Nat /\ DOMAIN turn[s] = 1 .. Len(turn[s])
      /\ \A g \in 1 .. Len(turn[s]) : turn[s][g] \in Turn
  BY <1>1, LenProperties, ElementOfSeq
<1> QED BY <1>1, <1>2 DEF WorkerFits

\* Records keep their fields.
LEMMA TurnRecords ==
    ASSUME NEW c \in Turn
    PROVE  /\ \A step \in Steps, raised \in Results : Moved(c, step, raised) \in Turn
           /\ \A raised \in Results : Settled(c, raised) \in Turn /\ Unwound(c, raised) \in Turn
           /\ \A wrong \in BOOLEAN : Left(c, wrong) \in Turn
<1>1. /\ \A step \in Steps, raised \in Results : Moved(c, step, raised) \in Turn
      /\ \A raised \in Results : Settled(c, raised) \in Turn
  BY DEF Moved, Settled, Turn, Results, Steps
<1>2. ASSUME NEW raised \in Results PROVE Unwound(c, raised) \in Turn
  <2>1. {"claim", "session"} \subseteq Steps
    BY DEF Steps
  <2> QED BY <1>1, <2>1 DEF Unwound
<1>3. ASSUME NEW wrong \in BOOLEAN PROVE Left(c, wrong) \in Turn
  <2>1. CASE c.kind = "close"
    BY <1>1, <2>1 DEF Left, Results
  <2>2. CASE c.kind # "close"
    <3>1. c.unclosed \in BOOLEAN
      BY DEF Turn
    <3> DEFINE b == c.unclosed \/ wrong
    <3>2. b \in BOOLEAN /\ Left(c, wrong) = [c EXCEPT !.at = "home", !.cut = "no", !.unclosed = b]
      BY <2>2, <3>1 DEF Left
    <3> HIDE DEF b
    <3> QED BY <3>2 DEF Turn, Steps
  <2> QED BY <2>1, <2>2
<1> QED BY <1>1, <1>2, <1>3

\* The worker's operators on the g-th turn of s, as what they make of it.
LEMMA StepRecords ==
    ASSUME Workers, NEW s \in Sessions, NEW g \in 1 .. Len(turn[s])
    PROVE  /\ \A step, raised : Move(s, g, step, raised) => Turns(s, g, Moved(turn[s][g], step, raised))
           /\ \A raised : Settle(s, g, raised) => Turns(s, g, Settled(turn[s][g], raised))
           /\ \A raised : Unwind(s, g, raised) => Turns(s, g, Unwound(turn[s][g], raised))
           /\ \A wrong : Leave(s, g, wrong) => Turns(s, g, Left(turn[s][g], wrong))
<1> DEFINE c == turn[s][g]
<1>1. /\ turn \in [Sessions -> Seq(Turn)] /\ turn[s] \in Seq(Turn) /\ c \in Turn
      /\ loop \in [Sessions -> Worker] /\ g \in DOMAIN turn[s]
  BY WorkerTypes DEF Workers
<1>e. ASSUME NEW d, turn' = [turn EXCEPT ![s] = [turn[s] EXCEPT ![g] = d]],
             loop' = loop \/ loop' = [loop EXCEPT ![s] = Completed(loop[s], g)]
      PROVE  Turns(s, g, d)
  BY <1>e DEF Turns
<1>2. ASSUME NEW step, NEW raised, Move(s, g, step, raised)
      PROVE  Turns(s, g, Moved(c, step, raised))
  <2>1. turn' = [turn EXCEPT ![s] = [turn[s] EXCEPT ![g] = Moved(c, step, raised)]] /\ loop' = loop
    BY <1>2, <1>1 DEF Move, Moved, Turn
  <2> QED BY <2>1, <1>e
<1>3. ASSUME NEW raised, Settle(s, g, raised)
      PROVE  Turns(s, g, Settled(c, raised))
  <2>1. turn' = [turn EXCEPT ![s] = [turn[s] EXCEPT ![g] = Settled(c, raised)]]
    BY <1>3, <1>1 DEF Settle, Settled, Turn
  <2>2. loop' = [loop EXCEPT ![s] = Completed(loop[s], g)]
    BY <1>3, <1>1 DEF Settle
  <2> QED BY <2>1, <2>2, <1>e
<1>4. ASSUME NEW raised, Unwind(s, g, raised)
      PROVE  Turns(s, g, Unwound(c, raised))
  BY <1>4, <1>2, <1>3 DEF Unwind, Unwound
<1>5. ASSUME NEW wrong, Leave(s, g, wrong)
      PROVE  Turns(s, g, Left(c, wrong))
  <2>1. CASE c.kind = "close"
    BY <1>5, <2>1, <1>3 DEF Leave, Left
  <2>2. CASE c.kind # "close"
    <3> DEFINE b == turn[s][g].unclosed \/ wrong
    <3>1. /\ turn' = [turn EXCEPT ![s][g].at = "home", ![s][g].cut = "no", ![s][g].unclosed = b]
          /\ loop' = loop /\ Left(c, wrong) = [c EXCEPT !.at = "home", !.cut = "no", !.unclosed = b]
      BY <1>5, <2>2 DEF Leave, Left
    <3> HIDE DEF b
    <3>2. turn' = [turn EXCEPT ![s] = [turn[s] EXCEPT ![g] = Left(c, wrong)]]
      BY <3>1, <1>1 DEF Turn
    <3> QED BY <3>1, <3>2, <1>e
  <2> QED BY <2>1, <2>2
<1> HIDE DEF c
<1> QED BY <1>2, <1>3, <1>4, <1>5 DEF c

\* Both brokers stand on the same workers.
LEMMA SameSets ==
    /\ Probing!Sessions = Sessions /\ Probing!Turn = Turn /\ Probing!Worker = Worker
    /\ Probing!NoSession = 0 /\ NoSession = 0
BY DEF Probing!Sessions, Sessions, Probing!Turn, Turn, Probing!Worker, Worker, Probing!Kinds, Kinds,
       Probing!Steps, Steps, Probing!Results, Results, Probing!Phases, Phases, NoSession, Probing!NoSession

LEMMA SameState ==
    ASSUME NEW s, NEW g
    PROVE  /\ Probing!Begins(s, g) <=> Begins(s, g)
           /\ Probing!Alive(s) <=> Alive(s)
           /\ Probing!Stopped(s) <=> Stopped(s)
           /\ Probing!TransportAlive(s) <=> TransportAlive(s)
           /\ Probing!ProcessAlive(s) <=> ProcessAlive(s)
           /\ Probing!Idle(s) <=> Idle(s)
           /\ Probing!IsNew(s) <=> IsNew(s)
           /\ Probing!Target(s) = Target(s)
           /\ Probing!Answer(s, g) = Answer(s, g)
           /\ Probing!Whole(s, g) <=> Whole(s, g)
           /\ \A step : Probing!At(s, g, step) <=> At(s, g, step)
           /\ \A c : Probing!Started(c) <=> Started(c)
BY DEF Probing!Begins, Begins, Probing!Alive, Alive, Probing!Stopped, Stopped, Probing!TransportAlive,
       TransportAlive, Probing!ProcessAlive, ProcessAlive, Probing!Idle, Idle, Probing!Target, Target,
       Probing!Answer, Answer, Probing!Whole, Whole, Probing!At, At, Probing!Started, Started,
       Probing!IsNew, IsNew

LEMMA SameMoves ==
    ASSUME NEW s, NEW g
    PROVE  /\ \A step, raised : Probing!Move(s, g, step, raised) <=> Move(s, g, step, raised)
           /\ \A raised : Probing!Settle(s, g, raised) <=> Settle(s, g, raised)
           /\ \A raised : Probing!Unwind(s, g, raised) <=> Unwind(s, g, raised)
           /\ \A wrong : Probing!Leave(s, g, wrong) <=> Leave(s, g, wrong)
<1>1. \A step, raised : Probing!Move(s, g, step, raised) <=> Move(s, g, step, raised)
  BY DEF Probing!Move, Move
<1>2. \A raised : Probing!Settle(s, g, raised) <=> Settle(s, g, raised)
  BY DEF Probing!Settle, Settle, Probing!Completed, Completed
<1>3. \A raised : Probing!Unwind(s, g, raised) <=> Unwind(s, g, raised)
  BY <1>1, <1>2 DEF Probing!Unwind, Unwind
<1>4. ASSUME NEW wrong PROVE Probing!Leave(s, g, wrong) <=> Leave(s, g, wrong)
  <2> DEFINE b == turn[s][g].unclosed \/ wrong
  <2>1. Leave(s, g, wrong) <=>
            IF turn[s][g].kind = "close" THEN Settle(s, g, IF b THEN "error" ELSE "ok")
            ELSE /\ turn' = [turn EXCEPT ![s][g].at = "home", ![s][g].cut = "no", ![s][g].unclosed = b]
                 /\ UNCHANGED loop
    BY DEF Leave
  <2>2. Probing!Leave(s, g, wrong) <=>
            IF turn[s][g].kind = "close" THEN Probing!Settle(s, g, IF b THEN "error" ELSE "ok")
            ELSE /\ turn' = [turn EXCEPT ![s][g].at = "home", ![s][g].cut = "no", ![s][g].unclosed = b]
                 /\ UNCHANGED loop
    BY DEF Probing!Leave
  <2> HIDE DEF b
  <2> QED BY <2>1, <2>2, <1>2
<1> QED BY <1>1, <1>2, <1>3, <1>4

LEMMA SameSubmissions ==
    ASSUME NEW s
    PROVE  /\ \A kind : Probing!Submit(s, kind) <=> Submit(s, kind)
           /\ \A g : Probing!GiveUp(s, g) <=> GiveUp(s, g)
           /\ \A g : Probing!CancelTarget(s, g) <=> CancelTarget(s, g)
           /\ Probing!Want(s) <=> Want(s)
           /\ Probing!Stopping(s) <=> Stopping(s)
<1>1. \A l, t, g, why : Probing!Cut(l, t, g, why) = Cut(l, t, g, why)
  BY DEF Probing!Cut, Cut, Probing!Completed, Completed
<1>2. \A next : Probing!Become(s, next) <=> Become(s, next)
  BY DEF Probing!Become, Become
<1>3. \A kind : Probing!Submission(s, kind) = Submission(s, kind)
  BY <1>1 DEF Probing!Submission, Submission, Probing!Stopped, Stopped, Probing!NewTurn, NewTurn,
              Probing!Completed, Completed
<1>4. \A l, t : Probing!StopCut(l, t) = StopCut(l, t)
  BY <1>1 DEF Probing!StopCut, StopCut, Probing!Started, Started
<1>5. \A kind : Probing!Submit(s, kind) <=> Submit(s, kind)
  BY <1>2, <1>3 DEF Probing!Submit, Submit
<1>6. \A g : Probing!GiveUp(s, g) <=> GiveUp(s, g)
  BY <1>1, <1>2 DEF Probing!GiveUp, GiveUp, Probing!Answer, Answer
<1>7. \A g : Probing!CancelTarget(s, g) <=> CancelTarget(s, g)
  BY <1>1, <1>2 DEF Probing!CancelTarget, CancelTarget
<1>8. Probing!Want(s) <=> Want(s)
  BY DEF Probing!Want, Want
<1>9. Probing!Stopping(s) <=> Stopping(s)
  BY <1>2, <1>4 DEF Probing!Stopping, Stopping
<1> QED BY <1>5, <1>6, <1>7, <1>8, <1>9

\* A coroutine's step of the probes.
LEMMA ProbingRuns ==
    ASSUME Workers, NEW s \in Sessions, NEW g \in 1 .. Len(turn[s]), Probing!CoroutineStep(s, g)
    PROVE  Coroutine(s, g)
<1> DEFINE c == turn[s][g]
<1> DEFINE p == proc[s]
<1>1. /\ c \in Turn /\ p \in Processes /\ proc \in [Sessions -> Processes] /\ g \in DOMAIN turn[s]
      /\ turn \in [Sessions -> Seq(Turn)] /\ turn[s] \in Seq(Turn)
      /\ TurnFits(loop[s].phase, c)
  BY WorkerTypes DEF Workers
<1>r. /\ {"ok", "error", "cancelled", "timeout"} = Results /\ c.cut \in Results \cup {"no"}
      /\ {"open", "turn", "session", "claim"} \subseteq Steps /\ c.raised \in Results
  BY <1>1 DEF Results, Steps, Turn
<1>e. ASSUME NEW d \in Turn, NEW q \in Processes, Runs(loop[s].phase, c, d, p, q), Turns(s, g, d),
             proc' = [proc EXCEPT ![s] = q], home' = home
      PROVE  Coroutine(s, g)
  BY <1>e DEF Coroutine
<1>s. /\ Probing!TransportAlive(s) <=> Living(p) /\ ~p.closing
      /\ Probing!ProcessAlive(s) <=> Living(p)
      /\ \A step : Probing!At(s, g, step) <=> loop[s].phase \in {"running", "stopping"} /\ c.at = step
      /\ Probing!Whole(s, g) <=> c.cut = "no"
      /\ Probing!Begins(s, g) <=> loop[s].phase = "running" /\ c.at = "queued"
  BY DEF Probing!TransportAlive, Probing!ProcessAlive, Living, Probing!At, Probing!Alive, Probing!Whole,
         Probing!Begins
<1>p. proc' = proc => proc' = [proc EXCEPT ![s] = p]
  BY <1>1
<1>m. /\ \A step, raised : Probing!Move(s, g, step, raised) => Turns(s, g, Moved(c, step, raised))
      /\ \A raised : Probing!Settle(s, g, raised) => Turns(s, g, Settled(c, raised))
      /\ \A raised : Probing!Unwind(s, g, raised) => Turns(s, g, Unwound(c, raised))
      /\ \A wrong : Probing!Leave(s, g, wrong) => Turns(s, g, Left(c, wrong))
  BY StepRecords, SameMoves
<1>t. /\ \A step \in Steps, raised \in Results : Moved(c, step, raised) \in Turn
      /\ \A raised \in Results : Settled(c, raised) \in Turn /\ Unwound(c, raised) \in Turn
      /\ \A wrong \in BOOLEAN : Left(c, wrong) \in Turn
  BY <1>1, TurnRecords
<1>x. ASSUME NEW d, turn' = [turn EXCEPT ![s] = [turn[s] EXCEPT ![g] = d]], loop' = loop
      PROVE  Turns(s, g, d)
  BY <1>x DEF Turns
<1>2. CASE Probing!BeginClose(s, g)
  <2>1. Turns(s, g, Moved(c, "session", "ok")) /\ proc' = proc /\ home' = home
    BY <1>2, <1>m DEF Probing!BeginClose
  <2>2. Runs(loop[s].phase, c, Moved(c, "session", "ok"), p, p)
    BY <1>2, <1>s DEF Probing!BeginClose, Runs, Begun
  <2> QED BY <2>1, <2>2, <1>1, <1>r, <1>t, <1>p, <1>e
<1>3. CASE Probing!Expires(s, g)
  <2> DEFINE d == [c EXCEPT !.cut = "timeout"]
  <2>1. d \in Turn
    BY <1>1 DEF Turn
  <2>2. turn' = [turn EXCEPT ![s] = [turn[s] EXCEPT ![g] = d]] /\ loop' = loop /\ proc' = proc /\ home' = home
    BY <1>3, <1>1 DEF Probing!Expires, Turn
  <2>3. Runs(loop[s].phase, c, d, p, p)
    BY <1>3, <1>s, SameState DEF Probing!Expires, Runs, Expired
  <2> HIDE DEF d
  <2> QED BY <2>1, <2>2, <2>3, <1>1, <1>p, <1>x, <1>e
<1>4. CASE Probing!Interrupted(s, g)
  <2>1. Turns(s, g, Unwound(c, c.cut)) /\ proc' = proc /\ home' = home
    BY <1>4, <1>m DEF Probing!Interrupted
  <2>2. Runs(loop[s].phase, c, Unwound(c, c.cut), p, p) /\ c.cut # "no"
    BY <1>4, <1>s DEF Probing!Interrupted, Runs, Cancelled, Opened
  <2>3. Unwound(c, c.cut) \in Turn
    BY <2>2, <1>r, <1>t
  <2> QED BY <2>1, <2>2, <2>3, <1>1, <1>p, <1>e
<1>5. CASE Probing!Connect(s, g)
  <2> DEFINE q == [p EXCEPT !.process = IF p.process = "none" THEN "alive" ELSE p.process]
  <2>1. q \in Processes
    BY <1>1 DEF Processes
  <2>2. proc' = [proc EXCEPT ![s] = q] /\ home' = home
    BY <1>5, <1>1 DEF Probing!Connect, Processes
  <2>3. PICK d \in {Moved(c, "open", "ok"), Unwound(c, "error")} : Turns(s, g, d)
    BY <1>5, <1>m DEF Probing!Connect
  <2>4. Runs(loop[s].phase, c, d, p, q)
    BY <1>5, <1>s DEF Probing!Connect, Runs, Connected
  <2>5. d \in Turn
    BY <1>r, <1>t
  <2> HIDE DEF q
  <2> QED BY <2>1, <2>2, <2>3, <2>4, <2>5, <1>e
<1>6. CASE Probing!Open(s, g)
  <2>1. \E d \in {Settled(c, "ok"), Moved(c, "turn", "ok"), Unwound(c, "error")} :
            /\ Turns(s, g, d)
            /\ \/ d = Unwound(c, "error")
               \/ /\ Probing!TransportAlive(s)
                  /\ d = IF c.kind = "prepare" THEN Settled(c, "ok") ELSE Moved(c, "turn", "ok")
    BY <1>6, <1>m DEF Probing!Open
  <2>2. PICK d \in {Settled(c, "ok"), Moved(c, "turn", "ok"), Unwound(c, "error")} :
            /\ Turns(s, g, d)
            /\ \/ d = Unwound(c, "error")
               \/ /\ Probing!TransportAlive(s)
                  /\ d = IF c.kind = "prepare" THEN Settled(c, "ok") ELSE Moved(c, "turn", "ok")
    BY <2>1
  <2>3. Runs(loop[s].phase, c, d, p, p)
    BY <1>6, <2>2, <1>s DEF Probing!Open, Runs, OpenedUp
  <2>4. d \in Turn /\ proc' = proc /\ home' = home
    BY <1>6, <1>r, <1>t DEF Probing!Open
  <2> QED BY <2>2, <2>3, <2>4, <1>1, <1>p, <1>e
<1>7. CASE Probing!Ask(s, g)
  <2>1. PICK d \in {Unwound(c, "ok"), Unwound(c, "error")} :
            /\ Turns(s, g, d)
            /\ d = Unwound(c, "error") \/ (Probing!TransportAlive(s) /\ d = Unwound(c, "ok"))
    BY <1>7, <1>m DEF Probing!Ask
  <2>2. Runs(loop[s].phase, c, d, p, p)
    BY <1>7, <2>1, <1>s DEF Probing!Ask, Runs, Turned
  <2>3. d \in Turn /\ proc' = proc /\ home' = home
    BY <1>7, <1>r, <1>t DEF Probing!Ask
  <2> QED BY <2>1, <2>2, <2>3, <1>1, <1>p, <1>e
<1>8. CASE Probing!SessionClose(s, g)
  <2>0. /\ loop[s].phase \in {"running", "stopping"} /\ c.at = "session" /\ proc' = proc /\ home' = home
    BY <1>8, <1>s DEF Probing!SessionClose
  <2>1. CASE p.process = "none"
    <3>1. Turns(s, g, Left(c, FALSE))
      BY <1>8, <2>1, <1>m DEF Probing!SessionClose
    <3>2. Runs(loop[s].phase, c, Left(c, FALSE), p, p)
      BY <2>0, <2>1 DEF Runs, Closed
    <3> QED BY <2>0, <3>1, <3>2, <1>1, <1>t, <1>p, <1>e
  <2>2. CASE p.process # "none"
    <3> DEFINE b == c.unclosed \/ c.cut # "no"
    <3> DEFINE d == [c EXCEPT !.at = "transport", !.cut = "no", !.unclosed = b]
    <3>1. b \in BOOLEAN
      BY <1>1 DEF Turn
    <3>2. turn' = [turn EXCEPT ![s][g].at = "transport", ![s][g].cut = "no", ![s][g].unclosed = b] /\ loop' = loop
      BY <1>8, <2>2, <1>s DEF Probing!SessionClose
    <3>3. Runs(loop[s].phase, c, d, p, p)
      BY <2>0, <2>2 DEF Runs, Closed
    <3> HIDE DEF b
    <3>4. turn' = [turn EXCEPT ![s] = [turn[s] EXCEPT ![g] = d]]
      BY <3>2, <1>1 DEF Turn
    <3>5. d \in Turn
      BY <3>1, <1>1 DEF Turn, Steps
    <3> HIDE DEF d
    <3> QED BY <2>0, <3>2, <3>3, <3>4, <3>5, <1>1, <1>p, <1>x, <1>e
  <2> QED BY <2>1, <2>2
<1>9. CASE Probing!Terminate(s, g)
  <2>0. /\ loop[s].phase \in {"running", "stopping"} /\ c.at = "transport" /\ home' = home
    BY <1>9, <1>s DEF Probing!Terminate
  <2>1. CASE p.closing
    <3>1. Turns(s, g, Left(c, TRUE)) /\ proc' = proc
      BY <1>9, <2>1, <1>m DEF Probing!Terminate
    <3>2. Runs(loop[s].phase, c, Left(c, TRUE), p, p)
      BY <2>0, <2>1 DEF Runs, Told
    <3> QED BY <2>0, <3>1, <3>2, <1>1, <1>t, <1>p, <1>e
  <2>2. CASE ~p.closing
    <3> DEFINE d == [c EXCEPT !.at = "exit"]
    <3> DEFINE q == [process |-> IF p.process = "alive" THEN "told" ELSE p.process, closing |-> TRUE]
    <3>1. d \in Turn /\ q \in Processes
      BY <1>1 DEF Turn, Processes, Steps
    <3>2. turn' = [turn EXCEPT ![s] = [turn[s] EXCEPT ![g] = d]] /\ loop' = loop
      BY <1>9, <2>2, <1>1 DEF Probing!Terminate, Turn
    <3>3. proc' = [proc EXCEPT ![s] = q]
      BY <1>9, <2>2, <1>1 DEF Probing!Terminate
    <3>4. Runs(loop[s].phase, c, d, p, q)
      BY <2>0, <2>2 DEF Runs, Told
    <3> HIDE DEF d, q
    <3> QED BY <2>0, <3>1, <3>2, <3>3, <3>4, <1>x, <1>e
  <2> QED BY <2>1, <2>2
<1>10. ASSUME Probing!Reaped(s, g) \/ Probing!Spared(s, g) PROVE Coroutine(s, g)
  <2>0. /\ loop[s].phase \in {"running", "stopping"} /\ c.at = "exit" /\ home' = home
    BY <1>10, <1>s DEF Probing!Reaped, Probing!Spared
  <2> DEFINE z == [process |-> "dead", closing |-> FALSE]
  <2> DEFINE k == [p EXCEPT !.closing = FALSE]
  <2>1. z \in Processes /\ k \in Processes
    BY <1>1 DEF Processes
  <2>2. (proc' = [proc EXCEPT ![s].closing = FALSE]) => proc' = [proc EXCEPT ![s] = k]
    BY <1>1 DEF Processes
  <2>3. \/ Probing!Leave(s, g, FALSE) /\ c.cut = "no" /\ proc' = [proc EXCEPT ![s] = z]
        \/ Probing!Leave(s, g, TRUE) /\ (c.cut = "no" => Living(p)) /\ proc' = [proc EXCEPT ![s] = k]
    BY <1>10, <2>2, <1>s DEF Probing!Reaped, Probing!Spared
  <2> HIDE DEF z, k
  <2>4. CASE Probing!Leave(s, g, FALSE) /\ c.cut = "no" /\ proc' = [proc EXCEPT ![s] = z]
    <3>1. Turns(s, g, Left(c, FALSE)) /\ Left(c, FALSE) \in Turn
      BY <2>4, <1>m, <1>t
    <3>2. Runs(loop[s].phase, c, Left(c, FALSE), p, z)
      BY <2>0, <2>4 DEF Runs, Ended, z
    <3> QED BY <2>0, <2>1, <2>4, <3>1, <3>2, <1>e
  <2>5. CASE Probing!Leave(s, g, TRUE) /\ (c.cut = "no" => Living(p)) /\ proc' = [proc EXCEPT ![s] = k]
    <3>1. Turns(s, g, Left(c, TRUE)) /\ Left(c, TRUE) \in Turn
      BY <2>5, <1>m, <1>t
    <3>2. Runs(loop[s].phase, c, Left(c, TRUE), p, k)
      BY <2>0, <2>5 DEF Runs, Ended, k
    <3> QED BY <2>0, <2>1, <2>5, <3>1, <3>2, <1>e
  <2> QED BY <2>3, <2>4, <2>5
<1> QED BY <1>2, <1>3, <1>4, <1>5, <1>6, <1>7, <1>8, <1>9, <1>10 DEF Probing!CoroutineStep

\* A coroutine's step keeps its turn fit, its kind and the answer of its future.
LEMMA RunsFits ==
    ASSUME NEW phase, NEW c \in Turn, NEW d \in Turn, NEW p, NEW q, TurnFits(phase, c),
           Runs(phase, c, d, p, q)
    PROVE  /\ TurnFits(phase, d) /\ d.kind = c.kind /\ c.at # "done"
           /\ d.future # c.future => c.future = "pending" /\ d.at = "done"
           /\ d.at # "queued"
<1> DEFINE Goal == /\ TurnFits(phase, d) /\ d.kind = c.kind /\ c.at # "done"
                   /\ d.future # c.future => c.future = "pending" /\ d.at = "done"
                   /\ d.at # "queued"
<1>1. /\ \A step, raised :
            /\ Moved(c, step, raised).at = step /\ Moved(c, step, raised).kind = c.kind
            /\ Moved(c, step, raised).unclosed = c.unclosed /\ Moved(c, step, raised).future = c.future
            /\ raised \notin {"cancelled", "timeout"} => Moved(c, step, raised).cut = c.cut
      /\ \A raised :
            /\ Settled(c, raised).at = "done" /\ Settled(c, raised).kind = c.kind
            /\ Settled(c, raised).future = IF c.future = "pending" THEN raised ELSE c.future
  BY DEF Moved, Settled, Turn
<1>2. /\ {"ok", "error", "cancelled", "timeout"} = Results
      /\ c.kind \in Kinds /\ c.cut \in {"no", "cancelled", "timeout"} /\ c.future \in Results \cup {"pending"}
      /\ c.unclosed \in BOOLEAN
  BY DEF Turn, Results
<1>3. ASSUME NEW raised \in Results, d = Settled(c, raised), c.at # "done"
      PROVE  Goal
  BY <1>1, <1>2, <1>3 DEF TurnFits, Started, Opened
<1>4. ASSUME NEW raised \in Results, d = Unwound(c, raised), c.at \in Opened,
             phase \in {"running", "stopping"}
      PROVE  Goal
  <2>1. CASE c.kind = "ask" \/ (c.kind = "prepare" /\ raised # "error")
    BY <2>1, <1>3, <1>4 DEF Unwound, Opened
  <2>2. CASE ~(c.kind = "ask" \/ (c.kind = "prepare" /\ raised # "error"))
    <3>1. d = Moved(c, IF c.kind = "prepare" THEN "claim" ELSE "session", raised)
      BY <2>2, <1>4 DEF Unwound
    <3> QED BY <3>1, <2>2, <1>1, <1>4 DEF TurnFits, Started, Opened
  <2> QED BY <2>1, <2>2
<1>5. ASSUME NEW wrong \in BOOLEAN, d = Left(c, wrong), c.at \in {"session", "transport", "exit"},
             phase \in {"running", "stopping"}
      PROVE  Goal
  <2>1. CASE c.kind = "close"
    BY <2>1, <1>2, <1>3, <1>5 DEF Left
  <2>2. CASE c.kind # "close"
    <3> DEFINE b == c.unclosed \/ wrong
    <3>1. d = [c EXCEPT !.at = "home", !.cut = "no", !.unclosed = b]
      BY <2>2, <1>5 DEF Left
    <3> HIDE DEF b
    <3>2. d.at = "home" /\ d.kind = c.kind /\ d.future = c.future
      BY <3>1 DEF Turn
    <3> QED BY <3>2, <2>2, <1>2, <1>5 DEF TurnFits, Started, Opened, Kinds
  <2> QED BY <2>1, <2>2
<1> HIDE DEF Goal
<1>6. ASSUME Begun(phase, c, d, p, q) PROVE Goal
  BY <1>6, <1>1 DEF Begun, Goal, TurnFits, Started, Opened
<1>7. ASSUME Expired(c, d, p, q) PROVE Goal
  <2>1. d.at = c.at /\ d.kind = c.kind /\ d.future = c.future /\ d.unclosed = c.unclosed /\ d.cut = "timeout"
    BY <1>7 DEF Expired, Turn
  <2> QED BY <2>1, <1>7 DEF Expired, Goal, TurnFits, Started, Opened
<1>8. ASSUME phase \in {"running", "stopping"}, Cancelled(c, d, p, q) PROVE Goal
  BY <1>8, <1>2, <1>4 DEF Cancelled
<1>9. ASSUME phase \in {"running", "stopping"}, Connected(c, d, p, q) PROVE Goal
  <2>1. CASE d = Unwound(c, "error")
    BY <2>1, <1>9, <1>2, <1>4 DEF Connected, Opened
  <2>2. CASE d = Moved(c, "open", "ok")
    BY <2>2, <1>9, <1>1 DEF Connected, Goal, TurnFits, Started, Opened
  <2> QED BY <2>1, <2>2, <1>9 DEF Connected
<1>10. ASSUME phase \in {"running", "stopping"}, OpenedUp(c, d, p, q) PROVE Goal
  <2>1. CASE d = Unwound(c, "error")
    BY <2>1, <1>10, <1>2, <1>4 DEF OpenedUp, Opened
  <2>2. CASE d = Settled(c, "ok")
    BY <2>2, <1>10, <1>2, <1>3 DEF OpenedUp
  <2>3. CASE d = Moved(c, "turn", "ok") /\ c.kind # "prepare"
    BY <2>3, <1>10, <1>1 DEF OpenedUp, Goal, TurnFits, Started, Opened
  <2> QED BY <2>1, <2>2, <2>3, <1>10 DEF OpenedUp
<1>11. ASSUME phase \in {"running", "stopping"}, Turned(c, d, p, q) PROVE Goal
  BY <1>11, <1>2, <1>4 DEF Turned, Opened
<1>12. ASSUME phase \in {"running", "stopping"}, Closed(c, d, p, q) PROVE Goal
  <2>1. CASE d = Left(c, FALSE)
    BY <2>1, <1>12, <1>5 DEF Closed
  <2>2. CASE d # Left(c, FALSE)
    <3> DEFINE b == c.unclosed \/ c.cut # "no"
    <3>1. d = [c EXCEPT !.at = "transport", !.cut = "no", !.unclosed = b]
      BY <2>2, <1>12 DEF Closed
    <3> HIDE DEF b
    <3>2. d.at = "transport" /\ d.kind = c.kind /\ d.future = c.future
      BY <3>1 DEF Turn
    <3> QED BY <3>2, <1>12 DEF Closed, Goal, TurnFits, Started, Opened
  <2> QED BY <2>1, <2>2
<1>13. ASSUME phase \in {"running", "stopping"}, Told(c, d, p, q) PROVE Goal
  <2>1. CASE d = Left(c, TRUE)
    BY <2>1, <1>13, <1>5 DEF Told
  <2>2. CASE d # Left(c, TRUE)
    <3>1. d.at = "exit" /\ d.kind = c.kind /\ d.future = c.future
      BY <2>2, <1>13 DEF Told, Turn
    <3> QED BY <3>1, <1>13 DEF Told, Goal, TurnFits, Started, Opened
  <2> QED BY <2>1, <2>2
<1>14. ASSUME phase \in {"running", "stopping"}, Ended(c, d, p, q) PROVE Goal
  BY <1>14, <1>5 DEF Ended
<1>15. Goal
  BY <1>6, <1>7, <1>8, <1>9, <1>10, <1>11, <1>12, <1>13, <1>14 DEF Runs
<1> QED BY <1>15 DEF Goal

\* And what it does to the process.
LEMMA RunsProcess ==
    ASSUME NEW phase, NEW c \in Turn, NEW d \in Turn, NEW p \in Processes, NEW q \in Processes,
           Runs(phase, c, d, p, q)
    PROVE  \/ q.process = p.process
           \/ p.process = "none" /\ q.process = "alive" /\ c.at = "connect" /\ c.cut = "no"
           \/ p.process = "alive" /\ q.process = "told"
           \/ q.process = "dead" /\ c.at = "exit"
<1>1. Connected(c, d, p, q) =>
          \/ q.process = p.process
          \/ p.process = "none" /\ q.process = "alive" /\ c.at = "connect" /\ c.cut = "no"
  BY DEF Connected, Processes
<1>2. ASSUME Told(c, d, p, q) PROVE q.process = p.process \/ (p.process = "alive" /\ q.process = "told")
  <2> DEFINE k == IF p.process = "alive" THEN "told" ELSE p.process
  <2>1. q = p \/ q = [process |-> k, closing |-> TRUE]
    BY <1>2 DEF Told
  <2> HIDE DEF k
  <2>2. q = p \/ q.process = k
    BY <2>1
  <2> QED BY <2>2 DEF k
<1>3. ASSUME Ended(c, d, p, q) PROVE q.process = p.process \/ (q.process = "dead" /\ c.at = "exit")
  <2>1. q = [process |-> "dead", closing |-> FALSE] \/ q = [p EXCEPT !.closing = FALSE]
    BY <1>3 DEF Ended
  <2>2. q = [p EXCEPT !.closing = FALSE] => q.process = p.process
    BY DEF Processes
  <2>3. q = [process |-> "dead", closing |-> FALSE] => q.process = "dead"
    OBVIOUS
  <2>4. c.at = "exit"
    BY <1>3 DEF Ended
  <2> QED BY <2>1, <2>2, <2>3, <2>4
<1> QED BY <1>1, <1>2, <1>3 DEF Runs, Begun, Expired, Cancelled, OpenedUp, Turned, Closed

\* What any step does to the turns t of a session, as its threads see them.
Onwards(t, u) ==
    /\ Len(t) <= Len(u)
    /\ \A g \in 1 .. Len(t) :
          /\ u[g].kind = t[g].kind
          /\ t[g].future # "pending" => u[g].future = t[g].future
          /\ u[g].at = "queued" => t[g].at = "queued"
          /\ t[g].at = "done" => u[g].at = "done"

LEMMA HandledOnwards ==
    ASSUME NEW t, NEW u, Handled(t, u)
    PROVE  Onwards(t, u)
BY DEF Handled, Onwards, Touched, Started

LEMMA OnwardsSame == ASSUME NEW t \in Seq(Turn) PROVE Onwards(t, t)
BY LenProperties DEF Onwards

\* The g-th turn of a session is replaced by d.
LEMMA TurnsFits ==
    ASSUME Workers, NEW s \in Sessions, NEW g \in 1 .. Len(turn[s]), NEW d \in Turn, Turns(s, g, d),
           TurnFits(loop[s].phase, d)
    PROVE  /\ loop' \in [Sessions -> Worker] /\ turn' \in [Sessions -> Seq(Turn)]
           /\ \A r \in Sessions : WorkerFits(loop'[r], turn'[r])
           /\ \A r \in Sessions : loop'[r].phase = loop[r].phase /\ Len(turn'[r]) = Len(turn[r])
           /\ \A r \in Sessions \ {s} : turn'[r] = turn[r] /\ loop'[r] = loop[r]
           /\ \A h \in 1 .. Len(turn[s]) : turn'[s][h] = IF h = g THEN d ELSE turn[s][h]
<1> DEFINE l == Completed(loop[s], g)
<1> DEFINE t == [turn[s] EXCEPT ![g] = d]
<1>1. /\ loop \in [Sessions -> Worker] /\ turn \in [Sessions -> Seq(Turn)]
      /\ \A r \in Sessions : WorkerFits(loop[r], turn[r])
      /\ loop[s] \in Worker /\ turn[s] \in Seq(Turn) /\ Len(turn[s]) \in Nat
      /\ loop[s].active <= Len(turn[s]) /\ loop[s].completed <= Len(turn[s])
      /\ loop[s].submitted = Len(turn[s])
      /\ loop[s].phase # "none"
      /\ \A h \in 1 .. Len(turn[s]) : TurnFits(loop[s].phase, turn[s][h])
  <2>1. loop[s].phase = "none" => Len(turn[s]) = 0
    BY WorkerTypes, EmptySeq
  <2> QED BY <2>1, WorkerTypes DEF Workers
<1>2. /\ l \in Worker /\ l.submitted = loop[s].submitted /\ l.phase = loop[s].phase
      /\ l.active <= Len(turn[s]) /\ l.completed <= Len(turn[s])
  BY <1>1, CompletedFits
<1>3. /\ t \in Seq(Turn) /\ Len(t) = Len(turn[s])
      /\ \A h \in 1 .. Len(turn[s]) : t[h] = IF h = g THEN d ELSE turn[s][h]
  BY <1>1, ExceptSeq
<1> HIDE DEF l, t
<1>4. /\ turn' \in [Sessions -> Seq(Turn)] /\ loop' \in [Sessions -> Worker]
      /\ turn'[s] = t /\ loop'[s] \in {loop[s], l}
      /\ \A r \in Sessions \ {s} : turn'[r] = turn[r] /\ loop'[r] = loop[r]
  BY <1>1, <1>2, <1>3 DEF Turns, l, t
<1>5. WorkerFits(loop'[s], turn'[s])
  <2>1. \A h \in 1 .. Len(t) : TurnFits(loop[s].phase, t[h])
    BY <1>1, <1>3
  <2> QED BY <2>1, <1>1, <1>2, <1>3, <1>4 DEF WorkerFits
<1>6. \A r \in Sessions : r = s \/ r \in Sessions \ {s}
  OBVIOUS
<1> QED BY <1>1, <1>2, <1>3, <1>4, <1>5, <1>6

\* A coroutine's step among the workers.
LEMMA CoroutineFits ==
    ASSUME Workers, NEW s \in Sessions, NEW g \in 1 .. Len(turn[s]), Coroutine(s, g)
    PROVE  /\ Workers' /\ home' = home
           /\ \A r \in Sessions : loop'[r].phase = loop[r].phase /\ Onwards(turn[r], turn'[r])
           /\ \A r \in Sessions \ {s} : turn'[r] = turn[r] /\ loop'[r] = loop[r] /\ proc'[r] = proc[r]
           /\ Len(turn'[s]) = Len(turn[s])
           /\ \A h \in (1 .. Len(turn[s])) \ {g} : turn'[s][h] = turn[s][h]
           /\ Runs(loop[s].phase, turn[s][g], turn'[s][g], proc[s], proc'[s])
<1>1. PICK d \in Turn, q \in Processes :
          /\ Runs(loop[s].phase, turn[s][g], d, proc[s], q)
          /\ Turns(s, g, d) /\ proc' = [proc EXCEPT ![s] = q] /\ home' = home
  BY DEF Coroutine
<1>2. turn[s][g] \in Turn /\ TurnFits(loop[s].phase, turn[s][g])
  BY WorkerTypes
<1>3. /\ TurnFits(loop[s].phase, d) /\ d.kind = turn[s][g].kind /\ turn[s][g].at # "done"
      /\ turn[s][g].future # "pending" => d.future = turn[s][g].future
      /\ d.at # "queued"
  BY <1>1, <1>2, RunsFits
<1>4. /\ loop' \in [Sessions -> Worker] /\ turn' \in [Sessions -> Seq(Turn)]
      /\ \A r \in Sessions : WorkerFits(loop'[r], turn'[r])
      /\ \A r \in Sessions : loop'[r].phase = loop[r].phase /\ Len(turn'[r]) = Len(turn[r])
      /\ \A r \in Sessions \ {s} : turn'[r] = turn[r] /\ loop'[r] = loop[r]
      /\ \A h \in 1 .. Len(turn[s]) : turn'[s][h] = IF h = g THEN d ELSE turn[s][h]
  BY <1>1, <1>3, TurnsFits
<1>5. /\ proc' \in [Sessions -> Processes] /\ proc'[s] = q /\ \A r \in Sessions \ {s} : proc'[r] = proc[r]
      /\ home' \in [Sessions -> {"none", "there", "gone"}]
  BY <1>1 DEF Workers
<1>6. Workers'
  BY <1>4, <1>5 DEF Workers
<1>7. Onwards(turn[s], turn'[s])
  BY <1>3, <1>4, WorkerTypes DEF Onwards
<1>8. \A r \in Sessions \ {s} : Onwards(turn[r], turn'[r])
  <2>1. \A r \in Sessions \ {s} : turn[r] \in Seq(Turn)
    BY DEF Workers
  <2> QED BY <2>1, <1>4, OnwardsSame
<1> QED BY <1>1, <1>4, <1>5, <1>6, <1>7, <1>8

------------------------------------------------------------------------------
\* What a thread does to the worker of s.
Handling(s) ==
    /\ loop' \in [Sessions -> Worker] /\ turn' \in [Sessions -> Seq(Turn)]
    /\ \A r \in Sessions : WorkerFits(loop'[r], turn'[r]) /\ Onwards(turn[r], turn'[r])
    /\ \A r \in Sessions \ {s} : turn'[r] = turn[r] /\ loop'[r] = loop[r]
    /\ \A h \in 1 .. Len(turn[s]) : Touched(turn[s][h], turn'[s][h])
    /\ \/ loop'[s].phase = loop[s].phase
       \/ loop[s].phase = "running" /\ loop'[s].phase = "stopping"

LEMMA NothingHandled ==
    ASSUME Workers, NEW s \in Sessions, loop' = loop, turn' = turn
    PROVE  Handling(s)
<1>1. /\ loop \in [Sessions -> Worker] /\ turn \in [Sessions -> Seq(Turn)]
      /\ \A r \in Sessions : WorkerFits(loop[r], turn[r]) /\ turn[r] \in Seq(Turn)
  BY DEF Workers
<1>2. \A r \in Sessions : Onwards(turn[r], turn[r])
  BY <1>1, OnwardsSame
<1>3. \A h \in 1 .. Len(turn[s]) : Touched(turn[s][h], turn[s][h])
  BY TouchedSame
<1> QED BY <1>1, <1>2, <1>3 DEF Handling

LEMMA BecomeWorks ==
    ASSUME Workers, NEW s \in Sessions, NEW n, WorkerFits(n.loop, n.turn), Handled(turn[s], n.turn),
           \/ n.loop.phase = loop[s].phase
           \/ loop[s].phase = "running" /\ n.loop.phase = "stopping",
           Become(s, n)
    PROVE  Handling(s) /\ turn'[s] = n.turn /\ loop'[s] = n.loop
<1>1. /\ loop \in [Sessions -> Worker] /\ turn \in [Sessions -> Seq(Turn)]
      /\ \A r \in Sessions : WorkerFits(loop[r], turn[r])
      /\ n.loop \in Worker /\ n.turn \in Seq(Turn)
  BY DEF Workers, WorkerFits
<1>2. /\ loop' \in [Sessions -> Worker] /\ turn' \in [Sessions -> Seq(Turn)]
      /\ turn'[s] = n.turn /\ loop'[s] = n.loop
      /\ \A r \in Sessions \ {s} : turn'[r] = turn[r] /\ loop'[r] = loop[r]
  BY <1>1 DEF Become
<1>3. \A r \in Sessions : Onwards(turn[r], turn'[r]) /\ WorkerFits(loop'[r], turn'[r])
  <2> TAKE r \in Sessions
  <2>1. CASE r = s
    BY <2>1, <1>2, HandledOnwards
  <2>2. CASE r # s
    <3>1. turn[r] \in Seq(Turn)
      BY <1>1
    <3> QED BY <2>2, <3>1, <1>1, <1>2, OnwardsSame
  <2> QED BY <2>1, <2>2
<1>4. \A h \in 1 .. Len(turn[s]) : Touched(turn[s][h], turn'[s][h])
  BY <1>2 DEF Handled
<1> QED BY <1>2, <1>3, <1>4 DEF Handling

\* run submits a turn.
LEMMA SubmitWorks ==
    ASSUME Workers, NEW s \in Sessions, NEW kind \in Kinds, loop[s].phase # "none", Submit(s, kind)
    PROVE  LET g == Len(turn[s]) + 1
           IN /\ Handling(s) /\ Len(turn'[s]) = g /\ loop'[s].phase = loop[s].phase
              /\ turn'[s][g].kind = kind /\ turn'[s][g].at \in {"queued", "done"}
              /\ turn'[s][g].future # "ok"
<1> DEFINE g == Len(turn[s]) + 1
<1> DEFINE n == Submission(s, kind)
<1>1. WorkerFits(loop[s], turn[s])
  BY DEF Workers
<1>2. /\ WorkerFits(n.loop, n.turn) /\ Handled(turn[s], n.turn) /\ Len(n.turn) = g
      /\ n.loop.phase = loop[s].phase
      /\ n.turn[g].kind = kind /\ n.turn[g].at \in {"queued", "done"}
      /\ n.turn[g].future # "ok"
  BY <1>1, SubmissionFits
<1>3. Become(s, n)
  BY DEF Submit
<1> HIDE DEF n
<1>4. Handling(s) /\ turn'[s] = n.turn /\ loop'[s] = n.loop
  BY <1>2, <1>3, BecomeWorks
<1> QED BY <1>2, <1>4

\* A turn is cancelled by its thread's deadline or by cancel_active.
LEMMA CancelWorks ==
    ASSUME Workers, NEW s \in Sessions, NEW g \in Nat \ {0}, CancelTarget(s, g)
    PROVE  Handling(s) /\ Len(turn'[s]) = Len(turn[s]) /\ loop'[s].phase = loop[s].phase
<1>1. CASE loop[s].active # g
  <2>1. loop' = loop /\ turn' = turn
    BY <1>1 DEF CancelTarget
  <2> QED BY <2>1, NothingHandled
<1>2. CASE loop[s].active = g
  <2> DEFINE l == [loop[s] EXCEPT !.wanted = FALSE]
  <2> DEFINE n == Cut(l, turn[s], g, "cancelled")
  <2>1. Become(s, n)
    BY <1>2 DEF CancelTarget
  <2>2. /\ loop[s] \in Worker /\ WorkerFits(loop[s], turn[s]) /\ g \in 1 .. Len(turn[s])
    BY <1>2, WorkerTypes DEF Workers
  <2>3. WorkerFits(l, turn[s]) /\ l.phase = loop[s].phase
    BY <2>2 DEF WorkerFits, Worker
  <2> HIDE DEF l
  <2>4. /\ WorkerFits(n.loop, n.turn) /\ Handled(turn[s], n.turn) /\ Len(n.turn) = Len(turn[s])
        /\ n.loop.phase = l.phase
    BY <2>2, <2>3, CutFits
  <2> HIDE DEF n
  <2>5. Handling(s) /\ turn'[s] = n.turn /\ loop'[s] = n.loop
    BY <2>1, <2>3, <2>4, BecomeWorks
  <2> QED BY <2>3, <2>4, <2>5
<1> QED BY <1>1, <1>2

LEMMA GiveUpWorks ==
    ASSUME Workers, NEW s \in Sessions, NEW g \in 1 .. Len(turn[s]), GiveUp(s, g)
    PROVE  Handling(s) /\ Len(turn'[s]) = Len(turn[s]) /\ loop'[s].phase = loop[s].phase
<1> DEFINE n == Cut(loop[s], turn[s], g, "timeout")
<1>1. Become(s, n)
  BY DEF GiveUp
<1>2. WorkerFits(loop[s], turn[s])
  BY DEF Workers
<1>3. /\ WorkerFits(n.loop, n.turn) /\ Handled(turn[s], n.turn) /\ Len(n.turn) = Len(turn[s])
      /\ n.loop.phase = loop[s].phase
  BY <1>2, CutFits
<1> HIDE DEF n
<1>4. Handling(s) /\ turn'[s] = n.turn /\ loop'[s] = n.loop
  BY <1>1, <1>3, BecomeWorks
<1> QED BY <1>3, <1>4

LEMMA WantWorks ==
    ASSUME Workers, NEW s \in Sessions, Want(s)
    PROVE  Handling(s) /\ turn' = turn /\ loop'[s].phase = loop[s].phase
<1> DEFINE n == [loop |-> [loop[s] EXCEPT !.wanted = TRUE], turn |-> turn[s]]
<1>1. /\ loop[s] \in Worker /\ WorkerFits(loop[s], turn[s]) /\ turn[s] \in Seq(Turn)
      /\ turn \in [Sessions -> Seq(Turn)] /\ loop \in [Sessions -> Worker]
  BY WorkerTypes DEF Workers
<1>2. Become(s, n) /\ turn' = turn
  BY <1>1 DEF Want, Become, Worker
<1>3. WorkerFits(n.loop, n.turn) /\ n.loop.phase = loop[s].phase /\ n.turn = turn[s]
  BY <1>1 DEF WorkerFits, Worker
<1>4. Handled(turn[s], n.turn)
  BY <1>1, <1>3, HandledSame
<1> HIDE DEF n
<1>5. Handling(s) /\ loop'[s] = n.loop
  BY <1>2, <1>3, <1>4, BecomeWorks
<1> QED BY <1>2, <1>3, <1>5

LEMMA StoppingWorks ==
    ASSUME Workers, NEW s \in Sessions, Stopping(s)
    PROVE  /\ Handling(s) /\ Len(turn'[s]) = Len(turn[s]) /\ loop'[s].phase # "running"
           /\ loop[s].phase \in {"none", "stopped"} => loop'[s].phase = loop[s].phase
<1>1. CASE loop[s].phase # "running"
  <2>1. loop' = loop /\ turn' = turn
    BY <1>1 DEF Stopping
  <2> QED BY <1>1, <2>1, NothingHandled
<1>2. CASE loop[s].phase = "running"
  <2> DEFINE n == StopCut([loop[s] EXCEPT !.phase = "stopping"], turn[s])
  <2>1. Become(s, n)
    BY <1>2 DEF Stopping
  <2>2. WorkerFits(loop[s], turn[s])
    BY DEF Workers
  <2>3. /\ WorkerFits(n.loop, n.turn) /\ Handled(turn[s], n.turn) /\ Len(n.turn) = Len(turn[s])
        /\ n.loop.phase = "stopping"
    BY <1>2, <2>2, StoppedFits
  <2> HIDE DEF n
  <2>4. Handling(s) /\ turn'[s] = n.turn /\ loop'[s] = n.loop
    BY <1>2, <2>1, <2>3, BecomeWorks
  <2> QED BY <1>2, <2>3, <2>4
<1> QED BY <1>1, <1>2

------------------------------------------------------------------------------
(* The probes' sessions: the invariant.                                      *)

\* The first turn of a session is the one that prepares it; it may be ready, or spoilt.
Ready(t, c) == t # <<>> /\ t[1].future = "ok" /\ ~c.listed
Spoilt(t) == t # <<>> /\ t[1].future \notin {"ok", "pending"}
Gone(p) == p.process \in {"none", "dead"}
ProbeTurns(t) ==
    /\ \A g \in 1 .. Len(t) : /\ (t[g].kind = "prepare") = (g = 1)
                              /\ t[g].kind \in {"prepare", "ask", "close"}
    /\ Len(t) > 1 => t[1].future # "pending"

\* The turns t of a session with its process p, its home h and its cleanup c.
SessionFits(t, p, h, c) ==
    /\ p.closing => p.process \in {"told", "dead"}
    /\ \A g \in 1 .. Len(t) :
          /\ t[g].at \in {"transport", "exit"} => p.process # "none"
          /\ t[g].at = "home" /\ ~t[g].unclosed => Gone(p)
          /\ t[g].kind = "close" /\ t[g].future = "ok" => Gone(p)
    /\ t = <<>> \/ t[1].at = "queued" => p.process = "none" /\ h = "none" /\ ~c.listed /\ ~c.complete
    /\ t # <<>> /\ ~c.listed /\ t[1].future # "ok" => p.process # "alive" /\ h # "there"
    /\ t # <<>> /\ Started(t[1]) => c.listed /\ ~c.complete
    /\ t # <<>> /\ t[1].at \in {"session", "transport", "exit", "home"} => c.owner = "coroutine"
    /\ c.closed => Spoilt(t) /\ p.process # "alive"

\* And its one close f.
SpareFits(l, t, p, h, c, f) ==
    /\ f.closing => Ready(t, c)
    /\ f.closed => f.closing
    /\ f.ok => /\ f.closing /\ Gone(p) /\ h = "gone" /\ l.phase # "running"
               /\ f.closed => l.phase = "stopped"
ProbeSession(l, t, p, h, c, f) ==
    /\ ProbeTurns(t) /\ SessionFits(t, p, h, c) /\ SpareFits(l, t, p, h, c, f)

\* What a step keeps of a session, for those who work with it.
Keeps(l, t, h, c, m, u, i, d) ==
    /\ Onwards(t, u)
    /\ Ready(t, c) => Ready(u, d)
    /\ h = "gone" => i = "gone"
    /\ l.phase # "none" => m.phase # "none"
    /\ l.phase \notin {"none", "running"} => m.phase # "running"
    /\ l.phase = "stopped" => m.phase = "stopped"

\* Where a coroutine's step leads, and what its process is like there.
Closing == {"session", "transport", "exit", "home"}
LEMMA RunsPaths ==
    ASSUME NEW phase, NEW c \in Turn, NEW d \in Turn, NEW p \in Processes, NEW q \in Processes,
           TurnFits(phase, c), Runs(phase, c, d, p, q),
           c.at \in {"transport", "exit"} => p.process # "none",
           p.closing => p.process \in {"told", "dead"},
           c.at = "home" /\ ~c.unclosed => Gone(p)
    PROVE  /\ q.closing => q.process \in {"told", "dead"}
           /\ d.at \in {"transport", "exit"} => q.process # "none"
           /\ d.at = "home" /\ ~d.unclosed => Gone(q)
           /\ d.kind = "close" /\ d.future = "ok" => Gone(q)
           /\ c.kind = "prepare" /\ d.at \in Closing => c.at \in Closing
           /\ c.at = "queued" => c.kind = "close"
<1> DEFINE Goal == /\ q.closing => q.process \in {"told", "dead"}
                   /\ d.at \in {"transport", "exit"} => q.process # "none"
                   /\ d.at = "home" /\ ~d.unclosed => Gone(q)
                   /\ d.kind = "close" /\ d.future = "ok" => Gone(q)
                   /\ c.kind = "prepare" /\ d.at \in Closing => c.at \in Closing
                   /\ c.at = "queued" => c.kind = "close"
<1>1. /\ \A step, raised :
            /\ Moved(c, step, raised).at = step /\ Moved(c, step, raised).kind = c.kind
            /\ Moved(c, step, raised).future = c.future
      /\ \A raised :
            /\ Settled(c, raised).at = "done" /\ Settled(c, raised).kind = c.kind
            /\ Settled(c, raised).future = IF c.future = "pending" THEN raised ELSE c.future
  BY DEF Moved, Settled, Turn
<1>2. c.future = "ok" => c.at = "done"
  BY DEF TurnFits
<1>3. ASSUME NEW raised, d = Unwound(c, raised), c.at \in Opened, q.closing => q.process \in {"told", "dead"}
      PROVE  Goal
  <2>1. CASE d = Settled(c, raised)
    <3>1. c.kind # "close"
      BY <1>3 DEF TurnFits, Opened
    <3>2. d.at = "done" /\ d.kind = c.kind
      BY <2>1, <1>1
    <3> QED BY <3>1, <3>2, <1>3 DEF Opened, Closing
  <2>2. CASE d = Moved(c, IF c.kind = "prepare" THEN "claim" ELSE "session", raised)
    BY <2>2, <1>1, <1>2, <1>3 DEF Opened, Closing
  <2> QED BY <2>1, <2>2, <1>3 DEF Unwound
<1>4. ASSUME NEW wrong \in BOOLEAN, d = Left(c, wrong), c.at \in {"session", "transport", "exit"},
             q.closing => q.process \in {"told", "dead"}, wrong \/ Gone(q)
      PROVE  Goal
  <2>1. CASE c.kind = "close"
    <3>1. d = Settled(c, IF c.unclosed \/ wrong THEN "error" ELSE "ok")
      BY <2>1, <1>4 DEF Left
    <3> QED BY <3>1, <1>1, <1>2, <1>4 DEF Closing
  <2>2. CASE c.kind # "close"
    <3> DEFINE b == c.unclosed \/ wrong
    <3>1. d = [c EXCEPT !.at = "home", !.cut = "no", !.unclosed = b]
      BY <2>2, <1>4 DEF Left
    <3>2. wrong => b
      OBVIOUS
    <3> HIDE DEF b
    <3>3. d.at = "home" /\ d.kind = c.kind /\ d.unclosed = b
      BY <3>1 DEF Turn
    <3> QED BY <2>2, <3>2, <3>3, <1>4 DEF Closing
  <2> QED BY <2>1, <2>2
<1> HIDE DEF Goal
<1>5. ASSUME Begun(phase, c, d, p, q) PROVE Goal
  BY <1>5, <1>1, <1>2 DEF Begun, Goal
<1>6. ASSUME Expired(c, d, p, q) PROVE Goal
  <2>1. d.at = c.at /\ d.kind = c.kind /\ d.future = c.future /\ d.unclosed = c.unclosed
    BY <1>6 DEF Expired, Turn
  <2> QED BY <2>1, <1>2, <1>6 DEF Expired, Goal, Started
<1>7. ASSUME Cancelled(c, d, p, q) PROVE Goal
  BY <1>7, <1>3 DEF Cancelled
<1>8. ASSUME Connected(c, d, p, q) PROVE Goal
  <2>1. q.closing = p.closing /\ (p.process # "none" => q.process = p.process)
    BY <1>8 DEF Connected, Processes
  <2>2. q.closing => q.process \in {"told", "dead"}
    BY <2>1
  <2>3. CASE d = Unwound(c, "error")
    BY <2>2, <2>3, <1>8, <1>3 DEF Connected, Opened
  <2>4. CASE d = Moved(c, "open", "ok")
    BY <2>2, <2>4, <1>8, <1>1, <1>2 DEF Connected, Goal, Closing
  <2> QED BY <2>3, <2>4, <1>8 DEF Connected
<1>9. ASSUME OpenedUp(c, d, p, q) PROVE Goal
  <2>1. CASE d = Unwound(c, "error")
    BY <2>1, <1>9, <1>3 DEF OpenedUp, Opened
  <2>2. CASE d = Settled(c, "ok") /\ c.kind = "prepare"
    BY <2>2, <1>9, <1>1 DEF OpenedUp, Goal, Closing
  <2>3. CASE d = Moved(c, "turn", "ok")
    BY <2>3, <1>9, <1>1, <1>2 DEF OpenedUp, Goal, Closing
  <2> QED BY <2>1, <2>2, <2>3, <1>9 DEF OpenedUp
<1>10. ASSUME Turned(c, d, p, q) PROVE Goal
  BY <1>10, <1>3 DEF Turned, Opened
<1>11. ASSUME Closed(c, d, p, q) PROVE Goal
  <2>1. CASE p.process = "none"
    BY <2>1, <1>11, <1>4 DEF Closed, Gone
  <2>2. CASE p.process # "none"
    <3> DEFINE b == c.unclosed \/ c.cut # "no"
    <3>1. d = [c EXCEPT !.at = "transport", !.cut = "no", !.unclosed = b]
      BY <2>2, <1>11 DEF Closed
    <3> HIDE DEF b
    <3>2. d.at = "transport" /\ d.kind = c.kind /\ d.future = c.future
      BY <3>1 DEF Turn
    <3> QED BY <3>2, <2>2, <1>2, <1>11 DEF Closed, Goal, Closing
  <2> QED BY <2>1, <2>2
<1>12. ASSUME Told(c, d, p, q) PROVE Goal
  <2>1. CASE p.closing
    BY <2>1, <1>12, <1>4 DEF Told
  <2>2. CASE ~p.closing
    <3> DEFINE k == IF p.process = "alive" THEN "told" ELSE p.process
    <3>1. d = [c EXCEPT !.at = "exit"] /\ q = [process |-> k, closing |-> TRUE] /\ c.at = "transport"
      BY <2>2, <1>12 DEF Told
    <3>2. k \in {"told", "dead"}
      BY <3>1 DEF Processes
    <3> HIDE DEF k
    <3>3. d.at = "exit" /\ d.kind = c.kind /\ d.future = c.future
      BY <3>1 DEF Turn
    <3>4. q.process = k
      BY <3>1
    <3> QED BY <3>1, <3>2, <3>3, <3>4, <1>2 DEF Goal, Closing
  <2> QED BY <2>1, <2>2
<1>13. ASSUME Ended(c, d, p, q) PROVE Goal
  <2>1. CASE d = Left(c, FALSE) /\ q = [process |-> "dead", closing |-> FALSE]
    <3>1. Gone(q) /\ ~q.closing
      BY <2>1 DEF Gone
    <3>2. c.at = "exit"
      BY <1>13 DEF Ended
    <3> QED BY <2>1, <3>1, <3>2, <1>4
  <2>2. CASE d = Left(c, TRUE) /\ q = [p EXCEPT !.closing = FALSE]
    <3>1. ~q.closing
      BY <2>2 DEF Processes
    <3>2. c.at = "exit"
      BY <1>13 DEF Ended
    <3> QED BY <2>2, <3>1, <3>2, <1>4
  <2> QED BY <2>1, <2>2, <1>13 DEF Ended
<1>14. Goal
  BY <1>5, <1>6, <1>7, <1>8, <1>9, <1>10, <1>11, <1>12, <1>13 DEF Runs
<1> QED BY <1>14 DEF Goal

\* A coroutine's step keeps its session fit.
LEMMA RunsSession ==
    ASSUME NEW l, l.phase # "none", NEW t \in Seq(Turn), NEW u \in Seq(Turn), Len(u) = Len(t),
           NEW p \in Processes, NEW q \in Processes,
           NEW h, NEW c, NEW f, \A i \in 1 .. Len(t) : TurnFits(l.phase, t[i]) /\ TurnFits(l.phase, u[i]),
           NEW g \in 1 .. Len(t), \A i \in (1 .. Len(t)) \ {g} : u[i] = t[i],
           Runs(l.phase, t[g], u[g], p, q), ProbeSession(l, t, p, h, c, f)
    PROVE  /\ ProbeSession(l, u, q, h, c, f) /\ Keeps(l, t, h, c, l, u, h, c)
           /\ (t # <<>>) = (u # <<>>)
           /\ u # <<>> /\ u[1].future # t[1].future => t[1].future = "pending" /\ c.listed
           /\ p.process # "alive" /\ q.process = "alive" => t[1].future = "pending"
<1>1. /\ Len(t) \in Nat /\ t # <<>> /\ u # <<>> /\ 1 \in 1 .. Len(t)
      /\ \A i \in 1 .. Len(t) : t[i] \in Turn /\ u[i] \in Turn
  BY LenProperties, ElementOfSeq, EmptySeq
<1>2. /\ u[g].kind = t[g].kind /\ t[g].at # "done" /\ u[g].at # "queued"
      /\ u[g].future # t[g].future => t[g].future = "pending" /\ u[g].at = "done"
  BY <1>1, RunsFits
<1>3. \/ q.process = p.process
      \/ p.process = "none" /\ q.process = "alive" /\ t[g].at = "connect" /\ t[g].cut = "no"
      \/ p.process = "alive" /\ q.process = "told"
      \/ q.process = "dead" /\ t[g].at = "exit"
  BY <1>1, RunsProcess
<1>4. /\ t[g].at \in {"transport", "exit"} => p.process # "none"
      /\ p.closing => p.process \in {"told", "dead"}
      /\ t[g].at = "home" /\ ~t[g].unclosed => Gone(p)
      /\ TurnFits(l.phase, t[g])
  BY DEF ProbeSession, SessionFits
<1>5. /\ q.closing => q.process \in {"told", "dead"}
      /\ u[g].at \in {"transport", "exit"} => q.process # "none"
      /\ u[g].at = "home" /\ ~u[g].unclosed => Gone(q)
      /\ u[g].kind = "close" /\ u[g].future = "ok" => Gone(q)
      /\ t[g].kind = "prepare" /\ u[g].at \in Closing => t[g].at \in Closing
      /\ t[g].at = "queued" => t[g].kind = "close"
  <2>1. t[g] \in Turn /\ u[g] \in Turn
    BY <1>1
  <2> QED BY <2>1, <1>4, RunsPaths
<1>6. \A i \in 1 .. Len(t) : i # g => u[i] = t[i]
  OBVIOUS
<1>7. /\ \A i \in 1 .. Len(t) : /\ (t[i].kind = "prepare") = (i = 1)
                               /\ t[i].kind \in {"prepare", "ask", "close"}
      /\ Len(t) > 1 => t[1].future # "pending"
  BY DEF ProbeSession, ProbeTurns
<1>8. t[g].at \in {"connect", "open"} => g = 1
  BY <1>4, <1>7 DEF TurnFits
<1>9. /\ t = <<>> \/ t[1].at = "queued" => p.process = "none" /\ h = "none" /\ ~c.listed /\ ~c.complete
      /\ ~c.listed /\ t[1].future # "ok" => p.process # "alive" /\ h # "there"
      /\ Started(t[1]) => c.listed /\ ~c.complete
      /\ t[1].at \in Closing => c.owner = "coroutine"
      /\ c.closed => Spoilt(t) /\ p.process # "alive"
      /\ \A i \in 1 .. Len(t) :
            /\ t[i].at \in {"transport", "exit"} => p.process # "none"
            /\ t[i].at = "home" /\ ~t[i].unclosed => Gone(p)
            /\ t[i].kind = "close" /\ t[i].future = "ok" => Gone(p)
  BY <1>1 DEF ProbeSession, SessionFits, Closing
<1>10. /\ Gone(p) /\ t[1].future # "pending" => Gone(q)
       /\ p.process # "none" => q.process # "none"
       /\ p.process # "alive" /\ q.process = "alive" => t[1].future = "pending" /\ Started(t[1])
       /\ Gone(p) /\ ~Gone(q) => g = 1 /\ t[1].future = "pending"
       /\ p.process = "none" /\ q.process # "none" => g = 1
  <2>1. p.process = "none" /\ q.process = "alive" /\ t[g].at = "connect" /\ t[g].cut = "no"
            => g = 1 /\ t[1].future = "pending" /\ Started(t[1])
    BY <1>4, <1>8 DEF TurnFits, Opened, Started
  <2> QED BY <2>1, <1>3, <1>4 DEF Gone, Processes
<1>11. \A i \in 1 .. Len(t) : t[i].at = "home" => i = 1
  BY <1>7 DEF TurnFits
<1>12. \A i \in 1 .. Len(u) :
          /\ u[i].at \in {"transport", "exit"} => q.process # "none"
          /\ u[i].at = "home" /\ ~u[i].unclosed => Gone(q)
          /\ u[i].kind = "close" /\ u[i].future = "ok" => Gone(q)
  <2> TAKE i \in 1 .. Len(u)
  <2>1. CASE i = g
    BY <2>1, <1>5
  <2>2. CASE i # g
    <3>1. u[i] = t[i] /\ i \in 1 .. Len(t)
      BY <2>2, <1>6
    <3>2. t[i].kind = "close" => i # 1 /\ t[1].future # "pending"
      BY <3>1, <1>1, <1>7
    <3> QED BY <2>2, <3>1, <3>2, <1>9, <1>10, <1>11
  <2> QED BY <2>1, <2>2
<1>13. /\ u[1].at = "queued" => u[1] = t[1]
       /\ t[1].future = "ok" => u[1] = t[1]
       /\ Started(u[1]) => Started(t[1])
       /\ u[1].at \in Closing => t[1].at \in Closing
       /\ t[1].future # "pending" => u[1].future = t[1].future
       /\ u[1].future # t[1].future => t[1].future = "pending" /\ Started(t[1])
  <2>1. CASE g = 1
    <3>1. t[1].kind = "prepare" /\ TurnFits(l.phase, t[1])
      BY <1>1, <1>7
    <3> QED BY <2>1, <3>1, <1>2, <1>5 DEF TurnFits, Started
  <2>2. CASE g # 1
    BY <2>2, <1>1, <1>6
  <2> QED BY <2>1, <2>2
<1>14. /\ u[1].at = "queued" => q.process = "none" /\ h = "none" /\ ~c.listed /\ ~c.complete
       /\ ~c.listed /\ u[1].future # "ok" => q.process # "alive" /\ h # "there"
       /\ Started(u[1]) => c.listed /\ ~c.complete
       /\ u[1].at \in Closing => c.owner = "coroutine"
       /\ c.closed => Spoilt(u) /\ q.process # "alive"
  <2>1. u[1].at = "queued" => q.process = "none" /\ h = "none" /\ ~c.listed /\ ~c.complete
    <3>1. u[1].at = "queued" => g # 1
      BY <1>2
    <3> QED BY <3>1, <1>9, <1>10, <1>13
  <2>2. ~c.listed /\ u[1].future # "ok" => q.process # "alive" /\ h # "there"
    BY <1>9, <1>10, <1>13
  <2>3. Started(u[1]) => c.listed /\ ~c.complete
    BY <1>9, <1>13
  <2>4. u[1].at \in Closing => c.owner = "coroutine"
    BY <1>9, <1>13
  <2>5. c.closed => Spoilt(u) /\ q.process # "alive"
    BY <1>1, <1>9, <1>10, <1>13 DEF Spoilt
  <2> QED BY <2>1, <2>2, <2>3, <2>4, <2>5
<1>15. SessionFits(u, q, h, c)
  BY <1>1, <1>5, <1>12, <1>14 DEF SessionFits, Closing
<1>16. ProbeTurns(u)
  <2>1. \A i \in 1 .. Len(u) : u[i].kind = t[i].kind
    BY <1>2, <1>6
  <2> QED BY <2>1, <1>7, <1>13 DEF ProbeTurns
<1>17. Ready(t, c) => Ready(u, c)
  BY <1>1, <1>13 DEF Ready
<1>18. SpareFits(l, u, q, h, c, f)
  <2>1. f.ok => Gone(q)
    BY <1>10 DEF ProbeSession, SpareFits, Ready
  <2> QED BY <2>1, <1>17 DEF ProbeSession, SpareFits
<1>19. Onwards(t, u)
  BY <1>1, <1>2, <1>6 DEF Onwards
<1>20. u[1].future # t[1].future => t[1].future = "pending" /\ c.listed
  BY <1>9, <1>13
<1> QED BY <1>1, <1>10, <1>15, <1>16, <1>17, <1>18, <1>19, <1>20 DEF ProbeSession, Keeps

\* What a thread does to a session's worker keeps the session fit: it touches its turns and
\* may submit the next one.
Submitted(t, u) ==
    LET g == Len(t) + 1 IN
    /\ Len(u) = g /\ (u[g].kind = "prepare") = (t = <<>>) /\ u[g].kind \in {"prepare", "ask", "close"}
    /\ u[g].at \in {"queued", "done"} /\ u[g].future # "ok"
    /\ t # <<>> => t[1].future # "pending"

LEMMA HandledSession ==
    ASSUME NEW l \in Worker, NEW m \in Worker, NEW t \in Seq(Turn), NEW u \in Seq(Turn),
           \A i \in 1 .. Len(t) : TurnFits(l.phase, t[i]) /\ Touched(t[i], u[i]),
           \A i \in 1 .. Len(u) : TurnFits(m.phase, u[i]),
           NEW p \in Processes, NEW h, NEW c, NEW f,
           Len(u) = Len(t) \/ Submitted(t, u),
           m.phase = l.phase \/ (l.phase = "running" /\ m.phase = "stopping"),
           ProbeSession(l, t, p, h, c, f)
    PROVE  ProbeSession(m, u, p, h, c, f) /\ Keeps(l, t, h, c, m, u, h, c)
<1>1. /\ Len(t) \in Nat /\ Len(u) \in Nat /\ (t = <<>> <=> Len(t) = 0) /\ (u = <<>> <=> Len(u) = 0)
      /\ \A i \in 1 .. Len(t) : t[i] \in Turn
      /\ \A i \in 1 .. Len(u) : u[i] \in Turn
  BY LenProperties, ElementOfSeq, EmptySeq
<1>2. \A i \in 1 .. Len(u) : i \in 1 .. Len(t) \/ (i = Len(t) + 1 /\ Submitted(t, u))
  BY <1>1 DEF Submitted
<1>3. Len(t) <= Len(u)
  BY <1>1 DEF Submitted
<1>4. /\ \A i \in 1 .. Len(t) : /\ (t[i].kind = "prepare") = (i = 1)
                               /\ t[i].kind \in {"prepare", "ask", "close"}
      /\ Len(t) > 1 => t[1].future # "pending"
  BY DEF ProbeSession, ProbeTurns
<1>5. \A i \in 1 .. Len(t) : /\ u[i].kind = t[i].kind /\ u[i].unclosed = t[i].unclosed
                             /\ u[i].at = t[i].at \/ (t[i].at = "queued" /\ u[i].at = "done")
                             /\ u[i].future = t[i].future \/ (t[i].future = "pending" /\ u[i].future \in {"cancelled", "timeout"})
  BY DEF Touched
<1>6. ProbeTurns(u)
  <2>1. \A i \in 1 .. Len(u) : (u[i].kind = "prepare") = (i = 1) /\ u[i].kind \in {"prepare", "ask", "close"}
    BY <1>1, <1>2, <1>4, <1>5 DEF Submitted
  <2>2. Len(u) > 1 => u[1].future # "pending"
    <3>1. CASE t = <<>>
      BY <3>1, <1>1 DEF Submitted
    <3>2. CASE t # <<>>
      BY <3>2, <1>1, <1>4, <1>5 DEF Submitted
    <3> QED BY <3>1, <3>2
  <2> QED BY <2>1, <2>2 DEF ProbeTurns
<1>7. \A i \in 1 .. Len(u) :
          /\ u[i].at \in {"transport", "exit"} => p.process # "none"
          /\ u[i].at = "home" /\ ~u[i].unclosed => Gone(p)
          /\ u[i].kind = "close" /\ u[i].future = "ok" => Gone(p)
  <2> TAKE i \in 1 .. Len(u)
  <2>1. CASE i \in 1 .. Len(t)
    BY <2>1, <1>5 DEF ProbeSession, SessionFits
  <2>2. CASE i = Len(t) + 1 /\ Submitted(t, u)
    BY <2>2 DEF Submitted
  <2> QED BY <2>1, <2>2, <1>2
<1>8. u = <<>> \/ u[1].at = "queued" => p.process = "none" /\ h = "none" /\ ~c.listed /\ ~c.complete
  BY <1>1, <1>3, <1>5 DEF ProbeSession, SessionFits
<1>9. u # <<>> /\ ~c.listed /\ u[1].future # "ok" => p.process # "alive" /\ h # "there"
  BY <1>1, <1>3, <1>5 DEF ProbeSession, SessionFits
<1>10. u # <<>> /\ Started(u[1]) => c.listed /\ ~c.complete
  BY <1>1, <1>3, <1>5 DEF ProbeSession, SessionFits, Submitted, Started
<1>11. u # <<>> /\ u[1].at \in {"session", "transport", "exit", "home"} => c.owner = "coroutine"
  BY <1>1, <1>3, <1>5 DEF ProbeSession, SessionFits, Submitted
<1>12. Spoilt(t) => Spoilt(u)
  BY <1>1, <1>3, <1>5 DEF Spoilt
<1>13. SessionFits(u, p, h, c)
  BY <1>7, <1>8, <1>9, <1>10, <1>11, <1>12 DEF ProbeSession, SessionFits
<1>14. Ready(t, c) => Ready(u, c)
  BY <1>1, <1>3, <1>5 DEF Ready
<1>15. SpareFits(m, u, p, h, c, f)
  BY <1>14 DEF ProbeSession, SpareFits
<1>16. Onwards(t, u)
  BY <1>3, <1>5 DEF Onwards
<1> QED BY <1>6, <1>13, <1>14, <1>15, <1>16 DEF ProbeSession, Keeps

\* What a step may do to the records of a session and to its home.
LEMMA RecordsSession ==
    ASSUME NEW l, NEW t \in Seq(Turn), \A i \in 1 .. Len(t) : TurnFits(l.phase, t[i]),
           NEW p, NEW h, NEW c, NEW f, ProbeSession(l, t, p, h, c, f),
           NEW i, NEW d, NEW e,
           Spoilt(t) \/ (Ready(t, c) /\ c.closed = d.closed) \/ (t # <<>> /\ t[1].future = "ok" /\ ~d.listed /\ ~d.closed),
           i = h \/ (i = "gone" /\ t # <<>>),
           Ready(t, c) => ~d.listed,
           d.listed = c.listed \/ (~d.listed /\ p.process # "alive" /\ i # "there"
                                    /\ l.phase = "stopped") \/ (t[1].future = "ok" /\ ~d.listed),
           c.owner = "coroutine" => d.owner = "coroutine" \/ c.complete,
           d.complete = c.complete \/ ~Started(t[1]),
           d.closed => c.closed \/ p.process # "alive",
           SpareFits(l, t, p, i, d, e)
    PROVE  ProbeSession(l, t, p, i, d, e)
<1>1. t # <<>> /\ Len(t) \in Nat \ {0}
  BY LenProperties, EmptySeq DEF Spoilt, Ready
<1>2. TurnFits(l.phase, t[1])
  BY <1>1
<1>3. t[1].at # "queued" /\ t[1].future # "pending"
  BY <1>2 DEF TurnFits, Spoilt, Ready
<1>4. /\ t # <<>> /\ Started(t[1]) => c.listed /\ ~c.complete
      /\ t[1].at \in {"session", "transport", "exit", "home"} => c.owner = "coroutine"
      /\ ~c.listed /\ t[1].future # "ok" => p.process # "alive" /\ h # "there"
      /\ c.closed => Spoilt(t) /\ p.process # "alive"
  BY <1>1 DEF ProbeSession, SessionFits
<1>5. ~d.listed /\ t[1].future # "ok" => p.process # "alive" /\ i # "there"
  BY <1>4
<1>6. Started(t[1]) => d.listed /\ ~d.complete
  BY <1>1, <1>2, <1>4 DEF TurnFits, Started
<1>7. t[1].at \in {"session", "transport", "exit", "home"} => d.owner = "coroutine"
  BY <1>1, <1>4 DEF Started
<1>8. d.closed => Spoilt(t) /\ p.process # "alive"
  BY <1>4 DEF Spoilt, Ready
<1> QED BY <1>1, <1>3, <1>5, <1>6, <1>7, <1>8 DEF ProbeSession, SessionFits

\* What the session of a step did for those who wait for it: a coroutine of its worker, the
\* worker's end or the process's own end.
Idling(t) == t # <<>> /\ t[1].future = "pending"
Quit(l, p, h) == p.process # "alive" /\ h # "there" /\ l.phase # "running"
Serves(l, t, p, h, c, m, u, q, i, d) ==
    /\ Keeps(l, t, h, c, m, u, i, d)
    /\ Spoilt(t) /\ c.owner = "broker" => d = c
    /\ (u # <<>>) = (t # <<>>)
    /\ Idling(u) => Idling(t)
    /\ u # <<>> /\ u[1].future = "ok" /\ d.listed => Idling(t) \/ (t[1].future = "ok" /\ c.listed)
    /\ Idling(t) /\ u[1].future = "ok" => d.listed
    /\ Quit(l, p, h) => Quit(m, q, i) \/ Idling(t)
    /\ c.listed => d.listed
    /\ m.phase = l.phase \/ (l.phase = "stopping" /\ m.phase = "stopped")
    /\ p.process = "none" /\ q.process # "none" => Idling(t)

LEMMA RunsServes ==
    ASSUME NEW l, l.phase # "none", NEW t \in Seq(Turn), NEW u \in Seq(Turn), Len(u) = Len(t),
           NEW p \in Processes, NEW q \in Processes,
           NEW h, NEW c, NEW f, \A i \in 1 .. Len(t) : TurnFits(l.phase, t[i]) /\ TurnFits(l.phase, u[i]),
           NEW g \in 1 .. Len(t), \A i \in (1 .. Len(t)) \ {g} : u[i] = t[i],
           Runs(l.phase, t[g], u[g], p, q), ProbeSession(l, t, p, h, c, f)
    PROVE  ProbeSession(l, u, q, h, c, f) /\ Serves(l, t, p, h, c, l, u, q, h, c)
<1>1. /\ ProbeSession(l, u, q, h, c, f) /\ Keeps(l, t, h, c, l, u, h, c)
      /\ (t # <<>>) = (u # <<>>)
      /\ u # <<>> /\ u[1].future # t[1].future => t[1].future = "pending" /\ c.listed
      /\ p.process # "alive" /\ q.process = "alive" => t[1].future = "pending"
  BY RunsSession
<1>2. 1 \in 1 .. Len(t) /\ t # <<>>
  BY LenProperties, EmptySeq
<1>3. t[g] \in Turn /\ u[g] \in Turn
  BY ElementOfSeq
<1>4. p.process = "none" /\ q.process # "none" => q.process = "alive" \/ t[g].at = "exit"
  BY <1>3, RunsProcess
<1>5. t[g].at = "exit" => p.process # "none"
  BY DEF ProbeSession, SessionFits
<1>6. u[1].future = t[1].future \/ (Idling(t) /\ c.listed)
  BY <1>1, <1>2 DEF Idling
<1>7. t[1].future = "pending" => Idling(t)
  BY <1>2 DEF Idling
<1>8. Idling(u) => Idling(t)
  BY <1>2, <1>6 DEF Idling
<1>9. Quit(l, p, h) => Quit(l, q, h) \/ Idling(t)
  BY <1>1, <1>7 DEF Quit
<1>10. p.process = "none" /\ q.process # "none" => Idling(t)
  BY <1>1, <1>4, <1>5, <1>7
<1> QED
  <2>1. u # <<>> /\ u[1].future = "ok" /\ c.listed => Idling(t) \/ (t[1].future = "ok" /\ c.listed)
    BY <1>6
  <2>2. Idling(t) /\ u[1].future = "ok" => c.listed
    BY <1>6 DEF Idling
  <2> QED BY <1>1, <1>8, <1>9, <1>10, <2>1, <2>2 DEF Serves

\* The worker's end and the process's own end.
LEMMA EndServes ==
    ASSUME NEW l \in Worker, NEW m \in Worker, NEW t \in Seq(Turn), NEW p \in Processes, NEW q \in Processes,
           NEW h, NEW c, NEW f, \A i \in 1 .. Len(t) : TurnFits(l.phase, t[i]),
           ProbeSession(l, t, p, h, c, f),
           \/ l.phase = "stopping" /\ m.phase = "stopped" /\ q = p
           \/ m = l /\ p.process # "none" /\ q = [p EXCEPT !.process = "dead"]
    PROVE  ProbeSession(m, t, q, h, c, f) /\ Serves(l, t, p, h, c, m, t, q, h, c)
<1>1. SpareFits(m, t, q, h, c, f)
  BY DEF ProbeSession, SpareFits, Gone, Processes
<1>2. SessionFits(t, q, h, c)
  BY DEF ProbeSession, SessionFits, Gone, Processes
<1>3. Keeps(l, t, h, c, m, t, h, c)
  <2>1. Onwards(t, t)
    BY OnwardsSame
  <2> QED BY <2>1 DEF Keeps
<1>4. Quit(l, p, h) => Quit(m, q, h)
  BY DEF Quit, Processes
<1> QED BY <1>1, <1>2, <1>3, <1>4 DEF ProbeSession, Serves, Idling, Processes

\* The probes' own coroutine steps: a preparation or a question begins, a failed preparation
\* claims its cleanup, and cleans up.
Prompted(c, d, h, i, k, m) ==
    /\ c.at = "queued"
    /\ IF c.kind = "prepare"
       THEN /\ i = "there" /\ m = [k EXCEPT !.listed = TRUE]
            /\ d \in {Moved(c, "connect", "ok"), Moved(c, "claim", "error")}
       ELSE c.kind # "close" /\ d = Moved(c, "turn", "ok") /\ i = h /\ m = k
Claimed(c, d, h, i, k, m) ==
    /\ c.at = "claim" /\ i = h
    /\ IF k.listed /\ k.owner = "none"
       THEN m = [k EXCEPT !.owner = "coroutine"] /\ d = Moved(c, "session", "error")
       ELSE m = k /\ d = Settled(c, "error")
CleanedUp(c, d, p, h, i, k, m) ==
    /\ c.at = "home" /\ d = Settled(c, "error")
    /\ \E cleaned \in BOOLEAN :
         /\ i = IF cleaned THEN "gone" ELSE h
         /\ m = [k EXCEPT !.closed = ~c.unclosed \/ ~(Living(p) /\ ~p.closing), !.cleaned = cleaned,
                          !.complete = TRUE]

Prepares(phase, c, d, p, h, i, k, m) ==
    \/ phase = "running" /\ Prompted(c, d, h, i, k, m)
    \/ phase # "stopped" /\ Claimed(c, d, h, i, k, m)
    \/ CleanedUp(c, d, p, h, i, k, m)

LEMMA PreparationFits ==
    ASSUME NEW phase, NEW c \in Turn, NEW d, NEW p, NEW h, NEW i, NEW k, NEW m,
           c.kind \in {"prepare", "ask", "close"},
           TurnFits(phase, c), Prepares(phase, c, d, p, h, i, k, m)
    PROVE  /\ d \in Turn /\ TurnFits(phase, d) /\ d.kind = c.kind
           /\ d.at # "queued" /\ c.at # "done"
           /\ d.future # "ok"
           /\ d.future # c.future => c.future = "pending" /\ d.at = "done"
<1>z. /\ {"session", "connect", "claim", "turn", "done"} \subseteq Steps
      /\ {"ok", "error", "cancelled", "timeout"} = Results
  BY DEF Steps, Results
<1>1. CASE phase = "running" /\ Prompted(c, d, h, i, k, m)
  <2>1. d \in {Moved(c, "connect", "ok"), Moved(c, "claim", "error"), Moved(c, "turn", "ok")}
    BY <1>1 DEF Prompted
  <2>2. d \in Turn
    BY <2>1, <1>z, TurnRecords
  <2>3. /\ d.kind = c.kind /\ d.future = c.future /\ d.unclosed = c.unclosed
        /\ c.at = "queued"
        /\ IF c.kind = "prepare" THEN d.at \in {"connect", "claim"} ELSE c.kind = "ask" /\ d.at = "turn"
    BY <1>1 DEF Prompted, Moved, Turn
  <2> QED BY <1>1, <2>2, <2>3 DEF TurnFits, Started, Opened
<1>2. CASE d = Moved(c, "session", "error") /\ c.at = "claim" /\ phase # "stopped"
  <2>0. d \in Turn
    BY <1>2, <1>z, TurnRecords
  <2>1. d \in Turn /\ d.at = "session" /\ d.kind = c.kind /\ d.future = c.future
    BY <1>2, <2>0 DEF Moved, Turn
  <2> QED BY <1>2, <2>1 DEF TurnFits, Started, Opened
<1>3. CASE d = Settled(c, "error") /\ c.at \in {"claim", "home"}
  <2>0. d \in Turn
    BY <1>3, <1>z, TurnRecords
  <2>1. /\ d \in Turn /\ d.at = "done" /\ d.kind = c.kind
        /\ d.future = IF c.future = "pending" THEN "error" ELSE c.future
    BY <1>3, <2>0 DEF Settled, Turn
  <2> QED BY <1>3, <2>1 DEF TurnFits, Started, Opened
<1> QED BY <1>1, <1>2, <1>3 DEF Prepares, Claimed, CleanedUp

LEMMA PreparationServes ==
    ASSUME NEW l, NEW t \in Seq(Turn), NEW u \in Seq(Turn), Len(u) = Len(t),
           NEW p \in Processes, NEW h, NEW i, NEW c \in Probing!Cleanup, NEW d, NEW f,
           \A j \in 1 .. Len(t) : TurnFits(l.phase, t[j]),
           NEW g \in 1 .. Len(t), \A j \in (1 .. Len(t)) \ {g} : u[j] = t[j],
           Prepares(l.phase, t[g], u[g], p, h, i, c, d),
           ProbeSession(l, t, p, h, c, f)
    PROVE  /\ ProbeSession(l, u, p, i, d, f) /\ Serves(l, t, p, h, c, l, u, p, i, d)
           /\ d \in Probing!Cleanup /\ i \in {h, "there", "gone"}
<1>1. /\ Len(t) \in Nat /\ t # <<>> /\ u # <<>> /\ 1 \in 1 .. Len(t)
      /\ \A j \in 1 .. Len(t) : t[j] \in Turn /\ u[j] \in Turn
  BY LenProperties, ElementOfSeq, EmptySeq
<1>7. /\ \A j \in 1 .. Len(t) : /\ (t[j].kind = "prepare") = (j = 1)
                               /\ t[j].kind \in {"prepare", "ask", "close"}
      /\ Len(t) > 1 => t[1].future # "pending"
  BY DEF ProbeSession, ProbeTurns
<1>2. /\ u[g].kind = t[g].kind /\ t[g].at # "done" /\ u[g].at # "queued" /\ u[g].future # "ok"
      /\ u[g].future # t[g].future => t[g].future = "pending" /\ u[g].at = "done"
      /\ TurnFits(l.phase, u[g])
  <2>1. t[g] \in Turn /\ t[g].kind \in {"prepare", "ask", "close"} /\ TurnFits(l.phase, t[g])
    BY <1>1, <1>7
  <2>2. Prepares(l.phase, t[g], u[g], p, h, i, c, d)
    OBVIOUS
  <2>3. /\ u[g] \in Turn /\ TurnFits(l.phase, u[g]) /\ u[g].kind = t[g].kind
        /\ u[g].at # "queued" /\ t[g].at # "done"
        /\ u[g].future # "ok"
        /\ u[g].future # t[g].future => t[g].future = "pending" /\ u[g].at = "done"
    BY <2>1, <2>2, PreparationFits
  <2> QED BY <2>3
<1>8. \A j \in 1 .. Len(t) : j # g => u[j] = t[j]
  OBVIOUS
<1>9. ProbeTurns(u)
  <2>1. u[1].future = "pending" => t[1].future = "pending"
    BY <1>1, <1>2, <1>8 DEF TurnFits
  <2>2. \A j \in 1 .. Len(u) : u[j].kind = t[j].kind
    BY <1>2, <1>8
  <2> QED BY <2>1, <2>2, <1>7 DEF ProbeTurns
<1>15. Onwards(t, u)
  BY <1>1, <1>2, <1>8 DEF Onwards
<1>3. CASE g # 1
  <2>1. t[g].kind # "prepare" /\ TurnFits(l.phase, t[g])
    BY <1>7, <1>3
  <2>2. t[g].at = "queued" /\ u[g].at = "turn" /\ i = h /\ d = c /\ u[g].future = t[g].future /\ t[g].kind = "ask"
    <3>1. ~Claimed(t[g], u[g], h, i, c, d)
      BY <2>1 DEF Claimed, TurnFits
    <3>2. ~CleanedUp(t[g], u[g], p, h, i, c, d)
      BY <2>1, <1>7 DEF CleanedUp, TurnFits
    <3>3. Prompted(t[g], u[g], h, i, c, d)
      BY <3>1, <3>2 DEF Prepares
    <3> QED BY <3>3, <2>1, <1>1, <1>7 DEF Prompted, Moved, Turn
  <2>3. u[1] = t[1]
    BY <1>1, <1>3, <1>8
  <2>4. SessionFits(u, p, i, d)
    <3>1. \A j \in 1 .. Len(t) :
              /\ u[j].at \in {"transport", "exit"} => t[j].at = u[j].at
              /\ u[j].at = "home" => t[j] = u[j]
              /\ u[j].kind = "close" => t[j] = u[j]
      BY <1>2, <1>8, <2>2
    <3>2. Spoilt(t) => Spoilt(u)
      BY <1>1, <2>3 DEF Spoilt
    <3>3. \A j \in 1 .. Len(u) :
          /\ u[j].at \in {"transport", "exit"} => p.process # "none"
          /\ u[j].at = "home" /\ ~u[j].unclosed => Gone(p)
          /\ u[j].kind = "close" /\ u[j].future = "ok" => Gone(p)
      BY <3>1 DEF ProbeSession, SessionFits
    <3> QED BY <1>1, <2>2, <2>3, <3>2, <3>3 DEF ProbeSession, SessionFits
  <2>5. Ready(t, c) = Ready(u, d)
    BY <1>1, <2>2, <2>3 DEF Ready
  <2>6. SpareFits(l, u, p, i, d, f)
    BY <2>2, <2>5 DEF ProbeSession, SpareFits
  <2> QED BY <1>1, <1>9, <1>15, <2>2, <2>3, <2>4, <2>5, <2>6 DEF ProbeSession, Serves, Keeps, Idling
<1>4. CASE g = 1
  <2>1. t[1].kind = "prepare" /\ TurnFits(l.phase, t[1]) /\ t[1].future # "ok" /\ u[1].future # "ok"
    BY <1>1, <1>2, <1>4, <1>7 DEF TurnFits
  <2>2. ~Ready(t, c) /\ ~f.closing /\ ~f.ok /\ ~f.closed
    BY <2>1 DEF Ready, ProbeSession, SpareFits
  <2>3. SpareFits(l, u, p, i, d, f) /\ Keeps(l, t, h, c, l, u, i, d) <=> (h = "gone" => i = "gone")
    BY <2>2, <1>15 DEF SpareFits, Keeps
  <2>4. \A j \in 1 .. Len(t) : j # 1 => u[j] = t[j]
    BY <1>8, <1>4
  <2>5. /\ t[1].at = "queued" => p.process = "none" /\ h = "none" /\ ~c.listed /\ ~c.complete
        /\ Started(t[1]) => c.listed /\ ~c.complete
        /\ t[1].at \in {"session", "transport", "exit", "home"} => c.owner = "coroutine"
        /\ c.closed => Spoilt(t) /\ p.process # "alive"
        /\ p.closing => p.process \in {"told", "dead"}
        /\ \A j \in 1 .. Len(t) :
              /\ t[j].at \in {"transport", "exit"} => p.process # "none"
              /\ t[j].at = "home" /\ ~t[j].unclosed => Gone(p)
              /\ t[j].kind = "close" /\ t[j].future = "ok" => Gone(p)
    BY <1>1 DEF ProbeSession, SessionFits
  <2>6. CASE l.phase = "running" /\ Prompted(t[g], u[g], h, i, c, d)
    <3>1. /\ t[1].at = "queued" /\ i = "there" /\ d = [c EXCEPT !.listed = TRUE]
          /\ u[1].at \in {"connect", "claim"} /\ u[1].future = t[1].future /\ u[1].kind = "prepare"
      BY <2>6, <2>1, <1>1, <1>4 DEF Prompted, Moved, Turn
    <3>2. d \in Probing!Cleanup /\ d.listed /\ ~d.complete /\ d.closed = c.closed
      BY <3>1, <2>5 DEF Probing!Cleanup
    <3>3. t[1].future = "pending"
      BY <3>1, <2>1 DEF TurnFits
    <3>4. ~c.closed
      BY <2>5, <3>3 DEF Spoilt
    <3>5. SessionFits(u, p, i, d)
      BY <3>1, <3>2, <3>3, <3>4, <2>4, <2>5, <1>1 DEF SessionFits, Started
    <3> QED BY <1>1, <1>9, <2>2, <2>3, <2>5, <3>1, <3>2, <3>3, <3>5 DEF ProbeSession, Serves, Idling, Spoilt
  <2>7. CASE l.phase # "stopped" /\ Claimed(t[g], u[g], h, i, c, d)
    <3>1. t[1].at = "claim" /\ i = h /\ c.listed /\ ~c.complete
      BY <2>7, <2>5, <1>4 DEF Claimed, Started
    <3>2. CASE c.owner = "none"
      <4>1. /\ d = [c EXCEPT !.owner = "coroutine"] /\ u[1].at = "session" /\ u[1].future = t[1].future
            /\ u[1].kind = "prepare"
        BY <3>1, <3>2, <2>7, <2>1, <1>1, <1>4 DEF Claimed, Moved, Turn
      <4>2. d \in Probing!Cleanup /\ d.listed /\ ~d.complete /\ d.closed = c.closed /\ d.owner = "coroutine"
        BY <4>1, <3>1 DEF Probing!Cleanup
      <4>3. Spoilt(u) = Spoilt(t)
        BY <4>1, <1>1 DEF Spoilt
      <4>4. SessionFits(u, p, i, d)
        BY <3>1, <4>1, <4>2, <4>3, <2>4, <2>5, <1>1 DEF SessionFits, Started
      <4> QED BY <1>1, <1>9, <2>2, <2>3, <2>1, <3>1, <3>2, <4>1, <4>2, <4>4 DEF ProbeSession, Serves, Idling, Spoilt
    <3>3. CASE c.owner # "none"
      <4>1. /\ d = c /\ u[1].at = "done" /\ u[1].kind = "prepare"
            /\ u[1].future = IF t[1].future = "pending" THEN "error" ELSE t[1].future
        BY <3>1, <3>3, <2>7, <2>1, <1>1, <1>4 DEF Claimed, Settled, Turn
      <4>2. Spoilt(u)
        BY <4>1, <1>1, <2>1 DEF Spoilt
      <4>4. SessionFits(u, p, i, d)
        BY <3>1, <4>1, <4>2, <2>4, <2>5, <1>1 DEF SessionFits, Started
      <4> QED BY <1>1, <1>9, <2>2, <2>3, <2>1, <3>1, <4>1, <4>2, <4>4 DEF ProbeSession, Serves, Idling, Spoilt
    <3> QED BY <3>2, <3>3
  <2>8. CASE CleanedUp(t[g], u[g], p, h, i, c, d)
    <3>1. t[1].at = "home" /\ c.listed /\ ~c.complete /\ c.owner = "coroutine"
      BY <2>8, <2>5, <1>4 DEF CleanedUp, Started
    <3>2. PICK cleaned \in BOOLEAN :
         /\ i = (IF cleaned THEN "gone" ELSE h)
         /\ d = [c EXCEPT !.closed = ~t[1].unclosed \/ ~(Living(p) /\ ~p.closing), !.cleaned = cleaned,
                          !.complete = TRUE]
      BY <2>8, <1>4 DEF CleanedUp
    <3>3. /\ u[1].at = "done" /\ u[1].kind = "prepare"
          /\ u[1].future = IF t[1].future = "pending" THEN "error" ELSE t[1].future
      BY <2>8, <2>1, <1>1, <1>4 DEF CleanedUp, Settled, Turn
    <3> DEFINE k == ~t[1].unclosed \/ ~(Living(p) /\ ~p.closing)
    <3>4. k \in BOOLEAN /\ d = [c EXCEPT !.closed = k, !.cleaned = cleaned, !.complete = TRUE]
      BY <3>2
    <3>5. k => p.process # "alive"
      BY <2>5, <3>1, <1>1 DEF Gone, Living
    <3> HIDE DEF k
    <3>6. d \in Probing!Cleanup /\ d.listed /\ d.closed = k /\ d.owner = "coroutine"
      BY <3>1, <3>4 DEF Probing!Cleanup
    <3>7. Spoilt(u)
      BY <3>3, <1>1, <2>1 DEF Spoilt
    <3>8. SessionFits(u, p, i, d)
      BY <3>1, <3>3, <3>5, <3>6, <3>7, <2>4, <2>5, <1>1 DEF SessionFits, Started
    <3>9. h = "gone" => i = "gone"
      BY <3>2
    <3> QED BY <1>1, <1>9, <2>2, <2>3, <2>1, <3>1, <3>2, <3>3, <3>6, <3>7, <3>8, <3>9 DEF ProbeSession, Serves, Idling, Spoilt, Quit
  <2> QED BY <2>6, <2>7, <2>8 DEF Prepares
<1> QED BY <1>3, <1>4


------------------------------------------------------------------------------
\* The types of the probes' own state.
ProbeThreads == {"probe", "stop"}
ProbeAts ==
    Probing!FinishSteps \cup Probing!RetrySteps \cup Probing!AbortSteps \cup Probing!ProbeSteps
        \cup {"idle", "over"}
ProbeBacks == {"none", "p_raise", "p_judge"} \cup Probing!AbortSteps
ProbeTypes ==
    /\ faults \in 0 .. ProbeMaxFaults
    /\ at \in [ProbeThreads -> ProbeAts]
    /\ on \in [ProbeThreads -> [s : 0 .. MaxSessions, g : Nat, back : ProbeBacks]]
    /\ own \in [ProbeThreads -> Probing!Own]
    /\ broker \in Probing!Broker
    /\ care \in [Sessions -> Probing!Cleanup]
    /\ spare \in [Sessions -> Probing!Spare]
    /\ latch \in [memory : BOOLEAN, disk : BOOLEAN]
    /\ job \in [left : 0 .. Jobs, answer : {"none", "output", "raise"}, outcome : Probing!Outcomes,
                met : BOOLEAN]
ProbeSessions ==
    \A r \in Sessions : ProbeSession(loop[r], turn[r], proc[r], home[r], care[r], spare[r])

LEMMA ServesSame ==
    ASSUME NEW l, NEW t \in Seq(Turn), NEW p, NEW h, NEW c
    PROVE  Serves(l, t, p, h, c, l, t, p, h, c)
BY OnwardsSame DEF Serves, Keeps, Idling

\* Of a worker only its phase matters here.
LEMMA PhaseServes ==
    ASSUME NEW l, NEW m, m.phase = l.phase, NEW t, NEW u, NEW p, NEW q, NEW h, NEW i, NEW c, NEW d, NEW f,
           ProbeSession(l, u, q, i, d, f), Serves(l, t, p, h, c, l, u, q, i, d)
    PROVE  ProbeSession(m, u, q, i, d, f) /\ Serves(l, t, p, h, c, m, u, q, i, d)
BY DEF ProbeSession, SpareFits, Serves, Keeps, Quit

LEMMA ProbeFaultsCount ==
    ASSUME ProbeTypes, (\E what : Probing!Trip(what)) \/ Probing!Calm
    PROVE  faults' \in 0 .. ProbeMaxFaults
BY ProbesAssumption DEF ProbeTypes, Probing!Trip, Probing!Calm

\* What a step of the session s leaves: every session as its threads may find it.
Serving(s) ==
    /\ Workers' /\ care' \in [Sessions -> Probing!Cleanup]
    /\ \A r \in Sessions :
          /\ ProbeSession(loop'[r], turn'[r], proc'[r], home'[r], care'[r], spare[r])
          /\ Serves(loop[r], turn[r], proc[r], home[r], care[r],
                    loop'[r], turn'[r], proc'[r], home'[r], care'[r])

LEMMA ServingAt ==
    ASSUME Workers, ProbeTypes, ProbeSessions, NEW s \in Sessions,
           Workers', care' \in [Sessions -> Probing!Cleanup],
           \A r \in Sessions \ {s} : /\ loop'[r] = loop[r] /\ turn'[r] = turn[r] /\ proc'[r] = proc[r]
                                     /\ home'[r] = home[r] /\ care'[r] = care[r],
           ProbeSession(loop'[s], turn'[s], proc'[s], home'[s], care'[s], spare[s]),
           Serves(loop[s], turn[s], proc[s], home[s], care[s],
                  loop'[s], turn'[s], proc'[s], home'[s], care'[s])
    PROVE  Serving(s)
<1> SUFFICES ASSUME NEW r \in Sessions
             PROVE  /\ ProbeSession(loop'[r], turn'[r], proc'[r], home'[r], care'[r], spare[r])
                    /\ Serves(loop[r], turn[r], proc[r], home[r], care[r],
                              loop'[r], turn'[r], proc'[r], home'[r], care'[r])
  BY DEF Serving
<1>1. CASE r = s
  BY <1>1
<1>2. CASE r # s
  <2>1. ProbeSession(loop[r], turn[r], proc[r], home[r], care[r], spare[r])
    BY DEF ProbeSessions
  <2>2. turn[r] \in Seq(Turn)
    BY DEF Workers
  <2>3. Serves(loop[r], turn[r], proc[r], home[r], care[r], loop[r], turn[r], proc[r], home[r], care[r])
    BY <2>2, ServesSame
  <2>4. /\ loop'[r] = loop[r] /\ turn'[r] = turn[r] /\ proc'[r] = proc[r]
        /\ home'[r] = home[r] /\ care'[r] = care[r]
    BY <1>2
  <2> QED BY <2>1, <2>3, <2>4
<1> QED BY <1>1, <1>2

LEMMA ProbingStep ==
    ASSUME Workers, ProbeTypes, ProbeSessions, NEW s \in Sessions, NEW g \in 1 .. Len(turn[s]),
           Probing!CoroutineStep(s, g), care' = care
    PROVE  Serving(s)
<1>1. Coroutine(s, g)
  BY ProbingRuns
<1>2. /\ Workers' /\ home' = home
      /\ \A r \in Sessions : loop'[r].phase = loop[r].phase
      /\ \A r \in Sessions \ {s} : turn'[r] = turn[r] /\ loop'[r] = loop[r] /\ proc'[r] = proc[r]
      /\ Len(turn'[s]) = Len(turn[s])
      /\ \A h \in (1 .. Len(turn[s])) \ {g} : turn'[s][h] = turn[s][h]
      /\ Runs(loop[s].phase, turn[s][g], turn'[s][g], proc[s], proc'[s])
  BY <1>1, CoroutineFits
<1>3. /\ turn[s] \in Seq(Turn) /\ proc[s] \in Processes /\ loop[s].phase # "none"
      /\ \A i \in 1 .. Len(turn[s]) : TurnFits(loop[s].phase, turn[s][i])
  <2>1. turn[s] = <<>> => Len(turn[s]) = 0
    BY EmptySeq
  <2> QED BY <2>1, WorkerTypes DEF Workers
<1>4. /\ turn'[s] \in Seq(Turn) /\ proc'[s] \in Processes
      /\ \A i \in 1 .. Len(turn[s]) : TurnFits(loop[s].phase, turn'[s][i])
  BY <1>2 DEF Workers, WorkerFits
<1>5. ProbeSession(loop[s], turn[s], proc[s], home[s], care[s], spare[s])
  BY DEF ProbeSessions
<1>6. /\ ProbeSession(loop[s], turn'[s], proc'[s], home[s], care[s], spare[s])
      /\ Serves(loop[s], turn[s], proc[s], home[s], care[s],
                loop[s], turn'[s], proc'[s], home[s], care[s])
  BY <1>2, <1>3, <1>4, <1>5, RunsServes
<1>7. loop'[s].phase = loop[s].phase
  BY <1>2
<1>8. /\ ProbeSession(loop'[s], turn'[s], proc'[s], home'[s], care'[s], spare[s])
      /\ Serves(loop[s], turn[s], proc[s], home[s], care[s],
                loop'[s], turn'[s], proc'[s], home'[s], care'[s])
  BY <1>2, <1>6, <1>7, PhaseServes
<1>9. care' \in [Sessions -> Probing!Cleanup]
  BY DEF ProbeTypes
<1> QED BY <1>2, <1>8, <1>9, ServingAt

LEMMA PreparationStep ==
    ASSUME Workers, ProbeTypes, ProbeSessions, NEW s \in Sessions, NEW g \in 1 .. Len(turn[s]),
           NEW d, NEW i, NEW m,
           Prepares(loop[s].phase, turn[s][g], d, proc[s], home[s], i, care[s], m),
           Turns(s, g, d), proc' = proc,
           home' = [home EXCEPT ![s] = i], care' = [care EXCEPT ![s] = m]
    PROVE  Serving(s)
<1>1. /\ turn[s] \in Seq(Turn) /\ proc[s] \in Processes /\ care[s] \in Probing!Cleanup
      /\ home[s] \in {"none", "there", "gone"}
      /\ turn[s][g] \in Turn /\ TurnFits(loop[s].phase, turn[s][g])
      /\ \A j \in 1 .. Len(turn[s]) : TurnFits(loop[s].phase, turn[s][j])
      /\ home \in [Sessions -> {"none", "there", "gone"}] /\ care \in [Sessions -> Probing!Cleanup]
      /\ proc \in [Sessions -> Processes]
  BY WorkerTypes DEF Workers, ProbeTypes
<1>2. ProbeSession(loop[s], turn[s], proc[s], home[s], care[s], spare[s])
  BY DEF ProbeSessions
<1>3. turn[s][g].kind \in {"prepare", "ask", "close"}
  BY <1>2 DEF ProbeSession, ProbeTurns
<1>4. d \in Turn /\ TurnFits(loop[s].phase, d)
  BY <1>1, <1>3, PreparationFits
<1>5. /\ loop' \in [Sessions -> Worker] /\ turn' \in [Sessions -> Seq(Turn)]
      /\ \A r \in Sessions : WorkerFits(loop'[r], turn'[r])
      /\ \A r \in Sessions : loop'[r].phase = loop[r].phase /\ Len(turn'[r]) = Len(turn[r])
      /\ \A r \in Sessions \ {s} : turn'[r] = turn[r] /\ loop'[r] = loop[r]
      /\ \A h \in 1 .. Len(turn[s]) : turn'[s][h] = IF h = g THEN d ELSE turn[s][h]
  BY <1>4, TurnsFits
<1>6. turn'[s] \in Seq(Turn) /\ turn'[s][g] = d /\ \A j \in (1 .. Len(turn[s])) \ {g} : turn'[s][j] = turn[s][j]
  BY <1>5
<1>7. /\ ProbeSession(loop[s], turn'[s], proc[s], i, m, spare[s])
      /\ Serves(loop[s], turn[s], proc[s], home[s], care[s], loop[s], turn'[s], proc[s], i, m)
      /\ m \in Probing!Cleanup /\ i \in {home[s], "there", "gone"}
  <2> DEFINE l == loop[s]
  <2> DEFINE t == turn[s]
  <2> DEFINE u == turn'[s]
  <2> DEFINE p == proc[s]
  <2> DEFINE h == home[s]
  <2> DEFINE c == care[s]
  <2> DEFINE f == spare[s]
  <2>1. Prepares(l.phase, t[g], u[g], p, h, i, c, m)
    BY <1>6
  <2>2. /\ t \in Seq(Turn) /\ u \in Seq(Turn) /\ Len(u) = Len(t) /\ p \in Processes
        /\ c \in Probing!Cleanup /\ g \in 1 .. Len(t)
        /\ \A j \in (1 .. Len(t)) \ {g} : u[j] = t[j]
        /\ \A j \in 1 .. Len(t) : TurnFits(l.phase, t[j])
        /\ ProbeSession(l, t, p, h, c, f)
    BY <1>1, <1>2, <1>5, <1>6
  <2> HIDE DEF l, t, u, p, h, c, f
  <2>3. /\ ProbeSession(l, u, p, i, m, f) /\ Serves(l, t, p, h, c, l, u, p, i, m)
        /\ m \in Probing!Cleanup /\ i \in {h, "there", "gone"}
    BY <2>1, <2>2, PreparationServes
  <2> QED BY <2>3 DEF l, t, u, p, h, c, f
<1>8. /\ home'[s] = i /\ care'[s] = m /\ proc'[s] = proc[s]
      /\ home' \in [Sessions -> {"none", "there", "gone"}] /\ care' \in [Sessions -> Probing!Cleanup]
      /\ proc' \in [Sessions -> Processes]
      /\ \A r \in Sessions \ {s} : home'[r] = home[r] /\ care'[r] = care[r] /\ proc'[r] = proc[r]
  BY <1>1, <1>7
<1>9. /\ ProbeSession(loop'[s], turn'[s], proc'[s], home'[s], care'[s], spare[s])
      /\ Serves(loop[s], turn[s], proc[s], home[s], care[s],
                loop'[s], turn'[s], proc'[s], home'[s], care'[s])
  BY <1>5, <1>7, <1>8, PhaseServes
<1>10. Workers'
  BY <1>5, <1>8 DEF Workers
<1> QED BY <1>5, <1>8, <1>9, <1>10, ServingAt

\* What the sessions do by themselves.
ThreadsRest == UNCHANGED <<at, on, own, broker, spare, latch, job>>
LEMMA ProbingMoves ==
    ASSUME Workers, ProbeTypes, ProbeSessions, Probing!SessionMoves
    PROVE  /\ ThreadsRest /\ faults' \in 0 .. ProbeMaxFaults
           /\ \E s \in Sessions : Serving(s)
<1>1. PICK s \in Sessions :
          \/ Probing!SessionStep(s) /\ care' = care /\ ThreadsRest
          \/ \E g \in 1 .. Len(turn[s]) : Probing!Begin(s, g) \/ Probing!Claim(s, g) \/ Probing!CleanUp(s, g)
  <2>1. PICK s \in Probing!Sessions :
          \/ Probing!SessionStep(s)
                /\ UNCHANGED <<Probing!threads, broker, Probing!records, latch, job>>
          \/ \E g \in DOMAIN turn[s] : Probing!Begin(s, g) \/ Probing!Claim(s, g) \/ Probing!CleanUp(s, g)
    BY DEF Probing!SessionMoves
  <2>2. s \in Sessions
    BY SameSets
  <2>3. DOMAIN turn[s] = 1 .. Len(turn[s])
    BY <2>2, WorkerTypes
  <2> QED BY <2>1, <2>2, <2>3 DEF Probing!threads, Probing!records, ThreadsRest
<1>2. /\ loop[s] \in Worker /\ turn[s] \in Seq(Turn) /\ proc[s] \in Processes
      /\ \A i \in 1 .. Len(turn[s]) : TurnFits(loop[s].phase, turn[s][i])
      /\ ProbeSession(loop[s], turn[s], proc[s], home[s], care[s], spare[s])
      /\ home \in [Sessions -> {"none", "there", "gone"}] /\ care \in [Sessions -> Probing!Cleanup]
      /\ proc \in [Sessions -> Processes] /\ loop \in [Sessions -> Worker]
      /\ turn \in [Sessions -> Seq(Turn)]
      /\ WorkerFits(loop[s], turn[s])
  BY WorkerTypes DEF Workers, ProbeTypes, ProbeSessions
<1>3. CASE Probing!LoopEnds(s) /\ care' = care /\ ThreadsRest
  <2>1. /\ loop[s].phase = "stopping" /\ loop' = [loop EXCEPT ![s].phase = "stopped"]
        /\ \A g \in 1 .. Len(turn[s]) : ~Started(turn[s][g])
        /\ turn' = turn /\ proc' = proc /\ home' = home /\ faults' = faults
    BY <1>3, SameState, WorkerTypes DEF Probing!LoopEnds
  <2> DEFINE l == [loop[s] EXCEPT !.phase = "stopped"]
  <2>2. l \in Worker /\ l.phase = "stopped" /\ loop' = [loop EXCEPT ![s] = l] /\ l.submitted = loop[s].submitted
        /\ l.active = loop[s].active /\ l.completed = loop[s].completed
    BY <2>1, <1>2 DEF Worker, Phases
  <2> HIDE DEF l
  <2>3. loop'[s] = l /\ loop' \in [Sessions -> Worker] /\ \A r \in Sessions \ {s} : loop'[r] = loop[r]
    BY <2>2, <1>2
  <2>4. WorkerFits(l, turn[s])
    <3>1. \A g \in 1 .. Len(turn[s]) : TurnFits("stopped", turn[s][g])
      BY <2>1, <1>2 DEF TurnFits, Started, Opened
    <3> QED BY <3>1, <2>2, <1>2 DEF WorkerFits
  <2>5. Workers'
    BY <2>1, <2>3, <2>4 DEF Workers
  <2>6. /\ ProbeSession(l, turn[s], proc[s], home[s], care[s], spare[s])
        /\ Serves(loop[s], turn[s], proc[s], home[s], care[s], l, turn[s], proc[s], home[s], care[s])
    BY <2>1, <2>2, <1>2, EndServes
  <2>7. Serving(s)
    BY <2>1, <2>3, <2>5, <2>6, <1>2, <1>3, ServingAt
  <2> QED BY <2>1, <2>7, <1>3 DEF ProbeTypes
<1>4. CASE Probing!Exits(s) /\ care' = care /\ ThreadsRest
  <2> DEFINE q == [proc[s] EXCEPT !.process = "dead"]
  <2>1. /\ proc[s].process # "none" /\ proc' = [proc EXCEPT ![s] = q] /\ q \in Processes
        /\ loop' = loop /\ turn' = turn /\ home' = home
        /\ faults' \in 0 .. ProbeMaxFaults
    <3>1. faults' \in 0 .. ProbeMaxFaults
      BY <1>4, ProbeFaultsCount DEF Probing!Exits
    <3>2. proc[s].process # "none"
      BY <1>4 DEF Probing!Exits, Probing!ProcessAlive
    <3>3. proc' = [proc EXCEPT ![s] = q] /\ q \in Processes
      BY <1>4, <1>2 DEF Probing!Exits, Processes
    <3> QED BY <3>1, <3>2, <3>3, <1>4 DEF Probing!Exits
  <2>2. /\ ProbeSession(loop[s], turn[s], q, home[s], care[s], spare[s])
        /\ Serves(loop[s], turn[s], proc[s], home[s], care[s], loop[s], turn[s], q, home[s], care[s])
    BY <2>1, <1>2, EndServes
  <2> HIDE DEF q
  <2>3. proc'[s] = q /\ proc' \in [Sessions -> Processes] /\ \A r \in Sessions \ {s} : proc'[r] = proc[r]
    BY <2>1, <1>2
  <2>5. Workers'
    BY <2>1, <2>3 DEF Workers
  <2>7. Serving(s)
    BY <2>1, <2>2, <2>3, <2>5, <1>2, <1>4, ServingAt
  <2> QED BY <2>1, <2>7, <1>4
<1>5. CASE (\E g \in 1 .. Len(turn[s]) : Probing!CoroutineStep(s, g)) /\ care' = care /\ ThreadsRest
  <2>1. PICK g \in 1 .. Len(turn[s]) : Probing!CoroutineStep(s, g)
    BY <1>5
  <2>2. Serving(s)
    BY <2>1, <1>5, ProbingStep
  <2>3. (\E what : Probing!Trip(what)) \/ Probing!Calm
    BY <2>1 DEF Probing!CoroutineStep, Probing!BeginClose, Probing!Expires, Probing!Interrupted,
       Probing!Connect, Probing!Open, Probing!Ask, Probing!SessionClose, Probing!Terminate,
       Probing!Reaped, Probing!Spared, Probing!Calm
  <2> QED BY <2>2, <2>3, <1>5, ProbeFaultsCount
<1>6. ASSUME NEW g \in 1 .. Len(turn[s]), Probing!Begin(s, g) \/ Probing!Claim(s, g) \/ Probing!CleanUp(s, g)
      PROVE  Serving(s) /\ ThreadsRest /\ faults' \in 0 .. ProbeMaxFaults
  <2> DEFINE c == turn[s][g]
  <2> DEFINE p == proc[s]
  <2> DEFINE h == home[s]
  <2> DEFINE k == care[s]
  <2>m. /\ \A step, raised : Probing!Move(s, g, step, raised) => Turns(s, g, Moved(c, step, raised))
        /\ \A raised : Probing!Settle(s, g, raised) => Turns(s, g, Settled(c, raised))
    BY StepRecords, SameMoves
  <2>s. /\ Probing!TransportAlive(s) <=> Living(p) /\ ~p.closing
        /\ \A step : Probing!At(s, g, step) <=> loop[s].phase \in {"running", "stopping"} /\ c.at = step
        /\ Probing!Begins(s, g) <=> loop[s].phase = "running" /\ c.at = "queued"
    BY DEF Probing!TransportAlive, Probing!ProcessAlive, Living, Probing!At, Probing!Alive, Probing!Begins
  <2>h. home' = home => home' = [home EXCEPT ![s] = h]
    BY <1>2
  <2>k. care' = care => care' = [care EXCEPT ![s] = k]
    BY <1>2
  <2>e. ASSUME NEW d, NEW i, NEW m, Prepares(loop[s].phase, c, d, p, h, i, k, m), Turns(s, g, d), proc' = proc,
               home' = [home EXCEPT ![s] = i], care' = [care EXCEPT ![s] = m]
        PROVE  Serving(s)
    BY <2>e, PreparationStep
  <2>1. CASE Probing!Begin(s, g)
    <3>1. /\ loop[s].phase = "running" /\ c.at = "queued" /\ c.kind # "close" /\ proc' = proc
      BY <1>6, <2>1, <2>s DEF Probing!Begin
    <3>2. faults' \in 0 .. ProbeMaxFaults
      <4>1. (\E what : Probing!Trip(what)) \/ Probing!Calm
        BY <2>1 DEF Probing!Begin
      <4> QED BY <4>1, ProbeFaultsCount
    <3>3. ThreadsRest
      BY <2>1 DEF Probing!Begin, Probing!threads, ThreadsRest
    <3>4. CASE c.kind = "prepare"
      <4> DEFINE m == [k EXCEPT !.listed = TRUE]
      <4>1. home' = [home EXCEPT ![s] = "there"] /\ care' = [care EXCEPT ![s] = m]
        BY <2>1, <3>4, <1>2 DEF Probing!Begin, Probing!Cleanup
      <4>2. PICK d \in {Moved(c, "connect", "ok"), Moved(c, "claim", "error")} : Turns(s, g, d)
        BY <2>1, <3>4, <2>m DEF Probing!Begin
      <4>3. Prepares(loop[s].phase, c, d, p, h, "there", k, m)
        BY <3>1, <3>4 DEF Prepares, Prompted
      <4> HIDE DEF m, c, p, h, k
      <4>4. Serving(s)
        BY <4>1, <4>2, <4>3, <3>1, <2>e
      <4> QED BY <4>4, <3>2, <3>3
    <3>5. CASE c.kind # "prepare"
      <4>1. home' = home /\ care' = care /\ Turns(s, g, Moved(c, "turn", "ok"))
        BY <2>1, <3>5, <2>m DEF Probing!Begin
      <4>2. Prepares(loop[s].phase, c, Moved(c, "turn", "ok"), p, h, h, k, k)
        BY <3>1, <3>5 DEF Prepares, Prompted
      <4>3. Serving(s)
        BY <4>1, <4>2, <3>1, <2>e, <2>h, <2>k
      <4> QED BY <4>3, <3>2, <3>3
    <3> QED BY <3>4, <3>5
  <2>2. CASE Probing!Claim(s, g)
    <3>1. /\ loop[s].phase # "stopped" /\ c.at = "claim" /\ proc' = proc /\ home' = home
          /\ ThreadsRest /\ faults' = faults
      BY <2>2, <2>s DEF Probing!Claim, Probing!threads, ThreadsRest
    <3>2. faults' \in 0 .. ProbeMaxFaults
      BY <3>1 DEF ProbeTypes
    <3>3. CASE k.listed /\ k.owner = "none"
      <4> DEFINE m == [k EXCEPT !.owner = "coroutine"]
      <4>1. care' = [care EXCEPT ![s] = m] /\ Turns(s, g, Moved(c, "session", "error"))
        BY <2>2, <3>3, <2>m, <1>2 DEF Probing!Claim, Probing!Cleanup
      <4>2. Prepares(loop[s].phase, c, Moved(c, "session", "error"), p, h, h, k, m)
        BY <3>1, <3>3 DEF Prepares, Claimed
      <4> HIDE DEF m
      <4>3. Serving(s)
        BY <4>1, <4>2, <3>1, <2>e, <2>h
      <4> QED BY <4>3, <3>1, <3>2
    <3>4. CASE ~(k.listed /\ k.owner = "none")
      <4>1. care' = care /\ Turns(s, g, Settled(c, "error"))
        BY <2>2, <3>4, <2>m DEF Probing!Claim
      <4>2. Prepares(loop[s].phase, c, Settled(c, "error"), p, h, h, k, k)
        BY <3>1, <3>4 DEF Prepares, Claimed
      <4>3. Serving(s)
        BY <4>1, <4>2, <3>1, <2>e, <2>h, <2>k
      <4> QED BY <4>3, <3>1, <3>2
    <3> QED BY <3>3, <3>4
  <2>3. CASE Probing!CleanUp(s, g)
    <3>1. PICK cleaned \in BOOLEAN :
            /\ Probing!Erase(s, cleaned) /\ Turns(s, g, Settled(c, "error"))
            /\ care' = [care EXCEPT ![s].closed = ~c.unclosed \/ ~Probing!TransportAlive(s),
                                    ![s].cleaned = cleaned, ![s].complete = TRUE]
      BY <2>3, <2>m DEF Probing!CleanUp
    <3>2. c.at = "home" /\ proc' = proc /\ ThreadsRest
      BY <2>3, <2>s DEF Probing!CleanUp, Probing!threads, ThreadsRest
    <3>3. faults' \in 0 .. ProbeMaxFaults
      <4>1. (\E what : Probing!Trip(what)) \/ Probing!Calm
        BY <3>1 DEF Probing!Erase
      <4> QED BY <4>1, ProbeFaultsCount
    <3> DEFINE b == ~c.unclosed \/ ~(Living(p) /\ ~p.closing)
    <3> DEFINE i == IF cleaned THEN "gone" ELSE h
    <3> DEFINE m == [k EXCEPT !.closed = b, !.cleaned = cleaned, !.complete = TRUE]
    <3>4. home' = [home EXCEPT ![s] = i]
      BY <3>1 DEF Probing!Erase
    <3>5. (~c.unclosed \/ ~Probing!TransportAlive(s)) = b
      BY <2>s
    <3>6. CleanedUp(c, Settled(c, "error"), p, h, i, k, m)
      BY <3>2 DEF CleanedUp
    <3> HIDE DEF b
    <3>7. care' = [care EXCEPT ![s] = m]
      BY <3>1, <3>5, <1>2 DEF Probing!Cleanup
    <3> HIDE DEF m, i, c, p, h, k
    <3>8. Serving(s)
      <4>1. Prepares(loop[s].phase, c, Settled(c, "error"), p, h, i, k, m)
        BY <3>6 DEF Prepares
      <4> QED BY <4>1, <3>1, <3>2, <3>4, <3>7, <2>e
    <3> QED BY <3>2, <3>3, <3>8
  <2> QED BY <1>6, <2>1, <2>2, <2>3
<1> QED
  <2>1. Probing!SessionStep(s) => Probing!LoopEnds(s) \/ Probing!Exits(s)
            \/ \E g \in 1 .. Len(turn[s]) : Probing!CoroutineStep(s, g)
    BY WorkerTypes DEF Probing!SessionStep
  <2> QED BY <2>1, <1>1, <1>3, <1>4, <1>5, <1>6

------------------------------------------------------------------------------
\* Where a thread t is: with the close of the session s, with its cleanup, with a cancel that
\* a finish follows.
Closes(t, s) == at[t] \in {"f_close", "f_stop"} /\ on[t].s = s
Retries(t, s) == at[t] \in {"c_close", "c_erase", "c_stop"} /\ on[t].s = s
Cancels(t) == at[t] \in {"b_cancel", "b_sub", "b_cut"}
Finishes(t, s) ==
    /\ on[t].s = s
    /\ \/ at[t] \in Probing!FinishSteps \/ at[t] = "b_finish"
       \/ Cancels(t) /\ on[t].back = "b_finish"

\* With the sessions in flight, after its look at the session that is prepared or active, or
\* waiting for the one that is being prepared.
Visits(t) == at[t] = "b_each" \/ (at[t] \in Probing!RetrySteps /\ on[t].back = "b_each")
Clears(t) ==
    \/ at[t] \in {"b_finish", "b_closed", "b_inflight"}
    \/ at[t] \in Probing!FinishSteps /\ on[t].back = "b_closed"
    \/ Cancels(t) /\ on[t].back = "b_finish"
Waits(t) == at[t] = "b_prepared" \/ (Cancels(t) /\ on[t].back = "b_prepared")

\* A session that a close was begun for or will be, that was let go of, that is in flight.
Handed(s) == spare[s].closing \/ \E t \in ProbeThreads : at[t] = "f_claim" /\ on[t].s = s
Safe(s) == Quit(loop[s], proc[s], home[s]) \/ Handed(s)
Held(s) == Safe(s) \/ care[s].listed
Prepared(t, c) == t # <<>> /\ (t[1].future = "ok" => c.listed)
Waited(t, c) == Idling(t) \/ (t # <<>> /\ t[1].future = "ok" /\ c.listed)

\* A thread that finishes a session, or retries its cleanup.
FinishFits(t, s) ==
    /\ s \in Sessions /\ Ready(turn[s], care[s]) /\ on[t].back \in {"p_raise", "p_judge", "b_closed"}
    /\ Closes(t, s) => /\ spare[s].closing /\ ~spare[s].closed
                       /\ \A u \in ProbeThreads \ {t} : ~Closes(u, s)
    /\ at[t] = "f_wait" => spare[s].closing
    /\ at[t] = "f_close" => /\ ~spare[s].ok /\ on[t].g \in 1 .. Len(turn[s])
                            /\ turn[s][on[t].g].kind = "close"
RetryFits(t, s) ==
    /\ s \in Sessions /\ Spoilt(turn[s]) /\ on[t].back \in {"p_raise", "b_each"}
    /\ Retries(t, s) => /\ care[s].listed /\ care[s].owner = "broker"
                        /\ \A u \in ProbeThreads \ {t} : ~Retries(u, s)
    /\ at[t] = "c_close" => on[t].g \in 1 .. Len(turn[s]) /\ turn[s][on[t].g].kind = "close"
    /\ at[t] \in {"c_erase", "c_stop"} => care[s].closed
    /\ at[t] = "c_stop" => home[s] = "gone" /\ loop[s].phase # "running"
ThreadFits(t) ==
    /\ at[t] \in Probing!FinishSteps => FinishFits(t, on[t].s)
    /\ at[t] \in Probing!RetrySteps => RetryFits(t, on[t].s)
    /\ Cancels(t) => on[t].s \in Sessions /\ on[t].back \in {"b_finish", "b_prepared"}
    /\ Finishes(t, on[t].s) => on[t].s \in Sessions /\ Ready(turn[on[t].s], care[on[t].s])
    /\ at[t] = "b_sub" => own[t].target > 0
    /\ Visits(t) => \A r \in own[t].todo : Spoilt(turn[r])
    /\ Clears(t) => broker.preparing = 0
    /\ Waits(t) => broker.preparing \in {0, on[t].s}

\* The thread that runs the probes.
Helping(t) == at[t] \in Probing!FinishSteps \cup Probing!RetrySteps
Preparing ==
    \/ at["probe"] \in {"p_submit", "p_wait", "p_stop", "p_raise"}
    \/ Helping("probe") /\ on["probe"].back = "p_raise"
ProbeFits ==
    LET p == at["probe"]
        s == on["probe"].s
    IN  /\ p \notin {"idle", "over"}
        /\ IF Preparing THEN s \in Sessions /\ broker.preparing = s ELSE broker.preparing = 0
        /\ p \in {"p_unused", "p_submit"} => s \in Sessions /\ turn[s] = <<>> /\ loop[s].phase # "none"
        /\ p = "p_wait" => Prepared(turn[s], care[s])
        /\ p \in {"p_submit", "p_wait"} => on["probe"].g = 1
        /\ p \in {"p_stop", "p_raise"} \/ (Helping("probe") /\ on["probe"].back = "p_raise") =>
              Held(s) /\ turn[s] # <<>> /\ turn[s][1].future # "pending"
        /\ p \in {"p_ask", "p_asked"} => s \in Sessions /\ Ready(turn[s], care[s])
                                         /\ (s = broker.active \/ spare[s].closing)
        /\ p = "p_ask" => on["probe"].g \in 1 .. (Len(turn[s]) + 1)
        /\ p = "p_asked" => on["probe"].g \in 1 .. Len(turn[s])
        /\ p = "p_judge" => s \in Sessions /\ (own["probe"].fine => spare[s].closed /\ spare[s].ok)
        /\ job.outcome = "accepted" => p = "p_idle" /\ s \in Sessions /\ spare[s].closed /\ spare[s].ok
        /\ job.met => p = "p_idle" /\ latch.memory

\* The thread that stops the review.
StopFits ==
    /\ at["stop"] \notin Probing!ProbeSteps
    /\ Helping("stop") => on["stop"].back \in Probing!AbortSteps
    /\ at["stop"] \notin {"idle", "b_flag"} => broker.aborted

BrokerFits ==
    /\ broker.preparing # 0 => broker.prepared = 0 /\ broker.active = 0
    /\ broker.prepared # 0 => broker.active = 0
    /\ \A s \in Sessions :
          /\ s = broker.prepared =>
                /\ Ready(turn[s], care[s]) /\ ~spare[s].closing
                /\ at["probe"] \in {"p_validate", "p_send", "b_flag"}
                /\ \A t \in ProbeThreads : ~Finishes(t, s)
          /\ s = broker.active =>
                /\ Ready(turn[s], care[s]) /\ ~spare[s].closed
                /\ \/ at["probe"] \in {"p_ask", "p_asked"} /\ on["probe"].s = s
                   \/ /\ at["probe"] \in Probing!FinishSteps
                      /\ on["probe"].back = "p_judge" /\ on["probe"].s = s
                   \/ spare[s].closing

SessionsHeld ==
    \A s \in Sessions :
        /\ Waited(turn[s], care[s]) => at["probe"] = "p_wait" /\ on["probe"].s = s
        /\ Held(s) \/ s \in {broker.preparing, broker.prepared, broker.active}
        /\ spare[s].closing /\ ~spare[s].closed => \E t \in ProbeThreads : Closes(t, s)
Acknowledged ==
    own["stop"].result = "yes" => broker.aborted /\ broker.preparing = 0 /\ \A s \in Sessions : Safe(s)

ProbesInv ==
    /\ Workers /\ ProbeTypes /\ ProbeSessions
    /\ \A t \in ProbeThreads : ThreadFits(t)
    /\ ProbeFits /\ StopFits /\ BrokerFits /\ SessionsHeld /\ Acknowledged

------------------------------------------------------------------------------
\* What no step takes back of a session r.
Lasts(r) ==
    /\ Ready(turn[r], care[r]) => Ready(turn'[r], care'[r])
    /\ Spoilt(turn[r]) => Spoilt(turn'[r])
    /\ turn[r] # <<>> /\ turn[r][1].future # "pending" =>
          turn'[r] # <<>> /\ turn'[r][1].future # "pending"
    /\ Len(turn[r]) <= Len(turn'[r])
    /\ \A g \in 1 .. Len(turn[r]) : turn'[r][g].kind = turn[r][g].kind
    /\ home[r] = "gone" => home'[r] = "gone"
    /\ loop[r].phase # "none" => loop'[r].phase # "none"
    /\ loop[r].phase \notin {"none", "running"} => loop'[r].phase # "running"
    /\ spare[r].closing => spare'[r].closing
    /\ spare[r].closed => spare'[r] = spare[r]

\* And what it leaves to the others, unless it is a preparation's own.
Rests(r) ==
    /\ turn[r] = <<>> => turn'[r] = <<>>
    /\ Waited(turn'[r], care'[r]) => Waited(turn[r], care[r])
    /\ Prepared(turn[r], care[r]) => Prepared(turn'[r], care'[r])
    /\ Quit(loop[r], proc[r], home[r]) => Quit(loop'[r], proc'[r], home'[r]) \/ Idling(turn[r])
    /\ care[r].listed => care'[r].listed \/ Quit(loop'[r], proc'[r], home'[r])
Tended(x) ==
    /\ Workers' /\ ProbeSessions'
    /\ \A r \in Sessions : Lasts(r) /\ (r # x => Rests(r))

LEMMA KeepsLasts ==
    ASSUME NEW r, turn[r] \in Seq(Turn), turn'[r] \in Seq(Turn),
           Keeps(loop[r], turn[r], home[r], care[r], loop'[r], turn'[r], home'[r], care'[r]),
           spare[r].closing => spare'[r].closing, spare[r].closed => spare'[r] = spare[r]
    PROVE  Lasts(r)
<1>1. /\ Len(turn[r]) \in Nat /\ Len(turn'[r]) \in Nat
      /\ turn[r] = <<>> <=> Len(turn[r]) = 0
      /\ turn'[r] = <<>> <=> Len(turn'[r]) = 0
  BY LenProperties, EmptySeq
<1>2. /\ Len(turn[r]) <= Len(turn'[r])
      /\ \A g \in 1 .. Len(turn[r]) : /\ turn'[r][g].kind = turn[r][g].kind
                                      /\ turn[r][g].future # "pending" => turn'[r][g].future = turn[r][g].future
  BY DEF Keeps, Onwards
<1>3. turn[r] # <<>> => turn'[r] # <<>> /\ 1 \in 1 .. Len(turn[r])
  BY <1>1, <1>2
<1>4. turn[r] # <<>> /\ turn[r][1].future # "pending" => turn'[r][1].future = turn[r][1].future
  BY <1>2, <1>3
<1> QED BY <1>2, <1>3, <1>4 DEF Keeps, Lasts, Spoilt

\* A step of the sessions.
LEMMA ServingTends ==
    ASSUME Workers, NEW s \in Sessions, Serving(s), spare' = spare
    PROVE  Tended(0)
<1>1. \A r \in Sessions : turn[r] \in Seq(Turn) /\ turn'[r] \in Seq(Turn)
  BY DEF Workers, Serving
<1>2. ASSUME NEW r \in Sessions PROVE Lasts(r) /\ Rests(r)
  <2>1. Serves(loop[r], turn[r], proc[r], home[r], care[r], loop'[r], turn'[r], proc'[r], home'[r], care'[r])
    BY DEF Serving
  <2>2. Lasts(r)
    BY <1>1, <2>1, KeepsLasts DEF Serves
  <2>3. Rests(r)
    BY <2>1, <2>2 DEF Serves, Rests, Waited, Prepared, Idling, Lasts, Spoilt
  <2> QED BY <2>2, <2>3
<1>3. ProbeSessions'
  BY DEF Serving, ProbeSessions
<1> QED BY <1>2, <1>3 DEF Tended, Serving

\* A step of a thread that works on the session s.
RecordsFit(s) ==
    LET t == turn'[s]
        c == care[s]
        d == care'[s]
        p == proc[s]
    IN  /\ Spoilt(t) \/ (Ready(t, c) /\ c.closed = d.closed)
                     \/ (t # <<>> /\ t[1].future = "ok" /\ ~d.listed /\ ~d.closed)
        /\ home'[s] = home[s] \/ (home'[s] = "gone" /\ t # <<>>)
        /\ Ready(t, c) => ~d.listed
        /\ d.listed = c.listed
              \/ (~d.listed /\ p.process # "alive" /\ home'[s] # "there" /\ loop'[s].phase = "stopped")
              \/ (t[1].future = "ok" /\ ~d.listed)
        /\ c.owner = "coroutine" => d.owner = "coroutine" \/ c.complete
        /\ d.complete = c.complete \/ ~Started(t[1])
        /\ d.closed => c.closed \/ p.process # "alive"
        /\ SpareFits(loop'[s], t, p, home'[s], d, spare'[s])
RecordsSame(s) == home'[s] = home[s] /\ care'[s] = care[s] /\ spare'[s] = spare[s]

LEMMA ThreadTends ==
    ASSUME Workers, ProbeTypes, ProbeSessions, NEW s \in Sessions, NEW x, Handling(s),
           Len(turn'[s]) = Len(turn[s]) \/ Submitted(turn[s], turn'[s]),
           proc' = proc, home' \in [Sessions -> {"none", "there", "gone"}],
           care' \in [Sessions -> Probing!Cleanup],
           \A r \in Sessions \ {s} : RecordsSame(r),
           RecordsSame(s) \/ RecordsFit(s),
           spare[s].closing => spare'[s].closing, spare[s].closed => spare'[s] = spare[s],
           s # x => /\ turn[s] # <<>> \/ turn'[s] = <<>>
                    /\ care'[s].listed => care[s].listed
                    /\ care[s].listed => \/ care'[s].listed
                                         \/ turn[s][1].future # "ok" /\ Quit(loop'[s], proc'[s], home'[s])
    PROVE  Tended(x)
<1>1. /\ \A r \in Sessions : turn[r] \in Seq(Turn) /\ turn'[r] \in Seq(Turn) /\ proc[r] \in Processes
      /\ \A r \in Sessions : loop[r] \in Worker /\ loop'[r] \in Worker
      /\ \A r \in Sessions : WorkerFits(loop[r], turn[r]) /\ WorkerFits(loop'[r], turn'[r])
      /\ \A r \in Sessions \ {s} : turn'[r] = turn[r] /\ loop'[r] = loop[r]
  BY DEF Workers, Handling
<1>2. Workers'
  BY DEF Workers, Handling
<1>3. ASSUME NEW r \in Sessions, r # s
      PROVE  /\ ProbeSession(loop'[r], turn'[r], proc'[r], home'[r], care'[r], spare'[r])
             /\ Lasts(r) /\ Rests(r)
  <2>1. /\ loop'[r] = loop[r] /\ turn'[r] = turn[r] /\ proc'[r] = proc[r] /\ home'[r] = home[r]
        /\ care'[r] = care[r] /\ spare'[r] = spare[r]
    BY <1>1, <1>3 DEF RecordsSame
  <2>2. ProbeSession(loop[r], turn[r], proc[r], home[r], care[r], spare[r])
    BY DEF ProbeSessions
  <2> QED BY <2>1, <2>2, <1>1, LenProperties DEF Lasts, Rests
<1>4. /\ ProbeSession(loop[s], turn[s], proc[s], home[s], care[s], spare[s])
      /\ \A i \in 1 .. Len(turn[s]) : TurnFits(loop[s].phase, turn[s][i]) /\ Touched(turn[s][i], turn'[s][i])
      /\ \A i \in 1 .. Len(turn'[s]) : TurnFits(loop'[s].phase, turn'[s][i])
      /\ loop'[s].phase = loop[s].phase \/ (loop[s].phase = "running" /\ loop'[s].phase = "stopping")
  BY <1>1 DEF ProbeSessions, Handling, WorkerFits
<1>5. /\ ProbeSession(loop'[s], turn'[s], proc[s], home[s], care[s], spare[s])
      /\ Keeps(loop[s], turn[s], home[s], care[s], loop'[s], turn'[s], home[s], care[s])
  BY <1>1, <1>4, HandledSession
<1>6. /\ ProbeSession(loop'[s], turn'[s], proc[s], home'[s], care'[s], spare'[s])
      /\ Keeps(loop[s], turn[s], home[s], care[s], loop'[s], turn'[s], home'[s], care'[s])
  <2>1. CASE RecordsSame(s)
    BY <2>1, <1>5 DEF RecordsSame
  <2>2. CASE RecordsFit(s)
    <3> DEFINE l == loop'[s]
    <3> DEFINE t == turn'[s]
    <3> DEFINE p == proc[s]
    <3> DEFINE h == home[s]
    <3> DEFINE c == care[s]
    <3> DEFINE f == spare[s]
    <3> DEFINE i == home'[s]
    <3> DEFINE d == care'[s]
    <3> DEFINE e == spare'[s]
    <3>1. /\ t \in Seq(Turn) /\ \A j \in 1 .. Len(t) : TurnFits(l.phase, t[j])
          /\ ProbeSession(l, t, p, h, c, f)
      BY <1>1, <1>4, <1>5
    <3>2. /\ Spoilt(t) \/ (Ready(t, c) /\ c.closed = d.closed)
                       \/ (t # <<>> /\ t[1].future = "ok" /\ ~d.listed /\ ~d.closed)
          /\ i = h \/ (i = "gone" /\ t # <<>>)
          /\ Ready(t, c) => ~d.listed
          /\ d.listed = c.listed
                \/ (~d.listed /\ p.process # "alive" /\ i # "there" /\ l.phase = "stopped")
                \/ (t[1].future = "ok" /\ ~d.listed)
          /\ c.owner = "coroutine" => d.owner = "coroutine" \/ c.complete
          /\ d.complete = c.complete \/ ~Started(t[1])
          /\ d.closed => c.closed \/ p.process # "alive"
          /\ SpareFits(l, t, p, i, d, e)
      BY <2>2 DEF RecordsFit
    <3> HIDE DEF l, t, p, h, c, f, i, d, e
    <3>3. ProbeSession(l, t, p, i, d, e)
      BY <3>1, <3>2, RecordsSession
    <3>4. Keeps(loop[s], turn[s], h, c, l, t, h, c)
      BY <1>5 DEF l, t, h, c
    <3>5. Keeps(loop[s], turn[s], h, c, l, t, i, d)
      BY <3>2, <3>4 DEF Keeps, Ready
    <3> QED BY <3>3, <3>5 DEF l, t, p, h, c, f, i, d, e
  <2> QED BY <2>1, <2>2
<1>7. Lasts(s)
  BY <1>1, <1>6, KeepsLasts
<1>8. ASSUME s # x PROVE Rests(s)
  <2>1. /\ Len(turn[s]) \in Nat /\ (turn[s] = <<>> <=> Len(turn[s]) = 0)
        /\ (turn'[s] = <<>> <=> Len(turn'[s]) = 0)
    BY <1>1, LenProperties, EmptySeq
  <2>2. turn[s] # <<>> => 1 \in 1 .. Len(turn[s])
    BY <2>1
  <2>3. turn[s] # <<>> => /\ turn'[s] # <<>>
                          /\ \/ turn'[s][1].future = turn[s][1].future
                             \/ turn[s][1].future = "pending" /\ turn'[s][1].future \in {"cancelled", "timeout"}
    BY <2>1, <2>2, <1>4, <1>7 DEF Lasts, Touched
  <2>4. turn[s] = <<>> => turn'[s] = <<>>
    BY <1>8
  <2>5. Waited(turn'[s], care'[s]) => Waited(turn[s], care[s])
    BY <1>8, <2>3, <2>4 DEF Waited, Idling
  <2>6. Prepared(turn[s], care[s]) => Prepared(turn'[s], care'[s])
    BY <1>8, <2>3 DEF Prepared
  <2>7. Quit(loop[s], proc[s], home[s]) => Quit(loop'[s], proc'[s], home'[s])
    <3>1. home'[s] = home[s] \/ home'[s] = "gone"
      BY DEF RecordsSame, RecordsFit
    <3> QED BY <3>1, <1>4 DEF Quit
  <2> QED BY <1>8, <2>4, <2>5, <2>6, <2>7 DEF Rests
<1>9. ProbeSessions'
  BY <1>3, <1>6 DEF ProbeSessions
<1> QED BY <1>2, <1>3, <1>7, <1>8, <1>9 DEF Tended

\* A step that leaves the sessions alone.
LEMMA NothingTends ==
    ASSUME Workers, ProbeTypes, ProbeSessions, loop' = loop, turn' = turn, proc' = proc, home' = home,
           care' = care, spare' = spare
    PROVE  Tended(0)
<1>1. Workers' /\ ProbeSessions'
  BY DEF Workers, ProbeSessions
<1>2. ASSUME NEW r \in Sessions PROVE Lasts(r) /\ Rests(r)
  <2>1. turn[r] \in Seq(Turn)
    BY DEF Workers
  <2> QED BY <2>1, LenProperties DEF Lasts, Rests
<1> QED BY <1>1, <1>2 DEF Tended

------------------------------------------------------------------------------
\* Only the thread t goes on.
Steered(t) ==
    /\ at' \in [ProbeThreads -> ProbeAts]
    /\ on' \in [ProbeThreads -> [s : 0 .. MaxSessions, g : Nat, back : ProbeBacks]]
    /\ own' \in [ProbeThreads -> Probing!Own]
    /\ \A u \in ProbeThreads \ {t} : at'[u] = at[u] /\ on'[u] = on[u] /\ own'[u] = own[u]

\* It stays out of the closes and the retries of the others.
Alone(t) ==
    \A u \in ProbeThreads \ {t}, r \in Sessions :
        /\ Closes(u, r) => spare'[r] = spare[r] /\ (Closes(t, r)' => Closes(t, r))
        /\ Retries(u, r) => care'[r] = care[r] /\ (Retries(t, r)' => Retries(t, r))

\* A close that it is about to begin is begun.
Claims(t) ==
    \A r \in Sessions : at[t] = "f_claim" /\ on[t].s = r =>
        spare'[r].closing \/ (at'[t] = "f_claim" /\ on'[t].s = r)

\* A thread u stays fit where it is, while nobody else joins it in a close or a retry.
LEMMA FitStays ==
    ASSUME Workers, ProbeTypes, NEW x, Tended(x), NEW u \in ProbeThreads, ThreadFits(u),
           at'[u] = at[u], on'[u] = on[u], own'[u].todo = own[u].todo, own'[u].target = own[u].target,
           \A r \in Sessions :
               /\ Closes(u, r) => /\ spare'[r] = spare[r]
                                 /\ \A v \in ProbeThreads \ {u} : Closes(v, r)' => Closes(v, r)
               /\ Retries(u, r) => /\ care'[r] = care[r]
                                  /\ \A v \in ProbeThreads \ {u} : Retries(v, r)' => Retries(v, r),
           broker'.preparing \in {0, broker.preparing} \/ at[u] \in {"idle", "b_flag"}
    PROVE  ThreadFits(u)'
<1>1. /\ at'[u] = at[u] /\ on'[u] = on[u]
      /\ own[u].todo \subseteq Sessions /\ own'[u].todo = own[u].todo /\ own'[u].target = own[u].target
  BY SameSets DEF ProbeTypes, Probing!Own
<1>2. PICK s : s = on[u].s
  OBVIOUS
<1>3. ASSUME s \in Sessions
      PROVE  /\ Lasts(s)
             /\ Closes(u, s) => /\ spare'[s] = spare[s]
                               /\ \A v \in ProbeThreads \ {u} : Closes(v, s)' => Closes(v, s)
             /\ Retries(u, s) => /\ care'[s] = care[s]
                                /\ \A v \in ProbeThreads \ {u} : Retries(v, s)' => Retries(v, s)
  BY <1>3 DEF Tended
<1>4. ASSUME at[u] \in Probing!FinishSteps PROVE FinishFits(u, s)'
  <2>1. FinishFits(u, s)
    BY <1>2, <1>4 DEF ThreadFits
  <2>2. s \in Sessions /\ Ready(turn'[s], care'[s])
    BY <2>1, <1>3 DEF FinishFits, Lasts
  <2>3. Closes(u, s)' = Closes(u, s)
    BY <1>1 DEF Closes
  <2>4. ASSUME Closes(u, s)
        PROVE  /\ spare'[s].closing /\ ~spare'[s].closed
               /\ \A v \in ProbeThreads \ {u} : ~Closes(v, s)'
    <3>1. spare'[s] = spare[s] /\ \A v \in ProbeThreads \ {u} : Closes(v, s)' => Closes(v, s)
      BY <2>2, <2>4, <1>3
    <3>2. \A v \in ProbeThreads \ {u} : ~Closes(v, s)
      BY <2>1, <2>4 DEF FinishFits
    <3>3. \A v \in ProbeThreads \ {u} : ~Closes(v, s)'
      BY <3>1, <3>2
    <3> QED BY <2>1, <2>4, <3>1, <3>3 DEF FinishFits
  <2>5. at[u] = "f_wait" => spare'[s].closing
    BY <2>1, <2>2, <1>3 DEF FinishFits, Lasts
  <2>6. ASSUME at[u] = "f_close"
        PROVE  /\ ~spare'[s].ok /\ on[u].g \in 1 .. Len(turn'[s])
               /\ turn'[s][on[u].g].kind = "close"
    <3>1. Closes(u, s)
      BY <2>6, <1>2 DEF Closes
    <3>2. Len(turn[s]) \in Nat /\ Len(turn'[s]) \in Nat
      <4>1. turn'[s] \in Seq(Turn)
        BY <2>2 DEF Tended, Workers
      <4>2. on[u].g \in 1 .. Len(turn[s])
        BY <2>1, <2>6 DEF FinishFits
      <4> QED BY <4>1, <2>2, <1>3, LenProperties DEF Lasts
    <3> QED BY <2>1, <2>2, <2>6, <3>1, <3>2, <1>3 DEF FinishFits, Lasts
  <2> QED BY <2>1, <2>2, <2>3, <2>4, <2>5, <2>6, <1>1 DEF FinishFits
<1>5. ASSUME at[u] \in Probing!RetrySteps PROVE RetryFits(u, s)'
  <2>1. RetryFits(u, s)
    BY <1>2, <1>5 DEF ThreadFits
  <2>2. s \in Sessions /\ Spoilt(turn'[s])
    BY <2>1, <1>3 DEF RetryFits, Lasts
  <2>3. Retries(u, s)' = Retries(u, s)
    BY <1>1 DEF Retries
  <2>4. ASSUME Retries(u, s)
        PROVE  /\ care'[s] = care[s]
               /\ \A v \in ProbeThreads \ {u} : ~Retries(v, s)'
    <3>1. care'[s] = care[s] /\ \A v \in ProbeThreads \ {u} : Retries(v, s)' => Retries(v, s)
      BY <2>2, <2>4, <1>3
    <3>2. \A v \in ProbeThreads \ {u} : ~Retries(v, s)
      BY <2>1, <2>4 DEF RetryFits
    <3> QED BY <3>1, <3>2
  <2>5. ASSUME at[u] = "c_close"
        PROVE  on[u].g \in 1 .. Len(turn'[s]) /\ turn'[s][on[u].g].kind = "close"
    <3>1. on[u].g \in 1 .. Len(turn[s]) /\ Len(turn[s]) <= Len(turn'[s])
      BY <2>1, <2>2, <2>5, <1>3 DEF RetryFits, Lasts
    <3>2. turn'[s] \in Seq(Turn)
      BY <2>2 DEF Tended, Workers
    <3> QED BY <2>1, <2>2, <2>5, <3>1, <3>2, <1>3, LenProperties DEF RetryFits, Lasts
  <2>6. at[u] \in {"c_close", "c_erase", "c_stop"} => Retries(u, s)
    BY <1>2 DEF Retries
  <2>7. at[u] \in {"c_erase", "c_stop"} => care'[s].closed
    BY <2>1, <2>4, <2>6 DEF RetryFits
  <2>8. at[u] = "c_stop" => home'[s] = "gone" /\ loop'[s].phase # "running"
    <3>1. loop[s].phase # "none"
      BY <2>1, <2>2, WorkerTypes DEF RetryFits, Spoilt
    <3> QED BY <2>1, <2>2, <3>1, <1>3 DEF RetryFits, Lasts
  <2> QED BY <2>1, <2>2, <2>3, <2>4, <2>5, <2>7, <2>8, <1>1 DEF RetryFits
<1>6. Cancels(u)' = Cancels(u) /\ Finishes(u, s)' = Finishes(u, s)
  BY <1>1 DEF Cancels, Finishes
<1>7. Finishes(u, s) => s \in Sessions /\ Ready(turn'[s], care'[s])
  BY <1>2, <1>3 DEF ThreadFits, Lasts
<1>8. Visits(u) => \A r \in own[u].todo : Spoilt(turn'[r])
  BY <1>1 DEF ThreadFits, Tended, Lasts
<1>9. Visits(u)' = Visits(u) /\ Clears(u)' = Clears(u) /\ Waits(u)' = Waits(u)
  BY <1>1 DEF Visits, Clears, Waits, Cancels
<1>10. (Clears(u) => broker'.preparing = 0) /\ (Waits(u) => broker'.preparing \in {0, s})
  <2>1. (Clears(u) => broker.preparing = 0) /\ (Waits(u) => broker.preparing \in {0, s})
    BY <1>2 DEF ThreadFits
  <2>2. at[u] \in {"idle", "b_flag"} => ~Clears(u) /\ ~Waits(u)
    BY DEF Clears, Waits, Cancels, Probing!FinishSteps
  <2> QED BY <2>1, <2>2
<1> QED BY <1>1, <1>2, <1>4, <1>5, <1>6, <1>7, <1>8, <1>9, <1>10 DEF ThreadFits

LEMMA Bystander ==
    ASSUME Workers, ProbeTypes, NEW x, Tended(x), NEW t \in ProbeThreads, NEW u \in ProbeThreads \ {t},
           ThreadFits(u), Steered(t), Alone(t),
           broker'.preparing \in {0, broker.preparing} \/ at[u] \in {"idle", "b_flag"}
    PROVE  ThreadFits(u)'
<1>1. /\ at'[u] = at[u] /\ on'[u] = on[u] /\ own'[u] = own[u]
      /\ \A v \in ProbeThreads \ {u} : v = t
  BY DEF Steered, ProbeThreads
<1>2. \A r \in Sessions :
         /\ Closes(u, r) => /\ spare'[r] = spare[r]
                           /\ \A v \in ProbeThreads \ {u} : Closes(v, r)' => Closes(v, r)
         /\ Retries(u, r) => /\ care'[r] = care[r]
                            /\ \A v \in ProbeThreads \ {u} : Retries(v, r)' => Retries(v, r)
  BY <1>1 DEF Alone
<1> QED BY <1>1, <1>2, FitStays

\* Who was let go of, handed to its close or in flight stays so.
LEMMA HeldLasts ==
    ASSUME NEW x, Tended(x), NEW t \in ProbeThreads, Steered(t), Claims(t), NEW r \in Sessions
    PROVE  /\ Handed(r) => Handed(r)'
           /\ r # x => /\ Held(r) => Held(r)' \/ Idling(turn[r])
                       /\ Safe(r) => Safe(r)' \/ Idling(turn[r])
<1>1. Lasts(r) /\ (r # x => Rests(r))
  BY DEF Tended
<1>2. Handed(r) => Handed(r)'
  <2>1. CASE spare[r].closing
    BY <2>1, <1>1 DEF Handed, Lasts
  <2>2. ASSUME NEW u \in ProbeThreads, at[u] = "f_claim", on[u].s = r PROVE Handed(r)'
    <3>1. CASE u = t
      BY <2>2, <3>1 DEF Claims, Handed
    <3>2. CASE u # t
      BY <2>2, <3>2 DEF Steered, Handed
    <3> QED BY <3>1, <3>2
  <2> QED BY <2>1, <2>2 DEF Handed
<1>3. ASSUME r # x PROVE Safe(r) => Safe(r)' \/ Idling(turn[r])
  BY <1>1, <1>2, <1>3 DEF Safe, Rests
<1>4. ASSUME r # x PROVE Held(r) => Held(r)' \/ Idling(turn[r])
  BY <1>1, <1>3, <1>4 DEF Held, Safe, Rests
<1> QED BY <1>2, <1>3, <1>4

LEMMA SessionsStayHeld ==
    ASSUME SessionsHeld, ProbeFits, NEW x, Tended(x), NEW t \in ProbeThreads, Steered(t), Claims(t),
           \A r \in Sessions :
               /\ at["probe"] = "p_wait" /\ on["probe"].s = r /\ Waited(turn'[r], care'[r])
                     => at'["probe"] = "p_wait" /\ on'["probe"].s = r
               /\ r \in {broker.preparing, broker.prepared, broker.active}
                     => r \in {broker'.preparing, broker'.prepared, broker'.active} \/ Held(r)'
               /\ Closes(t, r) => Closes(t, r)' \/ spare'[r].closed
               /\ spare'[r].closing /\ ~spare[r].closing => Closes(t, r)'
               /\ r = x => /\ Waited(turn'[r], care'[r]) => at'["probe"] = "p_wait" /\ on'["probe"].s = r
                           /\ Held(r)' \/ r \in {broker'.preparing, broker'.prepared, broker'.active}
    PROVE  SessionsHeld'
<1> SUFFICES ASSUME NEW r \in Sessions
             PROVE  /\ Waited(turn'[r], care'[r]) => at'["probe"] = "p_wait" /\ on'["probe"].s = r
                    /\ Held(r)' \/ r \in {broker'.preparing, broker'.prepared, broker'.active}
                    /\ spare'[r].closing /\ ~spare'[r].closed => \E u \in ProbeThreads : Closes(u, r)'
  BY DEF SessionsHeld
<1>1. /\ Waited(turn[r], care[r]) => at["probe"] = "p_wait" /\ on["probe"].s = r
      /\ Held(r) \/ r \in {broker.preparing, broker.prepared, broker.active}
      /\ spare[r].closing /\ ~spare[r].closed => \E u \in ProbeThreads : Closes(u, r)
  BY DEF SessionsHeld
<1>2. Lasts(r) /\ (r # x => Rests(r))
  BY DEF Tended
<1>3. Waited(turn'[r], care'[r]) => at'["probe"] = "p_wait" /\ on'["probe"].s = r
  BY <1>1, <1>2 DEF Rests
<1>4. Held(r)' \/ r \in {broker'.preparing, broker'.prepared, broker'.active}
  <2>1. CASE r = x
    BY <2>1
  <2>2. CASE r # x /\ Idling(turn[r])
    <3>1. at["probe"] = "p_wait" /\ on["probe"].s = r
      BY <2>2, <1>1 DEF Waited
    <3>2. broker.preparing = r
      BY <3>1 DEF ProbeFits, Preparing
    <3> QED BY <3>2
  <2>3. CASE r # x /\ ~Idling(turn[r])
    <3>1. Held(r) => Held(r)'
      BY <2>3, HeldLasts
    <3> QED BY <3>1, <1>1
  <2> QED BY <2>1, <2>2, <2>3
<1>5. spare'[r].closing /\ ~spare'[r].closed => \E u \in ProbeThreads : Closes(u, r)'
  <2>1. ASSUME spare[r].closing, ~spare'[r].closed PROVE \E u \in ProbeThreads : Closes(u, r)'
    <3>1. ~spare[r].closed
      BY <2>1, <1>2 DEF Lasts
    <3>2. PICK u \in ProbeThreads : Closes(u, r)
      BY <2>1, <3>1, <1>1
    <3>3. CASE u = t
      BY <2>1, <3>2, <3>3
    <3>4. CASE u # t
      BY <3>2, <3>4 DEF Steered, Closes
    <3> QED BY <3>3, <3>4
  <2> QED BY <2>1
<1> QED BY <1>3, <1>4, <1>5

LEMMA AcknowledgedStays ==
    ASSUME Acknowledged, SessionsHeld, ProbeFits, NEW x, Tended(x),
           NEW t \in ProbeThreads, Steered(t), Claims(t),
           own'["stop"].result = "yes" => own["stop"].result = "yes",
           broker.aborted => broker'.aborted /\ broker'.preparing \in {0, broker.preparing}
                             /\ (x \in Sessions => broker.preparing = x)
    PROVE  Acknowledged'
<1> SUFFICES ASSUME own'["stop"].result = "yes"
             PROVE  broker'.aborted /\ broker'.preparing = 0 /\ \A r \in Sessions : Safe(r)'
  BY DEF Acknowledged
<1>1. broker.aborted /\ broker.preparing = 0 /\ \A r \in Sessions : Safe(r)
  BY DEF Acknowledged
<1>2. broker'.aborted /\ broker'.preparing = 0
  BY <1>1
<1>3. ASSUME NEW r \in Sessions PROVE Safe(r)'
  <2>1. r # x
    <3>1. 0 \notin Sessions
      BY WorkerAssumption DEF Sessions
    <3> QED BY <3>1, <1>1
  <2>2. ~Idling(turn[r])
    <3>1. Waited(turn[r], care[r]) => at["probe"] = "p_wait" /\ on["probe"].s = r
      BY DEF SessionsHeld
    <3>2. at["probe"] = "p_wait" => on["probe"].s \in Sessions /\ broker.preparing = on["probe"].s
      BY DEF ProbeFits, Preparing
    <3>3. 0 \notin Sessions
      BY WorkerAssumption DEF Sessions
    <3> QED BY <3>1, <3>2, <3>3, <1>1 DEF Waited
  <2> QED BY <2>1, <2>2, <1>1, HeldLasts
<1> QED BY <1>2, <1>3

\* The thread that runs the probes stays fit where it is.
LEMMA ProbeStays ==
    ASSUME Workers, ProbeFits, SessionsHeld, ProbeTypes, Tended(0), NEW t \in ProbeThreads, Steered(t), Claims(t),
           at'["probe"] = at["probe"], on'["probe"] = on["probe"],
           own'["probe"].fine = own["probe"].fine, job' = job, latch' = latch,
           broker'.preparing = broker.preparing,
           broker.active \in Sessions =>
               broker'.active = broker.active \/ spare'[broker.active].closing
    PROVE  ProbeFits'
<1>1. 0 \notin Sessions
  BY WorkerAssumption DEF Sessions
<1> DEFINE p == at["probe"]
<1>2. PICK s : s = on["probe"].s
  OBVIOUS
<1>3. Helping("probe")' = Helping("probe") /\ Preparing' = Preparing
  BY <1>1 DEF Helping, Preparing
<1>4. ASSUME s \in Sessions
      PROVE  Lasts(s) /\ Rests(s) /\ (Held(s) => Held(s)' \/ Idling(turn[s]))
  <2>1. s # 0
    BY <1>1, <1>4
  <2> QED BY <2>1, <1>1, <1>4, HeldLasts DEF Tended
<1>5. p \in {"p_unused", "p_submit"} => s \in Sessions /\ turn'[s] = <<>> /\ loop'[s].phase # "none"
  BY <1>2, <1>4 DEF ProbeFits, Lasts, Rests
<1>6. p = "p_wait" => Prepared(turn'[s], care'[s])
  <2>1. p = "p_wait" => s \in Sessions
    BY <1>2 DEF ProbeFits, Preparing
  <2> QED BY <2>1, <1>2, <1>4 DEF ProbeFits, Rests
<1>7. p \in {"p_stop", "p_raise"} \/ (Helping("probe") /\ on["probe"].back = "p_raise") =>
              Held(s)' /\ turn'[s] # <<>> /\ turn'[s][1].future # "pending"
  <2> SUFFICES ASSUME p \in {"p_stop", "p_raise"} \/ (Helping("probe") /\ on["probe"].back = "p_raise")
               PROVE  Held(s)' /\ turn'[s] # <<>> /\ turn'[s][1].future # "pending"
    OBVIOUS
  <2>1. s \in Sessions
    BY <1>2 DEF ProbeFits, Preparing
  <2>2. Held(s) /\ turn[s] # <<>> /\ turn[s][1].future # "pending"
    BY <1>2 DEF ProbeFits
  <2> QED BY <2>1, <2>2, <1>4 DEF Idling, Lasts
<1>8. p \in {"p_ask", "p_asked"} => s \in Sessions /\ Ready(turn'[s], care'[s])
                                   /\ (s = broker'.active \/ spare'[s].closing)
  BY <1>2, <1>4 DEF ProbeFits, Lasts
<1>9. /\ p \in {"p_submit", "p_wait"} => on["probe"].g = 1
      /\ p = "p_ask" => on["probe"].g \in 1 .. (Len(turn'[s]) + 1)
      /\ p = "p_asked" => on["probe"].g \in 1 .. Len(turn'[s])
  <2>1. ASSUME s \in Sessions
        PROVE  Len(turn[s]) <= Len(turn'[s]) /\ Len(turn'[s]) \in Nat /\ Len(turn[s]) \in Nat
    <3>1. turn'[s] \in Seq(Turn) /\ turn[s] \in Seq(Turn)
      BY <2>1 DEF Tended, Workers
    <3> QED BY <2>1, <3>1, <1>4, LenProperties DEF Lasts
  <2> QED BY <2>1, <1>2 DEF ProbeFits
<1>10. p = "p_judge" => s \in Sessions /\ (own["probe"].fine => spare'[s].closed /\ spare'[s].ok)
  BY <1>2, <1>4 DEF ProbeFits, Lasts
<1>11. job.outcome = "accepted" => p = "p_idle" /\ s \in Sessions /\ spare'[s].closed /\ spare'[s].ok
  BY <1>2, <1>4 DEF ProbeFits, Lasts
<1>12. /\ p \notin {"idle", "over"} /\ (job.met => p = "p_idle" /\ latch.memory)
       /\ IF Preparing THEN s \in Sessions /\ broker.preparing = s ELSE broker.preparing = 0
  BY <1>2 DEF ProbeFits
<1> QED BY <1>1, <1>2, <1>3, <1>5, <1>6, <1>7, <1>8, <1>9, <1>10, <1>11, <1>12 DEF ProbeFits

\* What the broker holds stays as it is while it is not given another session.
LEMMA BrokerStays ==
    ASSUME BrokerFits, NEW x, Tended(x), NEW t \in ProbeThreads, Steered(t),
           broker'.preparing \in {0, broker.preparing}, broker'.prepared \in {0, broker.prepared},
           broker'.active \in {0, broker.active},
           \A r \in Sessions :
               /\ r = broker'.prepared =>
                     /\ at'["probe"] \in {"p_validate", "p_send", "b_flag"}
                     /\ ~spare'[r].closing /\ ~Finishes(t, r)'
               /\ r = broker'.active =>
                     /\ ~spare'[r].closed
                     /\ \/ at'["probe"] \in {"p_ask", "p_asked"} /\ on'["probe"].s = r
                        \/ /\ at'["probe"] \in Probing!FinishSteps
                           /\ on'["probe"].back = "p_judge" /\ on'["probe"].s = r
                        \/ spare'[r].closing
    PROVE  BrokerFits'
<1>1. /\ broker'.preparing # 0 => broker'.prepared = 0 /\ broker'.active = 0
      /\ broker'.prepared # 0 => broker'.active = 0
  BY DEF BrokerFits
<1>2. 0 \notin Sessions
  BY WorkerAssumption DEF Sessions
<1>3. ASSUME NEW s \in Sessions, s = broker'.prepared
      PROVE  /\ Ready(turn'[s], care'[s]) /\ ~spare'[s].closing
             /\ at'["probe"] \in {"p_validate", "p_send", "b_flag"}
             /\ \A u \in ProbeThreads : ~Finishes(u, s)'
  <2>1. s = broker.prepared
    BY <1>2, <1>3
  <2>2. Ready(turn[s], care[s]) /\ \A u \in ProbeThreads : ~Finishes(u, s)
    BY <2>1 DEF BrokerFits
  <2>3. Ready(turn'[s], care'[s])
    BY <2>2 DEF Tended, Lasts
  <2>4. ASSUME NEW u \in ProbeThreads PROVE ~Finishes(u, s)'
    <3>1. CASE u = t
      BY <3>1, <1>3
    <3>2. CASE u # t
      BY <3>2, <2>2 DEF Steered, Finishes, Cancels
    <3> QED BY <3>1, <3>2
  <2> QED BY <2>3, <2>4, <1>3
<1>4. ASSUME NEW s \in Sessions, s = broker'.active
      PROVE  Ready(turn'[s], care'[s])
  <2>1. s = broker.active
    BY <1>2, <1>4
  <2> QED BY <2>1 DEF BrokerFits, Tended, Lasts
<1> QED BY <1>1, <1>3, <1>4 DEF BrokerFits

\* A step of the sessions keeps the invariant.
LEMMA SessionsKeepInv ==
    ASSUME ProbesInv, Probing!SessionMoves
    PROVE  ProbesInv'
<1>1. /\ ThreadsRest /\ faults' \in 0 .. ProbeMaxFaults
      /\ Workers /\ ProbeTypes /\ ProbeSessions /\ ProbeFits /\ StopFits /\ BrokerFits /\ SessionsHeld
      /\ Acknowledged /\ ThreadFits("probe") /\ ThreadFits("stop")
  BY ProbingMoves DEF ProbesInv, ProbeThreads
<1>2. PICK m \in Sessions : Serving(m)
  BY <1>1, ProbingMoves
<1>3. Tended(0)
  BY <1>1, <1>2, ServingTends DEF ThreadsRest
<1>4. /\ at' = at /\ on' = on /\ own' = own /\ broker' = broker /\ spare' = spare /\ latch' = latch
      /\ job' = job
  BY <1>1 DEF ThreadsRest
<1>5. ProbeTypes'
  BY <1>1, <1>2, <1>4 DEF ProbeTypes, Serving
<1>6. \A t \in ProbeThreads : Steered(t) /\ Claims(t)
  BY <1>1, <1>4 DEF Steered, Claims, ProbeTypes
<1>7. ASSUME NEW t \in ProbeThreads PROVE Alone(t)
  <2> SUFFICES ASSUME NEW u \in ProbeThreads \ {t}, NEW r \in Sessions
               PROVE  /\ Closes(u, r) => spare'[r] = spare[r] /\ (Closes(t, r)' => Closes(t, r))
                      /\ Retries(u, r) => care'[r] = care[r] /\ (Retries(t, r)' => Retries(t, r))
    BY DEF Alone
  <2>1. (Closes(t, r)' => Closes(t, r)) /\ (Retries(t, r)' => Retries(t, r))
    BY <1>4 DEF Closes, Retries
  <2>2. ASSUME Retries(u, r) PROVE care'[r] = care[r]
    <3>1. ThreadFits(u)
      BY <1>1 DEF ProbeThreads
    <3>2. at[u] \in Probing!RetrySteps /\ on[u].s = r
      BY <2>2 DEF Retries, Probing!RetrySteps
    <3>3. RetryFits(u, r)
      BY <3>1, <3>2 DEF ThreadFits
    <3>4. Spoilt(turn[r]) /\ care[r].owner = "broker"
      BY <3>3, <2>2 DEF RetryFits
    <3>5. Serves(loop[r], turn[r], proc[r], home[r], care[r], loop'[r], turn'[r], proc'[r], home'[r], care'[r])
      BY <1>2 DEF Serving
    <3> QED BY <3>4, <3>5 DEF Serves
  <2> QED BY <2>1, <2>2, <1>4
<1>8. \A t \in ProbeThreads : ThreadFits(t)'
  <2>1. "stop" \in ProbeThreads \ {"probe"} /\ "probe" \in ProbeThreads \ {"stop"}
        /\ \A t \in ProbeThreads : t = "probe" \/ t = "stop"
    BY DEF ProbeThreads
  <2>2. ThreadFits("stop")' /\ ThreadFits("probe")'
    BY <2>1, <1>1, <1>3, <1>4, <1>6, <1>7, Bystander
  <2> QED BY <2>1, <2>2
<1>t. "stop" \in ProbeThreads /\ 0 \notin Sessions
  BY WorkerAssumption DEF ProbeThreads, Sessions
<1>9. ProbeFits'
  BY <1>t, <1>1, <1>3, <1>4, <1>6, ProbeStays
<1>10. StopFits'
  BY <1>1, <1>4 DEF StopFits, Helping
<1>11. BrokerFits'
  <2>1. ASSUME NEW r \in Sessions PROVE Finishes("stop", r)' = Finishes("stop", r) 
    BY <1>4 DEF Finishes, Cancels
  <2>2. \A r \in Sessions :
               /\ r = broker'.prepared =>
                     /\ at'["probe"] \in {"p_validate", "p_send", "b_flag"}
                     /\ ~spare'[r].closing /\ ~Finishes("stop", r)'
               /\ r = broker'.active =>
                     /\ ~spare'[r].closed
                     /\ \/ at'["probe"] \in {"p_ask", "p_asked"} /\ on'["probe"].s = r
                        \/ /\ at'["probe"] \in Probing!FinishSteps
                           /\ on'["probe"].back = "p_judge" /\ on'["probe"].s = r
                        \/ spare'[r].closing
    BY <2>1, <1>1, <1>4, <1>t DEF BrokerFits
  <2> QED BY <2>2, <1>t, <1>1, <1>3, <1>4, <1>6, BrokerStays
<1>12. SessionsHeld'
  <2>1. \A r \in Sessions : Closes("stop", r)' = Closes("stop", r)
    BY <1>4 DEF Closes
  <2>2. \A r \in Sessions : r # 0
    BY <1>t
  <2> QED BY <2>1, <2>2, <1>t, <1>1, <1>3, <1>4, <1>6, SessionsStayHeld
<1>13. Acknowledged'
  BY <1>t, <1>1, <1>3, <1>4, <1>6, AcknowledgedStays
<1>14. Workers' /\ ProbeSessions'
  BY <1>3 DEF Tended
<1> QED BY <1>5, <1>8, <1>9, <1>10, <1>11, <1>12, <1>13, <1>14 DEF ProbesInv

------------------------------------------------------------------------------
\* A thread that finishes a session, retries a cleanup or aborts goes on within that, goes
\* back to where it came from or helps itself, or only waits.
Goes(t) ==
    \/ /\ Helping(t) /\ at'[t] \in Probing!FinishSteps \cup Probing!RetrySteps
       /\ on'[t].s = on[t].s /\ on'[t].back = on[t].back
       /\ at[t] \in Probing!FinishSteps => at'[t] \in Probing!FinishSteps
    \/ /\ Helping(t) /\ at'[t] = on[t].back /\ on'[t] = on[t]
       /\ at'[t] = "p_judge" /\ own'[t].fine => spare'[on[t].s].closed /\ spare'[on[t].s].ok
       /\ at[t] \in Probing!FinishSteps => spare'[on[t].s].closing
    \/ /\ at[t] \in Probing!AbortSteps
       /\ at'[t] \in Probing!AbortSteps \cup {IF t = "probe" THEN "p_disable" ELSE "over"}
    \/ /\ at[t] \in Probing!AbortSteps /\ at'[t] \in {"f_claim", "c_claim"}
       /\ on'[t].back \in {"b_closed", "b_each"}
    \/ /\ at'[t] = at[t] /\ on'[t] = on[t] /\ own'[t].fine = own[t].fine

\* What it leaves of the broker's fields and of the closes.
Leaves(t) ==
    /\ broker' \in Probing!Broker /\ broker'.preparing = broker.preparing
    /\ broker'.prepared \in {0, broker.prepared} /\ broker'.active \in {0, broker.active}
    /\ broker.aborted => broker'.aborted
    /\ at[t] = "b_flag" /\ at'[t] # "b_flag" => broker'.aborted /\ broker'.prepared = 0
    /\ \A r \in Sessions :
          /\ r \in {broker.prepared, broker.active} =>
                r \in {broker'.prepared, broker'.active} \/ Handed(r)'
          /\ r = broker.active /\ r # broker'.active => spare'[r].closing
          /\ Finishes(t, r)' => Finishes(t, r) \/ broker'.prepared = 0
          /\ Closes(t, r) => Closes(t, r)' \/ spare'[r].closed
          /\ spare'[r].closing /\ ~spare[r].closing => Closes(t, r)'
          /\ spare'[r].closed /\ ~spare[r].closed => broker'.active # r

LEMMA ProbeHelps ==
    ASSUME Workers, ProbeFits, SessionsHeld, ProbeTypes, Tended(0), Steered("probe"), Claims("probe"),
           Helping("probe") \/ at["probe"] \in Probing!AbortSteps,
           Helping("probe") => on["probe"].back \in {"p_raise", "p_judge", "b_closed", "b_each"} /\ on["probe"].s \in Sessions,
           Goes("probe"), job' = job, latch' = latch, broker'.preparing = broker.preparing,
           broker.active \in Sessions =>
               broker'.active = broker.active \/ spare'[broker.active].closing
    PROVE  ProbeFits'
<1>1. "probe" \in ProbeThreads /\ 0 \notin Sessions
  BY WorkerAssumption DEF ProbeThreads, Sessions
<1> DEFINE p == at["probe"]
<1> DEFINE q == at'["probe"]
<1>2. PICK s : s = on["probe"].s
  OBVIOUS
<1>3. job.outcome # "accepted" /\ ~job.met
  BY DEF ProbeFits, Helping, Probing!FinishSteps, Probing!RetrySteps, Probing!AbortSteps
<1>4. ASSUME s \in Sessions
      PROVE  Lasts(s) /\ Rests(s) /\ (Held(s) => Held(s)' \/ Idling(turn[s]))
  <2>1. s # 0
    BY <1>1, <1>4
  <2> QED BY <2>1, <1>1, <1>4, HeldLasts DEF Tended
<1>5. CASE q = p /\ on'["probe"] = on["probe"] /\ own'["probe"].fine = own["probe"].fine
  BY <1>1, <1>5, ProbeStays
<1>6. CASE /\ Helping("probe") /\ on["probe"].back = "p_raise" /\ on'["probe"].s = s
           /\ \/ q \in Probing!FinishSteps \cup Probing!RetrySteps /\ on'["probe"].back = "p_raise"
              \/ q = "p_raise"
  <2>1. /\ s \in Sessions /\ broker.preparing = s /\ Held(s) /\ turn[s] # <<>>
        /\ turn[s][1].future # "pending"
    BY <1>2, <1>6 DEF ProbeFits, Preparing
  <2>2. Held(s)' /\ turn'[s] # <<>> /\ turn'[s][1].future # "pending"
    BY <2>1, <1>4 DEF Idling, Lasts
  <2>3. Preparing'
    BY <1>6 DEF Preparing, Helping
  <2>4. Held(on["probe"].s)'
    BY <2>2, <1>6 DEF Held, Safe, Handed
  <2>5. q \notin {"idle", "over", "p_unused", "p_submit", "p_wait", "p_ask", "p_asked", "p_judge"}
    BY <1>6 DEF Probing!FinishSteps, Probing!RetrySteps
  <2> QED BY <2>1, <2>2, <2>3, <2>4, <2>5, <1>3, <1>6 DEF ProbeFits
<1>7. CASE /\ Helping("probe") /\ on["probe"].back # "p_raise"
           /\ q \in Probing!FinishSteps \cup Probing!RetrySteps
           /\ on'["probe"].back = on["probe"].back
  <2>1. ~Preparing /\ ~Preparing'
    BY <1>7 DEF Preparing, Helping, Probing!FinishSteps, Probing!RetrySteps
  <2>2. q \notin {"idle", "over", "p_unused", "p_submit", "p_wait", "p_ask", "p_asked", "p_judge", "p_stop", "p_raise"}
    BY <1>7 DEF Probing!FinishSteps, Probing!RetrySteps
  <2>3. broker'.preparing = 0
    BY <2>1 DEF ProbeFits
  <2> QED BY <2>1, <2>2, <2>3, <1>3, <1>7 DEF ProbeFits
<1>8. CASE Helping("probe") /\ q = on["probe"].back /\ q # "p_raise" /\ on'["probe"] = on["probe"]
           /\ (q = "p_judge" /\ own'["probe"].fine => spare'[s].closed /\ spare'[s].ok)
  <2>0. s \in Sessions /\ q \in {"p_judge", "b_closed", "b_each"}
    BY <1>2, <1>8
  <2>1. ~Preparing /\ ~Preparing' /\ ~Helping("probe")'
    BY <2>0, <1>8 DEF Preparing, Helping, Probing!FinishSteps, Probing!RetrySteps
  <2>3. broker'.preparing = 0
    BY <2>1 DEF ProbeFits
  <2> QED BY <2>0, <2>1, <2>3, <1>2, <1>3, <1>8 DEF ProbeFits
<1>9. CASE /\ p \in Probing!AbortSteps
           /\ \/ q \in Probing!AbortSteps \cup {"p_disable"}
              \/ q \in {"f_claim", "c_claim"} /\ on'["probe"].back \in {"b_closed", "b_each"}
  <2>1. ~Preparing /\ ~Preparing'
    BY <1>9 DEF Preparing, Helping, Probing!FinishSteps, Probing!RetrySteps, Probing!AbortSteps
  <2>2. q \notin {"idle", "over", "p_unused", "p_submit", "p_wait", "p_ask", "p_asked", "p_judge", "p_stop", "p_raise"}
    BY <1>9 DEF Probing!AbortSteps
  <2>3. ~(Helping("probe")' /\ on'["probe"].back = "p_raise")
    BY <1>9 DEF Helping, Probing!AbortSteps, Probing!FinishSteps, Probing!RetrySteps
  <2>4. broker'.preparing = 0
    BY <2>1 DEF ProbeFits
  <2> QED BY <2>1, <2>2, <2>3, <2>4, <1>3 DEF ProbeFits
<1> QED BY <1>2, <1>5, <1>6, <1>7, <1>8, <1>9 DEF Goes

LEMMA StopHelps ==
    ASSUME StopFits, NEW t \in ProbeThreads, Steered(t), Goes(t), Leaves(t),
           t = "stop" => at["stop"] # "idle"
    PROVE  StopFits'
<1>1. CASE t # "stop"
  <2>1. at'["stop"] = at["stop"] /\ on'["stop"] = on["stop"]
    BY <1>1 DEF Steered, ProbeThreads
  <2> QED BY <2>1 DEF StopFits, Helping, Leaves
<1>2. CASE t = "stop"
  <2> DEFINE p == at["stop"]
  <2> DEFINE q == at'["stop"]
  <2>1. /\ p \notin Probing!ProbeSteps /\ (Helping("stop") => on["stop"].back \in Probing!AbortSteps)
        /\ p # "b_flag" => broker'.aborted
        /\ p = "b_flag" /\ q # "b_flag" => broker'.aborted
    BY <1>2 DEF StopFits, Leaves
  <2>2. /\ \A b \in Probing!AbortSteps \cup Probing!FinishSteps \cup Probing!RetrySteps \cup {"over"} :
              b \notin Probing!ProbeSteps
        /\ {"b_closed", "b_each", "b_flag"} \subseteq Probing!AbortSteps
        /\ {"f_claim", "c_claim"} \subseteq Probing!FinishSteps \cup Probing!RetrySteps
        /\ "b_flag" \notin Probing!FinishSteps \cup Probing!RetrySteps
        /\ \A b \in Probing!AbortSteps \cup {"over"} : b \notin Probing!FinishSteps \cup Probing!RetrySteps
    BY DEF Probing!AbortSteps, Probing!FinishSteps, Probing!RetrySteps, Probing!ProbeSteps
  <2>3. q \notin Probing!ProbeSteps
    BY <2>1, <2>2, <1>2 DEF Goes
  <2>4. Helping("stop")' => on'["stop"].back \in Probing!AbortSteps
    BY <2>1, <2>2, <1>2 DEF Goes, Helping
  <2>5. q \notin {"idle", "b_flag"} => broker'.aborted
    BY <2>1, <1>2 DEF Goes
  <2> QED BY <2>3, <2>4, <2>5 DEF StopFits
<1> QED BY <1>1, <1>2

\* A thread that finishes, retries or aborts keeps the invariant, if it keeps itself fit.
Typed ==
    /\ faults' \in 0 .. ProbeMaxFaults /\ care' \in [Sessions -> Probing!Cleanup]
    /\ spare' \in [Sessions -> Probing!Spare] /\ latch' = latch /\ job' = job
LEMMA SharedKeeps ==
    ASSUME ProbesInv, NEW t \in ProbeThreads, Steered(t), Alone(t), Claims(t), Tended(0), Typed, Goes(t),
           Leaves(t), ThreadFits(t)',
           t = "stop" => at["stop"] # "idle",
           Acknowledged' \/ (own'["stop"].result = "yes" => own["stop"].result = "yes")
    PROVE  ProbesInv'
<1>1. /\ Workers /\ ProbeTypes /\ ProbeSessions /\ ProbeFits /\ StopFits /\ BrokerFits /\ SessionsHeld
      /\ Acknowledged /\ \A u \in ProbeThreads : ThreadFits(u)
      /\ "stop" \in ProbeThreads /\ "probe" \in ProbeThreads /\ 0 \notin Sessions
      /\ \A u \in ProbeThreads : u = "probe" \/ u = "stop"
  BY WorkerAssumption DEF ProbesInv, ProbeThreads, Sessions
<1>2. ProbeTypes'
  BY <1>1 DEF Typed, ProbeTypes, Steered, Leaves
<1>3. \A u \in ProbeThreads : ThreadFits(u)'
  <2>1. \A u \in ProbeThreads \ {t} : ThreadFits(u)'
    BY <1>1, Bystander DEF Leaves
  <2> QED BY <2>1
<1>4. /\ broker'.preparing = broker.preparing /\ job' = job /\ latch' = latch
      /\ broker.active \in Sessions => broker'.active = broker.active \/ spare'[broker.active].closing
  BY DEF Leaves, Typed
<1>5. ProbeFits'
  <2>1. CASE at'["probe"] = at["probe"] /\ on'["probe"] = on["probe"] /\ own'["probe"].fine = own["probe"].fine
    BY <2>1, <1>1, <1>4, ProbeStays
  <2>2. CASE ~(at'["probe"] = at["probe"] /\ on'["probe"] = on["probe"] /\ own'["probe"].fine = own["probe"].fine)
    <3>1. t = "probe"
      BY <2>2, <1>1 DEF Steered
    <3>2. Helping("probe") \/ at["probe"] \in Probing!AbortSteps
      BY <2>2, <3>1 DEF Goes
    <3>3. Helping("probe") => on["probe"].back \in {"p_raise", "p_judge", "b_closed", "b_each"} /\ on["probe"].s \in Sessions
      BY <1>1, <3>1 DEF Helping, ThreadFits, FinishFits, RetryFits
    <3> QED BY <3>1, <3>2, <3>3, <1>1, <1>4, ProbeHelps
  <2> QED BY <2>1, <2>2
<1>6. StopFits'
  BY <1>1, StopHelps
<1>7. BrokerFits'
  <2>1. ASSUME NEW r \in Sessions, r = broker'.prepared
        PROVE  /\ at'["probe"] \in {"p_validate", "p_send", "b_flag"}
               /\ ~spare'[r].closing /\ ~Finishes(t, r)'
    <3>1. r = broker.prepared /\ broker'.prepared # 0
      BY <2>1, <1>1 DEF Leaves
    <3>2. /\ at["probe"] \in {"p_validate", "p_send", "b_flag"} /\ ~spare[r].closing /\ ~Finishes(t, r)
      BY <3>1, <1>1 DEF BrokerFits
    <3>3. ~Finishes(t, r)'
      BY <3>1, <3>2 DEF Leaves
    <3>4. ~spare'[r].closing
      <4>1. Closes(t, r)' => Finishes(t, r)'
        BY DEF Closes, Finishes, Probing!FinishSteps
      <4> QED BY <4>1, <3>2, <3>3 DEF Leaves
    <3>5. at'["probe"] \in {"p_validate", "p_send", "b_flag"}
      <4>1. CASE t = "stop"
        BY <4>1, <3>2, <1>1 DEF Steered
      <4>2. CASE t = "probe"
        <5>1. ~Helping("probe") /\ (at["probe"] \in Probing!AbortSteps => at["probe"] = "b_flag")
          BY <3>2 DEF Helping, Probing!FinishSteps, Probing!RetrySteps, Probing!AbortSteps
        <5>2. at["probe"] = "b_flag" => at'["probe"] = "b_flag"
          BY <3>1, <4>2 DEF Leaves
        <5>3. at'["probe"] = at["probe"]
          BY <5>1, <5>2, <4>2 DEF Goes
        <5> QED BY <5>3, <3>2
      <4> QED BY <4>1, <4>2, <1>1
    <3> QED BY <3>3, <3>4, <3>5
  <2>2. ASSUME NEW r \in Sessions, r = broker'.active
        PROVE  /\ ~spare'[r].closed
               /\ \/ at'["probe"] \in {"p_ask", "p_asked"} /\ on'["probe"].s = r
                  \/ /\ at'["probe"] \in Probing!FinishSteps
                     /\ on'["probe"].back = "p_judge" /\ on'["probe"].s = r
                  \/ spare'[r].closing
    <3>1. r = broker.active
      BY <2>2, <1>1 DEF Leaves
    <3>2. /\ ~spare[r].closed
          /\ \/ at["probe"] \in {"p_ask", "p_asked"} /\ on["probe"].s = r
             \/ at["probe"] \in Probing!FinishSteps /\ on["probe"].back = "p_judge" /\ on["probe"].s = r
             \/ spare[r].closing
      BY <3>1, <1>1 DEF BrokerFits
    <3>3. ~spare'[r].closed
      BY <3>2, <2>2 DEF Leaves
    <3>4. spare[r].closing => spare'[r].closing
      BY DEF Tended, Lasts
    <3>5. CASE t = "stop"
      <4>1. at'["probe"] = at["probe"] /\ on'["probe"] = on["probe"]
        BY <3>5, <1>1 DEF Steered
      <4> QED BY <4>1, <3>2, <3>3, <3>4
    <3>6. CASE t = "probe"
      <4>1. CASE at["probe"] \in {"p_ask", "p_asked"}
        <5>1. at'["probe"] = at["probe"] /\ on'["probe"] = on["probe"]
          BY <4>1, <3>6 DEF Goes, Helping, Probing!FinishSteps, Probing!RetrySteps, Probing!AbortSteps
        <5> QED BY <5>1, <3>2, <3>3, <3>4
      <4>2. CASE at["probe"] \in Probing!FinishSteps /\ on["probe"].back = "p_judge" /\ on["probe"].s = r
        <5>1. Helping("probe") /\ at["probe"] \notin Probing!AbortSteps
          BY <4>2 DEF Helping, Probing!FinishSteps, Probing!AbortSteps
        <5>2. \/ /\ at'["probe"] \in Probing!FinishSteps
                 /\ on'["probe"].back = "p_judge" /\ on'["probe"].s = r
              \/ spare'[r].closing
          BY <4>2, <5>1, <3>6 DEF Goes
        <5> QED BY <5>2, <3>3
      <4> QED BY <4>1, <4>2, <3>2, <3>3, <3>4
    <3> QED BY <3>5, <3>6, <1>1
  <2>3. /\ broker'.preparing \in {0, broker.preparing} /\ broker'.prepared \in {0, broker.prepared}
        /\ broker'.active \in {0, broker.active}
    BY DEF Leaves
  <2> QED BY <2>1, <2>2, <2>3, <1>1, BrokerStays
<1>8. SessionsHeld'
  <2>1. ASSUME NEW r \in Sessions
        PROVE  /\ at["probe"] = "p_wait" /\ on["probe"].s = r /\ Waited(turn'[r], care'[r])
                     => at'["probe"] = "p_wait" /\ on'["probe"].s = r
               /\ r \in {broker.preparing, broker.prepared, broker.active}
                     => r \in {broker'.preparing, broker'.prepared, broker'.active} \/ Held(r)'
               /\ Closes(t, r) => Closes(t, r)' \/ spare'[r].closed
               /\ spare'[r].closing /\ ~spare[r].closing => Closes(t, r)'
               /\ r # 0
    <3>1. at["probe"] = "p_wait" => at'["probe"] = at["probe"] /\ on'["probe"] = on["probe"]
      <4>1. CASE t = "stop"
        BY <4>1, <1>1 DEF Steered
      <4>2. CASE t = "probe"
        BY <4>2 DEF Goes, Helping, Probing!FinishSteps, Probing!RetrySteps, Probing!AbortSteps
      <4> QED BY <4>1, <4>2, <1>1
    <3>2. r \in {broker.preparing, broker.prepared, broker.active}
              => r \in {broker'.preparing, broker'.prepared, broker'.active} \/ Held(r)'
      BY DEF Leaves, Held, Safe
    <3> QED BY <3>1, <3>2, <1>1 DEF Leaves
  <2> QED BY <2>1, <1>1, SessionsStayHeld
<1>9. Acknowledged'
  <2>1. ASSUME own'["stop"].result = "yes" => own["stop"].result = "yes" PROVE Acknowledged'
    <3>1. broker.aborted => broker'.aborted /\ broker'.preparing \in {0, broker.preparing}
                            /\ (0 \in Sessions => broker.preparing = 0)
      BY <1>1 DEF Leaves
    <3> QED BY <2>1, <3>1, <1>1, AcknowledgedStays
  <2> QED BY <2>1
<1>10. Workers' /\ ProbeSessions'
  BY DEF Tended
<1> QED BY <1>2, <1>3, <1>5, <1>6, <1>7, <1>8, <1>9, <1>10 DEF ProbesInv

------------------------------------------------------------------------------
(* The steps of a thread that finishes, retries or aborts.                   *)
OwnMoves(t) ==
    own' \in [ProbeThreads -> Probing!Own] /\ \A u \in ProbeThreads \ {t} : own'[u] = own[u]

\* One field of what a thread remembers is set.
LEMMA OwnMoved ==
    ASSUME ProbeTypes, NEW t \in ProbeThreads
    PROVE  /\ own' = own => OwnMoves(t) /\ own'[t] = own[t]
           /\ \A v \in BOOLEAN : own' = [own EXCEPT ![t].fine = v] =>
                 /\ OwnMoves(t) /\ own'[t].fine = v
                 /\ own'[t].todo = own[t].todo /\ own'[t].result = own[t].result
                 /\ own'[t].target = own[t].target
           /\ \A v \in BOOLEAN : own' = [own EXCEPT ![t].all = v] =>
                 /\ OwnMoves(t) /\ own'[t].fine = own[t].fine
                 /\ own'[t].todo = own[t].todo /\ own'[t].result = own[t].result
                 /\ own'[t].target = own[t].target
           /\ \A v \in BOOLEAN : own' = [own EXCEPT ![t].ack = v] =>
                 /\ OwnMoves(t) /\ own'[t].fine = own[t].fine
                 /\ own'[t].todo = own[t].todo /\ own'[t].result = own[t].result
                 /\ own'[t].target = own[t].target
           /\ own' = [own EXCEPT ![t].late = TRUE] =>
                 /\ OwnMoves(t) /\ own'[t].fine = own[t].fine
                 /\ own'[t].todo = own[t].todo /\ own'[t].result = own[t].result
                 /\ own'[t].target = own[t].target
           /\ \A v \in Nat : own' = [own EXCEPT ![t].target = v] =>
                 /\ OwnMoves(t) /\ own'[t].fine = own[t].fine
                 /\ own'[t].todo = own[t].todo /\ own'[t].result = own[t].result
                 /\ own'[t].target = v
           /\ \A v \in SUBSET Sessions : own' = [own EXCEPT ![t].todo = v] =>
                 /\ OwnMoves(t) /\ own'[t].fine = own[t].fine
                 /\ own'[t].todo = v /\ own'[t].result = own[t].result
           /\ \A v \in SUBSET Sessions : own' = [own EXCEPT ![t].todo = v, ![t].all = TRUE] =>
                 /\ OwnMoves(t) /\ own'[t].fine = own[t].fine
                 /\ own'[t].todo = v /\ own'[t].result = own[t].result
           /\ \A v \in {"yes", "no"} : own' = [own EXCEPT ![t].result = v] =>
                 /\ OwnMoves(t) /\ own'[t].fine = own[t].fine
                 /\ own'[t].todo = own[t].todo /\ own'[t].result = v
<1>1. /\ own \in [ProbeThreads -> Probing!Own] /\ own[t] \in Probing!Own
      /\ Probing!Own = [target : Nat, ack : BOOLEAN, all : BOOLEAN, fine : BOOLEAN,
                        todo : SUBSET Sessions, late : BOOLEAN, result : {"none", "yes", "no"}]
  BY SameSets DEF ProbeTypes, Probing!Own
<1>2. ASSUME NEW o \in Probing!Own, own' = [own EXCEPT ![t] = o]
      PROVE  OwnMoves(t) /\ own'[t] = o
  BY <1>1, <1>2 DEF OwnMoves
<1>3. own' = own => OwnMoves(t) /\ own'[t] = own[t]
  BY <1>1 DEF OwnMoves
<1> DEFINE o == own[t]
<1>4. /\ \A v \in BOOLEAN : /\ [o EXCEPT !.fine = v] \in Probing!Own
                            /\ [o EXCEPT !.all = v] \in Probing!Own
                            /\ [o EXCEPT !.ack = v] \in Probing!Own
      /\ [o EXCEPT !.late = TRUE] \in Probing!Own
      /\ \A v \in Nat : [o EXCEPT !.target = v] \in Probing!Own
      /\ \A v \in SUBSET Sessions : /\ [o EXCEPT !.todo = v] \in Probing!Own
                                    /\ [o EXCEPT !.todo = v, !.all = TRUE] \in Probing!Own
      /\ \A v \in {"yes", "no"} : [o EXCEPT !.result = v] \in Probing!Own
  <2>1. o \in Probing!Own
    BY <1>1
  <2> HIDE DEF o
  <2> QED BY <1>1, <2>1
<1>5. ASSUME NEW v \in BOOLEAN, own' = [own EXCEPT ![t].fine = v]
      PROVE  /\ OwnMoves(t) /\ own'[t].fine = v
             /\ own'[t].todo = own[t].todo /\ own'[t].result = own[t].result
             /\ own'[t].target = own[t].target
  <2>1. OwnMoves(t) /\ own'[t] = [o EXCEPT !.fine = v]
    BY <1>2, <1>4, <1>5
  <2> QED BY <2>1, <1>1
<1>6. ASSUME NEW v \in BOOLEAN, own' = [own EXCEPT ![t].all = v]
      PROVE  /\ OwnMoves(t) /\ own'[t].fine = own[t].fine
             /\ own'[t].todo = own[t].todo /\ own'[t].result = own[t].result
             /\ own'[t].target = own[t].target
  <2>1. OwnMoves(t) /\ own'[t] = [o EXCEPT !.all = v]
    BY <1>2, <1>4, <1>6
  <2> QED BY <2>1, <1>1
<1>7. ASSUME NEW v \in BOOLEAN, own' = [own EXCEPT ![t].ack = v]
      PROVE  /\ OwnMoves(t) /\ own'[t].fine = own[t].fine
             /\ own'[t].todo = own[t].todo /\ own'[t].result = own[t].result
             /\ own'[t].target = own[t].target
  <2>1. OwnMoves(t) /\ own'[t] = [o EXCEPT !.ack = v]
    BY <1>2, <1>4, <1>7
  <2> QED BY <2>1, <1>1
<1>8. ASSUME own' = [own EXCEPT ![t].late = TRUE]
      PROVE  /\ OwnMoves(t) /\ own'[t].fine = own[t].fine
             /\ own'[t].todo = own[t].todo /\ own'[t].result = own[t].result
             /\ own'[t].target = own[t].target
  <2>1. OwnMoves(t) /\ own'[t] = [o EXCEPT !.late = TRUE]
    BY <1>2, <1>4, <1>8
  <2> QED BY <2>1, <1>1
<1>9. ASSUME NEW v \in Nat, own' = [own EXCEPT ![t].target = v]
      PROVE  /\ OwnMoves(t) /\ own'[t].fine = own[t].fine
             /\ own'[t].todo = own[t].todo /\ own'[t].result = own[t].result
             /\ own'[t].target = v
  <2>1. OwnMoves(t) /\ own'[t] = [o EXCEPT !.target = v]
    BY <1>2, <1>4, <1>9
  <2> QED BY <2>1, <1>1
<1>10. ASSUME NEW v \in SUBSET Sessions, own' = [own EXCEPT ![t].todo = v]
       PROVE  /\ OwnMoves(t) /\ own'[t].fine = own[t].fine
              /\ own'[t].todo = v /\ own'[t].result = own[t].result
  <2>1. OwnMoves(t) /\ own'[t] = [o EXCEPT !.todo = v]
    BY <1>2, <1>4, <1>10
  <2> QED BY <2>1, <1>1
<1>11. ASSUME NEW v \in SUBSET Sessions, own' = [own EXCEPT ![t].todo = v, ![t].all = TRUE]
       PROVE  /\ OwnMoves(t) /\ own'[t].fine = own[t].fine
              /\ own'[t].todo = v /\ own'[t].result = own[t].result
  <2>1. own' = [own EXCEPT ![t] = [o EXCEPT !.todo = v, !.all = TRUE]]
    BY <1>11, <1>1
  <2>2. OwnMoves(t) /\ own'[t] = [o EXCEPT !.todo = v, !.all = TRUE]
    BY <1>2, <1>4, <2>1
  <2> QED BY <2>2, <1>1
<1>12. ASSUME NEW v \in {"yes", "no"}, own' = [own EXCEPT ![t].result = v]
       PROVE  /\ OwnMoves(t) /\ own'[t].fine = own[t].fine
              /\ own'[t].todo = own[t].todo /\ own'[t].result = v
  <2>1. OwnMoves(t) /\ own'[t] = [o EXCEPT !.result = v]
    BY <1>2, <1>4, <1>12
  <2> QED BY <2>1, <1>1
<1> HIDE DEF o
<1> QED BY <1>3, <1>5, <1>6, <1>7, <1>8, <1>9, <1>10, <1>11, <1>12

LEMMA GotoSteers ==
    ASSUME ProbeTypes, NEW t \in ProbeThreads, NEW step \in ProbeAts, Probing!Goto(t, step), OwnMoves(t)
    PROVE  Steered(t) /\ at'[t] = step /\ on'[t] = on[t]
BY DEF ProbeTypes, Probing!Goto, OwnMoves, Steered

LEMMA GotoWithSteers ==
    ASSUME ProbeTypes, NEW t \in ProbeThreads, NEW step \in ProbeAts, NEW s \in 0 .. MaxSessions,
           NEW g \in Nat, NEW back \in ProbeBacks, Probing!GotoWith(t, step, s, g, back), OwnMoves(t)
    PROVE  /\ Steered(t) /\ at'[t] = step
           /\ on'[t].s = s /\ on'[t].g = g /\ on'[t].back = back
<1>1. [s |-> s, g |-> g, back |-> back] \in [s : 0 .. MaxSessions, g : Nat, back : ProbeBacks]
  OBVIOUS
<1> DEFINE r == [s |-> s, g |-> g, back |-> back]
<1>2. r.s = s /\ r.g = g /\ r.back = back /\ r \in [s : 0 .. MaxSessions, g : Nat, back : ProbeBacks]
  BY <1>1
<1>3. on' = [on EXCEPT ![t] = r]
  BY DEF Probing!GotoWith
<1> DEFINE R == [s : 0 .. MaxSessions, g : Nat, back : ProbeBacks]
<1>4. on \in [ProbeThreads -> R] /\ at \in [ProbeThreads -> ProbeAts] /\ at' = [at EXCEPT ![t] = step]
  BY DEF ProbeTypes, Probing!GotoWith
<1>5. r \in R
  BY <1>2
<1> HIDE DEF r, R
<1>6. /\ on' \in [ProbeThreads -> R] /\ at' \in [ProbeThreads -> ProbeAts]
      /\ at'[t] = step /\ on'[t] = r
      /\ \A u \in ProbeThreads \ {t} : at'[u] = at[u] /\ on'[u] = on[u]
  BY <1>3, <1>4, <1>5
<1> QED BY <1>2, <1>6 DEF OwnMoves, Steered, R

\* A thread that waits while nobody touches the records.
LEMMA StandsFit ==
    ASSUME Workers, ProbeTypes, NEW x, Tended(x), NEW t \in ProbeThreads, ThreadFits(t), Steered(t),
           at'[t] = at[t], on'[t] = on[t], own'[t].todo = own[t].todo, own'[t].target = own[t].target,
           spare' = spare, care' = care, broker'.preparing = broker.preparing
    PROVE  ThreadFits(t)'
<1>1. \A r \in Sessions, v \in ProbeThreads :
          (Closes(v, r)' <=> Closes(v, r)) /\ (Retries(v, r)' <=> Retries(v, r))
  BY DEF Closes, Retries, Steered
<1> QED BY <1>1, FitStays

\* A thread goes back to where it wanted its session finished or its cleanup retried.
LEMMA ReturnFits ==
    ASSUME ProbeTypes, NEW x, Tended(x), NEW t \in ProbeThreads, ThreadFits(t), Helping(t),
           at'[t] = on[t].back, on'[t] = on[t], own'[t].todo = own[t].todo,
           broker'.preparing = broker.preparing
    PROVE  ThreadFits(t)'
<1>1. /\ at[t] \in Probing!FinishSteps => on[t].back \in {"p_raise", "p_judge", "b_closed"}
      /\ at[t] \in Probing!RetrySteps => on[t].back \in {"p_raise", "b_each"}
      /\ own[t].todo \subseteq Sessions
  BY SameSets DEF ThreadFits, FinishFits, RetryFits, ProbeTypes, Probing!Own
<1>2. /\ at'[t] \in {"p_raise", "p_judge", "b_closed", "b_each"}
      /\ at'[t] = "b_each" => at[t] \in Probing!RetrySteps /\ on[t].back = "b_each"
      /\ at'[t] = "b_closed" => at[t] \in Probing!FinishSteps /\ on[t].back = "b_closed"
  BY <1>1 DEF Helping
<1>3. at'[t] \notin Probing!FinishSteps \cup Probing!RetrySteps
  BY <1>2 DEF Probing!FinishSteps, Probing!RetrySteps
<1>4. ~Cancels(t)' /\ ~Finishes(t, on[t].s)' /\ ~Waits(t)' /\ at'[t] # "b_sub"
  BY <1>2, <1>3 DEF Cancels, Finishes, Waits
<1>5. Visits(t)' => Visits(t)
  BY <1>2, <1>3 DEF Visits
<1>6. Clears(t)' => Clears(t)
  BY <1>2, <1>3 DEF Clears, Cancels
<1>7. Visits(t)' => \A r \in own'[t].todo : Spoilt(turn'[r])
  BY <1>1, <1>5 DEF ThreadFits, Tended, Lasts
<1> QED BY <1>3, <1>4, <1>6, <1>7 DEF ThreadFits

\* It goes on finishing its session, or retrying its cleanup.
LEMMA FinishingFits ==
    ASSUME ProbeTypes, NEW x, Tended(x), NEW t \in ProbeThreads, ThreadFits(t),
           at[t] \in Probing!FinishSteps, at'[t] \in Probing!FinishSteps,
           on'[t].s = on[t].s, on'[t].back = on[t].back, broker'.preparing = broker.preparing,
           FinishFits(t, on[t].s)'
    PROVE  ThreadFits(t)'
<1>1. at'[t] \notin Probing!RetrySteps /\ ~Cancels(t)' /\ ~Visits(t)' /\ ~Waits(t)' /\ at'[t] # "b_sub"
  BY DEF Probing!FinishSteps, Probing!RetrySteps, Cancels, Visits, Waits
<1>2. PICK s : s = on[t].s
  OBVIOUS
<1>3. FinishFits(t, s)' /\ on'[t].s = s
  BY <1>2 DEF FinishFits, Closes
<1>4. s \in Sessions /\ Ready(turn'[s], care'[s])
  BY <1>3 DEF FinishFits
<1>5. Clears(t)' => Clears(t)
  BY <1>1 DEF Clears, Probing!FinishSteps, Cancels
<1> QED BY <1>1, <1>3, <1>4, <1>5 DEF ThreadFits

LEMMA RetryingFits ==
    ASSUME ProbeTypes, NEW x, Tended(x), NEW t \in ProbeThreads, ThreadFits(t),
           at[t] \in Probing!RetrySteps, at'[t] \in Probing!RetrySteps,
           on'[t].s = on[t].s, on'[t].back = on[t].back, own'[t].todo = own[t].todo,
           RetryFits(t, on[t].s)'
    PROVE  ThreadFits(t)'
<1>1. at'[t] \notin Probing!FinishSteps /\ ~Cancels(t)' /\ ~Clears(t)' /\ ~Waits(t)' /\ at'[t] # "b_sub"
  BY DEF Probing!FinishSteps, Probing!RetrySteps, Cancels, Clears, Waits
<1>2. PICK s : s = on[t].s
  OBVIOUS
<1>3. RetryFits(t, s)' /\ on'[t].s = s
  BY <1>2 DEF RetryFits, Retries
<1>4. ~Finishes(t, s)'
  BY <1>1 DEF Finishes, Probing!RetrySteps
<1>5. Visits(t)' => Visits(t)
  BY <1>1 DEF Visits, Probing!RetrySteps
<1>6. own[t].todo \subseteq Sessions
  BY SameSets DEF ProbeTypes, Probing!Own
<1>7. Visits(t)' => \A r \in own'[t].todo : Spoilt(turn'[r])
  BY <1>5, <1>6 DEF ThreadFits, Tended, Lasts
<1> QED BY <1>1, <1>3, <1>4, <1>7 DEF ThreadFits

\* A step that only leads the thread on.
LEMMA ControlKeeps ==
    ASSUME ProbesInv, NEW t \in ProbeThreads, Steered(t), Goes(t), Tended(0), care' = care, spare' = spare,
           broker' = broker, latch' = latch, job' = job, faults' \in 0 .. ProbeMaxFaults, ThreadFits(t)',
           t = "stop" => at["stop"] # "idle",
           Acknowledged' \/ (own'["stop"].result = "yes" => own["stop"].result = "yes"),
           \/ at'[t] = at[t] /\ on'[t] = on[t]
           \/ /\ at[t] \notin {"f_close", "f_stop", "b_flag"}
              /\ at[t] = "f_claim" => spare[on[t].s].closing
              /\ at'[t] \notin {"f_close", "f_stop", "c_close", "c_erase", "c_stop"}
              /\ \A r \in Sessions : Finishes(t, r)' => Finishes(t, r)
    PROVE  ProbesInv'
<1>1. Typed
  BY DEF Typed, ProbesInv, ProbeTypes
<1>2. \A r \in Sessions : (Closes(t, r)' => Closes(t, r)) /\ (Retries(t, r)' => Retries(t, r))
  BY DEF Closes, Retries
<1>3. Alone(t)
  BY <1>2 DEF Alone
<1>4. Claims(t)
  BY DEF Claims
<1>5. /\ \A r \in Sessions : Finishes(t, r)' => Finishes(t, r)
      /\ \A r \in Sessions : Closes(t, r) => Closes(t, r)'
      /\ at[t] = "b_flag" => at'[t] = "b_flag"
  BY DEF Finishes, Closes, Cancels
<1>6. Leaves(t)
  BY <1>5 DEF Leaves, ProbesInv, ProbeTypes
<1> QED BY <1>1, <1>3, <1>4, <1>6, SharedKeeps

\* A thread with the one close of a session.
LEMMA FinishKeeps ==
    ASSUME ProbesInv, NEW t \in ProbeThreads, NEW s \in Sessions, on[t].s = s, at[t] \in Probing!FinishSteps,
           Steered(t), Tended(0), Typed, care' = care, Leaves(t),
           \A u \in ProbeThreads \ {t} : ~Closes(u, s),
           \A r \in Sessions \ {s} : spare'[r] = spare[r], spare'[s].closing,
           own'[t].todo = own[t].todo, own'[t].result = own[t].result,
           \/ /\ at'[t] \in {"f_close", "f_stop"} /\ on'[t].s = s /\ on'[t].back = on[t].back
              /\ FinishFits(t, s)'
           \/ /\ at'[t] = on[t].back /\ on'[t] = on[t]
              /\ at'[t] = "p_judge" /\ own'[t].fine => spare'[s].closed /\ spare'[s].ok
    PROVE  ProbesInv'
<1>1. /\ Workers /\ ProbeTypes /\ ThreadFits(t) /\ StopFits
  BY DEF ProbesInv
<1>2. FinishFits(t, s) /\ Helping(t)
  BY <1>1 DEF ThreadFits, Helping
<1>3. at'[t] \in {"f_close", "f_stop", "p_raise", "p_judge", "b_closed"}
  BY <1>2 DEF FinishFits
<1>4. broker'.preparing = broker.preparing
  BY DEF Leaves
<1>5. ThreadFits(t)'
  <2>1. CASE at'[t] = on[t].back /\ on'[t] = on[t]
    BY <2>1, <1>1, <1>2, <1>4, ReturnFits
  <2>2. CASE /\ at'[t] \in {"f_close", "f_stop"} /\ on'[t].s = s /\ on'[t].back = on[t].back
             /\ FinishFits(t, s)'
    <3>1. at'[t] \in Probing!FinishSteps
      BY <2>2 DEF Probing!FinishSteps
    <3>2. FinishFits(t, on[t].s)'
      BY <2>2 DEF FinishFits, Closes
    <3> QED BY <2>2, <3>1, <3>2, <1>1, <1>4, FinishingFits
  <2> QED BY <2>1, <2>2
<1>6. Alone(t)
  <2>1. \A r \in Sessions : Closes(t, r)' => r = s
    BY <1>2 DEF Closes, FinishFits, Probing!FinishSteps
  <2>2. \A r \in Sessions : ~Retries(t, r)'
    BY <1>3 DEF Retries
  <2> QED BY <2>1, <2>2 DEF Alone
<1>7. Claims(t)
  BY DEF Claims
<1>8. Goes(t)
  <2>1. at'[t] \in {"f_close", "f_stop"} => at'[t] \in Probing!FinishSteps
    BY DEF Probing!FinishSteps
  <2> QED BY <2>1, <1>2 DEF Goes
<1>9. own'["stop"].result = own["stop"].result
  BY DEF Steered, ProbeThreads
<1>10. t = "stop" => at["stop"] # "idle"
  BY DEF Probing!FinishSteps
<1> QED BY <1>5, <1>6, <1>7, <1>8, <1>9, <1>10, SharedKeeps

\* A thread with the cleanup of a session.
LEMMA RetryKeeps ==
    ASSUME ProbesInv, NEW t \in ProbeThreads, NEW s \in Sessions, on[t].s = s, at[t] \in Probing!RetrySteps,
           Steered(t), Tended(0), care' \in [Sessions -> Probing!Cleanup],
           faults' \in 0 .. ProbeMaxFaults, spare' = spare, broker' = broker, latch' = latch, job' = job,
           own'[t].todo = own[t].todo, own'[t].result = own[t].result,
           \/ /\ \A u \in ProbeThreads \ {t} : ~Retries(u, s)
              /\ \A r \in Sessions \ {s} : care'[r] = care[r]
           \/ care' = care /\ at'[t] = on[t].back,
           \/ /\ at'[t] \in {"c_close", "c_erase", "c_stop"} /\ on'[t].s = s /\ on'[t].back = on[t].back
              /\ RetryFits(t, s)'
           \/ at'[t] = on[t].back /\ on'[t] = on[t]
    PROVE  ProbesInv'
<1>1. /\ Workers /\ ProbeTypes /\ ThreadFits(t)
  BY DEF ProbesInv
<1>2. RetryFits(t, s) /\ Helping(t)
  BY <1>1 DEF ThreadFits, Helping
<1>3. at'[t] \in {"c_close", "c_erase", "c_stop", "p_raise", "b_each"}
  BY <1>2 DEF RetryFits
<1>5. ThreadFits(t)'
  <2>1. CASE at'[t] = on[t].back /\ on'[t] = on[t]
    BY <2>1, <1>1, <1>2, ReturnFits
  <2>2. CASE /\ at'[t] \in {"c_close", "c_erase", "c_stop"} /\ on'[t].s = s /\ on'[t].back = on[t].back
             /\ RetryFits(t, s)'
    <3>1. at'[t] \in Probing!RetrySteps
      BY <2>2 DEF Probing!RetrySteps
    <3>2. RetryFits(t, on[t].s)'
      BY <2>2 DEF RetryFits, Retries
    <3> QED BY <2>2, <3>1, <3>2, <1>1, RetryingFits
  <2> QED BY <2>1, <2>2
<1>6. Alone(t)
  <2>1. \A r \in Sessions : ~Closes(t, r)'
    BY <1>3 DEF Closes
  <2>2. \A r \in Sessions : Retries(t, r)' => r = s
    BY DEF Retries
  <2>3. at'[t] = on[t].back => \A r \in Sessions : ~Retries(t, r)'
    BY <1>2 DEF RetryFits, Retries
  <2> QED BY <2>1, <2>2, <2>3 DEF Alone
<1>7. Claims(t)
  BY DEF Claims, Probing!RetrySteps
<1>8. Goes(t)
  <2>1. at'[t] \in {"c_close", "c_erase", "c_stop"} => at'[t] \in Probing!RetrySteps
    BY DEF Probing!RetrySteps
  <2>2. at[t] \notin Probing!FinishSteps /\ at'[t] # "p_judge"
    BY <1>3 DEF Probing!FinishSteps, Probing!RetrySteps
  <2> QED BY <2>1, <2>2, <1>2 DEF Goes
<1>9. own'["stop"].result = own["stop"].result
  BY DEF Steered, ProbeThreads
<1>10. t = "stop" => at["stop"] # "idle"
  BY DEF Probing!RetrySteps
<1>11. Typed
  BY <1>1 DEF Typed, ProbeTypes
<1>12. Leaves(t)
  <2>1. /\ \A r \in Sessions : ~Closes(t, r) /\ ~Finishes(t, r)'
        /\ at[t] # "b_flag"
    BY <1>3 DEF Closes, Finishes, Cancels, Probing!FinishSteps, Probing!RetrySteps
  <2> QED BY <2>1, <1>1 DEF Leaves, ProbeTypes
<1> QED BY <1>5, <1>6, <1>7, <1>8, <1>9, <1>10, <1>11, <1>12, SharedKeeps

------------------------------------------------------------------------------
(* _finish_prepared.                                                          *)

\* What a thread that finishes a session starts from.
LEMMA Finisher ==
    ASSUME ProbesInv, NEW t \in ProbeThreads, at[t] \in Probing!FinishSteps, NEW s, s = on[t].s
    PROVE  /\ s \in Sessions /\ FinishFits(t, s) /\ Ready(turn[s], care[s])
           /\ turn[s] # <<>> /\ turn[s] \in Seq(Turn) /\ Len(turn[s]) \in Nat /\ 1 \in 1 .. Len(turn[s])
           /\ loop[s].phase # "none"
           /\ ProbeSession(loop[s], turn[s], proc[s], home[s], care[s], spare[s])
           /\ Workers /\ ProbeTypes /\ ProbeSessions /\ ThreadFits(t)
           /\ on[t].back \in ProbeAts /\ on[t].back \in ProbeBacks
           /\ t = "stop" => at["stop"] # "idle"
<1>1. Workers /\ ProbeTypes /\ ProbeSessions /\ ThreadFits(t)
  BY DEF ProbesInv
<1>2. FinishFits(t, s)
  BY <1>1 DEF ThreadFits
<1>3. s \in Sessions /\ Ready(turn[s], care[s]) /\ turn[s] # <<>>
  BY <1>2 DEF FinishFits, Ready
<1>4. /\ turn[s] \in Seq(Turn) /\ Len(turn[s]) \in Nat /\ loop[s].phase # "none"
      /\ ProbeSession(loop[s], turn[s], proc[s], home[s], care[s], spare[s])
  BY <1>1, <1>3, WorkerTypes DEF ProbeSessions
<1>5. 1 \in 1 .. Len(turn[s])
  BY <1>3, <1>4, EmptySeq
<1>6. on[t].back \in ProbeAts /\ on[t].back \in ProbeBacks
  BY <1>2 DEF FinishFits, ProbeAts, ProbeBacks, Probing!ProbeSteps, Probing!AbortSteps
<1>7. t = "stop" => at["stop"] # "idle"
  BY DEF Probing!FinishSteps
<1> QED BY <1>1, <1>2, <1>3, <1>4, <1>5, <1>6, <1>7

LEMMA FinishClaimKeeps ==
    ASSUME ProbesInv, NEW t \in ProbeThreads, Probing!FinishClaim(t)
    PROVE  ProbesInv'
<1>1. PICK s : s = on[t].s
  OBVIOUS
<1>2. /\ at[t] = "f_claim" /\ at[t] \in Probing!FinishSteps
      /\ proc' = proc /\ home' = home /\ faults' = faults /\ broker' = broker /\ care' = care
      /\ latch' = latch /\ job' = job
  BY DEF Probing!FinishClaim, Probing!FinishSteps
<1>3. /\ s \in Sessions /\ FinishFits(t, s) /\ Ready(turn[s], care[s])
      /\ turn[s] # <<>> /\ turn[s] \in Seq(Turn) /\ Len(turn[s]) \in Nat /\ 1 \in 1 .. Len(turn[s])
      /\ loop[s].phase # "none"
      /\ ProbeSession(loop[s], turn[s], proc[s], home[s], care[s], spare[s])
      /\ Workers /\ ProbeTypes /\ ProbeSessions /\ ThreadFits(t)
      /\ on[t].back \in ProbeAts /\ on[t].back \in ProbeBacks
      /\ t = "stop" => at["stop"] # "idle"
  BY <1>1, <1>2, Finisher
<1>4. faults' \in 0 .. ProbeMaxFaults /\ spare[s] \in Probing!Spare /\ Helping(t)
  BY <1>2, <1>3 DEF ProbeTypes, Helping
<1>5. CASE spare[s].closed
  <2>1. /\ Probing!Goto(t, on[t].back) /\ Probing!Fine(t, spare[s].ok)
        /\ spare' = spare /\ loop' = loop /\ turn' = turn
    BY <1>1, <1>5 DEF Probing!FinishClaim
  <2>2. spare[s].ok \in BOOLEAN /\ spare[s].closing
    BY <1>3, <1>4, <1>5 DEF Probing!Spare, ProbeSession, SpareFits
  <2>3. /\ OwnMoves(t) /\ own'[t].fine = spare[s].ok /\ own'[t].todo = own[t].todo
        /\ own'[t].result = own[t].result
    BY <2>1, <2>2, <1>3, OwnMoved DEF Probing!Fine
  <2>4. Steered(t) /\ at'[t] = on[t].back /\ on'[t] = on[t]
    BY <2>1, <2>3, <1>3, GotoSteers
  <2>5. Tended(0)
    BY <2>1, <1>2, <1>3, NothingTends
  <2>6. ThreadFits(t)'
    BY <2>3, <2>4, <2>5, <1>2, <1>3, <1>4, ReturnFits
  <2>7. Goes(t)
    BY <2>1, <2>2, <2>3, <2>4, <1>1, <1>4, <1>5 DEF Goes
  <2>8. own'["stop"].result = own["stop"].result
    BY <2>3, <2>4 DEF Steered, ProbeThreads
  <2>9. at'[t] \in {"p_raise", "p_judge", "b_closed"}
    BY <2>4, <1>1, <1>3 DEF FinishFits
  <2>10. \A r \in Sessions : ~Finishes(t, r)'
    BY <2>9 DEF Finishes, Cancels, Probing!FinishSteps
  <2> QED BY <2>1, <2>2, <2>4, <2>5, <2>6, <2>7, <2>8, <2>9, <2>10, <1>1, <1>2, <1>3, <1>4, ControlKeeps
<1>6. CASE ~spare[s].closed /\ spare[s].closing
  <2>1. Probing!Goto(t, "f_wait") /\ spare' = spare /\ loop' = loop /\ turn' = turn /\ own' = own
    BY <1>1, <1>6 DEF Probing!FinishClaim
  <2>2. OwnMoves(t) /\ own'[t] = own[t]
    BY <2>1, <1>3, OwnMoved
  <2>3. "f_wait" \in ProbeAts /\ "f_wait" \in Probing!FinishSteps
    BY DEF ProbeAts, Probing!FinishSteps
  <2>4. Steered(t) /\ at'[t] = "f_wait" /\ on'[t] = on[t]
    BY <2>1, <2>2, <2>3, <1>3, GotoSteers
  <2>5. Tended(0)
    BY <2>1, <1>2, <1>3, NothingTends
  <2>6. FinishFits(t, on[t].s)'
    BY <2>1, <2>4, <1>1, <1>2, <1>3, <1>6 DEF FinishFits, Closes
  <2>7. ThreadFits(t)'
    BY <2>3, <2>4, <2>5, <2>6, <1>2, <1>3, FinishingFits
  <2>8. Goes(t)
    BY <2>3, <2>4, <1>4 DEF Goes
  <2>9. \A r \in Sessions : Finishes(t, r)' => Finishes(t, r)
    BY <2>4, <1>2 DEF Finishes
  <2> QED BY <2>1, <2>4, <2>5, <2>7, <2>8, <2>9, <1>1, <1>2, <1>3, <1>4, <1>6, ControlKeeps
<1>7. CASE ~spare[s].closed /\ ~spare[s].closing
  <2>1. /\ spare' = [spare EXCEPT ![s].closing = TRUE] /\ Probing!Submit(s, "close") /\ own' = own
        /\ Probing!GotoWith(t, "f_close", s, loop[s].submitted + 1, on[t].back)
    BY <1>1, <1>7 DEF Probing!FinishClaim
  <2> DEFINE g == Len(turn[s]) + 1
  <2>2. loop[s].submitted + 1 = g /\ g \in Nat
    BY <1>3 DEF Workers, WorkerFits
  <2>3. /\ Handling(s) /\ Len(turn'[s]) = g /\ loop'[s].phase = loop[s].phase
        /\ turn'[s][g].kind = "close" /\ turn'[s][g].at \in {"queued", "done"}
        /\ turn'[s][g].future # "ok"
    <3>1. Submit(s, "close") /\ "close" \in Kinds
      BY <2>1, SameSubmissions DEF Kinds
    <3> QED BY <3>1, <1>3, SubmitWorks
  <2>4. /\ spare'[s].closing /\ spare'[s].closed = spare[s].closed /\ spare'[s].ok = spare[s].ok
        /\ spare' \in [Sessions -> Probing!Spare] /\ \A r \in Sessions \ {s} : spare'[r] = spare[r]
    <3>1. spare \in [Sessions -> Probing!Spare]
      BY <1>3 DEF ProbeTypes
    <3>2. [spare[s] EXCEPT !.closing = TRUE] \in Probing!Spare
      BY <1>4 DEF Probing!Spare
    <3>3. spare'[s] = [spare[s] EXCEPT !.closing = TRUE] /\ spare' \in [Sessions -> Probing!Spare]
      BY <2>1, <3>1, <3>2, <1>3
    <3> QED BY <2>1, <3>1, <3>3, <1>3, <1>4 DEF Probing!Spare
  <2>5. ~spare[s].ok
    BY <1>3, <1>7 DEF ProbeSession, SpareFits
  <2>6. OwnMoves(t) /\ own'[t] = own[t]
    BY <2>1, <1>3, OwnMoved
  <2>7. /\ Steered(t) /\ at'[t] = "f_close" /\ on'[t].s = s /\ on'[t].g = g /\ on'[t].back = on[t].back
    <3>1. "f_close" \in ProbeAts /\ s \in 0 .. MaxSessions
      BY <1>3, WorkerAssumption DEF ProbeAts, Probing!FinishSteps, Sessions
    <3> QED BY <2>1, <2>2, <2>6, <3>1, <1>3, GotoWithSteers
  <2>8. Ready(turn'[s], care'[s]) /\ turn'[s][1].future = "ok"
    <3>1. Onwards(turn[s], turn'[s])
      BY <2>3, <1>3 DEF Handling
    <3>2. turn'[s] # <<>>
      <4>1. turn'[s] = <<>> => Len(turn'[s]) = 0
        BY EmptySeq
      <4> QED BY <4>1, <2>3, <1>3
    <3> QED BY <3>1, <3>2, <1>2, <1>3 DEF Onwards, Ready
  <2> HIDE DEF g
  <2>9. Submitted(turn[s], turn'[s])
    BY <2>3, <1>3 DEF Submitted, Ready, g
  <2>10. RecordsFit(s)
    <3>1. SpareFits(loop'[s], turn'[s], proc[s], home'[s], care'[s], spare'[s])
      BY <2>4, <2>5, <2>8, <1>7 DEF SpareFits
    <3> QED BY <2>8, <3>1, <1>2, <1>3 DEF RecordsFit, Ready
  <2>11. Tended(0)
    <3>1. home' \in [Sessions -> {"none", "there", "gone"}] /\ care' \in [Sessions -> Probing!Cleanup]
      BY <1>2, <1>3 DEF Workers, ProbeTypes
    <3>2. \A r \in Sessions \ {s} : RecordsSame(r)
      BY <2>4, <1>2 DEF RecordsSame
    <3> QED BY <2>3, <2>4, <2>9, <2>10, <3>1, <3>2, <1>2, <1>3, <1>7, ThreadTends
  <2>12. \A u \in ProbeThreads \ {t} : ~Closes(u, s)
    <3> SUFFICES ASSUME NEW u \in ProbeThreads \ {t}, Closes(u, s) PROVE FALSE
      OBVIOUS
    <3>1. at[u] \in Probing!FinishSteps /\ on[u].s = s /\ ThreadFits(u)
      BY DEF Closes, Probing!FinishSteps, ProbesInv
    <3>2. FinishFits(u, s)
      BY <3>1 DEF ThreadFits
    <3> QED BY <3>2, <1>7 DEF FinishFits
  <2>13. FinishFits(t, s)'
    <3>1. \A u \in ProbeThreads \ {t} : ~Closes(u, s)'
      BY <2>7, <2>12 DEF Closes, Steered
    <3>2. g \in 1 .. Len(turn'[s])
      BY <2>2, <2>3, <1>3 DEF g
    <3> QED BY <2>3, <2>4, <2>5, <2>7, <2>8, <3>1, <3>2, <1>3, <1>7 DEF FinishFits, Closes
  <2>14. Leaves(t)
    <3>1. broker \in Probing!Broker
      BY <1>3 DEF ProbeTypes
    <3>2. \A r \in Sessions : (Finishes(t, r)' => Finishes(t, r)) /\ ~Closes(t, r)
      BY <2>7, <1>1, <1>2 DEF Finishes, Closes
    <3>3. \A r \in Sessions : spare'[r].closing /\ ~spare[r].closing => Closes(t, r)'
      BY <2>4, <2>7 DEF Closes
    <3>4. \A r \in Sessions : spare'[r].closed => spare[r].closed
      BY <2>4
    <3> QED BY <3>1, <3>2, <3>3, <3>4, <1>2 DEF Leaves
  <2>15. Typed
    BY <2>4, <1>2, <1>3, <1>4 DEF Typed, ProbeTypes
  <2> QED BY <2>4, <2>6, <2>7, <2>11, <2>12, <2>13, <2>14, <2>15, <1>1, <1>2, <1>3, FinishKeeps
<1> QED BY <1>5, <1>6, <1>7

LEMMA FinishWaitKeeps ==
    ASSUME ProbesInv, NEW t \in ProbeThreads, Probing!FinishWait(t)
    PROVE  ProbesInv'
<1>1. PICK s : s = on[t].s
  OBVIOUS
<1> DEFINE b == spare[s].closed /\ spare[s].ok
<1>2. /\ at[t] = "f_wait" /\ at[t] \in Probing!FinishSteps
      /\ Probing!Calm \/ Probing!Trip("slow")
      /\ Probing!Fine(t, b) /\ Probing!Goto(t, on[t].back)
      /\ loop' = loop /\ turn' = turn /\ proc' = proc /\ home' = home /\ broker' = broker
      /\ care' = care /\ spare' = spare /\ latch' = latch /\ job' = job
  BY <1>1 DEF Probing!FinishWait, Probing!FinishSteps, Probing!records
<1>3. /\ s \in Sessions /\ FinishFits(t, s) /\ Workers /\ ProbeTypes /\ ProbeSessions /\ ThreadFits(t)
      /\ on[t].back \in ProbeAts /\ (t = "stop" => at["stop"] # "idle")
  BY <1>1, <1>2, Finisher
<1>4. faults' \in 0 .. ProbeMaxFaults /\ Helping(t) /\ spare[s].closing
  BY <1>2, <1>3, ProbeFaultsCount DEF Helping, FinishFits
<1>5. /\ b \in BOOLEAN /\ own' = [own EXCEPT ![t].fine = b] /\ (b => spare[s].closed /\ spare[s].ok)
  BY <1>2 DEF Probing!Fine
<1> HIDE DEF b
<1>6. /\ OwnMoves(t) /\ own'[t].fine = b /\ own'[t].todo = own[t].todo
      /\ own'[t].result = own[t].result
  BY <1>3, <1>5, OwnMoved
<1>7. Steered(t) /\ at'[t] = on[t].back /\ on'[t] = on[t]
  BY <1>2, <1>3, <1>6, GotoSteers
<1>8. Tended(0)
  BY <1>2, <1>3, NothingTends
<1>9. ThreadFits(t)'
  BY <1>2, <1>3, <1>4, <1>6, <1>7, <1>8, ReturnFits
<1>10. Goes(t)
  BY <1>1, <1>2, <1>4, <1>5, <1>6, <1>7 DEF Goes
<1>11. own'["stop"].result = own["stop"].result
  BY <1>6, <1>7 DEF Steered, ProbeThreads
<1>12. at'[t] \in {"p_raise", "p_judge", "b_closed"}
  BY <1>1, <1>3, <1>7 DEF FinishFits
<1>13. \A r \in Sessions : ~Finishes(t, r)'
  BY <1>12 DEF Finishes, Cancels, Probing!FinishSteps
<1> QED BY <1>2, <1>3, <1>4, <1>7, <1>8, <1>9, <1>10, <1>11, <1>12, <1>13, ControlKeeps

LEMMA FinishCloseKeeps ==
    ASSUME ProbesInv, NEW t \in ProbeThreads, Probing!FinishClose(t)
    PROVE  ProbesInv'
<1>1. PICK s : s = on[t].s
  OBVIOUS
<1>2. PICK cleaned \in BOOLEAN :
         /\ Probing!Erase(s, cleaned) /\ Probing!Stopping(s)
         /\ spare' = [spare EXCEPT ![s].ok = Probing!Answer(s, on[t].g) = "ok" /\ cleaned]
  BY <1>1 DEF Probing!FinishClose
<1>3. /\ at[t] = "f_close" /\ at[t] \in Probing!FinishSteps /\ Probing!Goto(t, "f_stop")
      /\ proc' = proc /\ own' = own /\ broker' = broker /\ care' = care /\ latch' = latch /\ job' = job
  BY DEF Probing!FinishClose, Probing!FinishSteps
<1>4. /\ s \in Sessions /\ FinishFits(t, s) /\ Ready(turn[s], care[s])
      /\ turn[s] # <<>> /\ turn[s] \in Seq(Turn) /\ Len(turn[s]) \in Nat /\ 1 \in 1 .. Len(turn[s])
      /\ loop[s].phase # "none"
      /\ ProbeSession(loop[s], turn[s], proc[s], home[s], care[s], spare[s])
      /\ Workers /\ ProbeTypes /\ ProbeSessions /\ ThreadFits(t)
      /\ t = "stop" => at["stop"] # "idle"
  BY <1>1, <1>3, Finisher
<1>5. /\ spare[s].closing /\ ~spare[s].closed /\ (\A u \in ProbeThreads \ {t} : ~Closes(u, s))
      /\ on[t].g \in 1 .. Len(turn[s]) /\ turn[s][on[t].g].kind = "close" /\ Closes(t, s)
  BY <1>1, <1>3, <1>4 DEF FinishFits, Closes
<1>6. /\ faults' \in 0 .. ProbeMaxFaults
      /\ home' = [home EXCEPT ![s] = IF cleaned THEN "gone" ELSE home[s]]
  <2>1. Probing!Calm \/ \E what : Probing!Trip(what)
    BY <1>2 DEF Probing!Erase
  <2> QED BY <2>1, <1>2, <1>4, ProbeFaultsCount DEF Probing!Erase
<1>7. /\ home' \in [Sessions -> {"none", "there", "gone"}] /\ home'[s] = IF cleaned THEN "gone" ELSE home[s]
      /\ \A r \in Sessions \ {s} : home'[r] = home[r]
  BY <1>4, <1>6 DEF Workers
<1>8. Handling(s) /\ Len(turn'[s]) = Len(turn[s]) /\ loop'[s].phase # "running"
  <2>1. Stopping(s)
    BY <1>2, SameSubmissions
  <2> QED BY <2>1, <1>4, StoppingWorks
<1> DEFINE b == turn[s][on[t].g].future = "ok" /\ cleaned
<1>9. b \in BOOLEAN /\ spare' = [spare EXCEPT ![s].ok = b]
  BY <1>2, SameState DEF Answer
<1>10. b => Gone(proc[s]) /\ home'[s] = "gone"
  BY <1>4, <1>5, <1>7 DEF ProbeSession, SessionFits
<1> HIDE DEF b
<1>11. /\ spare'[s].closing /\ ~spare'[s].closed /\ spare'[s].ok = b
       /\ spare' \in [Sessions -> Probing!Spare] /\ \A r \in Sessions \ {s} : spare'[r] = spare[r]
  <2>1. spare \in [Sessions -> Probing!Spare] /\ spare[s] \in Probing!Spare
    BY <1>4 DEF ProbeTypes
  <2>2. [spare[s] EXCEPT !.ok = b] \in Probing!Spare
    BY <2>1, <1>9 DEF Probing!Spare
  <2>3. /\ spare'[s] = [spare[s] EXCEPT !.ok = b] /\ spare' \in [Sessions -> Probing!Spare]
        /\ \A r \in Sessions \ {s} : spare'[r] = spare[r]
    BY <2>1, <2>2, <1>4, <1>9
  <2> QED BY <2>1, <2>3, <1>5 DEF Probing!Spare
<1>12. Ready(turn'[s], care'[s])
  <2>1. Onwards(turn[s], turn'[s])
    BY <1>4, <1>8 DEF Handling
  <2>2. turn'[s] # <<>>
    <3>1. turn'[s] = <<>> => Len(turn'[s]) = 0
      BY EmptySeq
    <3> QED BY <3>1, <1>4, <1>8
  <2> QED BY <2>1, <2>2, <1>3, <1>4 DEF Onwards, Ready
<1>13. RecordsFit(s)
  <2>1. SpareFits(loop'[s], turn'[s], proc[s], home'[s], care'[s], spare'[s])
    BY <1>8, <1>10, <1>11, <1>12 DEF SpareFits
  <2> QED BY <2>1, <1>3, <1>4, <1>7, <1>12 DEF RecordsFit, Ready
<1>14. Tended(0)
  <2>1. care' \in [Sessions -> Probing!Cleanup]
    BY <1>3, <1>4 DEF ProbeTypes
  <2>2. \A r \in Sessions \ {s} : RecordsSame(r)
    BY <1>3, <1>7, <1>11 DEF RecordsSame
  <2> QED BY <2>1, <2>2, <1>3, <1>4, <1>5, <1>7, <1>8, <1>11, <1>13, ThreadTends
<1>15. OwnMoves(t) /\ own'[t] = own[t]
  BY <1>3, <1>4, OwnMoved
<1>16. Steered(t) /\ at'[t] = "f_stop" /\ on'[t] = on[t]
  <2>1. "f_stop" \in ProbeAts
    BY DEF ProbeAts, Probing!FinishSteps
  <2> QED BY <2>1, <1>3, <1>4, <1>15, GotoSteers
<1>17. FinishFits(t, s)'
  <2>1. \A u \in ProbeThreads \ {t} : ~Closes(u, s)'
    BY <1>5, <1>16 DEF Closes, Steered
  <2> QED BY <2>1, <1>4, <1>11, <1>12, <1>16 DEF FinishFits, Closes
<1>18. Leaves(t)
  <2>1. broker \in Probing!Broker
    BY <1>4 DEF ProbeTypes
  <2>2. \A r \in Sessions : (Finishes(t, r)' => Finishes(t, r)) /\ (Closes(t, r) => Closes(t, r)')
    BY <1>3, <1>16 DEF Finishes, Closes
  <2>3. \A r \in Sessions : spare'[r].closing => spare[r].closing
    BY <1>5, <1>11
  <2>4. \A r \in Sessions : spare'[r].closed => spare[r].closed
    BY <1>11
  <2> QED BY <2>1, <2>2, <2>3, <2>4, <1>3 DEF Leaves
<1>19. Typed
  BY <1>3, <1>4, <1>6, <1>11 DEF Typed, ProbeTypes
<1> QED BY <1>1, <1>3, <1>4, <1>5, <1>11, <1>14, <1>15, <1>16, <1>17, <1>18, <1>19, FinishKeeps

LEMMA FinishStopKeeps ==
    ASSUME ProbesInv, NEW t \in ProbeThreads, Probing!FinishStop(t)
    PROVE  ProbesInv'
<1>1. PICK s : s = on[t].s
  OBVIOUS
<1> DEFINE b == spare[s].ok /\ Stopped(s)
<1>2. /\ at[t] = "f_stop" /\ at[t] \in Probing!FinishSteps /\ Probing!Goto(t, on[t].back)
      /\ Probing!Joined(s) \/ Probing!Outlives(s)
      /\ spare' = [spare EXCEPT ![s].closed = TRUE, ![s].ok = @ /\ Probing!Stopped(s)]
      /\ broker' = [broker EXCEPT !.prepared = IF @ = s THEN 0 ELSE @, !.active = IF @ = s THEN 0 ELSE @]
      /\ Probing!Fine(t, spare'[s].ok)
      /\ loop' = loop /\ turn' = turn /\ proc' = proc /\ home' = home /\ care' = care
      /\ latch' = latch /\ job' = job
  BY <1>1 DEF Probing!FinishStop, Probing!FinishSteps, Probing!NoSession
<1>3. /\ s \in Sessions /\ FinishFits(t, s) /\ Ready(turn[s], care[s]) /\ turn[s] # <<>>
      /\ ProbeSession(loop[s], turn[s], proc[s], home[s], care[s], spare[s])
      /\ Workers /\ ProbeTypes /\ ProbeSessions /\ ThreadFits(t)
      /\ on[t].back \in ProbeAts
      /\ t = "stop" => at["stop"] # "idle"
  BY <1>1, <1>2, Finisher
<1>4. /\ spare[s].closing /\ ~spare[s].closed /\ (\A u \in ProbeThreads \ {t} : ~Closes(u, s)) /\ Closes(t, s)
  BY <1>1, <1>2, <1>3 DEF FinishFits, Closes
<1>5. faults' \in 0 .. ProbeMaxFaults
  BY <1>2, <1>3, ProbeFaultsCount DEF Probing!Joined, Probing!Outlives
<1>6. spare \in [Sessions -> Probing!Spare] /\ spare[s] \in Probing!Spare /\ broker \in Probing!Broker
  BY <1>3 DEF ProbeTypes
<1>7. b \in BOOLEAN /\ spare' = [spare EXCEPT ![s] = [spare[s] EXCEPT !.closed = TRUE, !.ok = b]]
  <2>1. spare' = [spare EXCEPT ![s] = [spare[s] EXCEPT !.closed = TRUE, !.ok = b]]
    BY <1>2, <1>3, <1>6, SameState
  <2>2. b \in BOOLEAN
    BY <1>6 DEF Probing!Spare, Stopped
  <2> QED BY <2>1, <2>2
<1>8. /\ spare'[s].closing /\ spare'[s].closed /\ spare'[s].ok = b
      /\ spare' \in [Sessions -> Probing!Spare] /\ \A r \in Sessions \ {s} : spare'[r] = spare[r]
  <2> HIDE DEF b
  <2> DEFINE f == spare[s]
  <2> DEFINE e == [f EXCEPT !.closed = TRUE, !.ok = b]
  <2>1. f \in Probing!Spare
    BY <1>6
  <2>2. e \in Probing!Spare /\ e.closing = f.closing /\ e.closed /\ e.ok = b
    <3> HIDE DEF f
    <3> QED BY <2>1, <1>7 DEF Probing!Spare
  <2>3. spare' = [spare EXCEPT ![s] = e]
    BY <1>7
  <2> HIDE DEF e
  <2>4. spare'[s] = e /\ spare' \in [Sessions -> Probing!Spare] /\ \A r \in Sessions \ {s} : spare'[r] = spare[r]
    BY <2>2, <2>3, <1>3, <1>6
  <2> QED BY <2>2, <2>4, <1>4
<1>9. b => spare[s].ok /\ loop[s].phase = "stopped"
  BY DEF Stopped
<1> HIDE DEF b
<1>10. /\ broker' \in Probing!Broker /\ broker'.preparing = broker.preparing /\ broker'.aborted = broker.aborted
       /\ broker'.prepared = IF broker.prepared = s THEN 0 ELSE broker.prepared
       /\ broker'.active = IF broker.active = s THEN 0 ELSE broker.active
  <2>1. broker.prepared \in 0 .. MaxSessions /\ broker.active \in 0 .. MaxSessions /\ 0 \in 0 .. MaxSessions
    BY <1>6, WorkerAssumption DEF Probing!Broker
  <2> QED BY <2>1, <1>2, <1>6 DEF Probing!Broker
<1>11. Tended(0)
  <2>1. Handling(s)
    BY <1>2, <1>3, NothingHandled
  <2>2. home' \in [Sessions -> {"none", "there", "gone"}] /\ care' \in [Sessions -> Probing!Cleanup]
    BY <1>2, <1>3 DEF Workers, ProbeTypes
  <2>3. \A r \in Sessions \ {s} : RecordsSame(r)
    BY <1>2, <1>8 DEF RecordsSame
  <2>4. RecordsFit(s)
    <3>1. SpareFits(loop'[s], turn'[s], proc[s], home'[s], care'[s], spare'[s])
      BY <1>2, <1>3, <1>8, <1>9 DEF SpareFits, ProbeSession
    <3> QED BY <3>1, <1>2, <1>3 DEF RecordsFit, Ready
  <2> QED BY <2>1, <2>2, <2>3, <2>4, <1>2, <1>3, <1>4, <1>8, ThreadTends
<1>12. /\ OwnMoves(t) /\ own'[t].fine = b /\ own'[t].todo = own[t].todo
       /\ own'[t].result = own[t].result
  <2>1. own' = [own EXCEPT ![t].fine = b]
    BY <1>2, <1>8 DEF Probing!Fine
  <2> QED BY <2>1, <1>3, <1>7, OwnMoved
<1>13. Steered(t) /\ at'[t] = on[t].back /\ on'[t] = on[t]
  BY <1>2, <1>3, <1>12, GotoSteers
<1>14. at'[t] \in {"p_raise", "p_judge", "b_closed"}
  BY <1>1, <1>3, <1>13 DEF FinishFits
<1>15. Leaves(t)
  <2>1. \A r \in Sessions : ~Finishes(t, r)'
    BY <1>14 DEF Finishes, Cancels, Probing!FinishSteps
  <2>2. \A r \in Sessions : Closes(t, r) => r = s
    BY <1>1 DEF Closes
  <2>3. Handed(s)'
    BY <1>8 DEF Handed
  <2>4. 0 \notin Sessions
    BY WorkerAssumption DEF Sessions
  <2>5. /\ broker'.prepared \in {0, broker.prepared} /\ broker'.active \in {0, broker.active}
        /\ broker'.active # s
    BY <2>4, <1>3, <1>10
  <2>6. ASSUME NEW r \in Sessions
        PROVE  /\ r \in {broker.prepared, broker.active} =>
                      r \in {broker'.prepared, broker'.active} \/ Handed(r)'
               /\ r = broker.active /\ r # broker'.active => spare'[r].closing
               /\ Closes(t, r) => Closes(t, r)' \/ spare'[r].closed
               /\ spare'[r].closing /\ ~spare[r].closing => Closes(t, r)'
               /\ spare'[r].closed /\ ~spare[r].closed => broker'.active # r
    <3>1. CASE r = s
      BY <3>1, <2>3, <2>5, <1>4, <1>8
    <3>2. CASE r # s
      BY <3>2, <2>2, <1>8, <1>10
    <3> QED BY <3>1, <3>2
  <2>7. at[t] # "b_flag"
    BY <1>2
  <2> QED BY <2>1, <2>5, <2>6, <2>7, <1>10 DEF Leaves
<1>16. Typed
  BY <1>2, <1>3, <1>5, <1>8 DEF Typed, ProbeTypes
<1> QED BY <1>1, <1>2, <1>3, <1>4, <1>8, <1>9, <1>11, <1>12, <1>13, <1>15, <1>16, FinishKeeps

------------------------------------------------------------------------------
(* _retry_inflight_cleanup.                                                   *)

\* What a thread that retries a cleanup starts from.
LEMMA Retrier ==
    ASSUME ProbesInv, NEW t \in ProbeThreads, at[t] \in Probing!RetrySteps, NEW s, s = on[t].s
    PROVE  /\ s \in Sessions /\ RetryFits(t, s) /\ Spoilt(turn[s]) /\ ~spare[s].closing
           /\ turn[s] # <<>> /\ turn[s] \in Seq(Turn) /\ Len(turn[s]) \in Nat /\ 1 \in 1 .. Len(turn[s])
           /\ loop[s].phase # "none" /\ care[s] \in Probing!Cleanup
           /\ ProbeSession(loop[s], turn[s], proc[s], home[s], care[s], spare[s])
           /\ Workers /\ ProbeTypes /\ ProbeSessions /\ ThreadFits(t)
           /\ on[t].back \in ProbeAts /\ on[t].back \in ProbeBacks
<1>1. Workers /\ ProbeTypes /\ ProbeSessions /\ ThreadFits(t)
  BY DEF ProbesInv
<1>2. RetryFits(t, s)
  BY <1>1 DEF ThreadFits
<1>3. s \in Sessions /\ Spoilt(turn[s]) /\ turn[s] # <<>>
  BY <1>2 DEF RetryFits, Spoilt
<1>4. /\ turn[s] \in Seq(Turn) /\ Len(turn[s]) \in Nat /\ loop[s].phase # "none"
      /\ ProbeSession(loop[s], turn[s], proc[s], home[s], care[s], spare[s])
      /\ care[s] \in Probing!Cleanup
  BY <1>1, <1>3, WorkerTypes DEF ProbeSessions, ProbeTypes
<1>5. 1 \in 1 .. Len(turn[s])
  BY <1>3, <1>4, EmptySeq
<1>6. on[t].back \in ProbeAts /\ on[t].back \in ProbeBacks
  BY <1>2 DEF RetryFits, ProbeAts, ProbeBacks, Probing!ProbeSteps, Probing!AbortSteps
<1>7. ~spare[s].closing
  BY <1>3, <1>4 DEF ProbeSession, SpareFits, Ready, Spoilt
<1> QED BY <1>1, <1>2, <1>3, <1>4, <1>5, <1>6, <1>7

LEMMA RetryTends ==
    ASSUME Workers, ProbeTypes, ProbeSessions, NEW s \in Sessions, Handling(s), Spoilt(turn[s]),
           Len(turn'[s]) = Len(turn[s]) \/ Submitted(turn[s], turn'[s]), spare' = spare, ~spare[s].closing,
           proc' = proc, home' \in [Sessions -> {"none", "there", "gone"}],
           care' \in [Sessions -> Probing!Cleanup],
           \A r \in Sessions \ {s} : home'[r] = home[r] /\ care'[r] = care[r],
           home'[s] \in {home[s], "gone"},
           care'[s].listed = care[s].listed \/ (/\ ~care'[s].listed /\ proc[s].process # "alive"
                                                /\ home'[s] # "there" /\ loop'[s].phase = "stopped"),
           care[s].owner = "coroutine" => care'[s].owner = "coroutine" \/ care[s].complete,
           care'[s].complete = care[s].complete \/ ~Started(turn'[s][1]),
           care'[s].closed => care[s].closed \/ proc[s].process # "alive"
    PROVE  Tended(0) /\ Spoilt(turn'[s])
<1>1. /\ turn[s] # <<>> /\ turn[s] \in Seq(Turn) /\ Len(turn[s]) \in Nat
      /\ ProbeSession(loop[s], turn[s], proc[s], home[s], care[s], spare[s])
      /\ turn'[s] \in Seq(Turn) /\ Len(turn'[s]) \in Nat
  BY WorkerTypes, LenProperties DEF ProbeSessions, Spoilt, Handling
<1>2. Spoilt(turn'[s])
  <2>1. Onwards(turn[s], turn'[s]) /\ 1 \in 1 .. Len(turn[s])
    BY <1>1, EmptySeq DEF Handling
  <2>2. turn'[s] # <<>>
    <3>1. turn'[s] = <<>> => Len(turn'[s]) = 0
      BY EmptySeq
    <3> QED BY <3>1, <2>1, <1>1 DEF Onwards
  <2> QED BY <2>1, <2>2 DEF Spoilt, Onwards
<1>3. RecordsFit(s)
  <2>1. SpareFits(loop'[s], turn'[s], proc[s], home'[s], care'[s], spare'[s])
    BY <1>1 DEF ProbeSession, SpareFits
  <2>2. ~Ready(turn'[s], care[s]) /\ turn'[s] # <<>>
    BY <1>2 DEF Ready, Spoilt
  <2> QED BY <2>1, <2>2, <1>2 DEF RecordsFit
<1>4. \A r \in Sessions \ {s} : RecordsSame(r)
  BY DEF RecordsSame
<1>5. /\ care'[s].listed => care[s].listed
      /\ care[s].listed => \/ care'[s].listed
                           \/ turn[s][1].future # "ok" /\ Quit(loop'[s], proc'[s], home'[s])
  BY DEF Quit, Spoilt
<1>6. Tended(0)
  BY <1>1, <1>3, <1>4, <1>5, ThreadTends
<1> QED BY <1>2, <1>6

LEMMA ReturnsSteers ==
    ASSUME ProbeTypes, NEW t \in ProbeThreads, on[t].back \in ProbeAts, NEW success \in BOOLEAN,
           Probing!Returns(t, success)
    PROVE  /\ Steered(t) /\ at'[t] = on[t].back /\ on'[t] = on[t]
           /\ own'[t].todo = own[t].todo /\ own'[t].result = own[t].result
<1> DEFINE b == own[t].all /\ success
<1>1. own' = [own EXCEPT ![t].all = b] /\ Probing!Goto(t, on[t].back)
  BY DEF Probing!Returns, ProbeTypes
<1>2. b \in BOOLEAN
  BY DEF ProbeTypes, Probing!Own
<1> HIDE DEF b
<1>3. OwnMoves(t) /\ own'[t].todo = own[t].todo /\ own'[t].result = own[t].result
  BY <1>1, <1>2, OwnMoved
<1> QED BY <1>1, <1>3, GotoSteers

\* It gives up, and gives the cleanup back if it owned it.
LEMMA RetryReturns ==
    ASSUME ProbesInv, NEW t \in ProbeThreads, at[t] \in Probing!RetrySteps,
           NEW s, s = on[t].s, NEW success \in BOOLEAN, Probing!Returns(t, success),
           care' = care \/ (care' = Probing!Unowned(s) /\ Retries(t, s)),
           loop' = loop, turn' = turn, proc' = proc, home' = home, broker' = broker, spare' = spare,
           latch' = latch, job' = job, faults' \in 0 .. ProbeMaxFaults
    PROVE  ProbesInv'
<1>1. /\ s \in Sessions /\ RetryFits(t, s) /\ Spoilt(turn[s]) /\ ~spare[s].closing
      /\ care[s] \in Probing!Cleanup /\ Workers /\ ProbeTypes /\ ProbeSessions
      /\ on[t].back \in ProbeAts
  BY Retrier
<1>2. /\ Steered(t) /\ at'[t] = on[t].back /\ on'[t] = on[t]
      /\ own'[t].todo = own[t].todo /\ own'[t].result = own[t].result
  BY <1>1, ReturnsSteers
<1>3. CASE care' = care
  <2>1. Tended(0)
    BY <1>1, <1>3, NothingTends
  <2>2. care' \in [Sessions -> Probing!Cleanup]
    BY <1>1, <1>3 DEF ProbeTypes
  <2> QED BY <2>1, <2>2, <1>1, <1>2, <1>3, RetryKeeps
<1>4. CASE care' = Probing!Unowned(s) /\ Retries(t, s)
  <2> DEFINE o == IF care[s].owner = "broker" THEN "none" ELSE care[s].owner
  <2> DEFINE d == [care[s] EXCEPT !.owner = o]
  <2>1. care \in [Sessions -> Probing!Cleanup]
    BY <1>1 DEF ProbeTypes
  <2>2. o \in {"none", "coroutine", "broker"}
    BY <1>1 DEF Probing!Cleanup
  <2>3. care' = [care EXCEPT ![s] = d]
    BY <1>1, <1>4, <2>1 DEF Probing!Unowned
  <2> HIDE DEF o
  <2>4. d \in Probing!Cleanup /\ d.listed = care[s].listed /\ d.complete = care[s].complete /\ d.closed = care[s].closed
    <3> DEFINE c == care[s]
    <3>1. c \in Probing!Cleanup
      BY <1>1
    <3> HIDE DEF c
    <3>2. [c EXCEPT !.owner = o] \in Probing!Cleanup
      BY <3>1, <2>2 DEF Probing!Cleanup
    <3>3. /\ [c EXCEPT !.owner = o].listed = c.listed /\ [c EXCEPT !.owner = o].complete = c.complete
          /\ [c EXCEPT !.owner = o].closed = c.closed
      BY <3>1 DEF Probing!Cleanup
    <3> QED BY <3>2, <3>3 DEF c
  <2> HIDE DEF d
  <2>5. care'[s] = d /\ care' \in [Sessions -> Probing!Cleanup] /\ \A r \in Sessions \ {s} : care'[r] = care[r]
    BY <2>1, <2>3, <2>4, <1>1
  <2>6. care[s].owner = "broker" /\ \A u \in ProbeThreads \ {t} : ~Retries(u, s)
    BY <1>1, <1>4 DEF RetryFits
  <2>7. Tended(0)
    <3>1. Handling(s)
      BY <1>1, NothingHandled
    <3>2. home \in [Sessions -> {"none", "there", "gone"}]
      BY <1>1 DEF Workers
    <3>3. Len(turn'[s]) = Len(turn[s]) /\ home'[s] \in {home[s], "gone"} /\ \A r \in Sessions \ {s} : home'[r] = home[r]
      OBVIOUS
    <3>4. /\ care'[s].listed = care[s].listed /\ care'[s].complete = care[s].complete
          /\ care'[s].closed => care[s].closed
          /\ care[s].owner # "coroutine"
      BY <2>4, <2>5, <2>6
    <3> QED BY <3>1, <3>2, <3>3, <3>4, <2>5, <1>1, RetryTends
  <2> QED BY <2>5, <2>6, <2>7, <1>1, <1>2, RetryKeeps
<1> QED BY <1>3, <1>4

\* The cleanup is owned and goes on at the next step.
LEMMA RetryClaimKeeps ==
    ASSUME ProbesInv, NEW t \in ProbeThreads, Probing!RetryClaim(t)
    PROVE  ProbesInv'
<1>1. PICK s : s = on[t].s
  OBVIOUS
<1> DEFINE pending == care[s].owner = "coroutine" /\ ~care[s].complete
<1>2. /\ at[t] = "c_claim" /\ at[t] \in Probing!RetrySteps
      /\ proc' = proc /\ home' = home /\ faults' = faults /\ broker' = broker /\ spare' = spare
      /\ latch' = latch /\ job' = job
      /\ \/ ~care[s].listed /\ Probing!Returns(t, TRUE) /\ loop' = loop /\ turn' = turn /\ care' = care
         \/ Probing!Returns(t, FALSE) /\ loop' = loop /\ turn' = turn /\ care' = care
         \/ care[s].listed /\ ~pending /\ care[s].owner # "broker" /\ Probing!RetryBoundary(t, s)
  BY <1>1 DEF Probing!RetryClaim, Probing!RetrySteps
<1>3. /\ s \in Sessions /\ RetryFits(t, s) /\ Spoilt(turn[s]) /\ ~spare[s].closing
      /\ turn[s] # <<>> /\ turn[s] \in Seq(Turn) /\ Len(turn[s]) \in Nat /\ 1 \in 1 .. Len(turn[s])
      /\ loop[s].phase # "none" /\ care[s] \in Probing!Cleanup
      /\ ProbeSession(loop[s], turn[s], proc[s], home[s], care[s], spare[s])
      /\ Workers /\ ProbeTypes /\ ProbeSessions /\ ThreadFits(t)
      /\ on[t].back \in ProbeAts /\ on[t].back \in ProbeBacks
  BY <1>1, <1>2, Retrier
<1>4. /\ faults' \in 0 .. ProbeMaxFaults /\ care \in [Sessions -> Probing!Cleanup]
      /\ home' \in [Sessions -> {"none", "there", "gone"}]
      /\ home'[s] \in {home[s], "gone"} /\ \A r \in Sessions : home'[r] = home[r]
  BY <1>2, <1>3 DEF ProbeTypes, Workers
<1>5. CASE \E success \in BOOLEAN : Probing!Returns(t, success) /\ loop' = loop /\ turn' = turn /\ care' = care
  BY <1>1, <1>2, <1>4, <1>5, RetryReturns
<1>6. ASSUME care[s].listed, ~pending, care[s].owner # "broker", Probing!RetryBoundary(t, s) PROVE ProbesInv'
  <2>1. \A u \in ProbeThreads \ {t} : ~Retries(u, s)
    <3> SUFFICES ASSUME NEW u \in ProbeThreads \ {t}, Retries(u, s) PROVE FALSE
      OBVIOUS
    <3>1. at[u] \in Probing!RetrySteps /\ on[u].s = s /\ ThreadFits(u)
      BY DEF Retries, Probing!RetrySteps, ProbesInv
    <3>2. RetryFits(u, s)
      BY <3>1 DEF ThreadFits
    <3> QED BY <3>2, <1>6 DEF RetryFits
  <2>2. ASSUME NEW d \in Probing!Cleanup, care' = [care EXCEPT ![s] = d]
        PROVE  /\ care'[s] = d /\ care' \in [Sessions -> Probing!Cleanup]
               /\ \A r \in Sessions \ {s} : care'[r] = care[r]
    BY <2>2, <1>3, <1>4
  <2>3. CASE care[s].closed \/ (~own[t].late /\ ~Probing!TransportAlive(s))
    <3> DEFINE c == care[s]
    <3> DEFINE d == [c EXCEPT !.owner = "broker", !.closed = TRUE]
    <3>1. /\ care' = [care EXCEPT ![s] = d] /\ Probing!Goto(t, "c_erase")
          /\ loop' = loop /\ turn' = turn /\ own' = own
      BY <2>3, <1>3, <1>4, <1>6 DEF Probing!RetryBoundary
    <3>2. c.closed \/ proc[s].process # "alive"
      <4>1. proc[s].closing => proc[s].process \in {"told", "dead"}
        BY <1>3 DEF ProbeSession, SessionFits
      <4> QED BY <4>1, <2>3, SameState DEF TransportAlive, ProcessAlive
    <3>3. /\ d \in Probing!Cleanup /\ d.listed = c.listed /\ d.complete = c.complete /\ d.closed
          /\ d.owner = "broker"
      <4>1. c \in Probing!Cleanup
        BY <1>3
      <4> HIDE DEF c
      <4> QED BY <4>1 DEF Probing!Cleanup
    <3> HIDE DEF d
    <3>4. /\ care'[s] = d /\ care' \in [Sessions -> Probing!Cleanup]
          /\ \A r \in Sessions \ {s} : care'[r] = care[r]
      BY <3>1, <3>3, <2>2
    <3>5. Tended(0) /\ Spoilt(turn'[s])
      <4>1. Handling(s) /\ Len(turn'[s]) = Len(turn[s])
        BY <3>1, <1>3, NothingHandled
      <4>2. care[s].owner = "coroutine" => care[s].complete
        BY <1>6
      <4> QED BY <4>1, <4>2, <3>2, <3>3, <3>4, <1>2, <1>3, <1>4, RetryTends
    <3>6. Steered(t) /\ at'[t] = "c_erase" /\ on'[t] = on[t] /\ own'[t] = own[t]
      <4>1. OwnMoves(t) /\ own'[t] = own[t]
        BY <3>1, <1>3, OwnMoved
      <4>2. "c_erase" \in ProbeAts
        BY DEF ProbeAts, Probing!RetrySteps
      <4> QED BY <4>1, <4>2, <3>1, <1>3, GotoSteers
    <3>7. RetryFits(t, s)'
      <4>1. \A u \in ProbeThreads \ {t} : ~Retries(u, s)'
        BY <2>1, <3>6 DEF Retries, Steered
      <4> QED BY <4>1, <3>3, <3>4, <3>5, <3>6, <1>3, <1>6 DEF RetryFits
    <3> QED BY <2>1, <3>4, <3>5, <3>6, <3>7, <1>1, <1>2, <1>3, <1>4, RetryKeeps
  <2>4. CASE /\ ~(care[s].closed \/ (~own[t].late /\ ~Probing!TransportAlive(s)))
             /\ own[t].late \/ ~Probing!Alive(s)
    <3>1. care' = Probing!Unowned(s) /\ Probing!Returns(t, FALSE) /\ loop' = loop /\ turn' = turn
      BY <2>4, <1>6 DEF Probing!RetryBoundary
    <3>2. care' = care
      <4> DEFINE d == [care[s] EXCEPT !.owner = care[s].owner]
      <4>1. care' = [care EXCEPT ![s] = d]
        BY <3>1, <1>3, <1>4, <1>6 DEF Probing!Unowned
      <4>2. d = care[s]
        BY <1>3 DEF Probing!Cleanup
      <4> HIDE DEF d
      <4> QED BY <4>1, <4>2, <1>3, <1>4
    <3> QED BY <3>1, <3>2, <1>1, <1>2, <1>4, RetryReturns
  <2>5. CASE /\ ~(care[s].closed \/ (~own[t].late /\ ~Probing!TransportAlive(s)))
             /\ ~(own[t].late \/ ~Probing!Alive(s))
    <3> DEFINE c == care[s]
    <3> DEFINE d == [c EXCEPT !.owner = "broker"]
    <3> DEFINE g == Len(turn[s]) + 1
    <3>1. /\ care' = [care EXCEPT ![s] = d] /\ Probing!Submit(s, "close") /\ own' = own
          /\ Probing!GotoWith(t, "c_close", s, loop[s].submitted + 1, on[t].back)
      BY <2>5, <1>3, <1>4, <1>6 DEF Probing!RetryBoundary
    <3>2. loop[s].submitted + 1 = g /\ g \in Nat
      BY <1>3 DEF Workers, WorkerFits
    <3>3. /\ d \in Probing!Cleanup /\ d.listed = c.listed /\ d.complete = c.complete
          /\ d.closed = c.closed /\ d.owner = "broker"
      <4>1. c \in Probing!Cleanup
        BY <1>3
      <4> HIDE DEF c
      <4> QED BY <4>1 DEF Probing!Cleanup
    <3> HIDE DEF d
    <3>4. /\ care'[s] = d /\ care' \in [Sessions -> Probing!Cleanup]
          /\ \A r \in Sessions \ {s} : care'[r] = care[r]
      BY <3>1, <3>3, <2>2
    <3>5. /\ Handling(s) /\ Len(turn'[s]) = g
          /\ turn'[s][g].kind = "close" /\ turn'[s][g].at \in {"queued", "done"}
          /\ turn'[s][g].future # "ok"
      <4>1. Submit(s, "close") /\ "close" \in Kinds
        BY <3>1, SameSubmissions DEF Kinds
      <4> QED BY <4>1, <1>3, SubmitWorks
    <3> HIDE DEF g
    <3>6. Submitted(turn[s], turn'[s])
      BY <3>5, <1>3 DEF Submitted, Spoilt, g
    <3>7. Tended(0) /\ Spoilt(turn'[s])
      <4>1. care[s].owner = "coroutine" => care[s].complete
        BY <1>6
      <4> QED BY <4>1, <3>3, <3>4, <3>5, <3>6, <1>2, <1>3, <1>4, RetryTends
    <3>8. /\ Steered(t) /\ at'[t] = "c_close" /\ on'[t].s = s /\ on'[t].g = g /\ on'[t].back = on[t].back
          /\ own'[t] = own[t]
      <4>1. OwnMoves(t) /\ own'[t] = own[t]
        BY <3>1, <1>3, OwnMoved
      <4>2. "c_close" \in ProbeAts /\ s \in 0 .. MaxSessions
        BY <1>3, WorkerAssumption DEF ProbeAts, Probing!RetrySteps, Sessions
      <4> QED BY <4>1, <4>2, <3>1, <3>2, <1>3, GotoWithSteers
    <3>9. RetryFits(t, s)'
      <4>1. \A u \in ProbeThreads \ {t} : ~Retries(u, s)'
        BY <2>1, <3>8 DEF Retries, Steered
      <4>2. g \in 1 .. Len(turn'[s])
        BY <3>2, <3>5, <1>3 DEF g
      <4> QED BY <4>1, <4>2, <3>3, <3>4, <3>5, <3>7, <3>8, <1>3, <1>6 DEF RetryFits
    <3> QED BY <2>1, <3>4, <3>7, <3>8, <3>9, <1>1, <1>2, <1>3, <1>4, RetryKeeps
  <2> QED BY <2>3, <2>4, <2>5
<1> QED BY <1>2, <1>5, <1>6

LEMMA RetryClosedKeeps ==
    ASSUME ProbesInv, NEW t \in ProbeThreads, Probing!RetryClosed(t)
    PROVE  ProbesInv'
<1>1. PICK s : s = on[t].s
  OBVIOUS
<1>2. /\ at[t] = "c_close" /\ at[t] \in Probing!RetrySteps
      /\ loop' = loop /\ turn' = turn /\ proc' = proc /\ home' = home /\ faults' = faults
      /\ broker' = broker /\ spare' = spare /\ latch' = latch /\ job' = job
      /\ \/ /\ turn[s][on[t].g].future = "ok" \/ ~TransportAlive(s)
            /\ care' = [care EXCEPT ![s].closed = TRUE] /\ Probing!Goto(t, "c_erase") /\ own' = own
         \/ care' = Probing!Unowned(s) /\ Probing!Returns(t, FALSE)
  BY <1>1, SameState DEF Probing!RetryClosed, Probing!RetrySteps, Probing!worker, Answer
<1>3. /\ s \in Sessions /\ RetryFits(t, s) /\ Spoilt(turn[s]) /\ ~spare[s].closing
      /\ care[s] \in Probing!Cleanup
      /\ ProbeSession(loop[s], turn[s], proc[s], home[s], care[s], spare[s])
      /\ Workers /\ ProbeTypes /\ ProbeSessions /\ ThreadFits(t)
      /\ on[t].back \in ProbeAts
  BY <1>1, <1>2, Retrier
<1>4. /\ Retries(t, s) /\ care[s].listed /\ care[s].owner = "broker"
      /\ \A u \in ProbeThreads \ {t} : ~Retries(u, s)
      /\ on[t].g \in 1 .. Len(turn[s]) /\ turn[s][on[t].g].kind = "close"
      /\ faults' \in 0 .. ProbeMaxFaults
      /\ home' \in [Sessions -> {"none", "there", "gone"}]
      /\ care \in [Sessions -> Probing!Cleanup]
  BY <1>1, <1>2, <1>3 DEF RetryFits, Retries, ProbeTypes, Workers
<1>5. CASE care' = Probing!Unowned(s) /\ Probing!Returns(t, FALSE)
  BY <1>1, <1>2, <1>4, <1>5, RetryReturns
<1>6. CASE /\ turn[s][on[t].g].future = "ok" \/ ~TransportAlive(s)
           /\ care' = [care EXCEPT ![s].closed = TRUE] /\ Probing!Goto(t, "c_erase") /\ own' = own
  <2> DEFINE c == care[s]
  <2> DEFINE d == [c EXCEPT !.closed = TRUE]
  <2>1. proc[s].process # "alive"
    <3>1. proc[s].closing => proc[s].process \in {"told", "dead"}
      BY <1>3 DEF ProbeSession, SessionFits
    <3>2. turn[s][on[t].g].future = "ok" => Gone(proc[s])
      BY <1>3, <1>4 DEF ProbeSession, SessionFits
    <3> QED BY <3>1, <3>2, <1>6 DEF TransportAlive, ProcessAlive, Gone
  <2>2. /\ d \in Probing!Cleanup /\ d.listed = c.listed /\ d.complete = c.complete /\ d.closed
        /\ d.owner = c.owner
    <3>1. c \in Probing!Cleanup
      BY <1>3
    <3> HIDE DEF c
    <3> QED BY <3>1 DEF Probing!Cleanup
  <2>3. care' = [care EXCEPT ![s] = d]
    BY <1>6
  <2> HIDE DEF d
  <2>4. /\ care'[s] = d /\ care' \in [Sessions -> Probing!Cleanup]
        /\ \A r \in Sessions \ {s} : care'[r] = care[r]
    BY <2>2, <2>3, <1>3, <1>4
  <2>5. Tended(0) /\ Spoilt(turn'[s])
    <3>1. Handling(s) /\ Len(turn'[s]) = Len(turn[s])
      BY <1>2, <1>3, NothingHandled
    <3> QED BY <3>1, <2>1, <2>2, <2>4, <1>2, <1>3, <1>4, RetryTends
  <2>6. Steered(t) /\ at'[t] = "c_erase" /\ on'[t] = on[t] /\ own'[t] = own[t]
    <3>1. OwnMoves(t) /\ own'[t] = own[t]
      BY <1>3, <1>6, OwnMoved
    <3>2. "c_erase" \in ProbeAts
      BY DEF ProbeAts, Probing!RetrySteps
    <3> QED BY <3>1, <3>2, <1>3, <1>6, GotoSteers
  <2>7. RetryFits(t, s)'
    <3>1. \A u \in ProbeThreads \ {t} : ~Retries(u, s)'
      BY <1>4, <2>6 DEF Retries, Steered
    <3> QED BY <3>1, <2>2, <2>4, <2>5, <2>6, <1>3, <1>4 DEF RetryFits
  <2> QED BY <2>4, <2>5, <2>6, <2>7, <1>1, <1>2, <1>3, <1>4, RetryKeeps
<1> QED BY <1>2, <1>5, <1>6

LEMMA RetryEraseKeeps ==
    ASSUME ProbesInv, NEW t \in ProbeThreads, Probing!RetryErase(t)
    PROVE  ProbesInv'
<1>1. PICK s : s = on[t].s
  OBVIOUS
<1>2. /\ at[t] = "c_erase" /\ at[t] \in Probing!RetrySteps
      /\ proc' = proc /\ broker' = broker /\ spare' = spare /\ latch' = latch /\ job' = job
      /\ \/ /\ Probing!Calm /\ home' = [home EXCEPT ![s] = "gone"]
            /\ care' = [care EXCEPT ![s].cleaned = TRUE]
            /\ Probing!Stopping(s) /\ Probing!Goto(t, "c_stop") /\ own' = own
         \/ /\ Probing!Trip("home") /\ care' = Probing!Unowned(s) /\ Probing!Returns(t, FALSE)
            /\ loop' = loop /\ turn' = turn /\ home' = home
  BY <1>1 DEF Probing!RetryErase, Probing!RetrySteps
<1>3. /\ s \in Sessions /\ RetryFits(t, s) /\ Spoilt(turn[s]) /\ ~spare[s].closing
      /\ care[s] \in Probing!Cleanup
      /\ Workers /\ ProbeTypes /\ ProbeSessions /\ ThreadFits(t)
      /\ on[t].back \in ProbeAts
  BY <1>1, <1>2, Retrier
<1>4. /\ Retries(t, s) /\ care[s].listed /\ care[s].owner = "broker" /\ care[s].closed
      /\ \A u \in ProbeThreads \ {t} : ~Retries(u, s)
      /\ care \in [Sessions -> Probing!Cleanup] /\ home \in [Sessions -> {"none", "there", "gone"}]
  BY <1>1, <1>2, <1>3 DEF RetryFits, Retries, ProbeTypes, Workers
<1>5. faults' \in 0 .. ProbeMaxFaults
  BY <1>2, <1>3, ProbeFaultsCount
<1>6. CASE /\ care' = Probing!Unowned(s) /\ Probing!Returns(t, FALSE)
           /\ loop' = loop /\ turn' = turn /\ home' = home
  BY <1>1, <1>2, <1>4, <1>5, <1>6, RetryReturns
<1>7. CASE /\ home' = [home EXCEPT ![s] = "gone"] /\ care' = [care EXCEPT ![s].cleaned = TRUE]
           /\ Probing!Stopping(s) /\ Probing!Goto(t, "c_stop") /\ own' = own
  <2> DEFINE c == care[s]
  <2> DEFINE d == [c EXCEPT !.cleaned = TRUE]
  <2>1. home'[s] = "gone" /\ home' \in [Sessions -> {"none", "there", "gone"}]
        /\ \A r \in Sessions \ {s} : home'[r] = home[r]
    BY <1>3, <1>4, <1>7
  <2>2. /\ d \in Probing!Cleanup /\ d.listed = c.listed /\ d.complete = c.complete /\ d.closed = c.closed
        /\ d.owner = c.owner
    <3>1. c \in Probing!Cleanup
      BY <1>3
    <3> HIDE DEF c
    <3> QED BY <3>1 DEF Probing!Cleanup
  <2>3. care' = [care EXCEPT ![s] = d]
    BY <1>7
  <2> HIDE DEF d
  <2>4. /\ care'[s] = d /\ care' \in [Sessions -> Probing!Cleanup]
        /\ \A r \in Sessions \ {s} : care'[r] = care[r]
    BY <2>2, <2>3, <1>3, <1>4
  <2>5. Handling(s) /\ Len(turn'[s]) = Len(turn[s]) /\ loop'[s].phase # "running"
    <3>1. Stopping(s)
      BY <1>7, SameSubmissions
    <3> QED BY <3>1, <1>3, StoppingWorks
  <2>6. Tended(0) /\ Spoilt(turn'[s])
    BY <2>1, <2>2, <2>4, <2>5, <1>2, <1>3, <1>4, RetryTends
  <2>7. Steered(t) /\ at'[t] = "c_stop" /\ on'[t] = on[t] /\ own'[t] = own[t]
    <3>1. OwnMoves(t) /\ own'[t] = own[t]
      BY <1>3, <1>7, OwnMoved
    <3>2. "c_stop" \in ProbeAts
      BY DEF ProbeAts, Probing!RetrySteps
    <3> QED BY <3>1, <3>2, <1>3, <1>7, GotoSteers
  <2>8. RetryFits(t, s)'
    <3>1. \A u \in ProbeThreads \ {t} : ~Retries(u, s)'
      BY <1>4, <2>7 DEF Retries, Steered
    <3> QED BY <3>1, <2>1, <2>2, <2>4, <2>5, <2>6, <2>7, <1>3, <1>4 DEF RetryFits
  <2> QED BY <2>4, <2>6, <2>7, <2>8, <1>1, <1>2, <1>3, <1>4, <1>5, RetryKeeps
<1> QED BY <1>2, <1>6, <1>7

LEMMA RetryStopKeeps ==
    ASSUME ProbesInv, NEW t \in ProbeThreads, Probing!RetryStop(t)
    PROVE  ProbesInv'
<1>1. PICK s : s = on[t].s
  OBVIOUS
<1>2. /\ at[t] = "c_stop" /\ at[t] \in Probing!RetrySteps
      /\ Probing!Calm \/ Probing!Trip("stuck")
      /\ care' = IF Stopped(s) THEN Probing!Released(s) ELSE Probing!Unowned(s)
      /\ Probing!Returns(t, Probing!Stopped(s))
      /\ loop' = loop /\ turn' = turn /\ proc' = proc /\ home' = home
      /\ broker' = broker /\ spare' = spare /\ latch' = latch /\ job' = job
  BY <1>1, SameState DEF Probing!RetryStop, Probing!RetrySteps, Probing!Joined, Probing!Outlives
<1>3. /\ s \in Sessions /\ RetryFits(t, s) /\ Spoilt(turn[s]) /\ ~spare[s].closing
      /\ turn[s] # <<>> /\ 1 \in 1 .. Len(turn[s])
      /\ care[s] \in Probing!Cleanup
      /\ ProbeSession(loop[s], turn[s], proc[s], home[s], care[s], spare[s])
      /\ Workers /\ ProbeTypes /\ ProbeSessions /\ ThreadFits(t)
      /\ on[t].back \in ProbeAts
  BY <1>1, <1>2, Retrier
<1>4. /\ Retries(t, s) /\ care[s].listed /\ care[s].owner = "broker" /\ care[s].closed
      /\ home[s] = "gone"
      /\ \A u \in ProbeThreads \ {t} : ~Retries(u, s)
      /\ care \in [Sessions -> Probing!Cleanup] /\ home \in [Sessions -> {"none", "there", "gone"}]
  BY <1>1, <1>2, <1>3 DEF RetryFits, Retries, ProbeTypes, Workers
<1>5. faults' \in 0 .. ProbeMaxFaults
  BY <1>2, <1>3, ProbeFaultsCount
<1>6. CASE ~Stopped(s)
  <2>1. Probing!Returns(t, FALSE)
    BY <1>2, <1>6, SameState DEF Probing!Returns
  <2> QED BY <2>1, <1>1, <1>2, <1>4, <1>5, <1>6, RetryReturns
<1>7. CASE Stopped(s)
  <2> DEFINE c == care[s]
  <2> DEFINE d == [c EXCEPT !.listed = FALSE, !.complete = TRUE]
  <2>1. Probing!Returns(t, TRUE)
    BY <1>2, <1>7, SameState DEF Probing!Returns
  <2>2. /\ Steered(t) /\ at'[t] = on[t].back /\ on'[t] = on[t]
        /\ own'[t].todo = own[t].todo /\ own'[t].result = own[t].result
    BY <2>1, <1>3, ReturnsSteers
  <2>3. /\ d \in Probing!Cleanup /\ ~d.listed /\ d.complete /\ d.closed = c.closed /\ d.owner = c.owner
    <3>1. c \in Probing!Cleanup
      BY <1>3
    <3> HIDE DEF c
    <3> QED BY <3>1 DEF Probing!Cleanup
  <2>4. care' = [care EXCEPT ![s] = d]
    BY <1>2, <1>3, <1>4, <1>7 DEF Probing!Released
  <2> HIDE DEF d
  <2>5. /\ care'[s] = d /\ care' \in [Sessions -> Probing!Cleanup]
        /\ \A r \in Sessions \ {s} : care'[r] = care[r]
    BY <2>3, <2>4, <1>3, <1>4
  <2>6. proc[s].process # "alive" /\ loop[s].phase = "stopped" /\ ~Started(turn[s][1])
    <3>1. TurnFits(loop[s].phase, turn[s][1])
      BY <1>3 DEF Workers, WorkerFits
    <3> QED BY <3>1, <1>3, <1>4, <1>7 DEF ProbeSession, SessionFits, Stopped, TurnFits
  <2>7. Tended(0)
    <3>1. Handling(s) /\ Len(turn'[s]) = Len(turn[s])
      BY <1>2, <1>3, NothingHandled
    <3>2. /\ ~care'[s].listed /\ home'[s] # "there" /\ loop'[s].phase = "stopped"
          /\ ~Started(turn'[s][1]) /\ care'[s].closed = care[s].closed /\ care[s].owner # "coroutine"
      BY <2>3, <2>5, <2>6, <1>2, <1>4
    <3> QED BY <3>1, <3>2, <2>5, <2>6, <1>2, <1>3, <1>4, RetryTends
  <2> QED BY <2>2, <2>5, <2>7, <1>1, <1>2, <1>3, <1>4, <1>5, RetryKeeps
<1> QED BY <1>6, <1>7

------------------------------------------------------------------------------
(* abort.                                                                     *)

\* The turns of one session are touched, and nothing else.
LEMMA TurnTends ==
    ASSUME Workers, ProbeTypes, ProbeSessions, NEW s \in Sessions, Handling(s),
           Len(turn'[s]) = Len(turn[s]), proc' = proc, home' = home, care' = care, spare' = spare
    PROVE  Tended(0)
<1>1. turn[s] # <<>> \/ turn'[s] = <<>>
  <2>1. turn[s] \in Seq(Turn) /\ turn'[s] \in Seq(Turn)
    BY DEF Workers, Handling
  <2> QED BY <2>1, EmptySeq
<1>2. home' \in [Sessions -> {"none", "there", "gone"}] /\ care' \in [Sessions -> Probing!Cleanup]
  BY DEF Workers, ProbeTypes
<1>3. RecordsSame(s) /\ \A r \in Sessions \ {s} : RecordsSame(r)
  BY DEF RecordsSame
<1>4. /\ spare[s].closing => spare'[s].closing
      /\ spare[s].closed => spare'[s] = spare[s]
      /\ care'[s].listed => care[s].listed
      /\ care[s].listed => care'[s].listed
  OBVIOUS
<1> QED BY <1>1, <1>2, <1>3, <1>4, ThreadTends

LEMMA AbortFlagKeeps ==
    ASSUME ProbesInv, NEW t \in ProbeThreads, Probing!AbortFlag(t)
    PROVE  ProbesInv'
<1>1. /\ Workers /\ ProbeTypes /\ ProbeSessions /\ ThreadFits(t) /\ BrokerFits
      /\ broker \in Probing!Broker /\ 0 \notin Sessions
      /\ \A n \in 0 .. MaxSessions : n = 0 \/ n \in Sessions
  BY WorkerAssumption DEF ProbesInv, ProbeTypes, Sessions
<1>2. /\ at[t] = "b_flag" /\ at[t] \in Probing!AbortSteps
      /\ broker' = [broker EXCEPT !.aborted = TRUE, !.prepared = 0]
      /\ loop' = loop /\ turn' = turn /\ proc' = proc /\ home' = home /\ faults' = faults
      /\ own' = own /\ care' = care /\ spare' = spare /\ latch' = latch /\ job' = job
  BY SameSets DEF Probing!AbortFlag, Probing!AbortSteps, Probing!worker, Probing!records
<1>3. \/ broker.active # 0 /\ Probing!GotoWith(t, "b_cancel", broker.active, 0, "b_finish")
      \/ /\ broker.active = 0 /\ broker.prepared # 0
         /\ Probing!GotoWith(t, "f_claim", broker.prepared, 0, "b_closed")
      \/ /\ broker.active = 0 /\ broker.prepared = 0 /\ broker.preparing # 0
         /\ Probing!GotoWith(t, "b_cancel", broker.preparing, 0, "b_prepared")
      \/ /\ broker.active = 0 /\ broker.prepared = 0 /\ broker.preparing = 0
         /\ Probing!Goto(t, "b_inflight")
  BY SameSets DEF Probing!AbortFlag, Probing!Finish
<1>4. /\ broker.active \in 0 .. MaxSessions /\ broker.prepared \in 0 .. MaxSessions
      /\ broker.preparing \in 0 .. MaxSessions /\ 0 \in 0 .. MaxSessions
  BY <1>1, WorkerAssumption DEF Probing!Broker
<1>5. /\ broker' \in Probing!Broker /\ broker'.aborted /\ broker'.prepared = 0
      /\ broker'.preparing = broker.preparing /\ broker'.active = broker.active
  BY <1>1, <1>2, <1>4 DEF Probing!Broker
<1>6. /\ broker.active # 0 => broker.preparing = 0 /\ broker.prepared = 0
      /\ broker.prepared # 0 => broker.preparing = 0
  BY <1>1 DEF BrokerFits
<1>7. Tended(0)
  BY <1>1, <1>2, NothingTends
<1>8. OwnMoves(t) /\ own'[t] = own[t]
  BY <1>1, <1>2, OwnMoved
<1>9. /\ {"b_cancel", "f_claim", "b_inflight"} \subseteq ProbeAts
      /\ {"b_finish", "b_closed", "b_prepared"} \subseteq ProbeBacks
      /\ {"b_cancel", "b_inflight"} \subseteq Probing!AbortSteps
  BY DEF ProbeAts, ProbeBacks, Probing!AbortSteps, Probing!FinishSteps
<1> DEFINE Led ==
      /\ Steered(t) /\ at'[t] \in {"b_cancel", "f_claim", "b_inflight"}
      /\ ThreadFits(t)' /\ (at'[t] = "f_claim" => on'[t].back = "b_closed")
      /\ \A r \in Sessions : r \in {broker.prepared, broker.active} =>
              r = broker.active \/ (at'[t] = "f_claim" /\ on'[t].s = r)
<1>10. ASSUME NEW n \in Sessions, NEW back \in {"b_finish", "b_prepared"},
              Probing!GotoWith(t, "b_cancel", n, 0, back), broker.prepared = 0,
              back = "b_finish" => n = broker.active /\ broker.preparing = 0,
              back = "b_prepared" => n = broker.preparing
       PROVE  Led
  <2>1. n \in 0 .. MaxSessions /\ 0 \in Nat
    BY DEF Sessions
  <2>2. Steered(t) /\ at'[t] = "b_cancel" /\ on'[t].s = n /\ on'[t].back = back
    BY <2>1, <1>1, <1>8, <1>9, <1>10, GotoWithSteers
  <2>3. Ready(turn[n], care[n]) \/ back = "b_prepared"
    BY <1>1, <1>10 DEF BrokerFits
  <2>4. at'[t] \notin Probing!FinishSteps \cup Probing!RetrySteps
    BY <2>2 DEF Probing!FinishSteps, Probing!RetrySteps
  <2>5. Finishes(t, n)' => back = "b_finish"
    BY <2>2, <2>4 DEF Finishes, Cancels
  <2>6. ~Visits(t)' /\ (Clears(t)' => back = "b_finish") /\ (Waits(t)' => back = "b_prepared")
    BY <2>2, <2>4 DEF Visits, Clears, Waits, Cancels
  <2>7. ThreadFits(t)'
    BY <2>2, <2>3, <2>4, <2>5, <2>6, <1>2, <1>5, <1>10 DEF ThreadFits
  <2>8. \A r \in Sessions : r \in {broker.prepared, broker.active} => r = broker.active
    BY <1>1, <1>10
  <2> QED BY <2>2, <2>7, <2>8
<1>11. Led
  <2>1. CASE broker.active # 0 /\ Probing!GotoWith(t, "b_cancel", broker.active, 0, "b_finish")
    <3>1. PICK n \in Sessions : n = broker.active
      BY <2>1, <1>1, <1>4
    <3> HIDE DEF Led
    <3> QED BY <2>1, <3>1, <1>6, <1>10
  <2>2. CASE /\ broker.active = 0 /\ broker.prepared # 0
             /\ Probing!GotoWith(t, "f_claim", broker.prepared, 0, "b_closed")
    <3>1. PICK n \in Sessions : n = broker.prepared
      BY <2>2, <1>1, <1>4
    <3>2. n \in 0 .. MaxSessions /\ 0 \in Nat
      BY DEF Sessions
    <3>3. Steered(t) /\ at'[t] = "f_claim" /\ on'[t].s = n /\ on'[t].back = "b_closed"
      BY <2>2, <3>1, <3>2, <1>1, <1>8, <1>9, GotoWithSteers
    <3>4. Ready(turn[n], care[n])
      BY <3>1, <1>1 DEF BrokerFits
    <3>5. FinishFits(t, n)'
      BY <3>3, <3>4, <1>2 DEF FinishFits, Closes
    <3>6. /\ at'[t] \notin Probing!RetrySteps /\ ~Cancels(t)' /\ at'[t] # "b_sub"
          /\ ~Visits(t)' /\ ~Waits(t)'
      BY <3>3 DEF Probing!RetrySteps, Cancels, Visits, Waits
    <3>7. broker'.preparing = 0
      BY <2>2, <1>5, <1>6
    <3>8. ThreadFits(t)'
      BY <3>3, <3>4, <3>5, <3>6, <3>7, <1>2 DEF ThreadFits
    <3> QED BY <3>1, <3>3, <3>8, <2>2, <1>1
  <2>3. CASE /\ broker.active = 0 /\ broker.prepared = 0 /\ broker.preparing # 0
             /\ Probing!GotoWith(t, "b_cancel", broker.preparing, 0, "b_prepared")
    <3>1. PICK n \in Sessions : n = broker.preparing
      BY <2>3, <1>1, <1>4
    <3> HIDE DEF Led
    <3> QED BY <2>3, <3>1, <1>10
  <2>4. CASE /\ broker.active = 0 /\ broker.prepared = 0 /\ broker.preparing = 0
             /\ Probing!Goto(t, "b_inflight")
    <3>1. Steered(t) /\ at'[t] = "b_inflight" /\ on'[t] = on[t]
      BY <2>4, <1>1, <1>8, <1>9, GotoSteers
    <3>2. /\ at'[t] \notin Probing!FinishSteps \cup Probing!RetrySteps /\ ~Cancels(t)'
          /\ ~Visits(t)' /\ ~Waits(t)'
      BY <3>1 DEF Probing!FinishSteps, Probing!RetrySteps, Cancels, Visits, Waits
    <3>3. ~Finishes(t, on[t].s)'
      BY <3>1, <3>2 DEF Finishes
    <3>4. ThreadFits(t)'
      BY <2>4, <3>1, <3>2, <3>3, <1>5 DEF ThreadFits
    <3> QED BY <2>4, <3>1, <3>4, <1>1
  <2> HIDE DEF Led
  <2> QED BY <2>1, <2>2, <2>3, <2>4, <1>3
<1>12. Alone(t)
  <2>1. \A r \in Sessions : ~Closes(t, r)' /\ ~Retries(t, r)'
    BY <1>11 DEF Closes, Retries
  <2> QED BY <2>1, <1>2 DEF Alone
<1>13. Claims(t)
  BY <1>2 DEF Claims
<1>14. Goes(t)
  BY <1>2, <1>9, <1>11 DEF Goes
<1>15. Leaves(t)
  <2>1. \A r \in Sessions : r \in {broker.prepared, broker.active} =>
            r \in {broker'.prepared, broker'.active} \/ Handed(r)'
    BY <1>5, <1>11 DEF Handed
  <2>2. \A r \in Sessions : ~Closes(t, r)
    BY <1>2 DEF Closes
  <2> QED BY <2>1, <2>2, <1>2, <1>5 DEF Leaves
<1>16. Typed
  BY <1>1, <1>2 DEF Typed, ProbeTypes
<1> QED BY <1>2, <1>7, <1>11, <1>12, <1>13, <1>14, <1>15, <1>16, SharedKeeps

\* A thread that cancels a session's turn goes on with that or goes back.
LEMMA CancelKeeps ==
    ASSUME ProbesInv, NEW t \in ProbeThreads, Cancels(t), Steered(t), Tended(0), on'[t] = on[t],
           own'[t].result = own[t].result,
           care' = care, spare' = spare, broker' = broker, latch' = latch, job' = job, faults' = faults,
           at'[t] \in {"b_sub", "b_cut", on[t].back}, at'[t] = "b_sub" => own'[t].target > 0
    PROVE  ProbesInv'
<1>1. Workers /\ ProbeTypes /\ ThreadFits(t)
  BY DEF ProbesInv
<1>2. PICK s : s = on[t].s
  OBVIOUS
<1>3. s \in Sessions /\ on[t].back \in {"b_finish", "b_prepared"}
  BY <1>1, <1>2 DEF ThreadFits
<1>4. at'[t] \notin Probing!FinishSteps \cup Probing!RetrySteps
  BY <1>3 DEF Probing!FinishSteps, Probing!RetrySteps
<1>5. \A r \in Sessions : Finishes(t, r)' => Finishes(t, r)
  BY <1>3, <1>4 DEF Finishes, Cancels
<1>6. Finishes(t, s)' => Ready(turn'[s], care'[s])
  BY <1>1, <1>2, <1>3, <1>5 DEF ThreadFits, Tended, Lasts
<1>7. ~Visits(t)' /\ (Clears(t)' => Clears(t)) /\ (Waits(t)' => Waits(t))
  BY <1>3, <1>4 DEF Visits, Clears, Waits, Cancels
<1>8. ThreadFits(t)'
  BY <1>1, <1>2, <1>3, <1>4, <1>6, <1>7 DEF ThreadFits
<1>9. Goes(t)
  <2>1. at[t] \in Probing!AbortSteps /\ at'[t] \in Probing!AbortSteps
    BY <1>3 DEF Cancels, Probing!AbortSteps
  <2> QED BY <2>1 DEF Goes
<1>10. /\ at[t] \notin {"f_claim", "f_close", "f_stop", "b_flag", "idle"}
       /\ at'[t] \notin {"f_close", "f_stop", "c_close", "c_erase", "c_stop"}
  BY <1>3 DEF Cancels
<1>11. own'["stop"].result = own["stop"].result
  BY DEF Steered, ProbeThreads
<1>12. faults' \in 0 .. ProbeMaxFaults
  BY <1>1 DEF ProbeTypes
<1> QED BY <1>5, <1>8, <1>9, <1>10, <1>11, <1>12, ControlKeeps

LEMMA AbortCancelKeeps ==
    ASSUME ProbesInv, NEW t \in ProbeThreads, Probing!AbortCancel(t)
    PROVE  ProbesInv'
<1>1. PICK s : s = on[t].s
  OBVIOUS
<1>2. /\ Workers /\ ProbeTypes /\ ProbeSessions /\ ThreadFits(t) /\ at[t] = "b_cancel" /\ Cancels(t)
  BY DEF ProbesInv, Probing!AbortCancel, Cancels
<1>3. s \in Sessions /\ on[t].back \in {"b_finish", "b_prepared"} /\ loop[s] \in Worker
  BY <1>1, <1>2 DEF ThreadFits, Workers
<1>4. /\ proc' = proc /\ home' = home /\ faults' = faults /\ broker' = broker
      /\ care' = care /\ spare' = spare /\ latch' = latch /\ job' = job
      /\ \/ on[t].back = "b_prepared" /\ Probing!Goto(t, "b_prepared") /\ loop' = loop /\ turn' = turn /\ own' = own
         \/ /\ own' = [own EXCEPT ![t].target = Target(s)]
            /\ \/ Idle(s) /\ Probing!Goto(t, "b_sub") /\ Want(s)
               \/ ~Idle(s) /\ Probing!Goto(t, "b_cut") /\ CancelTarget(s, Target(s))
  BY <1>1, SameState, SameSubmissions DEF Probing!AbortCancel, Probing!records
<1>5. {"b_sub", "b_cut", "b_prepared"} \subseteq ProbeAts
  BY DEF ProbeAts, Probing!AbortSteps
<1>6. CASE on[t].back = "b_prepared" /\ Probing!Goto(t, "b_prepared") /\ loop' = loop /\ turn' = turn /\ own' = own
  <2>1. OwnMoves(t) /\ own'[t] = own[t]
    BY <1>2, <1>6, OwnMoved
  <2>2. Steered(t) /\ at'[t] = "b_prepared" /\ on'[t] = on[t]
    BY <2>1, <1>2, <1>5, <1>6, GotoSteers
  <2>3. Tended(0)
    BY <1>2, <1>4, <1>6, NothingTends
  <2> QED BY <2>1, <2>2, <2>3, <1>2, <1>4, <1>6, CancelKeeps
<1>7. PICK target \in Nat : target = Target(s) /\ target > 0
  <2>1. loop[s].submitted \in Nat /\ loop[s].active \in Nat
    BY <1>3 DEF Worker
  <2> QED BY <2>1 DEF Target, Idle
<1>8. CASE /\ own' = [own EXCEPT ![t].target = Target(s)]
           /\ \/ Idle(s) /\ Probing!Goto(t, "b_sub") /\ Want(s)
              \/ ~Idle(s) /\ Probing!Goto(t, "b_cut") /\ CancelTarget(s, Target(s))
  <2>1. own' = [own EXCEPT ![t].target = target]
    BY <1>7, <1>8
  <2>2. OwnMoves(t) /\ own'[t].target = target /\ own'[t].result = own[t].result
    BY <2>1, <1>2, OwnMoved
  <2>3. Steered(t) /\ at'[t] \in {"b_sub", "b_cut"} /\ on'[t] = on[t]
    BY <2>2, <1>2, <1>5, <1>8, GotoSteers
  <2>4. Handling(s) /\ Len(turn'[s]) = Len(turn[s])
    <3>1. CASE Want(s)
      BY <3>1, <1>2, <1>3, WantWorks
    <3>2. CASE CancelTarget(s, Target(s))
      <4>1. CancelTarget(s, target) /\ target \in Nat \ {0}
        BY <3>2, <1>7
      <4> QED BY <4>1, <1>2, <1>3, CancelWorks
    <3> QED BY <3>1, <3>2, <1>8
  <2>5. Tended(0)
    BY <2>4, <1>2, <1>3, <1>4, TurnTends
  <2> QED BY <2>2, <2>3, <2>5, <1>2, <1>4, <1>7, CancelKeeps
<1> QED BY <1>4, <1>6, <1>8

LEMMA CancelNextKeeps ==
    ASSUME ProbesInv, NEW t \in ProbeThreads, Probing!CancelNext(t)
    PROVE  ProbesInv'
<1>1. PICK s : s = on[t].s
  OBVIOUS
<1>2. PICK target : target = own[t].target
  OBVIOUS
<1>3. /\ Workers /\ ProbeTypes /\ ProbeSessions /\ ThreadFits(t) /\ at[t] = "b_sub" /\ Cancels(t)
      /\ proc' = proc /\ home' = home /\ faults' = faults /\ own' = own /\ broker' = broker
      /\ care' = care /\ spare' = spare /\ latch' = latch /\ job' = job
      /\ Probing!Goto(t, "b_cut") /\ CancelTarget(s, target)
  BY <1>1, <1>2, SameSubmissions DEF ProbesInv, Probing!CancelNext, Cancels, Probing!records
<1>4. s \in Sessions /\ target \in Nat \ {0}
  <2>1. own[t] \in Probing!Own /\ own[t].target > 0 /\ on[t].s \in Sessions
    BY <1>3 DEF ThreadFits, ProbeTypes
  <2> QED BY <2>1, <1>1, <1>2 DEF Probing!Own
<1>5. Handling(s) /\ Len(turn'[s]) = Len(turn[s])
  BY <1>3, <1>4, CancelWorks
<1>6. Tended(0)
  BY <1>3, <1>4, <1>5, TurnTends
<1>7. OwnMoves(t) /\ own'[t] = own[t]
  BY <1>3, OwnMoved
<1>8. "b_cut" \in ProbeAts
  BY DEF ProbeAts, Probing!AbortSteps
<1>9. Steered(t) /\ at'[t] = "b_cut" /\ on'[t] = on[t]
  BY <1>3, <1>7, <1>8, GotoSteers
<1> QED BY <1>3, <1>6, <1>7, <1>9, CancelKeeps

LEMMA CancelEndsKeeps ==
    ASSUME ProbesInv, NEW t \in ProbeThreads, Probing!CancelEnds(t)
    PROVE  ProbesInv'
<1>1. PICK s : s = on[t].s
  OBVIOUS
<1> DEFINE over == loop[s].completed >= own[t].target
<1>2. /\ Workers /\ ProbeTypes /\ ProbeSessions /\ ThreadFits(t) /\ Cancels(t)
      /\ loop' = loop /\ turn' = turn
      /\ proc' = proc /\ home' = home /\ faults' = faults /\ broker' = broker
      /\ care' = care /\ spare' = spare /\ latch' = latch /\ job' = job
      /\ Probing!Goto(t, on[t].back) /\ own' = [own EXCEPT ![t].ack = over]
  BY <1>1 DEF ProbesInv, Probing!CancelEnds, Cancels, Probing!records, Probing!worker
<1>3. over \in BOOLEAN
  OBVIOUS
<1> HIDE DEF over
<1>4. OwnMoves(t) /\ own'[t].result = own[t].result
  BY <1>2, <1>3, OwnMoved
<1>5. on[t].back \in {"b_finish", "b_prepared"} /\ on[t].back \in ProbeAts
  BY <1>2 DEF ThreadFits, ProbeAts, Probing!AbortSteps
<1>6. Steered(t) /\ at'[t] = on[t].back /\ on'[t] = on[t]
  BY <1>2, <1>4, <1>5, GotoSteers
<1>7. Tended(0)
  BY <1>2, NothingTends
<1> QED BY <1>2, <1>4, <1>5, <1>6, <1>7, CancelKeeps

\* What a thread that aborts starts from.
LEMMA Aborter ==
    ASSUME ProbesInv, NEW t \in ProbeThreads, at[t] \in Probing!AbortSteps
    PROVE  /\ Workers /\ ProbeTypes /\ ProbeSessions /\ ThreadFits(t) /\ SessionsHeld /\ ProbeFits
           /\ own[t] \in Probing!Own /\ faults \in 0 .. ProbeMaxFaults
           /\ t = "stop" => at["stop"] # "idle"
           /\ {"b_inflight", "b_each", "b_closed", "p_disable", "over", "f_claim", "c_claim"} \subseteq ProbeAts
           /\ {"b_closed", "b_each"} \subseteq ProbeBacks
<1>1. /\ {"b_inflight", "b_each", "b_closed", "p_disable", "over", "f_claim", "c_claim"} \subseteq ProbeAts
      /\ {"b_closed", "b_each"} \subseteq ProbeBacks /\ "idle" \notin Probing!AbortSteps
  BY DEF ProbeAts, ProbeBacks, Probing!AbortSteps, Probing!FinishSteps, Probing!RetrySteps, Probing!ProbeSteps
<1> QED BY <1>1 DEF ProbesInv, ProbeTypes

\* The abort ends with its answer.
LEMMA AbortEndsKeeps ==
    ASSUME ProbesInv, NEW t \in ProbeThreads, at[t] \in Probing!AbortSteps, at[t] # "b_flag",
           NEW yes \in BOOLEAN, Probing!AbortEnds(t, yes),
           loop' = loop, turn' = turn, proc' = proc, home' = home, faults' = faults, broker' = broker,
           care' = care, spare' = spare, latch' = latch, job' = job,
           yes => broker.preparing = 0 /\ \A r \in Sessions : Safe(r)
    PROVE  ProbesInv'
<1>1. /\ Workers /\ ProbeTypes /\ ProbeSessions /\ ThreadFits(t)
      /\ t = "stop" => at["stop"] # "idle"
      /\ {"p_disable", "over"} \subseteq ProbeAts
  BY Aborter
<1> DEFINE answer == IF yes THEN "yes" ELSE "no"
<1> DEFINE end == IF t = "probe" THEN "p_disable" ELSE "over"
<1>2. /\ at' = [at EXCEPT ![t] = end] /\ on' = on /\ own' = [own EXCEPT ![t].result = answer]
      /\ answer \in {"yes", "no"} /\ (answer = "yes" <=> yes)
  BY DEF Probing!AbortEnds
<1>3. end \in ProbeAts /\ end \in {"p_disable", "over"}
  BY <1>1
<1> HIDE DEF answer
<1>4. OwnMoves(t) /\ own'[t].result = answer
  BY <1>1, <1>2, OwnMoved
<1>5. Probing!Goto(t, end)
  BY <1>2 DEF Probing!Goto
<1>6. Steered(t) /\ at'[t] = end /\ on'[t] = on[t]
  <2> HIDE DEF end
  <2> QED BY <1>1, <1>3, <1>4, <1>5, GotoSteers
<1>7. Tended(0)
  BY <1>1, NothingTends
<1>8. /\ at'[t] \notin Probing!FinishSteps \cup Probing!RetrySteps \cup Probing!AbortSteps
      /\ \A r \in Sessions : ~Finishes(t, r)'
  BY <1>3, <1>6 DEF Probing!FinishSteps, Probing!RetrySteps, Probing!AbortSteps, Finishes, Cancels
<1>9. ThreadFits(t)'
  BY <1>3, <1>6, <1>8 DEF ThreadFits, Finishes, Cancels, Visits, Clears, Waits
<1>10. Goes(t)
  BY <1>6 DEF Goes
<1>11. at[t] \notin {"f_claim", "f_close", "f_stop"} /\ at'[t] \notin {"f_close", "f_stop", "c_close", "c_erase", "c_stop"}
  BY <1>3, <1>6 DEF Probing!AbortSteps
<1>12. Acknowledged' \/ (own'["stop"].result = "yes" => own["stop"].result = "yes")
  <2>1. CASE t # "stop"
    <3>1. "stop" \in ProbeThreads \ {t}
      BY <2>1 DEF ProbeThreads
    <3>2. own'["stop"] = own["stop"]
      BY <3>1, <1>4 DEF OwnMoves
    <3> QED BY <3>2
  <2>2. CASE t = "stop" /\ ~yes
    BY <2>2, <1>2, <1>4
  <2>3. CASE t = "stop" /\ yes
    <3>1. broker.aborted
      BY <2>3, <1>1 DEF ProbesInv, StopFits
    <3>2. Claims(t)
      BY <1>11 DEF Claims
    <3>3. \A r \in Sessions : Safe(r)'
      <4>1. TAKE r \in Sessions
      <4>2. Safe(r) /\ (Handed(r) => Handed(r)')
        BY <2>3, <3>2, <1>6, <1>7, HeldLasts
      <4> QED BY <4>2 DEF Safe
    <3> QED BY <2>3, <3>1, <3>3 DEF Acknowledged
  <2> QED BY <2>1, <2>2, <2>3
<1>13. faults' \in 0 .. ProbeMaxFaults
  BY <1>1 DEF ProbeTypes
<1> QED BY <1>1, <1>6, <1>7, <1>8, <1>9, <1>10, <1>11, <1>12, <1>13, ControlKeeps

\* It goes on to a step that finishes nothing.
LEMMA AbortGoesOn ==
    ASSUME ProbesInv, NEW t \in ProbeThreads, at[t] \in Probing!AbortSteps, at[t] # "b_flag",
           Steered(t), Tended(0), own'[t].result = own[t].result,
           care' = care, spare' = spare, broker' = broker, latch' = latch, job' = job, faults' = faults,
           \/ at'[t] \in {"b_inflight", "b_each"}
           \/ at'[t] = "f_claim" /\ on'[t].back = "b_closed" /\ on'[t].s = on[t].s /\ at[t] = "b_finish"
           \/ at'[t] = "c_claim" /\ on'[t].back = "b_each",
           ThreadFits(t)'
    PROVE  ProbesInv'
<1>1. ProbeTypes /\ (t = "stop" => at["stop"] # "idle")
  BY Aborter
<1>2. Goes(t)
  BY DEF Goes, Probing!AbortSteps
<1>3. \A r \in Sessions : Finishes(t, r)' => Finishes(t, r)
  BY DEF Finishes, Cancels, Probing!FinishSteps
<1>4. at[t] \notin {"f_claim", "f_close", "f_stop"} /\ at'[t] \notin {"f_close", "f_stop", "c_close", "c_erase", "c_stop"}
  BY DEF Probing!AbortSteps
<1>5. own'["stop"].result = own["stop"].result
  BY DEF Steered, ProbeThreads
<1>6. faults' \in 0 .. ProbeMaxFaults
  BY <1>1 DEF ProbeTypes
<1> QED BY <1>1, <1>2, <1>3, <1>4, <1>5, <1>6, ControlKeeps

\* Such a step asks nothing of its thread but what it has to do.
LEMMA AbortFits ==
    ASSUME NEW t \in ProbeThreads,
           \/ at'[t] = "b_inflight" /\ broker'.preparing = 0
           \/ at'[t] = "b_each" /\ \A r \in own'[t].todo : Spoilt(turn'[r])
           \/ /\ at'[t] = "f_claim" /\ on'[t].back = "b_closed" /\ broker'.preparing = 0
              /\ on'[t].s \in Sessions /\ Ready(turn'[on'[t].s], care'[on'[t].s])
           \/ /\ at'[t] = "c_claim" /\ on'[t].back = "b_each"
              /\ on'[t].s \in Sessions /\ Spoilt(turn'[on'[t].s])
              /\ \A r \in own'[t].todo : Spoilt(turn'[r])
    PROVE  ThreadFits(t)'
<1>1. at'[t] \in {"b_inflight", "b_each"} => at'[t] \notin Probing!FinishSteps \cup Probing!RetrySteps
  BY DEF Probing!FinishSteps, Probing!RetrySteps
<1>2. at'[t] = "f_claim" => at'[t] \notin Probing!RetrySteps
  BY DEF Probing!RetrySteps
<1>3. at'[t] = "c_claim" => at'[t] \notin Probing!FinishSteps
  BY DEF Probing!FinishSteps
<1> QED BY <1>1, <1>2, <1>3 DEF ThreadFits, FinishFits, RetryFits, Closes, Retries, Finishes, Cancels,
       Visits, Clears, Waits

LEMMA AbortFinishKeeps ==
    ASSUME ProbesInv, NEW t \in ProbeThreads, Probing!AbortFinish(t)
    PROVE  ProbesInv'
<1>1. /\ at[t] = "b_finish" /\ at[t] \in Probing!AbortSteps
      /\ loop' = loop /\ turn' = turn /\ proc' = proc /\ home' = home /\ faults' = faults
      /\ broker' = broker /\ care' = care /\ spare' = spare /\ latch' = latch /\ job' = job
      /\ \/ Probing!GotoWith(t, "f_claim", on[t].s, 0, "b_closed") /\ own' = own
         \/ Probing!AbortEnds(t, FALSE)
  BY DEF Probing!AbortFinish, Probing!AbortSteps, Probing!worker, Probing!records, Probing!Finish
<1>2. /\ Workers /\ ProbeTypes /\ ProbeSessions /\ ThreadFits(t)
      /\ "f_claim" \in ProbeAts /\ "b_closed" \in ProbeBacks
  BY <1>1, Aborter
<1>3. CASE Probing!AbortEnds(t, FALSE)
  BY <1>1, <1>3, AbortEndsKeeps
<1>4. CASE Probing!GotoWith(t, "f_claim", on[t].s, 0, "b_closed") /\ own' = own
  <2>1. PICK s : s = on[t].s
    OBVIOUS
  <2>2. s \in Sessions /\ Ready(turn[s], care[s]) /\ broker.preparing = 0
    BY <2>1, <1>1, <1>2 DEF ThreadFits, Finishes, Clears
  <2>3. s \in 0 .. MaxSessions /\ 0 \in Nat
    BY <2>2 DEF Sessions
  <2>4. OwnMoves(t) /\ own'[t] = own[t]
    BY <1>2, <1>4, OwnMoved
  <2>5. Steered(t) /\ at'[t] = "f_claim" /\ on'[t].s = s /\ on'[t].back = "b_closed"
    BY <2>1, <2>3, <2>4, <1>2, <1>4, GotoWithSteers
  <2>6. Tended(0)
    BY <1>1, <1>2, NothingTends
  <2>7. ThreadFits(t)'
    BY <2>2, <2>5, <1>1, AbortFits
  <2> QED BY <2>1, <2>4, <2>5, <2>6, <2>7, <1>1, AbortGoesOn
<1> QED BY <1>1, <1>3, <1>4

LEMMA AbortClosedKeeps ==
    ASSUME ProbesInv, NEW t \in ProbeThreads, Probing!AbortClosed(t)
    PROVE  ProbesInv'
<1>1. /\ at[t] = "b_closed" /\ at[t] \in Probing!AbortSteps
      /\ loop' = loop /\ turn' = turn /\ proc' = proc /\ home' = home /\ faults' = faults
      /\ broker' = broker /\ care' = care /\ spare' = spare /\ latch' = latch /\ job' = job
      /\ Probing!Goto(t, "b_inflight") /\ own' = [own EXCEPT ![t].ack = own[t].fine]
  BY DEF Probing!AbortClosed, Probing!AbortSteps, Probing!worker, Probing!records
<1>2. /\ Workers /\ ProbeTypes /\ ProbeSessions /\ ThreadFits(t) /\ own[t] \in Probing!Own
      /\ "b_inflight" \in ProbeAts
  BY <1>1, Aborter
<1>3. own[t].fine \in BOOLEAN
  BY <1>2 DEF Probing!Own
<1>4. OwnMoves(t) /\ own'[t].result = own[t].result
  BY <1>1, <1>2, <1>3, OwnMoved
<1>5. Steered(t) /\ at'[t] = "b_inflight"
  BY <1>1, <1>2, <1>4, GotoSteers
<1>6. Tended(0)
  BY <1>1, <1>2, NothingTends
<1>7. ThreadFits(t)'
  <2>1. broker.preparing = 0
    BY <1>1, <1>2 DEF ThreadFits, Clears
  <2> QED BY <2>1, <1>1, <1>5, AbortFits
<1> QED BY <1>1, <1>4, <1>5, <1>6, <1>7, AbortGoesOn

LEMMA AbortPreparedKeeps ==
    ASSUME ProbesInv, NEW t \in ProbeThreads, Probing!AbortPrepared(t)
    PROVE  ProbesInv'
<1>1. /\ at[t] = "b_prepared" /\ at[t] \in Probing!AbortSteps
      /\ loop' = loop /\ turn' = turn /\ proc' = proc /\ home' = home /\ faults' = faults
      /\ broker' = broker /\ care' = care /\ spare' = spare /\ latch' = latch /\ job' = job
      /\ \/ broker.preparing # on[t].s /\ Probing!Goto(t, "b_inflight") /\ own' = own
         \/ Probing!AbortEnds(t, FALSE)
  BY DEF Probing!AbortPrepared, Probing!AbortSteps, Probing!worker, Probing!records
<1>2. /\ Workers /\ ProbeTypes /\ ProbeSessions /\ ThreadFits(t) /\ "b_inflight" \in ProbeAts
  BY <1>1, Aborter
<1>3. CASE Probing!AbortEnds(t, FALSE)
  BY <1>1, <1>3, AbortEndsKeeps
<1>4. CASE broker.preparing # on[t].s /\ Probing!Goto(t, "b_inflight") /\ own' = own
  <2>1. OwnMoves(t) /\ own'[t] = own[t]
    BY <1>2, <1>4, OwnMoved
  <2>2. Steered(t) /\ at'[t] = "b_inflight"
    BY <1>2, <1>4, <2>1, GotoSteers
  <2>3. Tended(0)
    BY <1>1, <1>2, NothingTends
  <2>4. broker.preparing = 0
    BY <1>1, <1>2, <1>4 DEF ThreadFits, Waits
  <2>5. ThreadFits(t)'
    BY <2>2, <2>4, <1>1, AbortFits
  <2> QED BY <2>1, <2>2, <2>3, <2>5, <1>1, AbortGoesOn
<1> QED BY <1>1, <1>3, <1>4

\* Once nothing is being prepared, what is in flight is spoilt.
LEMMA InflightSpoilt ==
    ASSUME ProbeSessions, SessionsHeld, ProbeFits, broker.preparing = 0, NEW r \in Sessions, care[r].listed
    PROVE  Spoilt(turn[r])
<1>1. turn[r] # <<>>
  BY DEF ProbeSessions, ProbeSession, SessionFits
<1>2. at["probe"] # "p_wait"
  BY WorkerAssumption DEF ProbeFits, Preparing, Sessions
<1>3. ~Waited(turn[r], care[r])
  BY <1>2 DEF SessionsHeld
<1> QED BY <1>1, <1>3 DEF Waited, Idling, Spoilt

LEMMA AbortInflightKeeps ==
    ASSUME ProbesInv, NEW t \in ProbeThreads, Probing!AbortInflight(t)
    PROVE  ProbesInv'
<1>1. /\ at[t] = "b_inflight" /\ at[t] \in Probing!AbortSteps
      /\ loop' = loop /\ turn' = turn /\ proc' = proc /\ home' = home /\ faults' = faults
      /\ broker' = broker /\ care' = care /\ spare' = spare /\ latch' = latch /\ job' = job
      /\ Probing!Goto(t, "b_each")
      /\ own' = [own EXCEPT ![t].todo = Probing!Inflight, ![t].all = TRUE]
  BY DEF Probing!AbortInflight, Probing!AbortSteps, Probing!worker, Probing!records
<1>2. /\ Workers /\ ProbeTypes /\ ProbeSessions /\ ThreadFits(t) /\ SessionsHeld /\ ProbeFits
      /\ "b_each" \in ProbeAts
  BY <1>1, Aborter
<1>3. PICK todo : todo = Probing!Inflight
  OBVIOUS
<1>4. todo \in SUBSET Sessions /\ \A r \in todo : care[r].listed
  BY <1>3, SameSets DEF Probing!Inflight
<1>5. OwnMoves(t) /\ own'[t].todo = todo /\ own'[t].result = own[t].result
  BY <1>1, <1>2, <1>3, <1>4, OwnMoved
<1>6. Steered(t) /\ at'[t] = "b_each"
  BY <1>1, <1>2, <1>5, GotoSteers
<1>7. Tended(0)
  BY <1>1, <1>2, NothingTends
<1>8. ThreadFits(t)'
  <2>1. broker.preparing = 0
    BY <1>1, <1>2 DEF ThreadFits, Clears
  <2>2. \A r \in todo : Spoilt(turn[r])
    BY <2>1, <1>2, <1>4, InflightSpoilt
  <2> QED BY <2>2, <1>1, <1>5, <1>6, AbortFits
<1> QED BY <1>1, <1>5, <1>6, <1>7, <1>8, AbortGoesOn

LEMMA AbortEachKeeps ==
    ASSUME ProbesInv, NEW t \in ProbeThreads, Probing!AbortEach(t)
    PROVE  ProbesInv'
<1>1. PICK s \in own[t].todo : /\ own' = [own EXCEPT ![t].todo = @ \ {s}]
                               /\ Probing!GotoWith(t, "c_claim", s, 0, "b_each")
  BY DEF Probing!AbortEach, Probing!Retry
<1>2. /\ at[t] = "b_each" /\ at[t] \in Probing!AbortSteps
      /\ loop' = loop /\ turn' = turn /\ proc' = proc /\ home' = home /\ faults' = faults
      /\ broker' = broker /\ care' = care /\ spare' = spare /\ latch' = latch /\ job' = job
  BY DEF Probing!AbortEach, Probing!AbortSteps, Probing!worker, Probing!records
<1>3. /\ Workers /\ ProbeTypes /\ ProbeSessions /\ ThreadFits(t) /\ own[t] \in Probing!Own
      /\ "c_claim" \in ProbeAts /\ "b_each" \in ProbeBacks
  BY <1>2, Aborter
<1>4. PICK todo \in SUBSET Sessions : todo = own[t].todo
  BY <1>3, SameSets DEF Probing!Own
<1>5. s \in Sessions /\ s \in 0 .. MaxSessions /\ 0 \in Nat /\ \A r \in todo : Spoilt(turn[r])
  BY <1>1, <1>2, <1>3, <1>4 DEF Sessions, ThreadFits, Visits
<1>6. PICK left \in SUBSET Sessions : left = todo \ {s}
  OBVIOUS
<1>7. own' = [own EXCEPT ![t].todo = left]
  BY <1>1, <1>4, <1>6
<1>8. OwnMoves(t) /\ own'[t].todo = left /\ own'[t].result = own[t].result
  BY <1>3, <1>7, OwnMoved
<1>9. Steered(t) /\ at'[t] = "c_claim" /\ on'[t].s = s /\ on'[t].back = "b_each"
  BY <1>1, <1>3, <1>5, <1>8, GotoWithSteers
<1>10. Tended(0)
  BY <1>2, <1>3, NothingTends
<1>11. ThreadFits(t)'
  BY <1>1, <1>2, <1>4, <1>5, <1>6, <1>8, <1>9, AbortFits
<1> QED BY <1>2, <1>8, <1>9, <1>10, <1>11, AbortGoesOn

LEMMA AbortJudgeKeeps ==
    ASSUME ProbesInv, NEW t \in ProbeThreads, Probing!AbortJudge(t)
    PROVE  ProbesInv'
<1> DEFINE yes == own[t].ack /\ own[t].all /\ Probing!AllStopped
<1>1. /\ at[t] = "b_each" /\ at[t] \in Probing!AbortSteps
      /\ loop' = loop /\ turn' = turn /\ proc' = proc /\ home' = home /\ faults' = faults
      /\ broker' = broker /\ care' = care /\ spare' = spare /\ latch' = latch /\ job' = job
      /\ Probing!AbortEnds(t, yes)
  BY DEF Probing!AbortJudge, Probing!AbortSteps, Probing!worker, Probing!records
<1>2. SessionsHeld
  BY <1>1, Aborter
<1>3. yes => broker.preparing = 0 /\ \A r \in Sessions : Safe(r)
  <2>1. SUFFICES ASSUME Probing!AllStopped
                 PROVE  broker.preparing = 0 /\ \A r \in Sessions : Safe(r)
    OBVIOUS
  <2>2. /\ broker.preparing = 0 /\ broker.prepared = 0 /\ broker.active = 0
        /\ \A r \in Sessions : ~care[r].listed
    BY <2>1, SameSets DEF Probing!AllStopped, Probing!Inflight
  <2>3. \A r \in Sessions : r # 0
    BY WorkerAssumption DEF Sessions
  <2> QED BY <2>2, <2>3, <1>2 DEF SessionsHeld, Held
<1>4. yes \in BOOLEAN
  OBVIOUS
<1> HIDE DEF yes
<1>5. PICK b \in BOOLEAN : b = yes
  BY <1>4
<1> QED BY <1>1, <1>3, <1>5, AbortEndsKeeps

LEMMA AbortStepKeeps ==
    ASSUME ProbesInv, NEW t \in ProbeThreads, Probing!AbortStep(t)
    PROVE  ProbesInv'
BY AbortFlagKeeps, AbortCancelKeeps, CancelNextKeeps, CancelEndsKeeps, AbortFinishKeeps, AbortClosedKeeps,
   AbortPreparedKeeps, AbortInflightKeeps, AbortEachKeeps, AbortJudgeKeeps DEF Probing!AbortStep

------------------------------------------------------------------------------
(* The deadlines. *)

LEMMA DeadlinePassesKeeps ==
    ASSUME ProbesInv, NEW t \in ProbeThreads, Probing!DeadlinePasses(t)
    PROVE  ProbesInv'
<1>1. /\ at[t] \in Probing!AbortSteps \cup Probing!RetrySteps \cup {"p_wait"}
      /\ loop' = loop /\ turn' = turn /\ proc' = proc /\ home' = home /\ at' = at /\ on' = on
      /\ broker' = broker /\ care' = care /\ spare' = spare /\ latch' = latch /\ job' = job
      /\ own' = [own EXCEPT ![t].late = TRUE] /\ Probing!Trip("late")
  BY DEF Probing!DeadlinePasses, Probing!records
<1>2. Workers /\ ProbeTypes /\ ProbeSessions /\ ThreadFits(t)
  BY DEF ProbesInv
<1>3. /\ OwnMoves(t) /\ own'[t].fine = own[t].fine /\ own'[t].todo = own[t].todo
      /\ own'[t].result = own[t].result /\ own'[t].target = own[t].target
  BY <1>1, <1>2, OwnMoved
<1>4. Steered(t)
  BY <1>1, <1>2, <1>3 DEF Steered, OwnMoves, ProbeTypes
<1>5. Tended(0)
  BY <1>1, <1>2, NothingTends
<1>6. ThreadFits(t)'
  BY <1>1, <1>2, <1>3, <1>4, <1>5, StandsFit
<1>7. Goes(t)
  BY <1>1, <1>3 DEF Goes
<1>8. faults' \in 0 .. ProbeMaxFaults
  BY <1>1, <1>2, ProbeFaultsCount
<1>9. t = "stop" => at["stop"] # "idle"
  BY <1>1 DEF Probing!AbortSteps, Probing!RetrySteps
<1>10. own'["stop"].result = own["stop"].result
  BY <1>3, <1>4 DEF Steered, ProbeThreads
<1> QED BY <1>1, <1>4, <1>5, <1>6, <1>7, <1>8, <1>9, <1>10, ControlKeeps

LEMMA TurnDeadlineKeeps ==
    ASSUME ProbesInv, NEW t \in ProbeThreads, Probing!TurnDeadline(t)
    PROVE  ProbesInv'
<1>1. PICK s, g : s = on[t].s /\ g = on[t].g
  OBVIOUS
<1>2. /\ at[t] \in {"f_close", "p_wait", "p_asked", "c_close"} /\ GiveUp(s, g)
      /\ proc' = proc /\ home' = home /\ at' = at /\ on' = on /\ own' = own
      /\ broker' = broker /\ care' = care /\ spare' = spare /\ latch' = latch /\ job' = job
      /\ (\E what : Probing!Trip(what)) \/ Probing!Calm
  BY <1>1, SameSubmissions DEF Probing!TurnDeadline, Probing!Waiting, Probing!threads, Probing!records
<1>3. Workers /\ ProbeTypes /\ ProbeSessions /\ ThreadFits(t) /\ ProbeFits /\ StopFits
  BY DEF ProbesInv
<1>4. s \in Sessions /\ g \in 1 .. Len(turn[s])
  <2>1. CASE at[t] = "f_close"
    BY <2>1, <1>1, <1>3 DEF ThreadFits, FinishFits, Probing!FinishSteps
  <2>2. CASE at[t] = "c_close"
    BY <2>2, <1>1, <1>3 DEF ThreadFits, RetryFits, Probing!RetrySteps
  <2>3. CASE at[t] \in {"p_wait", "p_asked"}
    <3>1. t = "probe"
      BY <2>3, <1>3 DEF ProbeThreads, StopFits, Probing!ProbeSteps
    <3>2. CASE at[t] = "p_asked"
      BY <3>1, <3>2, <1>1, <1>3 DEF ProbeFits
    <3>3. CASE at[t] = "p_wait"
      <4>1. s \in Sessions /\ g = 1 /\ turn[s] # <<>>
        BY <3>1, <3>3, <1>1, <1>3 DEF ProbeFits, Preparing, Prepared
      <4>2. turn[s] \in Seq(Turn)
        BY <4>1, <1>3 DEF Workers
      <4> QED BY <4>1, <4>2, EmptySeq
    <3> QED BY <2>3, <3>2, <3>3
  <2> QED BY <2>1, <2>2, <2>3, <1>2
<1>5. Handling(s) /\ Len(turn'[s]) = Len(turn[s])
  BY <1>2, <1>3, <1>4, GiveUpWorks
<1>6. Tended(0)
  BY <1>2, <1>3, <1>4, <1>5, TurnTends
<1>7. Steered(t)
  BY <1>2, <1>3 DEF Steered, ProbeTypes
<1>8. ThreadFits(t)'
  BY <1>2, <1>3, <1>6, <1>7, StandsFit
<1>9. Goes(t)
  BY <1>2 DEF Goes
<1>10. faults' \in 0 .. ProbeMaxFaults
  BY <1>2, <1>3, ProbeFaultsCount
<1> QED BY <1>2, <1>6, <1>7, <1>8, <1>9, <1>10, ControlKeeps

------------------------------------------------------------------------------
(* ProbeRunner's run.                                                         *)

\* Within its own steps the thread that runs the probes asks nothing of the others.
LEMMA ProbeStepFits ==
    ASSUME NEW t \in ProbeThreads, at'[t] \in Probing!ProbeSteps \cup {"b_flag", "idle"}
    PROVE  ThreadFits(t)' /\ \A r \in Sessions : ~Finishes(t, r)' /\ ~Closes(t, r)' /\ ~Retries(t, r)'
<1>1. /\ at'[t] \notin Probing!FinishSteps \cup Probing!RetrySteps
      /\ at'[t] \notin {"b_cancel", "b_sub", "b_cut", "b_finish", "b_each", "b_closed", "b_inflight", "b_prepared"}
      /\ at'[t] \notin {"f_close", "f_stop", "c_close", "c_erase", "c_stop"}
  BY DEF Probing!ProbeSteps, Probing!FinishSteps, Probing!RetrySteps
<1>2. ~Cancels(t)' /\ ~Visits(t)' /\ ~Clears(t)' /\ ~Waits(t)'
  BY <1>1 DEF Cancels, Visits, Clears, Waits
<1> QED BY <1>1, <1>2 DEF ThreadFits, Finishes, Closes, Retries

\* What such a step has to keep, when it works on the session x.
ProbeHolds(x) ==
    \A r \in Sessions :
        /\ at["probe"] = "p_wait" /\ on["probe"].s = r /\ Waited(turn'[r], care'[r])
              => at'["probe"] = "p_wait" /\ on'["probe"].s = r
        /\ r \in {broker.preparing, broker.prepared, broker.active}
              => r \in {broker'.preparing, broker'.prepared, broker'.active} \/ Held(r)'
        /\ r = x => /\ Waited(turn'[r], care'[r]) => at'["probe"] = "p_wait" /\ on'["probe"].s = r
                    /\ Held(r)' \/ r \in {broker'.preparing, broker'.prepared, broker'.active}

LEMMA ProbeKeeps ==
    ASSUME ProbesInv, NEW x, Tended(x), Steered("probe"), at["probe"] \in Probing!ProbeSteps,
           ~Closes("probe", 0)', \A r \in Sessions : ~Closes("probe", r)' /\ ~Retries("probe", r)',
           \A r \in Sessions : Retries("stop", r) => care'[r] = care[r],
           spare' = spare, care' \in [Sessions -> Probing!Cleanup], faults' \in 0 .. ProbeMaxFaults,
           latch' \in [memory : BOOLEAN, disk : BOOLEAN],
           job' \in [left : 0 .. Jobs, answer : {"none", "output", "raise"}, outcome : Probing!Outcomes,
                     met : BOOLEAN],
           broker' \in Probing!Broker, broker'.aborted = broker.aborted,
           broker'.preparing \in {0, broker.preparing} \/ ~broker.aborted,
           x \in Sessions /\ broker.aborted => broker.preparing = x,
           ThreadFits("probe")', ProbeFits', BrokerFits', ProbeHolds(x)
    PROVE  ProbesInv'
<1>1. /\ Workers /\ ProbeTypes /\ ProbeFits /\ StopFits /\ SessionsHeld /\ Acknowledged
      /\ ThreadFits("stop") /\ "stop" \in ProbeThreads /\ "probe" \in ProbeThreads /\ "stop" # "probe"
      /\ \A u \in ProbeThreads : u = "probe" \/ u = "stop"
  BY DEF ProbesInv, ProbeThreads
<1>2. ProbeTypes'
  BY <1>1 DEF ProbeTypes, Steered
<1>3. /\ at["probe"] \notin {"f_claim", "f_close", "f_stop"}
      /\ at'["stop"] = at["stop"] /\ on'["stop"] = on["stop"] /\ own'["stop"] = own["stop"]
  BY <1>1 DEF Steered, Probing!ProbeSteps
<1>4. Alone("probe")
  BY <1>1 DEF Alone
<1>5. Claims("probe")
  BY <1>3 DEF Claims
<1>6. ThreadFits("stop")'
  <2>1. broker'.preparing \in {0, broker.preparing} \/ at["stop"] \in {"idle", "b_flag"}
    BY <1>1 DEF StopFits
  <2> QED BY <2>1, <1>1, <1>4, Bystander
<1>7. StopFits'
  BY <1>1, <1>3 DEF StopFits, Helping
<1>8. SessionsHeld'
  <2>1. \A r \in Sessions : ~Closes("probe", r)
    BY <1>3 DEF Closes
  <2> QED BY <2>1, <1>1, <1>5, SessionsStayHeld DEF ProbeHolds
<1>9. Acknowledged'
  BY <1>1, <1>3, <1>5, AcknowledgedStays
<1>10. \A u \in ProbeThreads : ThreadFits(u)'
  BY <1>1, <1>6
<1>11. Workers' /\ ProbeSessions'
  BY DEF Tended
<1> QED BY <1>2, <1>7, <1>8, <1>9, <1>10, <1>11 DEF ProbesInv

\* A step that leads it on while the broker's fields stay.
LEMMA ProbeGoesOn ==
    ASSUME ProbesInv, Tended(0), Steered("probe"), at["probe"] \in Probing!ProbeSteps,
           at'["probe"] \in Probing!ProbeSteps \cup {"b_flag"},
           care' = care, spare' = spare, broker' = broker, faults' \in 0 .. ProbeMaxFaults,
           latch' \in [memory : BOOLEAN, disk : BOOLEAN],
           job' \in [left : 0 .. Jobs, answer : {"none", "output", "raise"}, outcome : Probing!Outcomes,
                     met : BOOLEAN],
           at["probe"] \in {"p_validate", "p_send"} => at'["probe"] \in {"p_validate", "p_send", "b_flag"},
           at["probe"] \in {"p_ask", "p_asked"} =>
               at'["probe"] \in {"p_ask", "p_asked"} /\ on'["probe"].s = on["probe"].s,
           at["probe"] = "p_wait" => \A r \in Sessions : on["probe"].s = r => ~Waited(turn'[r], care'[r]),
           ProbeFits'
    PROVE  ProbesInv'
<1>1. /\ ProbeTypes /\ BrokerFits /\ 0 \notin Sessions /\ "probe" \in ProbeThreads
      /\ "b_flag" \in Probing!AbortSteps
  BY WorkerAssumption DEF ProbesInv, ProbeThreads, Sessions, Probing!AbortSteps
<1>2. /\ ThreadFits("probe")'
      /\ \A r \in Sessions : ~Finishes("probe", r)' /\ ~Closes("probe", r)' /\ ~Retries("probe", r)'
  BY <1>1, ProbeStepFits
<1>3. ~Closes("probe", 0)'
  BY DEF Closes, Probing!ProbeSteps
<1>4. at["probe"] \notin Probing!FinishSteps /\ at["probe"] # "b_flag"
  BY DEF Probing!ProbeSteps, Probing!FinishSteps
<1>5. BrokerFits'
  <2>1. ASSUME NEW r \in Sessions
        PROVE  /\ r = broker'.prepared =>
                     /\ at'["probe"] \in {"p_validate", "p_send", "b_flag"}
                     /\ ~spare'[r].closing /\ ~Finishes("probe", r)'
               /\ r = broker'.active =>
                     /\ ~spare'[r].closed
                     /\ \/ at'["probe"] \in {"p_ask", "p_asked"} /\ on'["probe"].s = r
                        \/ /\ at'["probe"] \in Probing!FinishSteps
                           /\ on'["probe"].back = "p_judge" /\ on'["probe"].s = r
                        \/ spare'[r].closing
    BY <1>1, <1>2, <1>4 DEF BrokerFits
  <2> QED BY <2>1, <1>1, BrokerStays
<1>6. ProbeHolds(0)
  BY <1>1 DEF ProbeHolds
<1>7. broker' \in Probing!Broker
  BY <1>1 DEF ProbeTypes
<1>8. care' \in [Sessions -> Probing!Cleanup]
  BY <1>1 DEF ProbeTypes
<1> QED BY <1>1, <1>2, <1>3, <1>5, <1>6, <1>7, <1>8, ProbeKeeps

\* What it starts from.
LEMMA Prober ==
    ASSUME ProbesInv
    PROVE  /\ Workers /\ ProbeTypes /\ ProbeSessions /\ ProbeFits /\ BrokerFits /\ SessionsHeld
           /\ "probe" \in ProbeThreads /\ 0 \notin Sessions /\ Sessions \subseteq 0 .. MaxSessions
           /\ \A n \in 0 .. MaxSessions : n = 0 \/ n \in Sessions
           /\ Probing!ProbeSteps \subseteq ProbeAts /\ {"b_flag", "f_claim", "c_claim"} \subseteq ProbeAts
           /\ {"none", "p_raise", "p_judge"} \subseteq ProbeBacks
           /\ at["probe"] # "p_idle" => job.outcome # "accepted" /\ ~job.met
BY WorkerAssumption DEF ProbesInv, ProbeThreads, Sessions, ProbeAts, ProbeBacks, Probing!AbortSteps,
   Probing!FinishSteps, Probing!RetrySteps, ProbeFits

\* Away from a preparation, a question and its judgement nothing is asked of it.
LEMMA ElsewhereFits ==
    ASSUME at'["probe"] \in {"p_idle", "p_prepare", "p_disable", "p_validate", "p_send", "b_flag"},
           broker'.preparing = 0, job'.outcome # "accepted",
           job'.met => at'["probe"] = "p_idle" /\ latch'.memory
    PROVE  ProbeFits'
BY DEF ProbeFits, Preparing, Helping, Probing!FinishSteps, Probing!RetrySteps

\* Nothing is being prepared there, either.
LEMMA NonePreparing ==
    ASSUME ProbeFits, at["probe"] \in Probing!ProbeSteps \ {"p_submit", "p_wait", "p_stop", "p_raise"}
    PROVE  broker.preparing = 0
<1>1. ~Helping("probe")
  BY DEF Helping, Probing!ProbeSteps, Probing!FinishSteps, Probing!RetrySteps
<1> QED BY <1>1 DEF ProbeFits, Preparing

LEMMA FreshOwn ==
    ASSUME ProbeTypes, NEW t \in ProbeThreads, own' = [own EXCEPT ![t] = Probing!Fresh]
    PROVE  OwnMoves(t) /\ own'[t].result = "none"
<1>1. Probing!Fresh \in Probing!Own /\ Probing!Fresh.result = "none"
  BY DEF Probing!Fresh, Probing!Own
<1>2. PICK f \in Probing!Own : f = Probing!Fresh /\ f.result = "none"
  BY <1>1
<1> QED BY <1>2 DEF ProbeTypes, OwnMoves

\* The probe thread's abort begins.
LEMMA AbortBeginsKeeps ==
    ASSUME ProbesInv, at["probe"] \in {"p_validate", "p_send", "p_judge"}, Probing!AbortBegins("probe"),
           loop' = loop, turn' = turn, proc' = proc, home' = home, faults' \in 0 .. ProbeMaxFaults,
           broker' = broker, care' = care, spare' = spare, latch' = latch, job' = job
    PROVE  ProbesInv'
<1>1. /\ Workers /\ ProbeTypes /\ ProbeSessions /\ ProbeFits /\ "probe" \in ProbeThreads
      /\ "b_flag" \in ProbeAts /\ job.outcome # "accepted" /\ ~job.met
  BY Prober
<1>2. Probing!Goto("probe", "b_flag") /\ own' = [own EXCEPT !["probe"] = Probing!Fresh]
  BY DEF Probing!AbortBegins, Probing!Goto
<1>3. OwnMoves("probe")
  BY <1>1, <1>2, FreshOwn
<1>4. Steered("probe") /\ at'["probe"] = "b_flag"
  BY <1>1, <1>2, <1>3, GotoSteers
<1>5. Tended(0)
  BY <1>1, NothingTends
<1>6. at["probe"] \in Probing!ProbeSteps
      /\ at["probe"] \in Probing!ProbeSteps \ {"p_submit", "p_wait", "p_stop", "p_raise"}
  BY DEF Probing!ProbeSteps
<1>7. ProbeFits'
  BY <1>1, <1>4, <1>6, NonePreparing, ElsewhereFits
<1>8. latch' \in [memory : BOOLEAN, disk : BOOLEAN]
      /\ job' \in [left : 0 .. Jobs, answer : {"none", "output", "raise"}, outcome : Probing!Outcomes,
                   met : BOOLEAN]
  BY <1>1 DEF ProbeTypes
<1> QED BY <1>4, <1>5, <1>6, <1>7, <1>8, ProbeGoesOn

LEMMA RunNextKeeps ==
    ASSUME ProbesInv, Probing!RunNext
    PROVE  ProbesInv'
<1>1. /\ Workers /\ ProbeTypes /\ ProbeSessions /\ ProbeFits /\ "probe" \in ProbeThreads
      /\ {"p_idle", "p_prepare"} \subseteq Probing!ProbeSteps
      /\ {"p_idle", "p_prepare"} \subseteq ProbeAts
  BY Prober DEF Probing!ProbeSteps
<1>2. /\ at["probe"] = "p_idle" /\ job.left > 0
      /\ loop' = loop /\ turn' = turn /\ proc' = proc /\ home' = home
      /\ broker' = broker /\ care' = care /\ spare' = spare /\ own' = own
      /\ (\E what : Probing!Trip(what)) \/ Probing!Calm
  BY DEF Probing!RunNext, Probing!records, Probing!threads
<1>3. \/ /\ latch' = [latch EXCEPT !.memory = TRUE] /\ job' = Probing!NextJob("unsafe")
         /\ at' = at /\ on' = on
      \/ /\ ~latch.memory /\ latch' = latch /\ job' = Probing!NextJob("none")
         /\ Probing!Goto("probe", "p_prepare")
  BY DEF Probing!RunNext, Probing!threads
<1>4. OwnMoves("probe")
  BY <1>1, <1>2, OwnMoved
<1>5. Steered("probe") /\ at'["probe"] \in {"p_idle", "p_prepare"}
      /\ (at'["probe"] = "p_idle" => latch'.memory)
  <2>1. CASE at' = at /\ on' = on /\ latch' = [latch EXCEPT !.memory = TRUE]
    BY <2>1, <1>1, <1>2, <1>4 DEF Steered, OwnMoves, ProbeTypes
  <2>2. CASE Probing!Goto("probe", "p_prepare")
    BY <2>2, <1>1, <1>4, GotoSteers
  <2> QED BY <1>3, <2>1, <2>2
<1>6. Tended(0)
  BY <1>1, <1>2, NothingTends
<1>7. /\ job' \in [left : 0 .. Jobs, answer : {"none", "output", "raise"}, outcome : Probing!Outcomes,
                   met : BOOLEAN]
      /\ job'.met = job.met /\ job'.outcome # "accepted"
  <2>1. \A outcome \in {"none", "unsafe"} :
            /\ Probing!NextJob(outcome) \in [left : 0 .. Jobs, answer : {"none", "output", "raise"},
                                             outcome : Probing!Outcomes, met : BOOLEAN]
            /\ Probing!NextJob(outcome).met = job.met /\ Probing!NextJob(outcome).outcome = outcome
    <3>1. /\ job \in [left : 0 .. Jobs, answer : {"none", "output", "raise"}, outcome : Probing!Outcomes,
                      met : BOOLEAN]
          /\ job.left \in 0 .. Jobs
      BY <1>1 DEF ProbeTypes
    <3>2. PICK left : left = job.left - 1
      OBVIOUS
    <3>3. left \in 0 .. Jobs
      BY <3>1, <3>2, <1>2, ProbesAssumption
    <3>4. TAKE outcome \in {"none", "unsafe"}
    <3>5. outcome \in Probing!Outcomes
      BY DEF Probing!Outcomes
    <3>6. Probing!NextJob(outcome) = [job EXCEPT !.left = left, !.answer = "none", !.outcome = outcome]
      BY <3>2 DEF Probing!NextJob
    <3> QED BY <3>1, <3>3, <3>5, <3>6
  <2> QED BY <2>1, <1>3
<1>8. latch' \in [memory : BOOLEAN, disk : BOOLEAN]
  BY <1>1, <1>3 DEF ProbeTypes
<1>9. job.met => at'["probe"] = "p_idle"
  <2>1. job.met => latch.memory
    BY <1>1 DEF ProbeFits
  <2> QED BY <2>1, <1>2, <1>3
<1>10. broker.preparing = 0
  BY <1>1, <1>2, NonePreparing
<1>11. ProbeFits'
  BY <1>2, <1>5, <1>7, <1>9, <1>10, ElsewhereFits
<1>12. faults' \in 0 .. ProbeMaxFaults
  BY <1>1, <1>2, ProbeFaultsCount
<1> QED BY <1>1, <1>2, <1>5, <1>6, <1>7, <1>8, <1>11, <1>12, ProbeGoesOn

\* A step of one of the probes' threads that changes nothing but where it is.
LEMMA ProbeWalks ==
    ASSUME ProbesInv, NEW q \in Probing!ProbeSteps, Probing!Goto("probe", q),
           at["probe"] \in Probing!ProbeSteps, own' = own \/ own' = [own EXCEPT !["probe"] = Probing!Fresh]
    PROVE  Steered("probe") /\ at'["probe"] = q /\ on'["probe"] = on["probe"]
<1>1. ProbeTypes /\ "probe" \in ProbeThreads /\ q \in ProbeAts
  BY Prober
<1>2. OwnMoves("probe")
  BY <1>1, FreshOwn, OwnMoved
<1> QED BY <1>1, <1>2, GotoSteers

LEMMA PrepareStopsKeeps ==
    ASSUME ProbesInv, Probing!PrepareStops
    PROVE  ProbesInv'
<1>1. /\ Workers /\ ProbeTypes /\ ProbeSessions /\ ProbeFits /\ "probe" \in ProbeThreads
      /\ {"p_unused", "p_stop", "p_raise", "p_disable"} \subseteq Probing!ProbeSteps
      /\ 0 \notin Sessions /\ (at["probe"] # "p_idle" => job.outcome # "accepted" /\ ~job.met)
  BY Prober DEF Probing!ProbeSteps
<1>2. /\ at["probe"] \in {"p_unused", "p_stop"}
      /\ loop' = loop /\ turn' = turn /\ proc' = proc /\ home' = home
      /\ broker' = broker /\ care' = care /\ spare' = spare /\ own' = own /\ latch' = latch /\ job' = job
      /\ (\E what : Probing!Trip(what)) \/ Probing!Calm
      /\ Probing!Goto("probe", IF at["probe"] = "p_stop" THEN "p_raise" ELSE "p_disable")
  BY DEF Probing!PrepareStops, Probing!records, Probing!Joined, Probing!Outlives
<1>3. PICK q \in {"p_raise", "p_disable"} : q = IF at["probe"] = "p_stop" THEN "p_raise" ELSE "p_disable"
  OBVIOUS
<1>4. Steered("probe") /\ at'["probe"] = q /\ on'["probe"] = on["probe"]
  BY <1>1, <1>2, <1>3, ProbeWalks
<1>5. Tended(0)
  BY <1>1, <1>2, NothingTends
<1>6. ProbeFits'
  <2>1. CASE at["probe"] = "p_unused"
    <3>1. broker.preparing = 0
      BY <2>1, <1>1, NonePreparing DEF Probing!ProbeSteps
    <3> QED BY <3>1, <2>1, <1>1, <1>2, <1>3, <1>4, ElsewhereFits
  <2>2. CASE at["probe"] = "p_stop"
    <3>1. PICK s : s = on["probe"].s
      OBVIOUS
    <3>2. s \in Sessions /\ broker.preparing = s /\ Held(s) /\ turn[s] # <<>> /\ turn[s][1].future # "pending"
      BY <3>1, <2>2, <1>1 DEF ProbeFits, Preparing
    <3>3. Claims("probe")
      BY <2>2 DEF Claims
    <3>4. Held(s)'
      BY <3>2, <3>3, <1>1, <1>4, <1>5, HeldLasts DEF Idling
    <3>5. at'["probe"] = "p_raise" /\ Preparing'
      BY <2>2, <1>3, <1>4 DEF Preparing
    <3>6. Held(on["probe"].s)'
      BY <3>1, <3>4, <1>4 DEF Held, Safe, Handed
    <3> QED BY <3>1, <3>2, <3>4, <3>5, <3>6, <2>2, <1>1, <1>2, <1>4 DEF ProbeFits
  <2> QED BY <2>1, <2>2, <1>2
<1>7. latch' \in [memory : BOOLEAN, disk : BOOLEAN]
      /\ job' \in [left : 0 .. Jobs, answer : {"none", "output", "raise"}, outcome : Probing!Outcomes,
                   met : BOOLEAN]
  BY <1>1, <1>2 DEF ProbeTypes
<1>8. faults' \in 0 .. ProbeMaxFaults
  BY <1>1, <1>2, ProbeFaultsCount
<1> QED BY <1>1, <1>2, <1>3, <1>4, <1>5, <1>6, <1>7, <1>8, ProbeGoesOn

LEMMA ValidateBoundaryKeeps ==
    ASSUME ProbesInv, Probing!ValidateBoundary
    PROVE  ProbesInv'
<1>1. /\ Workers /\ ProbeTypes /\ ProbeSessions /\ ProbeFits
      /\ {"p_validate", "p_send"} \subseteq Probing!ProbeSteps
      /\ (at["probe"] # "p_idle" => job.outcome # "accepted" /\ ~job.met)
  BY Prober DEF Probing!ProbeSteps
<1>2. /\ at["probe"] = "p_validate"
      /\ loop' = loop /\ turn' = turn /\ proc' = proc /\ home' = home
      /\ broker' = broker /\ care' = care /\ spare' = spare /\ latch' = latch /\ job' = job
      /\ (\E what : Probing!Trip(what)) \/ Probing!Calm
      /\ \/ Probing!Goto("probe", "p_send") /\ own' = own
         \/ Probing!AbortBegins("probe")
  BY DEF Probing!ValidateBoundary, Probing!records
<1>3. faults' \in 0 .. ProbeMaxFaults
  BY <1>1, <1>2, ProbeFaultsCount
<1>4. CASE Probing!AbortBegins("probe")
  BY <1>2, <1>3, <1>4, AbortBeginsKeeps
<1>5. CASE Probing!Goto("probe", "p_send") /\ own' = own
  <2>1. Steered("probe") /\ at'["probe"] = "p_send"
    BY <1>1, <1>2, <1>5, ProbeWalks
  <2>2. Tended(0)
    BY <1>1, <1>2, NothingTends
  <2>3. ProbeFits'
    BY <2>1, <1>1, <1>2, NonePreparing, ElsewhereFits
  <2>4. latch' \in [memory : BOOLEAN, disk : BOOLEAN]
        /\ job' \in [left : 0 .. Jobs, answer : {"none", "output", "raise"}, outcome : Probing!Outcomes,
                     met : BOOLEAN]
    BY <1>1, <1>2 DEF ProbeTypes
  <2> QED BY <2>1, <2>2, <2>3, <2>4, <1>1, <1>2, <1>3, ProbeGoesOn
<1> QED BY <1>2, <1>4, <1>5

LEMMA DisableKeeps ==
    ASSUME ProbesInv, Probing!Disable
    PROVE  ProbesInv'
<1>1. /\ Workers /\ ProbeTypes /\ ProbeSessions /\ ProbeFits
      /\ {"p_disable", "p_idle"} \subseteq Probing!ProbeSteps
  BY Prober DEF Probing!ProbeSteps
<1>2. /\ at["probe"] = "p_disable"
      /\ loop' = loop /\ turn' = turn /\ proc' = proc /\ home' = home
      /\ broker' = broker /\ care' = care /\ spare' = spare /\ own' = own
      /\ (\E what : Probing!Trip(what)) \/ Probing!Calm
      /\ Probing!Goto("probe", "p_idle")
      /\ latch' = [memory |-> TRUE, disk |-> TRUE] \/ latch' = [latch EXCEPT !.memory = TRUE]
      /\ \E outcome \in {"unsafe", "raised"} : job' = [job EXCEPT !.outcome = outcome, !.met = TRUE]
  BY DEF Probing!Disable, Probing!records
<1>3. faults' \in 0 .. ProbeMaxFaults
  BY <1>1, <1>2, ProbeFaultsCount
<1>4. Steered("probe") /\ at'["probe"] = "p_idle"
  BY <1>1, <1>2, ProbeWalks
<1>5. Tended(0)
  BY <1>1, <1>2, NothingTends
<1>6. latch' \in [memory : BOOLEAN, disk : BOOLEAN] /\ latch'.memory
  <2>1. latch \in [memory : BOOLEAN, disk : BOOLEAN]
    BY <1>1 DEF ProbeTypes
  <2>2. \E kept \in BOOLEAN : latch' = [memory |-> TRUE, disk |-> kept]
    BY <2>1, <1>2
  <2> QED BY <2>2
<1>7. job' \in [left : 0 .. Jobs, answer : {"none", "output", "raise"}, outcome : Probing!Outcomes,
                met : BOOLEAN] /\ job'.outcome # "accepted"
  BY <1>1, <1>2 DEF ProbeTypes, Probing!Outcomes
<1>8. ProbeFits'
  BY <1>1, <1>2, <1>4, <1>6, <1>7, NonePreparing, ElsewhereFits
<1> QED BY <1>1, <1>2, <1>3, <1>4, <1>5, <1>6, <1>7, <1>8, ProbeGoesOn

LEMMA SendJudgeKeeps ==
    ASSUME ProbesInv, Probing!SendJudge
    PROVE  ProbesInv'
<1>1. /\ Workers /\ ProbeTypes /\ ProbeSessions /\ ProbeFits
      /\ {"p_judge", "p_idle"} \subseteq Probing!ProbeSteps
      /\ (at["probe"] # "p_idle" => job.outcome # "accepted" /\ ~job.met)
  BY Prober DEF Probing!ProbeSteps
<1>2. /\ at["probe"] = "p_judge"
      /\ loop' = loop /\ turn' = turn /\ proc' = proc /\ home' = home /\ faults' = faults
      /\ broker' = broker /\ care' = care /\ spare' = spare /\ latch' = latch
      /\ \/ Probing!AbortBegins("probe") /\ job' = job
         \/ /\ own["probe"].fine /\ Probing!Goto("probe", "p_idle") /\ own' = own
            /\ \E outcome \in {"accepted", "rejected"} : job' = [job EXCEPT !.outcome = outcome]
  BY DEF Probing!SendJudge, Probing!records, Probing!worker
<1>3. faults' \in 0 .. ProbeMaxFaults
  BY <1>1, <1>2 DEF ProbeTypes
<1>4. CASE Probing!AbortBegins("probe") /\ job' = job
  BY <1>2, <1>3, <1>4, AbortBeginsKeeps
<1>5. CASE /\ own["probe"].fine /\ Probing!Goto("probe", "p_idle") /\ own' = own
           /\ \E outcome \in {"accepted", "rejected"} : job' = [job EXCEPT !.outcome = outcome]
  <2>1. Steered("probe") /\ at'["probe"] = "p_idle" /\ on'["probe"] = on["probe"]
    BY <1>1, <1>2, <1>5, ProbeWalks
  <2>2. Tended(0)
    BY <1>1, <1>2, NothingTends
  <2>3. job' \in [left : 0 .. Jobs, answer : {"none", "output", "raise"}, outcome : Probing!Outcomes,
                  met : BOOLEAN] /\ ~job'.met
    BY <1>1, <1>2, <1>5 DEF ProbeTypes, Probing!Outcomes
  <2>4. broker.preparing = 0
    BY <1>1, <1>2, NonePreparing
  <2>5. ~Preparing' /\ ~Helping("probe")'
    BY <2>1 DEF Preparing, Helping, Probing!FinishSteps, Probing!RetrySteps
  <2>6. on["probe"].s \in Sessions /\ spare[on["probe"].s].closed /\ spare[on["probe"].s].ok
    BY <1>1, <1>2, <1>5 DEF ProbeFits
  <2>7. ProbeFits'
    BY <2>1, <2>3, <2>4, <2>5, <2>6, <1>2 DEF ProbeFits
  <2>8. latch' \in [memory : BOOLEAN, disk : BOOLEAN]
    BY <1>1, <1>2 DEF ProbeTypes
  <2> QED BY <2>1, <2>2, <2>3, <2>7, <2>8, <1>1, <1>2, <1>3, ProbeGoesOn
<1> QED BY <1>2, <1>4, <1>5

\* A worker is started, or refused before it began.
LEMMA NewTends ==
    ASSUME Workers, ProbeTypes, ProbeSessions, NEW s \in Sessions, loop[s].phase = "none",
           NEW phase \in {"running", "stopping"}, loop' = [loop EXCEPT ![s].phase = phase],
           turn' = turn, proc' = proc, home' = home, care' = care, spare' = spare
    PROVE  /\ Tended(s) /\ (phase = "stopping" => Tended(0))
           /\ turn[s] = <<>> /\ loop'[s].phase = phase
<1>1. /\ turn[s] = <<>> /\ loop[s] \in Worker
      /\ ProbeSession(loop[s], turn[s], proc[s], home[s], care[s], spare[s])
  BY DEF Workers, WorkerFits, ProbeSessions
<1>2. PICK l : l = [loop[s] EXCEPT !.phase = phase]
  OBVIOUS
<1>3. /\ l \in Worker /\ l.phase = phase /\ l.submitted = loop[s].submitted
      /\ l.active = loop[s].active /\ l.completed = loop[s].completed
  BY <1>1, <1>2 DEF Worker, Phases
<1>4. loop' = [loop EXCEPT ![s] = l]
  BY <1>2
<1>5. loop' \in [Sessions -> Worker] /\ loop'[s] = l /\ \A r \in Sessions \ {s} : loop'[r] = loop[r]
  BY <1>3, <1>4 DEF Workers
<1>6. WorkerFits(l, turn[s])
  <2>1. WorkerFits(loop[s], turn[s])
    BY DEF Workers
  <2> QED BY <2>1, <1>1, <1>3, EmptySeq DEF WorkerFits
<1>7. Workers'
  BY <1>5, <1>6 DEF Workers
<1>8. ProbeSession(l, turn[s], proc[s], home[s], care[s], spare[s])
  BY <1>1 DEF ProbeSession, SpareFits, Ready
<1>9. ProbeSessions'
  BY <1>5, <1>8 DEF ProbeSessions
<1>10. ASSUME NEW r \in Sessions
       PROVE  Lasts(r) /\ (r # s \/ phase = "stopping" => Rests(r))
  <2>1. Len(turn[r]) \in Nat
    BY WorkerTypes
  <2>2. Lasts(r)
    BY <2>1, <1>1, <1>3, <1>5 DEF Lasts
  <2>3. r # s => Rests(r)
    BY <1>5 DEF Rests
  <2>4. phase = "stopping" => Rests(s)
    BY <1>3, <1>5 DEF Rests, Quit
  <2> QED BY <2>2, <2>3, <2>4
<1> QED BY <1>1, <1>3, <1>5, <1>7, <1>9, <1>10 DEF Tended

\* Nothing is kept of the probes' own types.
LEMMA TypesStay ==
    ASSUME ProbeTypes, latch' = latch, job' = job
    PROVE  /\ latch' \in [memory : BOOLEAN, disk : BOOLEAN]
           /\ job' \in [left : 0 .. Jobs, answer : {"none", "output", "raise"}, outcome : Probing!Outcomes,
                        met : BOOLEAN]
BY DEF ProbeTypes

LEMMA PrepareKeeps ==
    ASSUME ProbesInv, Probing!Prepare
    PROVE  ProbesInv'
<1>1. /\ Workers /\ ProbeTypes /\ ProbeSessions /\ ProbeFits /\ BrokerFits /\ "probe" \in ProbeThreads
      /\ {"p_prepare", "p_unused", "p_submit", "p_disable"} \subseteq Probing!ProbeSteps
      /\ {"p_unused", "p_submit"} \subseteq ProbeAts /\ "none" \in ProbeBacks
      /\ 0 \notin Sessions /\ Sessions \subseteq 0 .. MaxSessions /\ broker \in Probing!Broker
      /\ (at["probe"] # "p_idle" => job.outcome # "accepted" /\ ~job.met)
  BY Prober DEF Probing!ProbeSteps, ProbeTypes
<1>2. /\ at["probe"] = "p_prepare" /\ own' = [own EXCEPT !["probe"] = Probing!Fresh]
      /\ turn' = turn /\ proc' = proc /\ home' = home /\ care' = care /\ spare' = spare
      /\ latch' = latch /\ job' = job /\ ((\E what : Probing!Trip(what)) \/ Probing!Calm)
  BY DEF Probing!Prepare, Probing!records
<1>3. /\ faults' \in 0 .. ProbeMaxFaults /\ broker.preparing = 0
      /\ latch' \in [memory : BOOLEAN, disk : BOOLEAN]
      /\ job' \in [left : 0 .. Jobs, answer : {"none", "output", "raise"}, outcome : Probing!Outcomes,
                   met : BOOLEAN]
  BY <1>1, <1>2, ProbeFaultsCount, NonePreparing, TypesStay
<1>4. OwnMoves("probe")
  BY <1>1, <1>2, FreshOwn
<1>5. CASE Probing!Goto("probe", "p_disable") /\ loop' = loop /\ broker' = broker
  <2>1. Steered("probe") /\ at'["probe"] = "p_disable"
    BY <1>1, <1>2, <1>5, ProbeWalks
  <2>2. Tended(0)
    BY <1>1, <1>2, <1>5, NothingTends
  <2>3. ProbeFits'
    BY <2>1, <1>1, <1>2, <1>3, <1>5, ElsewhereFits
  <2> QED BY <2>1, <2>2, <2>3, <1>1, <1>2, <1>3, <1>5, ProbeGoesOn
<1>6. ASSUME NEW s \in Sessions, loop[s].phase = "none",
             NEW q \in {"p_unused", "p_submit"}, Probing!GotoWith("probe", q, s, 1, "none")
      PROVE  Steered("probe") /\ at'["probe"] = q /\ on'["probe"].s = s /\ on'["probe"].g = 1
  <2>1. s \in 0 .. MaxSessions /\ q \in ProbeAts /\ 1 \in Nat
    BY <1>1, <1>6
  <2> QED BY <2>1, <1>1, <1>4, <1>6, GotoWithSteers
<1>7. ASSUME NEW s \in Sessions, loop[s].phase = "none", loop' = [loop EXCEPT ![s].phase = "stopping"],
             broker' = broker, Probing!GotoWith("probe", "p_unused", s, 1, "none")
      PROVE  ProbesInv'
  <2>1. Steered("probe") /\ at'["probe"] = "p_unused" /\ on'["probe"].s = s
    BY <1>6, <1>7
  <2>2. Tended(0) /\ turn[s] = <<>> /\ loop'[s].phase = "stopping"
    BY <1>1, <1>2, <1>7, NewTends
  <2>3. ~Preparing' /\ ~Helping("probe")'
    BY <2>1 DEF Preparing, Helping, Probing!FinishSteps, Probing!RetrySteps
  <2>4. ProbeFits'
    BY <2>1, <2>2, <2>3, <1>1, <1>2, <1>3, <1>7 DEF ProbeFits
  <2> QED BY <2>1, <2>2, <2>4, <1>1, <1>2, <1>3, <1>7, ProbeGoesOn
<1>8. ASSUME NEW s \in Sessions, loop[s].phase = "none", loop' = [loop EXCEPT ![s].phase = "running"],
             ~broker.aborted, Probing!AllStopped,
             broker' = [broker EXCEPT !.preparing = s], Probing!GotoWith("probe", "p_submit", s, 1, "none")
      PROVE  ProbesInv'
  <2>1. Steered("probe") /\ at'["probe"] = "p_submit" /\ on'["probe"].s = s /\ on'["probe"].g = 1
    BY <1>6, <1>8
  <2>2. Tended(s) /\ turn[s] = <<>> /\ loop'[s].phase = "running"
    BY <1>1, <1>2, <1>8, NewTends
  <2>3. /\ broker' \in Probing!Broker /\ broker'.preparing = s /\ broker'.prepared = 0 /\ broker'.active = 0
        /\ broker'.aborted = broker.aborted /\ broker.prepared = 0 /\ broker.active = 0
    BY <1>1, <1>8, SameSets DEF Probing!Broker, Probing!AllStopped
  <2>4. Preparing' /\ ~Helping("probe")'
    BY <2>1 DEF Preparing, Helping, Probing!FinishSteps, Probing!RetrySteps
  <2>5. ProbeFits'
    BY <2>1, <2>2, <2>3, <2>4, <1>1, <1>2 DEF ProbeFits
  <2>6. BrokerFits'
    BY <2>3, <1>1 DEF BrokerFits
  <2>7. ThreadFits("probe")' /\ \A r \in Sessions : ~Closes("probe", r)' /\ ~Retries("probe", r)'
    BY <2>1, <1>1, ProbeStepFits
  <2>8. ~Closes("probe", 0)'
    BY <2>1 DEF Closes
  <2>9. ProbeHolds(s)
    BY <2>2, <2>3, <1>1, <1>2, <1>3 DEF ProbeHolds, Waited, Idling
  <2>10. care' \in [Sessions -> Probing!Cleanup]
    BY <1>1, <1>2 DEF ProbeTypes
  <2> QED BY <2>1, <2>2, <2>3, <2>5, <2>6, <2>7, <2>8, <2>9, <2>10, <1>1, <1>2, <1>3, <1>8, ProbeKeeps
<1>9. \/ Probing!Goto("probe", "p_disable") /\ loop' = loop /\ broker' = broker
      \/ \E s \in Sessions :
            /\ loop[s].phase = "none"
            /\ loop' = [loop EXCEPT ![s].phase = IF Probing!MayPrepare THEN "running" ELSE "stopping"]
            /\ broker' = [broker EXCEPT !.preparing = IF Probing!MayPrepare THEN s ELSE @]
            /\ Probing!GotoWith("probe", IF Probing!MayPrepare THEN "p_submit" ELSE "p_unused", s, 1, "none")
  BY SameSets DEF Probing!Prepare, Probing!Unsafe, Probing!IsNew
<1>10. ASSUME NEW s \in Sessions, loop[s].phase = "none",
              loop' = [loop EXCEPT ![s].phase = IF Probing!MayPrepare THEN "running" ELSE "stopping"],
              broker' = [broker EXCEPT !.preparing = IF Probing!MayPrepare THEN s ELSE @],
              Probing!GotoWith("probe", IF Probing!MayPrepare THEN "p_submit" ELSE "p_unused", s, 1, "none")
       PROVE  ProbesInv'
  <2>1. CASE Probing!MayPrepare
    BY <2>1, <1>8, <1>10 DEF Probing!MayPrepare
  <2>2. CASE ~Probing!MayPrepare
    <3>1. broker' = broker
      BY <2>2, <1>1, <1>10 DEF Probing!Broker
    <3> QED BY <3>1, <2>2, <1>7, <1>10
  <2> QED BY <2>1, <2>2
<1> QED BY <1>5, <1>9, <1>10

\* A new worker's first turn is the preparation.
LEMMA PrepareSubmitKeeps ==
    ASSUME ProbesInv, Probing!PrepareSubmit
    PROVE  ProbesInv'
<1>1. /\ Workers /\ ProbeTypes /\ ProbeSessions /\ ProbeFits /\ BrokerFits /\ "probe" \in ProbeThreads
      /\ {"p_submit", "p_wait"} \subseteq Probing!ProbeSteps /\ 0 \notin Sessions
      /\ (at["probe"] # "p_idle" => job.outcome # "accepted" /\ ~job.met)
  BY Prober DEF Probing!ProbeSteps
<1>2. PICK s : s = on["probe"].s
  OBVIOUS
<1>3. /\ at["probe"] = "p_submit" /\ Submit(s, "prepare") /\ Probing!Goto("probe", "p_wait")
      /\ proc' = proc /\ home' = home /\ faults' = faults /\ own' = own /\ broker' = broker
      /\ care' = care /\ spare' = spare /\ latch' = latch /\ job' = job
  BY <1>2, SameSubmissions DEF Probing!PrepareSubmit, Probing!records
<1>4. /\ s \in Sessions /\ broker.preparing = s /\ turn[s] = <<>> /\ loop[s].phase # "none"
      /\ on["probe"].g = 1
  BY <1>1, <1>2, <1>3 DEF ProbeFits, Preparing
<1>5. Steered("probe") /\ at'["probe"] = "p_wait" /\ on'["probe"] = on["probe"]
  BY <1>1, <1>3, ProbeWalks
<1>6. /\ Handling(s) /\ Len(turn'[s]) = Len(turn[s]) + 1 /\ turn'[s][Len(turn[s]) + 1].kind = "prepare"
      /\ turn'[s][Len(turn[s]) + 1].at \in {"queued", "done"} /\ turn'[s][Len(turn[s]) + 1].future # "ok"
  <2>1. "prepare" \in Kinds
    BY DEF Kinds
  <2> QED BY <2>1, <1>1, <1>3, <1>4, SubmitWorks
<1>7. Len(turn[s]) = 0 /\ turn'[s] # <<>> /\ turn'[s][1].future # "ok"
  BY <1>4, <1>6, EmptySeq
<1>8. Submitted(turn[s], turn'[s])
  BY <1>4, <1>6 DEF Submitted
<1>9. Tended(s)
  <2>1. home' \in [Sessions -> {"none", "there", "gone"}] /\ care' \in [Sessions -> Probing!Cleanup]
    BY <1>1, <1>3 DEF Workers, ProbeTypes
  <2>2. \A r \in Sessions : RecordsSame(r)
    BY <1>3 DEF RecordsSame
  <2>3. /\ spare[s].closing => spare'[s].closing
        /\ spare[s].closed => spare'[s] = spare[s]
    BY <1>3
  <2> QED BY <2>1, <2>2, <2>3, <1>1, <1>3, <1>4, <1>6, <1>8, ThreadTends
<1>10. Preparing' /\ ~Helping("probe")'
  BY <1>5 DEF Preparing, Helping, Probing!FinishSteps, Probing!RetrySteps
<1>11. ProbeFits'
  BY <1>1, <1>2, <1>3, <1>4, <1>5, <1>7, <1>10 DEF ProbeFits, Prepared
<1>12. BrokerFits'
  BY <1>1, <1>3, <1>4 DEF BrokerFits
<1>13. ThreadFits("probe")' /\ \A r \in Sessions : ~Closes("probe", r)' /\ ~Retries("probe", r)'
  BY <1>1, <1>5, ProbeStepFits
<1>14. ~Closes("probe", 0)'
  BY <1>5 DEF Closes
<1>15. ProbeHolds(s)
  BY <1>2, <1>3, <1>4, <1>5 DEF ProbeHolds
<1>16. /\ care' \in [Sessions -> Probing!Cleanup] /\ broker' \in Probing!Broker
       /\ faults' \in 0 .. ProbeMaxFaults
  BY <1>1, <1>3 DEF ProbeTypes
<1> QED BY <1>1, <1>3, <1>4, <1>5, <1>9, <1>11, <1>12, <1>13, <1>14, <1>15, <1>16, TypesStay, ProbeKeeps

\* The preparation succeeded: its session is given to the boundary check, or closed at once
\* when somebody aborted meanwhile.
LEMMA PrepareReadyKeeps ==
    ASSUME ProbesInv, Probing!PrepareReady
    PROVE  ProbesInv'
<1>1. /\ Workers /\ ProbeTypes /\ ProbeSessions /\ ProbeFits /\ BrokerFits /\ "probe" \in ProbeThreads
      /\ {"p_wait", "p_validate"} \subseteq Probing!ProbeSteps /\ {"f_claim", "p_validate"} \subseteq ProbeAts
      /\ "p_raise" \in ProbeBacks /\ 0 \notin Sessions /\ Sessions \subseteq 0 .. MaxSessions
      /\ broker \in Probing!Broker
      /\ (at["probe"] # "p_idle" => job.outcome # "accepted" /\ ~job.met)
  BY Prober DEF Probing!ProbeSteps, ProbeTypes
<1>2. PICK s : s = on["probe"].s
  OBVIOUS
<1>3. /\ at["probe"] = "p_wait" /\ turn[s][1].future = "ok" /\ care' = Probing!Released(s)
      /\ loop' = loop /\ turn' = turn /\ proc' = proc /\ home' = home /\ faults' = faults
      /\ own' = own /\ spare' = spare /\ latch' = latch /\ job' = job
      /\ \/ broker.aborted /\ Probing!GotoWith("probe", "f_claim", s, 0, "p_raise") /\ broker' = broker
         \/ /\ broker' = [broker EXCEPT !.prepared = s, !.preparing = 0]
            /\ Probing!Goto("probe", "p_validate")
  BY <1>2, SameSets DEF Probing!PrepareReady, Probing!Answer, Probing!Finish, Probing!worker
<1>4. /\ s \in Sessions /\ broker.preparing = s /\ turn[s] # <<>> /\ care[s].listed
      /\ broker.prepared = 0 /\ broker.active = 0 /\ s \in 0 .. MaxSessions
  <2>1. s \in Sessions /\ broker.preparing = s /\ Prepared(turn[s], care[s])
    BY <1>1, <1>2, <1>3 DEF ProbeFits, Preparing
  <2> QED BY <2>1, <1>1, <1>3 DEF Prepared, BrokerFits
<1>5. /\ ProbeSession(loop[s], turn[s], proc[s], home[s], care[s], spare[s])
      /\ care[s] \in Probing!Cleanup /\ Len(turn[s]) \in Nat
      /\ turn[s][1] \in Turn /\ TurnFits(loop[s].phase, turn[s][1])
  <2>1. Len(turn[s]) \in Nat /\ \A g \in 1 .. Len(turn[s]) : turn[s][g] \in Turn /\ TurnFits(loop[s].phase, turn[s][g])
    BY <1>1, <1>4, WorkerTypes
  <2>2. 1 \in 1 .. Len(turn[s])
    <3>1. turn[s] \in Seq(Turn)
      BY <1>1, <1>4 DEF Workers
    <3> QED BY <3>1, <1>4, <2>1, EmptySeq
  <2> QED BY <2>1, <2>2, <1>1, <1>4 DEF ProbeTypes, ProbeSessions
<1>6. PICK d : d = [care[s] EXCEPT !.listed = FALSE, !.complete = TRUE]
  OBVIOUS
<1>7. /\ care' = [care EXCEPT ![s] = d] /\ d \in Probing!Cleanup
      /\ ~d.listed /\ d.complete /\ d.owner = care[s].owner /\ d.closed = care[s].closed
  <2>1. care' = [care EXCEPT ![s] = d]
    BY <1>3, <1>6 DEF Probing!Released
  <2> QED BY <2>1, <1>5, <1>6 DEF Probing!Cleanup
<1>8. /\ care' \in [Sessions -> Probing!Cleanup] /\ care'[s] = d
      /\ \A r \in Sessions \ {s} : care'[r] = care[r]
  BY <1>1, <1>4, <1>7 DEF ProbeTypes
<1>9. ~d.closed /\ ~spare[s].closing /\ ~spare[s].closed /\ ~spare[s].ok /\ ~Started(turn[s][1])
  <2>1. ~Spoilt(turn[s]) /\ ~Ready(turn[s], care[s])
    BY <1>3, <1>4 DEF Spoilt, Ready
  <2>2. turn[s][1].at = "done"
    BY <1>3, <1>5 DEF TurnFits
  <2> QED BY <2>1, <2>2, <1>5, <1>7 DEF ProbeSession, SessionFits, SpareFits, Started
<1>10. Tended(s)
  <2>1. Handling(s) /\ Len(turn'[s]) = Len(turn[s])
    BY <1>1, <1>3, <1>4, NothingHandled
  <2>2. RecordsFit(s)
    <3>1. turn'[s] = turn[s] /\ home'[s] = home[s] /\ spare'[s] = spare[s] /\ loop'[s] = loop[s]
      BY <1>3
    <3>2. /\ turn[s] # <<>> /\ turn[s][1].future = "ok" /\ ~d.listed /\ ~d.closed
          /\ ~Ready(turn[s], care[s])
      BY <1>3, <1>4, <1>7, <1>9 DEF Ready
    <3>3. SpareFits(loop[s], turn[s], proc[s], home[s], d, spare[s])
      BY <1>9 DEF SpareFits
    <3> QED BY <3>1, <3>2, <3>3, <1>4, <1>7, <1>8, <1>9 DEF RecordsFit
  <2>3. \A r \in Sessions \ {s} : RecordsSame(r)
    BY <1>3, <1>8 DEF RecordsSame
  <2>4. home' \in [Sessions -> {"none", "there", "gone"}]
    BY <1>1, <1>3 DEF Workers
  <2>5. /\ spare[s].closing => spare'[s].closing
        /\ spare[s].closed => spare'[s] = spare[s]
    BY <1>3
  <2> QED BY <2>1, <2>2, <2>3, <2>4, <2>5, <1>1, <1>3, <1>4, <1>8, ThreadTends
<1>11. Ready(turn'[s], care'[s]) /\ ~Waited(turn'[s], care'[s]) /\ turn'[s] # <<>>
       /\ turn'[s][1].future # "pending"
  BY <1>3, <1>4, <1>7, <1>8 DEF Ready, Waited, Idling
<1>12. /\ ThreadFits("stop") /\ "stop" \in ProbeThreads /\ \A u \in ProbeThreads : u = "probe" \/ u = "stop"
       /\ "stop" # "probe"
  BY DEF ProbesInv, ProbeThreads
<1>13. ~Finishes("stop", s) /\ \A r \in Sessions : Retries("stop", r) => care'[r] = care[r]
  <2>1. ~Finishes("stop", s)
    BY <1>4, <1>12 DEF ThreadFits, Finishes, Ready
  <2>2. ~Retries("stop", s)
    BY <1>3, <1>12 DEF ThreadFits, RetryFits, Retries, Probing!RetrySteps, Spoilt
  <2> QED BY <2>1, <2>2, <1>8
<1>14. OwnMoves("probe")
  BY <1>1, <1>3, OwnMoved
<1>15. /\ faults' \in 0 .. ProbeMaxFaults /\ broker' \in Probing!Broker /\ broker'.aborted = broker.aborted
       /\ broker'.preparing \in {0, broker.preparing}
  BY <1>1, <1>3, <1>4 DEF ProbeTypes, Probing!Broker
<1>16. CASE broker.aborted /\ Probing!GotoWith("probe", "f_claim", s, 0, "p_raise") /\ broker' = broker
  <2>1. Steered("probe") /\ at'["probe"] = "f_claim" /\ on'["probe"].s = s /\ on'["probe"].back = "p_raise"
    BY <1>1, <1>4, <1>14, <1>16, GotoWithSteers
  <2>2. ~Closes("probe", 0)' /\ \A r \in Sessions : ~Closes("probe", r)' /\ ~Retries("probe", r)'
    BY <2>1 DEF Closes, Retries
  <2>3. at'["probe"] \in Probing!FinishSteps /\ at'["probe"] \notin Probing!RetrySteps
    BY <2>1 DEF Probing!FinishSteps, Probing!RetrySteps
  <2>4. ThreadFits("probe")'
    BY <2>1, <2>3, <1>4, <1>11 DEF ThreadFits, FinishFits, Finishes, Closes, Cancels, Visits, Clears, Waits
  <2>5. Held(s)' /\ Preparing' /\ Helping("probe")'
    BY <2>1, <2>3, <1>1 DEF Held, Safe, Handed, Preparing, Helping
  <2>6. Held(on["probe"].s)'
    BY <2>1, <2>5 DEF Held, Safe, Handed
  <2>7. ProbeFits'
    BY <2>1, <2>3, <2>5, <2>6, <1>1, <1>3, <1>4, <1>11, <1>16 DEF ProbeFits
  <2>8. BrokerFits'
    BY <1>1, <1>4, <1>16 DEF BrokerFits
  <2>9. ProbeHolds(s)
    BY <1>1, <1>2, <1>4, <1>11, <1>16 DEF ProbeHolds
  <2> QED BY <2>1, <2>2, <2>4, <2>7, <2>8, <2>9, <1>1, <1>3, <1>4, <1>8, <1>10, <1>13, <1>15, TypesStay, ProbeKeeps
<1>17. CASE /\ broker' = [broker EXCEPT !.prepared = s, !.preparing = 0]
            /\ Probing!Goto("probe", "p_validate")
  <2>1. Steered("probe") /\ at'["probe"] = "p_validate"
    BY <1>1, <1>3, <1>17, ProbeWalks
  <2>2. /\ ThreadFits("probe")'
        /\ \A r \in Sessions : ~Finishes("probe", r)' /\ ~Closes("probe", r)' /\ ~Retries("probe", r)'
    BY <2>1, <1>1, ProbeStepFits
  <2>3. ~Closes("probe", 0)'
    BY <2>1 DEF Closes
  <2>4. broker'.prepared = s /\ broker'.preparing = 0 /\ broker'.active = 0
    BY <1>1, <1>4, <1>17 DEF Probing!Broker
  <2>5. ProbeFits'
    BY <2>1, <2>4, <1>1, <1>3, ElsewhereFits
  <2>6. ~Finishes("stop", s)'
    <3>1. at'["stop"] = at["stop"] /\ on'["stop"] = on["stop"]
      BY <2>1, <1>12 DEF Steered
    <3> QED BY <3>1, <1>13 DEF Finishes, Cancels
  <2>7. \A t \in ProbeThreads : ~Finishes(t, s)'
    BY <2>2, <2>6, <1>4, <1>12
  <2>8. BrokerFits'
    BY <2>1, <2>4, <2>7, <1>1, <1>3, <1>9, <1>11 DEF BrokerFits
  <2>9. ProbeHolds(s)
    BY <2>4, <1>1, <1>2, <1>4, <1>11 DEF ProbeHolds
  <2> QED BY <2>1, <2>2, <2>3, <2>5, <2>8, <2>9, <1>1, <1>3, <1>4, <1>8, <1>10, <1>13, <1>15, TypesStay, ProbeKeeps
<1> QED BY <1>3, <1>16, <1>17

\* The preparation failed, and nobody is at its cleanup.
LEMMA PrepareFailsKeeps ==
    ASSUME ProbesInv, Probing!PrepareFails
    PROVE  ProbesInv'
<1>1. /\ Workers /\ ProbeTypes /\ ProbeSessions /\ ProbeFits /\ BrokerFits /\ "probe" \in ProbeThreads
      /\ {"p_wait", "p_stop"} \subseteq Probing!ProbeSteps /\ "c_claim" \in ProbeAts
      /\ "p_raise" \in ProbeBacks /\ 0 \notin Sessions /\ Sessions \subseteq 0 .. MaxSessions
      /\ broker \in Probing!Broker
      /\ (at["probe"] # "p_idle" => job.outcome # "accepted" /\ ~job.met)
  BY Prober DEF Probing!ProbeSteps, ProbeTypes
<1>2. PICK s : s = on["probe"].s
  OBVIOUS
<1>3. /\ at["probe"] = "p_wait" /\ turn[s][on["probe"].g].future # "pending" /\ turn[s][1].future # "ok"
      /\ proc' = proc /\ home' = home /\ faults' = faults
      /\ own' = own /\ broker' = broker /\ care' = care /\ spare' = spare /\ latch' = latch /\ job' = job
      /\ \/ /\ care[s].listed /\ Probing!GotoWith("probe", "c_claim", s, 0, "p_raise")
            /\ loop' = loop /\ turn' = turn
         \/ ~care[s].listed /\ Stopping(s) /\ Probing!Goto("probe", "p_stop")
  BY <1>2, SameSubmissions DEF Probing!PrepareFails, Probing!Answer, Probing!Answered, Probing!Retry, Probing!records
<1>4. /\ s \in Sessions /\ broker.preparing = s /\ turn[s] # <<>> /\ on["probe"].g = 1
      /\ broker.prepared = 0 /\ broker.active = 0 /\ s \in 0 .. MaxSessions
  <2>1. s \in Sessions /\ broker.preparing = s /\ Prepared(turn[s], care[s]) /\ on["probe"].g = 1
    BY <1>1, <1>2, <1>3 DEF ProbeFits, Preparing
  <2> QED BY <2>1, <1>1, <1>3 DEF Prepared, BrokerFits
<1>5. Spoilt(turn[s])
  BY <1>3, <1>4 DEF Spoilt
<1>6. OwnMoves("probe") /\ faults' \in 0 .. ProbeMaxFaults
  BY <1>1, <1>3, OwnMoved DEF ProbeTypes
<1>7. CASE /\ care[s].listed /\ Probing!GotoWith("probe", "c_claim", s, 0, "p_raise")
           /\ loop' = loop /\ turn' = turn
  <2>1. Steered("probe") /\ at'["probe"] = "c_claim" /\ on'["probe"].s = s /\ on'["probe"].back = "p_raise"
    BY <1>1, <1>4, <1>6, <1>7, GotoWithSteers
  <2>2. Tended(0)
    BY <1>1, <1>3, <1>7, NothingTends
  <2>3. ~Closes("probe", 0)' /\ \A r \in Sessions : ~Closes("probe", r)' /\ ~Retries("probe", r)'
    BY <2>1 DEF Closes, Retries
  <2>4. at'["probe"] \in Probing!RetrySteps /\ at'["probe"] \notin Probing!FinishSteps
    BY <2>1 DEF Probing!FinishSteps, Probing!RetrySteps
  <2>5. ThreadFits("probe")'
    BY <2>1, <2>4, <1>4, <1>5, <1>7 DEF ThreadFits, RetryFits, Retries, Finishes, Cancels, Visits, Clears, Waits
  <2>6. Preparing' /\ Helping("probe")' /\ Held(on["probe"].s)'
    BY <2>1, <2>4, <1>3, <1>7 DEF Held, Preparing, Helping
  <2>7. ProbeFits'
    BY <2>1, <2>4, <2>6, <1>1, <1>3, <1>4, <1>7 DEF ProbeFits
  <2>8. BrokerFits'
    BY <1>1, <1>3, <1>4 DEF BrokerFits
  <2>9. ProbeHolds(0)
    <3>1. ~Waited(turn'[s], care'[s])
      BY <1>5, <1>7 DEF Waited, Idling, Spoilt
    <3> QED BY <3>1, <1>1, <1>2, <1>3 DEF ProbeHolds
  <2>10. care' \in [Sessions -> Probing!Cleanup]
    BY <1>1, <1>3 DEF ProbeTypes
  <2> QED BY <2>1, <2>2, <2>3, <2>5, <2>7, <2>8, <2>9, <2>10, <1>1, <1>3, <1>6, TypesStay, ProbeKeeps
<1>8. CASE ~care[s].listed /\ Stopping(s) /\ Probing!Goto("probe", "p_stop")
  <2>1. Steered("probe") /\ at'["probe"] = "p_stop" /\ on'["probe"] = on["probe"]
    BY <1>1, <1>3, <1>8, ProbeWalks
  <2>2. Handling(s) /\ Len(turn'[s]) = Len(turn[s]) /\ loop'[s].phase # "running"
    BY <1>1, <1>4, <1>8, StoppingWorks
  <2>3. Tended(0)
    BY <2>2, <1>1, <1>3, <1>4, TurnTends
  <2>4. Spoilt(turn'[s]) /\ ~Waited(turn'[s], care'[s])
    BY <2>3, <1>4, <1>5 DEF Tended, Lasts, Waited, Idling, Spoilt
  <2>5. proc[s].process # "alive" /\ home[s] # "there"
    BY <1>1, <1>3, <1>4, <1>8 DEF ProbeSessions, ProbeSession, SessionFits
  <2>6. Held(on["probe"].s)' /\ Preparing' /\ ~Helping("probe")'
    BY <2>1, <2>2, <2>5, <1>2, <1>3 DEF Held, Safe, Quit, Preparing, Helping, Probing!FinishSteps, Probing!RetrySteps
  <2>7. ProbeFits'
    BY <2>1, <2>4, <2>6, <1>1, <1>2, <1>3, <1>4 DEF ProbeFits, Spoilt
  <2> QED BY <2>1, <2>3, <2>4, <2>7, <1>1, <1>2, <1>3, <1>6, TypesStay, ProbeGoesOn
<1> QED BY <1>3, <1>7, <1>8

LEMMA PrepareRaisesKeeps ==
    ASSUME ProbesInv, Probing!PrepareRaises
    PROVE  ProbesInv'
<1>1. /\ Workers /\ ProbeTypes /\ ProbeSessions /\ ProbeFits /\ BrokerFits /\ "probe" \in ProbeThreads
      /\ {"p_raise", "p_disable"} \subseteq Probing!ProbeSteps /\ 0 \notin Sessions
      /\ broker \in Probing!Broker /\ 0 \in 0 .. MaxSessions
      /\ (at["probe"] # "p_idle" => job.outcome # "accepted" /\ ~job.met)
  BY Prober, WorkerAssumption DEF Probing!ProbeSteps, ProbeTypes
<1>2. PICK s : s = on["probe"].s
  OBVIOUS
<1>3. /\ at["probe"] = "p_raise" /\ Probing!Goto("probe", "p_disable")
      /\ broker' = [broker EXCEPT !.preparing = IF @ = s THEN 0 ELSE @]
      /\ loop' = loop /\ turn' = turn /\ proc' = proc /\ home' = home /\ faults' = faults
      /\ own' = own /\ care' = care /\ spare' = spare /\ latch' = latch /\ job' = job
  BY <1>2, SameSets DEF Probing!PrepareRaises, Probing!Unsafe, Probing!records, Probing!worker
<1>4. /\ s \in Sessions /\ broker.preparing = s /\ Held(s) /\ turn[s] # <<>>
      /\ turn[s][1].future # "pending" /\ broker.prepared = 0 /\ broker.active = 0
  <2>1. s \in Sessions /\ broker.preparing = s /\ Held(s) /\ turn[s] # <<>> /\ turn[s][1].future # "pending"
    BY <1>1, <1>2, <1>3 DEF ProbeFits, Preparing
  <2> QED BY <2>1, <1>1 DEF BrokerFits
<1>5. /\ broker' \in Probing!Broker /\ broker'.preparing = 0 /\ broker'.prepared = 0 /\ broker'.active = 0
      /\ broker'.aborted = broker.aborted
  BY <1>1, <1>3, <1>4 DEF Probing!Broker
<1>6. Steered("probe") /\ at'["probe"] = "p_disable"
  BY <1>1, <1>3, ProbeWalks
<1>7. Tended(0)
  BY <1>1, <1>3, NothingTends
<1>8. ThreadFits("probe")' /\ \A r \in Sessions : ~Closes("probe", r)' /\ ~Retries("probe", r)'
  BY <1>1, <1>6, ProbeStepFits
<1>9. ~Closes("probe", 0)'
  BY <1>6 DEF Closes
<1>10. ProbeFits'
  BY <1>1, <1>3, <1>5, <1>6, ElsewhereFits
<1>11. BrokerFits'
  BY <1>1, <1>5 DEF BrokerFits
<1>12. ProbeHolds(0)
  <2>1. Claims("probe")
    BY <1>3 DEF Claims
  <2>2. Held(s)'
    BY <2>1, <1>1, <1>4, <1>6, <1>7, HeldLasts DEF Idling
  <2> QED BY <2>2, <1>1, <1>3, <1>4 DEF ProbeHolds
<1>13. care' \in [Sessions -> Probing!Cleanup] /\ faults' \in 0 .. ProbeMaxFaults
  BY <1>1, <1>3 DEF ProbeTypes
<1> QED BY <1>1, <1>3, <1>5, <1>6, <1>7, <1>8, <1>9, <1>10, <1>11, <1>12, <1>13, TypesStay, ProbeKeeps

LEMMA SendKeeps ==
    ASSUME ProbesInv, Probing!Send
    PROVE  ProbesInv'
<1>1. /\ Workers /\ ProbeTypes /\ ProbeSessions /\ ProbeFits /\ BrokerFits /\ "probe" \in ProbeThreads
      /\ {"p_send", "p_ask"} \subseteq Probing!ProbeSteps /\ "p_ask" \in ProbeAts /\ "none" \in ProbeBacks
      /\ 0 \notin Sessions /\ broker \in Probing!Broker
      /\ \A n \in 0 .. MaxSessions : n = 0 \/ n \in Sessions
      /\ 0 \in 0 .. MaxSessions
      /\ (at["probe"] # "p_idle" => job.outcome # "accepted" /\ ~job.met)
  BY Prober, WorkerAssumption DEF Probing!ProbeSteps, ProbeTypes
<1>2. PICK s : s = broker.prepared
  OBVIOUS
<1>3. /\ at["probe"] = "p_send"
      /\ loop' = loop /\ turn' = turn /\ proc' = proc /\ home' = home /\ faults' = faults
      /\ care' = care /\ spare' = spare /\ latch' = latch /\ job' = job
      /\ \/ Probing!AbortBegins("probe") /\ broker' = broker
         \/ /\ s # 0 /\ broker' = [broker EXCEPT !.prepared = 0, !.active = s] /\ own' = own
            /\ Probing!GotoWith("probe", "p_ask", s, loop[s].submitted + 1, "none")
  BY <1>2, SameSets DEF Probing!Send, Probing!records, Probing!worker
<1>4. faults' \in 0 .. ProbeMaxFaults
  BY <1>1, <1>3 DEF ProbeTypes
<1>5. CASE Probing!AbortBegins("probe") /\ broker' = broker
  BY <1>3, <1>4, <1>5, AbortBeginsKeeps
<1>6. CASE /\ s # 0 /\ broker' = [broker EXCEPT !.prepared = 0, !.active = s] /\ own' = own
           /\ Probing!GotoWith("probe", "p_ask", s, loop[s].submitted + 1, "none")
  <2>1. s \in 0 .. MaxSessions /\ s \in Sessions
    BY <1>1, <1>2, <1>6 DEF Probing!Broker
  <2>2. /\ Ready(turn[s], care[s]) /\ ~spare[s].closing /\ broker.preparing = 0 /\ broker.active = 0
    BY <2>1, <1>1, <1>2, <1>6 DEF BrokerFits
  <2>3. ~spare[s].closed
    BY <2>1, <2>2, <1>1 DEF ProbeSessions, ProbeSession, SpareFits
  <2>4. PICK g : g = loop[s].submitted + 1
    OBVIOUS
  <2>5. g \in Nat /\ g \in 1 .. (Len(turn[s]) + 1)
    <3>1. loop[s].submitted = Len(turn[s]) /\ Len(turn[s]) \in Nat
      BY <2>1, <1>1, WorkerTypes
    <3> QED BY <3>1, <2>4
  <2>6. OwnMoves("probe")
    BY <1>1, <1>6, OwnMoved
  <2>7. Steered("probe") /\ at'["probe"] = "p_ask" /\ on'["probe"].s = s /\ on'["probe"].g = g
    BY <2>1, <2>4, <2>5, <2>6, <1>1, <1>6, GotoWithSteers
  <2>8. Tended(0)
    BY <1>1, <1>3, NothingTends
  <2>9. /\ broker' \in Probing!Broker /\ broker'.preparing = 0 /\ broker'.prepared = 0 /\ broker'.active = s
        /\ broker'.aborted = broker.aborted
    BY <2>1, <2>2, <1>1, <1>6 DEF Probing!Broker
  <2>10. ThreadFits("probe")' /\ \A r \in Sessions : ~Closes("probe", r)' /\ ~Retries("probe", r)'
    BY <2>7, <1>1, ProbeStepFits
  <2>11. ~Closes("probe", 0)'
    BY <2>7 DEF Closes
  <2>12. ~Preparing' /\ ~Helping("probe")'
    BY <2>7 DEF Preparing, Helping, Probing!FinishSteps, Probing!RetrySteps
  <2>13. ProbeFits'
    BY <2>1, <2>2, <2>5, <2>7, <2>9, <2>12, <1>1, <1>3 DEF ProbeFits
  <2>14. BrokerFits'
    BY <2>1, <2>2, <2>3, <2>7, <2>9, <1>1, <1>3 DEF BrokerFits
  <2>15. ProbeHolds(0)
    BY <2>2, <2>9, <1>1, <1>2, <1>3 DEF ProbeHolds
  <2>16. care' \in [Sessions -> Probing!Cleanup]
    BY <1>1, <1>3 DEF ProbeTypes
  <2> QED BY <2>7, <2>8, <2>9, <2>10, <2>11, <2>13, <2>14, <2>15, <2>16, <1>1, <1>3, <1>4, TypesStay, ProbeKeeps
<1> QED BY <1>3, <1>5, <1>6

LEMMA SendSubmitKeeps ==
    ASSUME ProbesInv, Probing!SendSubmit
    PROVE  ProbesInv'
<1>1. /\ Workers /\ ProbeTypes /\ ProbeSessions /\ ProbeFits /\ BrokerFits /\ "probe" \in ProbeThreads
      /\ {"p_ask", "p_asked"} \subseteq Probing!ProbeSteps /\ 0 \notin Sessions
      /\ (at["probe"] # "p_idle" => job.outcome # "accepted" /\ ~job.met)
  BY Prober DEF Probing!ProbeSteps
<1>2. PICK s : s = on["probe"].s
  OBVIOUS
<1>3. /\ at["probe"] = "p_ask" /\ Submit(s, "ask") /\ Probing!Goto("probe", "p_asked")
      /\ proc' = proc /\ home' = home /\ faults' = faults /\ own' = own /\ broker' = broker
      /\ care' = care /\ spare' = spare /\ latch' = latch /\ job' = job
  BY <1>2, SameSubmissions DEF Probing!SendSubmit, Probing!records
<1>4. /\ s \in Sessions /\ Ready(turn[s], care[s]) /\ (s = broker.active \/ spare[s].closing)
      /\ on["probe"].g \in 1 .. (Len(turn[s]) + 1)
  BY <1>1, <1>2, <1>3 DEF ProbeFits
<1>5. turn[s] # <<>> /\ loop[s].phase # "none" /\ Len(turn[s]) \in Nat
  BY <1>1, <1>4, WorkerTypes DEF Ready
<1>6. Steered("probe") /\ at'["probe"] = "p_asked" /\ on'["probe"] = on["probe"]
  BY <1>1, <1>3, ProbeWalks
<1>7. /\ Handling(s) /\ Len(turn'[s]) = Len(turn[s]) + 1 /\ turn'[s][Len(turn[s]) + 1].kind = "ask"
      /\ turn'[s][Len(turn[s]) + 1].at \in {"queued", "done"} /\ turn'[s][Len(turn[s]) + 1].future # "ok"
  <2>1. "ask" \in Kinds
    BY DEF Kinds
  <2> QED BY <2>1, <1>1, <1>3, <1>4, <1>5, SubmitWorks
<1>8. Submitted(turn[s], turn'[s])
  BY <1>4, <1>5, <1>7 DEF Submitted, Ready
<1>9. Tended(0)
  <2>1. home' \in [Sessions -> {"none", "there", "gone"}] /\ care' \in [Sessions -> Probing!Cleanup]
    BY <1>1, <1>3 DEF Workers, ProbeTypes
  <2>2. \A r \in Sessions : RecordsSame(r)
    BY <1>3 DEF RecordsSame
  <2>3. /\ spare[s].closing => spare'[s].closing
        /\ spare[s].closed => spare'[s] = spare[s]
        /\ care'[s].listed => care[s].listed
        /\ care[s].listed => care'[s].listed
    BY <1>3
  <2> QED BY <2>1, <2>2, <2>3, <1>1, <1>3, <1>4, <1>5, <1>7, <1>8, ThreadTends
<1>10. ~Preparing' /\ ~Helping("probe")'
  BY <1>6 DEF Preparing, Helping, Probing!FinishSteps, Probing!RetrySteps
<1>11. broker.preparing = 0
  BY <1>1, <1>3, NonePreparing
<1>12. Ready(turn'[s], care'[s])
  BY <1>4, <1>9 DEF Tended, Lasts
<1>13. ProbeFits'
  BY <1>1, <1>2, <1>3, <1>4, <1>5, <1>6, <1>7, <1>10, <1>11, <1>12 DEF ProbeFits
<1>14. faults' \in 0 .. ProbeMaxFaults
  BY <1>1, <1>3 DEF ProbeTypes
<1> QED BY <1>1, <1>3, <1>6, <1>9, <1>13, <1>14, TypesStay, ProbeGoesOn

LEMMA SendAnsweredKeeps ==
    ASSUME ProbesInv, Probing!SendAnswered
    PROVE  ProbesInv'
<1>1. /\ Workers /\ ProbeTypes /\ ProbeSessions /\ ProbeFits /\ BrokerFits /\ "probe" \in ProbeThreads
      /\ "p_asked" \in Probing!ProbeSteps /\ "f_claim" \in ProbeAts /\ "p_judge" \in ProbeBacks
      /\ 0 \notin Sessions /\ Sessions \subseteq 0 .. MaxSessions
      /\ (at["probe"] # "p_idle" => job.outcome # "accepted" /\ ~job.met)
  BY Prober DEF Probing!ProbeSteps
<1>2. PICK s : s = on["probe"].s
  OBVIOUS
<1>3. /\ at["probe"] = "p_asked" /\ Probing!GotoWith("probe", "f_claim", s, 0, "p_judge")
      /\ loop' = loop /\ turn' = turn /\ proc' = proc /\ home' = home /\ faults' = faults
      /\ own' = own /\ broker' = broker /\ care' = care /\ spare' = spare /\ latch' = latch
      /\ \E answer \in {"none", "output", "raise"} : job' = [job EXCEPT !.answer = answer]
  BY <1>2 DEF Probing!SendAnswered, Probing!Finish, Probing!records, Probing!worker
<1>4. s \in Sessions /\ Ready(turn[s], care[s]) /\ s \in 0 .. MaxSessions
  BY <1>1, <1>2, <1>3 DEF ProbeFits
<1>5. OwnMoves("probe")
  BY <1>1, <1>3, OwnMoved
<1>6. Steered("probe") /\ at'["probe"] = "f_claim" /\ on'["probe"].s = s /\ on'["probe"].back = "p_judge"
  BY <1>1, <1>3, <1>4, <1>5, GotoWithSteers
<1>7. Tended(0)
  BY <1>1, <1>3, NothingTends
<1>8. ~Closes("probe", 0)' /\ \A r \in Sessions : ~Closes("probe", r)' /\ ~Retries("probe", r)'
  BY <1>6 DEF Closes, Retries
<1>9. at'["probe"] \in Probing!FinishSteps /\ at'["probe"] \notin Probing!RetrySteps
  BY <1>6 DEF Probing!FinishSteps, Probing!RetrySteps
<1>10. ThreadFits("probe")'
  BY <1>3, <1>4, <1>6, <1>9 DEF ThreadFits, FinishFits, Finishes, Closes, Cancels, Visits, Clears, Waits
<1>11. broker.preparing = 0
  BY <1>1, <1>3, NonePreparing DEF Probing!ProbeSteps
<1>12. /\ job' \in [left : 0 .. Jobs, answer : {"none", "output", "raise"}, outcome : Probing!Outcomes,
                    met : BOOLEAN]
       /\ job'.outcome = job.outcome /\ job'.met = job.met
  BY <1>1, <1>3 DEF ProbeTypes
<1>13. ProbeFits'
  <2>1. ~Preparing'
    BY <1>6 DEF Preparing, Helping
  <2>2. at'["probe"] = "f_claim" /\ on'["probe"].back # "p_raise"
    BY <1>6
  <2> QED BY <2>1, <2>2, <1>1, <1>3, <1>11, <1>12 DEF ProbeFits
<1>14. BrokerFits'
  <2>1. ASSUME NEW r \in Sessions
        PROVE  /\ r # broker'.prepared
               /\ r = broker'.active =>
                     /\ ~spare'[r].closed
                     /\ \/ at'["probe"] \in Probing!FinishSteps
                           /\ on'["probe"].back = "p_judge" /\ on'["probe"].s = r
                        \/ spare'[r].closing
    BY <1>1, <1>2, <1>3, <1>6, <1>9 DEF BrokerFits, Probing!FinishSteps
  <2> QED BY <2>1, <1>1, <1>3, <1>6, <1>7, BrokerStays
<1>15. ProbeHolds(0)
  BY <1>1, <1>3 DEF ProbeHolds
<1>16. /\ care' \in [Sessions -> Probing!Cleanup] /\ faults' \in 0 .. ProbeMaxFaults
       /\ broker' \in Probing!Broker /\ latch' \in [memory : BOOLEAN, disk : BOOLEAN]
  BY <1>1, <1>3 DEF ProbeTypes
<1> QED BY <1>1, <1>3, <1>6, <1>7, <1>8, <1>10, <1>12, <1>13, <1>14, <1>15, <1>16, ProbeKeeps

\* The review is stopped.
LEMMA StopReviewKeeps ==
    ASSUME ProbesInv, Probing!StopReview
    PROVE  ProbesInv'
<1>1. /\ Workers /\ ProbeTypes /\ ProbeSessions /\ ProbeFits /\ StopFits /\ BrokerFits /\ SessionsHeld
      /\ ThreadFits("probe") /\ "probe" \in ProbeThreads /\ "stop" \in ProbeThreads /\ "probe" # "stop"
      /\ \A u \in ProbeThreads : u = "probe" \/ u = "stop"
      /\ "b_flag" \in ProbeAts /\ 0 \notin Sessions
  BY Prober DEF ProbesInv, ProbeThreads
<1>2. /\ at["stop"] = "idle" /\ Probing!Goto("stop", "b_flag")
      /\ own' = [own EXCEPT !["stop"] = Probing!Fresh]
      /\ loop' = loop /\ turn' = turn /\ proc' = proc /\ home' = home /\ faults' = faults
      /\ broker' = broker /\ care' = care /\ spare' = spare /\ latch' = latch /\ job' = job
  BY DEF Probing!StopReview, Probing!AbortBegins, Probing!Goto, Probing!records, Probing!worker
<1>3. OwnMoves("stop") /\ own'["stop"].result = "none"
  BY <1>1, <1>2, FreshOwn
<1>4. /\ Steered("stop") /\ at'["stop"] = "b_flag"
      /\ at'["probe"] = at["probe"] /\ on'["probe"] = on["probe"] /\ own'["probe"] = own["probe"]
  BY <1>1, <1>2, <1>3, GotoSteers DEF Steered
<1>5. Tended(0)
  BY <1>1, <1>2, NothingTends
<1>6. /\ ThreadFits("stop")'
      /\ \A r \in Sessions : ~Finishes("stop", r)' /\ ~Closes("stop", r)' /\ ~Retries("stop", r)'
  BY <1>1, <1>4, ProbeStepFits
<1>7. Alone("stop") /\ Claims("stop")
  BY <1>2, <1>6 DEF Alone, Claims
<1>8. ThreadFits("probe")'
  BY <1>1, <1>2, <1>4, <1>5, <1>7, Bystander
<1>9. ProbeFits'
  BY <1>1, <1>2, <1>4, <1>5, <1>7, ProbeStays
<1>10. StopFits'
  BY <1>1, <1>4 DEF StopFits, Helping, Probing!ProbeSteps, Probing!FinishSteps, Probing!RetrySteps
<1>11. BrokerFits'
  <2>1. ASSUME NEW r \in Sessions
        PROVE  /\ r = broker'.prepared =>
                     /\ at'["probe"] \in {"p_validate", "p_send", "b_flag"}
                     /\ ~spare'[r].closing /\ ~Finishes("stop", r)'
               /\ r = broker'.active =>
                     /\ ~spare'[r].closed
                     /\ \/ at'["probe"] \in {"p_ask", "p_asked"} /\ on'["probe"].s = r
                        \/ /\ at'["probe"] \in Probing!FinishSteps
                           /\ on'["probe"].back = "p_judge" /\ on'["probe"].s = r
                        \/ spare'[r].closing
    BY <1>1, <1>2, <1>4, <1>6 DEF BrokerFits
  <2> QED BY <2>1, <1>1, <1>2, <1>4, <1>5, BrokerStays
<1>12. SessionsHeld'
  <2>1. \A r \in Sessions : ~Closes("stop", r)
    BY <1>2 DEF Closes
  <2> QED BY <2>1, <1>1, <1>2, <1>4, <1>5, <1>7, SessionsStayHeld
<1>13. Acknowledged'
  BY <1>3 DEF Acknowledged
<1>14. ProbeTypes'
  BY <1>1, <1>2, <1>4 DEF ProbeTypes, Steered
<1>15. \A u \in ProbeThreads : ThreadFits(u)'
  BY <1>1, <1>6, <1>8
<1>16. Workers' /\ ProbeSessions'
  BY <1>5 DEF Tended
<1> QED BY <1>9, <1>10, <1>11, <1>12, <1>13, <1>14, <1>15, <1>16 DEF ProbesInv

------------------------------------------------------------------------------
(* The probes, whatever happens.                                              *)

LEMMA ProbesStart ==
    ASSUME Probing!Init
    PROVE  ProbesInv
<1>1. /\ loop = [s \in Sessions |-> [phase |-> "none", submitted |-> 0, completed |-> 0,
                                     active |-> 0, wanted |-> FALSE]]
      /\ turn = [s \in Sessions |-> <<>>]
      /\ proc = [s \in Sessions |-> [process |-> "none", closing |-> FALSE]]
      /\ home = [s \in Sessions |-> "none"] /\ faults = 0
      /\ at = [t \in ProbeThreads |-> IF t = "probe" THEN "p_idle" ELSE "idle"]
      /\ on = [t \in ProbeThreads |-> [s |-> 0, g |-> 0, back |-> "none"]]
      /\ own = [t \in ProbeThreads |-> Probing!Fresh]
      /\ broker = [aborted |-> FALSE, preparing |-> 0, prepared |-> 0, active |-> 0]
      /\ care = [s \in Sessions |-> [listed |-> FALSE, owner |-> "none", closed |-> FALSE,
                                     cleaned |-> FALSE, complete |-> FALSE]]
      /\ spare = [s \in Sessions |-> [closing |-> FALSE, closed |-> FALSE, ok |-> FALSE]]
      /\ latch = [memory |-> FALSE, disk |-> FALSE]
      /\ job = [left |-> Jobs, answer |-> "none", outcome |-> "none", met |-> FALSE]
  BY SameSets DEF Probing!Init, Probing!WorkerInit, Probing!Threads, ProbeThreads
<1>2. /\ "probe" \in ProbeThreads /\ "stop" \in ProbeThreads /\ 0 \in 0 .. MaxSessions /\ 0 \notin Sessions
      /\ 0 \in 0 .. ProbeMaxFaults /\ Jobs \in 0 .. Jobs
      /\ \A u \in ProbeThreads : u = "probe" \/ u = "stop"
  BY WorkerAssumption, ProbesAssumption DEF ProbeThreads, Sessions
<1>3. Workers
  <2>1. \A s \in Sessions : loop[s] \in Worker /\ loop[s].phase = "none" /\ loop[s].submitted = 0
                            /\ loop[s].active = 0 /\ loop[s].completed = 0 /\ turn[s] = <<>>
    BY <1>1 DEF Worker, Phases
  <2>2. loop \in [Sessions -> Worker]
    BY <1>1 DEF Worker, Phases
  <2>3. turn \in [Sessions -> Seq(Turn)] /\ Len(<<>>) = 0
    BY <1>1, EmptySeq
  <2>4. proc \in [Sessions -> Processes] /\ home \in [Sessions -> {"none", "there", "gone"}]
    BY <1>1 DEF Processes
  <2> QED BY <2>1, <2>2, <2>3, <2>4, EmptySeq DEF Workers, WorkerFits
<1>4. ProbeTypes
  <2>1. Probing!Fresh \in Probing!Own
    BY DEF Probing!Fresh, Probing!Own
  <2>2. own \in [ProbeThreads -> Probing!Own]
    BY <2>1, <1>1
  <2>3. {"p_idle", "idle"} \subseteq ProbeAts /\ "none" \in ProbeBacks
    BY DEF ProbeAts, ProbeBacks, Probing!ProbeSteps
  <2>4. at \in [ProbeThreads -> ProbeAts] /\ on \in [ProbeThreads -> [s : 0 .. MaxSessions, g : Nat, back : ProbeBacks]]
    BY <2>3, <1>1, <1>2
  <2>5. broker \in Probing!Broker
    BY <1>1, <1>2 DEF Probing!Broker
  <2>6. care \in [Sessions -> Probing!Cleanup] /\ spare \in [Sessions -> Probing!Spare]
    BY <1>1 DEF Probing!Cleanup, Probing!Spare
  <2>7. latch \in [memory : BOOLEAN, disk : BOOLEAN]
    BY <1>1
  <2>8. job \in [left : 0 .. Jobs, answer : {"none", "output", "raise"}, outcome : Probing!Outcomes,
                 met : BOOLEAN]
    BY <1>1, <1>2 DEF Probing!Outcomes
  <2> QED BY <2>2, <2>4, <2>5, <2>6, <2>7, <2>8, <1>1, <1>2 DEF ProbeTypes
<1>5. ASSUME NEW s \in Sessions
      PROVE  /\ turn[s] = <<>> /\ ~care[s].listed /\ ~spare[s].closing
             /\ ProbeSession(loop[s], turn[s], proc[s], home[s], care[s], spare[s])
             /\ Quit(loop[s], proc[s], home[s])
  <2>1. /\ turn[s] = <<>> /\ Len(turn[s]) = 0 /\ loop[s].phase = "none" /\ proc[s].process = "none"
        /\ ~proc[s].closing /\ home[s] = "none"
        /\ ~care[s].listed /\ ~care[s].closed /\ ~care[s].complete /\ care[s].owner = "none"
        /\ ~spare[s].closing /\ ~spare[s].closed /\ ~spare[s].ok
    BY <1>1, EmptySeq
  <2>2. ProbeTurns(turn[s])
    BY <2>1 DEF ProbeTurns
  <2>3. SessionFits(turn[s], proc[s], home[s], care[s])
    BY <2>1 DEF SessionFits
  <2> QED BY <2>1, <2>2, <2>3 DEF ProbeSession, SpareFits, Quit
<1>6. /\ at["probe"] = "p_idle" /\ at["stop"] = "idle" /\ own["stop"].result = "none"
      /\ job.outcome = "none" /\ ~job.met
      /\ broker.preparing = 0 /\ broker.prepared = 0 /\ broker.active = 0
  BY <1>1, <1>2 DEF Probing!Fresh
<1>7. \A t \in ProbeThreads : ThreadFits(t)
  <2>1. \A t \in ProbeThreads : at[t] \in {"p_idle", "idle"}
    BY <1>2, <1>6
  <2> QED BY <2>1 DEF ThreadFits, Finishes, Cancels, Visits, Clears, Waits, Probing!FinishSteps, Probing!RetrySteps
<1>8. ProbeFits
  BY <1>6 DEF ProbeFits, Preparing, Helping, Probing!FinishSteps, Probing!RetrySteps
<1>9. StopFits
  BY <1>6 DEF StopFits, Helping, Probing!FinishSteps, Probing!RetrySteps, Probing!ProbeSteps
<1>10. BrokerFits
  BY <1>2, <1>6 DEF BrokerFits
<1>11. SessionsHeld
  BY <1>5 DEF SessionsHeld, Waited, Idling, Held, Safe
<1>12. Acknowledged
  BY <1>6 DEF Acknowledged
<1>13. ProbeSessions
  BY <1>5 DEF ProbeSessions
<1> QED BY <1>3, <1>4, <1>7, <1>8, <1>9, <1>10, <1>11, <1>12, <1>13 DEF ProbesInv

\* A step in which nothing happens.
ProbesRest ==
    UNCHANGED <<loop, turn, proc, home, faults, at, on, own, broker, care, spare, latch, job>>
LEMMA ProbesStutter ==
    ASSUME ProbesInv, ProbesRest
    PROVE  ProbesInv'
<1>1. Workers'
  BY DEF ProbesInv, ProbesRest, Workers
<1>2. ProbeTypes'
  BY DEF ProbesInv, ProbesRest, ProbeTypes
<1>3. ProbeSessions'
  BY DEF ProbesInv, ProbesRest, ProbeSessions
<1>4. \A t \in ProbeThreads : ThreadFits(t)'
  BY DEF ProbesInv, ProbesRest, ThreadFits, FinishFits, RetryFits, Closes, Retries, Finishes, Cancels,
     Visits, Clears, Waits
<1>5. ProbeFits'
  BY DEF ProbesInv, ProbesRest, ProbeFits, Preparing, Helping, Held, Safe, Handed
<1>6. StopFits'
  BY DEF ProbesInv, ProbesRest, StopFits, Helping
<1>7. BrokerFits'
  BY DEF ProbesInv, ProbesRest, BrokerFits, Finishes, Cancels
<1>8. SessionsHeld'
  BY DEF ProbesInv, ProbesRest, SessionsHeld, Held, Safe, Handed, Closes
<1>9. Acknowledged'
  BY DEF ProbesInv, ProbesRest, Acknowledged, Safe, Handed
<1> QED BY <1>1, <1>2, <1>3, <1>4, <1>5, <1>6, <1>7, <1>8, <1>9 DEF ProbesInv

LEMMA ProbesStep ==
    ASSUME ProbesInv, Probing!Next
    PROVE  ProbesInv'
<1>1. Probing!Threads = ProbeThreads
  BY DEF Probing!Threads, ProbeThreads
<1>2. CASE Probing!SessionMoves
  BY <1>2, SessionsKeepInv
<1>3. CASE Probing!ProbeStep
  BY <1>3, RunNextKeeps, PrepareKeeps, PrepareStopsKeeps, PrepareSubmitKeeps, PrepareReadyKeeps,
     PrepareFailsKeeps, PrepareRaisesKeeps, ValidateBoundaryKeeps, SendKeeps, SendSubmitKeeps,
     SendAnsweredKeeps, SendJudgeKeeps, DisableKeeps DEF Probing!ProbeStep
<1>4. CASE Probing!StopReview
  BY <1>4, StopReviewKeeps
<1>5. ASSUME NEW t \in ProbeThreads,
             \/ Probing!FinishStep(t) \/ Probing!RetryStep(t) \/ Probing!AbortStep(t)
             \/ Probing!DeadlinePasses(t) \/ Probing!TurnDeadline(t)
      PROVE  ProbesInv'
  <2>1. CASE Probing!FinishStep(t)
    BY <2>1, FinishClaimKeeps, FinishWaitKeeps, FinishCloseKeeps, FinishStopKeeps DEF Probing!FinishStep
  <2>2. CASE Probing!RetryStep(t)
    BY <2>2, RetryClaimKeeps, RetryClosedKeeps, RetryEraseKeeps, RetryStopKeeps DEF Probing!RetryStep
  <2> QED BY <2>1, <2>2, <1>5, AbortStepKeeps, DeadlinePassesKeeps, TurnDeadlineKeeps
<1>6. CASE Probing!Over
  BY <1>6, ProbesStutter DEF Probing!Over, ProbesRest, Probing!vars, Probing!worker, Probing!threads, Probing!records
<1> QED BY <1>1, <1>2, <1>3, <1>4, <1>5, <1>6 DEF Probing!Next, Probing!ThreadStep

\* The invariant of the probes holds in every behaviour that is one of theirs.
ProbesHold == part = "probes" => ProbesInv
THEOREM ProbesInvariant == BothSpec => []ProbesHold
<1>1. BothInit => ProbesHold
  BY ProbesStart DEF BothInit, ProbesHold
<1>2. ProbesHold /\ [BothNext]_<<part, vars, probesOnly>> => ProbesHold'
  <2> SUFFICES ASSUME ProbesHold, [BothNext]_<<part, vars, probesOnly>>, part' = "probes"
               PROVE  ProbesInv'
    BY DEF ProbesHold
  <2>1. CASE BothNext
    <3>1. part = "probes" /\ Probing!Next
      BY <2>1 DEF BothNext
    <3> QED BY <3>1, ProbesStep DEF ProbesHold
  <2>2. CASE UNCHANGED <<part, vars, probesOnly>>
    <3>1. part = "probes" /\ ProbesRest
      BY <2>2 DEF ProbesRest, vars, probesOnly, worker, threads, records
    <3> QED BY <3>1, ProbesStutter DEF ProbesHold
  <2> QED BY <2>1, <2>2
<1> QED BY <1>1, <1>2, PTL DEF BothSpec

------------------------------------------------------------------------------
(* What the broker promises.                                                 *)

\* No thread starts a process: only a coroutine does.
LEMMA ThreadsStartNone ==
    ASSUME Probing!ThreadStep \/ Probing!Over
    PROVE  proc' = proc
<1>1. CASE Probing!ProbeStep
  BY <1>1 DEF Probing!ProbeStep, Probing!RunNext, Probing!Prepare, Probing!PrepareStops,
     Probing!PrepareSubmit, Probing!PrepareReady, Probing!PrepareFails, Probing!PrepareRaises,
     Probing!ValidateBoundary, Probing!Send, Probing!SendSubmit, Probing!SendAnswered,
     Probing!SendJudge, Probing!Disable, Probing!worker
<1>2. CASE Probing!StopReview
  BY <1>2 DEF Probing!StopReview, Probing!worker
<1>3. ASSUME NEW t \in Probing!Threads, Probing!FinishStep(t) \/ Probing!RetryStep(t)
      PROVE  proc' = proc
  BY <1>3 DEF Probing!FinishStep, Probing!FinishClaim, Probing!FinishWait, Probing!FinishClose,
     Probing!FinishStop, Probing!RetryStep, Probing!RetryClaim, Probing!RetryClosed,
     Probing!RetryErase, Probing!RetryStop, Probing!worker
<1>4. ASSUME NEW t \in Probing!Threads,
             Probing!AbortStep(t) \/ Probing!DeadlinePasses(t) \/ Probing!TurnDeadline(t)
      PROVE  proc' = proc
  BY <1>4 DEF Probing!AbortStep, Probing!AbortFlag, Probing!AbortCancel, Probing!CancelNext,
     Probing!CancelEnds, Probing!AbortFinish, Probing!AbortClosed, Probing!AbortPrepared,
     Probing!AbortInflight, Probing!AbortEach, Probing!AbortJudge, Probing!DeadlinePasses,
     Probing!TurnDeadline, Probing!worker
<1>5. CASE Probing!Over
  BY <1>5 DEF Probing!Over, Probing!vars, Probing!worker
<1> QED BY <1>1, <1>2, <1>3, <1>4, <1>5 DEF Probing!ThreadStep

\* A coroutine starts one only for a preparation that is waited for, and a boundary that
\* was found unsafe leaves nobody waiting.
LEMMA UnsafeStartsNone ==
    ASSUME ProbesInv, job.met, Probing!Next
    PROVE  Probing!NoneStarted
<1>1. CASE Probing!SessionMoves
  <2>1. \E s \in Sessions : Serving(s)
    BY <1>1, ProbingMoves DEF ProbesInv
  <2> SUFFICES ASSUME NEW r \in Sessions, proc[r].process = "none", proc'[r].process # "none"
               PROVE  FALSE
    BY SameSets DEF Probing!NoneStarted
  <2>2. Serves(loop[r], turn[r], proc[r], home[r], care[r],
               loop'[r], turn'[r], proc'[r], home'[r], care'[r])
    BY <2>1 DEF Serving
  <2>3. Waited(turn[r], care[r])
    BY <2>2 DEF Serves, Waited
  <2>4. at["probe"] = "p_wait"
    BY <2>3 DEF ProbesInv, SessionsHeld
  <2>5. at["probe"] = "p_idle"
    BY DEF ProbesInv, ProbeFits
  <2> QED BY <2>4, <2>5
<1>2. CASE Probing!ThreadStep \/ Probing!Over
  BY <1>2, ThreadsStartNone DEF Probing!NoneStarted
<1> QED BY <1>1, <1>2 DEF Probing!Next

\* After an unsafe boundary no probe process is started (_disable_boundary, run).
THEOREM UnsafeEnds == BothSpec => UnsafeEndsProbing
<1>1. ProbesHold /\ [BothNext]_<<part, vars, probesOnly>> =>
          [part = "probes" /\ job.met => Probing!NoneStarted]_<<part, vars, probesOnly>>
  <2> SUFFICES ASSUME ProbesHold, BothNext, part = "probes", job.met
               PROVE  Probing!NoneStarted
    OBVIOUS
  <2>1. ProbesInv /\ Probing!Next
    BY DEF ProbesHold, BothNext
  <2> QED BY <2>1, UnsafeStartsNone
<1> QED BY <1>1, ProbesInvariant, PTL DEF BothSpec, UnsafeEndsProbing

\* When the review's abort of the probes says that it cleaned up, every session was let go
\* of or handed to the one close it gets (abort).
THEOREM ProbesHandled == BothSpec => [](part = "probes" => AcknowledgedMeansHandled)
<1>1. ProbesHold => (part = "probes" => AcknowledgedMeansHandled)
  <2> SUFFICES ASSUME ProbesInv, part = "probes"
               PROVE  Probing!AcknowledgedMeansClosed
    BY DEF ProbesHold, AcknowledgedMeansHandled
  <2>1. Probing!Threads = ProbeThreads
    BY DEF Probing!Threads, ProbeThreads
  <2> QED BY <2>1, SameSets DEF ProbesInv, Acknowledged, Safe, Quit, Handed,
             Probing!AcknowledgedMeansClosed, Probing!LetGo, Probing!HandedOver
<1> QED BY <1>1, ProbesInvariant, PTL

\* An output counts only once the process of its session is dead, its home is gone and its
\* worker has stopped (send).
THEOREM ProbesAnswered == BothSpec => [](part = "probes" => AnsweredAfterCleanup)
<1>1. ProbesHold => (part = "probes" => AnsweredAfterCleanup)
  <2> SUFFICES ASSUME ProbesInv, part = "probes", job.outcome = "accepted"
               PROVE  LET s == on["probe"].s
                      IN ~Probing!ProcessAlive(s) /\ home[s] = "gone" /\ Probing!Stopped(s)
    BY DEF ProbesHold, AnsweredAfterCleanup, Probing!AcceptedAfterCleanup
  <2>1. PICK s : s = on["probe"].s
    OBVIOUS
  <2>2. s \in Sessions /\ spare[s].closed /\ spare[s].ok
    BY <2>1 DEF ProbesInv, ProbeFits
  <2>3. SpareFits(loop[s], turn[s], proc[s], home[s], care[s], spare[s])
    BY <2>2 DEF ProbesInv, ProbeSessions, ProbeSession
  <2> QED BY <2>1, <2>2, <2>3 DEF SpareFits, Gone, Probing!ProcessAlive, Probing!Stopped
<1> QED BY <1>1, ProbesInvariant, PTL

\* The types that the run checks are those of the invariant.
LEMMA ProbesTyped ==
    ASSUME ProbesInv
    PROVE  Probing!ProbeTypeOK
<1>1. /\ Probing!Threads = ProbeThreads /\ Probing!Sessions = Sessions
      /\ Probing!Turn = Turn /\ Probing!Worker = Worker
      /\ Probing!FinishSteps \cup Probing!RetrySteps \cup Probing!AbortSteps \cup Probing!ProbeSteps
            \cup {"idle", "over"} = ProbeAts
  BY SameSets DEF Probing!Threads, ProbeThreads, ProbeAts
<1>2. \A s \in Sessions : /\ loop[s].submitted = Len(turn[s])
                          /\ loop[s].active <= loop[s].submitted
                          /\ loop[s].completed <= loop[s].submitted
  <2> TAKE s \in Sessions
  <2>1. /\ loop[s].submitted = Len(turn[s]) /\ Len(turn[s]) \in Nat
        /\ loop[s].active \in 0 .. Len(turn[s]) /\ loop[s].completed \in 0 .. Len(turn[s])
    BY WorkerTypes DEF ProbesInv
  <2> QED BY <2>1
<1>3. Probing!WorkerTypeOK
  BY <1>1, <1>2 DEF ProbesInv, Workers, ProbeTypes, Probing!WorkerTypeOK, Processes
<1> QED BY <1>1, <1>3 DEF ProbesInv, ProbeTypes, Probing!ProbeTypeOK, ProbeBacks

\* Between probes a session that was not let go of is in flight, or its close has failed.
LEMMA ProbesInSight ==
    ASSUME ProbesInv
    PROVE  Probing!ProbesKeptInSight
<1> SUFFICES ASSUME at["probe"] = "p_idle", at["stop"] \in {"idle", "over"}, NEW s \in Sessions
             PROVE  Probing!LetGo(s) \/ s \in Probing!Inflight \/ Probing!CloseFailed(s)
  BY SameSets DEF Probing!ProbesKeptInSight, Probing!AtRest
<1>1. \A t \in ProbeThreads : ~Closes(t, s) /\ at[t] # "f_claim"
  BY DEF Closes, ProbeThreads
<1>2. SpareFits(loop[s], turn[s], proc[s], home[s], care[s], spare[s])
  BY DEF ProbesInv, ProbeSessions, ProbeSession
<1>3. spare[s].closing => spare[s].closed
  BY <1>1 DEF ProbesInv, SessionsHeld
<1>4. broker.preparing = 0 /\ 0 \notin Sessions
  BY NonePreparing DEF ProbesInv, Probing!ProbeSteps, Sessions
<1>5. s # broker.prepared
  BY DEF ProbesInv, BrokerFits
<1>6. s # broker.active
  BY <1>3 DEF ProbesInv, BrokerFits, Probing!FinishSteps
<1>7. Held(s)
  BY <1>4, <1>5, <1>6 DEF ProbesInv, SessionsHeld
<1>8. CASE Quit(loop[s], proc[s], home[s])
  BY <1>8 DEF Quit, Probing!LetGo
<1>9. CASE spare[s].closing
  BY <1>2, <1>3, <1>9 DEF SpareFits, Gone, Probing!LetGo, Probing!CloseFailed
<1>10. CASE care[s].listed
  BY <1>10, SameSets DEF Probing!Inflight
<1> QED BY <1>1, <1>7, <1>8, <1>9, <1>10 DEF Held, Safe, Handed

\* Between probes no session is lost sight of, in a state of the right type (prepare,
\* send, _retry_inflight_cleanup).
THEOREM ProbesInView == BothSpec => [](part = "probes" => SessionsKeptInSight)
<1>1. ProbesHold => (part = "probes" => SessionsKeptInSight)
  BY ProbesTyped, ProbesInSight DEF ProbesHold, SessionsKeptInSight
<1> QED BY <1>1, ProbesInvariant, PTL
==============================================================================
