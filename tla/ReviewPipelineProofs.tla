------------------------ MODULE ReviewPipelineProofs ------------------------
(***************************************************************************)
(* Theorems about ReviewPipeline, for any number of exchanges, deltas and  *)
(* risks, any size of the queue and any set of faults.                     *)
(*                                                                         *)
(* What was journalled of the exchanges says where the review stands: the  *)
(* journal is in order (InOrder), and the next record the worker owes is   *)
(* the one the complete review has next (Partly, Through). That one is     *)
(* known because the queue and the worker hold the last of the committed   *)
(* exchanges without a gap (Queued). Of a risk the invariant counts the    *)
(* records (Counts) and says who has it in hand (Tried, Settled), which is *)
(* what keeps two threads from ending the same probe twice and a risk from *)
(* being left over.                                                        *)
(***************************************************************************)
EXTENDS MCReviewPipeline, FiniteSetTheorems, SequenceTheorems, TLAPS

Recs == Seq(Record)
Journals == [records : Recs, readable : BOOLEAN]
ProbeTypes == {"job", "rejection", "outcome", "cancellation"}

------------------------------------------------------------------------------
(* The invariant.                                                          *)

\* No record of an exchange follows place i.
LastAt(s, i) == \A l \in i + 1..Len(s) : s[l].type \notin ExchangeRecords

\* The exchange records of a journal s are a beginning of the complete review of c exchanges.
InOrder(s, c) ==
    \A i \in 1..Len(s) : s[i].type \in ExchangeRecords =>
      /\ s[i].of \in 1..c
      /\ \E k \in 0..i - 1 :
           /\ \A l \in k + 1..i - 1 : s[l].type \notin ExchangeRecords
           /\ IF k = 0 THEN Begins(s[i]) ELSE Succeeds(s[k], s[i])

\* x is what the complete review has next.
Ready(s, x) ==
    \E k \in 0..Len(s) : LastAt(s, k) /\ IF k = 0 THEN Begins(x) ELSE Succeeds(s[k], x)

Held(s, type, n) == \E i \in 1..Len(s) : s[i] = [type |-> type, of |-> n]
Whole(s, m) == \A n \in 1..m : \A type \in Range(StagesOf(n)) : Held(s, type, n)

\* Exchanges 1..m have been reviewed, and that is all.
Through(s, m) ==
    /\ Whole(s, m)
    /\ \E k \in 0..Len(s) :
         LastAt(s, k) /\ IF k = 0 THEN m = 0 ELSE s[k] = [type |-> "findings", of |-> m]

\* Of exchange n the stages todo are left.
Partly(s, n, todo) ==
    /\ Whole(s, n - 1)
    /\ \A type \in Range(StagesOf(n)) \ Range(todo) : Held(s, type, n)
    /\ Ready(s, [type |-> Head(todo), of |-> n])

\* The exchange the worker has in hand, or had last.
Base == committed - Len(queue) - (IF ledgerDown THEN 1 ELSE 0)

\* What a worker may have left to journal of an exchange, and of a probe.
Full == <<"lineage", "projection", "role", "transcript", "extraction", "findings">>
Rests == {Stages, <<"role", "transcript", "extraction", "findings">>,
          <<"transcript", "extraction", "findings">>, <<"extraction", "findings">>,
          <<"findings">>}
RestsOf(n) == IF n \in Deltas THEN Rests \cup {Full} ELSE Rests
Answers == {<<"outcome">>, <<"outcome", "verified">>, <<"disabled", "outcome">>}
Asks == {<<"job">>, <<"verified">>} \cup Answers

Staging(w) == w.pc = "deriving" /\ w.todo \in RestsOf(w.item)
Asking(w, todos) == w.pc = "deriving" /\ w.todo \in todos
\* A job that has no outcome yet.
Pending(w) == w.pc \in {"starting", "probing", "returned"} \/ Asking(w, Answers)
Past(w) == w.pc \in {"checking", "scheduling", "completing", "leaving"} \/ Pending(w)
           \/ Asking(w, Asks)

CountIn(s, type, r) == Cardinality({i \in DOMAIN s : s[i].of = r /\ s[i].type = type})
Outages(s) == Cardinality({i \in DOMAIN s : s[i].type = "outage"})

\* The types, and what a worker of each kind has left to do.
Typed ==
    /\ TypeOK
    /\ worker.pc = "deriving" => Staging(worker) \/ Asking(worker, Asks)
    /\ worker.pc = "completing" => worker.todo \in {<<>>, <<"verified">>}
    /\ main.pc \in {"running", "draining", "outage"} => Outages(journal.records) = 0
    /\ main.pc = "evidence" => Outages(journal.records) <= 1

\* The queue holds the last exchanges in order, and the worker the one before them.
Queued ==
    /\ Base \in Nat /\ (ledgerDown => degraded)
    /\ \A i \in 1..Len(queue) : queue[i] = Base + i
    /\ worker.pc \notin {"idle", "gone"} => worker.item = Base /\ Base > 0
    /\ worker.pc = "gone" => Closing /\ queue = <<>>

\* How far the review is in the journal.
Placed ==
    /\ InOrder(journal.records, committed)
    /\ Staging(worker) => Partly(journal.records, worker.item, worker.todo)
    /\ ~degraded =>
         /\ worker.pc \in {"idle", "gone"} => Through(journal.records, Base)
         /\ worker.pc = "taken" => Through(journal.records, worker.item - 1)
         /\ Past(worker) => Through(journal.records, worker.item)

\* What the journal says of the risk r.
Unprobed(s, r) == \A type \in ProbeTypes : CountIn(s, type, r) = 0
Counted(s, r) ==
    /\ CountIn(s, "job", r) + CountIn(s, "rejection", r) <= 1
    /\ CountIn(s, "outcome", r) <= CountIn(s, "job", r)
    /\ CountIn(s, "cancellation", r) <= CountIn(s, "job", r)
    /\ r \notin known => Unprobed(s, r)
    /\ r \notin completed => CountIn(s, "cancellation", r) = 0
    /\ r \in completed =>
         CountIn(s, "job", r) <= CountIn(s, "outcome", r) + CountIn(s, "cancellation", r)

Counts == \A r \in Risks : Counted(journal.records, r)

\* What the two threads have in hand is a risk with a job.
Tried ==
    /\ Pending(worker) =>
         /\ worker.risk \in known /\ CountIn(journal.records, "job", worker.risk) = 1
         /\ CountIn(journal.records, "outcome", worker.risk) = 0
    /\ Asking(worker, {<<"job">>}) => worker.risk \in Risks \ known
    /\ worker.pc = "completing" =>
         worker.risk \in known /\ CountIn(journal.records, "outcome", worker.risk) = 1
    /\ Asking(worker, {<<"verified">>}) => worker.risk \in completed
    /\ main.probe # NoRisk =>
         main.probe \in known /\ CountIn(journal.records, "job", main.probe) = 1

\* Whatever is known is settled or in the worker's hands; whoever leaves has looked for more.
Settled ==
    ~degraded =>
      /\ worker.pc # "failing" =>
           \A r \in known \ completed :
             r = worker.risk /\ (Pending(worker) \/ worker.pc = "completing")
      /\ worker.pc \in {"idle", "leaving"} /\ queue = <<>> /\ ~disabled /\ ~Closing =>
           \A r \in Risks : Reveals[r] <= Base => r \in known

Concludes == main.pc = "released" => worker.pc = "gone" /\ ~degraded

ReviewIInv ==
    Typed /\ Queued /\ Placed /\ JournalReadable /\ Counts /\ Tried /\ Settled /\ Concludes

------------------------------------------------------------------------------
(* Journals that grow.                                                     *)

\* What an append leaves of a journal.
LEMMA Appending ==
    ASSUME NEW s \in Recs, NEW x \in Record
    PROVE  /\ Append(s, x) \in Recs /\ Len(s) \in Nat
           /\ Len(Append(s, x)) = Len(s) + 1
           /\ DOMAIN s = 1..Len(s) /\ DOMAIN Append(s, x) = 1..Len(s) + 1
           /\ \A i \in 1..Len(s) : Append(s, x)[i] = s[i] /\ s[i] \in Record
           /\ Append(s, x)[Len(s) + 1] = x
BY DEF Recs

\* What is known of the fields of a record.
LEMMA RecordFields ==
    ASSUME NEW x \in Record
    PROVE  /\ x.type \in RecordTypes /\ x.of \in (0..MaxExchanges + 2) \cup Risks
           /\ x = [type |-> x.type, of |-> x.of]
BY DEF Record

Aside(s, t) == t = s \/ \E x \in Record : x.type \notin ExchangeRecords /\ t = Append(s, x)
KeepsReview(s, t) ==
    /\ \A c : InOrder(s, c) => InOrder(t, c)
    /\ \A n, todo : Partly(s, n, todo) => Partly(t, n, todo)
    /\ \A m : Through(s, m) => Through(t, m)

\* Places before the end are where they were.
LEMMA LastBeside ==
    ASSUME NEW s \in Recs, NEW x \in Record, x.type \notin ExchangeRecords,
           NEW k \in 0..Len(s), LastAt(s, k)
    PROVE  LastAt(Append(s, x), k) /\ (k > 0 => Append(s, x)[k] = s[k])
<1> DEFINE t == Append(s, x)
<1>1. /\ Len(s) \in Nat /\ Len(t) = Len(s) + 1 /\ t[Len(s) + 1] = x
      /\ \A i \in 1..Len(s) : t[i] = s[i]
  BY Appending
<1> HIDE DEF t
<1>2. LastAt(t, k)
  BY <1>1 DEF LastAt
<1> QED BY <1>1, <1>2 DEF t

\* A record that is once in the journal stays in it.
LEMMA HeldStays ==
    ASSUME NEW s \in Recs, NEW x \in Record
    PROVE  /\ \A type, n : Held(s, type, n) => Held(Append(s, x), type, n)
           /\ \A m : Whole(s, m) => Whole(Append(s, x), m)
           /\ Held(Append(s, x), x.type, x.of)
<1> DEFINE t == Append(s, x)
<1>1. /\ Len(s) \in Nat /\ Len(t) = Len(s) + 1 /\ t[Len(s) + 1] = x
      /\ \A i \in 1..Len(s) : t[i] = s[i]
  BY Appending
<1> HIDE DEF t
<1>2. \A type, n : Held(s, type, n) => Held(t, type, n)
  BY <1>1 DEF Held
<1>3. \A m : Whole(s, m) => Whole(t, m)
  BY <1>2 DEF Whole
<1>4. Held(t, x.type, x.of)
  BY <1>1, RecordFields DEF Held
<1> QED BY <1>2, <1>3, <1>4 DEF t

\* Records that are not about an exchange do not move the review.
LEMMA AsideKeeps ==
    ASSUME NEW s \in Recs, NEW t, Aside(s, t) PROVE t \in Recs /\ KeepsReview(s, t)
<1>1. CASE t = s
  BY <1>1 DEF KeepsReview
<1>2. CASE \E x \in Record : x.type \notin ExchangeRecords /\ t = Append(s, x)
  <2>1. PICK x \in Record : x.type \notin ExchangeRecords /\ t = Append(s, x)
    BY <1>2
  <2>2. /\ t \in Recs /\ Len(s) \in Nat /\ Len(t) = Len(s) + 1 /\ t[Len(s) + 1] = x
        /\ \A i \in 1..Len(s) : t[i] = s[i]
    BY <2>1, Appending
  <2>3. \A k \in 0..Len(s) : LastAt(s, k) => LastAt(t, k) /\ (k > 0 => t[k] = s[k])
    BY <2>1, LastBeside
  <2>4. \A c : InOrder(s, c) => InOrder(t, c)
    <3> SUFFICES ASSUME NEW c, InOrder(s, c), NEW i \in 1..Len(t), t[i].type \in ExchangeRecords
                 PROVE  /\ t[i].of \in 1..c
                        /\ \E k \in 0..i - 1 :
                             /\ \A l \in k + 1..i - 1 : t[l].type \notin ExchangeRecords
                             /\ IF k = 0 THEN Begins(t[i]) ELSE Succeeds(t[k], t[i])
      BY DEF InOrder
    <3>1. i \in 1..Len(s) /\ t[i] = s[i]
      BY <2>1, <2>2
    <3>2. PICK k \in 0..i - 1 : /\ \A l \in k + 1..i - 1 : s[l].type \notin ExchangeRecords
                                /\ IF k = 0 THEN Begins(s[i]) ELSE Succeeds(s[k], s[i])
      BY <3>1 DEF InOrder
    <3>3. /\ \A l \in k + 1..i - 1 : t[l].type \notin ExchangeRecords
          /\ IF k = 0 THEN Begins(t[i]) ELSE Succeeds(t[k], t[i])
      BY <2>2, <3>1, <3>2
    <3> QED BY <3>1, <3>3 DEF InOrder
  <2>5. \A y : Ready(s, y) => Ready(t, y)
    <3> SUFFICES ASSUME NEW y, Ready(s, y) PROVE Ready(t, y)
      OBVIOUS
    <3>1. PICK k \in 0..Len(s) : LastAt(s, k) /\ IF k = 0 THEN Begins(y) ELSE Succeeds(s[k], y)
      BY DEF Ready
    <3>2. k \in 0..Len(t) /\ LastAt(t, k) /\ IF k = 0 THEN Begins(y) ELSE Succeeds(t[k], y)
      BY <2>2, <2>3, <3>1
    <3> QED BY <3>2 DEF Ready
  <2>6. /\ \A type, n : Held(s, type, n) => Held(t, type, n)
        /\ \A m : Whole(s, m) => Whole(t, m)
    BY <2>1, HeldStays
  <2>7. \A n, todo : Partly(s, n, todo) => Partly(t, n, todo)
    BY <2>5, <2>6 DEF Partly
  <2>8. \A m : Through(s, m) => Through(t, m)
    <3> SUFFICES ASSUME NEW m, Through(s, m) PROVE Through(t, m)
      OBVIOUS
    <3>1. PICK k \in 0..Len(s) :
            LastAt(s, k) /\ IF k = 0 THEN m = 0 ELSE s[k] = [type |-> "findings", of |-> m]
      BY DEF Through
    <3>2. k \in 0..Len(t) /\ LastAt(t, k)
          /\ IF k = 0 THEN m = 0 ELSE t[k] = [type |-> "findings", of |-> m]
      BY <2>2, <2>3, <3>1
    <3>3. Whole(t, m)
      BY <2>6 DEF Through
    <3> QED BY <3>2, <3>3 DEF Through
  <2> QED BY <2>2, <2>4, <2>7, <2>8 DEF KeepsReview
<1> QED BY <1>1, <1>2 DEF Aside

\* A record that is due keeps the review in order, and is then the last one.
LEMMA DueInOrder ==
    ASSUME NEW s \in Recs, NEW x \in Record, NEW c \in Nat, InOrder(s, c), Ready(s, x),
           x.of \in 1..c
    PROVE  InOrder(Append(s, x), c) /\ LastAt(Append(s, x), Len(s) + 1)
<1> DEFINE t == Append(s, x)
<1>1. /\ Len(s) \in Nat /\ Len(t) = Len(s) + 1 /\ t[Len(s) + 1] = x
      /\ \A i \in 1..Len(s) : t[i] = s[i]
  BY Appending
<1> HIDE DEF t
<1>2. LastAt(t, Len(s) + 1)
  BY <1>1 DEF LastAt
<1>3. InOrder(t, c)
  <2> SUFFICES ASSUME NEW i \in 1..Len(t), t[i].type \in ExchangeRecords
               PROVE  /\ t[i].of \in 1..c
                      /\ \E k \in 0..i - 1 :
                           /\ \A l \in k + 1..i - 1 : t[l].type \notin ExchangeRecords
                           /\ IF k = 0 THEN Begins(t[i]) ELSE Succeeds(t[k], t[i])
    BY DEF InOrder
  <2>1. CASE i = Len(s) + 1
    <3>1. PICK k \in 0..Len(s) : LastAt(s, k) /\ IF k = 0 THEN Begins(x) ELSE Succeeds(s[k], x)
      BY DEF Ready
    <3>2. \A l \in k + 1..i - 1 : t[l].type \notin ExchangeRecords
      BY <1>1, <2>1, <3>1 DEF LastAt
    <3>3. IF k = 0 THEN Begins(t[i]) ELSE Succeeds(t[k], t[i])
      BY <1>1, <2>1, <3>1
    <3> QED BY <1>1, <2>1, <3>2, <3>3
  <2>2. CASE i # Len(s) + 1
    <3>1. i \in 1..Len(s) /\ t[i] = s[i]
      BY <1>1, <2>2
    <3>2. PICK k \in 0..i - 1 : /\ \A l \in k + 1..i - 1 : s[l].type \notin ExchangeRecords
                                /\ IF k = 0 THEN Begins(s[i]) ELSE Succeeds(s[k], s[i])
      BY <3>1 DEF InOrder
    <3>3. /\ \A l \in k + 1..i - 1 : t[l].type \notin ExchangeRecords
          /\ IF k = 0 THEN Begins(t[i]) ELSE Succeeds(t[k], t[i])
      BY <1>1, <3>1, <3>2
    <3> QED BY <3>1, <3>3 DEF InOrder
  <2> QED BY <2>1, <2>2
<1> QED BY <1>2, <1>3 DEF t

------------------------------------------------------------------------------
(* The stages of an exchange.                                              *)

\* The stages of an exchange, written out.
LEMMA StagesAre ==
    ASSUME NEW n
    PROVE  /\ StagesOf(n) = IF n \in Deltas THEN Full ELSE Stages
           /\ Range(StagesOf(n)) \subseteq ExchangeRecords
           /\ StagesOf(n) \in RestsOf(n)
<1>1. <<"lineage">> \o Stages = Full
  <2> DEFINE S == ExchangeRecords
             l == <<"lineage">>
  <2>1. l \in Seq(S) /\ Stages \in Seq(S) /\ Full \in Seq(S)
    BY DEF Stages, Full, ExchangeRecords
  <2>2. Len(l) = 1 /\ Len(Stages) = 5 /\ Len(Full) = 6 /\ l[1] = "lineage"
    BY DEF Stages, Full
  <2>3. /\ l \o Stages \in Seq(S) /\ Len(l \o Stages) = 6
        /\ \A i \in 1..6 : (l \o Stages)[i] = IF i <= 1 THEN l[i] ELSE Stages[i - 1]
    <3> DEFINE u == l \o Stages
    <3> HIDE DEF l
    <3>1. /\ u \in Seq(S) /\ Len(u) = Len(l) + Len(Stages)
          /\ \A i \in 1..Len(l) + Len(Stages) :
               u[i] = IF i <= Len(l) THEN l[i] ELSE Stages[i - Len(l)]
      BY <2>1, ConcatProperties
    <3> HIDE DEF u
    <3>2. Len(u) = 6 /\ \A i \in 1..6 : u[i] = IF i <= 1 THEN l[i] ELSE Stages[i - 1]
      BY <2>2, <3>1
    <3> QED BY <3>1, <3>2 DEF u
  <2>4. \A i \in 1..6 : Full[i] = IF i <= 1 THEN "lineage" ELSE Stages[i - 1]
    BY DEF Stages, Full
  <2>5. \A i \in 1..6 : (l \o Stages)[i] = Full[i]
    BY <2>2, <2>3, <2>4
  <2> HIDE DEF l
  <2>6. l \o Stages = Full
    BY <2>1, <2>2, <2>3, <2>5, SeqEqual
  <2> QED BY <2>6 DEF l
<1>0. <<>> \o Stages = Stages
  BY DEF Stages
<1>2. StagesOf(n) = IF n \in Deltas THEN Full ELSE Stages
  BY <1>0, <1>1 DEF StagesOf
<1>3. Range(Full) \subseteq ExchangeRecords /\ Range(Stages) \subseteq ExchangeRecords
  BY DEF Range, Full, Stages, ExchangeRecords
<1> QED BY <1>2, <1>3 DEF RestsOf, Rests

\* What is left of an exchange when its next stage has been journalled.
LEMMA OneStage ==
    ASSUME NEW n, NEW todo \in RestsOf(n)
    PROVE  /\ todo \in Seq(RecordTypes) /\ todo # <<>>
           /\ Head(todo) \in ExchangeRecords
           /\ Tail(todo) \in RestsOf(n) \cup {<<>>}
           /\ (Tail(todo) = <<>> <=> todo = <<"findings">>)
           /\ (Head(todo) = "findings" => todo = <<"findings">>)
           /\ Range(todo) \subseteq {Head(todo)} \cup Range(Tail(todo))
           /\ Tail(todo) # <<>> =>
                \E p \in 2..Len(StagesOf(n)) :
                  Head(todo) = StagesOf(n)[p - 1] /\ Head(Tail(todo)) = StagesOf(n)[p]
<1> USE StagesAre DEF Range, Full, Stages, Rests, RestsOf, ExchangeRecords, RecordTypes
<1>1. CASE todo = Full
  <2>1. /\ Head(todo) = "lineage" /\ Tail(todo) = Stages /\ Head(Tail(todo)) = "projection"
        /\ n \in Deltas
    BY <1>1
  <2> QED BY <1>1, <2>1
<1>2. CASE todo = Stages
  <2>1. /\ Head(todo) = "projection"
        /\ Tail(todo) = <<"role", "transcript", "extraction", "findings">>
        /\ Head(Tail(todo)) = "role"
    BY <1>2
  <2>2. \E p \in 2..Len(StagesOf(n)) :
          Head(todo) = StagesOf(n)[p - 1] /\ Head(Tail(todo)) = StagesOf(n)[p]
    BY <2>1
  <2> QED BY <1>2, <2>1, <2>2
<1>3. CASE todo = <<"role", "transcript", "extraction", "findings">>
  <2>1. /\ Head(todo) = "role" /\ Tail(todo) = <<"transcript", "extraction", "findings">>
        /\ Head(Tail(todo)) = "transcript"
    BY <1>3
  <2>2. \E p \in 2..Len(StagesOf(n)) :
          Head(todo) = StagesOf(n)[p - 1] /\ Head(Tail(todo)) = StagesOf(n)[p]
    BY <2>1
  <2> QED BY <1>3, <2>1, <2>2
<1>4. CASE todo = <<"transcript", "extraction", "findings">>
  <2>1. /\ Head(todo) = "transcript" /\ Tail(todo) = <<"extraction", "findings">>
        /\ Head(Tail(todo)) = "extraction"
    BY <1>4
  <2>2. \E p \in 2..Len(StagesOf(n)) :
          Head(todo) = StagesOf(n)[p - 1] /\ Head(Tail(todo)) = StagesOf(n)[p]
    BY <2>1
  <2> QED BY <1>4, <2>1, <2>2
<1>5. CASE todo = <<"extraction", "findings">>
  <2>1. /\ Head(todo) = "extraction" /\ Tail(todo) = <<"findings">>
        /\ Head(Tail(todo)) = "findings"
    BY <1>5
  <2>2. \E p \in 2..Len(StagesOf(n)) :
          Head(todo) = StagesOf(n)[p - 1] /\ Head(Tail(todo)) = StagesOf(n)[p]
    <3>2. CASE n \in Deltas
      <4>1. Len(StagesOf(n)) = 6 /\ StagesOf(n)[5] = "extraction" /\ StagesOf(n)[6] = "findings"
        BY <3>2
      <4> QED BY <2>1, <4>1
    <3>3. CASE n \notin Deltas
      <4>1. Len(StagesOf(n)) = 5 /\ StagesOf(n)[4] = "extraction" /\ StagesOf(n)[5] = "findings"
        BY <3>3
      <4> QED BY <2>1, <4>1
    <3> QED BY <3>2, <3>3
  <2> QED BY <1>5, <2>1, <2>2
<1>6. CASE todo = <<"findings">>
  BY <1>6
<1> QED BY <1>1, <1>2, <1>3, <1>4, <1>5, <1>6

\* A worker that has just entered owes the first stage of the next exchange.
LEMMA Entering ==
    ASSUME NEW s \in Recs, NEW n \in Nat, n > 0, Through(s, n - 1)
    PROVE  Partly(s, n, StagesOf(n))
<1>1. Head(StagesOf(n)) = StagesOf(n)[1]
  BY StagesAre DEF Full, Stages
<1>2. PICK k \in 0..Len(s) :
        LastAt(s, k) /\ IF k = 0 THEN n - 1 = 0 ELSE s[k] = [type |-> "findings", of |-> n - 1]
  BY DEF Through
<1> DEFINE x == [type |-> Head(StagesOf(n)), of |-> n]
<1>3. IF k = 0 THEN Begins(x) ELSE Succeeds(s[k], x)
  BY <1>1, <1>2 DEF Begins, Succeeds
<1>4. Ready(s, x)
  BY <1>2, <1>3 DEF Ready
<1>5. Whole(s, n - 1)
  BY DEF Through
<1>6. Range(StagesOf(n)) \ Range(StagesOf(n)) = {}
  OBVIOUS
<1> QED BY <1>4, <1>5, <1>6 DEF Partly

\* A stage that has been journalled is followed by the next one, or is the exchange's last.
LEMMA StageDone ==
    ASSUME NEW s \in Recs, NEW c \in Nat, NEW n \in 1..c, NEW todo \in RestsOf(n),
           InOrder(s, c), Partly(s, n, todo), n \in 1..MaxExchanges
    PROVE  LET t == Append(s, [type |-> Head(todo), of |-> n])
           IN  /\ [type |-> Head(todo), of |-> n] \in Record /\ t \in Recs
               /\ InOrder(t, c)
               /\ Tail(todo) # <<>> => Tail(todo) \in RestsOf(n) /\ Partly(t, n, Tail(todo))
               /\ Tail(todo) = <<>> => Through(t, n)
<1> DEFINE x == [type |-> Head(todo), of |-> n]
           t == Append(s, x)
<1>1. x \in Record /\ x.type = Head(todo) /\ x.of = n
  <2>1. Head(todo) \in RecordTypes
    BY OneStage DEF RecordTypes
  <2>2. n \in 0..MaxExchanges + 2
    BY ReviewAssumption
  <2> QED BY <2>1, <2>2 DEF Record
<1>2. Ready(s, x) /\ Whole(s, n - 1)
      /\ \A type \in Range(StagesOf(n)) \ Range(todo) : Held(s, type, n)
  BY DEF Partly
<1>3. /\ t \in Recs /\ Len(s) \in Nat /\ Len(t) = Len(s) + 1 /\ t[Len(s) + 1] = x
  BY <1>1, Appending
<1>4. InOrder(t, c) /\ LastAt(t, Len(s) + 1)
  BY <1>1, <1>2, DueInOrder
<1>5. /\ Whole(t, n - 1) /\ Held(t, Head(todo), n)
      /\ \A type \in Range(StagesOf(n)) \ Range(todo) : Held(t, type, n)
  BY <1>1, <1>2, HeldStays
<1> HIDE DEF t, x
<1>6. \A type \in Range(StagesOf(n)) \ Range(Tail(todo)) : Held(t, type, n)
  BY <1>5, OneStage
<1>7. ASSUME Tail(todo) # <<>>
      PROVE  Tail(todo) \in RestsOf(n) /\ Partly(t, n, Tail(todo))
  <2> DEFINE y == [type |-> Head(Tail(todo)), of |-> n]
  <2>1. PICK p \in 2..Len(StagesOf(n)) :
          Head(todo) = StagesOf(n)[p - 1] /\ Head(Tail(todo)) = StagesOf(n)[p]
    BY <1>7, OneStage
  <2>2. Succeeds(x, y)
    BY <1>1, <2>1 DEF Succeeds
  <2>3. Ready(t, y)
    <3>1. Len(s) + 1 \in 0..Len(t) /\ Len(s) + 1 # 0
      BY <1>3
    <3> QED BY <1>3, <1>4, <2>2, <3>1 DEF Ready
  <2> QED BY <1>5, <1>6, <1>7, <2>3, OneStage DEF Partly
<1>8. ASSUME Tail(todo) = <<>> PROVE Through(t, n)
  <2>1. todo = <<"findings">>
    BY <1>8, OneStage
  <2>0. Head(todo) = "findings" /\ Range(Tail(todo)) = {}
    BY <1>8, <2>1 DEF Range
  <2>2. \A m \in 1..n : m \in 1..n - 1 \/ m = n
    OBVIOUS
  <2>3. Whole(t, n)
    BY <1>5, <1>6, <2>0, <2>2 DEF Whole
  <2>4. t[Len(s) + 1] = [type |-> "findings", of |-> n]
    BY <1>3, <2>0 DEF x
  <2> QED BY <1>3, <1>4, <2>3, <2>4 DEF Through
<1> QED BY <1>1, <1>3, <1>4, <1>7, <1>8 DEF t, x

------------------------------------------------------------------------------
(* Counting records.                                                       *)

\* A record adds one to the count of its own kind.
LEMMA Counting ==
    ASSUME NEW s \in Recs, NEW x \in Record
    PROVE  /\ \A type, r : /\ CountIn(s, type, r) \in Nat
                           /\ CountIn(Append(s, x), type, r) =
                                CountIn(s, type, r)
                                + (IF x.of = r /\ x.type = type THEN 1 ELSE 0)
           /\ Outages(s) \in Nat
           /\ Outages(Append(s, x)) = Outages(s) + (IF x.type = "outage" THEN 1 ELSE 0)
<1> DEFINE t == Append(s, x)
<1>1. /\ Len(s) \in Nat /\ DOMAIN s = 1..Len(s) /\ DOMAIN t = 1..Len(s) + 1
      /\ t[Len(s) + 1] = x /\ \A i \in 1..Len(s) : t[i] = s[i]
  BY Appending
<1>2. \A S \in SUBSET (1..Len(s)) : IsFiniteSet(S)
  <2>1. IsFiniteSet(1..Len(s))
    BY <1>1, FS_Interval
  <2> QED BY <2>1, FS_Subset
<1> HIDE DEF t
<1>3. ASSUME NEW type, NEW r
      PROVE  /\ CountIn(s, type, r) \in Nat
             /\ CountIn(t, type, r) =
                  CountIn(s, type, r) + (IF x.of = r /\ x.type = type THEN 1 ELSE 0)
  <2> DEFINE A == {i \in DOMAIN s : s[i].of = r /\ s[i].type = type}
             B == {i \in DOMAIN t : t[i].of = r /\ t[i].type = type}
  <2>1. A \in SUBSET (1..Len(s)) /\ Len(s) + 1 \notin A
    BY <1>1
  <2>2. IsFiniteSet(A) /\ Cardinality(A) \in Nat
    BY <1>2, <2>1, FS_CardinalityType
  <2>3. B = IF x.of = r /\ x.type = type THEN A \cup {Len(s) + 1} ELSE A
    BY <1>1
  <2>4. Cardinality(A \cup {Len(s) + 1}) = Cardinality(A) + 1
    BY <2>1, <2>2, FS_AddElement
  <2>5. CountIn(s, type, r) = Cardinality(A) /\ CountIn(t, type, r) = Cardinality(B)
    BY DEF CountIn
  <2> HIDE DEF A, B
  <2> QED BY <2>2, <2>3, <2>4, <2>5
<1>4. Outages(s) \in Nat
      /\ Outages(t) = Outages(s) + (IF x.type = "outage" THEN 1 ELSE 0)
  <2> DEFINE A == {i \in DOMAIN s : s[i].type = "outage"}
             B == {i \in DOMAIN t : t[i].type = "outage"}
  <2>1. A \in SUBSET (1..Len(s)) /\ Len(s) + 1 \notin A
    BY <1>1
  <2>2. IsFiniteSet(A) /\ Cardinality(A) \in Nat
    BY <1>2, <2>1, FS_CardinalityType
  <2>3. B = IF x.type = "outage" THEN A \cup {Len(s) + 1} ELSE A
    BY <1>1
  <2>4. Cardinality(A \cup {Len(s) + 1}) = Cardinality(A) + 1
    BY <2>1, <2>2, FS_AddElement
  <2>5. Outages(s) = Cardinality(A) /\ Outages(t) = Cardinality(B)
    BY DEF Outages
  <2> HIDE DEF A, B
  <2> QED BY <2>2, <2>3, <2>4, <2>5
<1> QED BY <1>3, <1>4 DEF t

Calm(s, t) == t = s \/ t = Append(s, Degradation)
KeepsCounts(s, t) ==
    \A type \in ProbeTypes, r \in Risks : CountIn(t, type, r) = CountIn(s, type, r)
Adds(s, t, kind, q) ==
    \A type \in ProbeTypes, r \in Risks :
      CountIn(t, type, r) = CountIn(s, type, r) + (IF type = kind /\ r = q THEN 1 ELSE 0)

\* What an append leaves of the journal, taken or refused.
LEMMA AppendsWhat ==
    ASSUME NEW j \in Journals, NEW x \in Record, NEW a \in Appends(j, x)
    PROVE  /\ a.journal \in Journals /\ a.ok \in BOOLEAN
           /\ a.ok => a.journal.records = Append(j.records, x)
                      /\ a.journal.readable = j.readable
           /\ ~a.ok => a.journal.records = j.records
<1>1. j.records \in Recs /\ Append(j.records, x) \in Recs
  BY Appending DEF Journals
<1>2. CASE a = [ok |-> TRUE, journal |-> [j EXCEPT !.records = Append(@, x)]]
  BY <1>1, <1>2 DEF Journals
<1>3. CASE a = [ok |-> FALSE, journal |-> j]
  BY <1>3
<1>4. CASE a = [ok |-> FALSE, journal |-> [j EXCEPT !.readable = FALSE]]
  BY <1>4 DEF Journals
<1> QED BY <1>2, <1>3, <1>4 DEF Appends

\* A degradation leaves the records, or adds its own.
LEMMA DegradesWhat ==
    ASSUME NEW j \in Journals, NEW k \in Degrades(j)
    PROVE  k \in Journals /\ Calm(j.records, k.records) /\ (degraded => k = j)
<1>1. Degradation \in Record
  BY ReviewAssumption DEF Degradation, Record, RecordTypes
<1>2. CASE degraded
  BY <1>2 DEF Degrades, Calm
<1>3. CASE ~degraded
  <2>1. PICK a \in Appends(j, Degradation) : k = a.journal
    BY <1>3 DEF Degrades
  <2> QED BY <1>1, <1>3, <2>1, AppendsWhat DEF Calm
<1> QED BY <1>2, <1>3

\* A degradation is about no exchange and no probe.
LEMMA CalmKeeps ==
    ASSUME NEW s \in Recs, NEW t, Calm(s, t)
    PROVE  t \in Recs /\ KeepsReview(s, t) /\ KeepsCounts(s, t) /\ Outages(t) = Outages(s)
<1>1. Degradation \in Record /\ Degradation.type = "degraded"
  BY ReviewAssumption DEF Degradation, Record, RecordTypes
<1>2. Aside(s, t)
  BY <1>1 DEF Aside, Calm, ExchangeRecords
<1>3. CASE t = s
  BY <1>2, <1>3, AsideKeeps DEF KeepsCounts
<1>4. CASE t = Append(s, Degradation)
  <2>1. KeepsCounts(s, t)
    BY <1>1, <1>4, Counting DEF KeepsCounts, ProbeTypes
  <2> QED BY <1>1, <1>2, <1>4, <2>1, AsideKeeps, Counting
<1> QED BY <1>3, <1>4 DEF Calm

\* A probe's record is about no exchange, and counts for its own risk and type.
LEMMA ProbeAppend ==
    ASSUME NEW s \in Recs, NEW kind \in ProbeRecords, NEW q \in Risks
    PROVE  LET x == [type |-> kind, of |-> q]
               t == Append(s, x)
           IN  x \in Record /\ t \in Recs /\ KeepsReview(s, t) /\ Adds(s, t, kind, q)
               /\ Outages(t) = Outages(s)
<1> DEFINE x == [type |-> kind, of |-> q]
           t == Append(s, x)
<1>1. x \in Record /\ x.type = kind /\ x.of = q
  BY DEF Record, RecordTypes
<1>2. kind \notin ExchangeRecords /\ kind # "outage"
  BY DEF ProbeRecords, ExchangeRecords
<1> HIDE DEF x
<1>3. Aside(s, t)
  BY <1>1, <1>2 DEF Aside
<1>4. Adds(s, t, kind, q) /\ Outages(t) = Outages(s)
  BY <1>1, <1>2, Counting DEF Adds
<1> QED BY <1>1, <1>3, <1>4, AsideKeeps DEF x

\* Keeping adds up.
LEMMA KeepsOn ==
    ASSUME NEW s, NEW t, NEW u, KeepsReview(s, t), KeepsReview(t, u) PROVE KeepsReview(s, u)
BY DEF KeepsReview

------------------------------------------------------------------------------
(* What steps have in common.                                              *)

\* The parts of the invariant that a worker's step between its exchange's beginning and its
\* end cannot disturb.
LEMMA AtWork ==
    ASSUME ReviewIInv, UNCHANGED others, UNCHANGED queue,
           worker.pc \notin {"idle", "gone"}, worker' \in Worker,
           worker'.pc \notin {"idle", "gone"}, worker'.item = worker.item,
           journal' \in Journals, Outages(journal'.records) = Outages(journal.records),
           degraded' \in BOOLEAN, degraded => degraded', disabled' \in BOOLEAN,
           known' \in SUBSET Risks, known \subseteq known',
           completed' \in SUBSET known',
           worker'.pc = "deriving" => Staging(worker') \/ Asking(worker', Asks),
           worker'.pc = "completing" => worker'.todo \in {<<>>, <<"verified">>}
    PROVE  Typed' /\ Queued' /\ Concludes'
<1>1. TypeOK'
  BY DEF ReviewIInv, Typed, TypeOK, others, Journals, Recs
<1>2. Typed'
  BY <1>1 DEF ReviewIInv, Typed, Staging, Asking, others
<1>3. Base' = Base
  BY DEF Base, others
<1>4. Queued'
  BY <1>3 DEF ReviewIInv, Queued, others, Closing
<1>5. Concludes'
  BY DEF ReviewIInv, Concludes, others
<1> QED BY <1>2, <1>4, <1>5

\* An exception takes the worker out of whatever it does; the journal stands.
LEMMA Failing ==
    ASSUME ReviewIInv, UNCHANGED others, UNCHANGED queue, UNCHANGED probes,
           worker.pc \notin {"idle", "gone"}, worker' = [worker EXCEPT !.pc = "failing"],
           journal' \in Journals, Calm(journal.records, journal'.records),
           degraded' \in BOOLEAN, degraded => degraded'
    PROVE  ReviewIInv'
<1>0. /\ worker \in Worker /\ journal.records \in Recs /\ known \in SUBSET Risks
      /\ completed \in SUBSET known /\ disabled \in BOOLEAN
  BY DEF ReviewIInv, Typed, TypeOK, Recs
<1>1. /\ KeepsReview(journal.records, journal'.records)
      /\ KeepsCounts(journal.records, journal'.records)
      /\ Outages(journal'.records) = Outages(journal.records)
  BY <1>0, CalmKeeps
<1>2. worker' \in Worker /\ worker'.pc = "failing" /\ worker'.item = worker.item
  BY <1>0 DEF Worker, Working
<1>3. Typed' /\ Queued' /\ Concludes'
  BY <1>0, <1>1, <1>2, AtWork DEF probes
<1>4. Placed'
  BY <1>1, <1>2 DEF ReviewIInv, Placed, KeepsReview, Staging, Past, Pending, Asking, others
<1>5. JournalReadable'
  BY <1>2 DEF JournalReadable
<1>6. Counts'
  BY <1>1 DEF ReviewIInv, Counts, Counted, KeepsCounts, Unprobed, probes, ProbeTypes
<1>7. Tried'
  BY <1>0, <1>1, <1>2 DEF ReviewIInv, Tried, KeepsCounts, ProbeTypes, Pending, Asking,
                          probes, others
<1>8. Settled'
  BY <1>2 DEF Settled
<1> QED BY <1>3, <1>4, <1>5, <1>6, <1>7, <1>8 DEF ReviewIInv

------------------------------------------------------------------------------
(* The worker and an exchange.                                             *)

\* The worker takes the exchange that follows the one it had.
LEMMA TakeStep == ASSUME ReviewIInv, Take PROVE ReviewIInv'
<1> USE DEF probes, others
<1>0. /\ worker \in Worker /\ queue \in Seq(1..MaxExchanges) /\ Len(queue) <= MaxQueue
      /\ committed \in 0..MaxExchanges /\ MaxExchanges \in Nat /\ MaxQueue \in Nat
  BY ReviewAssumption DEF ReviewIInv, Typed, TypeOK
<1>1. /\ worker' = [worker EXCEPT !.pc = "taken", !.item = Head(queue)]
      /\ queue' = Tail(queue) /\ queue # <<>> /\ worker.pc = "idle"
  BY DEF Take
<1>2. /\ Len(queue) \in Nat \ {0} /\ Head(queue) = queue[1]
      /\ queue' \in Seq(1..MaxExchanges) /\ Len(queue') = Len(queue) - 1
      /\ \A i \in 1..Len(queue') : queue'[i] = queue[i + 1]
      /\ Head(queue) \in 1..MaxExchanges
  BY <1>0, <1>1, HeadTailProperties, EmptySeq
<1>3. worker' \in Worker /\ worker'.pc = "taken" /\ worker'.item = Head(queue)
  <2>1. Head(queue) \in 0..MaxExchanges
    BY <1>0, <1>2
  <2> QED BY <1>0, <1>1, <2>1 DEF Worker
<1>4. Base \in Nat /\ Base' = Base + 1 /\ Head(queue) = Base + 1
  <2>1. Base \in Nat /\ \A i \in 1..Len(queue) : queue[i] = Base + i
    BY DEF ReviewIInv, Queued
  <2>2. Base' = Base + 1
    BY <1>0, <1>1, <1>2 DEF Take, Base
  <2> QED BY <1>2, <2>1, <2>2
<1>5. Typed'
  BY <1>0, <1>1, <1>2, <1>3 DEF Take, ReviewIInv, Typed, TypeOK
<1>6. Queued'
  <2>1. \A i \in 1..Len(queue') : queue'[i] = Base' + i
    <3> SUFFICES ASSUME NEW i \in 1..Len(queue') PROVE queue'[i] = Base' + i
      OBVIOUS
    <3>1. i + 1 \in 1..Len(queue) /\ queue'[i] = queue[i + 1]
      BY <1>2
    <3>2. queue[i + 1] = Base + (i + 1)
      BY <3>1 DEF ReviewIInv, Queued
    <3> QED BY <1>4, <3>1, <3>2
  <2> QED BY <1>3, <1>4, <2>1 DEF Take, ReviewIInv, Queued
<1>7. Placed'
  BY <1>1, <1>3, <1>4 DEF Take, ReviewIInv, Placed, Staging, Past, Pending, Asking
<1>8. JournalReadable' /\ Counts' /\ Concludes'
  BY <1>1, <1>3 DEF Take, ReviewIInv, JournalReadable, Counts, Counted, Concludes, Unprobed
<1>9. Tried' /\ Settled'
  BY <1>1, <1>3 DEF Take, ReviewIInv, Tried, Settled, Pending, Asking
<1> QED BY <1>5, <1>6, <1>7, <1>8, <1>9 DEF ReviewIInv

\* A sound controller begins the review of the exchange, a degraded one refuses it.
LEMMA EnterStep == ASSUME ReviewIInv, Enter PROVE ReviewIInv'
<1>0. /\ worker \in Worker /\ journal \in Journals /\ worker.pc = "taken"
      /\ degraded \in BOOLEAN /\ disabled \in BOOLEAN /\ known \in SUBSET Risks
      /\ completed \in SUBSET known
      /\ UNCHANGED others /\ UNCHANGED queue /\ UNCHANGED probes /\ UNCHANGED journal
      /\ UNCHANGED degraded
  BY DEF Enter, ReviewIInv, Typed, TypeOK, Journals, Recs
<1>1. CASE degraded
  <2>1. worker' = [worker EXCEPT !.pc = "failing"]
    BY <1>1 DEF Enter
  <2>2. Calm(journal.records, journal'.records)
    BY <1>0 DEF Calm
  <2> QED BY <1>0, <2>1, <2>2, Failing
<1>2. CASE ~degraded
  <2>1. worker' = [worker EXCEPT !.pc = "deriving", !.todo = StagesOf(worker.item)]
    BY <1>2 DEF Enter
  <2>2. StagesOf(worker.item) \in RestsOf(worker.item)
        /\ StagesOf(worker.item) \in Seq(RecordTypes)
    BY StagesAre, OneStage
  <2>3. /\ worker' \in Worker /\ worker'.pc = "deriving" /\ worker'.item = worker.item
        /\ worker'.todo = StagesOf(worker.item) /\ worker'.risk = worker.risk
    BY <1>0, <2>1, <2>2 DEF Worker, Working
  <2>4. Staging(worker') /\ \A todos \in SUBSET Asks : ~Asking(worker', todos)
    BY <2>2, <2>3 DEF Staging, Asking, Asks, Answers, RestsOf, Rests, Stages, Full
  <2>5. Typed' /\ Queued' /\ Concludes'
    BY <1>0, <2>3, <2>4, AtWork DEF probes
  <2>6. worker.item \in Nat /\ worker.item > 0
    BY <1>0 DEF ReviewIInv, Queued
  <2>7. Partly(journal.records, worker.item, StagesOf(worker.item))
    <3>1. Through(journal.records, worker.item - 1) /\ journal.records \in Recs
      BY <1>0, <1>2 DEF ReviewIInv, Placed, Journals
    <3> QED BY <2>6, <3>1, Entering
  <2>8. ~Pending(worker') /\ ~Past(worker')
    BY <2>3, <2>4 DEF Pending, Past, Asks
  <2>9. Placed'
    BY <1>0, <2>3, <2>4, <2>7, <2>8 DEF ReviewIInv, Placed, others
  <2>10. JournalReadable' /\ Counts'
    BY <1>0, <2>3 DEF ReviewIInv, JournalReadable, Counts, Counted, Unprobed, probes
  <2>11. Tried'
    BY <1>0, <2>3, <2>4, <2>8 DEF ReviewIInv, Tried, probes, others, Asks
  <2>12. Settled'
    BY <1>0, <2>3, <2>8 DEF ReviewIInv, Settled, probes, Pending, Asking
  <2> QED BY <2>5, <2>9, <2>10, <2>11, <2>12 DEF ReviewIInv
<1> QED BY <1>1, <1>2

\* A stage that is journalled, with a degradation before or after it.
LEMMA StageStep ==
    ASSUME ReviewIInv, Staging(worker), UNCHANGED others, UNCHANGED queue, UNCHANGED probes,
           worker' = Recorded, journal' \in Journals, NEW u \in Recs,
           Calm(journal.records, u), Calm(Append(u, Due), journal'.records),
           degraded' \in BOOLEAN, degraded => degraded', JournalReadable'
    PROVE  ReviewIInv'
<1> DEFINE n == worker.item
           todo == worker.todo
           s == journal.records
           t == journal'.records
<1>0. /\ worker \in Worker /\ s \in Recs /\ worker.pc = "deriving" /\ todo \in RestsOf(n)
      /\ disabled \in BOOLEAN /\ known \in SUBSET Risks /\ completed \in SUBSET known
      /\ committed \in 0..MaxExchanges /\ MaxExchanges \in Nat
  BY ReviewAssumption DEF ReviewIInv, Typed, TypeOK, Recs, Staging
<1>1. n \in 1..committed /\ n \in 1..MaxExchanges
  <2>1. n = Base /\ Base \in Nat /\ Base > 0 /\ Len(queue) \in Nat
    BY <1>0 DEF ReviewIInv, Queued, Typed, TypeOK
  <2>2. n <= committed
    BY <1>0, <2>1 DEF Base
  <2> QED BY <1>0, <2>1, <2>2
<1>2. Head(todo) \in ExchangeRecords /\ Due = [type |-> Head(todo), of |-> n]
  <2>1. Head(todo) \in ExchangeRecords /\ Head(todo) \notin ProbeRecords
    BY <1>0, OneStage DEF ExchangeRecords, ProbeRecords
  <2> QED BY <2>1 DEF Due
<1> DEFINE v == Append(u, Due)
<1>3. InOrder(s, committed) /\ Partly(s, n, todo)
  BY DEF ReviewIInv, Placed
<1>4. InOrder(u, committed) /\ Partly(u, n, todo)
  BY <1>0, <1>3, CalmKeeps DEF KeepsReview
<1>5. /\ Due \in Record /\ v \in Recs /\ InOrder(v, committed)
      /\ Tail(todo) # <<>> => Tail(todo) \in RestsOf(n) /\ Partly(v, n, Tail(todo))
      /\ Tail(todo) = <<>> => Through(v, n)
  <2>1. committed \in Nat
    BY <1>0
  <2> QED BY <1>0, <1>1, <1>2, <1>4, <2>1, StageDone
<1>6. /\ InOrder(t, committed)
      /\ Tail(todo) # <<>> => Partly(t, n, Tail(todo))
      /\ Tail(todo) = <<>> => Through(t, n)
  BY <1>5, CalmKeeps DEF KeepsReview
<1>7. KeepsCounts(s, t) /\ Outages(t) = Outages(s)
  <2>1. KeepsCounts(s, u) /\ Outages(u) = Outages(s)
    BY <1>0, CalmKeeps
  <2>2. Due.type \notin ProbeTypes /\ Due.type # "outage"
    BY <1>2 DEF ProbeTypes, ExchangeRecords
  <2>3. KeepsCounts(u, v) /\ Outages(v) = Outages(u)
    BY <1>5, <2>2, Counting DEF KeepsCounts
  <2>4. KeepsCounts(v, t) /\ Outages(t) = Outages(v)
    BY <1>5, CalmKeeps
  <2> QED BY <2>1, <2>3, <2>4 DEF KeepsCounts
<1> HIDE DEF v
<1>8. /\ worker' \in Worker /\ worker'.item = n /\ worker'.todo = Tail(todo)
      /\ worker'.risk = worker.risk
      /\ worker'.pc = IF Tail(todo) = <<>> THEN "checking" ELSE "deriving"
  <2>1. Due.type # "outcome" /\ Due.type = Head(todo)
    BY <1>2 DEF ExchangeRecords
  <2>2. Tail(todo) = <<>> => Head(todo) = "findings"
    <3>1. Tail(todo) = <<>> => todo = <<"findings">>
      BY <1>0, OneStage
    <3> QED BY <3>1
  <2>3. Tail(todo) \in Seq(RecordTypes)
    <3>1. todo \in Seq(RecordTypes) /\ todo # <<>>
      BY <1>0, OneStage
    <3> QED BY <3>1, HeadTailProperties
  <2>4. worker' = [worker EXCEPT !.todo = Tail(todo),
                                 !.pc = IF Tail(todo) = <<>> THEN "checking" ELSE "deriving"]
    <3>1. CASE Tail(todo) = <<>>
      BY <2>1, <2>2, <3>1 DEF Recorded
    <3>2. CASE Tail(todo) # <<>>
      <4>1. Due.type # "findings"
        BY <1>0, <2>1, <3>2, OneStage
      <4>2. Due.type # "job"
        BY <1>2 DEF ExchangeRecords
      <4> QED BY <2>1, <3>2, <4>1, <4>2 DEF Recorded
    <3> QED BY <3>1, <3>2
  <2> QED BY <1>0, <2>3, <2>4 DEF Worker, Working
<1>9. /\ worker'.pc = "deriving" => Staging(worker')
      /\ \A todos \in SUBSET Asks : ~Asking(worker', todos) /\ ~Pending(worker')
  <2>1. worker'.pc = "deriving" => worker'.todo \in RestsOf(n)
    BY <1>0, <1>5, <1>8, OneStage
  <2> QED BY <1>8, <2>1 DEF Staging, Asking, Asks, Answers, RestsOf, Rests, Stages, Full, Pending
<1>10. Typed' /\ Queued' /\ Concludes'
  BY <1>0, <1>7, <1>8, <1>9, AtWork DEF probes
<1>11. Placed'
  BY <1>6, <1>8, <1>9 DEF Placed, others, Past, Staging
<1>12. Counts'
  BY <1>7 DEF ReviewIInv, Counts, Counted, KeepsCounts, Unprobed, probes, ProbeTypes
<1>13. Tried'
  BY <1>0, <1>7, <1>8, <1>9 DEF ReviewIInv, Tried, KeepsCounts, ProbeTypes, probes, others, Asks,
                                TypeOK, Typed
<1>14. Settled'
  BY <1>0, <1>8, <1>9 DEF ReviewIInv, Settled, probes, Pending, Asking, Staging, RestsOf, Rests,
                         Stages, Full, Answers
<1> QED BY <1>10, <1>11, <1>12, <1>13, <1>14 DEF ReviewIInv

\* What a worker that derives owes: a stage of its exchange, or a record of its probe.
LEMMA DueWhat ==
    ASSUME ReviewIInv, worker.pc = "deriving"
    PROVE  /\ Due \in Record
           /\ Staging(worker) =>
                Due.type \in ExchangeRecords /\ Due.of = worker.item
           /\ Asking(worker, Asks) =>
                Due.type = Head(worker.todo) /\ Due.type \in ProbeRecords
                /\ Due = [type |-> Head(worker.todo), of |-> worker.risk] /\ worker.risk \in Risks
<1>0. worker \in Worker /\ (Staging(worker) \/ Asking(worker, Asks)) /\ known \subseteq Risks
      /\ completed \subseteq known
  BY DEF ReviewIInv, Typed, TypeOK
<1>1. CASE Staging(worker)
  <2>1. worker.todo \in RestsOf(worker.item)
    BY <1>1 DEF Staging
  <2>2. Head(worker.todo) \in ExchangeRecords /\ Head(worker.todo) \notin ProbeRecords
    BY <2>1, OneStage DEF ExchangeRecords, ProbeRecords
  <2>3. Due = [type |-> Head(worker.todo), of |-> worker.item]
    BY <2>2 DEF Due
  <2>4. worker.item \in 0..MaxExchanges + 2
    BY <1>0, ReviewAssumption DEF Worker
  <2>5. ~Asking(worker, Asks)
    BY <2>1 DEF Asking, Asks, Answers, RestsOf, Rests, Stages, Full
  <2> QED BY <2>2, <2>3, <2>4, <2>5 DEF Record, RecordTypes
<1>2. CASE Asking(worker, Asks)
  <2>1. worker.todo \in Asks
    BY <1>2 DEF Asking
  <2>2. Head(worker.todo) \in ProbeRecords
    BY <2>1 DEF Asks, Answers, ProbeRecords
  <2>3. Due = [type |-> Head(worker.todo), of |-> worker.risk]
    BY <2>2 DEF Due
  <2>4. worker.risk \in Risks
    <3>1. CASE worker.todo \in Answers
      BY <1>0, <1>2, <3>1 DEF ReviewIInv, Tried, Pending, Asking
    <3>2. CASE worker.todo = <<"job">>
      BY <1>2, <3>2 DEF ReviewIInv, Tried, Asking
    <3>3. CASE worker.todo = <<"verified">>
      BY <1>0, <1>2, <3>3 DEF ReviewIInv, Tried, Asking
    <3> QED BY <2>1, <3>1, <3>2, <3>3 DEF Asks
  <2>5. ~Staging(worker)
    BY <2>1 DEF Staging, Asks, Answers, RestsOf, Rests, Stages, Full
  <2> QED BY <2>2, <2>3, <2>4, <2>5 DEF Record, RecordTypes
<1> QED BY <1>0, <1>1, <1>2

\* The journal and what an append may leave, as the steps use them.
LEMMA JournalTyped ==
    ASSUME ReviewIInv
    PROVE  /\ journal \in Journals /\ journal.records \in Recs /\ worker \in Worker
           /\ degraded \in BOOLEAN /\ disabled \in BOOLEAN /\ known \in SUBSET Risks
           /\ completed \in SUBSET known /\ Calm(journal.records, journal.records)
           /\ committed \in 0..MaxExchanges /\ main \in Main
BY DEF ReviewIInv, Typed, TypeOK, Journals, Recs, Calm

\* A stage is journalled, or refused.
LEMMA DeriveStageStep == ASSUME ReviewIInv, Derive, Staging(worker) PROVE ReviewIInv'
<1>0. /\ journal \in Journals /\ journal.records \in Recs /\ Due \in Record
      /\ Due.type \in ExchangeRecords /\ worker.pc = "deriving" /\ degraded \in BOOLEAN
      /\ Calm(journal.records, journal.records)
      /\ UNCHANGED others /\ UNCHANGED queue /\ UNCHANGED degraded /\ UNCHANGED completed
  BY JournalTyped, DueWhat DEF Derive, Staging
<1>1. PICK a \in Appends(journal, Due) :
        /\ journal' = a.journal
        /\ \/ /\ a.ok /\ worker' = Recorded
              /\ known' = known \cup (IF Due.type = "job" THEN {worker.risk} ELSE {})
              /\ disabled' = (disabled \/ Due.type = "disabled")
           \/ ~a.ok /\ Go("failing") /\ UNCHANGED <<known, disabled>>
  BY DEF Derive
<1>2. /\ journal' \in Journals
      /\ a.ok => journal'.records = Append(journal.records, Due)
                 /\ journal'.readable = journal.readable
      /\ ~a.ok => journal'.records = journal.records
  BY <1>0, <1>1, AppendsWhat
<1>3. CASE a.ok
  <2>1. UNCHANGED probes /\ worker' = Recorded
    BY <1>0, <1>1, <1>3, JournalTyped DEF probes, ExchangeRecords
  <2>2. Calm(Append(journal.records, Due), journal'.records)
    BY <1>2, <1>3 DEF Calm
  <2>3. JournalReadable'
    BY <1>0, <1>2, <1>3 DEF ReviewIInv, JournalReadable
  <2> QED BY <1>0, <1>2, <2>1, <2>2, <2>3, StageStep
<1>4. CASE ~a.ok
  <2>1. UNCHANGED probes /\ worker' = [worker EXCEPT !.pc = "failing"]
    BY <1>0, <1>1, <1>4 DEF probes, Go
  <2> QED BY <1>0, <1>2, <1>4, <2>1, Failing
<1> QED BY <1>3, <1>4

\* A transcript that is rejected degrades the controller before its record is journalled.
LEMMA RejectTranscriptStep == ASSUME ReviewIInv, RejectTranscript PROVE ReviewIInv'
<1>0. /\ journal \in Journals /\ journal.records \in Recs /\ Due \in Record
      /\ worker.pc = "deriving" /\ degraded' = TRUE /\ Due.type = "transcript"
      /\ UNCHANGED others /\ UNCHANGED queue /\ UNCHANGED probes
  BY JournalTyped, DueWhat DEF RejectTranscript
<1>1. Staging(worker)
  <2>1. Staging(worker) \/ Asking(worker, Asks)
    BY <1>0 DEF ReviewIInv, Typed
  <2>2. Asking(worker, Asks) => Due.type \in ProbeRecords
    BY <1>0, DueWhat
  <2> QED BY <1>0, <2>1, <2>2 DEF ProbeRecords
<1>2. PICK j \in Degrades(journal) : \E a \in Appends(j, Due) :
        /\ journal' = a.journal
        /\ IF a.ok THEN worker' = Recorded ELSE Go("failing")
  BY DEF RejectTranscript
<1>3. PICK a \in Appends(j, Due) : /\ journal' = a.journal
                                   /\ IF a.ok THEN worker' = Recorded ELSE Go("failing")
  BY <1>2
<1>4. j \in Journals /\ j.records \in Recs /\ Calm(journal.records, j.records)
  BY <1>0, <1>2, DegradesWhat DEF Journals
<1>5. /\ journal' \in Journals
      /\ a.ok => journal'.records = Append(j.records, Due)
      /\ ~a.ok => journal'.records = j.records
  BY <1>0, <1>3, <1>4, AppendsWhat
<1>6. JournalReadable'
  BY <1>0 DEF JournalReadable
<1>7. CASE a.ok
  <2>1. Calm(Append(j.records, Due), journal'.records)
    BY <1>5, <1>7 DEF Calm
  <2> QED BY <1>0, <1>1, <1>3, <1>4, <1>5, <1>6, <1>7, <2>1, StageStep
<1>8. CASE ~a.ok
  <2>1. worker' = [worker EXCEPT !.pc = "failing"]
    BY <1>3, <1>8 DEF Go
  <2> QED BY <1>0, <1>4, <1>5, <1>8, <2>1, Failing
<1> QED BY <1>7, <1>8

\* An extraction that failed is journalled and then degrades the controller.
LEMMA FailExtractionStep == ASSUME ReviewIInv, FailExtraction PROVE ReviewIInv'
<1>0. /\ journal \in Journals /\ journal.records \in Recs /\ Due \in Record
      /\ worker.pc = "deriving" /\ Due.type = "extraction" /\ degraded \in BOOLEAN
      /\ Calm(journal.records, journal.records)
      /\ UNCHANGED others /\ UNCHANGED queue /\ UNCHANGED probes
  BY JournalTyped, DueWhat DEF FailExtraction
<1>1. Staging(worker)
  <2>1. Staging(worker) \/ Asking(worker, Asks)
    BY <1>0 DEF ReviewIInv, Typed
  <2>2. Asking(worker, Asks) => Due.type \in ProbeRecords
    BY <1>0, DueWhat
  <2> QED BY <1>0, <2>1, <2>2 DEF ProbeRecords
<1>2. PICK a \in Appends(journal, Due) :
        \/ /\ a.ok /\ worker' = Recorded
           /\ degraded' = TRUE /\ journal' \in Degrades(a.journal)
        \/ /\ ~a.ok /\ Go("failing")
           /\ journal' = a.journal /\ UNCHANGED degraded
  BY DEF FailExtraction
<1>3. /\ a.journal \in Journals
      /\ a.ok => a.journal.records = Append(journal.records, Due)
      /\ ~a.ok => a.journal.records = journal.records
  BY <1>0, <1>2, AppendsWhat
<1>4. CASE a.ok
  <2>1. worker' = Recorded /\ degraded' = TRUE /\ journal' \in Degrades(a.journal)
    BY <1>2, <1>4
  <2>2. journal' \in Journals /\ Calm(Append(journal.records, Due), journal'.records)
    BY <1>3, <1>4, <2>1, DegradesWhat
  <2>3. JournalReadable'
    BY <2>1 DEF JournalReadable
  <2> QED BY <1>0, <1>1, <2>1, <2>2, <2>3, StageStep
<1>5. CASE ~a.ok
  <2>1. worker' = [worker EXCEPT !.pc = "failing"] /\ journal' = a.journal /\ UNCHANGED degraded
    BY <1>2, <1>5 DEF Go
  <2> QED BY <1>0, <1>3, <1>5, <2>1, Failing
<1> QED BY <1>4, <1>5

\* Anything a stage or a probe raises.
LEMMA RaiseStep == ASSUME ReviewIInv, Raise PROVE ReviewIInv'
<1>1. /\ worker.pc \notin {"idle", "gone"} /\ worker' = [worker EXCEPT !.pc = "failing"]
      /\ UNCHANGED others /\ UNCHANGED queue /\ UNCHANGED probes /\ UNCHANGED journal
      /\ UNCHANGED degraded
  BY DEF Raise, Go
<1> QED BY <1>1, JournalTyped, Failing

\* The worker's exception degrades the controller.
LEMMA FailStep == ASSUME ReviewIInv, Fail PROVE ReviewIInv'
<1>0. /\ worker.pc = "failing" /\ degraded' = TRUE /\ journal' \in Degrades(journal)
      /\ worker' = [worker EXCEPT !.pc = "leaving"]
      /\ UNCHANGED others /\ UNCHANGED queue /\ UNCHANGED probes
  BY DEF Fail, Go
<1>1. /\ journal' \in Journals /\ KeepsReview(journal.records, journal'.records)
      /\ KeepsCounts(journal.records, journal'.records)
      /\ Outages(journal'.records) = Outages(journal.records)
  BY <1>0, JournalTyped, DegradesWhat, CalmKeeps
<1>2. worker' \in Worker /\ worker'.pc = "leaving" /\ worker'.item = worker.item
  BY <1>0, JournalTyped DEF Worker, Working
<1>3. Typed' /\ Queued' /\ Concludes'
  BY <1>0, <1>1, <1>2, JournalTyped, AtWork DEF probes
<1>4. Placed'
  BY <1>0, <1>1, <1>2 DEF ReviewIInv, Placed, KeepsReview, Staging, others
<1>5. JournalReadable'
  BY <1>0 DEF JournalReadable
<1>6. Counts'
  BY <1>0, <1>1 DEF ReviewIInv, Counts, Counted, KeepsCounts, Unprobed, probes, ProbeTypes
<1>7. Tried'
  BY <1>0, <1>1, <1>2, JournalTyped DEF ReviewIInv, Tried, KeepsCounts, ProbeTypes, Pending,
                                        Asking, probes, others
<1>8. Settled'
  BY <1>0 DEF Settled
<1> QED BY <1>3, <1>4, <1>5, <1>6, <1>7, <1>8 DEF ReviewIInv

------------------------------------------------------------------------------
(* The worker and the probes.                                              *)

\* A worker whose exchange is reviewed moves on, and journals at most a probe's record.
LEMMA MovesOn ==
    ASSUME ReviewIInv, UNCHANGED others, UNCHANGED queue, UNCHANGED degraded,
           Past(worker), Past(worker'), ~Staging(worker'), worker' \in Worker,
           worker'.item = worker.item,
           worker'.pc = "deriving" => Asking(worker', Asks),
           worker'.pc = "completing" => worker'.todo \in {<<>>, <<"verified">>},
           journal' \in Journals, Outages(journal'.records) = Outages(journal.records),
           KeepsReview(journal.records, journal'.records), JournalReadable',
           disabled' \in BOOLEAN, known' \in SUBSET Risks, known \subseteq known',
           completed' \in SUBSET known'
    PROVE  Typed' /\ Queued' /\ Concludes' /\ Placed' /\ JournalReadable'
<1>1. worker.pc \notin {"idle", "gone", "taken"} /\ worker'.pc \notin {"idle", "gone", "taken"}
  BY DEF Past, Pending, Asking
<1>2. degraded' \in BOOLEAN /\ (degraded => degraded')
  BY JournalTyped
<1>3. Typed' /\ Queued' /\ Concludes'
  BY <1>1, <1>2, AtWork
<1>4. Placed'
  BY <1>1 DEF ReviewIInv, Placed, KeepsReview, others
<1> QED BY <1>3, <1>4

\* Where the worker is in a probe it is past the stages of its exchange.
LEMMA AskingPast ==
    ASSUME NEW w
    PROVE  /\ Asking(w, Asks) => Past(w) /\ ~Staging(w)
           /\ Pending(w) => Past(w)
           /\ w.pc # "deriving" => ~Staging(w) /\ \A todos : ~Asking(w, todos)
<1>1. Asking(w, Asks) => ~Staging(w)
  BY DEF Asking, Asks, Answers, Staging, RestsOf, Rests, Stages, Full
<1> QED BY <1>1 DEF Past, Asking, Staging, Pending

\* With other exchanges waiting, the worker leaves the probes for later.
LEMMA CheckDrainedStep == ASSUME ReviewIInv, CheckDrained PROVE ReviewIInv'
<1>0. /\ worker.pc = "checking" /\ UNCHANGED others /\ UNCHANGED queue /\ UNCHANGED probes
      /\ UNCHANGED journal /\ UNCHANGED degraded
      /\ worker' = [worker EXCEPT !.pc = IF queue = <<>> THEN "scheduling" ELSE "leaving"]
  BY DEF CheckDrained, Go
<1>1. /\ worker' \in Worker /\ worker'.item = worker.item
      /\ worker'.pc = IF queue = <<>> THEN "scheduling" ELSE "leaving"
  BY <1>0, JournalTyped DEF Worker, Working
<1>2. Past(worker) /\ Past(worker') /\ ~Staging(worker') /\ ~Pending(worker) /\ ~Pending(worker')
  BY <1>0, <1>1 DEF Past, Staging, Pending, Asking
<1>3. KeepsReview(journal.records, journal'.records) /\ JournalReadable'
  BY <1>0, <1>1 DEF KeepsReview, ReviewIInv, JournalReadable
<1>4. Typed' /\ Queued' /\ Concludes' /\ Placed' /\ JournalReadable'
  BY <1>0, <1>1, <1>2, <1>3, JournalTyped, MovesOn DEF probes
<1>5. Counts' /\ Tried'
  BY <1>0, <1>1, <1>2 DEF ReviewIInv, Counts, Counted, Unprobed, Tried, Asking, probes, others
<1>6. Settled'
  BY <1>0, <1>1, <1>2 DEF ReviewIInv, Settled, probes, others
<1> QED BY <1>4, <1>5, <1>6 DEF ReviewIInv

\* A risk is picked for a probe, or there is none, or an exchange waits.
LEMMA ReserveStep == ASSUME ReviewIInv, Reserve PROVE ReviewIInv'
<1>0. /\ worker.pc = "scheduling" /\ UNCHANGED others /\ UNCHANGED queue /\ UNCHANGED probes
      /\ UNCHANGED journal /\ UNCHANGED degraded
  BY DEF Reserve
<1>1. Past(worker) /\ ~Pending(worker)
  BY <1>0 DEF Past, Pending, Asking
<1>2. CASE Go("leaving") /\ (Candidates = {} \/ queue # <<>>)
  <2>1. worker' \in Worker /\ worker'.item = worker.item /\ worker'.pc = "leaving"
    BY <1>2, JournalTyped DEF Worker, Working, Go
  <2>2. Past(worker') /\ ~Staging(worker') /\ ~Pending(worker')
    BY <2>1 DEF Past, Staging, Pending, Asking
  <2>3. KeepsReview(journal.records, journal'.records) /\ JournalReadable'
    BY <1>0, <2>1 DEF KeepsReview, ReviewIInv, JournalReadable
  <2>4. Typed' /\ Queued' /\ Concludes' /\ Placed' /\ JournalReadable'
    BY <1>0, <1>1, <2>1, <2>2, <2>3, JournalTyped, MovesOn DEF probes
  <2>5. Counts' /\ Tried'
    BY <1>0, <2>1, <2>2 DEF ReviewIInv, Counts, Counted, Unprobed, Tried, Asking, probes, others
  <2>6. Settled'
    <3>1. worker.item = Base /\ Base' = Base
      BY <1>0 DEF ReviewIInv, Queued, Base, others
    <3>2. queue = <<>> /\ ~disabled /\ ~Closing =>
            \A r \in Risks : Reveals[r] <= Base => r \in known
      BY <1>2, <3>1 DEF Candidates
    <3>3. Closing' = Closing
      BY <1>0 DEF Closing, others
    <3> QED BY <1>0, <1>1, <2>1, <3>1, <3>2, <3>3 DEF ReviewIInv, Settled, probes
  <2> QED BY <2>4, <2>5, <2>6 DEF ReviewIInv
<1>3. ASSUME NEW r \in Candidates,
             worker' = [worker EXCEPT !.pc = "deriving", !.risk = r, !.todo = <<"job">>]
      PROVE  ReviewIInv'
  <2>0. r \in Risks \ known
    BY <1>3 DEF Candidates
  <2>1. /\ worker' \in Worker /\ worker'.item = worker.item /\ worker'.pc = "deriving"
        /\ worker'.todo = <<"job">> /\ worker'.risk = r
    <3>1. <<"job">> \in Seq(RecordTypes)
      BY DEF RecordTypes, ProbeRecords
    <3> QED BY <1>3, <2>0, <3>1, JournalTyped DEF Worker, Working
  <2>2. Asking(worker', Asks) /\ ~Pending(worker') /\ ~Asking(worker', {<<"verified">>})
    BY <2>1 DEF Asking, Asks, Pending, Answers
  <2>3. KeepsReview(journal.records, journal'.records) /\ JournalReadable'
    BY <1>0, <2>1 DEF KeepsReview, ReviewIInv, JournalReadable
  <2>4. Typed' /\ Queued' /\ Concludes' /\ Placed' /\ JournalReadable'
    BY <1>0, <1>1, <2>1, <2>2, <2>3, JournalTyped, AskingPast, MovesOn DEF probes
  <2>5. Counts'
    BY <1>0 DEF ReviewIInv, Counts, Counted, Unprobed, probes
  <2>6. Tried' /\ Settled'
    BY <1>0, <1>1, <2>0, <2>1, <2>2 DEF ReviewIInv, Tried, Settled, probes, others
  <2> QED BY <2>4, <2>5, <2>6 DEF ReviewIInv
<1> QED BY <1>2, <1>3 DEF Reserve

\* A risk whose snapshot cannot be built is settled by its rejection.
LEMMA RejectSnapshotStep == ASSUME ReviewIInv, RejectSnapshot PROVE ReviewIInv'
<1>0. /\ worker.pc = "scheduling" /\ UNCHANGED others /\ UNCHANGED queue
      /\ UNCHANGED disabled /\ UNCHANGED degraded
  BY DEF RejectSnapshot
<1>1. PICK r \in Candidates : \E a \in Appends(journal, [type |-> "rejection", of |-> r]) :
        /\ journal' = a.journal
        /\ \/ /\ a.ok
              /\ known' = known \cup {r} /\ completed' = completed \cup {r}
              /\ UNCHANGED worker
           \/ ~a.ok /\ Go("failing") /\ UNCHANGED <<known, completed>>
  BY DEF RejectSnapshot
<1>2. r \in Risks /\ r \notin known
  BY <1>1 DEF Candidates
<1> DEFINE x == [type |-> "rejection", of |-> r]
           s == journal.records
           t == journal'.records
<1>3. /\ x \in Record /\ KeepsReview(s, Append(s, x)) /\ Adds(s, Append(s, x), "rejection", r)
      /\ Outages(Append(s, x)) = Outages(s)
  BY <1>2, JournalTyped, ProbeAppend DEF ProbeRecords
<1>4. PICK a \in Appends(journal, x) :
        /\ journal' = a.journal
        /\ \/ /\ a.ok
              /\ known' = known \cup {r} /\ completed' = completed \cup {r}
              /\ UNCHANGED worker
           \/ ~a.ok /\ Go("failing") /\ UNCHANGED <<known, completed>>
  BY <1>1
<1>5. /\ journal' \in Journals
      /\ a.ok => t = Append(s, x) /\ journal'.readable = journal.readable
      /\ ~a.ok => t = s
  BY <1>3, <1>4, JournalTyped, AppendsWhat
<1>6. CASE ~a.ok
  <2>1. UNCHANGED probes /\ worker' = [worker EXCEPT !.pc = "failing"] /\ Calm(s, t)
    BY <1>0, <1>4, <1>5, <1>6 DEF probes, Go, Calm
  <2>2. degraded' \in BOOLEAN /\ (degraded => degraded') /\ worker.pc \notin {"idle", "gone"}
    BY <1>0, JournalTyped
  <2> QED BY <1>0, <1>5, <2>1, <2>2, Failing
<1>7. CASE a.ok
  <2>1. /\ known' = known \cup {r} /\ completed' = completed \cup {r} /\ UNCHANGED worker
        /\ t = Append(s, x) /\ journal'.readable = journal.readable
    BY <1>4, <1>5, <1>7
  <2>2. Past(worker) /\ ~Staging(worker) /\ ~Pending(worker) /\ \A todos : ~Asking(worker, todos)
    BY <1>0 DEF Past, Staging, Pending, Asking
  <2>3. Past(worker') /\ ~Staging(worker') /\ JournalReadable'
    BY <1>0, <2>1, <2>2 DEF ReviewIInv, JournalReadable
  <2>4. Typed' /\ Queued' /\ Concludes' /\ Placed' /\ JournalReadable'
    BY <1>0, <1>2, <1>3, <1>5, <2>1, <2>2, <2>3, JournalTyped, MovesOn
  <2>5. Adds(s, t, "rejection", r)
    BY <1>3, <2>1
  <2>6. \A type \in ProbeTypes, q \in Risks : CountIn(s, type, q) \in Nat
    BY <1>3, JournalTyped, Counting
  <2>7. Counts'
    <3> SUFFICES ASSUME NEW q \in Risks PROVE Counted(journal.records, q)'
      BY DEF Counts
    <3>1. Counted(s, q)
      BY DEF ReviewIInv, Counts
    <3>2. CASE q = r
      BY <1>2, <2>1, <2>5, <2>6, <3>1, <3>2 DEF Counted, Adds, Unprobed, ProbeTypes
    <3>3. CASE q # r
      BY <1>2, <2>1, <2>5, <2>6, <3>1, <3>3 DEF Counted, Adds, Unprobed, ProbeTypes
    <3> QED BY <3>2, <3>3
  <2>8. Tried'
    <3>1. main.probe # NoRisk => CountIn(t, "job", main.probe) = CountIn(s, "job", main.probe)
      BY <2>5, <2>6, JournalTyped DEF Adds, ProbeTypes, ReviewIInv, Tried
    <3> QED BY <1>0, <2>1, <2>2, <3>1 DEF ReviewIInv, Tried, others
  <2>9. Settled'
    BY <1>0, <2>1, <2>2 DEF ReviewIInv, Settled
  <2> QED BY <2>4, <2>7, <2>8, <2>9 DEF ReviewIInv
<1> QED BY <1>6, <1>7, <1>5, <1>4

\* Where the worker stands once a probe's record is in the journal.
LEMMA RecordedProbe ==
    ASSUME ReviewIInv, Asking(worker, Asks), worker' = Recorded
    PROVE  /\ worker' \in Worker /\ worker'.item = worker.item /\ worker'.risk = worker.risk
           /\ worker.todo \in {<<"outcome">>, <<"outcome", "verified">>} =>
                worker'.pc = "completing" /\ worker'.todo \in {<<>>, <<"verified">>}
           /\ worker.todo = <<"disabled", "outcome">> =>
                worker'.pc = "deriving" /\ worker'.todo = <<"outcome">>
           /\ worker.todo = <<"verified">> => worker'.pc = "scheduling"
           /\ worker.todo = <<"job">> => worker'.pc = "starting"
<1>0. worker \in Worker /\ worker.pc = "deriving" /\ worker.todo \in Asks
  BY JournalTyped DEF Asking
<1>1. Due.type = Head(worker.todo)
  BY <1>0, DueWhat
<1>2. <<>> \in Seq(RecordTypes) /\ <<"verified">> \in Seq(RecordTypes)
      /\ <<"outcome">> \in Seq(RecordTypes)
  BY DEF RecordTypes, ProbeRecords
<1>3. CASE worker.todo = <<"outcome">>
  <2>1. worker' = [worker EXCEPT !.todo = <<>>, !.pc = "completing"]
    BY <1>1, <1>3 DEF Recorded
  <2>2. worker' \in Worker /\ worker'.item = worker.item /\ worker'.risk = worker.risk
        /\ worker'.pc = "completing" /\ worker'.todo = <<>>
    BY <1>0, <1>2, <2>1 DEF Worker, Working
  <2> QED BY <1>3, <2>2
<1>4. CASE worker.todo = <<"outcome", "verified">>
  <2>1. worker' = [worker EXCEPT !.todo = <<"verified">>, !.pc = "completing"]
    BY <1>1, <1>4 DEF Recorded
  <2>2. worker' \in Worker /\ worker'.item = worker.item /\ worker'.risk = worker.risk
        /\ worker'.pc = "completing" /\ worker'.todo = <<"verified">>
    BY <1>0, <1>2, <2>1 DEF Worker, Working
  <2> QED BY <1>4, <2>2
<1>5. CASE worker.todo = <<"disabled", "outcome">>
  <2>1. worker' = [worker EXCEPT !.todo = <<"outcome">>, !.pc = "deriving"]
    BY <1>1, <1>5 DEF Recorded
  <2>2. worker' \in Worker /\ worker'.item = worker.item /\ worker'.risk = worker.risk
        /\ worker'.pc = "deriving" /\ worker'.todo = <<"outcome">>
    BY <1>0, <1>2, <2>1 DEF Worker, Working
  <2> QED BY <1>5, <2>2
<1>6. CASE worker.todo = <<"verified">>
  <2>1. worker' = [worker EXCEPT !.todo = <<>>, !.pc = "scheduling"]
    BY <1>1, <1>6 DEF Recorded
  <2>2. worker' \in Worker /\ worker'.item = worker.item /\ worker'.risk = worker.risk
        /\ worker'.pc = "scheduling" /\ worker'.todo = <<>>
    BY <1>0, <1>2, <2>1 DEF Worker, Working
  <2> QED BY <1>6, <2>2
<1>7. CASE worker.todo = <<"job">>
  <2>1. worker' = [worker EXCEPT !.todo = <<>>, !.pc = "starting"]
    BY <1>1, <1>7 DEF Recorded
  <2>2. worker' \in Worker /\ worker'.item = worker.item /\ worker'.risk = worker.risk
        /\ worker'.pc = "starting" /\ worker'.todo = <<>>
    BY <1>0, <1>2, <2>1 DEF Worker, Working
  <2> QED BY <1>7, <2>2
<1> QED BY <1>0, <1>3, <1>4, <1>5, <1>6, <1>7 DEF Asks, Answers

\* A probe's record is journalled, or refused.
LEMMA DeriveProbeStep == ASSUME ReviewIInv, Derive, Asking(worker, Asks) PROVE ReviewIInv'
<1> DEFINE r == worker.risk
           kind == Head(worker.todo)
           s == journal.records
           t == journal'.records
<1>0. /\ worker.pc = "deriving" /\ UNCHANGED others /\ UNCHANGED queue
      /\ UNCHANGED degraded /\ UNCHANGED completed /\ worker.todo \in Asks
  BY DEF Derive, Asking
<1>1. kind \in ProbeRecords /\ Due = [type |-> kind, of |-> r] /\ r \in Risks /\ Due.type = kind
  BY <1>0, DueWhat
<1>2. /\ Due \in Record /\ KeepsReview(s, Append(s, Due)) /\ Adds(s, Append(s, Due), kind, r)
      /\ Outages(Append(s, Due)) = Outages(s)
  BY <1>1, JournalTyped, ProbeAppend
<1>3. PICK a \in Appends(journal, Due) :
        /\ journal' = a.journal
        /\ \/ /\ a.ok /\ worker' = Recorded
              /\ known' = known \cup (IF Due.type = "job" THEN {worker.risk} ELSE {})
              /\ disabled' = (disabled \/ Due.type = "disabled")
           \/ ~a.ok /\ Go("failing") /\ UNCHANGED <<known, disabled>>
  BY DEF Derive
<1>4. /\ journal' \in Journals
      /\ a.ok => t = Append(s, Due) /\ journal'.readable = journal.readable
      /\ ~a.ok => t = s
  BY <1>2, <1>3, JournalTyped, AppendsWhat
<1>5. CASE ~a.ok
  <2>1. UNCHANGED probes /\ worker' = [worker EXCEPT !.pc = "failing"] /\ Calm(s, t)
    BY <1>0, <1>3, <1>4, <1>5 DEF probes, Go, Calm
  <2>2. degraded' \in BOOLEAN /\ (degraded => degraded') /\ worker.pc \notin {"idle", "gone"}
    BY <1>0, JournalTyped
  <2> QED BY <1>0, <1>4, <2>1, <2>2, Failing
<1>6. CASE a.ok
  <2>1. /\ worker' = Recorded
        /\ known' = known \cup (IF kind = "job" THEN {r} ELSE {})
        /\ disabled' = (disabled \/ kind = "disabled")
        /\ t = Append(s, Due) /\ journal'.readable = journal.readable
    BY <1>1, <1>3, <1>4, <1>6
  <2>2. /\ worker' \in Worker /\ worker'.item = worker.item /\ worker'.risk = r
        /\ worker.todo \in {<<"outcome">>, <<"outcome", "verified">>} =>
             worker'.pc = "completing" /\ worker'.todo \in {<<>>, <<"verified">>}
        /\ worker.todo = <<"disabled", "outcome">> =>
             worker'.pc = "deriving" /\ worker'.todo = <<"outcome">>
        /\ worker.todo = <<"verified">> => worker'.pc = "scheduling"
        /\ worker.todo = <<"job">> => worker'.pc = "starting"
    BY <2>1, RecordedProbe
  <2>3. /\ Past(worker) /\ Past(worker') /\ ~Staging(worker') /\ worker'.pc # "failing"
        /\ worker'.pc = "deriving" => Asking(worker', Asks)
        /\ worker'.pc = "completing" => worker'.todo \in {<<>>, <<"verified">>}
        /\ worker'.pc \notin {"idle", "leaving", "gone"}
    BY <1>0, <2>2, AskingPast DEF Asks, Answers, Asking, Past, Pending
  <2>4. disabled' \in BOOLEAN /\ known' \in SUBSET Risks /\ known \subseteq known'
        /\ completed' \in SUBSET known' /\ Outages(t) = Outages(s) /\ KeepsReview(s, t)
    BY <1>0, <1>1, <1>2, <2>1, JournalTyped
  <2>5. JournalReadable'
    BY <1>0, <2>1 DEF ReviewIInv, JournalReadable
  <2>6. Typed' /\ Queued' /\ Concludes' /\ Placed' /\ JournalReadable'
    BY <1>0, <1>4, <2>2, <2>3, <2>4, <2>5, MovesOn
  <2>7. Adds(s, t, kind, r) /\ \A type \in ProbeTypes, q \in Risks : CountIn(s, type, q) \in Nat
    BY <1>2, <2>1, JournalTyped, Counting
  <2>8. /\ kind = "job" <=> worker.todo = <<"job">>
        /\ kind = "outcome" <=> worker.todo \in {<<"outcome">>, <<"outcome", "verified">>}
        /\ kind \notin {"rejection", "cancellation"}
        /\ worker.todo = <<"disabled", "outcome">> => kind = "disabled"
        /\ worker.todo = <<"verified">> => kind = "verified"
    BY <1>0 DEF Asks, Answers
  <2>9. CASE kind = "job"
    <3>1. r \notin known /\ Unprobed(s, r) /\ worker'.pc = "starting" /\ known' = known \cup {r}
      BY <1>0, <1>1, <2>1, <2>2, <2>8, <2>9
         DEF ReviewIInv, Tried, Counts, Counted, Asking, Unprobed
    <3>2. Counts'
      <4> SUFFICES ASSUME NEW q \in Risks PROVE Counted(journal.records, q)'
        BY DEF Counts
      <4>1. Counted(s, q)
        BY DEF ReviewIInv, Counts
      <4>2. CASE q = r
        BY <1>0, <2>7, <2>9, <3>1, <4>1, <4>2, JournalTyped
           DEF Counted, Adds, Unprobed, ProbeTypes
      <4>3. CASE q # r
        BY <1>0, <2>7, <2>9, <3>1, <4>1, <4>3 DEF Counted, Adds, Unprobed, ProbeTypes
      <4> QED BY <4>2, <4>3
    <3>3. Tried'
      <4>1. CountIn(t, "job", r) = 1 /\ CountIn(t, "outcome", r) = 0
        BY <1>1, <2>7, <2>9, <3>1 DEF Adds, Unprobed, ProbeTypes
      <4>2. main.probe # NoRisk => CountIn(t, "job", main.probe) = CountIn(s, "job", main.probe)
        BY <2>7, <3>1, JournalTyped DEF Adds, ProbeTypes, ReviewIInv, Tried
      <4> QED BY <1>0, <2>2, <3>1, <4>1, <4>2 DEF ReviewIInv, Tried, others, Asking
    <3>4. ~Pending(worker) /\ worker.pc # "completing"
      BY <1>0, <2>8, <2>9 DEF Pending, Asking, Answers
    <3>5. Settled'
      BY <1>0, <2>2, <2>3, <3>1, <3>4 DEF ReviewIInv, Settled, Pending
    <3> QED BY <2>6, <3>2, <3>3, <3>5 DEF ReviewIInv
  <2>10. CASE kind = "outcome"
    <3>1. /\ Pending(worker) /\ worker'.pc = "completing" /\ known' = known
          /\ r \in known /\ CountIn(s, "job", r) = 1 /\ CountIn(s, "outcome", r) = 0
      BY <1>0, <1>1, <2>1, <2>2, <2>8, <2>10 DEF ReviewIInv, Tried, Pending, Asking, Answers
    <3>2. Counts'
      <4> SUFFICES ASSUME NEW q \in Risks PROVE Counted(journal.records, q)'
        BY DEF Counts
      <4>1. Counted(s, q)
        BY DEF ReviewIInv, Counts
      <4>2. CASE q = r
        BY <1>0, <2>7, <2>10, <3>1, <4>1, <4>2 DEF Counted, Adds, Unprobed, ProbeTypes
      <4>3. CASE q # r
        BY <1>0, <2>7, <2>10, <3>1, <4>1, <4>3 DEF Counted, Adds, Unprobed, ProbeTypes
      <4> QED BY <4>2, <4>3
    <3>3. Tried'
      <4>1. CountIn(t, "outcome", r) = 1
        BY <1>1, <2>7, <2>10, <3>1 DEF Adds, ProbeTypes
      <4>2. main.probe # NoRisk => CountIn(t, "job", main.probe) = CountIn(s, "job", main.probe)
        BY <2>7, <2>10, JournalTyped DEF Adds, ProbeTypes, ReviewIInv, Tried
      <4> QED BY <1>0, <2>2, <3>1, <4>1, <4>2 DEF ReviewIInv, Tried, others, Asking, Pending
    <3>4. Settled'
      BY <1>0, <2>2, <2>3, <3>1 DEF ReviewIInv, Settled
    <3> QED BY <2>6, <3>2, <3>3, <3>4 DEF ReviewIInv
  <2>11. CASE kind \notin {"job", "outcome"}
    <3>1. /\ known' = known /\ worker.todo \in {<<"disabled", "outcome">>, <<"verified">>}
          /\ kind \notin ProbeTypes
      BY <1>0, <2>1, <2>8, <2>11 DEF Asks, Answers, ProbeTypes
    <3>2. KeepsCounts(s, t)
      BY <2>7, <3>1 DEF Adds, KeepsCounts, ProbeTypes
    <3>3. Counts'
      BY <1>0, <3>1, <3>2 DEF ReviewIInv, Counts, Counted, KeepsCounts, Unprobed, ProbeTypes
    <3>4. worker.todo = <<"disabled", "outcome">> => Pending(worker) /\ Pending(worker')
      BY <1>0, <2>2 DEF Pending, Asking, Answers
    <3>5. worker.todo = <<"verified">> => ~Pending(worker) /\ ~Pending(worker')
      BY <1>0, <2>2 DEF Pending, Asking, Answers
    <3>6. Tried'
      BY <1>0, <1>1, <2>2, <3>1, <3>2, <3>4, <3>5, JournalTyped
         DEF ReviewIInv, Tried, KeepsCounts, ProbeTypes, others, Asking
    <3>7. Settled'
      BY <1>0, <2>2, <2>3, <3>1, <3>4, <3>5 DEF ReviewIInv, Settled
    <3> QED BY <2>6, <3>3, <3>6, <3>7 DEF ReviewIInv
  <2> QED BY <2>9, <2>10, <2>11
<1> QED BY <1>5, <1>6, <1>4, <1>3

\* The worker's record, of a stage or of a probe.
LEMMA DeriveStep == ASSUME ReviewIInv, Derive PROVE ReviewIInv'
<1>1. Staging(worker) \/ Asking(worker, Asks)
  BY DEF Derive, ReviewIInv, Typed
<1> QED BY <1>1, DeriveStageStep, DeriveProbeStep

\* Counts are numbers.
LEMMA CountsAreNumbers ==
    ASSUME NEW s \in Recs, NEW type, NEW r PROVE CountIn(s, type, r) \in Nat
<1>1. Degradation \in Record
  BY ReviewAssumption DEF Degradation, Record, RecordTypes
<1> QED BY <1>1, Counting

\* A job that waits, runs or has ended without a record, or that was cancelled meanwhile.
LEMMA Turns ==
    ASSUME ReviewIInv, UNCHANGED others, UNCHANGED queue, UNCHANGED probes, UNCHANGED journal,
           UNCHANGED degraded, Pending(worker), worker' \in Worker,
           worker'.item = worker.item, worker'.risk = worker.risk,
           \/ Pending(worker')
           \/ worker'.pc = "scheduling" /\ worker.risk \in completed
    PROVE  ReviewIInv'
<1>1. worker'.pc \notin {"idle", "taken", "gone", "completing", "leaving", "failing"}
      /\ worker.pc \notin {"idle", "taken", "gone", "completing", "leaving", "failing"}
      /\ (worker'.pc = "deriving" => Asking(worker', Answers))
  BY DEF Pending, Asking
<1>2. Asking(worker', Answers) => Asking(worker', Asks) /\ worker'.todo \in Answers
  BY DEF Asking, Asks
<1>3. Past(worker) /\ Past(worker') /\ ~Staging(worker')
  BY <1>1, <1>2, AskingPast DEF Past
<1>4. KeepsReview(journal.records, journal'.records) /\ JournalReadable'
  BY <1>1 DEF KeepsReview, ReviewIInv, JournalReadable
<1>5. Typed' /\ Queued' /\ Concludes' /\ Placed' /\ JournalReadable'
  BY <1>1, <1>2, <1>3, <1>4, JournalTyped, MovesOn DEF probes
<1>6. Counts'
  BY DEF ReviewIInv, Counts, Counted, Unprobed, probes
<1>7. ~Asking(worker', {<<"job">>}) /\ ~Asking(worker', {<<"verified">>})
  BY <1>1, <1>2 DEF Asking, Answers
<1>8. Tried'
  BY <1>1, <1>7 DEF ReviewIInv, Tried, probes, others
<1>9. Settled'
  BY <1>1 DEF ReviewIInv, Settled, probes
<1> QED BY <1>5, <1>6, <1>8, <1>9 DEF ReviewIInv

\* The probe begins.
LEMMA StartStep == ASSUME ReviewIInv, Start PROVE ReviewIInv'
<1>1. /\ worker.pc = "starting" /\ worker' = [worker EXCEPT !.pc = "probing"]
      /\ UNCHANGED others /\ UNCHANGED queue /\ UNCHANGED probes /\ UNCHANGED journal
      /\ UNCHANGED degraded
  BY DEF Start, Go
<1>2. worker' \in Worker /\ worker'.item = worker.item /\ worker'.risk = worker.risk
      /\ worker'.pc = "probing"
  BY <1>1, JournalTyped DEF Worker, Working
<1>3. Pending(worker) /\ Pending(worker')
  BY <1>1, <1>2 DEF Pending
<1> QED BY <1>1, <1>2, <1>3, Turns

\* The probe returns.
LEMMA ReturnStep == ASSUME ReviewIInv, Return PROVE ReviewIInv'
<1>1. /\ worker.pc = "probing" /\ worker' = [worker EXCEPT !.pc = "returned"]
      /\ UNCHANGED others /\ UNCHANGED queue /\ UNCHANGED probes /\ UNCHANGED journal
      /\ UNCHANGED degraded
  BY DEF Return, Go
<1>2. worker' \in Worker /\ worker'.item = worker.item /\ worker'.risk = worker.risk
      /\ worker'.pc = "returned"
  BY <1>1, JournalTyped DEF Worker, Working
<1>3. Pending(worker) /\ Pending(worker')
  BY <1>1, <1>2 DEF Pending
<1> QED BY <1>1, <1>2, <1>3, Turns

\* A probe that was cancelled has no outcome any more, any other has one to journal.
LEMMA CheckCancelledStep == ASSUME ReviewIInv, CheckCancelled PROVE ReviewIInv'
<1>1. /\ worker.pc = "returned"
      /\ UNCHANGED others /\ UNCHANGED queue /\ UNCHANGED probes /\ UNCHANGED journal
      /\ UNCHANGED degraded
  BY DEF CheckCancelled
<1>2. Pending(worker)
  BY <1>1 DEF Pending
<1>3. CASE worker.risk \in completed /\ Go("scheduling")
  <2>1. worker' \in Worker /\ worker'.item = worker.item /\ worker'.risk = worker.risk
        /\ worker'.pc = "scheduling"
    BY <1>3, JournalTyped DEF Worker, Working, Go
  <2> QED BY <1>1, <1>2, <1>3, <2>1, Turns
<1>4. ASSUME NEW o \in Outcomes, worker' = [worker EXCEPT !.pc = "deriving", !.todo = o]
      PROVE  ReviewIInv'
  <2>1. o \in Answers /\ o \in Seq(RecordTypes)
    <3>1. o \in Answers
      BY DEF Outcomes, Answers
    <3>2. Answers \subseteq Seq(RecordTypes)
      BY DEF Answers, RecordTypes, ProbeRecords
    <3> QED BY <3>1, <3>2
  <2>2. worker' \in Worker /\ worker'.item = worker.item /\ worker'.risk = worker.risk
        /\ worker'.pc = "deriving" /\ worker'.todo = o
    BY <1>4, <2>1, JournalTyped DEF Worker, Working
  <2>3. Pending(worker')
    BY <2>1, <2>2 DEF Pending, Asking
  <2> QED BY <1>1, <1>2, <2>2, <2>3, Turns
<1> QED BY <1>3, <1>4 DEF CheckCancelled

\* A job that no scheduler takes, or whose result is another's, is cancelled.
LEMMA RejectJobStep == ASSUME ReviewIInv, RejectJob PROVE ReviewIInv'
<1> DEFINE r == worker.risk
           x == Cancellation(r)
           s == journal.records
           t == journal'.records
<1>0. /\ worker.pc \in {"starting", "returned"} /\ CancelJob(r)
      /\ UNCHANGED others /\ UNCHANGED queue /\ UNCHANGED known /\ UNCHANGED disabled
      /\ UNCHANGED degraded
  BY DEF RejectJob
<1>1. /\ Pending(worker) /\ r \in known /\ CountIn(s, "job", r) = 1 /\ CountIn(s, "outcome", r) = 0
      /\ r \in Risks
  BY <1>0, JournalTyped DEF Pending, ReviewIInv, Tried
<1>2. CASE r \in completed
  <2>1. UNCHANGED probes /\ UNCHANGED journal /\ worker' = [worker EXCEPT !.pc = "scheduling"]
    BY <1>0, <1>2 DEF CancelJob, Go, probes
  <2>2. worker' \in Worker /\ worker'.item = worker.item /\ worker'.risk = worker.risk
        /\ worker'.pc = "scheduling"
    BY <2>1, JournalTyped DEF Worker, Working
  <2> QED BY <1>0, <1>1, <1>2, <2>1, <2>2, Turns
<1>3. CASE r \notin completed
  <2>0. /\ x \in Record /\ KeepsReview(s, Append(s, x))
        /\ Adds(s, Append(s, x), "cancellation", r) /\ Outages(Append(s, x)) = Outages(s)
    BY <1>1, JournalTyped, ProbeAppend DEF ProbeRecords, Cancellation
  <2>1. PICK a \in Appends(journal, x) :
          /\ journal' = a.journal
          /\ \/ a.ok /\ Go("scheduling") /\ completed' = completed \cup {r}
             \/ ~a.ok /\ Go("failing") /\ UNCHANGED completed
    BY <1>0, <1>3 DEF CancelJob
  <2>2. /\ journal' \in Journals
        /\ a.ok => t = Append(s, x) /\ journal'.readable = journal.readable
        /\ ~a.ok => t = s
    BY <2>0, <2>1, JournalTyped, AppendsWhat
  <2>3. CASE ~a.ok
    <3>1. UNCHANGED probes /\ worker' = [worker EXCEPT !.pc = "failing"] /\ Calm(s, t)
      BY <1>0, <2>1, <2>2, <2>3 DEF probes, Go, Calm
    <3>2. degraded' \in BOOLEAN /\ (degraded => degraded') /\ worker.pc \notin {"idle", "gone"}
      BY <1>0, JournalTyped
    <3> QED BY <1>0, <2>2, <3>1, <3>2, Failing
  <2>4. CASE a.ok
    <3>1. /\ completed' = completed \cup {r} /\ t = Append(s, x)
          /\ journal'.readable = journal.readable /\ worker' = [worker EXCEPT !.pc = "scheduling"]
      BY <2>1, <2>2, <2>4 DEF Go
    <3>2. worker' \in Worker /\ worker'.item = worker.item /\ worker'.pc = "scheduling"
      BY <3>1, JournalTyped DEF Worker, Working
    <3>3. Past(worker) /\ Past(worker') /\ ~Staging(worker') /\ ~Pending(worker')
          /\ \A todos : ~Asking(worker', todos)
      BY <1>1, <3>2, AskingPast DEF Past, Pending, Asking
    <3>4. JournalReadable'
      BY <1>0, <3>1 DEF ReviewIInv, JournalReadable
    <3>5. known' \in SUBSET Risks /\ completed' \in SUBSET known' /\ disabled' \in BOOLEAN
      BY <1>0, <1>1, <3>1, JournalTyped
    <3>6. Typed' /\ Queued' /\ Concludes' /\ Placed' /\ JournalReadable'
      BY <1>0, <2>0, <2>2, <3>1, <3>2, <3>3, <3>4, <3>5, MovesOn
    <3>7. Adds(s, t, "cancellation", r)
          /\ \A type \in ProbeTypes, q \in Risks : CountIn(s, type, q) \in Nat
      BY <2>0, <3>1, JournalTyped, Counting
    <3>8. Counts'
      <4> SUFFICES ASSUME NEW q \in Risks PROVE Counted(journal.records, q)'
        BY DEF Counts
      <4>1. Counted(s, q)
        BY DEF ReviewIInv, Counts
      <4>2. CASE q = r
        BY <1>0, <1>1, <1>3, <3>1, <3>7, <4>1, <4>2 DEF Counted, Adds, Unprobed, ProbeTypes
      <4>3. CASE q # r
        BY <1>0, <3>1, <3>7, <4>1, <4>3 DEF Counted, Adds, Unprobed, ProbeTypes
      <4> QED BY <4>2, <4>3
    <3>9. Tried'
      <4>1. main.probe # NoRisk => CountIn(t, "job", main.probe) = CountIn(s, "job", main.probe)
        BY <3>7, JournalTyped DEF Adds, ProbeTypes, ReviewIInv, Tried
      <4> QED BY <1>0, <3>2, <3>3, <4>1 DEF ReviewIInv, Tried, others
    <3>10. Settled'
      BY <1>0, <3>1, <3>2 DEF ReviewIInv, Settled
    <3> QED BY <3>6, <3>8, <3>9, <3>10 DEF ReviewIInv
  <2> QED BY <2>3, <2>4, <2>1, <2>2
<1> QED BY <1>2, <1>3

\* The outcome is in the journal: the risk is settled.
LEMMA CompleteStep == ASSUME ReviewIInv, Complete PROVE ReviewIInv'
<1> DEFINE r == worker.risk
           s == journal.records
<1>0. /\ worker.pc = "completing" /\ UNCHANGED others /\ UNCHANGED queue /\ UNCHANGED known
      /\ UNCHANGED disabled /\ UNCHANGED degraded /\ UNCHANGED journal
      /\ completed' = completed \cup {r}
      /\ worker' = [worker EXCEPT !.pc = IF worker.todo = <<>> THEN "scheduling" ELSE "deriving"]
  BY DEF Complete, Go
<1>1. r \in known /\ CountIn(s, "outcome", r) = 1 /\ worker.todo \in {<<>>, <<"verified">>}
  BY <1>0 DEF ReviewIInv, Tried, Typed
<1>2. /\ worker' \in Worker /\ worker'.item = worker.item /\ worker'.risk = r
      /\ worker'.todo = worker.todo
      /\ worker'.pc = IF worker.todo = <<>> THEN "scheduling" ELSE "deriving"
  BY <1>0, JournalTyped DEF Worker, Working
<1>3. /\ Past(worker)
      /\ worker'.pc = "deriving" => Asking(worker', {<<"verified">>})
      /\ ~Asking(worker', {<<"job">>}) /\ ~Asking(worker', Answers)
  BY <1>0, <1>1, <1>2 DEF Past, Asking, Answers
<1>4. Asking(worker', {<<"verified">>}) => Asking(worker', Asks)
  BY DEF Asking, Asks
<1>5. Past(worker') /\ ~Staging(worker') /\ ~Pending(worker')
      /\ (worker'.pc = "deriving" => Asking(worker', Asks))
  BY <1>2, <1>3, <1>4, AskingPast DEF Past, Pending
<1>6. KeepsReview(s, journal'.records) /\ JournalReadable'
  BY <1>0, <1>2 DEF KeepsReview, ReviewIInv, JournalReadable
<1>7. known' \in SUBSET Risks /\ completed' \in SUBSET known' /\ disabled' \in BOOLEAN
  BY <1>0, <1>1, JournalTyped
<1>8. Typed' /\ Queued' /\ Concludes' /\ Placed' /\ JournalReadable'
  <2>1. worker'.pc # "completing"
    BY <1>2
  <2> QED BY <1>0, <1>2, <1>3, <1>5, <1>6, <1>7, <2>1, JournalTyped, MovesOn
<1>9. Counts'
  <2> SUFFICES ASSUME NEW q \in Risks PROVE Counted(journal.records, q)'
    BY DEF Counts
  <2>1. Counted(s, q)
    BY DEF ReviewIInv, Counts
  <2>2. \A type \in ProbeTypes : CountIn(s, type, q) \in Nat
    BY JournalTyped, CountsAreNumbers
  <2>3. CASE q = r
    BY <1>0, <1>1, <2>1, <2>2, <2>3 DEF Counted, Unprobed, ProbeTypes
  <2>4. CASE q # r
    BY <1>0, <2>1, <2>4 DEF Counted, Unprobed
  <2> QED BY <2>3, <2>4
<1>10. Tried'
  BY <1>0, <1>2, <1>3, <1>5 DEF ReviewIInv, Tried, others
<1>11. Settled'
  BY <1>0, <1>2 DEF ReviewIInv, Settled
<1> QED BY <1>8, <1>9, <1>10, <1>11 DEF ReviewIInv

\* The worker is done with its exchange.
LEMMA LeaveStep == ASSUME ReviewIInv, Leave PROVE ReviewIInv'
<1>0. /\ worker.pc = "leaving" /\ UNCHANGED others /\ UNCHANGED queue /\ UNCHANGED probes
      /\ UNCHANGED degraded /\ UNCHANGED journal
      /\ worker' = [pc |-> "idle", item |-> 0, risk |-> NoRisk, todo |-> <<>>]
  BY DEF Leave
<1>1. worker' \in Worker /\ worker'.pc = "idle"
  BY <1>0, ReviewAssumption DEF Worker
<1>2. Base' = Base /\ Closing' = Closing
  BY <1>0 DEF Base, Closing, others
<1>3. /\ ~Staging(worker') /\ ~Past(worker') /\ ~Pending(worker') /\ ~Pending(worker)
      /\ Past(worker) /\ \A todos : ~Asking(worker', todos)
  BY <1>0, <1>1 DEF Staging, Past, Pending, Asking
<1>4. Typed'
  BY <1>0, <1>1 DEF ReviewIInv, Typed, TypeOK, probes, others
<1>5. Queued'
  BY <1>0, <1>1, <1>2 DEF ReviewIInv, Queued, others
<1>6. Placed'
  <2>1. ~degraded => Through(journal.records, Base)
    BY <1>0, <1>3 DEF ReviewIInv, Placed, Queued
  <2> QED BY <1>0, <1>1, <1>2, <1>3, <2>1 DEF ReviewIInv, Placed, others
<1>7. JournalReadable' /\ Counts' /\ Concludes'
  BY <1>0, <1>1 DEF ReviewIInv, JournalReadable, Counts, Counted, Unprobed, Concludes, probes,
                    others
<1>8. Tried'
  BY <1>0, <1>1, <1>3 DEF ReviewIInv, Tried, probes, others
<1>9. Settled'
  BY <1>0, <1>1, <1>2, <1>3 DEF ReviewIInv, Settled, probes
<1> QED BY <1>4, <1>5, <1>6, <1>7, <1>8, <1>9 DEF ReviewIInv

\* With the queue empty and the controller stopping, the worker ends.
LEMMA ExitStep == ASSUME ReviewIInv, Exit PROVE ReviewIInv'
<1>0. /\ worker.pc = "idle" /\ Closing /\ queue = <<>> /\ UNCHANGED others /\ UNCHANGED queue
      /\ UNCHANGED probes /\ UNCHANGED degraded /\ UNCHANGED journal
      /\ worker' = [worker EXCEPT !.pc = "gone"]
  BY DEF Exit, Go
<1>1. worker' \in Worker /\ worker'.pc = "gone"
  BY <1>0, JournalTyped DEF Worker, Working
<1>2. Base' = Base /\ Closing' = Closing
  BY <1>0 DEF Base, Closing, others
<1>3. /\ ~Staging(worker') /\ ~Past(worker') /\ ~Pending(worker') /\ ~Pending(worker)
      /\ \A todos : ~Asking(worker', todos)
  BY <1>0, <1>1 DEF Staging, Past, Pending, Asking
<1>4. Typed'
  BY <1>0, <1>1 DEF ReviewIInv, Typed, TypeOK, probes, others
<1>5. Queued'
  BY <1>0, <1>1, <1>2 DEF ReviewIInv, Queued, others
<1>6. Placed'
  BY <1>0, <1>1, <1>2, <1>3 DEF ReviewIInv, Placed, others
<1>7. JournalReadable' /\ Counts' /\ Concludes'
  BY <1>0, <1>1 DEF ReviewIInv, JournalReadable, Counts, Counted, Unprobed, Concludes, probes,
                    others
<1>8. Tried'
  BY <1>0, <1>1, <1>3 DEF ReviewIInv, Tried, probes, others
<1>9. Settled'
  BY <1>0, <1>1, <1>2, <1>3 DEF ReviewIInv, Settled, probes
<1> QED BY <1>4, <1>5, <1>6, <1>7, <1>8, <1>9 DEF ReviewIInv

------------------------------------------------------------------------------
(* The ledger's writer thread.                                             *)

\* An exchange that is committed goes to the end of the queue, or ends the ledger.
LEMMA CommitStep == ASSUME ReviewIInv, Commit PROVE ReviewIInv'
<1>0. /\ queue \in Seq(1..MaxExchanges) /\ Len(queue) \in Nat /\ Len(queue) <= MaxQueue
      /\ committed \in Nat /\ MaxExchanges \in Nat /\ MaxQueue \in Nat
      /\ ~ledgerDown /\ main.pc = "running" /\ committed < MaxExchanges
      /\ committed' = committed + 1 /\ ~Closing /\ ~Closing'
      /\ UNCHANGED <<worker, known, completed, disabled, main>>
  BY ReviewAssumption DEF Commit, ReviewIInv, Typed, TypeOK, Closing
<1>1. Base = committed - Len(queue)
  BY <1>0 DEF Base
<1>2. \/ /\ Len(queue) < MaxQueue /\ queue' = Append(queue, committed + 1)
         /\ UNCHANGED <<ledgerDown, journal, degraded>>
      \/ /\ ledgerDown' = TRUE /\ degraded' = TRUE
         /\ journal' \in Degrades(journal) /\ UNCHANGED queue
  BY DEF Commit
<1>3. /\ queue' \in Seq(1..MaxExchanges) /\ Len(queue') <= MaxQueue
      /\ \A i \in 1..Len(queue') : queue'[i] = Base + i
      /\ Base' = Base
      /\ degraded' \/ (queue' # <<>> /\ UNCHANGED <<journal, degraded>>)
      /\ ledgerDown' \in BOOLEAN /\ (ledgerDown' => degraded')
      /\ degraded' \in BOOLEAN /\ (degraded => degraded')
  <2>1. CASE /\ Len(queue) < MaxQueue /\ queue' = Append(queue, committed + 1)
             /\ UNCHANGED <<ledgerDown, journal, degraded>>
    <3>1. committed + 1 \in 1..MaxExchanges
      BY <1>0
    <3>2. /\ queue' \in Seq(1..MaxExchanges) /\ Len(queue') = Len(queue) + 1
          /\ \A i \in 1..Len(queue) : queue'[i] = queue[i]
          /\ queue'[Len(queue) + 1] = committed + 1
      BY <1>0, <2>1, <3>1, AppendProperties
    <3>3. Base' = Base
      BY <1>0, <1>1, <2>1, <3>2 DEF Base
    <3>4. \A i \in 1..Len(queue') : queue'[i] = Base + i
      <4>1. \A i \in 1..Len(queue) : queue[i] = Base + i
        BY DEF ReviewIInv, Queued
      <4> QED BY <1>0, <1>1, <3>2, <4>1
    <3>5. queue' # <<>>
      BY <1>0, <3>2
    <3>6. /\ UNCHANGED ledgerDown /\ UNCHANGED journal /\ UNCHANGED degraded
          /\ degraded \in BOOLEAN /\ ledgerDown' = FALSE
      BY <1>0, <2>1, JournalTyped DEF ReviewIInv, Typed, TypeOK
    <3>7. Len(queue') <= MaxQueue
      BY <1>0, <2>1, <3>2
    <3> QED BY <3>2, <3>3, <3>4, <3>5, <3>6, <3>7
  <2>2. CASE /\ ledgerDown' = TRUE /\ degraded' = TRUE
             /\ journal' \in Degrades(journal) /\ UNCHANGED queue
    <3>1. Base' = Base
      BY <1>0, <1>1, <2>2 DEF Base
    <3>2. \A i \in 1..Len(queue') : queue'[i] = Base + i
      BY <2>2 DEF ReviewIInv, Queued
    <3>3. ledgerDown' = TRUE /\ degraded' = TRUE /\ queue' = queue
      BY <2>2
    <3> QED BY <1>0, <3>1, <3>2, <3>3
  <2> QED BY <1>2, <2>1, <2>2
<1>4. /\ journal' \in Journals /\ KeepsReview(journal.records, journal'.records)
      /\ KeepsCounts(journal.records, journal'.records)
      /\ Outages(journal'.records) = Outages(journal.records)
  <2>1. journal' \in Journals /\ Calm(journal.records, journal'.records)
    BY <1>2, JournalTyped, DegradesWhat
  <2> QED BY <2>1, JournalTyped, CalmKeeps
<1>5. Typed'
  <2>1. TypeOK'
    BY <1>0, <1>3, <1>4 DEF ReviewIInv, Typed, TypeOK, Journals, Recs
  <2> QED BY <1>0, <1>4, <2>1 DEF ReviewIInv, Typed
<1>6. Queued'
  BY <1>0, <1>3 DEF ReviewIInv, Queued
<1>7. Placed'
  <2>1. InOrder(journal'.records, committed)
    BY <1>4 DEF ReviewIInv, Placed, KeepsReview
  <2>2. InOrder(journal'.records, committed + 1)
    <3>1. \A n \in 1..committed : n \in 1..committed + 1
      BY <1>0
    <3> QED BY <2>1, <3>1 DEF InOrder
  <2> QED BY <1>0, <1>3, <1>4, <2>2 DEF ReviewIInv, Placed, KeepsReview
<1>8. JournalReadable' /\ Concludes'
  BY <1>0, <1>3 DEF ReviewIInv, JournalReadable, Concludes
<1>9. Counts' /\ Tried'
  <2>1. Counts'
    BY <1>0, <1>4 DEF ReviewIInv, Counts, Counted, KeepsCounts, Unprobed, ProbeTypes
  <2>2. Tried'
    BY <1>0, <1>4, JournalTyped DEF ReviewIInv, Tried, KeepsCounts, ProbeTypes, Pending, Asking
  <2> QED BY <2>1, <2>2
<1>10. Settled'
  BY <1>0, <1>3 DEF ReviewIInv, Settled
<1> QED BY <1>5, <1>6, <1>7, <1>8, <1>9, <1>10 DEF ReviewIInv

------------------------------------------------------------------------------
(* The run's thread.                                                       *)

\* The parts of the invariant that the run's thread cannot disturb: it leaves the queue and
\* the worker alone and journals nothing of an exchange.
LEMMA MainKeeps ==
    ASSUME ReviewIInv, UNCHANGED pipeline, journal' \in Journals,
           KeepsReview(journal.records, journal'.records),
           degraded' \in BOOLEAN, degraded => degraded', JournalReadable',
           completed' \in SUBSET known, completed \subseteq completed',
           main' \in Main, Closing => Closing', Concludes',
           main'.pc \in {"running", "draining", "outage"} => Outages(journal'.records) = 0,
           main'.pc = "evidence" => Outages(journal'.records) <= 1
    PROVE  Typed' /\ Queued' /\ Placed' /\ JournalReadable' /\ Settled' /\ Concludes'
<1>1. Typed'
  <2>1. TypeOK'
    BY DEF ReviewIInv, Typed, TypeOK, pipeline, Journals, Recs
  <2> QED BY <2>1 DEF ReviewIInv, Typed, pipeline
<1>2. Base' = Base
  BY DEF Base, pipeline
<1>3. Queued'
  BY <1>2 DEF ReviewIInv, Queued, pipeline
<1>4. Placed'
  BY <1>2 DEF ReviewIInv, Placed, KeepsReview, pipeline
<1>5. Settled'
  BY <1>2 DEF ReviewIInv, Settled, pipeline
<1> QED BY <1>1, <1>3, <1>4, <1>5

\* A step that journals nothing of a probe either.
LEMMA MainCalm ==
    ASSUME ReviewIInv, UNCHANGED pipeline, UNCHANGED completed, journal' \in Journals,
           KeepsReview(journal.records, journal'.records),
           KeepsCounts(journal.records, journal'.records),
           degraded' \in BOOLEAN, degraded => degraded', JournalReadable',
           main' \in Main, Closing => Closing', Concludes',
           main'.pc \in {"running", "draining", "outage"} => Outages(journal'.records) = 0,
           main'.pc = "evidence" => Outages(journal'.records) <= 1,
           main'.probe # NoRisk =>
             main'.probe = main.probe \/ (main'.probe = worker.risk /\ Pending(worker))
    PROVE  ReviewIInv'
<1>1. Typed' /\ Queued' /\ Placed' /\ JournalReadable' /\ Settled' /\ Concludes'
  BY JournalTyped, MainKeeps
<1>2. Counts'
  BY DEF ReviewIInv, Counts, Counted, KeepsCounts, Unprobed, ProbeTypes, pipeline
<1>3. Tried'
  <2>1. main'.probe # NoRisk =>
          main'.probe \in known /\ CountIn(journal.records, "job", main'.probe) = 1
    BY DEF ReviewIInv, Tried
  <2> QED BY <2>1, JournalTyped DEF ReviewIInv, Tried, KeepsCounts, ProbeTypes, pipeline
<1> QED BY <1>1, <1>2, <1>3 DEF ReviewIInv

\* A step that cancels the job of the risk r.
LEMMA MainCancels ==
    ASSUME ReviewIInv, UNCHANGED pipeline, NEW r \in known \ completed,
           CountIn(journal.records, "job", r) = 1,
           completed' = completed \cup {r}, journal' \in Journals,
           KeepsReview(journal.records, journal'.records),
           Adds(journal.records, journal'.records, "cancellation", r),
           degraded' \in BOOLEAN, degraded => degraded', JournalReadable',
           main' \in Main, Closing', main'.pc # "released", main'.probe = main.probe
    PROVE  ReviewIInv'
<1>0. main'.pc \notin {"running", "draining", "outage", "evidence"}
      /\ completed' \in SUBSET known /\ Concludes' /\ r \in Risks
  BY JournalTyped DEF Closing, Concludes
<1>1. Typed' /\ Queued' /\ Placed' /\ JournalReadable' /\ Settled' /\ Concludes'
  BY <1>0, MainKeeps
<1>2. Counts'
  <2> SUFFICES ASSUME NEW q \in Risks PROVE Counted(journal.records, q)'
    BY DEF Counts
  <2>1. Counted(journal.records, q)
    BY DEF ReviewIInv, Counts
  <2>2. \A type \in ProbeTypes : CountIn(journal.records, type, q) \in Nat
    BY JournalTyped, CountsAreNumbers
  <2>3. known' = known
    BY DEF pipeline
  <2>4. CASE q = r
    BY <2>1, <2>2, <2>3, <2>4 DEF Counted, Adds, Unprobed, ProbeTypes
  <2>5. CASE q # r
    BY <2>1, <2>2, <2>3, <2>5 DEF Counted, Adds, Unprobed, ProbeTypes
  <2> QED BY <2>4, <2>5
<1>3. Tried'
  <2>1. \A q \in Risks : \A type \in {"job", "outcome"} :
          CountIn(journal'.records, type, q) = CountIn(journal.records, type, q)
    BY JournalTyped, CountsAreNumbers DEF Adds, ProbeTypes
  <2> QED BY <2>1, JournalTyped DEF ReviewIInv, Tried, pipeline
<1> QED BY <1>1, <1>2, <1>3 DEF ReviewIInv

\* Going on leaves everything but the program counter.
LEMMA MainGoesOn ==
    ASSUME ReviewIInv, UNCHANGED pipeline, UNCHANGED completed, UNCHANGED journal,
           UNCHANGED degraded, main' \in Main, Closing => Closing', Concludes',
           \/ main'.pc \notin {"running", "draining", "outage", "evidence"}
           \/ main.pc \in {"running", "draining", "outage"},
           main'.probe # NoRisk =>
             main'.probe = main.probe \/ (main'.probe = worker.risk /\ Pending(worker))
    PROVE  ReviewIInv'
<1>1. KeepsReview(journal.records, journal'.records)
      /\ KeepsCounts(journal.records, journal'.records) /\ JournalReadable'
  BY DEF KeepsReview, KeepsCounts, ReviewIInv, JournalReadable, pipeline
<1>2. /\ main'.pc \in {"running", "draining", "outage"} => Outages(journal'.records) = 0
      /\ main'.pc = "evidence" => Outages(journal'.records) <= 1
  BY DEF ReviewIInv, Typed
<1> QED BY <1>1, <1>2, JournalTyped, MainCalm

\* The Mission is over.
LEMMA EndStep == ASSUME ReviewIInv, End PROVE ReviewIInv'
<1>1. /\ main.pc = "running" /\ main' = [main EXCEPT !.pc = "draining"]
      /\ UNCHANGED pipeline /\ UNCHANGED completed /\ UNCHANGED journal /\ UNCHANGED degraded
  BY DEF End, MainGoes
<1>2. main' \in Main /\ main'.pc = "draining" /\ main'.probe = main.probe
  BY <1>1, JournalTyped DEF Main
<1>3. ~Closing /\ Concludes'
  BY <1>1, <1>2 DEF Closing, Concludes
<1> QED BY <1>1, <1>2, <1>3, MainGoesOn

\* The pipeline is drained as far as it can be.
LEMMA DrainStep == ASSUME ReviewIInv, Drain PROVE ReviewIInv'
<1>1. /\ main.pc = "draining" /\ main' = [main EXCEPT !.pc = "outage"]
      /\ UNCHANGED pipeline /\ UNCHANGED completed /\ UNCHANGED journal /\ UNCHANGED degraded
  BY DEF Drain, MainGoes
<1>2. main' \in Main /\ main'.pc = "outage" /\ main'.probe = main.probe
  BY <1>1, JournalTyped DEF Main
<1>3. ~Closing /\ Concludes'
  BY <1>1, <1>2 DEF Closing, Concludes
<1> QED BY <1>1, <1>2, <1>3, MainGoesOn

\* A probe that is the only work left is remembered.
LEMMA CloseStep == ASSUME ReviewIInv, Close PROVE ReviewIInv'
<1>1. /\ main.pc = "stopping"
      /\ main' = [main EXCEPT !.pc = "aborting",
                              !.probe = IF ProbeOnly THEN worker.risk ELSE NoRisk]
      /\ UNCHANGED pipeline /\ UNCHANGED completed /\ UNCHANGED journal /\ UNCHANGED degraded
  BY DEF Close
<1>2. ProbeOnly => Pending(worker)
  BY DEF ProbeOnly, Probing, Pending
<1>3. worker.risk \in Risks \cup {NoRisk}
  BY JournalTyped DEF Worker
<1>4. /\ main' \in Main /\ main'.pc = "aborting"
      /\ main'.probe = IF ProbeOnly THEN worker.risk ELSE NoRisk
  BY <1>1, <1>3, JournalTyped DEF Main
<1>5. Closing' /\ Concludes'
  BY <1>4 DEF Closing, Concludes
<1> QED BY <1>1, <1>2, <1>4, <1>5, MainGoesOn

\* The boundaries acknowledge the abort, or the controller is degraded.
LEMMA AbortStep == ASSUME ReviewIInv, Abort PROVE ReviewIInv'
<1>1. PICK extraction \in BOOLEAN, probe \in BOOLEAN :
        /\ main' = [main EXCEPT !.pc = "cancelling", !.aborted = probe,
                                !.clean = @ /\ extraction /\ probe]
        /\ degraded' = (degraded \/ ~extraction \/ ~probe)
        /\ journal' \in IF extraction /\ probe THEN {journal} ELSE Degrades(journal)
  BY DEF Abort
<1>2. main.pc = "aborting" /\ UNCHANGED pipeline /\ UNCHANGED completed
  BY DEF Abort
<1>3. /\ main' \in Main /\ main'.pc = "cancelling" /\ main'.probe = main.probe
  BY <1>1, JournalTyped DEF Main
<1>4. journal' \in Journals /\ Calm(journal.records, journal'.records)
  BY <1>1, JournalTyped, DegradesWhat
<1>5. /\ KeepsReview(journal.records, journal'.records)
      /\ KeepsCounts(journal.records, journal'.records)
  BY <1>4, JournalTyped, CalmKeeps
<1>6. degraded' \in BOOLEAN /\ (degraded => degraded')
  BY <1>1
<1>7. JournalReadable'
  <2>1. CASE extraction /\ probe
    BY <1>1, <1>2, <2>1 DEF ReviewIInv, JournalReadable, pipeline
  <2>2. CASE ~(extraction /\ probe)
    BY <1>1, <2>2 DEF JournalReadable
  <2> QED BY <2>1, <2>2
<1>8. Closing' /\ Concludes'
  BY <1>3 DEF Closing, Concludes
<1> QED BY <1>2, <1>3, <1>4, <1>5, <1>6, <1>7, <1>8, MainCalm

\* A final delta is journalled, or degrades the controller.
LEMMA ReconcileStep ==
    ASSUME ReviewIInv, NEW from, NEW to,
           <<from, to>> \in {<<"outage", "evidence">>, <<"evidence", "stopping">>},
           Reconcile(from, to)
    PROVE  ReviewIInv'
<1> DEFINE s == journal.records
           t == journal'.records
<1>0. /\ main.pc = from /\ UNCHANGED pipeline /\ UNCHANGED completed /\ ~Closing
      /\ Outages(s) \in Nat /\ Outages(s) <= 1 /\ (from = "outage" => Outages(s) = 0)
  <2>1. Degradation \in Record
    BY ReviewAssumption DEF Degradation, Record, RecordTypes
  <2>2. Outages(s) \in Nat
    BY <2>1, JournalTyped, Counting
  <2> QED BY <2>2 DEF Reconcile, ReviewIInv, Typed, Closing
<1>1. CASE MainGoes(to) /\ UNCHANGED <<journal, degraded>>
  <2>1. main' \in Main /\ main'.pc = to /\ main'.probe = main.probe
    BY <1>1, JournalTyped DEF Main, MainGoes
  <2>2. Concludes'
    BY <2>1 DEF Concludes
  <2> QED BY <1>0, <1>1, <2>1, <2>2, MainGoesOn
<1>2. DeltaCount + 1 \in 0..MaxExchanges + 2
  <2> DEFINE D == Deltas \cap 1..committed
  <2>1. IsFiniteSet(1..MaxExchanges) /\ Cardinality(1..MaxExchanges) = MaxExchanges
    <3>1. MaxExchanges \in Nat
      BY ReviewAssumption
    <3>2. /\ IsFiniteSet(1..MaxExchanges)
          /\ Cardinality(1..MaxExchanges) =
               IF 1 > MaxExchanges THEN 0 ELSE MaxExchanges - 1 + 1
      BY <3>1, FS_Interval
    <3> QED BY <3>1, <3>2
  <2>2. D \in SUBSET (1..MaxExchanges)
    BY ReviewAssumption
  <2>3. Cardinality(D) <= MaxExchanges /\ Cardinality(D) \in Nat
    <3>1. IsFiniteSet(D) /\ Cardinality(D) <= Cardinality(1..MaxExchanges)
      BY <2>1, <2>2, FS_Subset
    <3> HIDE DEF D
    <3>2. Cardinality(D) \in Nat
      BY <3>1, FS_CardinalityType
    <3> QED BY <2>1, <3>1, <3>2
  <2>4. DeltaCount = Cardinality(D) + Outages(s)
    BY DEF DeltaCount, Outages
  <2> HIDE DEF D
  <2> QED BY <1>0, <2>3, <2>4, ReviewAssumption
<1>3. CASE ~(MainGoes(to) /\ UNCHANGED <<journal, degraded>>)
  <2> DEFINE x == [type |-> "outage", of |-> DeltaCount + 1]
  <2>1. PICK a \in Appends(journal, x) :
          \/ a.ok /\ journal' = a.journal /\ MainGoes(to) /\ UNCHANGED degraded
          \/ /\ ~a.ok
             /\ degraded' = TRUE /\ journal' \in Degrades(a.journal)
             /\ Unclean("stopping")
    BY <1>3 DEF Reconcile
  <2>2. x \in Record /\ x.type = "outage"
    BY <1>2 DEF Record, RecordTypes
  <2> HIDE DEF x
  <2>3. /\ a.journal \in Journals
        /\ a.ok => a.journal.records = Append(s, x) /\ a.journal.readable = journal.readable
        /\ ~a.ok => a.journal.records = s
    BY <2>1, <2>2, JournalTyped, AppendsWhat
  <2>4. CASE a.ok
    <3>1. /\ t = Append(s, x) /\ journal'.readable = journal.readable /\ UNCHANGED degraded
          /\ journal' \in Journals /\ MainGoes(to)
      BY <2>1, <2>3, <2>4
    <3>2. main' \in Main /\ main'.pc = to /\ main'.probe = main.probe
      BY <1>0, <3>1, JournalTyped DEF Main, MainGoes
    <3>3. KeepsReview(s, t)
      <4>1. Aside(s, t)
        BY <2>2, <3>1 DEF Aside, ExchangeRecords
      <4> QED BY <4>1, JournalTyped, AsideKeeps
    <3>4. KeepsCounts(s, t) /\ Outages(t) = Outages(s) + 1
      BY <2>2, <3>1, JournalTyped, Counting DEF KeepsCounts, ProbeTypes
    <3>5. JournalReadable' /\ Concludes' /\ degraded' \in BOOLEAN
      BY <1>0, <3>1, <3>2, JournalTyped DEF ReviewIInv, JournalReadable, Concludes, pipeline
    <3>6. main'.pc \notin {"running", "draining", "outage"}
          /\ (main'.pc = "evidence" => Outages(t) <= 1)
      BY <1>0, <3>2, <3>4
    <3> QED BY <1>0, <3>1, <3>2, <3>3, <3>4, <3>5, <3>6, MainCalm
  <2>5. CASE ~a.ok
    <3>1. degraded' = TRUE /\ journal' \in Degrades(a.journal) /\ Unclean("stopping")
      BY <2>1, <2>5
    <3>2. main' \in Main /\ main'.pc = "stopping" /\ main'.probe = main.probe
      BY <3>1, JournalTyped DEF Main, Unclean
    <3>3. journal' \in Journals /\ Calm(s, t)
      BY <2>3, <2>5, <3>1, DegradesWhat
    <3>4. KeepsReview(s, t) /\ KeepsCounts(s, t)
      BY <3>3, JournalTyped, CalmKeeps
    <3>5. JournalReadable' /\ Concludes'
      BY <3>1, <3>2 DEF JournalReadable, Concludes
    <3> QED BY <1>0, <3>1, <3>2, <3>3, <3>4, <3>5, MainCalm
  <2> QED BY <2>4, <2>5, <2>1
<1> QED BY <1>1, <1>3

\* What a step of the run's thread may cancel: a job that is known and not completed.
LEMMA CancelPendingStep == ASSUME ReviewIInv, CancelPending PROVE ReviewIInv'
<1> DEFINE r == main.probe
           x == Cancellation(r)
           s == journal.records
           t == journal'.records
<1>0. main.pc = "cancelling" /\ UNCHANGED pipeline /\ Closing
  BY DEF CancelPending, Closing
<1>1. CASE r = NoRisk \/ ~main.aborted \/ r \in completed
  <2>1. /\ main' = [main EXCEPT !.pc = "finishing"]
        /\ UNCHANGED completed /\ UNCHANGED journal /\ UNCHANGED degraded
    BY <1>1 DEF CancelPending, MainGoes
  <2>2. main' \in Main /\ main'.pc = "finishing" /\ main'.probe = main.probe
    BY <2>1, JournalTyped DEF Main
  <2>3. Closing' /\ Concludes'
    BY <2>2 DEF Closing, Concludes
  <2> QED BY <1>0, <2>1, <2>2, <2>3, MainGoesOn
<1>2. CASE ~(r = NoRisk \/ ~main.aborted \/ r \in completed)
  <2>1. r \in known \ completed /\ CountIn(s, "job", r) = 1 /\ r \in Risks
    BY <1>2, JournalTyped DEF ReviewIInv, Tried
  <2>2. /\ x \in Record /\ KeepsReview(s, Append(s, x))
        /\ Adds(s, Append(s, x), "cancellation", r)
    BY <2>1, JournalTyped, ProbeAppend DEF ProbeRecords, Cancellation
  <2>3. PICK a \in Appends(journal, x) :
          \/ /\ a.ok
             /\ journal' = a.journal /\ completed' = completed \cup {r}
             /\ MainGoes("finishing") /\ UNCHANGED degraded
          \/ /\ ~a.ok
             /\ degraded' = TRUE /\ journal' \in Degrades(a.journal)
             /\ Unclean("finishing") /\ UNCHANGED completed
    BY <1>2 DEF CancelPending
  <2>4. /\ a.journal \in Journals
        /\ a.ok => a.journal.records = Append(s, x) /\ a.journal.readable = journal.readable
        /\ ~a.ok => a.journal.records = s
    BY <2>2, <2>3, JournalTyped, AppendsWhat
  <2>5. CASE a.ok
    <3>1. /\ t = Append(s, x) /\ journal'.readable = journal.readable /\ UNCHANGED degraded
          /\ journal' \in Journals /\ completed' = completed \cup {r}
          /\ main' = [main EXCEPT !.pc = "finishing"]
      BY <2>3, <2>4, <2>5 DEF MainGoes
    <3>2. main' \in Main /\ main'.pc = "finishing" /\ main'.probe = main.probe
      BY <3>1, JournalTyped DEF Main
    <3>3. Closing' /\ JournalReadable' /\ degraded' \in BOOLEAN
      BY <1>0, <3>1, <3>2, JournalTyped DEF Closing, ReviewIInv, JournalReadable, pipeline
    <3>4. KeepsReview(s, t) /\ Adds(s, t, "cancellation", r)
      BY <2>2, <3>1
    <3> QED BY <1>0, <2>1, <3>1, <3>2, <3>3, <3>4, MainCancels
  <2>6. CASE ~a.ok
    <3>1. /\ degraded' = TRUE /\ journal' \in Degrades(a.journal) /\ UNCHANGED completed
          /\ main' = [main EXCEPT !.pc = "finishing", !.clean = FALSE]
      BY <2>3, <2>6 DEF Unclean
    <3>2. main' \in Main /\ main'.pc = "finishing" /\ main'.probe = main.probe
      BY <3>1, JournalTyped DEF Main
    <3>3. journal' \in Journals /\ Calm(s, t)
      BY <2>4, <2>6, <3>1, DegradesWhat
    <3>4. KeepsReview(s, t) /\ KeepsCounts(s, t)
      BY <3>3, JournalTyped, CalmKeeps
    <3>5. Closing' /\ JournalReadable' /\ Concludes'
      BY <3>1, <3>2 DEF Closing, JournalReadable, Concludes
    <3> QED BY <1>0, <3>1, <3>2, <3>3, <3>4, <3>5, MainCalm
  <2> QED BY <2>5, <2>6, <2>3
<1> QED BY <1>1, <1>2

\* The pipeline is empty, or a probe is left that cannot be waited for.
LEMMA FinishStep == ASSUME ReviewIInv, Finish PROVE ReviewIInv'
<1>1. /\ main.pc = "finishing" /\ main' = [main EXCEPT !.pc = "joining"]
      /\ UNCHANGED pipeline /\ UNCHANGED completed /\ UNCHANGED journal /\ UNCHANGED degraded
  BY DEF Finish, MainGoes
<1>2. main' \in Main /\ main'.pc = "joining" /\ main'.probe = main.probe
  BY <1>1, JournalTyped DEF Main
<1>3. Closing' /\ Concludes'
  BY <1>2 DEF Closing, Concludes
<1> QED BY <1>1, <1>2, <1>3, MainGoesOn

\* Out of time, the running probe is cancelled as far as possible.
LEMMA FinishTimesOutStep == ASSUME ReviewIInv, FinishTimesOut PROVE ReviewIInv'
<1> DEFINE r == worker.risk
           x == Cancellation(r)
           s == journal.records
           t == journal'.records
<1>0. /\ main.pc = "finishing" /\ UNCHANGED pipeline /\ degraded' = TRUE
      /\ main' = [main EXCEPT !.pc = "joining", !.clean = FALSE]
  BY DEF FinishTimesOut, Unclean
<1>1. main' \in Main /\ main'.pc = "joining" /\ main'.probe = main.probe
  BY <1>0, JournalTyped DEF Main
<1>2. Closing' /\ JournalReadable' /\ Concludes'
  BY <1>0, <1>1 DEF Closing, JournalReadable, Concludes
<1>3. CASE ~(main.aborted /\ Probing /\ r \notin completed)
  <2>1. journal' \in Degrades(journal) /\ UNCHANGED completed
    BY <1>3 DEF FinishTimesOut
  <2>2. journal' \in Journals /\ Calm(s, t)
    BY <2>1, JournalTyped, DegradesWhat
  <2>3. KeepsReview(s, t) /\ KeepsCounts(s, t)
    BY <2>2, JournalTyped, CalmKeeps
  <2> QED BY <1>0, <1>1, <1>2, <2>1, <2>2, <2>3, MainCalm
<1>4. CASE main.aborted /\ Probing /\ r \notin completed
  <2>1. r \in known \ completed /\ CountIn(s, "job", r) = 1 /\ r \in Risks
    BY <1>4, JournalTyped DEF Probing, Pending, ReviewIInv, Tried
  <2>2. /\ x \in Record /\ Append(s, x) \in Recs /\ KeepsReview(s, Append(s, x))
        /\ Adds(s, Append(s, x), "cancellation", r)
    BY <2>1, JournalTyped, ProbeAppend DEF ProbeRecords, Cancellation
  <2>3. PICK a \in Appends(journal, x) :
          /\ journal' \in Degrades(a.journal)
          /\ completed' = IF a.ok THEN completed \cup {r} ELSE completed
    BY <1>4 DEF FinishTimesOut
  <2>4. /\ a.journal \in Journals
        /\ a.ok => a.journal.records = Append(s, x)
        /\ ~a.ok => a.journal.records = s
    BY <2>2, <2>3, JournalTyped, AppendsWhat
  <2>5. journal' \in Journals /\ Calm(a.journal.records, t)
    BY <2>3, <2>4, DegradesWhat
  <2>6. CASE a.ok
    <3>1. completed' = completed \cup {r} /\ Calm(Append(s, x), t)
      BY <2>3, <2>4, <2>5, <2>6
    <3>2. KeepsReview(Append(s, x), t) /\ KeepsCounts(Append(s, x), t)
      BY <2>2, <3>1, CalmKeeps
    <3>3. KeepsReview(s, t)
      BY <2>2, <3>2, KeepsOn
    <3>4. Adds(s, t, "cancellation", r)
      BY <2>2, <3>2 DEF Adds, KeepsCounts
    <3> QED BY <1>0, <1>1, <1>2, <2>1, <2>5, <3>1, <3>3, <3>4, MainCancels
  <2>7. CASE ~a.ok
    <3>1. UNCHANGED completed /\ Calm(s, t)
      BY <2>3, <2>4, <2>5, <2>7
    <3>2. KeepsReview(s, t) /\ KeepsCounts(s, t)
      BY <3>1, JournalTyped, CalmKeeps
    <3> QED BY <1>0, <1>1, <1>2, <2>5, <3>1, <3>2, MainCalm
  <2> QED BY <2>6, <2>7, <2>3
<1> QED BY <1>3, <1>4

\* The worker has ended: a sound and clean stop releases the run.
LEMMA JoinStep == ASSUME ReviewIInv, Join PROVE ReviewIInv'
<1>1. /\ main.pc = "joining" /\ worker.pc = "gone"
      /\ main' = [main EXCEPT !.pc = IF main.clean /\ ~degraded THEN "released" ELSE "kept"]
      /\ UNCHANGED pipeline /\ UNCHANGED completed /\ UNCHANGED journal /\ UNCHANGED degraded
  BY DEF Join, MainGoes
<1>2. /\ main' \in Main /\ main'.pc = IF main.clean /\ ~degraded THEN "released" ELSE "kept"
      /\ main'.probe = main.probe
  BY <1>1, JournalTyped DEF Main
<1>3. Closing' /\ Concludes'
  BY <1>1, <1>2 DEF Closing, Concludes, pipeline
<1>4. main'.pc \notin {"running", "draining", "outage", "evidence"}
  BY <1>2
<1> QED BY <1>1, <1>2, <1>3, <1>4, MainGoesOn

\* The worker has not ended in time.
LEMMA JoinTimesOutStep == ASSUME ReviewIInv, JoinTimesOut PROVE ReviewIInv'
<1>1. /\ degraded' = TRUE /\ journal' \in Degrades(journal)
      /\ main' = [main EXCEPT !.pc = "kept", !.clean = FALSE]
      /\ UNCHANGED pipeline /\ UNCHANGED completed
  BY DEF JoinTimesOut, Unclean
<1>2. main' \in Main /\ main'.pc = "kept" /\ main'.probe = main.probe
  BY <1>1, JournalTyped DEF Main
<1>3. /\ journal' \in Journals /\ KeepsReview(journal.records, journal'.records)
      /\ KeepsCounts(journal.records, journal'.records)
  <2>1. journal' \in Journals /\ Calm(journal.records, journal'.records)
    BY <1>1, JournalTyped, DegradesWhat
  <2> QED BY <2>1, JournalTyped, CalmKeeps
<1>4. Closing' /\ JournalReadable' /\ Concludes'
  BY <1>1, <1>2 DEF Closing, JournalReadable, Concludes
<1> QED BY <1>1, <1>2, <1>3, <1>4, MainCalm

\* A step of the run's thread keeps the invariant.
LEMMA MainStepKeeps == ASSUME ReviewIInv, MainStep PROVE ReviewIInv'
<1>1. CASE Drain
  BY <1>1, DrainStep
<1>2. CASE Reconcile("outage", "evidence")
  BY <1>2, ReconcileStep
<1>3. CASE Reconcile("evidence", "stopping")
  BY <1>3, ReconcileStep
<1>4. CASE Close
  BY <1>4, CloseStep
<1>5. CASE Abort
  BY <1>5, AbortStep
<1>6. CASE CancelPending
  BY <1>6, CancelPendingStep
<1>7. CASE Finish
  BY <1>7, FinishStep
<1>8. CASE FinishTimesOut
  BY <1>8, FinishTimesOutStep
<1>9. CASE Join
  BY <1>9, JoinStep
<1>10. CASE JoinTimesOut
  BY <1>10, JoinTimesOutStep
<1> QED
  BY <1>1, <1>2, <1>3, <1>4, <1>5, <1>6, <1>7, <1>8, <1>9, <1>10 DEF MainStep

\* A step of the worker keeps the invariant.
LEMMA WorkerStepKeeps == ASSUME ReviewIInv, WorkerStep PROVE ReviewIInv'
<1>1. CASE Take \/ Enter \/ Derive \/ RejectTranscript \/ FailExtraction \/ Raise
  BY <1>1, TakeStep, EnterStep, DeriveStep, RejectTranscriptStep, FailExtractionStep, RaiseStep
<1>2. CASE CheckDrained \/ Reserve \/ RejectSnapshot \/ Start \/ RejectJob \/ Return
  BY <1>2, CheckDrainedStep, ReserveStep, RejectSnapshotStep, StartStep, RejectJobStep, ReturnStep
<1>3. CASE CheckCancelled \/ Complete \/ Fail \/ Leave \/ Exit
  BY <1>3, CheckCancelledStep, CompleteStep, FailStep, LeaveStep, ExitStep
<1> QED BY <1>1, <1>2, <1>3 DEF WorkerStep

\* Every step keeps the invariant.
LEMMA ReviewStep == ReviewIInv /\ [Next]_vars => ReviewIInv'
<1> SUFFICES ASSUME ReviewIInv, [Next]_vars PROVE ReviewIInv'
  OBVIOUS
<1>1. CASE Commit
  BY <1>1, CommitStep
<1>2. CASE End
  BY <1>2, EndStep
<1>3. CASE WorkerStep
  BY <1>3, WorkerStepKeeps
<1>4. CASE MainStep
  BY <1>4, MainStepKeeps
<1>5. CASE UNCHANGED vars
  <2>1. /\ UNCHANGED committed /\ UNCHANGED ledgerDown /\ UNCHANGED queue /\ UNCHANGED worker
        /\ UNCHANGED known /\ UNCHANGED completed /\ UNCHANGED disabled /\ UNCHANGED journal
        /\ UNCHANGED degraded /\ UNCHANGED main
    BY <1>5 DEF vars
  <2>2. Typed' /\ Queued' /\ Placed'
    BY <2>1 DEF ReviewIInv, Typed, TypeOK, Queued, Placed, Base, Closing
  <2>3. JournalReadable' /\ Counts' /\ Tried' /\ Concludes'
    BY <2>1 DEF ReviewIInv, JournalReadable, Counts, Counted, Unprobed, Tried, Concludes
  <2>4. Settled'
    BY <2>1 DEF ReviewIInv, Settled, Base, Closing
  <2> QED BY <2>2, <2>3, <2>4 DEF ReviewIInv
<1> QED BY <1>1, <1>2, <1>3, <1>4, <1>5 DEF Next, Done

\* The controller begins with nothing.
LEMMA ReviewInit == Init => ReviewIInv
<1> SUFFICES ASSUME Init PROVE ReviewIInv
  OBVIOUS
<1>1. /\ committed = 0 /\ ledgerDown = FALSE /\ queue = <<>>
      /\ worker = [pc |-> "idle", item |-> 0, risk |-> NoRisk, todo |-> <<>>]
      /\ known = {} /\ completed = {} /\ disabled = FALSE
      /\ journal = [records |-> <<>>, readable |-> TRUE] /\ degraded = FALSE
      /\ main = [pc |-> "running", probe |-> NoRisk, aborted |-> FALSE, clean |-> TRUE]
  BY DEF Init
<1>2. Base = 0
  <2>1. Len(queue) = 0
    BY <1>1
  <2>2. committed = 0 /\ (IF ledgerDown THEN 1 ELSE 0) = 0
    BY <1>1
  <2>3. 0 - 0 - 0 = 0
    OBVIOUS
  <2> QED BY <2>1, <2>2, <2>3, Zenon DEF Base
<1>3. \A S : S = {} => Cardinality(S) = 0
  BY FS_EmptySet
<1>4. Outages(journal.records) = 0
      /\ \A type, r : CountIn(journal.records, type, r) = 0
  <2>1. DOMAIN <<>> = {}
    OBVIOUS
  <2> QED BY <1>1, <1>3, <2>1 DEF Outages, CountIn
<1>5. TypeOK
  <2>1. \A S : <<>> \in Seq(S)
    OBVIOUS
  <2>2. queue \in Seq(1..MaxExchanges) /\ Len(queue) <= MaxQueue
    BY <1>1, <2>1, ReviewAssumption
  <2>3. worker \in Worker
    BY <1>1, <2>1, ReviewAssumption DEF Worker
  <2>4. journal \in [records : Seq(Record), readable : BOOLEAN]
    BY <1>1, <2>1
  <2>5. main \in Main
    BY <1>1 DEF Main
  <2>6. /\ committed \in 0..MaxExchanges /\ ledgerDown \in BOOLEAN /\ known \subseteq Risks
        /\ completed \subseteq known /\ disabled \in BOOLEAN /\ degraded \in BOOLEAN
    <3>1. committed = 0 /\ ledgerDown = FALSE /\ known = {} /\ completed = {} /\ disabled = FALSE
          /\ degraded = FALSE
      BY DEF Init
    <3>2. 0 \in 0..MaxExchanges
      BY ReviewAssumption
    <3> QED BY <3>1, <3>2
  <2> QED BY <2>2, <2>3, <2>4, <2>5, <2>6 DEF TypeOK
<1>6. Typed
  BY <1>1, <1>4, <1>5 DEF Typed
<1>7. Queued
  BY <1>1, <1>2 DEF Queued
<1>8. ~Staging(worker) /\ ~Past(worker) /\ ~Pending(worker) /\ \A todos : ~Asking(worker, todos)
  BY <1>1 DEF Staging, Past, Pending, Asking
<1>9. Placed
  <2>1. InOrder(<<>>, 0)
    BY DEF InOrder
  <2>2. Through(<<>>, 0)
    <3>1. 0 \in 0..Len(<<>>) /\ LastAt(<<>>, 0) /\ Whole(<<>>, 0)
      BY DEF LastAt, Whole
    <3> QED BY <3>1 DEF Through
  <2> QED BY <1>1, <1>2, <1>8, <2>1, <2>2 DEF Placed
<1>10. JournalReadable /\ Concludes
  BY <1>1 DEF JournalReadable, Concludes
<1>11. Counts
  BY <1>1, <1>4 DEF Counts, Counted, Unprobed
<1>12. Tried
  BY <1>1, <1>8 DEF Tried
<1>13. Settled
  <2>1. \A r \in Risks : ~(Reveals[r] <= 0)
    BY ReviewAssumption
  <2> QED BY <1>1, <1>2, <2>1 DEF Settled
<1> QED BY <1>6, <1>7, <1>9, <1>10, <1>11, <1>12, <1>13 DEF ReviewIInv

\* Whatever the constants, the invariant of the review controller always holds.
THEOREM ReviewInvariant == Spec => []ReviewIInv
BY ReviewInit, ReviewStep, PTL DEF Spec

------------------------------------------------------------------------------
(* What the invariant implies, for the instance that meets every fault.    *)

\* The journal's exchange records are a beginning of the complete review.
LEMMA ReviewsAreInOrder == ReviewIInv => ReviewsInOrder
<1> SUFFICES ASSUME ReviewIInv, NEW i \in Reviews
             PROVE  LET r == journal.records[i]
                    IN  /\ r.of \in 1..committed
                        /\ \E gap \in 1..i :
                             /\ \A l \in i - gap + 1..i - 1 :
                                  journal.records[l].type \notin ExchangeRecords
                             /\ IF gap = i THEN Begins(r)
                                           ELSE Succeeds(journal.records[i - gap], r)
  BY DEF ReviewsInOrder
<1> DEFINE s == journal.records
<1>1. i \in 1..Len(s) /\ s[i].type \in ExchangeRecords /\ Len(s) \in Nat
  BY JournalTyped DEF Reviews, Recs
<1>2. /\ s[i].of \in 1..committed
      /\ \E k \in 0..i - 1 :
           /\ \A l \in k + 1..i - 1 : s[l].type \notin ExchangeRecords
           /\ IF k = 0 THEN Begins(s[i]) ELSE Succeeds(s[k], s[i])
  BY <1>1 DEF ReviewIInv, Placed, InOrder
<1>3. PICK k \in 0..i - 1 : /\ \A l \in k + 1..i - 1 : s[l].type \notin ExchangeRecords
                            /\ IF k = 0 THEN Begins(s[i]) ELSE Succeeds(s[k], s[i])
  BY <1>2
<1>4. i - k \in 1..i /\ i - (i - k) = k /\ (i - k = i <=> k = 0)
  BY <1>1
<1>5. /\ \A l \in i - (i - k) + 1..i - 1 : s[l].type \notin ExchangeRecords
      /\ IF i - k = i THEN Begins(s[i]) ELSE Succeeds(s[i - (i - k)], s[i])
  BY <1>3, <1>4
<1> QED BY <1>2, <1>4, <1>5

\* A risk has one job, outcome and cancellation at most.
LEMMA RisksAreProbedOnce == ReviewIInv => ProbedOnce
BY DEF ReviewIInv, Counts, Counted, ProbedOnce, Count, CountIn

\* With nothing left to do, every risk that was found is settled.
LEMMA RisksAreSettled == ReviewIInv => NoRiskForgotten
<1> SUFFICES ASSUME ReviewIInv, worker.pc = "idle", queue = <<>>, ~degraded, ~disabled, ~Closing,
                    NEW r \in Risks, Reveals[r] <= committed
             PROVE  r \in completed
  BY DEF NoRiskForgotten
<1>1. Base = committed
  <2>1. Len(queue) = 0 /\ ~ledgerDown /\ committed \in Nat
    BY DEF ReviewIInv, Queued, Typed, TypeOK
  <2> QED BY <2>1 DEF Base
<1>2. r \in known
  BY <1>1 DEF ReviewIInv, Settled
<1>3. ~Pending(worker)
  BY DEF Pending, Asking
<1> QED BY <1>2, <1>3 DEF ReviewIInv, Settled

\* A clean stop has reviewed all exchanges and ended all probes.
LEMMA ReleasedAreReviewed == ReviewIInv => ReleasedMeansReviewed
<1> SUFFICES ASSUME ReviewIInv, main.pc = "released"
             PROVE  /\ ~degraded /\ ~ledgerDown
                    /\ \A n \in 1..committed : \A s \in Range(StagesOf(n)) :
                         \E i \in Reviews : journal.records[i] = [type |-> s, of |-> n]
                    /\ \A r \in Risks :
                         Count("job", r) <= Count("outcome", r) + Count("cancellation", r)
                    /\ journal.readable
  BY DEF ReleasedMeansReviewed
<1>1. worker.pc = "gone" /\ ~degraded /\ ~ledgerDown /\ queue = <<>> /\ ~Pending(worker)
  BY DEF ReviewIInv, Concludes, Queued, Pending, Asking
<1>2. journal.readable
  BY <1>1 DEF ReviewIInv, JournalReadable
<1>3. ASSUME NEW n \in 1..committed, NEW s \in Range(StagesOf(n))
      PROVE  \E i \in Reviews : journal.records[i] = [type |-> s, of |-> n]
  <2>1. Base = committed
    <3>1. Len(queue) = 0 /\ committed \in Nat
      BY <1>1 DEF ReviewIInv, Typed, TypeOK
    <3> QED BY <1>1, <3>1 DEF Base
  <2>2. Held(journal.records, s, n)
    BY <1>1, <2>1 DEF ReviewIInv, Placed, Through, Whole
  <2>3. PICK i \in 1..Len(journal.records) : journal.records[i] = [type |-> s, of |-> n]
    BY <2>2 DEF Held
  <2>4. i \in DOMAIN journal.records /\ s \in ExchangeRecords
    BY JournalTyped, StagesAre DEF Recs
  <2> QED BY <2>3, <2>4 DEF Reviews
<1>4. ASSUME NEW r \in Risks
      PROVE  Count("job", r) <= Count("outcome", r) + Count("cancellation", r)
  <2>1. Counted(journal.records, r)
    BY DEF ReviewIInv, Counts
  <2>2. \A type : Count(type, r) = CountIn(journal.records, type, r)
    BY DEF Count, CountIn
  <2>3. \A type : CountIn(journal.records, type, r) \in Nat
    BY JournalTyped, CountsAreNumbers
  <2>4. r \in completed \/ r \notin known
    BY <1>1 DEF ReviewIInv, Settled
  <2> QED BY <2>1, <2>2, <2>3, <2>4 DEF Counted, Unprobed, ProbeTypes
<1> QED BY <1>1, <1>2, <1>3, <1>4

FaultsIInv == part = "faults" /\ ReviewIInv

\* In a behaviour of the first instance, its invariant always holds.
LEMMA FaultsInvariant == BothFairSpec /\ part = "faults" => []FaultsIInv
<1>1. BothInit /\ part = "faults" => FaultsIInv
  BY ReviewInit DEF BothInit, FaultsIInv
<1>2. FaultsIInv /\ [BothNext]_<<part, vars>> => FaultsIInv'
  <2>1. FaultsIInv /\ [BothNext]_<<part, vars>> => [Next]_vars /\ part' = part
    BY DEF BothNext, FaultsIInv
  <2> QED BY <2>1, ReviewStep DEF FaultsIInv
<1> QED BY <1>1, <1>2, PTL DEF BothFairSpec

\* The journal is at every moment a beginning of the complete review, and readable as long as
\* the controller calls itself sound (JournalInOrder), however many exchanges there are and
\* whatever fails.
THEOREM ReviewedInOrder == BothFairSpec /\ part = "faults" => []JournalInOrder
<1>1. FaultsIInv => JournalInOrder
  BY ReviewsAreInOrder DEF FaultsIInv, JournalInOrder, ReviewIInv, Typed
<1> QED BY FaultsInvariant, <1>1, PTL

\* A run that is released has all its exchanges reviewed and all its probes ended
\* (CleanStopMeansReviewed).
THEOREM ReleasedReviewed == BothFairSpec /\ part = "faults" => []CleanStopMeansReviewed
<1>1. FaultsIInv => CleanStopMeansReviewed
  BY ReleasedAreReviewed DEF FaultsIInv, CleanStopMeansReviewed
<1> QED BY FaultsInvariant, <1>1, PTL

\* No risk is probed twice, and no probe ends twice, although two threads cancel
\* (EveryRiskProbedOnce).
THEOREM RisksProbedOnce == BothFairSpec /\ part = "faults" => []EveryRiskProbedOnce
<1>1. FaultsIInv => EveryRiskProbedOnce
  BY RisksAreProbedOnce DEF FaultsIInv, EveryRiskProbedOnce
<1> QED BY FaultsInvariant, <1>1, PTL

\* No risk is left over because exchanges were waiting when it was found (EveryRiskSettled).
THEOREM RisksSettled == BothFairSpec /\ part = "faults" => []EveryRiskSettled
<1>1. FaultsIInv => EveryRiskSettled
  BY RisksAreSettled DEF FaultsIInv, EveryRiskSettled
<1> QED BY FaultsInvariant, <1>1, PTL
=============================================================================
