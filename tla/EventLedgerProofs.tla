-------------------------- MODULE EventLedgerProofs --------------------------
(***************************************************************************)
(* Theorems about EventLedger, for any handlers, events, responses and     *)
(* queue size, and any crashes and failures of the disk steps, provided    *)
(* the operating system never shortens a write silently.                   *)
(*                                                                         *)
(* AckedSurvives is not inductive.  The strengthening IInv says who owns a *)
(* pending exchange (Ownership), that an exchange in flight has no record  *)
(* yet (Unrecorded), what memory and the disk agree on at every step of    *)
(* the writer (DiskInv), and where answers come from (AnswerInv).          *)
(***************************************************************************)
EXTENDS EventLedger, SequenceTheorems, TLAPS

Busy == {"decide", "mark", "append", "project", "index", "clear", "publish",
         "answer", "fail", "reject"}
HasExchange == {"mark", "append", "project", "index", "clear", "publish", "answer"}
Appended == {"project", "index", "clear", "publish"}

\* A pending exchange is held by one thread: the handler that still has to
\* queue it, the queue, or the writer; until the writer is gone it is the one
\* registered for its event.
Ownership ==
    /\ writer.pc = "none" => phase # "started"
    /\ phase # "started" => writer.pc = "none" /\ queue = <<>>
    /\ phase = "down" => writer = NoWriter
    /\ \A e \in Events : inflight[e] # 0 =>
          inflight[e] \in DOMAIN pend /\ pend[inflight[e]].event = e
    /\ \A i \in DOMAIN queue :
          /\ queue[i] \in DOMAIN pend
          /\ writer.pc # "exited" => inflight[pend[queue[i]].event] = queue[i]
          /\ writer.pc \in Busy => queue[i] # writer.p
    /\ \A i, j \in DOMAIN queue : queue[i] = queue[j] => i = j
    /\ writer.pc \in Busy =>
          /\ writer.p \in DOMAIN pend
          /\ inflight[pend[writer.p].event] = writer.p
    /\ \A c \in Clients : client[c].pc # "idle" =>
          /\ phase = "started"
          /\ client[c].p \in DOMAIN pend
          /\ pend[client[c].p].digest = client[c].asked
    /\ \A c \in Clients : client[c].pc = "put" =>
          /\ writer.pc # "exited" => inflight[pend[client[c].p].event] = client[c].p
          /\ \A i \in DOMAIN queue : queue[i] # client[c].p
          /\ writer.pc \in Busy => client[c].p # writer.p
    /\ \A c1, c2 \in Clients :
          (client[c1].pc = "put" /\ client[c2].pc = "put" /\ c1 # c2)
             => client[c1].p # client[c2].p

\* The exchange under construction belongs to the pending exchange.
Construction ==
    writer.pc \in HasExchange =>
        /\ writer.ex \in Exchange
        /\ writer.ex.event = pend[writer.p].event
        /\ writer.ex.digest = pend[writer.p].digest

\* A registered event has no published record, but for the one being answered.
Unrecorded ==
    \A e \in Events :
        (writer.pc # "exited" /\ inflight[e] # 0
            /\ ~(writer.pc = "answer" /\ writer.p = inflight[e]))
          => Prior(e) = {}

EventsIn(s) == {s[i].event : i \in DOMAIN s}

\* Memory and disk agree.
Synced ==
    /\ ~torn
    /\ records = RecordsOf(jsonl)
    /\ next = Len(jsonl) + 1
    /\ applied = EventsOf(jsonl)
    /\ index = EventsIn(jsonl)

\* What a restart demands of the complete records.
FileInv == Contiguous /\ NoRepeatedEvent

DiskInv ==
    /\ (phase # "down" /\ (writer.pc \in {"decide", "mark", "append", "answer"}
                            \/ (~degraded /\ writer.pc \in {"none", "setup", "poll", "exited"})))
          => Synced
    /\ writer.pc \in {"mark", "append"} => writer.ex.seq = next
    /\ writer.pc \in Appended =>
          /\ ~torn
          /\ RecordsOf(jsonl) = records \cup {writer.ex}
          /\ next = Len(jsonl)
          /\ jsonl # <<>>
    /\ writer.pc = "project" =>
          EventsOf(jsonl) = Append(applied, writer.ex.event)
    /\ writer.pc \in {"index", "clear", "publish"} => applied = EventsOf(jsonl)
    /\ writer.pc \in {"project", "index"} =>
          EventsIn(jsonl) = index \cup {writer.ex.event}
    /\ writer.pc \in {"clear", "publish"} => EventsIn(jsonl) = index
    /\ writer.pc \in {"append", "project", "index", "clear"} => marker
    /\ writer.pc = "reject" => degraded
    /\ ~marker => ~torn /\ applied = EventsOf(jsonl) /\ index = EventsIn(jsonl)

\* Answers are records of the file.
AnswerInv ==
    /\ records \subseteq RecordsOf(jsonl)
    /\ writer.pc = "answer" => writer.ex \in records
    /\ \A p \in DOMAIN pend : pend[p].result = "ok" =>
          /\ pend[p].exchange \in RecordsOf(jsonl)
          /\ pend[p].exchange.digest = pend[p].digest
    /\ \A a \in acked :
          a.exchange \in RecordsOf(jsonl) /\ a.asked = a.exchange.digest

IInv == TypeOK /\ Ownership /\ Construction /\ Unrecorded
           /\ FileInv /\ DiskInv /\ AnswerInv

------------------------------------------------------------------------------
\* A function on an initial interval of the naturals is a sequence.
LEMMA FunctionIsSeq ==
    ASSUME NEW S, NEW n \in Nat, NEW f \in [1..n -> S]
    PROVE  f \in Seq(S) /\ Len(f) = n
<1>1. f \in Seq(S)
  BY SeqDef
<1>2. Len(f) \in Nat /\ 1..Len(f) = 1..n
  BY <1>1, LenProperties
<1>3. Len(f) = n
  BY <1>2
<1> QED
  BY <1>1, <1>3

\* ResetMemory leaves well-typed threads.
LEMMA ResetTypes ==
    ASSUME ResetMemory
    PROVE  /\ closing' \in BOOLEAN
           /\ inflight' \in [Events -> PendingIds \cup {0}]
           /\ queue' \in Seq(PendingIds)
           /\ writer' \in Writer
           /\ starter' \in {"none", "wait", "timedout", "done"}
           /\ client' \in [Clients -> Client]
<1>1. NoWriter \in Writer
  BY DEF NoWriter, Writer, WriterSteps
<1>2. IdleClient \in Client
  BY DEF IdleClient, Client
<1>3. inflight' \in [Events -> PendingIds \cup {0}]
  BY DEF ResetMemory
<1>4. client' \in [Clients -> Client]
  BY <1>2 DEF ResetMemory
<1>5. queue' \in Seq(PendingIds)
  BY EmptySeq DEF ResetMemory
<1> QED
  BY <1>1, <1>3, <1>4, <1>5 DEF ResetMemory

\* Types are preserved; what the writer appends is an exchange.
LEMMA TypeStep ==
    ASSUME ShortWrites = FALSE, IInv, [Next]_vars
    PROVE  TypeOK'
<1> USE DEF TypeOK
<1>0. /\ TypeOK
      /\ writer.pc \in HasExchange => writer.ex \in Exchange
      /\ writer.pc \in Busy => writer.p \in DOMAIN pend
      /\ \A c \in Clients : client[c].pc # "idle" => client[c].p \in DOMAIN pend
  BY DEF IInv, Construction, Ownership
<1>1. CASE Open
  <2>0. \A i \in DOMAIN jsonl : jsonl[i] \in Exchange
    BY <1>0
  <2>1. RecordsOf(jsonl) \subseteq Exchange
    BY <2>0 DEF RecordsOf
  <2>2. {jsonl[i].event : i \in DOMAIN jsonl} \subseteq Events
    BY <2>0 DEF Exchange
  <2> QED
    BY <1>0, <1>1, <2>1, <2>2, ResetTypes DEF Open, history
<1>2. CASE Start
  BY <1>0, <1>2 DEF Start, disk, history, Writer, WriterSteps
<1>3. CASE StartReturns \/ StartTimesOut
  BY <1>0, <1>3 DEF StartReturns, StartTimesOut, disk, memory, history
<1>4. CASE StartDegrades \/ Stop
  BY <1>0, <1>4 DEF StartDegrades, Stop, disk, threads, history
<1>5. ASSUME NEW step \in WriterSteps, LeftOnDisk(step), step = "append" => writer.ex \in Exchange
      PROVE  jsonl' \in Seq(Exchange) /\ torn' \in BOOLEAN /\ marker' \in BOOLEAN
  <2>1. AppendLine /\ step = "append" => jsonl' \in Seq(Exchange)
    BY <1>0, <1>5, AppendProperties DEF AppendLine
  <2> QED
    BY <1>0, <1>5, <2>1 DEF LeftOnDisk
<1>6. CASE Crash
  <2>1. writer.pc \in WriterSteps
    BY <1>0 DEF Writer
  <2>2. jsonl' \in Seq(Exchange) /\ torn' \in BOOLEAN /\ marker' \in BOOLEAN
    BY <1>0, <1>5, <1>6, <2>1 DEF Crash, HasExchange
  <2>3. /\ closing' \in BOOLEAN
        /\ inflight' \in [Events -> PendingIds \cup {0}]
        /\ queue' \in Seq(PendingIds)
        /\ writer' \in Writer
        /\ starter' \in {"none", "wait", "timedout", "done"}
        /\ client' \in [Clients -> Client]
    BY <1>6, ResetTypes DEF Crash
  <2>4. /\ phase' \in {"down", "open", "started"}
        /\ degraded' \in BOOLEAN
        /\ records' \subseteq Exchange
        /\ next' \in Nat \ {0}
    <3>1. phase' = "down" /\ degraded' = FALSE /\ records' = {} /\ next' = 1
      BY <1>6 DEF Crash
    <3>2. next' \in Nat \ {0}
      BY <3>1
    <3> QED
      BY <3>1, <3>2, Zenon
  <2>5. /\ index' \subseteq Events
        /\ pend' \in Seq(Pending) /\ Len(pend') <= MaxPendings
        /\ applied' \in Seq(Events)
        /\ acked' \subseteq Ack
    BY <1>0, <1>6 DEF Crash, history
  <2> QED
    BY <2>2, <2>3, <2>4, <2>5
<1>7. ASSUME NEW step \in WriterSteps, Go(step)
      PROVE  writer' \in Writer
  BY <1>0, <1>7 DEF Go, Writer
<1>8. CASE SetupOk \/ WriterExits
  BY <1>0, <1>7, <1>8 DEF SetupOk, WriterExits, WriterSteps, disk, memory, history
<1>9. CASE SetupFails
  <2>1. writer' \in Writer
    BY <1>7, <1>9 DEF SetupFails, WriterSteps
  <2>2. pend' \in Seq(Pending) /\ Len(pend') = Len(pend)
    <3>1. \A p \in 1..Len(pend) : pend'[p] \in Pending
      <4>1. \A p \in 1..Len(pend) : pend[p] \in Pending
        BY <1>0
      <4>2. \A p \in 1..Len(pend) : [pend[p] EXCEPT !.result = "error"] \in Pending
        BY <4>1 DEF Pending
      <4>3. DOMAIN pend = 1..Len(pend)
        BY <1>0
      <4> QED
        BY <1>9, <4>1, <4>2, <4>3 DEF SetupFails
    <3>2. pend' \in [1..Len(pend) -> Pending]
      <4>1. DOMAIN pend = 1..Len(pend)
        BY <1>0
      <4> QED
        BY <1>9, <3>1, <4>1 DEF SetupFails
    <3>3. Len(pend) \in Nat
      BY <1>0
    <3> QED
      BY <3>2, <3>3, FunctionIsSeq
  <2>3. inflight' \in [Events -> PendingIds \cup {0}] /\ queue' \in Seq(PendingIds)
    BY <1>9 DEF SetupFails
  <2> QED
    BY <1>0, <1>9, <2>1, <2>2, <2>3 DEF SetupFails, history
<1>10. CASE Take
  <2>1. writer' \in Writer
    BY <1>0, <1>10 DEF Take, Writer, WriterSteps
  <2> QED
    BY <1>0, <1>10, <2>1 DEF Take, disk, history
<1>11. ASSUME NEW b \in Bodies, Decide(b) PROVE TypeOK'
  <2>1. writer.p \in DOMAIN pend /\ pend[writer.p] \in Pending
    BY <1>0, <1>11 DEF Decide, Busy
  <2>2. [seq |-> next, event |-> pend[writer.p].event,
         digest |-> pend[writer.p].digest, body |-> b] \in Exchange
    BY <1>0, <2>1 DEF Exchange, Pending
  <2>3. writer' \in Writer
    BY <1>0, <1>11, <2>2 DEF Decide, Writer, WriterSteps
  <2> QED
    BY <1>0, <1>11, <2>3 DEF Decide, disk, memory, history
<1>12. CASE Mark
  BY <1>0, <1>7, <1>12 DEF Mark, WriterSteps, memory, history
<1>13. CASE AppendOk
  <2>1. writer.ex \in Exchange
    BY <1>0, <1>13 DEF AppendOk, HasExchange
  <2>2. jsonl' \in Seq(Exchange)
    BY <1>0, <1>13, <2>1 DEF AppendOk, AppendLine
  <2> QED
    BY <1>0, <1>7, <1>13, <2>2 DEF AppendOk, WriterSteps, memory, history
<1>14. CASE Project
  <2>1. writer.ex.event \in Events
    BY <1>0, <1>14 DEF Project, HasExchange, Exchange
  <2> QED
    BY <1>0, <1>7, <1>14, <2>1 DEF Project, WriterSteps, disk, memory
<1>15. CASE ApplyIndex
  <2>1. writer.ex.event \in Events
    BY <1>0, <1>15 DEF ApplyIndex, HasExchange, Exchange
  <2> QED
    BY <1>0, <1>7, <1>15, <2>1 DEF ApplyIndex, WriterSteps, memory, history
<1>16. CASE Clear
  BY <1>0, <1>7, <1>16 DEF Clear, WriterSteps, memory, history
<1>17. CASE Publish
  <2>1. writer.ex \in Exchange
    BY <1>0, <1>17 DEF Publish, HasExchange
  <2> QED
    BY <1>0, <1>7, <1>17, <2>1 DEF Publish, WriterSteps, disk, history
<1>18. ASSUME NEW result \in {"ok", "error"}, Finish(result),
              writer.pc \in Busy, result = "ok" => writer.ex \in Exchange
       PROVE  TypeOK'
  <2>1. writer.p \in DOMAIN pend /\ pend[writer.p] \in Pending
    BY <1>0, <1>18
  <2>2. pend' \in Seq(Pending) /\ Len(pend') = Len(pend)
    <3>1. [pend[writer.p] EXCEPT !.result = result,
               !.exchange = IF result = "ok" THEN writer.ex ELSE NoExchange] \in Pending
      BY <1>18, <2>1 DEF Pending
    <3>2. pend' = [pend EXCEPT ![writer.p] =
               [pend[writer.p] EXCEPT !.result = result,
                 !.exchange = IF result = "ok" THEN writer.ex ELSE NoExchange]]
      BY <1>18, <2>1 DEF Finish, Pending
    <3> QED
      BY <1>0, <2>1, <3>1, <3>2
  <2>3. inflight' \in [Events -> PendingIds \cup {0}]
    BY <1>0, <1>18 DEF Finish
  <2> QED
    BY <1>0, <1>7, <1>18, <2>2, <2>3 DEF Finish, WriterSteps, disk, history
<1>19. CASE Answer \/ Reject
  BY <1>0, <1>18, <1>19 DEF Answer, Reject, HasExchange, Busy
<1>20. CASE StepFails
  <2>1. jsonl' \in Seq(Exchange) /\ torn' \in BOOLEAN /\ marker' \in BOOLEAN
    BY <1>0, <1>5, <1>20 DEF WriterSteps, StepFails, HasExchange
  <2> QED
    BY <1>0, <1>7, <1>20, <2>1 DEF StepFails, WriterSteps, memory, history
<1>21. CASE Degrade
  BY <1>0, <1>7, <1>21 DEF Degrade, WriterSteps, history
<1>22. ASSUME NEW c \in Clients, NEW e \in Events, NEW d \in Digests,
              SubmitPrior(c, e, d) \/ ResponseFor(c, e, d)
       PROVE  TypeOK'
  BY <1>0, <1>22 DEF SubmitPrior, ResponseFor, Prior, Ack, disk, memory, threads
<1>23. ASSUME NEW c \in Clients, NEW e \in Events, NEW d \in Digests,
              SubmitJoin(c, e, d)
       PROVE  TypeOK'
  BY <1>0, <1>23 DEF SubmitJoin, Client, disk, memory, history
<1>24. ASSUME NEW c \in Clients, NEW e \in Events, NEW d \in Digests,
              SubmitFirst(c, e, d)
       PROVE  TypeOK'
  <2>1. Len(pend) + 1 \in PendingIds
    BY <1>0, <1>24, LedgerAssumption DEF SubmitFirst, PendingIds
  <2>2. pend' \in Seq(Pending) /\ Len(pend') <= MaxPendings
    <3>1. [event |-> e, digest |-> d, result |-> "waiting",
           exchange |-> NoExchange] \in Pending
      BY DEF Pending
    <3> QED
      BY <1>0, <1>24, <3>1, LedgerAssumption, AppendProperties DEF SubmitFirst
  <2> QED
    BY <1>0, <1>24, <2>1, <2>2 DEF SubmitFirst, Client, disk, history
<1>25. ASSUME NEW c \in Clients, Put(c)
       PROVE  TypeOK'
  <2>1. client[c].p \in PendingIds
    <3>0. client[c].pc # "idle" => client[c].p \in DOMAIN pend
      BY <1>0
    <3>1. client[c].p \in 1..Len(pend)
      BY <1>0, <1>25, <3>0 DEF Put
    <3>2. Len(pend) \in Nat /\ Len(pend) <= MaxPendings
      BY <1>0
    <3> QED
      BY <3>1, <3>2, LedgerAssumption DEF PendingIds
  <2>2. client' \in [Clients -> Client]
    BY <1>0, <1>25 DEF Put, Client
  <2>3. queue' \in Seq(PendingIds)
    BY <1>0, <1>25, <2>1 DEF Put
  <2> QED
    BY <1>0, <1>25, <2>2, <2>3 DEF Put, disk, history
<1>26. IdleClient \in Client
  BY DEF IdleClient, Client
<1>27. ASSUME NEW c \in Clients, PutRefused(c) \/ WaitTimesOut(c)
       PROVE  TypeOK'
  BY <1>0, <1>26, <1>27 DEF PutRefused, WaitTimesOut, disk, memory, history
<1>28. ASSUME NEW c \in Clients, Receive(c)
       PROVE  TypeOK'
  <2>1. acked' \subseteq Ack
    <3>1. pend[client[c].p].result = "ok" =>
             pend[client[c].p].exchange \in Exchange /\ client[c].asked \in Digests
      <4>1. client[c].p \in DOMAIN pend /\ pend[client[c].p].digest = client[c].asked
        BY <1>28 DEF IInv, Ownership, Receive
      <4>2. pend[client[c].p] \in Pending
        BY <1>0, <4>1
      <4>3. client[c].asked \in Digests
        BY <4>1, <4>2 DEF Pending
      <4>4. pend[client[c].p].result = "ok" =>
               pend[client[c].p].exchange \in RecordsOf(jsonl)
        BY <4>1 DEF IInv, AnswerInv
      <4>5. RecordsOf(jsonl) \subseteq Exchange
        BY <1>0, ElementOfSeq DEF RecordsOf
      <4> QED
        BY <4>3, <4>4, <4>5
    <3> QED
      BY <1>0, <1>28, <3>1 DEF Receive, Ack
  <2> QED
    BY <1>0, <1>26, <1>28, <2>1 DEF Receive, disk, memory
<1>29. CASE UNCHANGED vars
  BY <1>0, <1>29 DEF vars, disk, memory, threads, history
<1> QED
  BY <1>1, <1>2, <1>3, <1>4, <1>6, <1>8, <1>9, <1>10, <1>11, <1>12, <1>13, <1>14,
     <1>15, <1>16, <1>17, <1>19, <1>20, <1>21, <1>22, <1>23, <1>24, <1>25, <1>27,
     <1>28, <1>29
  DEF Next, Lifecycle, WriterStep, ClientStep

\* Every pending exchange keeps one owner.
LEMMA OwnershipStep ==
    ASSUME IInv, TypeOK', [Next]_vars
    PROVE  Ownership'
<1> DEFINE Typed == /\ writer \in Writer
                    /\ inflight \in [Events -> PendingIds \cup {0}]
                    /\ queue \in Seq(PendingIds)
                    /\ pend \in Seq(Pending)
                    /\ client \in [Clients -> Client]
                    /\ \A p \in DOMAIN pend : pend[p].event \in Events
                    /\ DOMAIN pend = 1..Len(pend)
<1>0. Ownership /\ Typed
  <2>1. \A p \in DOMAIN pend : pend[p] \in Pending
    BY DEF IInv, TypeOK
  <2> QED
    BY <2>1 DEF IInv, TypeOK, Pending
<1> HIDE DEF Typed
<1> USE DEF Ownership, Busy
<1>1. CASE Open \/ Crash
  BY <1>0, <1>1 DEF Typed, Open, Crash, ResetMemory, NoWriter, IdleClient
<1>2. CASE Start
  BY <1>0, <1>2 DEF Typed, Writer, Start
<1>3. CASE StartReturns \/ StartTimesOut \/ StartDegrades \/ Stop
  <2>1. UNCHANGED <<phase, inflight, queue, pend, writer, client>>
    BY <1>3 DEF StartReturns, StartTimesOut, StartDegrades, Stop, memory, threads
  <2> QED
    BY <1>0, <2>1
<1>4. ASSUME NEW from \in WriterSteps, NEW to \in WriterSteps, writer.pc = from, Go(to),
             from \in Busy, to \in Busy,
             UNCHANGED <<phase, inflight, queue, pend, client>>
      PROVE  Ownership'
  <2>1. writer'.pc = to /\ writer'.p = writer.p
    BY <1>0, <1>4 DEF Typed, Writer, Go
  <2> QED
    BY <1>0, <1>4, <2>1
<1>5. CASE SetupOk
  <2>1. writer'.pc = "poll" /\ writer'.p = writer.p
    BY <1>0, <1>5 DEF Typed, Writer, SetupOk, Go
  <2> QED
    BY <1>0, <1>5, <2>1 DEF SetupOk, memory
<1>6. CASE Mark \/ AppendOk \/ Project \/ ApplyIndex \/ Clear
  BY <1>4, <1>6 DEF Mark, AppendOk, Project, ApplyIndex, Clear, WriterSteps, memory
<1>7. CASE Publish \/ StepFails \/ Degrade
  BY <1>4, <1>7 DEF Publish, StepFails, Degrade, WriterSteps, memory
<1>8. ASSUME NEW b \in Bodies, Decide(b)
      PROVE  Ownership'
  <2>1. writer'.pc = "mark" /\ writer'.p = writer.p
    BY <1>0, <1>8 DEF Typed, Writer, Decide
  <2> QED
    BY <1>0, <1>8, <2>1 DEF Decide, memory
<1>9. CASE WriterExits
  BY <1>0, <1>9 DEF Typed, Writer, WriterExits, Go, memory
<1>10. CASE SetupFails
  <2>1. /\ DOMAIN pend' = DOMAIN pend
        /\ \A p \in DOMAIN pend : pend'[p].event = pend[p].event
                                  /\ pend'[p].digest = pend[p].digest
    BY <1>0, <1>10 DEF SetupFails
  <2>2. writer'.pc = "exited"
    BY <1>0, <1>10 DEF Typed, Writer, SetupFails, Go
  <2> QED
    BY <1>0, <1>10, <2>1, <2>2 DEF SetupFails
<1>11. CASE Take
  <2>1. /\ Len(queue') = Len(queue) - 1
        /\ \A i \in DOMAIN queue' : queue'[i] = queue[i + 1] /\ i + 1 \in DOMAIN queue
        /\ 1 \in DOMAIN queue /\ Head(queue) = queue[1]
    BY <1>0, <1>11 DEF Typed, Take
  <2>2. writer'.pc \in {"fail", "decide"} /\ writer'.p = queue[1]
    BY <1>11, <2>1 DEF Take
  <2>3. \A i \in DOMAIN queue' : queue'[i] # queue[1]
    <3>1. \A i \in DOMAIN queue' : i + 1 # 1
      BY <1>0, <1>11 DEF Typed, Take
    <3> QED
      BY <1>0, <2>1, <3>1
  <2>4. \A i, j \in DOMAIN queue' : queue'[i] = queue'[j] => i = j
    <3>1. \A i, j \in DOMAIN queue' : i + 1 = j + 1 => i = j
      BY <1>0, <1>11 DEF Typed, Take
    <3> QED
      BY <1>0, <2>1, <3>1
  <2> QED
    BY <1>0, <1>11, <2>1, <2>2, <2>3, <2>4 DEF Take
<1>12. ASSUME NEW result \in {"ok", "error"}, Finish(result), writer.pc \in Busy
       PROVE  Ownership'
  <2>1. /\ DOMAIN pend' = DOMAIN pend
        /\ \A p \in DOMAIN pend : pend'[p].event = pend[p].event
                                  /\ pend'[p].digest = pend[p].digest
    <3>1. \A p \in DOMAIN pend : pend[p] \in Pending
      BY <1>0 DEF Typed
    <3> QED
      BY <1>0, <1>12, <3>1 DEF Finish, Pending
  <2>2. writer'.pc = "poll" /\ writer'.p = writer.p
    BY <1>0, <1>12 DEF Typed, Writer, Finish, Go
  <2>3. \A e \in Events : inflight'[e] = IF e = pend[writer.p].event THEN 0 ELSE inflight[e]
    BY <1>0, <1>12 DEF Typed, Finish
  <2> QED
    BY <1>0, <1>12, <2>1, <2>2, <2>3 DEF Typed, Finish
<1>13. CASE Answer \/ Reject
  BY <1>12, <1>13 DEF Answer, Reject
<1>14. ASSUME NEW c \in Clients, NEW e \in Events, NEW d \in Digests,
              SubmitPrior(c, e, d) \/ ResponseFor(c, e, d)
       PROVE  Ownership'
  BY <1>0, <1>14 DEF SubmitPrior, ResponseFor, memory, threads
<1>15. ASSUME NEW c \in Clients, NEW e \in Events, NEW d \in Digests,
              SubmitJoin(c, e, d)
       PROVE  Ownership'
  <2>1. /\ client'[c] = [pc |-> "wait", p |-> inflight[e], asked |-> d]
        /\ \A o \in Clients : o # c => client'[o] = client[o]
    BY <1>0, <1>15 DEF Typed, SubmitJoin
  <2> QED
    BY <1>0, <1>15, <2>1 DEF SubmitJoin, Accepting, memory
<1>16. ASSUME NEW c \in Clients, NEW e \in Events, NEW d \in Digests,
              SubmitFirst(c, e, d)
       PROVE  Ownership'
  <2> DEFINE n == Len(pend) + 1
  <2>1. /\ client'[c] = [pc |-> "put", p |-> n, asked |-> d]
        /\ \A o \in Clients : o # c => client'[o] = client[o]
    BY <1>0, <1>16 DEF Typed, SubmitFirst
  <2>2. /\ n \notin DOMAIN pend /\ n # 0
        /\ DOMAIN pend' = DOMAIN pend \cup {n}
        /\ pend'[n].event = e /\ pend'[n].digest = d
        /\ \A p \in DOMAIN pend : pend'[p] = pend[p]
    BY <1>0, <1>16 DEF Typed, SubmitFirst
  <2>3. inflight'[e] = n /\ \A o \in Events : o # e => inflight'[o] = inflight[o]
    BY <1>0, <1>16 DEF Typed, SubmitFirst
  <2>4. \A p \in DOMAIN pend : inflight[pend[p].event] = p /\ p # 0 => pend[p].event # e
    BY <1>16 DEF SubmitFirst
  <2>5. \A p \in DOMAIN pend : p # 0 /\ pend[p].event \in Events
    BY <1>0 DEF Typed
  <2> HIDE DEF n
  <2>6. phase' = "started" /\ writer'.pc # "none"
    BY <1>0, <1>16 DEF SubmitFirst, Accepting
  <2> QED
    BY <1>0, <1>16, <2>1, <2>2, <2>3, <2>4, <2>5, <2>6 DEF SubmitFirst
<1>17. ASSUME NEW c \in Clients, Put(c)
       PROVE  Ownership'
  <2>1. /\ client'[c] = [client[c] EXCEPT !.pc = "wait"]
        /\ client'[c].p = client[c].p /\ client'[c].asked = client[c].asked
        /\ client'[c].pc = "wait"
        /\ \A o \in Clients : o # c => client'[o] = client[o]
    BY <1>0, <1>17 DEF Typed, Client, Put
  <2>2. /\ DOMAIN queue' = DOMAIN queue \cup {Len(queue) + 1}
        /\ Len(queue) + 1 \notin DOMAIN queue
        /\ queue'[Len(queue) + 1] = client[c].p
        /\ \A i \in DOMAIN queue : queue'[i] = queue[i]
    BY <1>0, <1>17 DEF Typed, Put
  <2>3. phase = "started"
    BY <1>0, <1>17 DEF Put
  <2> QED
    BY <1>0, <1>17, <2>1, <2>2, <2>3 DEF Put
<1>18. ASSUME NEW c \in Clients, PutRefused(c)
       PROVE  Ownership'
  <2>1. client'[c].pc = "idle" /\ \A o \in Clients : o # c => client'[o] = client[o]
    BY <1>0, <1>18 DEF Typed, PutRefused, IdleClient
  <2>2. \A e \in Events :
            inflight'[e] = IF e = pend[client[c].p].event THEN 0 ELSE inflight[e]
    BY <1>0, <1>18 DEF Typed, PutRefused
  <2> QED
    BY <1>0, <1>18, <2>1, <2>2 DEF Typed, PutRefused
<1>19. ASSUME NEW c \in Clients, Receive(c) \/ WaitTimesOut(c)
       PROVE  Ownership'
  <2>1. client'[c].pc = "idle" /\ \A o \in Clients : o # c => client'[o] = client[o]
    BY <1>0, <1>19 DEF Typed, Receive, WaitTimesOut, IdleClient
  <2> QED
    BY <1>0, <1>19, <2>1 DEF Receive, WaitTimesOut, memory
<1>20. CASE UNCHANGED vars
  BY <1>0, <1>20 DEF vars, memory, threads
<1> QED
  BY <1>1, <1>2, <1>3, <1>5, <1>6, <1>7, <1>8, <1>9, <1>10, <1>11, <1>13, <1>14,
     <1>15, <1>16, <1>17, <1>18, <1>19, <1>20
  DEF Next, Lifecycle, WriterStep, ClientStep

\* The exchange under construction stays that of the writer's pending exchange.
LEMMA ConstructionStep ==
    ASSUME IInv, TypeOK', [Next]_vars
    PROVE  Construction'
<1>0. /\ writer \in Writer /\ pend \in Seq(Pending) /\ next \in Nat \ {0}
      /\ DOMAIN pend = 1..Len(pend)
      /\ Construction
      /\ writer.pc \in Busy => writer.p \in DOMAIN pend
  BY DEF IInv, TypeOK, Ownership
<1> USE DEF Construction, HasExchange
<1>1. CASE Open \/ Crash
  BY <1>1 DEF Open, Crash, ResetMemory, NoWriter
<1>2. ASSUME NEW to \in WriterSteps, Go(to), UNCHANGED pend,
             to \in HasExchange => writer.pc \in HasExchange
      PROVE  Construction'
  <2>1. writer'.pc = to /\ writer'.p = writer.p /\ writer'.ex = writer.ex
    BY <1>0, <1>2 DEF Writer, Go
  <2> QED
    BY <1>0, <1>2, <2>1
<1>3. CASE Start
  <2>1. writer'.pc = "setup"
    BY <1>0, <1>3 DEF Writer, Start
  <2> QED
    BY <2>1
<1>4. CASE SetupOk \/ WriterExits \/ Mark \/ AppendOk
  BY <1>2, <1>4
  DEF SetupOk, WriterExits, Mark, AppendOk, WriterSteps
<1>5. CASE Project \/ ApplyIndex \/ Clear \/ Publish \/ StepFails \/ Degrade
  BY <1>2, <1>5 DEF Project, ApplyIndex, Clear, Publish, StepFails, Degrade, WriterSteps
<1>6. CASE SetupFails
  <2>1. writer'.pc = "exited"
    BY <1>0, <1>6 DEF Writer, SetupFails, Go
  <2> QED
    BY <2>1
<1>7. CASE Take
  BY <1>7 DEF Take
<1>8. ASSUME NEW b \in Bodies, Decide(b) PROVE Construction'
  <2>1. writer' = [writer EXCEPT
                    !.pc = "mark",
                    !.ex = [seq |-> next, event |-> pend[writer.p].event,
                            digest |-> pend[writer.p].digest, body |-> b]]
    BY <1>8 DEF Decide
  <2>2. /\ writer'.p = writer.p
        /\ writer'.ex = [seq |-> next, event |-> pend[writer.p].event,
                         digest |-> pend[writer.p].digest, body |-> b]
    BY <1>0, <2>1 DEF Writer
  <2>3. pend[writer.p] \in Pending /\ pend' = pend
    BY <1>0, <1>8 DEF Decide, Busy
  <2>4. writer'.ex \in Exchange
    BY <1>0, <2>2, <2>3 DEF Pending, Exchange
  <2> QED
    BY <2>2, <2>3, <2>4
<1>9. CASE Answer \/ Reject
  <2>1. writer'.pc = "poll"
    BY <1>0, <1>9 DEF Writer, Answer, Reject, Finish, Go
  <2> QED
    BY <2>1
<1>10. ASSUME NEW c \in Clients, NEW e \in Events, NEW d \in Digests,
              SubmitFirst(c, e, d)
       PROVE  Construction'
  <2>1. writer' = writer /\ \A p \in DOMAIN pend : pend'[p] = pend[p]
    BY <1>0, <1>10 DEF SubmitFirst
  <2> QED
    BY <1>0, <2>1 DEF Busy
<1>11. ASSUME UNCHANGED <<writer, pend>> PROVE Construction'
  BY <1>0, <1>11
<1>12. CASE StartReturns \/ StartTimesOut \/ StartDegrades \/ Stop
  BY <1>11, <1>12 DEF StartReturns, StartTimesOut, StartDegrades, Stop, threads
<1>13. ASSUME NEW c \in Clients, NEW e \in Events, NEW d \in Digests,
              SubmitPrior(c, e, d) \/ ResponseFor(c, e, d) \/ SubmitJoin(c, e, d)
       PROVE  Construction'
  BY <1>11, <1>13 DEF SubmitPrior, ResponseFor, SubmitJoin, threads
<1>14. ASSUME NEW c \in Clients, Put(c) \/ PutRefused(c) \/ Receive(c) \/ WaitTimesOut(c)
       PROVE  Construction'
  BY <1>11, <1>14 DEF Put, PutRefused, Receive, WaitTimesOut
<1>15. CASE UNCHANGED vars
  BY <1>11, <1>15 DEF vars, threads
<1> QED
  BY <1>1, <1>3, <1>4, <1>5, <1>6, <1>7, <1>8, <1>9, <1>10, <1>12, <1>13, <1>14, <1>15
  DEF Next, Lifecycle, WriterStep, ClientStep

\* No second decision for a recorded event can be under way.
LEMMA UnrecordedStep ==
    ASSUME IInv, TypeOK', [Next]_vars
    PROVE  Unrecorded'
<1>0. /\ writer \in Writer /\ inflight \in [Events -> PendingIds \cup {0}]
      /\ Unrecorded /\ Construction
      /\ writer.pc \in Busy => inflight[pend[writer.p].event] = writer.p
  BY DEF IInv, TypeOK, Ownership
<1> USE DEF Unrecorded, Prior
<1>1. CASE Open \/ Crash
  BY <1>1 DEF Open, Crash, ResetMemory
<1>2. ASSUME NEW to \in WriterSteps, Go(to), UNCHANGED <<records, inflight>>,
             writer.pc # "answer", writer.pc # "exited"
      PROVE  Unrecorded'
  BY <1>0, <1>2
<1>3. CASE SetupOk \/ WriterExits \/ Mark \/ AppendOk
  BY <1>2, <1>3
  DEF SetupOk, WriterExits, Mark, AppendOk, WriterSteps, memory
<1>4. CASE Project \/ ApplyIndex \/ Clear \/ StepFails \/ Degrade
  BY <1>2, <1>4 DEF Project, ApplyIndex, Clear, StepFails, Degrade, WriterSteps, memory
<1>5. CASE Start
  BY <1>0, <1>5, Zenon DEF Start, IInv, Ownership
<1>6. CASE SetupFails
  <2>1. writer'.pc = "exited"
    BY <1>0, <1>6 DEF Writer, SetupFails, Go
  <2> QED
    BY <2>1
<1>7. ASSUME Take \/ \E b \in Bodies : Decide(b) PROVE Unrecorded'
  BY <1>0, <1>7 DEF Take, Decide, memory
<1>8. CASE Publish
  <2>1. writer'.pc = "answer" /\ writer'.p = writer.p
    BY <1>0, <1>8 DEF Writer, Publish, Go
  <2>2. writer.ex.event = pend[writer.p].event
    BY <1>0, <1>8 DEF Publish, Construction, HasExchange
  <2>3. inflight[pend[writer.p].event] = writer.p
    BY <1>0, <1>8 DEF Publish, Busy
  <2>4. records' = records \cup {writer.ex} /\ inflight' = inflight
        /\ writer.pc = "publish"
    BY <1>8 DEF Publish
  <2> QED
    BY <1>0, <2>1, <2>2, <2>3, <2>4
<1>9. CASE Answer \/ Reject
  <2>1. writer'.pc = "poll"
    BY <1>0, <1>9 DEF Writer, Answer, Reject, Finish, Go
  <2>2. /\ records' = records
        /\ writer.pc \in {"answer", "reject"}
        /\ \A e \in Events :
             inflight'[e] = IF e = pend[writer.p].event THEN 0 ELSE inflight[e]
    BY <1>0, <1>9 DEF Answer, Reject, Finish
  <2>3. \A e \in Events : e # pend[writer.p].event /\ inflight[e] # 0
                            => inflight[e] # writer.p
    BY <1>0, <2>2 DEF IInv, Ownership, Busy
  <2> QED
    BY <1>0, <2>1, <2>2, <2>3
<1>10. ASSUME NEW c \in Clients, NEW e \in Events, NEW d \in Digests,
              SubmitFirst(c, e, d)
       PROVE  Unrecorded'
  <2>1. /\ writer' = writer /\ records' = records
        /\ Prior(e) = {}
        /\ \A o \in Events : o # e => inflight'[o] = inflight[o]
    BY <1>0, <1>10 DEF SubmitFirst
  <2> QED
    BY <1>0, <2>1
<1>11. ASSUME NEW c \in Clients, PutRefused(c)
       PROVE  Unrecorded'
  <2>1. /\ writer' = writer /\ records' = records
        /\ \A o \in Events : inflight'[o] = 0 \/ inflight'[o] = inflight[o]
    BY <1>0, <1>11 DEF PutRefused
  <2> QED
    BY <1>0, <2>1
<1>12. ASSUME UNCHANGED <<writer, records, inflight>> PROVE Unrecorded'
  BY <1>0, <1>12
<1>13. CASE StartReturns \/ StartTimesOut \/ StartDegrades \/ Stop
  BY <1>12, <1>13 DEF StartReturns, StartTimesOut, StartDegrades, Stop, threads, memory
<1>14. ASSUME NEW c \in Clients, NEW e \in Events, NEW d \in Digests,
              SubmitPrior(c, e, d) \/ ResponseFor(c, e, d) \/ SubmitJoin(c, e, d)
       PROVE  Unrecorded'
  BY <1>12, <1>14 DEF SubmitPrior, ResponseFor, SubmitJoin, threads, memory
<1>15. ASSUME NEW c \in Clients, Put(c) \/ Receive(c) \/ WaitTimesOut(c)
       PROVE  Unrecorded'
  BY <1>12, <1>15 DEF Put, Receive, WaitTimesOut, memory
<1>16. CASE UNCHANGED vars
  BY <1>12, <1>16 DEF vars, threads, memory
<1> QED
  BY <1>1, <1>3, <1>4, <1>5, <1>6, <1>7, <1>8, <1>9, <1>10, <1>11, <1>13, <1>14, <1>15, <1>16
  DEF Next, Lifecycle, WriterStep, ClientStep

\* What appending one exchange does to the file and to its projections.
LEMMA AppendRecord ==
    ASSUME NEW s \in Seq(Exchange), NEW x \in Exchange
    PROVE  LET t == Append(s, x) IN
           /\ t # <<>> /\ Len(t) = Len(s) + 1
           /\ DOMAIN t = DOMAIN s \cup {Len(s) + 1} /\ Len(s) + 1 \notin DOMAIN s
           /\ t[Len(s) + 1] = x /\ \A i \in DOMAIN s : t[i] = s[i]
           /\ RecordsOf(t) = RecordsOf(s) \cup {x}
           /\ EventsIn(t) = EventsIn(s) \cup {x.event}
           /\ EventsOf(t) = Append(EventsOf(s), x.event)
<1> DEFINE t == Append(s, x)
<1>1. /\ t # <<>> /\ t \in Seq(Exchange) /\ Len(t) = Len(s) + 1 /\ Len(s) \in Nat
      /\ DOMAIN t = 1..Len(t) /\ DOMAIN s = 1..Len(s)
      /\ t[Len(s) + 1] = x /\ \A i \in 1..Len(s) : t[i] = s[i]
  BY AppendProperties
<1>2. DOMAIN t = DOMAIN s \cup {Len(s) + 1} /\ Len(s) + 1 \notin DOMAIN s
  BY <1>1
<1> HIDE DEF t
<1>3. RecordsOf(t) = RecordsOf(s) \cup {x} /\ EventsIn(t) = EventsIn(s) \cup {x.event}
  BY <1>1, <1>2 DEF RecordsOf, EventsIn
<1>4. EventsOf(t) = Append(EventsOf(s), x.event)
  <2>0. /\ \A i \in DOMAIN s : s[i] \in Exchange
        /\ \A i \in DOMAIN t : t[i] \in Exchange
    BY <1>1
  <2>1. \A i \in DOMAIN s : s[i].event \in Events
    BY <2>0 DEF Exchange
  <2>2. \A i \in DOMAIN t : t[i].event \in Events
    BY <2>0 DEF Exchange
  <2>3. /\ EventsOf(s) \in [1..Len(s) -> Events]
        /\ EventsOf(t) \in [1..Len(t) -> Events]
    BY <1>1, <2>1, <2>2 DEF EventsOf
  <2>4. /\ EventsOf(s) \in Seq(Events) /\ Len(EventsOf(s)) = Len(s)
        /\ EventsOf(t) \in Seq(Events) /\ Len(EventsOf(t)) = Len(t)
    <3>1. Len(s) \in Nat /\ Len(t) \in Nat
      BY <1>1
    <3>2. EventsOf(s) \in Seq(Events) /\ Len(EventsOf(s)) = Len(s)
      BY <2>3, <3>1, FunctionIsSeq
    <3>3. EventsOf(t) \in Seq(Events) /\ Len(EventsOf(t)) = Len(t)
      BY <2>3, <3>1, FunctionIsSeq
    <3> QED
      BY <3>2, <3>3
  <2>5. x.event \in Events
    BY DEF Exchange
  <2> DEFINE u == Append(EventsOf(s), x.event)
  <2>6. /\ u \in Seq(Events) /\ Len(u) = Len(s) + 1
        /\ u[Len(s) + 1] = x.event
        /\ \A i \in 1..Len(s) : u[i] = EventsOf(s)[i]
    BY <2>4, <2>5, AppendProperties
  <2> HIDE DEF u
  <2>7. \A i \in 1..Len(EventsOf(t)) : EventsOf(t)[i] = u[i]
    BY <1>1, <1>2, <2>4, <2>6 DEF EventsOf
  <2>8. EventsOf(t) = u
    BY <1>1, <2>4, <2>6, <2>7, SeqEqual
  <2> QED
    BY <2>8 DEF u
<1> QED
  BY <1>1, <1>2, <1>3, <1>4 DEF t

\* An appended exchange keeps the file contiguous and free of repeated events.
LEMMA AppendKeepsFile ==
    ASSUME NEW s \in Seq(Exchange), NEW x \in Exchange,
           \A i \in DOMAIN s : s[i].seq = i,
           \A i, j \in DOMAIN s : s[i].event = s[j].event => i = j,
           x.seq = Len(s) + 1, x.event \notin EventsIn(s)
    PROVE  LET t == Append(s, x) IN
           /\ \A i \in DOMAIN t : t[i].seq = i
           /\ \A i, j \in DOMAIN t : t[i].event = t[j].event => i = j
<1> DEFINE t == Append(s, x)
<1>1. /\ DOMAIN t = DOMAIN s \cup {Len(s) + 1} /\ Len(s) + 1 \notin DOMAIN s
      /\ t[Len(s) + 1] = x /\ \A i \in DOMAIN s : t[i] = s[i]
  BY AppendRecord
<1> HIDE DEF t
<1>2. \A i \in DOMAIN s : s[i].event # x.event
  BY DEF EventsIn
<1> QED
  BY <1>1, <1>2 DEF t

\* Where the file grows: the exchange is new, and memory agrees with the file.
LEMMA AppendFacts ==
    ASSUME IInv, writer.pc = "append"
    PROVE  /\ Synced /\ marker /\ phase = "started"
           /\ writer.ex \in Exchange /\ writer.ex.seq = Len(jsonl) + 1
           /\ writer.ex.event \notin EventsIn(jsonl)
<1>1. phase = "started"
  BY DEF IInv, TypeOK, Ownership
<1>2. Synced /\ marker /\ writer.ex.seq = next
  BY <1>1 DEF IInv, DiskInv
<1>3. writer.ex \in Exchange /\ writer.ex.event = pend[writer.p].event
  BY DEF IInv, Construction, HasExchange
<1>4. writer.p # 0 /\ inflight[writer.ex.event] = writer.p
  <2>1. writer.p \in DOMAIN pend /\ inflight[pend[writer.p].event] = writer.p
    BY DEF IInv, Ownership, Busy
  <2>2. 0 \notin DOMAIN pend
    BY DEF IInv, TypeOK
  <2> QED
    BY <1>3, <2>1, <2>2
<1>5. writer.ex.event \in Events
  BY <1>3 DEF Exchange
<1>6. Prior(writer.ex.event) = {}
  BY <1>4, <1>5 DEF IInv, Unrecorded
<1>7. writer.ex.event \notin EventsIn(jsonl)
  BY <1>2, <1>6 DEF Prior, Synced, RecordsOf, EventsIn
<1> QED
  BY <1>1, <1>2, <1>3, <1>7 DEF Synced

\* The file changes in one way only.
LEMMA FileGrowth ==
    ASSUME ShortWrites = FALSE, IInv, [Next]_vars
    PROVE  \/ UNCHANGED jsonl
           \/ writer.pc = "append" /\ jsonl' = Append(jsonl, writer.ex)
<1>1. CASE Crash
  BY <1>1 DEF Crash, LeftOnDisk, AppendLine
<1>2. CASE StepFails
  BY <1>2 DEF StepFails, LeftOnDisk, AppendLine
<1>3. CASE AppendOk
  BY <1>3 DEF AppendOk, AppendLine
<1>4. CASE Lifecycle /\ ~Crash
  BY <1>4
  DEF Lifecycle, Open, Start, StartReturns, StartTimesOut, StartDegrades, Stop, disk
<1>5. CASE WriterStep /\ ~StepFails /\ ~AppendOk
  BY <1>5
  DEF WriterStep, SetupOk, SetupFails, WriterExits, Take, Decide, Mark,
      Project, ApplyIndex, Clear, Publish, Answer, Reject, Finish, Degrade, disk
<1>6. ASSUME NEW c \in Clients, ClientStep(c) PROVE UNCHANGED jsonl
  BY <1>6
  DEF ClientStep, SubmitPrior, ResponseFor, SubmitJoin, SubmitFirst, Put, PutRefused,
      Receive, WaitTimesOut, disk
<1>7. CASE UNCHANGED vars
  BY <1>7 DEF vars, disk
<1> QED
  BY <1>1, <1>2, <1>3, <1>4, <1>5, <1>6, <1>7 DEF Next

LEMMA FileStep ==
    ASSUME ShortWrites = FALSE, IInv, [Next]_vars
    PROVE  FileInv'
<1>1. CASE UNCHANGED jsonl
  BY <1>1 DEF IInv, FileInv, Contiguous, NoRepeatedEvent
<1>2. CASE writer.pc = "append" /\ jsonl' = Append(jsonl, writer.ex)
  <2>1. /\ jsonl \in Seq(Exchange)
        /\ \A i \in DOMAIN jsonl : jsonl[i].seq = i
        /\ \A i, j \in DOMAIN jsonl : jsonl[i].event = jsonl[j].event => i = j
    BY DEF IInv, TypeOK, FileInv, Contiguous, NoRepeatedEvent
  <2>2. /\ \A i \in DOMAIN jsonl' : jsonl'[i].seq = i
        /\ \A i, j \in DOMAIN jsonl' : jsonl'[i].event = jsonl'[j].event => i = j
    BY <1>2, <2>1, AppendFacts, AppendKeepsFile
  <2> QED
    BY <2>2 DEF FileInv, Contiguous, NoRepeatedEvent
<1> QED
  BY <1>1, <1>2, FileGrowth

\* Memory and disk stay in step.
LEMMA DiskStep ==
    ASSUME ShortWrites = FALSE, IInv, [Next]_vars
    PROVE  DiskInv'
<1>0. /\ DiskInv /\ writer \in Writer /\ jsonl \in Seq(Exchange)
      /\ marker \in BOOLEAN /\ degraded \in BOOLEAN /\ torn \in BOOLEAN
      /\ next \in Nat
      /\ phase # "started" => writer.pc = "none"
      /\ writer.pc = "none" => phase # "started"
      /\ phase \in {"down", "open", "started"}
      /\ writer.pc \in HasExchange => writer.ex \in Exchange
  BY DEF IInv, TypeOK, Ownership, Construction
<1> USE DEF DiskInv, Synced, Appended
<1>1. CASE Open
  <2>1. writer'.pc = "none" /\ writer.pc = "none" /\ ~torn
    BY <1>0, <1>1 DEF Open, ResetMemory, NoWriter, Recoverable
  <2>2. next' = Len(jsonl) + 1 /\ records' = RecordsOf(jsonl) /\ index' = EventsIn(jsonl)
        /\ UNCHANGED <<jsonl, torn, marker, applied>> /\ degraded' = marker
    BY <1>1 DEF Open, history, EventsIn
  <2> QED
    BY <1>0, <2>1, <2>2
<1>2. CASE Crash
  <2>1. phase' = "down" /\ writer'.pc = "none" /\ UNCHANGED <<index, applied>>
    BY <1>2 DEF Crash, ResetMemory, NoWriter, history
  <2>2. ~marker' => ~torn' /\ applied = EventsOf(jsonl') /\ index = EventsIn(jsonl')
    BY <1>0, <1>2 DEF Crash, LeftOnDisk
  <2> QED
    BY <1>0, <2>1, <2>2
<1>3. CASE Start
  <2>1. writer'.pc = "setup" /\ writer.pc = "none"
    BY <1>0, <1>3 DEF Start, Writer
  <2> QED
    BY <1>0, <1>3, <2>1 DEF Start, disk, history
<1>4. CASE StartDegrades
  BY <1>0, <1>4 DEF StartDegrades, history
<1>5. ASSUME NEW to \in WriterSteps, Go(to)
      PROVE  writer'.pc = to /\ writer'.ex = writer.ex /\ writer'.p = writer.p
  BY <1>0, <1>5 DEF Go, Writer
<1>6. CASE SetupOk \/ WriterExits
  <2>1. /\ writer.pc \in {"setup", "poll"} /\ writer'.pc \in {"poll", "exited"}
        /\ UNCHANGED <<disk, memory, history>>
    BY <1>5, <1>6 DEF SetupOk, WriterExits, WriterSteps
  <2> QED
    BY <1>0, <2>1 DEF disk, memory, history
<1>7. CASE SetupFails
  <2>1. writer'.pc = "exited" /\ degraded'
    BY <1>5, <1>7 DEF SetupFails, WriterSteps
  <2>2. /\ UNCHANGED <<jsonl, torn, index, applied>>
        /\ marker' \in {marker, TRUE}
    BY <1>7 DEF SetupFails, history
  <2> QED
    BY <1>0, <2>1, <2>2
<1>8. CASE Take
  <2>1. writer'.pc = (IF degraded THEN "fail" ELSE "decide") /\ writer.pc = "poll"
    BY <1>8 DEF Take
  <2> QED
    BY <1>0, <1>8, <2>1 DEF Take, disk, history
<1>9. ASSUME NEW b \in Bodies, Decide(b) PROVE DiskInv'
  <2>1. writer'.pc = "mark" /\ writer'.ex.seq = next
    BY <1>0, <1>9 DEF Decide, Writer
  <2> QED
    BY <1>0, <1>9, <2>1 DEF Decide, disk, memory, history
<1>10. CASE Mark
  <2>1. writer'.pc = "append" /\ writer'.ex = writer.ex
    BY <1>5, <1>10 DEF Mark, WriterSteps
  <2> QED
    BY <1>0, <1>10, <2>1 DEF Mark, memory, history
<1>11. CASE AppendOk
  <2>1. writer'.pc = "project" /\ writer'.ex = writer.ex
    BY <1>5, <1>11 DEF AppendOk, WriterSteps
  <2>2. /\ Synced /\ marker /\ writer.ex \in Exchange
    BY <1>11, AppendFacts DEF AppendOk
  <2>3. jsonl' = Append(jsonl, writer.ex)
    BY <1>11, <2>2 DEF AppendOk, AppendLine
  <2>4. /\ jsonl' # <<>> /\ Len(jsonl') = Len(jsonl) + 1
        /\ RecordsOf(jsonl') = RecordsOf(jsonl) \cup {writer.ex}
        /\ EventsIn(jsonl') = EventsIn(jsonl) \cup {writer.ex.event}
        /\ EventsOf(jsonl') = Append(EventsOf(jsonl), writer.ex.event)
    BY <1>0, <2>2, <2>3, AppendRecord
  <2>5. UNCHANGED <<torn, marker, index, memory, applied>>
    BY <1>11 DEF AppendOk, history
  <2> QED
    BY <2>1, <2>2, <2>4, <2>5 DEF memory
<1>12. CASE Project
  <2>1. writer'.pc = "index" /\ writer'.ex = writer.ex
    BY <1>5, <1>12 DEF Project, WriterSteps
  <2> QED
    BY <1>0, <1>12, <2>1 DEF Project, disk, memory
<1>13. CASE ApplyIndex
  <2>1. writer'.pc = "clear" /\ writer'.ex = writer.ex
    BY <1>5, <1>13 DEF ApplyIndex, WriterSteps
  <2> QED
    BY <1>0, <1>13, <2>1 DEF ApplyIndex, memory, history
<1>14. CASE Clear
  <2>1. writer'.pc = "publish" /\ writer'.ex = writer.ex
    BY <1>5, <1>14 DEF Clear, WriterSteps
  <2> QED
    BY <1>0, <1>14, <2>1 DEF Clear, memory, history
<1>15. CASE Publish
  <2>1. writer'.pc = "answer"
    BY <1>5, <1>15 DEF Publish, WriterSteps
  <2> QED
    BY <1>0, <1>15, <2>1 DEF Publish, disk, history
<1>16. CASE Answer \/ Reject
  <2>1. /\ writer'.pc = "poll" /\ writer.pc \in {"answer", "reject"}
        /\ UNCHANGED <<disk, phase, degraded, records, next, history>>
    BY <1>5, <1>16 DEF Answer, Reject, Finish, WriterSteps
  <2> QED
    BY <1>0, <2>1 DEF disk, history
<1>17. CASE StepFails
  <2>1. writer'.pc = "fail"
    BY <1>5, <1>17 DEF StepFails, WriterSteps
  <2>2. ~marker' => ~torn' /\ applied = EventsOf(jsonl') /\ index = EventsIn(jsonl')
    BY <1>0, <1>17 DEF StepFails, LeftOnDisk
  <2> QED
    BY <1>17, <2>1, <2>2 DEF StepFails, history
<1>18. CASE Degrade
  <2>1. writer'.pc = "reject" /\ degraded'
    BY <1>5, <1>18 DEF Degrade, WriterSteps
  <2> QED
    BY <1>0, <1>18, <2>1 DEF Degrade, history
<1>19. ASSUME UNCHANGED <<disk, phase, degraded, records, next, applied, writer>>
       PROVE  DiskInv'
  BY <1>0, <1>19 DEF disk
<1>20. CASE StartReturns \/ StartTimesOut \/ Stop
  BY <1>19, <1>20 DEF StartReturns, StartTimesOut, Stop, memory, threads, history
<1>21. ASSUME NEW c \in Clients, NEW e \in Events, NEW d \in Digests,
              \/ SubmitPrior(c, e, d) \/ ResponseFor(c, e, d)
              \/ SubmitJoin(c, e, d) \/ SubmitFirst(c, e, d)
       PROVE  DiskInv'
  BY <1>19, <1>21
  DEF SubmitPrior, ResponseFor, SubmitJoin, SubmitFirst, memory, threads, history
<1>22. ASSUME NEW c \in Clients, Put(c) \/ PutRefused(c) \/ Receive(c) \/ WaitTimesOut(c)
       PROVE  DiskInv'
  BY <1>19, <1>22 DEF Put, PutRefused, Receive, WaitTimesOut, memory, history
<1>23. CASE UNCHANGED vars
  BY <1>19, <1>23 DEF vars, memory, threads, history
<1> QED
  BY <1>1, <1>2, <1>3, <1>4, <1>6, <1>7, <1>8, <1>9, <1>10, <1>11, <1>12, <1>13, <1>14,
     <1>15, <1>16, <1>17, <1>18, <1>20, <1>21, <1>22, <1>23
  DEF Next, Lifecycle, WriterStep, ClientStep

\* Answers keep coming from the file.
LEMMA AnswerStep ==
    ASSUME ShortWrites = FALSE, IInv, [Next]_vars
    PROVE  AnswerInv'
<1>0. /\ AnswerInv /\ writer \in Writer /\ jsonl \in Seq(Exchange)
      /\ pend \in Seq(Pending) /\ DOMAIN pend = 1..Len(pend)
      /\ Construction
      /\ writer.pc \in Busy => writer.p \in DOMAIN pend
      /\ \A c \in Clients : client[c].pc # "idle" =>
            client[c].p \in DOMAIN pend /\ pend[client[c].p].digest = client[c].asked
  BY DEF IInv, TypeOK, Ownership
<1>1. RecordsOf(jsonl) \subseteq RecordsOf(jsonl')
  <2>1. CASE writer.pc = "append" /\ jsonl' = Append(jsonl, writer.ex)
    <3>1. RecordsOf(Append(jsonl, writer.ex)) = RecordsOf(jsonl) \cup {writer.ex}
      BY <1>0, <2>1, AppendFacts, AppendRecord
    <3> QED
      BY <2>1, <3>1
  <2> QED
    BY <2>1, FileGrowth
<1> USE DEF AnswerInv
<1>2. ASSUME NEW to \in WriterSteps, Go(to)
      PROVE  writer'.pc = to /\ writer'.ex = writer.ex /\ writer'.p = writer.p
  BY <1>0, <1>2 DEF Go, Writer
<1>3. ASSUME writer'.pc # "answer", UNCHANGED <<pend, acked>>, records' \subseteq records
      PROVE  AnswerInv'
  BY <1>0, <1>1, <1>3
<1>4. CASE Open
  <2>1. writer'.pc = "none" /\ records' = RecordsOf(jsonl) /\ UNCHANGED <<jsonl, pend, acked>>
    BY <1>4 DEF Open, ResetMemory, NoWriter, history
  <2> QED
    BY <1>0, <2>1
<1>5. CASE Crash
  <2>1. writer'.pc = "none" /\ records' = {} /\ UNCHANGED <<pend, acked>>
    BY <1>5 DEF Crash, ResetMemory, NoWriter, history
  <2> QED
    BY <1>3, <2>1
<1>6. CASE Start
  <2>1. writer'.pc = "setup"
    BY <1>0, <1>6 DEF Start, Writer
  <2> QED
    BY <1>3, <1>6, <2>1 DEF Start, history
<1>7. CASE SetupOk \/ WriterExits \/ Mark \/ AppendOk
  <2>1. /\ writer'.pc \in {"poll", "exited", "append", "project"}
        /\ UNCHANGED <<pend, acked, records>>
    BY <1>2, <1>7
    DEF SetupOk, WriterExits, Mark, AppendOk, WriterSteps, memory, history
  <2> QED
    BY <1>3, <2>1
<1>8. CASE Project \/ ApplyIndex \/ Clear \/ StepFails \/ Degrade
  <2>1. /\ writer'.pc \in {"index", "clear", "publish", "fail", "reject"}
        /\ UNCHANGED <<pend, acked, records>>
    BY <1>2, <1>8
    DEF Project, ApplyIndex, Clear, StepFails, Degrade, WriterSteps, memory, history
  <2> QED
    BY <1>3, <2>1
<1>9. CASE SetupFails
  <2>1. writer'.pc = "exited" /\ UNCHANGED <<records, acked>>
    BY <1>2, <1>9 DEF SetupFails, WriterSteps, history
  <2>2. DOMAIN pend' = DOMAIN pend
    BY <1>9 DEF SetupFails
  <2>3. \A p \in DOMAIN pend : pend[p] \in Pending
    BY <1>0
  <2>4. \A p \in DOMAIN pend :
            pend'[p] = pend[p] \/ pend'[p] = [pend[p] EXCEPT !.result = "error"]
    BY <1>9 DEF SetupFails
  <2>5. \A p \in DOMAIN pend : pend'[p].result = "ok" => pend'[p] = pend[p]
    BY <2>3, <2>4 DEF Pending
  <2> QED
    BY <1>0, <1>1, <2>1, <2>2, <2>5
<1>10. CASE Take
  <2>1. writer'.pc # "answer"
    BY <1>10 DEF Take
  <2> QED
    BY <1>3, <1>10, <2>1 DEF Take, history
<1>11. ASSUME NEW b \in Bodies, Decide(b) PROVE AnswerInv'
  <2>1. writer'.pc = "mark"
    BY <1>0, <1>11 DEF Decide, Writer
  <2> QED
    BY <1>3, <1>11, <2>1 DEF Decide, memory, history
<1>12. CASE Publish
  <2>1. /\ writer'.pc = "answer" /\ writer'.ex = writer.ex
        /\ records' = records \cup {writer.ex}
        /\ UNCHANGED <<jsonl, pend, acked>>
    BY <1>2, <1>12 DEF Publish, WriterSteps, disk, history
  <2>2. writer.ex \in RecordsOf(jsonl)
    BY <1>12 DEF IInv, DiskInv, Appended, Publish
  <2> QED
    BY <1>0, <2>1, <2>2
<1>13. CASE Answer \/ Reject
  <2>1. \A p \in DOMAIN pend : pend[p] \in Pending
    BY <1>0
  <2>2. /\ writer'.pc = "poll" /\ UNCHANGED <<records, acked, jsonl>>
        /\ writer.p \in DOMAIN pend
    BY <1>0, <1>2, <1>13 DEF Answer, Reject, Finish, WriterSteps, disk, history, Busy
  <2>3. /\ DOMAIN pend' = DOMAIN pend
        /\ \A p \in DOMAIN pend : p # writer.p => pend'[p] = pend[p]
        /\ pend'[writer.p].digest = pend[writer.p].digest
        /\ pend'[writer.p].result = "ok" =>
              writer.pc = "answer" /\ pend'[writer.p].exchange = writer.ex
    BY <1>0, <1>13, <2>1, <2>2 DEF Answer, Reject, Finish, Pending
  <2>4. writer.pc = "answer" =>
            writer.ex \in RecordsOf(jsonl) /\ writer.ex.digest = pend[writer.p].digest
    BY <1>0 DEF Construction, HasExchange
  <2> QED
    BY <1>0, <2>2, <2>3, <2>4
<1>14. ASSUME NEW c \in Clients, NEW e \in Events, NEW d \in Digests,
              SubmitPrior(c, e, d) \/ ResponseFor(c, e, d)
       PROVE  AnswerInv'
  <2>1. UNCHANGED <<jsonl, records, pend, writer>>
    BY <1>14 DEF SubmitPrior, ResponseFor, disk, memory, threads
  <2>2. PICK r \in records : r.digest = d /\ acked' = acked \cup {[asked |-> d, exchange |-> r]}
    BY <1>14 DEF SubmitPrior, ResponseFor, Prior
  <2> QED
    BY <1>0, <2>1, <2>2
<1>15. ASSUME NEW c \in Clients, NEW e \in Events, NEW d \in Digests,
              SubmitFirst(c, e, d)
       PROVE  AnswerInv'
  <2>1. UNCHANGED <<jsonl, records, acked, writer>>
    BY <1>15 DEF SubmitFirst, disk, history
  <2>2. /\ DOMAIN pend' = DOMAIN pend \cup {Len(pend) + 1}
        /\ pend'[Len(pend) + 1].result = "waiting"
        /\ \A p \in DOMAIN pend : pend'[p] = pend[p]
    BY <1>0, <1>15 DEF SubmitFirst
  <2> QED
    BY <1>0, <2>1, <2>2
<1>16. ASSUME NEW c \in Clients, Receive(c)
       PROVE  AnswerInv'
  <2>1. UNCHANGED <<jsonl, records, pend, writer>>
    BY <1>16 DEF Receive, disk, memory
  <2>2. client[c].p \in DOMAIN pend /\ pend[client[c].p].digest = client[c].asked
    BY <1>0, <1>16 DEF Receive
  <2>3. \/ acked' = acked
        \/ /\ pend[client[c].p].result = "ok"
           /\ acked' = acked \cup {[asked    |-> client[c].asked,
                                    exchange |-> pend[client[c].p].exchange]}
    BY <1>16 DEF Receive
  <2> QED
    BY <1>0, <2>1, <2>2, <2>3
<1>17. ASSUME UNCHANGED <<records, pend, writer, acked>>
       PROVE  AnswerInv'
  BY <1>0, <1>1, <1>17
<1>18. CASE StartReturns \/ StartTimesOut \/ StartDegrades \/ Stop
  BY <1>17, <1>18
  DEF StartReturns, StartTimesOut, StartDegrades, Stop, memory, threads, history
<1>19. ASSUME NEW c \in Clients, NEW e \in Events, NEW d \in Digests,
              SubmitJoin(c, e, d)
       PROVE  AnswerInv'
  BY <1>17, <1>19 DEF SubmitJoin, memory, history
<1>20. ASSUME NEW c \in Clients, Put(c) \/ PutRefused(c) \/ WaitTimesOut(c)
       PROVE  AnswerInv'
  BY <1>17, <1>20 DEF Put, PutRefused, WaitTimesOut, memory, history
<1>21. CASE UNCHANGED vars
  BY <1>17, <1>21 DEF vars, memory, threads, history
<1> QED
  BY <1>4, <1>5, <1>6, <1>7, <1>8, <1>9, <1>10, <1>11, <1>12, <1>13, <1>14, <1>15,
     <1>16, <1>18, <1>19, <1>20, <1>21
  DEF Next, Lifecycle, WriterStep, ClientStep

------------------------------------------------------------------------------
\* IInv is an inductive invariant of the ledger.
THEOREM Inductive == ASSUME ShortWrites = FALSE PROVE Spec => []IInv
<1>1. Init => IInv
  <2> USE DEF Init, NoWriter, IdleClient
  <2>1. Init => TypeOK
    <3>1. NoWriter \in Writer /\ IdleClient \in Client
      BY DEF Writer, WriterSteps, Client, NoExchange
    <3>2. Init => /\ jsonl \in Seq(Exchange) /\ queue \in Seq(PendingIds)
                  /\ pend \in Seq(Pending) /\ Len(pend) <= MaxPendings
                  /\ applied \in Seq(Events) /\ next \in Nat \ {0}
      BY EmptySeq, LedgerAssumption
    <3>3. Init => /\ inflight \in [Events -> PendingIds \cup {0}]
                  /\ client \in [Clients -> Client]
      BY <3>1
    <3> HIDE DEF NoWriter, IdleClient
    <3> QED
      BY <3>1, <3>2, <3>3 DEF TypeOK
  <2>2. Init => Ownership /\ Construction /\ Unrecorded
    BY DEF Ownership, Construction, HasExchange, Unrecorded, Busy
  <2>3. Init => FileInv /\ DiskInv
    BY DEF FileInv, Contiguous, NoRepeatedEvent, DiskInv, Appended, EventsIn, EventsOf
  <2>4. Init => AnswerInv
    BY DEF AnswerInv
  <2> QED
    BY <2>1, <2>2, <2>3, <2>4 DEF IInv
<1>2. ASSUME IInv, [Next]_vars PROVE IInv'
  <2>1. TypeOK'
    BY <1>2, TypeStep
  <2> QED
    BY <1>2, <2>1, OwnershipStep, ConstructionStep, UnrecordedStep, FileStep,
       DiskStep, AnswerStep DEF IInv
<1> QED
  BY <1>1, <1>2, PTL DEF Spec

\* Every variable keeps its type.
THEOREM TypeCorrect == ASSUME ShortWrites = FALSE PROVE Spec => []TypeOK
<1>1. IInv => TypeOK
  BY DEF IInv
<1> QED
  BY <1>1, Inductive, PTL

\* Every response handed out stays in events.jsonl through every failure of a
\* disk step, crash and restart.
THEOREM Durability == ASSUME ShortWrites = FALSE PROVE Spec => []AckedSurvives
<1>1. IInv => AckedSurvives
  BY DEF IInv, AnswerInv, AckedSurvives
<1> QED
  BY <1>1, Inductive, PTL

\* A retry of an event receives the first response, and only for the first
\* digest.
THEOREM Idempotence == ASSUME ShortWrites = FALSE PROVE Spec => []RetryGetsFirstResponse
<1>1. IInv => RetryGetsFirstResponse
  BY DEF IInv, AnswerInv, FileInv, NoRepeatedEvent, RecordsOf, RetryGetsFirstResponse
<1> QED
  BY <1>1, Inductive, PTL

\* A file without a degradation marker holds projected exchanges only.
THEOREM CleanRestart == ASSUME ShortWrites = FALSE PROVE Spec => []CleanLedgerIsProjected
<1>1. IInv => CleanLedgerIsProjected
  BY DEF IInv, DiskInv, CleanLedgerIsProjected, EventsIn
<1> QED
  BY <1>1, Inductive, PTL

\* The answers grow by one record of the file at a time.
LEMMA AnswerGrowth ==
    ASSUME IInv, [Next]_vars
    PROVE  \/ UNCHANGED acked
           \/ /\ UNCHANGED jsonl
              /\ \E r \in RecordsOf(jsonl), d \in Digests :
                    acked' = acked \cup {[asked |-> d, exchange |-> r]}
<1>1. ASSUME NEW c \in Clients, NEW e \in Events, NEW d \in Digests,
             SubmitPrior(c, e, d) \/ ResponseFor(c, e, d)
      PROVE  /\ UNCHANGED jsonl
             /\ \E r \in RecordsOf(jsonl) :
                   acked' = acked \cup {[asked |-> d, exchange |-> r]}
  BY <1>1 DEF SubmitPrior, ResponseFor, Prior, IInv, AnswerInv, disk
<1>2. ASSUME NEW c \in Clients, Receive(c)
      PROVE  \/ UNCHANGED acked
             \/ /\ UNCHANGED jsonl
                /\ \E r \in RecordsOf(jsonl), d \in Digests :
                      acked' = acked \cup {[asked |-> d, exchange |-> r]}
  <2>1. client[c].p \in DOMAIN pend /\ pend[client[c].p].digest = client[c].asked
    BY <1>2 DEF IInv, Ownership, Receive
  <2>2. pend[client[c].p] \in Pending
    BY <2>1 DEF IInv, TypeOK
  <2>3. client[c].asked \in Digests
    BY <2>1, <2>2 DEF Pending
  <2>4. pend[client[c].p].result = "ok" => pend[client[c].p].exchange \in RecordsOf(jsonl)
    BY <2>1 DEF IInv, AnswerInv
  <2>5. UNCHANGED jsonl
    BY <1>2 DEF Receive, disk
  <2> QED
    BY <1>2, <2>3, <2>4, <2>5 DEF Receive
<1>3. CASE Lifecycle
  BY <1>3
  DEF Lifecycle, Open, Start, StartReturns, StartTimesOut, StartDegrades, Stop, Crash,
      history
<1>4. CASE WriterStep
  BY <1>4
  DEF WriterStep, SetupOk, SetupFails, WriterExits, Take, Decide, Mark, AppendOk,
      Project, ApplyIndex, Clear, Publish, Answer, Reject, Finish, StepFails,
      Degrade, history
<1>5. ASSUME NEW c \in Clients, NEW e \in Events, NEW d \in Digests,
             SubmitJoin(c, e, d) \/ SubmitFirst(c, e, d)
      PROVE  UNCHANGED acked
  BY <1>5 DEF SubmitJoin, SubmitFirst, history
<1>6. ASSUME NEW c \in Clients, Put(c) \/ PutRefused(c) \/ WaitTimesOut(c)
      PROVE  UNCHANGED acked
  BY <1>6 DEF Put, PutRefused, WaitTimesOut, history
<1>7. CASE UNCHANGED vars
  BY <1>7 DEF vars, history
<1> QED
  BY <1>1, <1>2, <1>3, <1>4, <1>5, <1>6, <1>7 DEF Next, ClientStep

\* The writer's steps leave the answers alone when the file grows.
LEMMA GrowthSilent ==
    ASSUME ShortWrites = FALSE, IInv, [Next]_vars, jsonl' # jsonl
    PROVE  UNCHANGED acked
BY AnswerGrowth

\* The ledger implements the append-only log of ResponseLog.
THEOREM Refinement == ASSUME ShortWrites = FALSE PROVE Spec => ImplementsResponseLog
<1> DEFINE Given == {a.exchange : a \in acked}
<1>1. Init => Log!Init
  BY DEF Init, Log!Init
<1>2. ASSUME IInv, [Next]_vars
      PROVE  Log!Next \/ UNCHANGED <<jsonl, Given>>
  <2>1. CASE UNCHANGED <<jsonl, acked>>
    BY <2>1
  <2>2. CASE jsonl' # jsonl
    <3>1. writer.pc = "append" /\ jsonl' = Append(jsonl, writer.ex)
      BY <1>2, <2>2, FileGrowth
    <3>2. /\ writer.ex \in Exchange /\ writer.ex.seq = Len(jsonl) + 1
          /\ writer.ex.event \notin EventsIn(jsonl)
      BY <1>2, <3>1, AppendFacts
    <3>3. /\ writer.ex.event \in Events /\ writer.ex.digest \in Digests
          /\ writer.ex.body \in Bodies
          /\ writer.ex = [seq |-> Len(jsonl) + 1, event |-> writer.ex.event,
                          digest |-> writer.ex.digest, body |-> writer.ex.body]
      BY <3>2 DEF Exchange
    <3>4. Log!Record(writer.ex.event, writer.ex.digest, writer.ex.body)
      BY <1>2, <2>2, <3>1, <3>2, <3>3, GrowthSilent DEF Log!Record, EventsIn
    <3> QED
      BY <3>3, <3>4 DEF Log!Next
  <2>3. CASE jsonl' = jsonl /\ acked' # acked
    <3>1. PICK r \in RecordsOf(jsonl), d \in Digests :
              acked' = acked \cup {[asked |-> d, exchange |-> r]}
      BY <1>2, <2>3, AnswerGrowth
    <3>2. PICK i \in DOMAIN jsonl : r = jsonl[i]
      BY DEF RecordsOf
    <3>3. Given' = Given \cup {jsonl[i]}
      <4> DEFINE new == [asked |-> d, exchange |-> r]
      <4>1. new.exchange = jsonl[i]
        BY <3>2
      <4>2. acked' = acked \cup {new}
        BY <3>1
      <4> HIDE DEF new
      <4> QED
        BY <4>1, <4>2
    <3>4. Log!Give(i)
      BY <2>3, <3>2, <3>3 DEF Log!Give
    <3> QED
      BY <3>4 DEF Log!Next
  <2> QED
    BY <2>1, <2>2, <2>3
<1> QED
  BY <1>1, <1>2, Inductive, PTL DEF Spec, ImplementsResponseLog, Log!Spec
==============================================================================
