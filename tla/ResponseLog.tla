----------------------------- MODULE ResponseLog -----------------------------
(***************************************************************************)
(* What the event ledger of a run promises to its callers: a log that only *)
(* grows, numbered from 1, with at most one record per event, and answers  *)
(* taken from the log.  EventLedger implements it.                         *)
(***************************************************************************)
EXTENDS Naturals, Sequences

CONSTANTS Events, Digests, Bodies

VARIABLES
    log,     \* the recorded exchanges, oldest first
    given    \* the exchanges whose response a caller received

Init == log = <<>> /\ given = {}

\* The first decision for an event is the only one.
Record(e, d, b) ==
    /\ \A i \in DOMAIN log : log[i].event # e
    /\ log' = Append(log, [seq |-> Len(log) + 1, event |-> e, digest |-> d, body |-> b])
    /\ UNCHANGED given

\* Callers receive recorded exchanges.
Give(i) ==
    /\ i \in DOMAIN log
    /\ given' = given \cup {log[i]}
    /\ UNCHANGED log

Next ==
    \/ \E e \in Events, d \in Digests, b \in Bodies : Record(e, d, b)
    \/ \E i \in DOMAIN log : Give(i)

Spec == Init /\ [][Next]_<<log, given>>
==============================================================================
