--------------------------- MODULE MCHookCollector ---------------------------
(* Values for the model checker. *)
EXTENDS HookCollector, TLC

Req(e, s, d, t, n) == [event |-> e, session |-> s, digest |-> d, transcript |-> t, nonce |-> n]

\* An event, its retry, its event identifier with other content, the events of two other
\* sessions, one that claims the first session's transcript, and a malformed body.
Mixed ==
    {Req("e1", "s1", "d1", "t1", "n1"), Req("e1", "s1", "d1", "t1", "n2"),
     Req("e1", "s1", "d2", "t1", "n3"), Req("e2", "s2", "d3", "t2", "n4"),
     Req("e3", "s3", "d4", "t3", "n7"), Req("e3", "s3", "d5", "t1", "n5"),
     Req("e1", "s1", "bad", "t1", "n6")}
Bad == {"bad"}
AnyOrder == Permutations(Connections)
==============================================================================
