----------------------------- MODULE MCMission -----------------------------
(* Values for the model checker. *)
EXTENDS MissionFinalization, TLC

P(a, c) == [auth |-> a, count |-> c]

\* The first live run after the two historical ones, once more under another
\* authorization, and the second one.
Approved == {P("a1", 2), P("a2", 2), P("a2", 3)}
AllFaults == {"preflight", "setup", "disk", "spawn", "capture", "check", "orphans", "stubborn", "slow",
              "teardown", "unlink", "git", "crash", "export", "discovery", "vm",
              "foreign"}
Swap == Permutations(Runs)
==============================================================================
