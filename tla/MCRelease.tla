------------------------------ MODULE MCRelease ------------------------------
(* What stands before a release, checked side by side: the sealed fixture and *)
(* its re-seal, the host and guest commands of the one paid Mission, and the  *)
(* controller that watches it.  The three share no state: a behaviour is one  *)
(* of one of them and the others stay as they began.                          *)
EXTENDS FixtureReseal, LiveRun, LiveGate, TLC

VARIABLE part

Alike == Permutations(Operators) \cup Permutations(Surfaces)

\* The parts that do not look at the fixture start from one of its states.
Init == /\ ResealInit /\ LiveRunInit /\ GateInit
        /\ part \in {"reseal", "run", "gate"}
        /\ part # "reseal" => Sealed(surface) = canonical
Next == /\ UNCHANGED part
        /\ \/ part = "reseal" /\ ResealNext /\ UNCHANGED <<liveRunVars, gateVars>>
           \/ part = "run" /\ LiveRunNext /\ UNCHANGED <<resealVars, gateVars>>
           \/ part = "gate" /\ GateNext /\ UNCHANGED <<resealVars, liveRunVars>>
vars == <<part, resealVars, liveRunVars, gateVars>>
Spec == Init /\ [][Next]_vars
==============================================================================
