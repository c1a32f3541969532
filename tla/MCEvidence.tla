------------------------------ MODULE MCEvidence ------------------------------
(* What the review of a Mission rests on, checked side by side: which         *)
(* sessions are its own, and what their transcripts say.  The two share no    *)
(* state: a behaviour is one of one of them and the other stays as it began.  *)
EXTENDS MissionRelations, TranscriptReader, TLC

VARIABLE part

InOrder == [f \in Features |-> IF f = "f1" THEN 1 ELSE 2]
TwoPlan == [w \in Workers |-> IF w = "w1" THEN "f1" ELSE "f2"]
Line(k, u, n) == [kind |-> k, use |-> u, size |-> n]
FourLines == {Line("text", 0, 2), Line("text", 0, 4), Line("use", 1, 1), Line("result", 1, 1)}
Alike == Permutations(Aliases)

Init == RelationsInit /\ ReaderInit /\ part \in {"relations", "transcripts"}
Next == /\ UNCHANGED part
        /\ \/ part = "relations" /\ RelationsNext /\ UNCHANGED readerVars
           \/ part = "transcripts" /\ ReaderNext /\ UNCHANGED relationVars
Spec == Init /\ [][Next]_<<part, relationVars, readerVars>>

\* AdmittedNeverQuarantined and EveryLineOnce, each in a state of the right type.
AdmittedStay == RelationsTypeOK /\ AdmittedNeverQuarantined
LinesReadOnce == ReaderTypeOK /\ EveryLineOnce
===============================================================================
