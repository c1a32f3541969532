---------------------------- MODULE FixtureReseal ----------------------------
(***************************************************************************)
(* The re-seal of the feasibility fixture (ops/reseal_feasibility.py).     *)
(* Three files are replaced one after the other: the Factory profile, the  *)
(* manifest that holds its digest, the pin that holds the manifest's.      *)
(* prepare writes a candidate with a request, somebody signs it elsewhere, *)
(* apply replaces the files and leaves a receipt.  No lock is held; a      *)
(* process may be killed, or the machine go down, between any two steps,   *)
(* and apply may be run again with the same request.                       *)
(*                                                                         *)
(* A profile is named by the surface (gate and plugin digests) it binds, a *)
(* manifest by the profile it lists, a pin by the manifest it names: three *)
(* equal values are a sealed fixture.                                      *)
(***************************************************************************)
EXTENDS Naturals, FiniteSets, Sequences

CONSTANTS
    Operators,    \* processes that run the tool
    Surfaces,     \* what the bindings measured in the project can be
    Receipts,     \* paths a receipt may be written to
    NoReceipt,
    VALID_FOR,    \* valid_for_seconds
    MaxTime, MaxEdits, MaxRequests, MaxCrashes

ASSUME ResealAssumption ==
    /\ VALID_FOR \in Nat \ {0} /\ {MaxTime, MaxEdits, MaxRequests, MaxCrashes} \subseteq Nat
    /\ NoReceipt \notin Receipts \cup [request : Nat, applied : Nat, links : Nat, synced : BOOLEAN]

VARIABLES
    surface,   \* the bindings the project has now
    now, edits, crashes,
    canonical, \* the three files, as a process reads them
    durable,   \* the three files, as far as a directory entry was synced
    requests,  \* the requests prepared: transition, interval, candidate, signature
    receipts,  \* each path: no receipt, or its request, time, links, is it synced
    op,        \* each operator: the command in progress and its local variables
    overlapped,\* history: two requests were being applied at once
    unsynced,  \* history: apply began on files of which one was not synced
    reached    \* history: surfaces the files on disk were sealed with

outside == <<surface, now, edits>>
history == <<overlapped, unsynced, reached>>
resealVars == <<outside, crashes, canonical, durable, requests, receipts, op, history>>

------------------------------------------------------------------------------
Files == <<"profile", "manifest", "pin">>
State(p, m, n) == [profile |-> p, manifest |-> m, pin |-> n]
Sealed(s) == State(s, s, s)
IdleOp == [pc |-> "idle", request |-> 0, receipt |-> NoReceipt,
           seen |-> <<>>, next |-> 0, applied |-> 0, to |-> 0, returned |-> {}]

ResealInit ==
    /\ surface \in Surfaces /\ now = 0 /\ edits = 0 /\ crashes = 0
    /\ \E s \in Surfaces : canonical = Sealed(s) /\ durable = Sealed(s) /\ reached = {s}
    /\ requests = <<>> /\ receipts = [c \in Receipts |-> NoReceipt]
    /\ op = [o \in Operators |-> IdleOp] /\ overlapped = FALSE /\ unsynced = FALSE

\* The project changes, time passes, the signer signs.
Edit(s) ==
    /\ edits < MaxEdits /\ s # surface /\ surface' = s /\ edits' = edits + 1
    /\ UNCHANGED <<now, crashes, canonical, durable, requests, receipts, op, history>>

Pass == /\ now < MaxTime /\ now' = now + 1
        /\ UNCHANGED <<surface, edits, crashes, canonical, durable, requests, receipts, op, history>>

Sign(r) ==
    /\ requests[r].candidate = "whole" /\ ~requests[r].signed
    /\ requests' = [requests EXCEPT ![r].signed = TRUE]
    /\ UNCHANGED <<outside, crashes, canonical, durable, receipts, op, history>>

------------------------------------------------------------------------------
Turn(o, pc) == op' = [op EXCEPT ![o].pc = pc]
Refuse(o) == op' = [op EXCEPT ![o] = [IdleOp EXCEPT !.returned = op[o].returned]]
Quiet == UNCHANGED <<outside, crashes, canonical, durable, receipts, history>>
Looks == Quiet /\ UNCHANGED requests

\* prepare_reseal: the pin, the whole fixture against it, then the profile
\* and the manifest once more, which must still agree with the pin.
PrepareReadsPin(o) ==
    /\ op[o].pc = "idle" /\ Len(requests) < MaxRequests
    /\ op' = [op EXCEPT ![o].pc = "verify", ![o].seen = <<canonical.pin>>] /\ Looks

PrepareVerifies(o) ==
    /\ op[o].pc = "verify" /\ Looks
    /\ IF canonical.manifest = op[o].seen[1] /\ canonical.profile = canonical.manifest
       THEN Turn(o, "profile") ELSE Refuse(o)

PrepareReadsProfile(o) ==
    /\ op[o].pc = "profile" /\ Looks
    /\ op' = [op EXCEPT ![o].pc = "manifest", ![o].seen = Append(@, canonical.profile)]

PrepareReadsManifest(o) ==
    /\ op[o].pc = "manifest" /\ Looks
    /\ IF canonical.manifest = op[o].seen[1] /\ canonical.manifest = op[o].seen[2]
       THEN Turn(o, "measure") ELSE Refuse(o)

\* The successor binds the surface the project has; it must differ.
PrepareDerives(o) ==
    /\ op[o].pc = "measure" /\ Looks
    /\ IF surface = op[o].seen[1] THEN Refuse(o)
       ELSE op' = [op EXCEPT ![o].pc = "create", ![o].to = surface, ![o].applied = now]

\* _create_candidate: a directory that fills up, or is removed.
PrepareBegins(o) ==
    /\ op[o].pc = "create" /\ Len(requests) < MaxRequests /\ Quiet
    /\ requests' = Append(requests,
          [from |-> op[o].seen[1], to |-> op[o].to, created |-> op[o].applied,
           expires |-> op[o].applied + VALID_FOR, candidate |-> "partial", signed |-> FALSE])
    /\ op' = [op EXCEPT ![o].pc = "fill", ![o].request = Len(requests) + 1]

PrepareEnds(o) ==
    /\ op[o].pc = "fill" /\ Quiet /\ Refuse(o)
    /\ \E end \in {"whole", "gone"} : requests' = [requests EXCEPT ![op[o].request].candidate = end]

PrepareReseal(o) ==
    \/ PrepareReadsPin(o) \/ PrepareVerifies(o) \/ PrepareReadsProfile(o)
    \/ PrepareReadsManifest(o) \/ PrepareDerives(o) \/ PrepareBegins(o) \/ PrepareEnds(o)

------------------------------------------------------------------------------
(* apply_reseal                                                             *)
Req(o) == requests[op[o].request]
Prefix(r, n) == State(IF n >= 1 THEN r.to ELSE r.from,
                      IF n >= 2 THEN r.to ELSE r.from, IF n = 3 THEN r.to ELSE r.from)
Standings(r) == {Prefix(r, n) : n \in 0 .. 3}
Index(r, s) == CHOOSE n \in 0 .. 3 : Prefix(r, n) = s
Timely(r, t) == r.created <= t /\ t < r.expires
CandidateAccepted(r) == r.candidate = "whole" /\ r.signed /\ r.to = surface

\* _preflight: the candidate, its signature, the bindings measured now.
Applying(o) == op[o].receipt # NoReceipt
ApplyLoads(o, r, c) ==
    /\ op[o].pc = "idle" /\ CandidateAccepted(requests[r])
    /\ overlapped' = (overlapped \/ \E other \in Operators : Applying(other) /\ op[other].request # r)
    /\ UNCHANGED <<outside, crashes, canonical, durable, requests, receipts, unsynced, reached>>
    /\ op' = [op EXCEPT ![o].pc = "read", ![o].request = r, ![o].receipt = c, ![o].seen = <<>>]

\* _read_canonical_state: three reads, before the transaction and after it.
Reads(o, pc, next) ==
    /\ op[o].pc = pc /\ Looks
    /\ op' = [op EXCEPT ![o].seen = Append(@, canonical[Files[Len(op[o].seen) + 1]]),
                        ![o].pc = IF Len(op[o].seen) = 2 THEN next ELSE pc]
Found(o) == State(op[o].seen[1], op[o].seen[2], op[o].seen[3])

\* The receipt is not there, the request is in its interval, the files are a
\* prefix of the transaction; a transaction not begun needs a sealed fixture.
ApplyClassifies(o) ==
    /\ op[o].pc = "classify"
    /\ IF /\ receipts[op[o].receipt] = NoReceipt /\ Timely(Req(o), now) /\ Found(o) \in Standings(Req(o))
          /\ Found(o) = Sealed(Req(o).from) =>
                canonical.manifest = Req(o).from /\ canonical.profile = Req(o).from
       THEN /\ op' = [op EXCEPT ![o].pc = "stage", ![o].next = Index(Req(o), Found(o)) + 1]
            /\ unsynced' = (unsynced \/ durable # canonical)
       ELSE Refuse(o) /\ UNCHANGED unsynced
    /\ UNCHANGED <<outside, crashes, canonical, durable, requests, receipts, overlapped, reached>>

\* The staged dry run, then the time of the application, still in the interval.
Commits(o) == IF op[o].next > 3 THEN "back" ELSE "check"
\* Variant: the time of the application is taken and not compared again.
ApplyStages_Late(o) ==
    /\ op[o].pc = "stage" /\ Looks
    /\ IF surface = Req(o).to
       THEN op' = [op EXCEPT ![o].pc = Commits(o), ![o].applied = now, ![o].seen = <<>>]
       ELSE Refuse(o)
ApplyStages(o) ==
    /\ op[o].pc = "stage" /\ Looks
    /\ IF surface = Req(o).to /\ Timely(Req(o), now)
       THEN op' = [op EXCEPT ![o].pc = Commits(o), ![o].applied = now, ![o].seen = <<>>]
       ELSE Refuse(o)

\* _durable_replace: the file is as expected, is replaced, its directory is
\* synced; a file of the fixture has the directory above synced as well.
ApplyChecks(o) ==
    /\ op[o].pc = "check" /\ Looks
    /\ IF canonical[Files[op[o].next]] = Req(o).from THEN Turn(o, "replace") ELSE Refuse(o)

ApplyReplaces(o) ==
    /\ op[o].pc = "replace" /\ Turn(o, "sync")
    /\ canonical' = [canonical EXCEPT ![Files[op[o].next]] = Req(o).to]
    /\ UNCHANGED <<outside, crashes, durable, requests, receipts, history>>

\* Variant: the directories are not synced.
Synced_Nothing(o) == durable
\* Variant: a file of the fixture has only the directory above synced.
Synced_ParentOnly(o) == [durable EXCEPT !.pin = canonical.pin]
Synced(o) == IF op[o].next = 3 THEN [durable EXCEPT !.pin = canonical.pin] ELSE canonical
ApplySyncs(o) ==
    /\ op[o].pc = "sync" /\ durable' = Synced(o)
    /\ reached' = reached \cup {s \in Surfaces : durable' = Sealed(s)}
    /\ op' = [op EXCEPT ![o].next = @ + 1, ![o].pc = IF op[o].next = 3 THEN "back" ELSE "check"]
    /\ UNCHANGED <<outside, crashes, canonical, requests, receipts, overlapped, unsynced>>

\* The files read back are the successor, and an ordinary dry run passes.
ApplyConfirms(o) ==
    /\ op[o].pc = "confirm" /\ Looks
    /\ IF Found(o) = Sealed(Req(o).to) /\ canonical = Sealed(Req(o).to) /\ surface = Req(o).to
       THEN Turn(o, "link") ELSE Refuse(o)

\* _write_receipt: a temporary file, synced, gets the receipt's name, loses
\* its own, and the directory is synced.
ApplyLinks(o) ==
    /\ op[o].pc = "link"
    /\ IF receipts[op[o].receipt] = NoReceipt
       THEN /\ receipts' = [receipts EXCEPT ![op[o].receipt] =
                  [request |-> op[o].request, applied |-> op[o].applied, links |-> 2, synced |-> FALSE]]
            /\ Turn(o, "unlink")
       ELSE Refuse(o) /\ UNCHANGED receipts
    /\ UNCHANGED <<outside, crashes, canonical, durable, requests, history>>

ApplyUnlinks(o) ==
    /\ op[o].pc = "unlink" /\ Turn(o, "return")
    /\ receipts' = [receipts EXCEPT ![op[o].receipt].links = 1]
    /\ UNCHANGED <<outside, crashes, canonical, durable, requests, history>>

ApplyReturns(o) ==
    /\ op[o].pc = "return"
    /\ receipts' = [receipts EXCEPT ![op[o].receipt].synced = TRUE]
    /\ op' = [op EXCEPT ![o] = [IdleOp EXCEPT !.returned = op[o].returned \cup {op[o].receipt}]]
    /\ UNCHANGED <<outside, crashes, canonical, durable, requests, history>>

Apply(o) ==
    \/ \E r \in 1 .. Len(requests), c \in Receipts : ApplyLoads(o, r, c)
    \/ Reads(o, "read", "classify") \/ ApplyClassifies(o) \/ ApplyStages(o)
    \/ ApplyChecks(o) \/ ApplyReplaces(o) \/ ApplySyncs(o) \/ Reads(o, "back", "confirm")
    \/ ApplyConfirms(o) \/ ApplyLinks(o) \/ ApplyUnlinks(o) \/ ApplyReturns(o)

\* verify_reseal, at one moment.
VerifyAccepts(r, c) ==
    /\ CandidateAccepted(requests[r]) /\ requests[r].created <= now
    /\ canonical = Sealed(requests[r].to)
    /\ receipts[c] # NoReceipt /\ receipts[c].links = 1
    /\ receipts[c].request = r /\ Timely(requests[r], receipts[c].applied)

------------------------------------------------------------------------------
(* A step fails: a candidate or a receipt's temporary file is cleaned up,   *)
(* replaced files stay.  A kill cleans nothing up.  When the machine goes   *)
(* down, what was not synced may be there or not, file by file.             *)
Busy(o) == op[o].pc \notin {"idle", "fill"}
Fail(o) ==
    /\ Busy(o) /\ crashes < MaxCrashes /\ crashes' = crashes + 1 /\ Refuse(o)
    /\ receipts' = IF op[o].pc = "unlink" THEN [receipts EXCEPT ![op[o].receipt].links = 1] ELSE receipts
    /\ UNCHANGED <<outside, canonical, durable, requests, history>>

Kill(o) ==
    /\ op[o].pc \in {"fill", "unlink"} /\ crashes < MaxCrashes /\ crashes' = crashes + 1 /\ Refuse(o)
    /\ UNCHANGED <<outside, canonical, durable, requests, receipts, history>>

PowerLoss ==
    /\ crashes < MaxCrashes /\ crashes' = crashes + 1
    /\ \E lost \in SUBSET {f \in DOMAIN canonical : canonical[f] # durable[f]} :
          canonical' = [f \in DOMAIN canonical |-> IF f \in lost THEN durable[f] ELSE canonical[f]]
    /\ durable' = canonical'
    /\ reached' = reached \cup {s \in Surfaces : durable' = Sealed(s)}
    /\ \E gone \in SUBSET {c \in Receipts : receipts[c] # NoReceipt /\ ~receipts[c].synced} :
          receipts' = [c \in Receipts |-> IF c \in gone THEN NoReceipt ELSE
                        IF receipts[c] = NoReceipt THEN NoReceipt ELSE [receipts[c] EXCEPT !.synced = TRUE]]
    /\ op' = [o \in Operators |-> [IdleOp EXCEPT !.returned = op[o].returned]]
    /\ UNCHANGED <<outside, requests, overlapped, unsynced>>

ResealNext ==
    \/ \E s \in Surfaces : Edit(s)
    \/ Pass \/ PowerLoss
    \/ \E r \in 1 .. Len(requests) : Sign(r)
    \/ \E o \in Operators : PrepareReseal(o) \/ Apply(o) \/ Fail(o) \/ Kill(o)
ResealSpec == ResealInit /\ [][ResealNext]_resealVars

------------------------------------------------------------------------------
ResealTypeOK ==
    /\ surface \in Surfaces /\ \A f \in DOMAIN canonical : {canonical[f], durable[f]} \subseteq Surfaces
    /\ \A o \in Operators : op[o].next \in 0 .. 4 /\ Len(op[o].seen) <= 3
    /\ \A c \in Receipts : receipts[c] # NoReceipt => receipts[c].request \in 1 .. Len(requests)

\* Whatever was killed, failed or lost, the fixture is sealed or stands at a
\* prefix of a signed request, from which apply can go on; unless two requests
\* were being applied at once (no lock is held, the three files are read one by
\* one, and a digest does not tell that a file changed and changed back) or
\* apply began on files of which one was not synced (a killed apply leaves it
\* so, and the next one only syncs what it replaces itself).
Resumable(files) ==
    \/ \E s \in Surfaces : files = Sealed(s)
    \/ \E r \in 1 .. Len(requests) : requests[r].signed /\ files \in Standings(requests[r])
FixtureResumable == ~overlapped /\ ~unsynced => Resumable(canonical) /\ Resumable(durable)
FixtureResumes == ResealTypeOK /\ FixtureResumable

\* A receipt that is there to stay says that its successor was sealed on disk.
ReceiptMeansDurable ==
    \A c \in Receipts :
        receipts[c] # NoReceipt /\ receipts[c].synced /\ ~overlapped /\ ~unsynced
            => requests[receipts[c].request].to \in reached

\* What apply returned as applied can be verified for as long as nobody
\* changes the project or the fixture, also when the request has expired.
ReturnedMeansVerifiable ==
    \A o \in Operators :
        \A c \in op[o].returned :
            LET r == receipts[c].request
            IN surface = requests[r].to /\ canonical = Sealed(requests[r].to) => VerifyAccepts(r, c)
==============================================================================
