---------------------------- MODULE ReleaseProofs ----------------------------
(***************************************************************************)
(* Theorems about what stands before a release: FixtureReseal, LiveRun and *)
(* LiveGate, which share no state, one after the other.                    *)
(***************************************************************************)
EXTENDS FixtureReseal, LiveRun, LiveGate, SequenceTheorems, TLAPS

(***************************************************************************)
(* Theorems about FixtureReseal, for any number of operators, surfaces and *)
(* receipts and any validity of a request.                                 *)
(*                                                                         *)
(* Three files are replaced one after the other and no lock is held. While *)
(* no two transactions overlap and none began behind a file that is not on *)
(* disk (Quieted), the disk stands at a prefix of one signed request and   *)
(* the readers are one file ahead of it at most (Adjacent); an operator at *)
(* work has replaced and synced every file before its own (Proceeds),      *)
(* although what it saw may be older than that (Glimpsed). A receipt is    *)
(* then written only for a successor that was reached (Filed), and what    *)
(* apply returned is a receipt with one name that is synced (Writes).      *)
(***************************************************************************)

\* Where prepare is; where apply reads, replaces and ends.
Pcs == {"idle", "verify", "profile", "manifest", "measure", "create", "fill"}
Reading == {"read", "classify"}
Replacing == {"stage", "check", "replace", "sync"}
Ending == {"back", "confirm", "link", "unlink", "return"}

Request == [from : Surfaces, to : Surfaces, created : Nat, expires : Nat,
            candidate : {"partial", "whole", "gone"}, signed : BOOLEAN]
Receipt == [request : Nat, applied : Nat, links : {1, 2}, synced : BOOLEAN]
FileSet == [profile : Surfaces, manifest : Surfaces, pin : Surfaces]
OpSet == [pc : Pcs \cup Reading \cup Replacing \cup Ending, request : Nat,
             receipt : Receipts \cup {NoReceipt}, seen : Seq(Surfaces), next : 0 .. 4,
             applied : Nat, to : Surfaces \cup {0}, returned : SUBSET Receipts]
Types ==
    /\ surface \in Surfaces /\ now \in Nat /\ canonical \in FileSet /\ durable \in FileSet
    /\ requests \in Seq(Request) /\ receipts \in [Receipts -> Receipt \cup {NoReceipt}]
    /\ op \in [Operators -> OpSet] /\ overlapped \in BOOLEAN /\ unsynced \in BOOLEAN

Quieted == ~overlapped /\ ~unsynced

\* The disk is at a prefix of the transaction, the readers at most one file ahead.
Adjacent(r) == \E m, n \in 0 .. 3 : n \in {m, m + 1} /\ durable = Prefix(r, m)
                  /\ canonical = Prefix(r, n)
Standing ==
    \/ \E s \in Surfaces : canonical = Sealed(s) /\ durable = Sealed(s)
    \/ \E i \in 1 .. Len(requests) : requests[i].signed /\ Adjacent(requests[i])

\* The files before the k-th are those of the successor.
Done(fs, r, k) == /\ k >= 2 => fs.profile = r.to
                  /\ k >= 3 => fs.manifest = r.to
                  /\ k >= 4 => fs.pin = r.to

\* How many files an operator has read by now.
Looked(v) ==
    /\ v.pc \in {"verify", "profile"} => Len(v.seen) = 1
    /\ v.pc \in {"manifest", "measure", "create"} => Len(v.seen) = 2
    /\ v.pc \in {"read", "back"} => Len(v.seen) <= 2
    /\ v.pc \in {"classify", "confirm"} => Len(v.seen) = 3
    /\ v.pc \in {"check", "replace", "sync"} => Len(v.seen) = 0
    /\ Len(v.seen) <= 3 /\ v.applied <= now
    /\ v.pc = "create" => v.to # v.seen[1] /\ v.to \in Surfaces

\* An operator at a request has it: partly made and its own, or whole, signed and timely.
Owns(v) ==
    /\ (v.receipt = NoReceipt) = (v.pc \in Pcs)
    /\ v.pc = "fill" => v.request \in 1 .. Len(requests)
       /\ requests[v.request].candidate = "partial"
    /\ v.pc \notin Pcs => /\ v.request \in 1 .. Len(requests)
                          /\ requests[v.request].candidate = "whole"
                          /\ requests[v.request].signed
    /\ v.pc \in Replacing => v.next \in 1 .. 4 /\ (v.pc # "stage" => v.next # 4)
    /\ v.pc \in (Replacing \ {"stage"}) \cup Ending => Timely(requests[v.request], v.applied)

\* What an operator saw of the files is so still, or somebody has replaced them
\* since in the transaction it is at, too.
Glimpsed(v) ==
    \/ \A j \in 1 .. Len(v.seen) : v.seen[j] = canonical[Files[j]]
    \/ /\ canonical \in Standings(requests[v.request])
       /\ \A j \in 1 .. Len(v.seen) : v.seen[j] \in {canonical[Files[j]],
             requests[v.request].from}

\* An operator that replaces files has replaced, and synced, those before.
Proceeds(v) ==
    /\ v.pc \in Reading => Glimpsed(v)
    /\ v.pc \in Replacing => /\ Adjacent(requests[v.request])
                             /\ Done(canonical, requests[v.request], v.next)
                             /\ Done(durable, requests[v.request], v.next)
    /\ v.pc = "sync" => Done(canonical, requests[v.request], v.next + 1)
    /\ v.pc \in Ending => requests[v.request].to \in reached

\* The receipt an operator writes names its request; those it returned are to stay.
Writes(v) ==
    /\ v.pc \in {"unlink", "return"} =>
         /\ receipts[v.receipt] # NoReceipt
         /\ receipts[v.receipt].request = v.request /\ receipts[v.receipt].applied = v.applied
    /\ v.pc = "return" => receipts[v.receipt].links = 1
    /\ \A c \in v.returned : receipts[c] # NoReceipt /\ receipts[c].synced
       /\ receipts[c].links = 1

\* A receipt stands for a request that was signed, and applied in time.
Filed(c) ==
    receipts[c] # NoReceipt =>
        /\ receipts[c].request \in 1 .. Len(requests)
        /\ requests[receipts[c].request].candidate = "whole"
        /\ requests[receipts[c].request].signed
        /\ Timely(requests[receipts[c].request], receipts[c].applied)
        /\ Quieted => requests[receipts[c].request].to \in reached

ResealIInv ==
    /\ Types
    /\ \A i \in 1 .. Len(requests) : requests[i].from # requests[i].to
       /\ requests[i].created <= now
    /\ \A o \in Operators : Looked(op[o]) /\ Owns(op[o]) /\ Writes(op[o])
       /\ (Quieted => Proceeds(op[o]))
    /\ \A c \in Receipts : Filed(c)
    /\ \A o, p \in Operators : op[o].pc = "fill" /\ op[p].pc = "fill"
       /\ o # p => op[o].request # op[p].request
    /\ ~overlapped => \A o, p \in Operators : Applying(o)
                         /\ Applying(p) => op[o].request = op[p].request
    /\ \A s \in Surfaces : durable = Sealed(s) => s \in reached
    /\ Quieted => Standing
------------------------------------------------------------------------------
\* The three files, in the order they are replaced.
LEMMA FilesAre == Files[1] = "profile" /\ Files[2] = "manifest" /\ Files[3] = "pin"
  BY DEF Files

\* What holds of an operator stays true while nothing it depends on changes.
LEMMA Kept ==
  ASSUME NEW p \in Operators, op'[p] = op[p],
         UNCHANGED <<now, canonical, durable, requests, receipts, reached>>,
         overlapped => overlapped', unsynced => unsynced',
         Looked(op[p]), Owns(op[p]), Writes(op[p]), Quieted => Proceeds(op[p])
  PROVE  Looked(op[p])' /\ Owns(op[p])' /\ Writes(op[p])' /\ (Quieted' => Proceeds(op[p])')
<1>1. Looked(op[p])'
  BY DEF Looked
<1>2. Owns(op[p])'
  BY DEF Owns, Timely
<1>3. Writes(op[p])'
  BY DEF Writes
<1>4. Quieted' => Quieted
  BY DEF Quieted
<1>5. Proceeds(op[p]) => Proceeds(op[p])'
  <2>1. Glimpsed(op[p]) => Glimpsed(op[p])'
    BY DEF Glimpsed, Standings, Prefix, State
  <2>2. Adjacent(requests[op[p].request]) => Adjacent(requests[op[p].request])'
    BY DEF Adjacent, Prefix, State
  <2>3. \A k \in {op[p].next, op[p].next + 1} :
          /\ Done(canonical, requests[op[p].request], k) => Done(canonical,
                requests[op[p].request], k)'
          /\ Done(durable, requests[op[p].request], k) => Done(durable,
                requests[op[p].request], k)'
    BY DEF Done
  <2> QED BY <2>1, <2>2, <2>3 DEF Proceeds
<1> QED BY <1>1, <1>2, <1>3, <1>4, <1>5

\* A step of one operator that touches nothing but its own variables and the flags.
LEMMA OneTurn ==
  ASSUME ResealIInv, NEW o \in Operators,
         UNCHANGED <<surface, now, canonical, durable, requests, receipts, reached>>,
         overlapped => overlapped', unsynced => unsynced',
         overlapped' \in BOOLEAN, unsynced' \in BOOLEAN,
         op' \in [Operators -> OpSet], \A p \in Operators \ {o} : op'[p] = op[p],
         Looked(op[o])', Owns(op[o])', Writes(op[o])', op'[o].pc # "fill",
         Quieted' => Proceeds(op[o])',
         ~overlapped' /\ op'[o].receipt # NoReceipt =>
            \A p \in Operators \ {o} :
               op[p].receipt # NoReceipt => op[p].request = op'[o].request
  PROVE  ResealIInv'
<1>1. Types'
  BY DEF ResealIInv, Types
<1>2. \A i \in 1 .. Len(requests') : requests'[i].from # requests'[i].to
      /\ requests'[i].created <= now'
  BY DEF ResealIInv
<1>3. ASSUME NEW p \in Operators
      PROVE  Looked(op[p])' /\ Owns(op[p])' /\ Writes(op[p])' /\ (Quieted' => Proceeds(op[p])')
  <2>1. CASE p = o
    BY <2>1
  <2>2. CASE p # o
    <3>1. op'[p] = op[p]
      BY <2>2
    <3>2. Looked(op[p]) /\ Owns(op[p]) /\ Writes(op[p]) /\ (Quieted => Proceeds(op[p]))
      BY DEF ResealIInv
    <3> QED BY <3>1, <3>2, Kept
  <2> QED BY <2>1, <2>2
<1>4. \A c \in Receipts : Filed(c)'
  <2>1. \A c \in Receipts : Filed(c)
    BY DEF ResealIInv
  <2> QED BY <2>1 DEF Filed, Quieted, Timely
<1>5. \A p, q \in Operators :
         op'[p].pc = "fill" /\ op'[q].pc = "fill" /\ p # q => op'[p].request # op'[q].request
  BY DEF ResealIInv
<1>6. ~overlapped' => \A p, q \in Operators : Applying(p)'
                         /\ Applying(q)' => op'[p].request = op'[q].request
  <2>1. ~overlapped => \A p, q \in Operators : Applying(p)
                          /\ Applying(q) => op[p].request = op[q].request
    BY DEF ResealIInv
  <2> QED BY <2>1 DEF Applying
<1>7. \A s \in Surfaces : durable' = Sealed(s) => s \in reached'
  BY DEF ResealIInv
<1>8. Quieted' => Standing'
  <2>1. Quieted => Standing
    BY DEF ResealIInv
  <2> QED BY <2>1 DEF Quieted, Standing, Adjacent, Prefix, State
<1> QED BY <1>1, <1>2, <1>3, <1>4, <1>5, <1>6, <1>7, <1>8 DEF ResealIInv

\* An operator that gives up is as good as new.
LEMMA Idle ==
  ASSUME ResealIInv, NEW o \in Operators,
         UNCHANGED <<surface, now, canonical, durable, requests, receipts, reached, overlapped,
            unsynced>>,
         Refuse(o)
  PROVE  ResealIInv'
<1>1. /\ op \in [Operators -> OpSet] /\ Writes(op[o]) /\ now \in Nat
      /\ overlapped \in BOOLEAN /\ unsynced \in BOOLEAN
  BY DEF ResealIInv, Types
<1>2. /\ op'[o] = [pc |-> "idle", request |-> 0, receipt |-> NoReceipt, seen |-> <<>>,
            next |-> 0,
                   applied |-> 0, to |-> 0, returned |-> op[o].returned]
      /\ \A p \in Operators \ {o} : op'[p] = op[p]
  BY <1>1 DEF Refuse, IdleOp
<1>3. op' \in [Operators -> OpSet]
  <2>1. [pc |-> "idle", request |-> 0, receipt |-> NoReceipt, seen |-> <<>>, next |-> 0,
                   applied |-> 0, to |-> 0, returned |-> op[o].returned] \in OpSet
    BY <1>1 DEF OpSet, Pcs
  <2> QED BY <1>1, <2>1 DEF Refuse, IdleOp
<1>4. Looked(op[o])'
  BY <1>1, <1>2 DEF Looked
<1>5. Owns(op[o])'
  BY <1>2 DEF Owns, Pcs, Replacing, Ending
<1>6. Writes(op[o])'
  BY <1>1, <1>2 DEF Writes
<1>7. Proceeds(op[o])'
  BY <1>2 DEF Proceeds, Reading, Replacing, Ending
<1> QED BY <1>1, <1>2, <1>3, <1>4, <1>5, <1>6, <1>7, OneTurn

\* The same for a step that sets no flag: what is needed is needed in the old state.
LEMMA Looking ==
  ASSUME ResealIInv, NEW o \in Operators, Looks, NEW v \in OpSet, op' = [op EXCEPT ![o] = v],
         v.pc # "fill", v.returned = op[o].returned,
         v.receipt # NoReceipt => v.receipt = op[o].receipt /\ v.request = op[o].request,
         Looked(v), Owns(v), Writes(v), Quieted => Proceeds(v)
  PROVE  ResealIInv'
<1>1. op \in [Operators -> OpSet] /\ overlapped \in BOOLEAN /\ unsynced \in BOOLEAN
  BY DEF ResealIInv, Types
<1>2. op'[o] = v /\ (\A p \in Operators \ {o} : op'[p] = op[p]) /\ op' \in [Operators -> OpSet]
  BY <1>1
<1>3. UNCHANGED <<surface, now, canonical, durable, requests, receipts, reached, overlapped,
         unsynced>>
  BY DEF Looks, Quiet, outside, history
<1>4. Looked(op[o])' /\ Owns(op[o])' /\ Writes(op[o])'
  BY <1>2, <1>3 DEF Looked, Owns, Writes, Timely
<1>5. Quieted' => Proceeds(op[o])'
  <2>1. Glimpsed(v) => Glimpsed(op[o])'
    BY <1>2, <1>3 DEF Glimpsed, Standings, Prefix, State
  <2>2. Adjacent(requests[v.request]) => Adjacent(requests[op[o].request])'
    BY <1>2, <1>3 DEF Adjacent, Prefix, State
  <2>3. \A k \in {v.next, v.next + 1} :
          /\ Done(canonical, requests[v.request], k) => Done(canonical,
                requests[op[o].request], k)'
          /\ Done(durable, requests[v.request], k) => Done(durable, requests[op[o].request], k)'
    BY <1>2, <1>3 DEF Done
  <2> QED BY <1>2, <1>3, <2>1, <2>2, <2>3 DEF Proceeds, Quieted
<1>6. ~overlapped' /\ op'[o].receipt # NoReceipt =>
            \A p \in Operators \ {o} :
               op[p].receipt # NoReceipt => op[p].request = op'[o].request
  <2>1. ~overlapped => \A p, q \in Operators : Applying(p)
                          /\ Applying(q) => op[p].request = op[q].request
    BY DEF ResealIInv
  <2> QED BY <2>1, <1>2, <1>3 DEF Applying
<1> QED BY <1>1, <1>2, <1>3, <1>4, <1>5, <1>6, OneTurn

\* An operator that refuses what it has read or compared.
LEMMA GivesUp ==
  ASSUME ResealIInv, NEW o \in Operators, Looks, Refuse(o)
  PROVE  ResealIInv'
  BY Idle DEF Looks, Quiet, outside, history

\* What is known of one operator.
LEMMA Mine ==
  ASSUME ResealIInv, NEW o \in Operators
  PROVE  /\ op \in [Operators -> OpSet] /\ op[o] \in OpSet
         /\ surface \in Surfaces /\ now \in Nat /\ canonical \in FileSet /\ durable \in FileSet
         /\ overlapped \in BOOLEAN /\ unsynced \in BOOLEAN
         /\ requests \in Seq(Request) /\ op[o].seen \in Seq(Surfaces)
         /\ Looked(op[o]) /\ Owns(op[o]) /\ Writes(op[o]) /\ (Quieted => Proceeds(op[o]))
  BY DEF ResealIInv, Types, OpSet

\* The steps of prepare that read and compare: nothing on disk changes.
LEMMA PreparesLooking ==
  ASSUME ResealIInv, NEW o \in Operators,
         \/ PrepareReadsPin(o) \/ PrepareVerifies(o) \/ PrepareReadsProfile(o)
         \/ PrepareReadsManifest(o) \/ PrepareDerives(o)
  PROVE  ResealIInv'
<1>m. /\ op \in [Operators -> OpSet] /\ op[o] \in OpSet
      /\ surface \in Surfaces /\ now \in Nat /\ canonical \in FileSet /\ durable \in FileSet
      /\ overlapped \in BOOLEAN /\ unsynced \in BOOLEAN
      /\ requests \in Seq(Request) /\ op[o].seen \in Seq(Surfaces)
      /\ Looked(op[o]) /\ Owns(op[o]) /\ Writes(op[o]) /\ (Quieted => Proceeds(op[o]))
  BY Mine
<1> USE <1>m
<1>0. op[o].receipt = NoReceipt
  BY DEF Owns, PrepareReadsPin, PrepareVerifies, PrepareReadsProfile, PrepareReadsManifest,
     PrepareDerives, Pcs
<1>1. CASE PrepareReadsPin(o)
  <2> DEFINE v == [op[o] EXCEPT !.pc = "verify", !.seen = <<canonical.pin>>]
  <2>1. op' = [op EXCEPT ![o] = v] /\ Looks
    BY <1>1 DEF PrepareReadsPin, OpSet
  <2>2. v \in OpSet /\ v.pc = "verify" /\ v.seen = <<canonical.pin>>
        /\ v.receipt = op[o].receipt
        /\ v.returned = op[o].returned /\ v.applied = op[o].applied
    <3>1. canonical.pin \in Surfaces
      BY DEF FileSet
    <3>2. <<canonical.pin>> \in Seq(Surfaces)
      BY <3>1
    <3> QED BY <3>2 DEF OpSet, Pcs
  <2> HIDE DEF v
  <2>3. Looked(v)
    BY <2>2 DEF Looked
  <2>4. Owns(v) /\ Writes(v) /\ Proceeds(v)
    BY <1>0, <2>2 DEF Owns, Writes, Proceeds, Pcs, Reading, Replacing, Ending
  <2> QED BY <1>0, <2>1, <2>2, <2>3, <2>4, Looking
<1>2. CASE PrepareVerifies(o)
  <2>1. CASE Refuse(o)
    BY <1>2, <2>1, GivesUp DEF PrepareVerifies
  <2>2. CASE Turn(o, "profile")
    <3> DEFINE v == [op[o] EXCEPT !.pc = "profile"]
    <3>1. op' = [op EXCEPT ![o] = v] /\ Looks
      BY <1>2, <2>2 DEF PrepareVerifies, Turn
    <3>2. v \in OpSet /\ v.pc = "profile" /\ v.seen = op[o].seen /\ v.receipt = op[o].receipt
          /\ v.returned = op[o].returned /\ v.applied = op[o].applied /\ op[o].pc = "verify"
      BY <1>2 DEF OpSet, Pcs, PrepareVerifies
    <3> HIDE DEF v
    <3>3. Looked(v)
      BY <3>2 DEF Looked
    <3>4. Owns(v) /\ Writes(v) /\ Proceeds(v)
      BY <1>0, <3>2 DEF Owns, Writes, Proceeds, Pcs, Reading, Replacing, Ending
    <3> QED BY <1>0, <3>1, <3>2, <3>3, <3>4, Looking
  <2> QED BY <1>2, <2>1, <2>2 DEF PrepareVerifies
<1>3. CASE PrepareReadsProfile(o)
  <2> DEFINE v == [op[o] EXCEPT !.pc = "manifest", !.seen = Append(@, canonical.profile)]
  <2>1. op' = [op EXCEPT ![o] = v] /\ Looks
    BY <1>3 DEF PrepareReadsProfile, OpSet
  <2>2. v \in OpSet /\ v.pc = "manifest" /\ v.seen = Append(op[o].seen, canonical.profile)
        /\ v.receipt = op[o].receipt
        /\ v.returned = op[o].returned /\ v.applied = op[o].applied /\ op[o].pc = "profile"
    <3>1. canonical.profile \in Surfaces
      BY DEF FileSet
    <3>2. Append(op[o].seen, canonical.profile) \in Seq(Surfaces)
      BY <3>1
    <3> QED BY <1>3, <3>2 DEF OpSet, Pcs, PrepareReadsProfile
  <2> HIDE DEF v
  <2>3. Looked(v)
    <3>1. Len(op[o].seen) = 1
      BY <2>2 DEF Looked
    <3>2. Len(v.seen) = 2
      BY <3>1, <2>2, AppendProperties DEF FileSet
    <3> QED BY <2>2, <3>2 DEF Looked
  <2>4. Owns(v) /\ Writes(v) /\ Proceeds(v)
    BY <1>0, <2>2 DEF Owns, Writes, Proceeds, Pcs, Reading, Replacing, Ending
  <2> QED BY <1>0, <2>1, <2>2, <2>3, <2>4, Looking
<1>4. CASE PrepareReadsManifest(o)
  <2>1. CASE Refuse(o)
    BY <1>4, <2>1, GivesUp DEF PrepareReadsManifest
  <2>2. CASE Turn(o, "measure")
    <3> DEFINE v == [op[o] EXCEPT !.pc = "measure"]
    <3>1. op' = [op EXCEPT ![o] = v] /\ Looks
      BY <1>4, <2>2 DEF PrepareReadsManifest, Turn
    <3>2. v \in OpSet /\ v.pc = "measure" /\ v.seen = op[o].seen /\ v.receipt = op[o].receipt
          /\ v.returned = op[o].returned /\ v.applied = op[o].applied /\ op[o].pc = "manifest"
      BY <1>4 DEF OpSet, Pcs, PrepareReadsManifest
    <3> HIDE DEF v
    <3>3. Looked(v)
      BY <3>2 DEF Looked
    <3>4. Owns(v) /\ Writes(v) /\ Proceeds(v)
      BY <1>0, <3>2 DEF Owns, Writes, Proceeds, Pcs, Reading, Replacing, Ending
    <3> QED BY <1>0, <3>1, <3>2, <3>3, <3>4, Looking
  <2> QED BY <1>4, <2>1, <2>2 DEF PrepareReadsManifest
<1>5. CASE PrepareDerives(o)
  <2>1. CASE surface = op[o].seen[1]
    BY <1>5, <2>1, GivesUp DEF PrepareDerives
  <2>2. CASE surface # op[o].seen[1]
    <3> DEFINE v == [op[o] EXCEPT !.pc = "create", !.to = surface, !.applied = now]
    <3>1. op' = [op EXCEPT ![o] = v] /\ Looks
      BY <1>5, <2>2 DEF PrepareDerives, OpSet
    <3>2. v \in OpSet /\ v.pc = "create" /\ v.seen = op[o].seen /\ v.receipt = op[o].receipt
          /\ v.returned = op[o].returned /\ v.applied = now /\ v.to = surface
          /\ op[o].pc = "measure"
      BY <1>5 DEF OpSet, Pcs, PrepareDerives
    <3> HIDE DEF v
    <3>3. Looked(v)
      BY <2>2, <3>2 DEF Looked
    <3>4. Owns(v) /\ Writes(v) /\ Proceeds(v)
      BY <1>0, <3>2 DEF Owns, Writes, Proceeds, Pcs, Reading, Replacing, Ending
    <3> QED BY <1>0, <3>1, <3>2, <3>3, <3>4, Looking
  <2> QED BY <2>1, <2>2
<1> QED BY <1>1, <1>2, <1>3, <1>4, <1>5

\* apply begins: with the same request as anybody else who is at it, or the flag is set.
LEMMA LoadsStep ==
  ASSUME ResealIInv, NEW o \in Operators, NEW r \in 1 .. Len(requests), NEW c \in Receipts,
         ApplyLoads(o, r, c)
  PROVE  ResealIInv'
<1>m. /\ op \in [Operators -> OpSet] /\ op[o] \in OpSet
      /\ surface \in Surfaces /\ now \in Nat /\ canonical \in FileSet /\ durable \in FileSet
      /\ overlapped \in BOOLEAN /\ unsynced \in BOOLEAN
      /\ requests \in Seq(Request) /\ op[o].seen \in Seq(Surfaces)
      /\ Looked(op[o]) /\ Owns(op[o]) /\ Writes(op[o]) /\ (Quieted => Proceeds(op[o]))
  BY Mine
<1> USE <1>m
<1> DEFINE v == [op[o] EXCEPT !.pc = "read", !.request = r, !.receipt = c, !.seen = <<>>]
<1>1. op' = [op EXCEPT ![o] = v]
  BY DEF ApplyLoads, OpSet
<1>2. v \in OpSet /\ v.pc = "read" /\ v.seen = <<>> /\ v.receipt = c /\ v.request = r
      /\ v.returned = op[o].returned /\ v.applied = op[o].applied
  <2>1. <<>> \in Seq(Surfaces) /\ r \in Nat
    OBVIOUS
  <2> QED BY <2>1 DEF OpSet, Reading
<1> HIDE DEF v
<1>3. op'[o] = v /\ (\A p \in Operators \ {o} : op'[p] = op[p]) /\ op' \in [Operators -> OpSet]
  BY <1>1, <1>2
<1>4. UNCHANGED <<surface, now, canonical, durable, requests, receipts, reached, unsynced>>
  BY DEF ApplyLoads, outside
<1>5. Looked(op[o])' /\ Writes(op[o])'
  BY <1>2, <1>3, <1>4 DEF Looked, Writes
<1>6. Owns(op[o])'
  BY <1>2, <1>3, <1>4, ResealAssumption DEF Owns, ApplyLoads, CandidateAccepted, Pcs,
     Replacing, Ending
<1>7. Proceeds(op[o])'
  BY <1>2, <1>3, <1>4 DEF Proceeds, Glimpsed, Reading, Replacing, Ending
<1>8. ~overlapped' =>
        \A p \in Operators \ {o} :
           op[p].receipt # NoReceipt => op[p].request = op'[o].request
  BY <1>2, <1>3 DEF ApplyLoads, Applying
<1>9. overlapped' \in BOOLEAN /\ unsynced' \in BOOLEAN /\ (overlapped => overlapped')
      /\ op'[o].pc # "fill" /\ (unsynced => unsynced')
  <2>1. overlapped' = (overlapped \/ \E other \in Operators : Applying(other)
                                        /\ op[other].request # r)
    BY DEF ApplyLoads
  <2>2. overlapped' \in BOOLEAN /\ (overlapped => overlapped')
    BY <2>1, Zenon
  <2> QED BY <2>2, <1>2, <1>3, <1>4
<1> QED BY <1>3, <1>4, <1>5, <1>6, <1>7, <1>8, <1>9, OneTurn

\* The three files are read one by one.
LEMMA ReadsStep ==
  ASSUME ResealIInv, NEW o \in Operators, NEW pc, NEW next, Reads(o, pc, next),
         \/ pc = "read" /\ next = "classify"
         \/ pc = "back" /\ next = "confirm"
  PROVE  ResealIInv'
<1>m. /\ op \in [Operators -> OpSet] /\ op[o] \in OpSet
      /\ surface \in Surfaces /\ now \in Nat /\ canonical \in FileSet /\ durable \in FileSet
      /\ overlapped \in BOOLEAN /\ unsynced \in BOOLEAN
      /\ requests \in Seq(Request) /\ op[o].seen \in Seq(Surfaces)
      /\ Looked(op[o]) /\ Owns(op[o]) /\ Writes(op[o]) /\ (Quieted => Proceeds(op[o]))
  BY Mine
<1> USE <1>m
<1> DEFINE n == Len(op[o].seen) + 1
           x == canonical[Files[n]]
           v == [op[o] EXCEPT !.seen = Append(@, x),
              !.pc = IF Len(op[o].seen) = 2 THEN next ELSE pc]
<1>1. op' = [op EXCEPT ![o] = v] /\ Looks
  BY DEF Reads, OpSet
<1>2. op[o].pc = pc /\ Len(op[o].seen) <= 2 /\ Len(op[o].seen) \in Nat
  BY DEF Reads, Looked
<1>3. n \in 1 .. 3
  BY <1>2
<1>4. x \in Surfaces
  BY <1>3, FilesAre DEF FileSet
<1>5. /\ Append(op[o].seen, x) \in Seq(Surfaces) /\ Len(Append(op[o].seen, x)) = n
      /\ \A j \in 1 .. Len(op[o].seen) : Append(op[o].seen, x)[j] = op[o].seen[j]
      /\ Append(op[o].seen, x)[n] = x
  BY <1>4, AppendProperties
<1>6. v \in OpSet /\ v.seen = Append(op[o].seen, x) /\ v.receipt = op[o].receipt
      /\ v.request = op[o].request
      /\ v.returned = op[o].returned /\ v.applied = op[o].applied
      /\ v.pc = (IF Len(op[o].seen) = 2 THEN next ELSE pc)
  <2>1. next \in Reading \cup Ending /\ pc \in Reading \cup Ending
    BY DEF Reading, Ending
  <2> QED BY <1>5, <2>1 DEF OpSet
<1>7. \A j \in 1 .. Len(v.seen) : (v.seen[j] = op[o].seen[j] /\ j <= Len(op[o].seen))
      \/ v.seen[j] = canonical[Files[j]]
  BY <1>2, <1>5, <1>6
<1> HIDE DEF v, x
<1>8. Looked(v)
  <2>1. now \in Nat /\ v.applied \in Nat /\ v.applied <= now
    BY <1>6 DEF Looked, OpSet
  <2>2. Len(v.seen) = n /\ (v.pc \in {"classify", "confirm"} <=> n >= 3)
        /\ v.pc \in {"read", "back", "classify", "confirm"}
    <3>1. CASE Len(op[o].seen) = 2
      BY <1>5, <1>6, <3>1
    <3>2. CASE Len(op[o].seen) # 2
      <4>1. Len(op[o].seen) <= 1
        <5>1. \A k \in Nat : k <= 2 /\ k # 2 => k <= 1
          OBVIOUS
        <5> QED BY <1>2, <3>2, <5>1
      <4>2. n <= 2
        BY <1>2, <4>1
      <4> QED BY <1>3, <4>2, <1>5, <1>6, <3>2, <4>1
    <3> QED BY <3>1, <3>2
  <2> QED BY <1>3, <2>1, <2>2 DEF Looked
<1>9. Owns(v) /\ Writes(v)
  BY <1>2, <1>6 DEF Owns, Writes, Pcs, Reading, Replacing, Ending
<1>10. Quieted => Proceeds(v)
  <2>1. CASE pc = "read"
    <3>1. Glimpsed(op[o]) => Glimpsed(v)
      BY <1>6, <1>7, <1>2 DEF Glimpsed
    <3>2. v.pc \in Reading /\ op[o].pc \in Reading
      BY <1>2, <1>6, <2>1 DEF Reading
    <3> QED BY <3>1, <3>2 DEF Proceeds, Reading, Replacing, Ending
  <2>2. CASE pc = "back"
    <3>1. v.pc \in Ending /\ op[o].pc \in Ending /\ v.request = op[o].request
      BY <1>2, <1>6, <2>2 DEF Ending
    <3> QED BY <3>1 DEF Proceeds, Reading, Replacing, Ending
  <2> QED BY <2>1, <2>2
<1> QED BY <1>1, <1>2, <1>6, <1>8, <1>9, <1>10, Looking

\* What classify takes for the state of the files may be some steps behind.
LEMMA Understood ==
  ASSUME ResealIInv, NEW o \in Operators, op[o].pc = "classify", Quieted, durable = canonical,
         Found(o) \in Standings(Req(o)), NEW k \in 1 .. 4, k = Index(Req(o), Found(o)) + 1
  PROVE  Adjacent(Req(o)) /\ Done(canonical, Req(o), k) /\ Done(durable, Req(o), k)
<1>m. /\ op \in [Operators -> OpSet] /\ op[o] \in OpSet
      /\ surface \in Surfaces /\ now \in Nat /\ canonical \in FileSet /\ durable \in FileSet
      /\ overlapped \in BOOLEAN /\ unsynced \in BOOLEAN
      /\ requests \in Seq(Request) /\ op[o].seen \in Seq(Surfaces)
      /\ Looked(op[o]) /\ Owns(op[o]) /\ Writes(op[o]) /\ (Quieted => Proceeds(op[o]))
  BY Mine
<1> USE <1>m
<1> DEFINE r == Req(o)
<1>1. r \in Request /\ r.from # r.to /\ op[o].request \in 1 .. Len(requests)
  <2>1. op[o].request \in 1 .. Len(requests)
    BY DEF Owns, Pcs
  <2> QED BY <2>1 DEF Req, ResealIInv
<1>2. Glimpsed(op[o]) /\ Len(op[o].seen) = 3
  BY DEF Proceeds, Reading, Looked
<1>3. PICK i \in 0 .. 3 : Prefix(r, i) = Found(o) /\ k = i + 1
  BY DEF Standings, Index
<1>4. /\ op[o].seen[1] = IF i >= 1 THEN r.to ELSE r.from
      /\ op[o].seen[2] = IF i >= 2 THEN r.to ELSE r.from
      /\ op[o].seen[3] = IF i = 3 THEN r.to ELSE r.from
  BY <1>3 DEF Prefix, State, Found
<1>5. CASE \A j \in 1 .. 3 : op[o].seen[j] = canonical[Files[j]]
  <2>1. canonical = Prefix(r, i)
    BY <1>3, <1>5, FilesAre DEF Found, State, FileSet
  <2>2. Adjacent(r)
    BY <2>1 DEF Adjacent
  <2>3. Done(canonical, r, k)
    BY <1>3, <2>1 DEF Done, Prefix, State
  <2> QED BY <2>2, <2>3
<1>6. CASE canonical \in Standings(r)
      /\ \A j \in 1 .. 3 : op[o].seen[j] \in {canonical[Files[j]], r.from}
  <2>1. Adjacent(r)
    BY <1>6 DEF Adjacent, Standings
  <2>2. /\ i >= 1 => canonical.profile = r.to
        /\ i >= 2 => canonical.manifest = r.to
        /\ i = 3 => canonical.pin = r.to
    BY <1>1, <1>4, <1>6, FilesAre
  <2>3. Done(canonical, r, k)
    BY <1>3, <2>2 DEF Done
  <2> QED BY <2>1, <2>3
<1> QED BY <1>2, <1>5, <1>6 DEF Glimpsed, Req

\* apply classifies what it read, and goes on behind the files replaced already.
LEMMA ClassifiesStep ==
  ASSUME ResealIInv, NEW o \in Operators, ApplyClassifies(o)
  PROVE  ResealIInv'
<1>m. /\ op \in [Operators -> OpSet] /\ op[o] \in OpSet
      /\ surface \in Surfaces /\ now \in Nat /\ canonical \in FileSet /\ durable \in FileSet
      /\ overlapped \in BOOLEAN /\ unsynced \in BOOLEAN
      /\ requests \in Seq(Request) /\ op[o].seen \in Seq(Surfaces)
      /\ Looked(op[o]) /\ Owns(op[o]) /\ Writes(op[o]) /\ (Quieted => Proceeds(op[o]))
  BY Mine
<1> USE <1>m
<1>0. UNCHANGED <<surface, now, canonical, durable, requests, receipts, reached, overlapped>>
  BY DEF ApplyClassifies, outside
<1>1. CASE Refuse(o) /\ UNCHANGED unsynced
  BY <1>0, <1>1, Idle
<1>2. CASE ~(Refuse(o) /\ UNCHANGED unsynced)
  <2> DEFINE k == Index(Req(o), Found(o)) + 1
             v == [op[o] EXCEPT !.pc = "stage", !.next = k]
  <2>1. /\ op[o].pc = "classify" /\ Found(o) \in Standings(Req(o))
        /\ op' = [op EXCEPT ![o] = v] /\ unsynced' = (unsynced \/ durable # canonical)
    BY <1>2 DEF ApplyClassifies, OpSet
  <2>2. k \in 1 .. 4
    BY <2>1 DEF Standings, Index
  <2> HIDE DEF k
  <2>3. v \in OpSet /\ v.pc = "stage" /\ v.next = k /\ v.seen = op[o].seen
        /\ v.request = op[o].request
        /\ v.receipt = op[o].receipt /\ v.returned = op[o].returned /\ v.applied = op[o].applied
    <3>1. k \in 0 .. 4
      BY <2>2
    <3> QED BY <3>1 DEF OpSet, Replacing
  <2> HIDE DEF v
  <2>4. op'[o] = v /\ (\A p \in Operators \ {o} : op'[p] = op[p])
                          /\ op' \in [Operators -> OpSet]
    BY <2>1, <2>3
  <2>5. Looked(op[o])' /\ Writes(op[o])'
    <3>1. Len(op[o].seen) = 3
      BY <2>1 DEF Looked
    <3>2. Looked(op[o])'
      BY <3>1, <1>0, <2>3, <2>4 DEF Looked
    <3> QED BY <3>2, <1>0, <2>3, <2>4 DEF Writes
  <2>6. Owns(op[o])'
    BY <1>0, <2>1, <2>2, <2>3, <2>4 DEF Owns, Pcs, Replacing, Ending
  <2>7. Quieted' => Proceeds(op[o])'
    <3> SUFFICES ASSUME Quieted' PROVE Proceeds(op[o])'
      OBVIOUS
    <3>1. Quieted /\ durable = canonical
      BY <1>0, <2>1 DEF Quieted
    <3>2. Adjacent(Req(o)) /\ Done(canonical, Req(o), k) /\ Done(durable, Req(o), k)
      BY <3>1, <2>1, <2>2, Understood DEF k
    <3>3. Adjacent(requests[op[o].request])'
      BY <3>2, <1>0, <2>3, <2>4 DEF Adjacent, Prefix, State, Req
    <3>4. Done(canonical, requests[op[o].request], op[o].next)'
          /\ Done(durable, requests[op[o].request], op[o].next)'
      BY <3>2, <1>0, <2>3, <2>4 DEF Done, Req
    <3> QED BY <3>3, <3>4, <2>3, <2>4 DEF Proceeds, Reading, Ending
  <2>8. ~overlapped' =>
          \A p \in Operators \ {o} :
             op[p].receipt # NoReceipt => op[p].request = op'[o].request
    <3>1. ~overlapped => \A p, q \in Operators : Applying(p)
                            /\ Applying(q) => op[p].request = op[q].request
      BY DEF ResealIInv
    <3>2. Applying(o)
      BY <2>1 DEF Applying, Owns, Pcs
    <3> QED BY <1>0, <2>3, <2>4, <3>1, <3>2 DEF Applying
  <2>9. unsynced' \in BOOLEAN /\ overlapped' \in BOOLEAN /\ (unsynced => unsynced')
        /\ (overlapped => overlapped') /\ op'[o].pc # "fill"
    BY <1>0, <2>1, <2>3, <2>4
  <2> QED BY <1>0, <2>4, <2>5, <2>6, <2>7, <2>8, <2>9, OneTurn
<1> QED BY <1>1, <1>2

\* The next file is staged; when all are replaced they are read back.
LEMMA StagesStep ==
  ASSUME ResealIInv, NEW o \in Operators, ApplyStages(o)
  PROVE  ResealIInv'
<1>m. /\ op \in [Operators -> OpSet] /\ op[o] \in OpSet
      /\ surface \in Surfaces /\ now \in Nat /\ canonical \in FileSet /\ durable \in FileSet
      /\ overlapped \in BOOLEAN /\ unsynced \in BOOLEAN
      /\ requests \in Seq(Request) /\ op[o].seen \in Seq(Surfaces)
      /\ Looked(op[o]) /\ Owns(op[o]) /\ Writes(op[o]) /\ (Quieted => Proceeds(op[o]))
  BY Mine
<1> USE <1>m
<1>1. CASE Refuse(o)
  BY <1>1, GivesUp DEF ApplyStages
<1>2. CASE ~Refuse(o)
  <2> DEFINE v == [op[o] EXCEPT !.pc = Commits(o), !.applied = now, !.seen = <<>>]
  <2>1. op[o].pc = "stage" /\ Looks /\ op' = [op EXCEPT ![o] = v] /\ Timely(Req(o), now)
    BY <1>2 DEF ApplyStages, OpSet
  <2>2. v \in OpSet /\ v.next = op[o].next /\ v.seen = <<>> /\ v.request = op[o].request
        /\ v.receipt = op[o].receipt /\ v.returned = op[o].returned /\ v.applied = now
        /\ v.pc = Commits(o)
    <3>1. <<>> \in Seq(Surfaces) /\ Commits(o) \in Replacing \cup Ending
      BY DEF Commits, Replacing, Ending
    <3> QED BY <3>1 DEF OpSet
  <2> HIDE DEF v
  <2>3. Looked(v)
    BY <2>2 DEF Looked, Commits
  <2>4. Owns(v) /\ Writes(v)
    <3>1. op[o].next \in 1 .. 4 /\ op[o].receipt # NoReceipt
          /\ op[o].request \in 1 .. Len(requests)
          /\ requests[op[o].request].candidate = "whole" /\ requests[op[o].request].signed
      BY <2>1 DEF Owns, Pcs, Replacing
    <3>2. (v.pc = "check" /\ v.next # 4) \/ v.pc = "back"
      BY <2>2, <3>1 DEF Commits
    <3>3. Owns(v)
      BY <2>1, <2>2, <3>1, <3>2 DEF Owns, Pcs, Replacing, Ending, Req
    <3> QED BY <2>2, <3>2, <3>3 DEF Writes
  <2>5. Quieted => Proceeds(v)
    <3> SUFFICES ASSUME Quieted PROVE Proceeds(v)
      OBVIOUS
    <3>1. Adjacent(Req(o)) /\ Done(canonical, Req(o), op[o].next)
          /\ Done(durable, Req(o), op[o].next)
      BY <2>1 DEF Proceeds, Replacing, Req
    <3>2. CASE v.pc = "check"
      BY <2>2, <3>1, <3>2 DEF Proceeds, Reading, Replacing, Ending, Req
    <3>3. CASE v.pc = "back"
      <4>1. op[o].next = 4
        BY <2>1, <2>2, <3>3 DEF Commits, Owns, Replacing
      <4>2. durable = Sealed(Req(o).to)
        BY <3>1, <4>1 DEF Done, FileSet, Sealed, State
      <4>3. Req(o).to \in Surfaces
        <5>1. Req(o) \in Request
          BY <2>1 DEF Req, Owns, Pcs
        <5> QED BY <5>1 DEF Request
      <4>4. Req(o).to \in reached
        BY <4>2, <4>3 DEF ResealIInv
      <4> QED BY <2>2, <3>3, <4>4 DEF Proceeds, Reading, Replacing, Ending, Req
    <3> QED BY <2>2, <3>2, <3>3 DEF Commits
  <2> QED BY <2>1, <2>2, <2>3, <2>4, <2>5, Looking DEF Commits
<1> QED BY <1>1, <1>2

\* The two comparisons that only let the operator go on.
LEMMA ComparesStep ==
  ASSUME ResealIInv, NEW o \in Operators, ApplyChecks(o) \/ ApplyConfirms(o)
  PROVE  ResealIInv'
<1>m. /\ op \in [Operators -> OpSet] /\ op[o] \in OpSet
      /\ surface \in Surfaces /\ now \in Nat /\ canonical \in FileSet /\ durable \in FileSet
      /\ overlapped \in BOOLEAN /\ unsynced \in BOOLEAN
      /\ requests \in Seq(Request) /\ op[o].seen \in Seq(Surfaces)
      /\ Looked(op[o]) /\ Owns(op[o]) /\ Writes(op[o]) /\ (Quieted => Proceeds(op[o]))
  BY Mine
<1> USE <1>m
<1>1. CASE Refuse(o)
  BY <1>1, GivesUp DEF ApplyChecks, ApplyConfirms
<1>2. CASE ~Refuse(o)
  <2>0. \/ Turn(o, "replace") /\ Looks /\ op[o].pc = "check"
        \/ Turn(o, "link") /\ Looks /\ op[o].pc = "confirm"
    BY <1>2 DEF ApplyChecks, ApplyConfirms
  <2>1. PICK pc : /\ Turn(o, pc) /\ Looks
                  /\ \/ op[o].pc = "check" /\ pc = "replace"
                     \/ op[o].pc = "confirm" /\ pc = "link"
    BY <2>0
  <2> DEFINE v == [op[o] EXCEPT !.pc = pc]
  <2>2. op' = [op EXCEPT ![o] = v]
    BY <2>1 DEF Turn
  <2>3. (op[o].pc = "check" /\ pc = "replace") \/ (op[o].pc = "confirm" /\ pc = "link")
    BY <2>1
  <2>4. v \in OpSet /\ v.next = op[o].next /\ v.seen = op[o].seen /\ v.request = op[o].request
        /\ v.receipt = op[o].receipt /\ v.returned = op[o].returned
        /\ v.applied = op[o].applied /\ v.pc = pc
    <3>1. pc \in Replacing \cup Ending
      BY <2>3 DEF Replacing, Ending
    <3> QED BY <3>1 DEF OpSet
  <2> HIDE DEF v
  <2>5. Looked(v)
    BY <2>3, <2>4 DEF Looked
  <2>6. Owns(v) /\ Writes(v)
    BY <2>3, <2>4 DEF Owns, Writes, Pcs, Replacing, Ending
  <2>7. Quieted => Proceeds(v)
    BY <2>3, <2>4 DEF Proceeds, Reading, Replacing, Ending
  <2> QED BY <2>1, <2>2, <2>3, <2>4, <2>5, <2>6, <2>7, Looking
<1> QED BY <1>1, <1>2

\* Requests are added, signed and made whole; what they bind stays.
Follows ==
    /\ requests' \in Seq(Request) /\ Len(requests) <= Len(requests')
    /\ \A i \in 1 .. Len(requests) :
         /\ requests'[i].from = requests[i].from /\ requests'[i].to = requests[i].to
         /\ requests'[i].created = requests[i].created
         /\ requests'[i].expires = requests[i].expires
         /\ requests[i].signed => requests'[i].signed
         /\ requests[i].candidate = "whole" => requests'[i].candidate = "whole"

\* A request keeps the transaction it binds.
LEMMA SameTransaction ==
  ASSUME ResealIInv, Follows, UNCHANGED <<canonical, durable>>, NEW i \in 1 .. Len(requests)
  PROVE  /\ Standings(requests'[i]) = Standings(requests[i])
         /\ Adjacent(requests[i]) => Adjacent(requests[i])'
         /\ \A k \in 0 .. 5 :
              /\ Done(canonical, requests[i], k) => Done(canonical, requests[i], k)'
              /\ Done(durable, requests[i], k) => Done(durable, requests[i], k)'
<1>1. requests'[i].from = requests[i].from /\ requests'[i].to = requests[i].to
  BY DEF Follows
<1>2. \A n \in 0 .. 4 : Prefix(requests'[i], n) = Prefix(requests[i], n)
  BY <1>1 DEF Prefix, State
<1>3. Standings(requests'[i]) = Standings(requests[i])
  BY <1>2 DEF Standings
<1>4. Adjacent(requests[i]) => Adjacent(requests[i])'
  BY <1>2 DEF Adjacent
<1> QED BY <1>1, <1>3, <1>4 DEF Done

\* An operator that is not at the requests is where it was.
LEMMA RequestsKept ==
  ASSUME ResealIInv, Follows,
         UNCHANGED <<canonical, durable, receipts, reached, overlapped, unsynced>>,
         now' \in Nat, now <= now', NEW p \in Operators, op'[p] = op[p],
         op[p].pc = "fill" => requests'[op[p].request].candidate = "partial"
  PROVE  Looked(op[p])' /\ Owns(op[p])' /\ Writes(op[p])' /\ (Quieted' => Proceeds(op[p])')
<1>1. /\ op[p] \in OpSet /\ now \in Nat /\ requests \in Seq(Request)
      /\ Looked(op[p]) /\ Owns(op[p]) /\ Writes(op[p]) /\ (Quieted => Proceeds(op[p]))
  BY Mine
<1>2. Len(requests) \in Nat /\ Len(requests') \in Nat
  BY <1>1 DEF Follows
<1>3. Looked(op[p])'
  <2>1. op[p].applied \in Nat
    BY <1>1 DEF OpSet
  <2> QED BY <1>1, <2>1 DEF Looked
<1>4. Owns(op[p])'
  <2>1. op[p].request \in 1 .. Len(requests) => op[p].request \in 1 .. Len(requests')
    BY <1>2 DEF Follows
  <2> QED BY <1>1, <2>1 DEF Owns, Timely, Follows, Pcs, Replacing, Ending
<1>5. Writes(op[p])'
  BY <1>1 DEF Writes
<1>6. op[p].pc \notin Pcs => op[p].request \in 1 .. Len(requests)
  BY <1>1 DEF Owns
<1>7. Quieted' => Proceeds(op[p])'
  <2> SUFFICES ASSUME Quieted, op[p].pc \notin Pcs PROVE Proceeds(op[p])'
    BY DEF Quieted, Proceeds, Pcs, Reading, Replacing, Ending
  <2>1. Proceeds(op[p]) /\ op[p].request \in 1 .. Len(requests)
    BY <1>1, <1>6
  <2>2. /\ Standings(requests'[op[p].request]) = Standings(requests[op[p].request])
        /\ Adjacent(requests[op[p].request]) => Adjacent(requests[op[p].request])'
    BY <2>1, SameTransaction
  <2>3. Glimpsed(op[p]) => Glimpsed(op[p])'
    BY <2>1, <2>2 DEF Glimpsed, Follows
  <2>4. requests'[op[p].request].to = requests[op[p].request].to
    BY <2>1 DEF Follows
  <2> QED BY <2>1, <2>2, <2>3, <2>4 DEF Proceeds, Done
<1> QED BY <1>3, <1>4, <1>5, <1>7

\* Nor does a change of the requests disturb the receipts and the files.
LEMMA RequestsElse ==
  ASSUME ResealIInv, Follows,
         UNCHANGED <<canonical, durable, receipts, reached, overlapped, unsynced>>
  PROVE  /\ \A c \in Receipts : Filed(c)'
         /\ \A s \in Surfaces : durable' = Sealed(s) => s \in reached'
         /\ Quieted' => Standing'
<1>0. Len(requests) \in Nat /\ Len(requests') \in Nat
  BY DEF Follows, ResealIInv, Types
<1>1. \A c \in Receipts : Filed(c)'
  <2>1. \A c \in Receipts : Filed(c)
    BY DEF ResealIInv
  <2> QED BY <1>0, <2>1 DEF Filed, Follows, Timely, Quieted
<1>2. \A s \in Surfaces : durable' = Sealed(s) => s \in reached'
  BY DEF ResealIInv
<1>3. Quieted' => Standing'
  <2> SUFFICES ASSUME Quieted PROVE Standing'
    BY DEF Quieted
  <2>1. CASE \E s \in Surfaces : canonical = Sealed(s) /\ durable = Sealed(s)
    BY <2>1 DEF Standing
  <2>2. CASE \E i \in 1 .. Len(requests) : requests[i].signed /\ Adjacent(requests[i])
    <3>1. PICK i \in 1 .. Len(requests) : requests[i].signed /\ Adjacent(requests[i])
      BY <2>2
    <3>2. i \in 1 .. Len(requests') /\ requests'[i].signed /\ Adjacent(requests[i])'
      BY <1>0, <3>1, SameTransaction DEF Follows
    <3> QED BY <3>2 DEF Standing
  <2> QED BY <2>1, <2>2 DEF Standing, ResealIInv
<1> QED BY <1>1, <1>2, <1>3

\* The project changes, time passes, the signer signs.
LEMMA WorldStep ==
  ASSUME ResealIInv,
         Pass \/ (\E s \in Surfaces : Edit(s)) \/ (\E r \in 1 .. Len(requests) : Sign(r))
  PROVE  ResealIInv'
<1>1. UNCHANGED <<canonical, durable, receipts, op, reached, overlapped, unsynced>>
  BY DEF Pass, Edit, Sign, history
<1>2. surface' \in Surfaces /\ now' \in Nat /\ now <= now'
  BY DEF Pass, Edit, Sign, ResealIInv, Types, outside
<1>3. Follows /\ Len(requests') = Len(requests)
      /\ \A i \in 1 .. Len(requests) : requests'[i].candidate = requests[i].candidate
  <2>1. requests \in Seq(Request) /\ Len(requests) \in Nat
    BY DEF ResealIInv, Types
  <2>2. CASE requests' = requests
    BY <2>1, <2>2 DEF Follows
  <2>3. CASE \E r \in 1 .. Len(requests) : Sign(r)
    <3>1. PICK r \in 1 .. Len(requests) : requests' = [requests EXCEPT ![r].signed = TRUE]
      BY <2>3 DEF Sign
    <3>2. requests[r] \in Request
      BY <2>1
    <3>3. [requests[r] EXCEPT !.signed = TRUE] \in Request
      BY <3>2 DEF Request
    <3>4. requests' = [requests EXCEPT ![r] = [requests[r] EXCEPT !.signed = TRUE]]
      BY <3>1
    <3>5. requests' \in Seq(Request) /\ Len(requests') = Len(requests)
      BY <2>1, <3>3, <3>4, ExceptSeq
    <3>6. \A i \in 1 .. Len(requests) :
            requests'[i] = IF i = r THEN [requests[r] EXCEPT !.signed = TRUE] ELSE requests[i]
      BY <2>1, <3>4
    <3>7. \A i \in 1 .. Len(requests) : requests[i] \in Request
      BY <2>1
    <3>8. \A q \in Request : LET w == [q EXCEPT !.signed = TRUE] IN
             /\ w.from = q.from /\ w.to = q.to /\ w.created = q.created /\ w.expires = q.expires
             /\ w.candidate = q.candidate /\ w.signed
      BY DEF Request
    <3>9. ASSUME NEW i \in 1 .. Len(requests)
          PROVE  /\ requests'[i].from = requests[i].from /\ requests'[i].to = requests[i].to
                 /\ requests'[i].created = requests[i].created
                 /\ requests'[i].expires = requests[i].expires
                 /\ requests[i].signed => requests'[i].signed
                 /\ requests'[i].candidate = requests[i].candidate
      <4>1. CASE i = r
        BY <3>2, <3>6, <3>8, <4>1
      <4>2. CASE i # r
        BY <3>6, <4>2
      <4> QED BY <4>1, <4>2
    <3> QED BY <2>1, <3>5, <3>9 DEF Follows
  <2> QED BY <2>2, <2>3 DEF Pass, Edit
<1>4. Types'
  BY <1>1, <1>2, <1>3 DEF ResealIInv, Types, Follows
<1>5. \A i \in 1 .. Len(requests') : requests'[i].from # requests'[i].to
      /\ requests'[i].created <= now'
  <2>1. \A i \in 1 .. Len(requests) : requests[i].from # requests[i].to
        /\ requests[i].created <= now /\ requests[i].created \in Nat
    <3>1. \A i \in 1 .. Len(requests) : requests[i] \in Request
      BY DEF ResealIInv, Types
    <3> QED BY <3>1 DEF ResealIInv, Request
  <2>2. now \in Nat
    BY DEF ResealIInv, Types
  <2> QED BY <1>2, <1>3, <2>1, <2>2 DEF Follows
<1>6. \A p \in Operators : Looked(op[p])' /\ Owns(op[p])' /\ Writes(op[p])'
      /\ (Quieted' => Proceeds(op[p])')
  <2> SUFFICES ASSUME NEW p \in Operators
               PROVE  Looked(op[p])' /\ Owns(op[p])' /\ Writes(op[p])'
                      /\ (Quieted' => Proceeds(op[p])')
    OBVIOUS
  <2>1. op[p].pc = "fill" => requests'[op[p].request].candidate = "partial"
    BY <1>3 DEF ResealIInv, Owns
  <2> QED BY <1>1, <1>2, <1>3, <2>1, RequestsKept
<1>7. /\ \A o, p \in Operators : op'[o].pc = "fill" /\ op'[p].pc = "fill"
         /\ o # p => op'[o].request # op'[p].request
      /\ ~overlapped' => \A o, p \in Operators : Applying(o)'
                            /\ Applying(p)' => op'[o].request = op'[p].request
  BY <1>1 DEF ResealIInv, Applying
<1> QED BY <1>1, <1>3, <1>4, <1>5, <1>6, <1>7, RequestsElse DEF ResealIInv

\* A request begins as an empty directory, and ends whole or removed.
LEMMA BeginsStep ==
  ASSUME ResealIInv, NEW o \in Operators, PrepareBegins(o)
  PROVE  ResealIInv'
<1>m. /\ op \in [Operators -> OpSet] /\ op[o] \in OpSet
      /\ surface \in Surfaces /\ now \in Nat /\ op[o].seen \in Seq(Surfaces)
      /\ requests \in Seq(Request) /\ Len(requests) \in Nat
      /\ Looked(op[o]) /\ Owns(op[o]) /\ Writes(op[o])
  BY Mine
<1> USE <1>m
<1> DEFINE q == [from |-> op[o].seen[1], to |-> op[o].to, created |-> op[o].applied,
                 expires |-> op[o].applied + VALID_FOR, candidate |-> "partial",
                    signed |-> FALSE]
           n == Len(requests) + 1
           v == [op[o] EXCEPT !.pc = "fill", !.request = n]
<1>1. op[o].pc = "create" /\ requests' = Append(requests, q) /\ op' = [op EXCEPT ![o] = v]
      /\ UNCHANGED <<surface, now, canonical, durable, receipts, reached, overlapped, unsynced>>
  BY DEF PrepareBegins, Quiet, outside, history, OpSet
<1>2. Len(op[o].seen) = 2 /\ op[o].to \in Surfaces /\ op[o].to # op[o].seen[1]
      /\ op[o].applied <= now
      /\ op[o].applied \in Nat /\ op[o].receipt = NoReceipt
  BY <1>1 DEF Looked, Owns, OpSet, Pcs
<1>3. q \in Request
  <2>1. op[o].seen[1] \in Surfaces
    BY <1>2
  <2>2. op[o].applied + VALID_FOR \in Nat
    BY <1>2, ResealAssumption
  <2> QED BY <1>2, <2>1, <2>2 DEF Request
<1>4. q.from # q.to /\ q.created <= now /\ q.candidate = "partial"
  BY <1>2
<1>5. v \in OpSet /\ v.pc = "fill" /\ v.request = n /\ v.seen = op[o].seen
      /\ v.applied = op[o].applied
      /\ v.receipt = NoReceipt /\ v.returned = op[o].returned
  <2>1. n \in Nat
    OBVIOUS
  <2> HIDE DEF n
  <2> QED BY <1>2, <2>1 DEF OpSet, Pcs
<1>6. n \in Nat /\ n > Len(requests)
  OBVIOUS
<1> HIDE DEF q, v, n
<1>7. /\ requests' \in Seq(Request) /\ Len(requests') = n /\ requests'[n] = q
      /\ \A i \in 1 .. Len(requests) : requests'[i] = requests[i]
  BY <1>1, <1>3, AppendProperties DEF n
<1>8. n = Len(requests) + 1
  BY DEF n
<1>9. Follows
  BY <1>7, <1>8 DEF Follows
<1>10. op'[o] = v /\ (\A p \in Operators \ {o} : op'[p] = op[p]) /\ op' \in [Operators -> OpSet]
  BY <1>1, <1>5
<1>11. Types'
  BY <1>1, <1>7, <1>10 DEF ResealIInv, Types
<1>12. \A i \in 1 .. Len(requests') : requests'[i].from # requests'[i].to
       /\ requests'[i].created <= now'
  <2>1. \A i \in 1 .. Len(requests) : requests[i].from # requests[i].to
        /\ requests[i].created <= now
    BY DEF ResealIInv
  <2>2. \A i \in 1 .. n : i \in 1 .. Len(requests) \/ i = n
    BY <1>8
  <2> QED BY <1>1, <1>4, <1>7, <2>1, <2>2
<1>13. ASSUME NEW p \in Operators
       PROVE  Looked(op[p])' /\ Owns(op[p])' /\ Writes(op[p])' /\ (Quieted' => Proceeds(op[p])')
  <2>1. CASE p = o
    <3>1. Looked(op[o])'
      BY <1>1, <1>2, <1>5, <1>10 DEF Looked
    <3>2. Owns(op[o])'
      BY <1>4, <1>5, <1>6, <1>7, <1>10 DEF Owns, Pcs, Replacing, Ending
    <3>3. Writes(op[o])'
      BY <1>1, <1>5, <1>10 DEF Writes
    <3>4. Proceeds(op[o])'
      BY <1>5, <1>10 DEF Proceeds, Reading, Replacing, Ending
    <3> QED BY <2>1, <3>1, <3>2, <3>3, <3>4
  <2>2. CASE p # o
    <3>1. op'[p] = op[p]
      BY <1>10, <2>2
    <3>2. op[p].pc = "fill" => requests'[op[p].request].candidate = "partial"
      <4>1. op[p].pc = "fill" => op[p].request \in 1 .. Len(requests)
            /\ requests[op[p].request].candidate = "partial"
        BY DEF ResealIInv, Owns
      <4>2. \A i \in 1 .. Len(requests) : requests'[i].candidate = requests[i].candidate
        BY <1>7
      <4> QED BY <4>1, <4>2
    <3>3. /\ UNCHANGED <<canonical, durable, receipts, reached, overlapped, unsynced>>
          /\ now' \in Nat /\ now <= now'
      BY <1>1
    <3> QED BY <1>9, <3>1, <3>2, <3>3, RequestsKept
  <2> QED BY <2>1, <2>2
<1>14. ASSUME NEW a \in Operators, NEW b \in Operators, op'[a].pc = "fill", op'[b].pc = "fill",
              a # b
       PROVE  op'[a].request # op'[b].request
  <2>1. \A p \in Operators \ {o} : op'[p].pc = "fill" => op'[p].request \in 1 .. Len(requests)
    BY <1>10 DEF ResealIInv, Owns
  <2>2. n \notin 1 .. Len(requests)
    BY <1>6
  <2>3. CASE a = o \/ b = o
    BY <1>5, <1>10, <1>14, <2>1, <2>2, <2>3
  <2>4. CASE a # o /\ b # o
    BY <1>10, <1>14, <2>4 DEF ResealIInv
  <2> QED BY <2>3, <2>4
<1>15. ~overlapped' => \A a, b \in Operators : Applying(a)'
                          /\ Applying(b)' => op'[a].request = op'[b].request
  <2>1. ~overlapped => \A a, b \in Operators : Applying(a)
                          /\ Applying(b) => op[a].request = op[b].request
    BY DEF ResealIInv
  <2> QED BY <1>1, <1>5, <1>10, <2>1 DEF Applying
<1> QED BY <1>1, <1>9, <1>11, <1>12, <1>13, <1>14, <1>15, RequestsElse DEF ResealIInv

\* The partial candidate is made whole, or is removed again.
LEMMA EndsStep ==
  ASSUME ResealIInv, NEW o \in Operators, PrepareEnds(o)
  PROVE  ResealIInv'
<1>m. /\ op \in [Operators -> OpSet] /\ op[o] \in OpSet
      /\ surface \in Surfaces /\ now \in Nat
      /\ requests \in Seq(Request) /\ Len(requests) \in Nat
      /\ Looked(op[o]) /\ Owns(op[o]) /\ Writes(op[o])
  BY Mine
<1> USE <1>m
<1> DEFINE r == op[o].request
<1>1. op[o].pc = "fill" /\ r \in 1 .. Len(requests) /\ requests[r].candidate = "partial"
      /\ UNCHANGED <<surface, now, canonical, durable, receipts, reached, overlapped, unsynced>>
  BY DEF PrepareEnds, Quiet, outside, history, Owns
<1>2. PICK end \in {"whole", "gone"} : requests' = [requests EXCEPT ![r].candidate = end]
  BY DEF PrepareEnds
<1>3. requests[r] \in Request
  BY <1>1
<1> DEFINE q == [requests[r] EXCEPT !.candidate = end]
<1>4. q \in Request /\ q.from = requests[r].from /\ q.to = requests[r].to
      /\ q.created = requests[r].created
      /\ q.expires = requests[r].expires /\ q.signed = requests[r].signed
  BY <1>3 DEF Request
<1>5. requests' = [requests EXCEPT ![r] = q]
  BY <1>2
<1> HIDE DEF q
<1>6. requests' \in Seq(Request) /\ Len(requests') = Len(requests)
      /\ \A i \in 1 .. Len(requests) : requests'[i] = IF i = r THEN q ELSE requests[i]
  BY <1>1, <1>4, <1>5, ExceptSeq
<1>7. Follows
  BY <1>1, <1>4, <1>6 DEF Follows
<1>8. op'[o] = [pc |-> "idle", request |-> 0, receipt |-> NoReceipt, seen |-> <<>>, next |-> 0,
                applied |-> 0, to |-> 0, returned |-> op[o].returned]
      /\ (\A p \in Operators \ {o} : op'[p] = op[p])
  BY DEF PrepareEnds, Refuse, IdleOp
<1>9. op' \in [Operators -> OpSet]
  <2>1. [pc |-> "idle", request |-> 0, receipt |-> NoReceipt, seen |-> <<>>, next |-> 0,
         applied |-> 0, to |-> 0, returned |-> op[o].returned] \in OpSet
    BY DEF OpSet, Pcs
  <2> QED BY <2>1 DEF PrepareEnds, Refuse, IdleOp
<1>10. Types'
  BY <1>1, <1>6, <1>9 DEF ResealIInv, Types
<1>11. \A i \in 1 .. Len(requests') : requests'[i].from # requests'[i].to
       /\ requests'[i].created <= now'
  BY <1>1, <1>4, <1>6 DEF ResealIInv
<1>12. ASSUME NEW p \in Operators
       PROVE  Looked(op[p])' /\ Owns(op[p])' /\ Writes(op[p])' /\ (Quieted' => Proceeds(op[p])')
  <2>1. CASE p = o
    <3>1. Looked(op[o])' /\ Owns(op[o])' /\ Proceeds(op[o])'
      BY <1>1, <1>8 DEF Looked, Owns, Proceeds, Pcs, Reading, Replacing, Ending
    <3>2. Writes(op[o])'
      BY <1>1, <1>8 DEF Writes
    <3> QED BY <2>1, <3>1, <3>2
  <2>2. CASE p # o
    <3>1. op'[p] = op[p]
      BY <1>8, <2>2
    <3>2. op[p].pc = "fill" => requests'[op[p].request].candidate = "partial"
      <4>1. op[p].pc = "fill" => op[p].request # r /\ op[p].request \in 1 .. Len(requests)
                                 /\ requests[op[p].request].candidate = "partial"
        BY <1>1, <2>2 DEF ResealIInv, Owns
      <4> QED BY <1>6, <4>1
    <3> QED BY <1>1, <1>7, <3>1, <3>2, RequestsKept
  <2> QED BY <2>1, <2>2
<1>13. \A a, b \in Operators : op'[a].pc = "fill" /\ op'[b].pc = "fill"
       /\ a # b => op'[a].request # op'[b].request
  BY <1>8 DEF ResealIInv
<1>14. ~overlapped' => \A a, b \in Operators : Applying(a)'
                          /\ Applying(b)' => op'[a].request = op'[b].request
  <2>1. ~overlapped => \A a, b \in Operators : Applying(a)
                          /\ Applying(b) => op[a].request = op[b].request
    BY DEF ResealIInv
  <2> QED BY <1>1, <1>8, <2>1 DEF Applying
<1> QED BY <1>1, <1>7, <1>10, <1>11, <1>12, <1>13, <1>14, RequestsElse DEF ResealIInv

\* A file is replaced: whoever is at it has the same request.
LEMMA ReplacesStep ==
  ASSUME ResealIInv, NEW o \in Operators, ApplyReplaces(o)
  PROVE  ResealIInv'
<1>m. /\ op \in [Operators -> OpSet] /\ op[o] \in OpSet
      /\ surface \in Surfaces /\ now \in Nat /\ canonical \in FileSet /\ durable \in FileSet
      /\ requests \in Seq(Request)
      /\ Looked(op[o]) /\ Owns(op[o]) /\ Writes(op[o]) /\ (Quieted => Proceeds(op[o]))
  BY Mine
<1> USE <1>m
<1> DEFINE r == Req(o)
           k == op[o].next
           v == [op[o] EXCEPT !.pc = "sync"]
<1>1. /\ op[o].pc = "replace" /\ op' = [op EXCEPT ![o] = v]
      /\ canonical' = [canonical EXCEPT ![Files[k]] = r.to]
      /\ UNCHANGED <<surface, now, durable, requests, receipts, reached, overlapped, unsynced>>
  BY DEF ApplyReplaces, Turn, outside, history
<1>2. op[o].request \in 1 .. Len(requests) /\ k \in 1 .. 3 /\ op[o].receipt # NoReceipt
      /\ Timely(r, op[o].applied) /\ r.candidate = "whole" /\ r.signed
  BY <1>1 DEF Owns, Pcs, Replacing, Req
<1>3. r \in Request /\ r.from # r.to
  BY <1>2 DEF ResealIInv, Req
<1>4. v \in OpSet /\ v.pc = "sync" /\ v.next = k /\ v.seen = op[o].seen
      /\ v.request = op[o].request
      /\ v.receipt = op[o].receipt /\ v.returned = op[o].returned /\ v.applied = op[o].applied
  BY DEF OpSet, Replacing
<1> HIDE DEF v
<1>5. op'[o] = v /\ (\A p \in Operators \ {o} : op'[p] = op[p]) /\ op' \in [Operators -> OpSet]
  BY <1>1, <1>4
<1>6. /\ canonical' \in FileSet
      /\ canonical'.profile = IF k = 1 THEN r.to ELSE canonical.profile
      /\ canonical'.manifest = IF k = 2 THEN r.to ELSE canonical.manifest
      /\ canonical'.pin = IF k = 3 THEN r.to ELSE canonical.pin
  <2>1. r.to \in Surfaces
    BY <1>3 DEF Request
  <2>2. CASE k = 1
    BY <1>1, <2>1, <2>2, FilesAre DEF FileSet
  <2>3. CASE k = 2
    BY <1>1, <2>1, <2>3, FilesAre DEF FileSet
  <2>4. CASE k = 3
    BY <1>1, <2>1, <2>4, FilesAre DEF FileSet
  <2> QED BY <1>2, <2>2, <2>3, <2>4
<1>7. Quieted => Adjacent(r)' /\ canonical' \in Standings(r) /\ canonical \in Standings(r)
      /\ Done(canonical', r, k + 1)
  <2> SUFFICES ASSUME Quieted
               PROVE  Adjacent(r)' /\ canonical' \in Standings(r)
                      /\ canonical \in Standings(r) /\ Done(canonical', r, k + 1)
    OBVIOUS
  <2>1. Adjacent(r) /\ Done(canonical, r, k) /\ Done(durable, r, k)
    BY <1>1 DEF Proceeds, Replacing, Req
  <2>2. PICK m \in 0 .. 3, n \in 0 .. 3 : n \in {m, m + 1} /\ durable = Prefix(r, m)
        /\ canonical = Prefix(r, n)
    BY <2>1 DEF Adjacent
  <2>3. k <= m + 1
    BY <1>2, <1>3, <2>1, <2>2 DEF Done, Prefix, State
  <2>4. PICK i \in 0 .. 3 : i \in {m, m + 1} /\ i = IF k > n THEN k ELSE n
    BY <1>2, <2>2, <2>3
  <2>5. canonical' = Prefix(r, i)
    <3>1. canonical' = State(canonical'.profile, canonical'.manifest, canonical'.pin)
      BY <1>6 DEF FileSet, State
    <3>2. /\ canonical.profile = IF n >= 1 THEN r.to ELSE r.from
          /\ canonical.manifest = IF n >= 2 THEN r.to ELSE r.from
          /\ canonical.pin = IF n = 3 THEN r.to ELSE r.from
      BY <2>2 DEF Prefix, State
    <3>3. k <= n \/ k = n + 1
      BY <1>2, <2>2, <2>3
    <3>4. /\ canonical'.profile = IF i >= 1 THEN r.to ELSE r.from
          /\ canonical'.manifest = IF i >= 2 THEN r.to ELSE r.from
          /\ canonical'.pin = IF i = 3 THEN r.to ELSE r.from
      BY <1>2, <1>6, <2>2, <2>4, <3>2, <3>3
    <3> QED BY <3>1, <3>4 DEF Prefix
  <2>6. Adjacent(r)'
    <3>1. r' = r /\ durable' = Prefix(r, m)
      BY <1>1, <1>4, <1>5, <2>2 DEF Req
    <3>2. Prefix(r, m)' = Prefix(r, m) /\ Prefix(r, i)' = Prefix(r, i)
      BY <3>1 DEF Prefix, State
    <3> QED BY <2>2, <2>4, <2>5, <3>1, <3>2 DEF Adjacent
  <2>7. canonical' \in Standings(r) /\ canonical \in Standings(r)
    BY <2>2, <2>4, <2>5 DEF Standings
  <2>8. Done(canonical', r, k + 1)
    BY <1>2, <1>6, <2>1 DEF Done
  <2> QED BY <2>6, <2>7, <2>8
<1>8. Types'
  BY <1>1, <1>5, <1>6 DEF ResealIInv, Types
<1>9. \A i \in 1 .. Len(requests') : requests'[i].from # requests'[i].to
      /\ requests'[i].created <= now'
  BY <1>1 DEF ResealIInv
<1>10. Looked(op[o])' /\ Owns(op[o])' /\ Writes(op[o])'
  <2>1. Looked(op[o])'
    BY <1>1, <1>4, <1>5 DEF Looked
  <2>2. Owns(op[o])'
    BY <1>1, <1>2, <1>4, <1>5 DEF Owns, Pcs, Replacing, Ending, Req, Timely
  <2> QED BY <2>1, <2>2, <1>1, <1>4, <1>5 DEF Writes
<1>11. Quieted' => Proceeds(op[o])'
  <2> SUFFICES ASSUME Quieted PROVE Proceeds(op[o])'
    BY <1>1 DEF Quieted
  <2>1. op'[o].pc = "sync" /\ op'[o].next = k /\ requests'[op'[o].request] = r
        /\ durable' = durable
    BY <1>1, <1>4, <1>5 DEF Req
  <2>2. Done(durable, r, k) /\ Done(canonical', r, k + 1)
    BY <1>1, <1>7 DEF Proceeds, Replacing, Req
  <2>3. Done(canonical', r, k)
    BY <1>2, <2>2 DEF Done
  <2>4. Done(canonical, requests[op[o].request], op[o].next)'
        /\ Done(durable, requests[op[o].request], op[o].next)'
        /\ Done(canonical, requests[op[o].request], op[o].next + 1)'
    BY <2>1, <2>2, <2>3 DEF Done
  <2>5. Adjacent(requests[op[o].request])'
    BY <1>7 DEF Req
  <2> QED BY <2>1, <2>4, <2>5 DEF Proceeds, Reading, Replacing, Ending
<1>12. ASSUME NEW p \in Operators, p # o
       PROVE  Looked(op[p])' /\ Owns(op[p])' /\ Writes(op[p])' /\ (Quieted' => Proceeds(op[p])')
  <2>1. op'[p] = op[p] /\ op[p] \in OpSet
    BY <1>5, <1>12
  <2>2. Looked(op[p]) /\ Owns(op[p]) /\ Writes(op[p]) /\ (Quieted => Proceeds(op[p]))
    BY DEF ResealIInv
  <2>3. Looked(op[p])' /\ Owns(op[p])' /\ Writes(op[p])'
    BY <1>1, <2>1, <2>2 DEF Looked, Owns, Writes, Timely
  <2>4. Quieted' => Proceeds(op[p])'
    <3> SUFFICES ASSUME Quieted, op[p].pc \notin Pcs PROVE Proceeds(op[p])'
      BY <1>1, <2>1 DEF Quieted, Proceeds, Pcs, Reading, Replacing, Ending
    <3>1. op[p].receipt # NoReceipt
      BY <2>2 DEF Owns
    <3>2. op[p].request = op[o].request
      BY <1>2, <3>1 DEF ResealIInv, Applying, Quieted
    <3>3. requests[op[p].request] = r /\ requests'[op'[p].request] = r /\ op'[p].pc = op[p].pc
          /\ op'[p].next = op[p].next /\ op'[p].seen = op[p].seen
          /\ op'[o].request = op[o].request
          /\ requests'[op'[o].request] = r
      BY <1>1, <1>4, <1>5, <2>1, <3>2 DEF Req
    <3>4. op[p].pc \in Reading => Glimpsed(op[p])'
      <4> SUFFICES ASSUME op[p].pc \in Reading PROVE Glimpsed(op[p])'
        OBVIOUS
      <4>1. Glimpsed(op[p]) /\ Len(op[p].seen) <= 3 /\ op[p].seen \in Seq(Surfaces)
        BY <2>1, <2>2 DEF Proceeds, Looked, OpSet
      <4>2. canonical' \in Standings(r) /\ canonical \in Standings(r)
        BY <1>7
      <4>3. \A j \in 1 .. 3 : canonical[Files[j]] \in {r.from, r.to}
        BY <4>2, FilesAre DEF Standings, Prefix, State
      <4>4. \A j \in 1 .. 3 : canonical'[Files[j]] \in {canonical[Files[j]], r.to}
        BY <1>6, FilesAre
      <4>5. \A j \in 1 .. Len(op[p].seen) : op[p].seen[j] \in {canonical'[Files[j]], r.from}
        <5> SUFFICES ASSUME NEW j \in 1 .. Len(op[p].seen)
                     PROVE  op[p].seen[j] \in {canonical'[Files[j]], r.from}
          OBVIOUS
        <5>1. op[p].seen[j] \in {canonical[Files[j]], r.from}
          BY <3>3, <4>1 DEF Glimpsed
        <5>2. j \in 1 .. 3
          BY <4>1
        <5> QED BY <4>3, <4>4, <5>1, <5>2
      <4>6. Standings(r)' = Standings(r)
        BY <3>3 DEF Standings, Prefix, State, Req
      <4>7. Standings(requests[op[p].request])' = Standings(r)
        BY <3>3 DEF Standings, Prefix, State
      <4> QED BY <3>3, <4>2, <4>5, <4>7 DEF Glimpsed
    <3>5. op[p].pc \in Replacing => /\ Adjacent(requests[op[p].request])'
                                    /\ Done(canonical, requests[op[p].request], op[p].next)'
                                    /\ Done(durable, requests[op[p].request], op[p].next)'
      <4> SUFFICES ASSUME op[p].pc \in Replacing
                   PROVE  /\ Adjacent(requests[op[p].request])'
                          /\ Done(canonical, requests[op[p].request], op[p].next)'
                          /\ Done(durable, requests[op[p].request], op[p].next)'
        OBVIOUS
      <4>1. Adjacent(requests[op[p].request])'
        BY <1>7, <3>3 DEF Req, Adjacent, Prefix, State
      <4>2. Done(canonical, r, op[p].next) /\ Done(durable, r, op[p].next)
        BY <2>2, <3>3 DEF Proceeds
      <4>3. Done(canonical', r, op[p].next)
        BY <1>6, <4>2 DEF Done
      <4> QED BY <1>1, <3>3, <4>1, <4>2, <4>3 DEF Done
    <3>6. op[p].pc = "sync" => Done(canonical, requests[op[p].request], op[p].next + 1)'
      <4>1. op[p].pc = "sync" => Done(canonical, r, op[p].next + 1)
        BY <2>2, <3>3 DEF Proceeds
      <4>2. Done(canonical, r, op[p].next + 1) => Done(canonical', r, op[p].next + 1)
        BY <1>6 DEF Done
      <4> QED BY <3>3, <4>1, <4>2 DEF Done
    <3>7. op[p].pc \in Ending => r.to \in reached'
      BY <1>1, <2>2, <3>3 DEF Proceeds
    <3> QED BY <3>3, <3>4, <3>5, <3>6, <3>7 DEF Proceeds
  <2> QED BY <2>3, <2>4
<1>13. \A c \in Receipts : Filed(c)'
  <2>1. \A c \in Receipts : Filed(c)
    BY DEF ResealIInv
  <2> QED BY <1>1, <2>1 DEF Filed, Timely, Quieted
<1>14. \A a, b \in Operators : op'[a].pc = "fill" /\ op'[b].pc = "fill"
       /\ a # b => op'[a].request # op'[b].request
  BY <1>4, <1>5 DEF ResealIInv
<1>15. ~overlapped' => \A a, b \in Operators : Applying(a)'
                          /\ Applying(b)' => op'[a].request = op'[b].request
  <2>1. ~overlapped => \A a, b \in Operators : Applying(a)
                          /\ Applying(b) => op[a].request = op[b].request
    BY DEF ResealIInv
  <2> QED BY <1>1, <1>4, <1>5, <2>1 DEF Applying
<1>16. \A s \in Surfaces : durable' = Sealed(s) => s \in reached'
  BY <1>1 DEF ResealIInv
<1>17. Quieted' => Standing'
  <2> SUFFICES ASSUME Quieted PROVE Standing'
    BY <1>1 DEF Quieted
  <2>1. Adjacent(requests[op[o].request])' /\ op'[o].request = op[o].request
    BY <1>4, <1>5, <1>7 DEF Req
  <2>2. requests'[op[o].request].signed /\ op[o].request \in 1 .. Len(requests')
    BY <1>1, <1>2 DEF Req
  <2> QED BY <2>1, <2>2 DEF Standing, Adjacent
<1>18. \A p \in Operators : Looked(op[p])' /\ Owns(op[p])' /\ Writes(op[p])'
       /\ (Quieted' => Proceeds(op[p])')
  BY <1>10, <1>11, <1>12
<1> QED BY <1>8, <1>9, <1>13, <1>14, <1>15, <1>16, <1>17, <1>18 DEF ResealIInv

\* The directories are synced: what is on disk is what the readers see.
LEMMA SyncsStep ==
  ASSUME ResealIInv, NEW o \in Operators, ApplySyncs(o)
  PROVE  ResealIInv'
<1>m. /\ op \in [Operators -> OpSet] /\ op[o] \in OpSet
      /\ surface \in Surfaces /\ now \in Nat /\ canonical \in FileSet /\ durable \in FileSet
      /\ requests \in Seq(Request) /\ op[o].seen \in Seq(Surfaces)
      /\ Looked(op[o]) /\ Owns(op[o]) /\ Writes(op[o]) /\ (Quieted => Proceeds(op[o]))
  BY Mine
<1> USE <1>m
<1> DEFINE r == Req(o)
           k == op[o].next
           v == [op[o] EXCEPT !.next = @ + 1, !.pc = IF k = 3 THEN "back" ELSE "check"]
<1>1. /\ op[o].pc = "sync" /\ op' = [op EXCEPT ![o] = v] /\ durable' = Synced(o)
      /\ reached' = reached \cup {s \in Surfaces : durable' = Sealed(s)}
      /\ UNCHANGED <<surface, now, canonical, requests, receipts, overlapped, unsynced>>
  BY DEF ApplySyncs, outside, OpSet
<1>2. op[o].request \in 1 .. Len(requests) /\ k \in 1 .. 3 /\ op[o].receipt # NoReceipt
      /\ Timely(r, op[o].applied) /\ r.candidate = "whole" /\ r.signed
  BY <1>1 DEF Owns, Pcs, Replacing, Req
<1>3. r \in Request /\ r.from # r.to
  BY <1>2 DEF ResealIInv, Req
<1>4. v \in OpSet /\ v.pc = (IF k = 3 THEN "back" ELSE "check") /\ v.next = k + 1
      /\ v.seen = op[o].seen
      /\ v.request = op[o].request
      /\ v.receipt = op[o].receipt /\ v.returned = op[o].returned /\ v.applied = op[o].applied
  <2>1. k + 1 \in 0 .. 4
    BY <1>2
  <2> QED BY <2>1 DEF OpSet, Replacing, Ending
<1> HIDE DEF v
<1>5. op'[o] = v /\ (\A p \in Operators \ {o} : op'[p] = op[p]) /\ op' \in [Operators -> OpSet]
  BY <1>1, <1>4
<1>6. durable' \in FileSet /\ (k # 3 => durable' = canonical)
      /\ (k = 3 => durable'.pin = canonical.pin /\ durable'.profile = durable.profile
                   /\ durable'.manifest = durable.manifest)
  BY <1>1 DEF Synced, FileSet
<1>7. Quieted => /\ Done(canonical, r, k + 1) /\ Done(durable', r, k + 1)
                 /\ Adjacent(r)' /\ (k = 3 => r.to \in reached')
  <2> SUFFICES ASSUME Quieted
               PROVE  /\ Done(canonical, r, k + 1) /\ Done(durable', r, k + 1)
                      /\ Adjacent(r)' /\ (k = 3 => r.to \in reached')
    OBVIOUS
  <2>1. Adjacent(r) /\ Done(canonical, r, k + 1) /\ Done(durable, r, k)
    BY <1>1 DEF Proceeds, Replacing, Req
  <2>2. PICK m \in 0 .. 3, n \in 0 .. 3 : n \in {m, m + 1} /\ durable = Prefix(r, m)
        /\ canonical = Prefix(r, n)
    BY <2>1 DEF Adjacent
  <2>3. Done(durable', r, k + 1)
    BY <1>2, <1>6, <2>1 DEF Done
  <2>4. \A i \in 0 .. 3 : Prefix(r, i)' = Prefix(r, i)
    BY <1>1, <1>4, <1>5 DEF Prefix, State, Req
  <2>5. CASE k # 3
    <3>1. durable' = Prefix(r, n)' /\ canonical' = Prefix(r, n)'
      BY <1>1, <1>6, <2>2, <2>4, <2>5
    <3>2. Adjacent(r)'
      BY <3>1 DEF Adjacent
    <3> QED BY <2>1, <2>3, <2>5, <3>2
  <2>6. CASE k = 3
    <3>1. durable'.profile = r.to /\ durable'.manifest = r.to /\ durable'.pin = r.to
      BY <1>6, <2>3, <2>6 DEF Done
    <3>2. canonical.profile = r.to /\ canonical.manifest = r.to /\ canonical.pin = r.to
      BY <2>1, <2>6 DEF Done
    <3>3. durable' = State(r.to, r.to, r.to) /\ canonical = State(r.to, r.to, r.to)
      BY <1>6, <3>1, <3>2 DEF FileSet, State
    <3>4. State(r.to, r.to, r.to) = Prefix(r, 3)
      BY DEF Prefix
    <3>5. Adjacent(r)'
      BY <1>1, <2>4, <3>3, <3>4 DEF Adjacent
    <3>6. r.to \in Surfaces /\ durable' = Sealed(r.to)
      BY <1>3, <3>3 DEF Sealed, Request
    <3> QED BY <1>1, <2>1, <2>3, <3>5, <3>6
  <2> QED BY <2>5, <2>6
<1>8. Types'
  BY <1>1, <1>5, <1>6 DEF ResealIInv, Types
<1>9. \A i \in 1 .. Len(requests') : requests'[i].from # requests'[i].to
      /\ requests'[i].created <= now'
  BY <1>1 DEF ResealIInv
<1>10. Looked(op[o])' /\ Owns(op[o])' /\ Writes(op[o])'
  <2>1. Len(op[o].seen) = 0
    BY <1>1 DEF Looked
  <2>2. Looked(op[o])'
    BY <1>1, <1>4, <1>5, <2>1 DEF Looked
  <2>3. Owns(op[o])'
    <3>1. v.next \in 1 .. 4 /\ (v.pc = "check" => v.next # 4)
      BY <1>2, <1>4
    <3>2. v.pc \in {"check", "back"}
      BY <1>4
    <3> QED BY <1>1, <1>2, <1>4, <1>5, <3>1, <3>2 DEF Owns, Pcs, Replacing, Ending, Req, Timely
  <2> QED BY <2>2, <2>3, <1>1, <1>4, <1>5 DEF Writes
<1>11. Quieted' => Proceeds(op[o])'
  <2> SUFFICES ASSUME Quieted PROVE Proceeds(op[o])'
    BY <1>1 DEF Quieted
  <2>1. op'[o].next = k + 1 /\ requests'[op'[o].request] = r /\ canonical' = canonical
    BY <1>1, <1>4, <1>5 DEF Req
  <2>2. Done(canonical, requests[op[o].request], op[o].next)'
        /\ Done(durable, requests[op[o].request], op[o].next)'
    BY <1>7, <2>1 DEF Done
  <2>3. Adjacent(requests[op[o].request])'
    BY <1>7 DEF Req
  <2>4. op'[o].pc = "check" \/ (op'[o].pc = "back" /\ k = 3)
    BY <1>4, <1>5
  <2> QED BY <1>7, <2>1, <2>2, <2>3, <2>4 DEF Proceeds, Reading, Replacing, Ending
<1>12. ASSUME NEW p \in Operators, p # o
       PROVE  Looked(op[p])' /\ Owns(op[p])' /\ Writes(op[p])' /\ (Quieted' => Proceeds(op[p])')
  <2>1. op'[p] = op[p] /\ op[p] \in OpSet
    BY <1>5, <1>12
  <2>2. Looked(op[p]) /\ Owns(op[p]) /\ Writes(op[p]) /\ (Quieted => Proceeds(op[p]))
    BY DEF ResealIInv
  <2>3. Looked(op[p])' /\ Owns(op[p])' /\ Writes(op[p])'
    BY <1>1, <2>1, <2>2 DEF Looked, Owns, Writes, Timely
  <2>4. Quieted' => Proceeds(op[p])'
    <3> SUFFICES ASSUME Quieted, op[p].pc \notin Pcs PROVE Proceeds(op[p])'
      BY <1>1, <2>1 DEF Quieted, Proceeds, Pcs, Reading, Replacing, Ending
    <3>1. op[p].receipt # NoReceipt
      BY <2>2 DEF Owns
    <3>2. op[p].request = op[o].request
      BY <1>2, <3>1 DEF ResealIInv, Applying, Quieted
    <3>3. requests[op[p].request] = r /\ requests'[op'[p].request] = r /\ op'[p].pc = op[p].pc
          /\ op'[p].next = op[p].next /\ op'[p].seen = op[p].seen
          /\ op'[o].request = op[o].request
          /\ requests'[op'[o].request] = r /\ canonical' = canonical
      BY <1>1, <1>4, <1>5, <2>1, <3>2 DEF Req
    <3>4. op[p].pc \in Reading => Glimpsed(op[p])'
      BY <2>2, <3>3 DEF Proceeds, Glimpsed, Standings, Prefix, State
    <3>5. op[p].pc \in Replacing => /\ Adjacent(requests[op[p].request])'
                                    /\ Done(canonical, requests[op[p].request], op[p].next)'
                                    /\ Done(durable, requests[op[p].request], op[p].next)'
      <4> SUFFICES ASSUME op[p].pc \in Replacing
                   PROVE  /\ Adjacent(requests[op[p].request])'
                          /\ Done(canonical, requests[op[p].request], op[p].next)'
                          /\ Done(durable, requests[op[p].request], op[p].next)'
        OBVIOUS
      <4>1. Adjacent(requests[op[p].request])'
        BY <1>7, <3>3 DEF Req, Adjacent, Prefix, State
      <4>2. Done(canonical, r, op[p].next) /\ Done(durable, r, op[p].next)
        BY <2>2, <3>3 DEF Proceeds
      <4>3. Done(durable', r, op[p].next)
        BY <1>6, <4>2 DEF Done
      <4> QED BY <1>1, <3>3, <4>1, <4>2, <4>3 DEF Done
    <3>6. op[p].pc = "sync" => Done(canonical, requests[op[p].request], op[p].next + 1)'
      BY <2>2, <3>3 DEF Proceeds, Done
    <3>7. op[p].pc \in Ending => r.to \in reached'
      BY <1>1, <2>2, <3>3 DEF Proceeds
    <3> QED BY <3>3, <3>4, <3>5, <3>6, <3>7 DEF Proceeds
  <2> QED BY <2>3, <2>4
<1>13. \A c \in Receipts : Filed(c)'
  <2>1. \A c \in Receipts : Filed(c)
    BY DEF ResealIInv
  <2> QED BY <1>1, <2>1 DEF Filed, Timely, Quieted
<1>14. \A a, b \in Operators : op'[a].pc = "fill" /\ op'[b].pc = "fill"
       /\ a # b => op'[a].request # op'[b].request
  BY <1>4, <1>5 DEF ResealIInv
<1>15. ~overlapped' => \A a, b \in Operators : Applying(a)'
                          /\ Applying(b)' => op'[a].request = op'[b].request
  <2>1. ~overlapped => \A a, b \in Operators : Applying(a)
                          /\ Applying(b) => op[a].request = op[b].request
    BY DEF ResealIInv
  <2> QED BY <1>1, <1>4, <1>5, <2>1 DEF Applying
<1>16. \A s \in Surfaces : durable' = Sealed(s) => s \in reached'
  BY <1>1
<1>17. Quieted' => Standing'
  <2> SUFFICES ASSUME Quieted PROVE Standing'
    BY <1>1 DEF Quieted
  <2>1. Adjacent(requests[op[o].request])' /\ op'[o].request = op[o].request
    BY <1>4, <1>5, <1>7 DEF Req
  <2>2. requests'[op[o].request].signed /\ op[o].request \in 1 .. Len(requests')
    BY <1>1, <1>2 DEF Req
  <2> QED BY <2>1, <2>2 DEF Standing, Adjacent
<1>18. \A p \in Operators : Looked(op[p])' /\ Owns(op[p])' /\ Writes(op[p])'
       /\ (Quieted' => Proceeds(op[p])')
  BY <1>10, <1>11, <1>12
<1> QED BY <1>8, <1>9, <1>13, <1>14, <1>15, <1>16, <1>17, <1>18 DEF ResealIInv

\* An operator that ended with what it returned.
LEMMA IdleIs ==
  ASSUME NEW q \in SUBSET Receipts
  PROVE  /\ [IdleOp EXCEPT !.returned = q] \in OpSet
         /\ [IdleOp EXCEPT !.returned = q].pc = "idle"
         /\ [IdleOp EXCEPT !.returned = q].receipt = NoReceipt
         /\ [IdleOp EXCEPT !.returned = q].seen = <<>>
         /\ [IdleOp EXCEPT !.returned = q].applied = 0
         /\ [IdleOp EXCEPT !.returned = q].returned = q
<1> DEFINE w == [pc |-> "idle", request |-> 0, receipt |-> NoReceipt, seen |-> <<>>, next |-> 0,
                 applied |-> 0, to |-> 0, returned |-> q]
<1>1. [IdleOp EXCEPT !.returned = q] = w
  BY DEF IdleOp
<1>2. w \in OpSet
  BY DEF OpSet, Pcs
<1> QED BY <1>1, <1>2

\* Receipts are added, lose their second name and are synced.
Retained ==
    /\ receipts' \in [Receipts -> Receipt \cup {NoReceipt}]
    /\ \A c \in Receipts : receipts[c] # NoReceipt =>
         /\ receipts'[c] # NoReceipt
         /\ receipts'[c].request = receipts[c].request
         /\ receipts'[c].applied = receipts[c].applied
         /\ receipts[c].links = 1 => receipts'[c].links = 1
         /\ receipts[c].synced => receipts'[c].synced

\* A step of one operator at its own receipt.
LEMMA ReceiptTurn ==
  ASSUME ResealIInv, NEW o \in Operators,
         UNCHANGED <<surface, now, canonical, durable, requests, reached, overlapped,
            unsynced>>,
         Retained, op' \in [Operators -> OpSet], \A p \in Operators \ {o} : op'[p] = op[p],
         op'[o].pc # "fill",
         op'[o].receipt # NoReceipt => op'[o].receipt = op[o].receipt
         /\ op'[o].request = op[o].request,
         Looked(op[o])', Owns(op[o])', Writes(op[o])', Quieted' => Proceeds(op[o])',
         \A c \in Receipts : receipts[c] = NoReceipt => Filed(c)'
  PROVE  ResealIInv'
<1>1. Types'
  BY DEF ResealIInv, Types, Retained
<1>2. \A i \in 1 .. Len(requests') : requests'[i].from # requests'[i].to
      /\ requests'[i].created <= now'
  BY DEF ResealIInv
<1>3. ASSUME NEW p \in Operators
      PROVE  Looked(op[p])' /\ Owns(op[p])' /\ Writes(op[p])' /\ (Quieted' => Proceeds(op[p])')
  <2>1. CASE p = o
    BY <2>1
  <2>2. CASE p # o
    <3>1. op'[p] = op[p] /\ op[p] \in OpSet
      BY <2>2 DEF ResealIInv, Types
    <3>2. Looked(op[p]) /\ Owns(op[p]) /\ Writes(op[p]) /\ (Quieted => Proceeds(op[p]))
      BY DEF ResealIInv
    <3>3. Looked(op[p])' /\ Owns(op[p])'
      BY <3>1, <3>2 DEF Looked, Owns, Timely
    <3>4. Writes(op[p])'
      <4>1. op[p].returned \subseteq Receipts
        BY <3>1 DEF OpSet
      <4>2. op[p].pc \in {"unlink", "return"} => op[p].receipt \in Receipts
        BY <3>1, <3>2 DEF OpSet, Owns, Pcs
      <4> QED BY <3>1, <3>2, <4>1, <4>2 DEF Writes, Retained
    <3>5. Glimpsed(op[p]) => Glimpsed(op[p])'
      BY <3>1 DEF Glimpsed, Standings, Prefix, State
    <3>6. Adjacent(requests[op[p].request]) => Adjacent(requests[op[p].request])'
      BY <3>1 DEF Adjacent, Prefix, State
    <3>7. \A k \in {op[p].next, op[p].next + 1} :
            /\ Done(canonical, requests[op[p].request], k) => Done(canonical,
                  requests[op[p].request], k)'
            /\ Done(durable, requests[op[p].request], k) => Done(durable,
                  requests[op[p].request], k)'
      BY <3>1 DEF Done
    <3>8. Quieted' => Proceeds(op[p])'
      BY <3>1, <3>2, <3>5, <3>6, <3>7 DEF Proceeds, Quieted
    <3> QED BY <3>3, <3>4, <3>8
  <2> QED BY <2>1, <2>2
<1>4. \A c \in Receipts : Filed(c)'
  <2>1. \A c \in Receipts : receipts[c] # NoReceipt => Filed(c)
    BY DEF ResealIInv
  <2> QED BY <2>1 DEF Filed, Quieted, Timely, Retained
<1>5. \A p, q \in Operators :
         op'[p].pc = "fill" /\ op'[q].pc = "fill" /\ p # q => op'[p].request # op'[q].request
  BY DEF ResealIInv
<1>6. ~overlapped' => \A p, q \in Operators : Applying(p)'
                         /\ Applying(q)' => op'[p].request = op'[q].request
  <2>1. ~overlapped => \A p, q \in Operators : Applying(p)
                          /\ Applying(q) => op[p].request = op[q].request
    BY DEF ResealIInv
  <2> QED BY <2>1 DEF Applying
<1>7. \A s \in Surfaces : durable' = Sealed(s) => s \in reached'
  BY DEF ResealIInv
<1>8. Quieted' => Standing'
  <2>1. Quieted => Standing
    BY DEF ResealIInv
  <2> QED BY <2>1 DEF Quieted, Standing, Adjacent, Prefix, State
<1> QED BY <1>1, <1>2, <1>3, <1>4, <1>5, <1>6, <1>7, <1>8 DEF ResealIInv

\* The operator that links, unlinks or syncs its receipt.
LEMMA ReceiptStep ==
  ASSUME ResealIInv, NEW o \in Operators,
         \/ ApplyLinks(o) \/ ApplyUnlinks(o) \/ ApplyReturns(o)
         \/ Fail(o) \/ Kill(o)
  PROVE  ResealIInv'
<1>m. /\ op \in [Operators -> OpSet] /\ op[o] \in OpSet /\ now \in Nat
      /\ receipts \in [Receipts -> Receipt \cup {NoReceipt}]
      /\ Looked(op[o]) /\ Owns(op[o]) /\ Writes(op[o]) /\ (Quieted => Proceeds(op[o]))
  BY Mine DEF ResealIInv, Types
<1> USE <1>m
<1> DEFINE c == op[o].receipt
           idle == [pc |-> "idle", request |-> 0, receipt |-> NoReceipt, seen |-> <<>>,
              next |-> 0,
                    applied |-> 0, to |-> 0, returned |-> op[o].returned]
<1>1. UNCHANGED <<surface, now, canonical, durable, requests, reached, overlapped, unsynced>>
  BY DEF ApplyLinks, ApplyUnlinks, ApplyReturns, Fail, Kill, outside, history
<1>2. CASE ApplyLinks(o) /\ receipts[c] # NoReceipt
  BY <1>1, <1>2, Idle DEF ApplyLinks
<1>3. CASE ApplyLinks(o) /\ receipts[c] = NoReceipt
  <2> DEFINE v == [op[o] EXCEPT !.pc = "unlink"]
             new == [request |-> op[o].request, applied |-> op[o].applied, links |-> 2,
                synced |-> FALSE]
  <2>1. op[o].pc = "link" /\ op' = [op EXCEPT ![o] = v]
        /\ receipts' = [receipts EXCEPT ![c] = new]
    BY <1>3 DEF ApplyLinks, Turn
  <2>2. c \in Receipts /\ op[o].request \in 1 .. Len(requests)
        /\ Timely(requests[op[o].request], op[o].applied)
        /\ requests[op[o].request].candidate = "whole" /\ requests[op[o].request].signed
    BY <2>1 DEF Owns, OpSet, Pcs, Replacing, Ending
  <2>3. new \in Receipt /\ new # NoReceipt
    <3>1. new \in Receipt
      BY DEF Receipt, OpSet
    <3>2. new \in [request : Nat, applied : Nat, links : Nat, synced : BOOLEAN]
      BY DEF OpSet
    <3> QED BY <3>1, <3>2, ResealAssumption
  <2>4. v \in OpSet /\ v.pc = "unlink" /\ v.next = op[o].next /\ v.seen = op[o].seen
        /\ v.request = op[o].request
        /\ v.receipt = c /\ v.returned = op[o].returned /\ v.applied = op[o].applied
    BY DEF OpSet, Ending
  <2>5. new.request = op[o].request /\ new.applied = op[o].applied /\ new.links = 2
    OBVIOUS
  <2> HIDE DEF v, new
  <2>6. op'[o] = v /\ (\A p \in Operators \ {o} : op'[p] = op[p])
                          /\ op' \in [Operators -> OpSet]
        /\ receipts'[c] = new /\ \A d \in Receipts \ {c} : receipts'[d] = receipts[d]
    BY <2>1, <2>2, <2>4
  <2>7. Retained
    BY <1>3, <2>1, <2>2, <2>3, <2>6 DEF Retained
  <2>8. Looked(op[o])'
    BY <1>1, <2>1, <2>4, <2>6 DEF Looked
  <2>9. Owns(op[o])'
    BY <1>1, <2>1, <2>2, <2>4, <2>6 DEF Owns, Timely, Pcs, Replacing, Ending
  <2>10. Writes(op[o])'
    <3>1. op[o].returned \subseteq Receipts
      BY DEF OpSet
    <3> QED BY <1>3, <2>2, <2>3, <2>4, <2>5, <2>6, <3>1 DEF Writes
  <2>11. Quieted => requests[op[o].request].to \in reached
    BY <2>1 DEF Proceeds, Ending
  <2>12. Quieted' => Proceeds(op[o])'
    BY <1>1, <2>4, <2>6, <2>11 DEF Proceeds, Quieted, Reading, Replacing
  <2>13. \A d \in Receipts : receipts[d] = NoReceipt => Filed(d)'
    <3> SUFFICES ASSUME NEW d \in Receipts, receipts[d] = NoReceipt PROVE Filed(d)'
      OBVIOUS
    <3>1. CASE d = c
      BY <1>1, <2>2, <2>5, <2>6, <2>11, <3>1 DEF Filed, Timely, Quieted
    <3>2. CASE d # c
      BY <2>6, <3>2 DEF Filed
    <3> QED BY <3>1, <3>2
  <2> QED BY <1>1, <2>4, <2>6, <2>7, <2>8, <2>9, <2>10, <2>12, <2>13, ReceiptTurn
<1>4. idle \in OpSet
  BY DEF OpSet, Pcs
<1>5. ASSUME op' = [op EXCEPT ![o] = idle], Retained,
             \A d \in Receipts : receipts[d] = NoReceipt => receipts'[d] = NoReceipt
      PROVE  ResealIInv'
  <2>1. op'[o] = idle /\ (\A p \in Operators \ {o} : op'[p] = op[p])
                             /\ op' \in [Operators -> OpSet]
    BY <1>4, <1>5
  <2>2. Looked(op[o])' /\ Owns(op[o])' /\ Proceeds(op[o])'
    BY <1>1, <2>1 DEF Looked, Owns, Proceeds, Pcs, Reading, Replacing, Ending
  <2>3. Writes(op[o])'
    <3>1. op[o].returned \subseteq Receipts
      BY DEF OpSet
    <3> QED BY <1>5, <2>1, <3>1 DEF Writes, Retained
  <2>4. \A d \in Receipts : receipts[d] = NoReceipt => Filed(d)'
    BY <1>5 DEF Filed
  <2> QED BY <1>1, <1>5, <2>1, <2>2, <2>3, <2>4, ReceiptTurn
<1>6. \A d \in Receipts : receipts[d] # NoReceipt => receipts[d] \in Receipt
  OBVIOUS
<1>7. \A d \in Receipts : receipts[d] # NoReceipt /\ d = c =>
        /\ [receipts EXCEPT ![d].links = 1][d] \in Receipt
        /\ [receipts EXCEPT ![d].synced = TRUE][d] \in Receipt
  BY <1>6 DEF Receipt
<1>8. \A w : w \in Receipt => w # NoReceipt
  <2>1. \A w \in Receipt : w \in [request : Nat, applied : Nat, links : Nat, synced : BOOLEAN]
    BY DEF Receipt
  <2> QED BY <2>1, ResealAssumption
<1>9. CASE ApplyUnlinks(o) \/ (Fail(o) /\ op[o].pc = "unlink")
  <2>1. op[o].pc = "unlink" /\ receipts' = [receipts EXCEPT ![c].links = 1]
    BY <1>9 DEF ApplyUnlinks, Fail
  <2>2. c \in Receipts /\ receipts[c] # NoReceipt /\ receipts[c].request = op[o].request
        /\ receipts[c].applied = op[o].applied
    BY <2>1 DEF Writes, Owns, OpSet, Pcs
  <2>3. receipts'[c] \in Receipt /\ receipts'[c].request = receipts[c].request
        /\ receipts'[c].applied = receipts[c].applied /\ receipts'[c].links = 1
        /\ receipts'[c].synced = receipts[c].synced
        /\ \A d \in Receipts \ {c} : receipts'[d] = receipts[d]
    BY <1>6, <1>7, <2>1, <2>2 DEF Receipt
  <2>4. Retained
    BY <1>8, <2>1, <2>2, <2>3 DEF Retained
  <2>5. CASE Fail(o)
    <3>1. op' = [op EXCEPT ![o] = idle]
      <4>1. [IdleOp EXCEPT !.returned = op[o].returned] = idle
        BY DEF IdleOp
      <4> QED BY <2>5, <4>1 DEF Fail, Refuse
    <3> QED BY <1>5, <2>2, <2>3, <2>4, <3>1
  <2>6. CASE ApplyUnlinks(o)
    <3> DEFINE v == [op[o] EXCEPT !.pc = "return"]
    <3>1. op' = [op EXCEPT ![o] = v]
      BY <2>6 DEF ApplyUnlinks, Turn
    <3>2. v \in OpSet /\ v.pc = "return" /\ v.next = op[o].next /\ v.seen = op[o].seen
          /\ v.request = op[o].request
          /\ v.receipt = c /\ v.returned = op[o].returned /\ v.applied = op[o].applied
      BY DEF OpSet, Ending
    <3> HIDE DEF v
    <3>3. op'[o] = v /\ (\A p \in Operators \ {o} : op'[p] = op[p])
                            /\ op' \in [Operators -> OpSet]
      BY <3>1, <3>2
    <3>4. Looked(op[o])' /\ Owns(op[o])'
      BY <1>1, <2>1, <3>2, <3>3 DEF Looked, Owns, Timely, Pcs, Replacing, Ending
    <3>5. Writes(op[o])'
      <4>1. op[o].returned \subseteq Receipts
        BY DEF OpSet
      <4>2. receipts'[c] # NoReceipt
        BY <1>8, <2>3
      <4> QED BY <2>2, <2>3, <2>4, <3>2, <3>3, <4>1, <4>2 DEF Writes, Retained
    <3>6. Quieted' => Proceeds(op[o])'
      BY <1>1, <2>1, <3>2, <3>3 DEF Proceeds, Quieted, Reading, Replacing, Ending
    <3>7. \A d \in Receipts : receipts[d] = NoReceipt => Filed(d)'
      BY <2>2, <2>3 DEF Filed
    <3> QED BY <1>1, <2>4, <3>2, <3>3, <3>4, <3>5, <3>6, <3>7, ReceiptTurn
  <2> QED BY <1>9, <2>5, <2>6
<1>10. CASE ApplyReturns(o)
  <2> DEFINE v == [IdleOp EXCEPT !.returned = op[o].returned \cup {c}]
  <2>1. op[o].pc = "return" /\ receipts' = [receipts EXCEPT ![c].synced = TRUE]
        /\ op' = [op EXCEPT ![o] = v]
    BY <1>10 DEF ApplyReturns
  <2>2. c \in Receipts /\ receipts[c] # NoReceipt /\ receipts[c].links = 1
    BY <2>1 DEF Writes, Owns, OpSet, Pcs
  <2>3. receipts'[c] \in Receipt /\ receipts'[c].request = receipts[c].request
        /\ receipts'[c].applied = receipts[c].applied /\ receipts'[c].links = 1
        /\ receipts'[c].synced
        /\ \A d \in Receipts \ {c} : receipts'[d] = receipts[d]
    BY <1>6, <1>7, <2>1, <2>2 DEF Receipt
  <2>4. Retained /\ receipts'[c] # NoReceipt
    BY <1>8, <2>1, <2>2, <2>3 DEF Retained
  <2>5. op[o].returned \subseteq Receipts
    BY DEF OpSet
  <2>6. v.pc = "idle" /\ v.receipt = NoReceipt /\ v.seen = <<>> /\ v.applied = 0
        /\ v.returned = op[o].returned \cup {c} /\ v \in OpSet
    <3>1. op[o].returned \cup {c} \in SUBSET Receipts
      BY <2>2, <2>5
    <3> QED BY <3>1, IdleIs
  <2> HIDE DEF v, idle
  <2>8. op'[o] = v /\ (\A p \in Operators \ {o} : op'[p] = op[p])
                          /\ op' \in [Operators -> OpSet]
    BY <2>1, <2>6
  <2>9. Looked(op[o])' /\ Owns(op[o])' /\ Proceeds(op[o])'
    BY <1>1, <2>6, <2>8 DEF Looked, Owns, Proceeds, Pcs, Reading, Replacing, Ending
  <2>10. Writes(op[o])'
    <3>1. op'[o].returned = op[o].returned \cup {c} /\ op'[o].pc = "idle"
      BY <2>6, <2>8
    <3>2. \A d \in op[o].returned \cup {c} : receipts'[d] # NoReceipt /\ receipts'[d].synced
          /\ receipts'[d].links = 1
      BY <2>3, <2>4, <2>5 DEF Writes, Retained
    <3> QED BY <3>1, <3>2 DEF Writes
  <2>11. \A d \in Receipts : receipts[d] = NoReceipt => Filed(d)'
    BY <2>2, <2>3 DEF Filed
  <2>12. op'[o].pc # "fill" /\ op'[o].receipt = NoReceipt
    BY <2>6, <2>8
  <2> QED BY <1>1, <2>4, <2>8, <2>9, <2>10, <2>11, <2>12, ReceiptTurn
<1>11. CASE (Fail(o) /\ op[o].pc # "unlink") \/ Kill(o)
  <2>1. receipts' = receipts /\ Refuse(o)
    BY <1>11 DEF Fail, Kill
  <2> QED BY <1>1, <2>1, Idle
<1> QED BY <1>2, <1>3, <1>9, <1>10, <1>11

\* The machine goes down: what was not synced may be there or not.
LEMMA PowerLossStep ==
  ASSUME ResealIInv, PowerLoss
  PROVE  ResealIInv'
<1>m. /\ op \in [Operators -> OpSet] /\ now \in Nat /\ requests \in Seq(Request)
      /\ canonical \in FileSet /\ durable \in FileSet
      /\ receipts \in [Receipts -> Receipt \cup {NoReceipt}]
  BY DEF ResealIInv, Types
<1> USE <1>m
<1>1. UNCHANGED <<surface, now, requests, overlapped, unsynced>>
  BY DEF PowerLoss, outside
<1>2. PICK lost \in SUBSET {f \in DOMAIN canonical : canonical[f] # durable[f]} :
         canonical' = [f \in DOMAIN canonical |->
                         IF f \in lost THEN durable[f] ELSE canonical[f]]
  BY DEF PowerLoss
<1>3. durable' = canonical' /\ reached' = reached \cup {s \in Surfaces : durable' = Sealed(s)}
  BY DEF PowerLoss
<1>4. DOMAIN canonical = {"profile", "manifest", "pin"}
  BY DEF FileSet
<1>5. canonical' \in FileSet
      /\ \A f \in {"profile", "manifest", "pin"} : canonical'[f] \in {canonical[f], durable[f]}
  <2>1. \A f \in {"profile", "manifest",
           "pin"} : canonical'[f] = IF f \in lost THEN durable[f] ELSE canonical[f]
    BY <1>2, <1>4
  <2>2. canonical' = [profile |-> canonical'.profile, manifest |-> canonical'.manifest,
           pin |-> canonical'.pin]
    BY <1>2, <1>4
  <2>3. canonical'.profile \in Surfaces /\ canonical'.manifest \in Surfaces
        /\ canonical'.pin \in Surfaces
    BY <2>1 DEF FileSet
  <2> QED BY <2>1, <2>2, <2>3 DEF FileSet
<1>6. \A o \in Operators : op'[o].pc = "idle" /\ op'[o].receipt = NoReceipt
      /\ op'[o].seen = <<>>
                            /\ op'[o].applied = 0 /\ op'[o].returned = op[o].returned
                            /\ op'[o] \in OpSet
  <2> SUFFICES ASSUME NEW o \in Operators
               PROVE  op'[o].pc = "idle" /\ op'[o].receipt = NoReceipt /\ op'[o].seen = <<>>
                      /\ op'[o].applied = 0 /\ op'[o].returned = op[o].returned
                      /\ op'[o] \in OpSet
    OBVIOUS
  <2>1. op[o].returned \in SUBSET Receipts
    BY DEF OpSet
  <2>2. op'[o] = [IdleOp EXCEPT !.returned = op[o].returned]
    BY DEF PowerLoss
  <2> DEFINE w == [IdleOp EXCEPT !.returned = op[o].returned]
  <2>3. w \in OpSet /\ w.pc = "idle" /\ w.receipt = NoReceipt /\ w.seen = <<>> /\ w.applied = 0
        /\ w.returned = op[o].returned
    BY <2>1, IdleIs
  <2> HIDE DEF w
  <2>4. op'[o] = w
    BY <2>2 DEF w
  <2> QED BY <2>3, <2>4
<1>7. op' \in [Operators -> OpSet]
  BY <1>6 DEF PowerLoss
<1>8. PICK gone \in SUBSET {c \in Receipts : receipts[c] # NoReceipt /\ ~receipts[c].synced} :
         receipts' = [c \in Receipts |-> IF c \in gone THEN NoReceipt ELSE
                        IF receipts[c] = NoReceipt THEN NoReceipt
                        ELSE [receipts[c] EXCEPT !.synced = TRUE]]
  BY DEF PowerLoss
<1>9. \A w \in Receipt : /\ [w EXCEPT !.synced = TRUE] \in Receipt
                         /\ [w EXCEPT !.synced = TRUE].request = w.request
                         /\ [w EXCEPT !.synced = TRUE].applied = w.applied
                         /\ [w EXCEPT !.synced = TRUE].links = w.links
                         /\ [w EXCEPT !.synced = TRUE].synced
  BY DEF Receipt
<1>10. \A w \in Receipt : w # NoReceipt
  <2>1. \A w \in Receipt : w \in [request : Nat, applied : Nat, links : Nat, synced : BOOLEAN]
    BY DEF Receipt
  <2> QED BY <2>1, ResealAssumption
<1>11. ASSUME NEW c \in Receipts
       PROVE  \/ receipts'[c] = NoReceipt /\ (receipts[c] # NoReceipt => ~receipts[c].synced)
              \/ /\ receipts[c] # NoReceipt /\ receipts'[c] \in Receipt
                 /\ receipts'[c] # NoReceipt
                 /\ receipts'[c].request = receipts[c].request
                 /\ receipts'[c].applied = receipts[c].applied
                 /\ receipts'[c].links = receipts[c].links /\ receipts'[c].synced
  <2>1. CASE c \in gone
    BY <1>8, <2>1
  <2>2. CASE c \notin gone /\ receipts[c] = NoReceipt
    BY <1>8, <2>2
  <2>3. CASE c \notin gone /\ receipts[c] # NoReceipt
    <3>1. receipts'[c] = [receipts[c] EXCEPT !.synced = TRUE] /\ receipts[c] \in Receipt
      BY <1>8, <2>3
    <3> QED BY <1>9, <1>10, <2>3, <3>1
  <2> QED BY <2>1, <2>2, <2>3
<1>12. receipts' \in [Receipts -> Receipt \cup {NoReceipt}]
  <2>1. \A c \in Receipts : receipts'[c] \in Receipt \cup {NoReceipt}
    BY <1>11
  <2> QED BY <1>8, <2>1
<1>13. Types'
  BY <1>1, <1>3, <1>5, <1>7, <1>12 DEF ResealIInv, Types
<1>14. \A i \in 1 .. Len(requests') : requests'[i].from # requests'[i].to
       /\ requests'[i].created <= now'
  BY <1>1 DEF ResealIInv
<1>15. ASSUME NEW p \in Operators
       PROVE  Looked(op[p])' /\ Owns(op[p])' /\ Writes(op[p])' /\ (Quieted' => Proceeds(op[p])')
  <2>1. Looked(op[p])' /\ Owns(op[p])' /\ Proceeds(op[p])'
    BY <1>1, <1>6 DEF Looked, Owns, Proceeds, Pcs, Reading, Replacing, Ending
  <2>2. Writes(op[p])'
    <3>1. op[p].returned \subseteq Receipts
      BY DEF OpSet
    <3>2. \A c \in op[p].returned : receipts[c] # NoReceipt /\ receipts[c].synced
          /\ receipts[c].links = 1
      BY DEF ResealIInv, Writes
    <3> QED BY <1>6, <1>11, <3>1, <3>2 DEF Writes
  <2> QED BY <2>1, <2>2
<1>16. \A c \in Receipts : Filed(c)'
  <2>1. \A c \in Receipts : Filed(c)
    BY DEF ResealIInv
  <2>2. \A c \in Receipts : receipts'[c] # NoReceipt => /\ receipts[c] # NoReceipt
                                                        /\ receipts'[c].request = receipts[c].request
                                                        /\ receipts'[c].applied = receipts[c].applied
    BY <1>11
  <2>3. reached \subseteq reached'
    BY <1>3
  <2> QED BY <1>1, <2>1, <2>2, <2>3 DEF Filed, Timely, Quieted
<1>17. \A a, b \in Operators : op'[a].pc = "fill" /\ op'[b].pc = "fill"
       /\ a # b => op'[a].request # op'[b].request
  BY <1>6
<1>18. ~overlapped' => \A a, b \in Operators : Applying(a)'
                          /\ Applying(b)' => op'[a].request = op'[b].request
  BY <1>6 DEF Applying
<1>19. \A s \in Surfaces : durable' = Sealed(s) => s \in reached'
  BY <1>3
<1>20. Quieted' => Standing'
  <2> SUFFICES ASSUME Quieted PROVE Standing'
    BY <1>1 DEF Quieted
  <2>1. Standing
    BY DEF ResealIInv
  <2>2. CASE \E s \in Surfaces : canonical = Sealed(s) /\ durable = Sealed(s)
    <3>1. PICK s \in Surfaces : canonical = Sealed(s) /\ durable = Sealed(s)
      BY <2>2
    <3>2. canonical'.profile = s /\ canonical'.manifest = s /\ canonical'.pin = s
      BY <1>5, <3>1 DEF Sealed, State
    <3>3. canonical' = Sealed(s)
      BY <1>5, <3>2 DEF FileSet, Sealed, State
    <3> QED BY <1>3, <3>3 DEF Standing
  <2>3. CASE \E i \in 1 .. Len(requests) : requests[i].signed /\ Adjacent(requests[i])
    <3>1. PICK i \in 1 .. Len(requests) : requests[i].signed /\ Adjacent(requests[i])
      BY <2>3
    <3> DEFINE r == requests[i]
    <3>2. PICK m \in 0 .. 3, n \in 0 .. 3 : n \in {m, m + 1} /\ durable = Prefix(r, m)
          /\ canonical = Prefix(r, n)
      BY <3>1 DEF Adjacent
    <3>3. canonical' = Prefix(r, m) \/ canonical' = Prefix(r, n)
      <4>1. canonical' = State(canonical'.profile, canonical'.manifest, canonical'.pin)
        BY <1>5 DEF FileSet, State
      <4>2. CASE n = m
        <5>1. canonical'.profile = canonical.profile /\ canonical'.manifest = canonical.manifest
              /\ canonical'.pin = canonical.pin
          BY <1>5, <3>2, <4>2
        <5> QED BY <3>2, <4>1, <5>1 DEF Prefix, State
      <4>3. CASE n = 1 /\ m = 0
        BY <1>5, <3>2, <4>1, <4>3 DEF Prefix, State
      <4>4. CASE n = 2 /\ m = 1
        BY <1>5, <3>2, <4>1, <4>4 DEF Prefix, State
      <4>5. CASE n = 3 /\ m = 2
        BY <1>5, <3>2, <4>1, <4>5 DEF Prefix, State
      <4> QED BY <3>2, <4>2, <4>3, <4>4, <4>5
    <3>4. \A k \in 0 .. 3 : Prefix(r, k)' = Prefix(r, k)
      BY <1>1 DEF Prefix, State
    <3>5. Adjacent(requests[i])'
      BY <1>3, <3>3, <3>4 DEF Adjacent
    <3>6. requests'[i].signed /\ i \in 1 .. Len(requests')
      BY <1>1, <3>1
    <3> QED BY <3>5, <3>6 DEF Standing
  <2> QED BY <2>1, <2>2, <2>3 DEF Standing
<1> QED BY <1>13, <1>14, <1>15, <1>16, <1>17, <1>18, <1>19, <1>20 DEF ResealIInv

\* The fixture begins sealed, without requests and receipts.
LEMMA ResealStart == ResealInit => ResealIInv
<1> SUFFICES ASSUME ResealInit PROVE ResealIInv
  OBVIOUS
<1>1. PICK s \in Surfaces : canonical = Sealed(s) /\ durable = Sealed(s) /\ reached = {s}
  BY DEF ResealInit
<1>2. requests = <<>> /\ receipts = [c \in Receipts |-> NoReceipt] /\ now = 0
      /\ surface \in Surfaces
      /\ overlapped = FALSE /\ unsynced = FALSE /\ op = [o \in Operators |-> IdleOp]
  BY DEF ResealInit
<1>3. Types
  <2>1. IdleOp \in OpSet
    <3>1. <<>> \in Seq(Surfaces) /\ {} \in SUBSET Receipts
      OBVIOUS
    <3> QED BY <3>1 DEF IdleOp, OpSet, Pcs
  <2>2. Sealed(s) \in FileSet
    BY DEF Sealed, State, FileSet
  <2>3. requests \in Seq(Request) /\ receipts \in [Receipts -> Receipt \cup {NoReceipt}]
        /\ now \in Nat
    BY <1>2
  <2>4. op \in [Operators -> OpSet]
    BY <1>2, <2>1
  <2> QED BY <1>1, <1>2, <2>2, <2>3, <2>4 DEF Types
<1>4. ASSUME NEW o \in Operators
      PROVE  Looked(op[o]) /\ Owns(op[o]) /\ Writes(op[o]) /\ Proceeds(op[o])
  <2>1. op[o].pc = "idle" /\ op[o].seen = <<>> /\ op[o].applied = 0 /\ op[o].receipt = NoReceipt
        /\ op[o].returned = {}
    BY <1>2 DEF IdleOp
  <2> QED BY <1>2, <2>1 DEF Looked, Owns, Writes, Proceeds, Pcs, Reading, Replacing, Ending
<1>5. Standing /\ \A t \in Surfaces : durable = Sealed(t) => t \in reached
  BY <1>1 DEF Standing, Sealed, State
<1>6. \A o \in Operators : op[o].pc = "idle" /\ op[o].receipt = NoReceipt
  BY <1>2 DEF IdleOp
<1> QED BY <1>2, <1>3, <1>4, <1>5, <1>6 DEF ResealIInv, Filed, Applying

\* Every step of the operators and of the world keeps the invariant.
LEMMA ResealStep == ResealIInv /\ [ResealNext]_resealVars => ResealIInv'
<1> SUFFICES ASSUME ResealIInv, [ResealNext]_resealVars PROVE ResealIInv'
  OBVIOUS
<1>1. CASE UNCHANGED resealVars
  <2>1. UNCHANGED <<surface, now, canonical, durable, requests, receipts, op, overlapped,
           unsynced, reached>>
    BY <1>1 DEF resealVars, outside, history
  <2> QED BY <2>1 DEF ResealIInv, Types, Looked, Owns, Writes, Proceeds, Filed, Glimpsed,
         Adjacent, Standing, Standings,
                      Prefix, State, Done, Timely, Quieted, Applying
<1>2. CASE Pass \/ (\E s \in Surfaces : Edit(s)) \/ (\E r \in 1 .. Len(requests) : Sign(r))
  BY <1>2, WorldStep
<1>3. CASE PowerLoss
  BY <1>3, PowerLossStep
<1>4. ASSUME NEW o \in Operators, PrepareReseal(o) PROVE ResealIInv'
  BY <1>4, PreparesLooking, BeginsStep, EndsStep DEF PrepareReseal
<1>5. ASSUME NEW o \in Operators, Apply(o) PROVE ResealIInv'
  <2>1. ASSUME NEW r \in 1 .. Len(requests), NEW c \in Receipts, ApplyLoads(o, r, c)
        PROVE ResealIInv'
    BY <2>1, LoadsStep
  <2>2. CASE Reads(o, "read", "classify") \/ Reads(o, "back", "confirm")
    BY <2>2, ReadsStep
  <2> QED BY <1>5, <2>1, <2>2, ClassifiesStep, StagesStep, ComparesStep, ReplacesStep,
         SyncsStep, ReceiptStep DEF Apply
<1>6. ASSUME NEW o \in Operators, Fail(o) \/ Kill(o) PROVE ResealIInv'
  BY <1>6, ReceiptStep
<1> QED BY <1>1, <1>2, <1>3, <1>4, <1>5, <1>6 DEF ResealNext

------------------------------------------------------------------------------
\* The invariant holds of every behaviour, with any operators, surfaces and receipts,
\* and whatever is killed, fails or is lost between which two steps.
THEOREM ResealInvariant == ResealSpec => []ResealIInv
  BY ResealStart, ResealStep, PTL DEF ResealSpec

\* A fixture that apply_reseal was interrupted at can always be resumed: it is
\* sealed, or stands at a prefix of a signed request, in memory and on disk.
THEOREM Resumes == ResealSpec => []FixtureResumes
<1>1. ResealIInv => ResealTypeOK /\ FixtureResumable
  <2> SUFFICES ASSUME ResealIInv PROVE ResealTypeOK /\ FixtureResumable
    OBVIOUS
  <2>1. ResealTypeOK
    <3>1. surface \in Surfaces
          /\ \A f \in DOMAIN canonical : {canonical[f], durable[f]} \subseteq Surfaces
      BY DEF ResealIInv, Types, FileSet
    <3>2. \A o \in Operators : op[o].next \in 0 .. 4 /\ Len(op[o].seen) <= 3
      BY DEF ResealIInv, Types, OpSet, Looked
    <3>3. \A c \in Receipts :
            receipts[c] # NoReceipt => receipts[c].request \in 1 .. Len(requests)
      BY DEF ResealIInv, Filed
    <3> QED BY <3>1, <3>2, <3>3 DEF ResealTypeOK
  <2>2. FixtureResumable
    <3> SUFFICES ASSUME Quieted PROVE Resumable(canonical) /\ Resumable(durable)
      BY DEF FixtureResumable, Quieted
    <3>1. Standing
      BY DEF ResealIInv
    <3>2. \A i \in 1 .. Len(requests) : Adjacent(requests[i]) =>
             canonical \in Standings(requests[i]) /\ durable \in Standings(requests[i])
      BY DEF Adjacent, Standings
    <3> QED BY <3>1, <3>2 DEF Standing, Resumable
  <2> QED BY <2>1, <2>2
<1> QED BY <1>1, ResealInvariant, PTL DEF FixtureResumes

\* A receipt that _write_receipt has synced says that the successor was on disk, all of it.
THEOREM ReceiptsDurable == ResealSpec => []ReceiptMeansDurable
<1>1. ResealIInv => ReceiptMeansDurable
  BY DEF ResealIInv, Filed, Quieted, ReceiptMeansDurable
<1> QED BY <1>1, ResealInvariant, PTL

\* What apply_reseal returned, verify_reseal accepts while project and fixture stay.
THEOREM ReturnedVerifiable == ResealSpec => []ReturnedMeansVerifiable
<1>1. ResealIInv => ReturnedMeansVerifiable
  <2> SUFFICES ASSUME ResealIInv, NEW o \in Operators, NEW c \in op[o].returned,
                      surface = requests[receipts[c].request].to,
                      canonical = Sealed(requests[receipts[c].request].to)
               PROVE  VerifyAccepts(receipts[c].request, c)
    BY DEF ReturnedMeansVerifiable
  <2>1. c \in Receipts
    BY DEF ResealIInv, Types, OpSet
  <2>2. receipts[c] # NoReceipt /\ receipts[c].links = 1
    BY DEF ResealIInv, Writes
  <2>3. Filed(c) /\ \A i \in 1 .. Len(requests) : requests[i].created <= now
    BY <2>1 DEF ResealIInv
  <2> QED BY <2>2, <2>3 DEF Filed, VerifyAccepts, CandidateAccepted
<1> QED BY <1>1, ResealInvariant, PTL

------------------------------------------------------------------------------
(***************************************************************************)
(* Theorems about LiveRun, for any number of commands, virtual machines,   *)
(* preflight attempts, failures and kills.                                 *)
(*                                                                         *)
(* OneMissionEver follows from who may hold the reservation (Sole):  from  *)
(* the creation of its file on, at most one command is between it and its  *)
(* paid guest, whatever has died.  SuccessMeansCleanRun needs what a guest *)
(* and the files say of the run they come from (GuestTold, Recorded,       *)
(* Attested), and that the VM whose evidence was copied is one that was    *)
(* deleted (Copied).                                                       *)
(***************************************************************************)

BeforeRun == {"new", "preflight", "checked", "reserve", "sync", "run"}
BeforeLaunch == {"none", "start", "counting", "checking", "probing", "decoy", "claiming",
                 "claimed", "launch"}
Paying == {"probing", "decoy", "claiming", "claimed", "launch"}
Judged == {"version", "import", "candidate", "events", "stop", "delete", "list", "disk",
           "verdict", "ended"}

\* The reservation is this command's, or was.
Holder(c) == cmd[c].pc \in {"sync", "run"} \/ guest[c].full

\* One command at most holds the reservation, and only its guest launches.
Sole ==
    /\ \A c, d \in Commands : Holder(c) /\ Holder(d) => c = d
    /\ \A c \in Commands :
          /\ Holder(c) => reservation # "none"
          /\ cmd[c].pc = "run" \/ guest[c].full => reservation = "held"
          /\ cmd[c].pc \in BeforeRun => ~guest[c].full
          /\ guest[c].pc \in Paying => guest[c].full
    /\ \A m \in missions : guest[m.by].full /\ guest[m.by].pc \notin BeforeLaunch
    /\ OneMissionEver

Ended(c, rc) == \E m \in missions : m.by = c /\ m.rc = rc

\* The Mission of this guest ended well and its decoy was closed.
Good(c) ==
    /\ c \in Commands /\ guest[c].full /\ guest[c].pc \in {"cleaning", "over"}
    /\ guest[c].decoy = "closed" /\ Ended(c, "zero")
Passed(candidate) == candidate # None /\ candidate.verdict = "pass"

\* What a process in the guest remembers of its Mission is so.
GuestTold(c) ==
    /\ guest[c].pc \in BeforeLaunch \cup {"mission"} => guest[c].status = 0
    /\ guest[c].pc = "mission" => \E m \in missions : m.by = c
    /\ guest[c].pc \in {"mission", "closing", "settling", "judging"} => guest[c].full
    /\ guest[c].pc \in {"closing", "settling", "judging"} /\ guest[c].status = 0 => Ended(c, "zero")
    /\ guest[c].pc \in {"settling", "judging"} => guest[c].decoy = "closed"

\* A command that found no fault recorded the run, or found it recorded.
Recorded(c) == cmd[c].pc \in Judged /\ cmd[c].claimOk /\ cmd[c].guestOk => hostLedger = "one"

\* A candidate that passed is that of a good Mission.
Attested ==
    /\ Passed(inGuest.candidate) => Good(inGuest.candidate.by)
    /\ import # None /\ Passed(import.candidate) => Good(import.candidate.by)

\* Every Mission so far ran in a VM that is no more.
Far == \A m \in missions : m.vm < machine.no \/ machine.up = "gone"

\* One command copies the evidence, and deletes the VM after that.
Copied ==
    /\ \A c, d \in Commands : cmd[c].ready /\ cmd[d].ready => c = d
    /\ \A c \in Commands :
          /\ cmd[c].ready => import # None
          /\ cmd[c].pc \in {"candidate", "events"} => cmd[c].ready
          /\ cmd[c].deleted => cmd[c].pc \in {"list", "disk", "verdict", "ended", "killed"}
          /\ cmd[c].ready /\ cmd[c].deleted /\ Passed(import.candidate) => Far

\* What a gate of complete success stands for.
Succeeded == gate # None /\ gate.complete => Good(gate.of) /\ hostLedger = "one" /\ Far

IInv ==
    /\ Sole /\ Attested /\ Copied /\ Succeeded
    /\ \A c \in Commands : GuestTold(c) /\ Recorded(c)


------------------------------------------------------------------------------
(* Types, one part of the state at a time.                                 *)
LEMMA GuestEdit ==
    ASSUME NEW g \in GuestState, NEW n \in 0 .. 1
    PROVE  [g EXCEPT !.pc = "over", !.rc = n] \in GuestState
  BY DEF GuestState

\* A process that dies is one that has ended with an error.
LEMMA GuestOver ==
    ASSUME NEW g \in GuestState PROVE [g EXCEPT !.pc = "over", !.rc = 1] \in GuestState
<1>1. 1 \in 0 .. 1
  OBVIOUS
<1> QED
  BY <1>1, GuestEdit

LEMMA FreshGuest ==
    /\ NoGuest \in GuestState /\ Fresh(TRUE).full /\ ~Fresh(FALSE).full
    /\ \A b \in BOOLEAN : Fresh(b) \in GuestState /\ Fresh(b).pc = "start" /\ Fresh(b).status = 0
<1>1. 0 \in 0 .. LIMIT /\ 0 \in 0 .. 1 /\ 0 \in 0 .. 2
  BY LiveRunAssumption
<1>2. NoGuest \in GuestState /\ NoGuest.status = 0
  BY <1>1 DEF GuestState, NoGuest
<1>3. \A b \in BOOLEAN : Fresh(b) \in GuestState /\ Fresh(b).pc = "start" /\ Fresh(b).status = 0
  BY <1>2 DEF GuestState, Fresh
<1>4. Fresh(TRUE).full
  BY <1>2 DEF GuestState, Fresh
<1>5. ~Fresh(FALSE).full
  BY <1>2 DEF GuestState, Fresh
<1> QED
  BY <1>2, <1>3, <1>4, <1>5

\* What runs in a VM that stops is a process still.
LEMMA HaltType == ASSUME LiveRunTypeOK, Halt PROVE guest' \in [Commands -> GuestState]
  BY GuestOver DEF Halt, LiveRunTypeOK

LEMMA CommandEdit ==
    ASSUME NEW s \in CommandState, NEW b \in BOOLEAN
    PROVE  /\ [s EXCEPT !.pc = "version", !.claimOk = b] \in CommandState
           /\ [s EXCEPT !.pc = "delete", !.stopped = TRUE, !.hadDisk = TRUE] \in CommandState
           /\ [s EXCEPT !.pc = "list", !.hadDisk = b] \in CommandState
           /\ [s EXCEPT !.pc = "verdict", !.diskGone = b] \in CommandState
  BY DEF CommandState

\* The processes in the guest.
LEMMA GuestType ==
    ASSUME LiveRunTypeOK, [LiveRunNext]_liveRunVars
    PROVE  guest' \in [Commands -> GuestState]
<1> USE LiveRunAssumption DEF hostFiles, Well, Mishap, Guest, Host, On, Step, Exit, GuestAside
<1>1. ASSUME NEW c \in Commands, GuestStep(c) \/ HostStep(c) \/ KillCommand(c) \/ KillGuest(c)
      PROVE  guest' \in [Commands -> GuestState]
  <2>1. CASE Attempt(c)
    BY <2>1 DEF Attempt, LiveRunTypeOK, GuestState
  <2>2. CASE CountAttempt(c)
    BY <2>2 DEF CountAttempt, LiveRunTypeOK, GuestState
  <2>3. CASE Preflight(c)
    BY <2>3 DEF Preflight, LiveRunTypeOK, GuestState
  <2>4. CASE Probe(c)
    BY <2>4 DEF Probe, LiveRunTypeOK, GuestState
  <2>5. CASE StartControls(c)
    BY <2>5 DEF StartControls, LiveRunTypeOK, GuestState
  <2>6. CASE ClaimLaunch(c)
    BY <2>6 DEF ClaimLaunch, LiveRunTypeOK, GuestState
  <2>7. CASE WriteClaim(c)
    BY <2>7 DEF WriteClaim, LiveRunTypeOK, GuestState
  <2>8. CASE Launch(c)
    BY <2>8 DEF Launch, LiveRunTypeOK, GuestState
  <2>9. CASE MissionEnds(c)
    BY <2>9 DEF MissionEnds, LiveRunTypeOK, GuestState
  <2>10. CASE CloseDecoy(c)
    BY <2>10 DEF CloseDecoy, LiveRunTypeOK, GuestState
  <2>11. CASE ExportEvents(c)
    BY <2>11 DEF ExportEvents, LiveRunTypeOK, GuestState
  <2>12. CASE WriteCandidate(c)
    BY <2>12 DEF WriteCandidate, Verdicts, LiveRunTypeOK, GuestState
  <2>13. CASE CleanUp(c)
    BY <2>13 DEF CleanUp, LiveRunTypeOK, GuestState
  <2>14. CASE Shell(c, "preflight", "checked", FALSE, "version")
    BY <2>14, FreshGuest DEF Shell, LiveRunTypeOK
  <2>15. CASE Shell(c, "run", "running", TRUE, "count")
    BY <2>15, FreshGuest DEF Shell, LiveRunTypeOK
  <2>16. CASE StopVm(c)
    BY <2>16, HaltType DEF StopVm, LiveRunTypeOK
  <2>17. CASE RemoveVm(c)
    BY <2>17, HaltType DEF RemoveVm, LiveRunTypeOK
  <2>18. CASE KillGuest(c)
    BY <2>18, GuestOver DEF KillGuest, LiveRunTypeOK
  <2>19. CASE \/ StartGate(c) \/ StartFinalize(c) \/ Await(c, "checked", "reserve", "version")
              \/ Reserve(c) \/ SyncReservation(c) \/ Await(c, "running", "count", "count")
              \/ CountRun(c) \/ ClaimRun(c) \/ RecordRun(c) \/ CheckVersion(c) \/ MakeImport(c)
              \/ CopyOut(c, "candidate", "events") \/ CopyOut(c, "events", "stop")
              \/ ListVms(c) \/ LookForDisk(c) \/ WriteGate(c) \/ KillCommand(c)
    BY <2>19 DEF StartGate, StartFinalize, Await, Reserve, SyncReservation, CountRun, ClaimRun,
       RecordRun, CheckVersion, MakeImport, CopyOut, ListVms, LookForDisk, WriteGate,
       KillCommand, LiveRunTypeOK
  <2> QED
    BY <1>1, <2>1, <2>2, <2>3, <2>4, <2>5, <2>6, <2>7, <2>8, <2>9, <2>10, <2>11, <2>12, <2>13,
       <2>14, <2>15, <2>16, <2>17, <2>18, <2>19
    DEF GuestStep, HostStep
<1>2. CASE HostLoss
  BY <1>2, GuestOver DEF HostLoss, Halt, LiveRunTypeOK
<1>3. CASE MakeVm
  BY <1>3 DEF MakeVm, LiveRunTypeOK
<1>4. CASE UNCHANGED liveRunVars
  BY <1>4 DEF liveRunVars, LiveRunTypeOK
<1> QED
  BY <1>1, <1>2, <1>3, <1>4 DEF LiveRunNext

\* The commands on the host.
LEMMA CommandType ==
    ASSUME LiveRunTypeOK, [LiveRunNext]_liveRunVars
    PROVE  cmd' \in [Commands -> CommandState]
<1> USE LiveRunAssumption DEF hostFiles, Well, Mishap, Guest, Host, On, Step, Exit, GuestAside
<1>1. ASSUME NEW c \in Commands, GuestStep(c) \/ HostStep(c) \/ KillCommand(c) \/ KillGuest(c)
      PROVE  cmd' \in [Commands -> CommandState]
  <2>1. CASE StartGate(c)
    BY <2>1 DEF StartGate, LiveRunTypeOK, CommandState
  <2>2. CASE StartFinalize(c)
    <3>1. (hostLedger = "one") \in BOOLEAN
      OBVIOUS
    <3> QED
      BY <2>2, <3>1, CommandEdit DEF StartFinalize, LiveRunTypeOK
  <2>3. CASE Shell(c, "preflight", "checked", FALSE, "version")
    BY <2>3 DEF Shell, Fresh, NoGuest, LiveRunTypeOK, CommandState
  <2>4. CASE Await(c, "checked", "reserve", "version")
    BY <2>4 DEF Await, LiveRunTypeOK, CommandState
  <2>5. CASE Reserve(c)
    BY <2>5 DEF Reserve, Free, LiveRunTypeOK, CommandState
  <2>6. CASE SyncReservation(c)
    BY <2>6 DEF SyncReservation, LiveRunTypeOK, CommandState
  <2>7. CASE Shell(c, "run", "running", TRUE, "count")
    BY <2>7 DEF Shell, Fresh, NoGuest, LiveRunTypeOK, CommandState
  <2>8. CASE Await(c, "running", "count", "count")
    BY <2>8 DEF Await, LiveRunTypeOK, CommandState
  <2>9. CASE CountRun(c)
    BY <2>9 DEF CountRun, LiveRunTypeOK, CommandState
  <2>10. CASE ClaimRun(c)
    BY <2>10 DEF ClaimRun, LiveRunTypeOK, CommandState
  <2>11. CASE RecordRun(c)
    BY <2>11 DEF RecordRun, LiveRunTypeOK, CommandState
  <2>12. CASE CheckVersion(c)
    BY <2>12 DEF CheckVersion, LiveRunTypeOK, CommandState
  <2>13. CASE MakeImport(c)
    BY <2>13 DEF MakeImport, LiveRunTypeOK, CommandState
  <2>14. CASE CopyOut(c, "candidate", "events")
    BY <2>14 DEF CopyOut, LiveRunTypeOK, CommandState
  <2>15. CASE CopyOut(c, "events", "stop")
    BY <2>15 DEF CopyOut, LiveRunTypeOK, CommandState
  <2>16. CASE StopVm(c)
    <3>1. (machine.up # "gone") \in BOOLEAN
      OBVIOUS
    <3>2. [cmd[c] EXCEPT !.pc = "list", !.hadDisk = (machine.up # "gone")] \in CommandState
      BY <3>1, CommandEdit DEF LiveRunTypeOK
    <3>3. [cmd[c] EXCEPT !.pc = "delete", !.stopped = TRUE, !.hadDisk = TRUE] \in CommandState
      BY <3>1, CommandEdit DEF LiveRunTypeOK
    <3> QED
      BY <2>16, <3>2, <3>3 DEF StopVm, LiveRunTypeOK
  <2>17. CASE RemoveVm(c)
    BY <2>17 DEF RemoveVm, LiveRunTypeOK, CommandState
  <2>18. CASE ListVms(c)
    BY <2>18 DEF ListVms, LiveRunTypeOK, CommandState
  <2>19. CASE LookForDisk(c)
    BY <2>19, CommandEdit DEF LookForDisk, LiveRunTypeOK
  <2>20. CASE WriteGate(c)
    BY <2>20 DEF WriteGate, LiveRunTypeOK, CommandState
  <2>21. CASE KillCommand(c)
    BY <2>21 DEF KillCommand, LiveRunTypeOK, CommandState
  <2>22. CASE \/ Attempt(c) \/ CountAttempt(c) \/ Preflight(c) \/ Probe(c) \/ StartControls(c)
              \/ ClaimLaunch(c) \/ WriteClaim(c) \/ Launch(c) \/ MissionEnds(c)
              \/ CloseDecoy(c) \/ ExportEvents(c) \/ WriteCandidate(c) \/ CleanUp(c)
              \/ KillGuest(c)
    BY <2>22 DEF Attempt, CountAttempt, Preflight, Probe, StartControls, ClaimLaunch,
       WriteClaim, Launch, MissionEnds, CloseDecoy, ExportEvents, WriteCandidate, CleanUp,
       KillGuest, LiveRunTypeOK
  <2> QED
    BY <1>1, <2>1, <2>2, <2>3, <2>4, <2>5, <2>6, <2>7, <2>8, <2>9, <2>10, <2>11, <2>12, <2>13,
       <2>14, <2>15, <2>16, <2>17, <2>18, <2>19, <2>20, <2>21, <2>22
    DEF GuestStep, HostStep
<1>2. CASE HostLoss
  BY <1>2 DEF HostLoss, CommandState, LiveRunTypeOK
<1>3. CASE MakeVm
  BY <1>3 DEF MakeVm, LiveRunTypeOK
<1>4. CASE UNCHANGED liveRunVars
  BY <1>4 DEF liveRunVars, LiveRunTypeOK
<1> QED
  BY <1>1, <1>2, <1>3, <1>4 DEF LiveRunNext

\* The disk of the guest.
LEMMA DiskType ==
    ASSUME LiveRunTypeOK, [LiveRunNext]_liveRunVars
    PROVE  inGuest' \in [counter : {"none", "torn", "one"}, attempts : 0 .. LIMIT,
                       candidate : Candidates, events : Commands \cup {None}]
<1> USE LiveRunAssumption DEF hostFiles, Well, Mishap, Guest, Host, On, Step, Exit, GuestAside
<1>1. ASSUME NEW c \in Commands, GuestStep(c) \/ HostStep(c) \/ KillCommand(c) \/ KillGuest(c)
      PROVE  inGuest' \in [counter : {"none", "torn", "one"}, attempts : 0 .. LIMIT,
                       candidate : Candidates, events : Commands \cup {None}]
  <2>1. CASE Attempt(c)
    BY <2>1 DEF Attempt, LiveRunTypeOK, GuestState, Candidates
  <2>2. CASE CountAttempt(c)
    BY <2>2 DEF CountAttempt, LiveRunTypeOK, GuestState, Candidates
  <2>3. CASE ClaimLaunch(c)
    BY <2>3 DEF ClaimLaunch, LiveRunTypeOK, GuestState, Candidates
  <2>4. CASE WriteClaim(c)
    BY <2>4 DEF WriteClaim, LiveRunTypeOK, GuestState, Candidates
  <2>5. CASE ExportEvents(c)
    BY <2>5 DEF ExportEvents, LiveRunTypeOK, GuestState, Candidates
  <2>6. CASE WriteCandidate(c)
    BY <2>6 DEF WriteCandidate, Verdicts, LiveRunTypeOK, GuestState, Candidates
  <2>7. CASE RemoveVm(c)
    BY <2>7 DEF RemoveVm, EmptyDisk, LiveRunTypeOK, GuestState, Candidates
  <2>8. CASE \/ Preflight(c) \/ Probe(c) \/ StartControls(c) \/ Launch(c) \/ MissionEnds(c)
             \/ CloseDecoy(c) \/ CleanUp(c) \/ StartGate(c) \/ StartFinalize(c)
             \/ Shell(c, "preflight", "checked", FALSE, "version")
             \/ Await(c, "checked", "reserve", "version") \/ Reserve(c) \/ SyncReservation(c)
             \/ Shell(c, "run", "running", TRUE, "count")
             \/ Await(c, "running", "count", "count") \/ CountRun(c) \/ ClaimRun(c)
             \/ RecordRun(c) \/ CheckVersion(c) \/ MakeImport(c)
             \/ CopyOut(c, "candidate", "events") \/ CopyOut(c, "events", "stop") \/ StopVm(c)
             \/ ListVms(c) \/ LookForDisk(c) \/ WriteGate(c) \/ KillCommand(c) \/ KillGuest(c)
    BY <2>8 DEF Preflight, Probe, StartControls, Launch, MissionEnds, CloseDecoy, CleanUp,
       StartGate, StartFinalize, Shell, Await, Reserve, SyncReservation, CountRun, ClaimRun,
       RecordRun, CheckVersion, MakeImport, CopyOut, StopVm, ListVms, LookForDisk, WriteGate,
       KillCommand, KillGuest, LiveRunTypeOK
  <2> QED
    BY <1>1, <2>1, <2>2, <2>3, <2>4, <2>5, <2>6, <2>7, <2>8
    DEF GuestStep, HostStep
<1>2. CASE HostLoss
  BY <1>2 DEF HostLoss, LiveRunTypeOK
<1>3. CASE MakeVm
  BY <1>3 DEF MakeVm, EmptyDisk, Candidates, LiveRunTypeOK
<1>4. CASE UNCHANGED liveRunVars
  BY <1>4 DEF liveRunVars, LiveRunTypeOK
<1> QED
  BY <1>1, <1>2, <1>3, <1>4 DEF LiveRunNext

\* The machine and two files of the host.
LEMMA MachineType ==
    ASSUME LiveRunTypeOK, [LiveRunNext]_liveRunVars
    PROVE  /\ machine' \in [no : 1 .. MaxVms, up : {"running", "stopped", "gone"}]
           /\ reservation' \in {"none", "made", "held"} /\ hostLedger' \in {"none", "torn", "one"}
           /\ mishaps' \in 0 .. MaxMishaps
<1> USE LiveRunAssumption DEF hostFiles, Well, Mishap, Guest, Host, On, Step, Exit, GuestAside
<1>1. ASSUME NEW c \in Commands, GuestStep(c) \/ HostStep(c) \/ KillCommand(c) \/ KillGuest(c)
      PROVE  /\ machine' \in [no : 1 .. MaxVms, up : {"running", "stopped", "gone"}]
           /\ reservation' \in {"none", "made", "held"} /\ hostLedger' \in {"none", "torn", "one"}
           /\ mishaps' \in 0 .. MaxMishaps
  <2>1. CASE Reserve(c)
    BY <2>1 DEF Reserve, LiveRunTypeOK
  <2>2. CASE SyncReservation(c)
    BY <2>2 DEF SyncReservation, LiveRunTypeOK
  <2>3. CASE ClaimRun(c)
    BY <2>3 DEF ClaimRun, LiveRunTypeOK
  <2>4. CASE RecordRun(c)
    BY <2>4 DEF RecordRun, LiveRunTypeOK
  <2>5. CASE StopVm(c)
    BY <2>5 DEF StopVm, LiveRunTypeOK
  <2>6. CASE RemoveVm(c)
    BY <2>6 DEF RemoveVm, LiveRunTypeOK
  <2>7. CASE Attempt(c)
    BY <2>7 DEF Attempt, LiveRunTypeOK
  <2>8. CASE CountAttempt(c)
    BY <2>8 DEF CountAttempt, LiveRunTypeOK
  <2>9. CASE Preflight(c)
    BY <2>9 DEF Preflight, LiveRunTypeOK
  <2>10. CASE Probe(c)
    BY <2>10 DEF Probe, LiveRunTypeOK
  <2>11. CASE StartControls(c)
    BY <2>11 DEF StartControls, LiveRunTypeOK
  <2>12. CASE ClaimLaunch(c)
    BY <2>12 DEF ClaimLaunch, LiveRunTypeOK
  <2>13. CASE WriteClaim(c)
    BY <2>13 DEF WriteClaim, LiveRunTypeOK
  <2>14. CASE Launch(c)
    BY <2>14 DEF Launch, LiveRunTypeOK
  <2>15. CASE MissionEnds(c)
    BY <2>15 DEF MissionEnds, LiveRunTypeOK
  <2>16. CASE CloseDecoy(c)
    BY <2>16 DEF CloseDecoy, LiveRunTypeOK
  <2>17. CASE ExportEvents(c)
    BY <2>17 DEF ExportEvents, LiveRunTypeOK
  <2>18. CASE WriteCandidate(c)
    BY <2>18 DEF WriteCandidate, LiveRunTypeOK
  <2>19. CASE CleanUp(c)
    BY <2>19 DEF CleanUp, LiveRunTypeOK
  <2>20. CASE StartGate(c)
    BY <2>20 DEF StartGate, LiveRunTypeOK
  <2>21. CASE StartFinalize(c)
    BY <2>21 DEF StartFinalize, LiveRunTypeOK
  <2>22. CASE Shell(c, "preflight", "checked", FALSE, "version")
    BY <2>22 DEF Shell, Fresh, NoGuest, LiveRunTypeOK
  <2>23. CASE Await(c, "checked", "reserve", "version")
    BY <2>23 DEF Await, LiveRunTypeOK
  <2>24. CASE Shell(c, "run", "running", TRUE, "count")
    BY <2>24 DEF Shell, Fresh, NoGuest, LiveRunTypeOK
  <2>25. CASE Await(c, "running", "count", "count")
    BY <2>25 DEF Await, LiveRunTypeOK
  <2>26. CASE CountRun(c)
    BY <2>26 DEF CountRun, LiveRunTypeOK
  <2>27. CASE CheckVersion(c)
    BY <2>27 DEF CheckVersion, LiveRunTypeOK
  <2>28. CASE MakeImport(c)
    BY <2>28 DEF MakeImport, LiveRunTypeOK
  <2>29. CASE CopyOut(c, "candidate", "events")
    BY <2>29 DEF CopyOut, LiveRunTypeOK
  <2>30. CASE CopyOut(c, "events", "stop")
    BY <2>30 DEF CopyOut, LiveRunTypeOK
  <2>31. CASE ListVms(c)
    BY <2>31 DEF ListVms, LiveRunTypeOK
  <2>32. CASE LookForDisk(c)
    BY <2>32 DEF LookForDisk, LiveRunTypeOK
  <2>33. CASE WriteGate(c)
    BY <2>33 DEF WriteGate, LiveRunTypeOK
  <2>34. CASE KillCommand(c)
    BY <2>34 DEF KillCommand, LiveRunTypeOK
  <2>35. CASE KillGuest(c)
    BY <2>35 DEF KillGuest, LiveRunTypeOK
  <2> QED
    BY <1>1, <2>1, <2>2, <2>3, <2>4, <2>5, <2>6, <2>7, <2>8, <2>9, <2>10, <2>11, <2>12, <2>13,
       <2>14, <2>15, <2>16, <2>17, <2>18, <2>19, <2>20, <2>21, <2>22, <2>23, <2>24, <2>25,
       <2>26, <2>27, <2>28, <2>29, <2>30, <2>31, <2>32, <2>33, <2>34, <2>35
    DEF GuestStep, HostStep
<1>2. CASE HostLoss
  BY <1>2 DEF HostLoss, LiveRunTypeOK
<1>3. CASE MakeVm
  BY <1>3 DEF MakeVm, LiveRunTypeOK
<1>4. CASE UNCHANGED liveRunVars
  BY <1>4 DEF liveRunVars, LiveRunTypeOK
<1> QED
  BY <1>1, <1>2, <1>3, <1>4 DEF LiveRunNext

\* What the host keeps of the run.
LEMMA EvidenceType ==
    ASSUME LiveRunTypeOK, Copied, [LiveRunNext]_liveRunVars
    PROVE  /\ import' \in Copies \cup {None}
           /\ gate' \in [by : Commands, of : Commands \cup {None}, complete : BOOLEAN] \cup {None}
<1> USE LiveRunAssumption DEF hostFiles, Well, Mishap, Guest, Host, On, Step, Exit, GuestAside
<1>1. ASSUME NEW c \in Commands, GuestStep(c) \/ HostStep(c) \/ KillCommand(c) \/ KillGuest(c)
      PROVE  /\ import' \in Copies \cup {None}
           /\ gate' \in [by : Commands, of : Commands \cup {None}, complete : BOOLEAN] \cup {None}
  <2>1. CASE MakeImport(c)
    BY <2>1 DEF MakeImport, Copies, Candidates, LiveRunTypeOK
  <2>2. CASE CopyOut(c, "candidate", "events")
    <3>1. import # None
      BY <2>2 DEF CopyOut, Copied
    <3> QED
      BY <2>2, <3>1 DEF CopyOut, Copies, LiveRunTypeOK
  <2>3. CASE CopyOut(c, "events", "stop")
    <3>1. import # None
      BY <2>3 DEF CopyOut, Copied
    <3> QED
      BY <2>3, <3>1 DEF CopyOut, Copies, LiveRunTypeOK
  <2>4. CASE WriteGate(c)
    <3>1. CASE Evidenced(c)
      <4>1. import # None
        BY <3>1 DEF Evidenced, Copied
      <4>2. import.candidate.by \in Commands
        BY <3>1, <4>1 DEF Evidenced, Copies, Candidates, LiveRunTypeOK
      <4>3. (TornDown(c) /\ import.candidate.verdict = "pass") \in BOOLEAN
        BY DEF TornDown
      <4> QED
        BY <2>4, <3>1, <4>2, <4>3 DEF WriteGate, LiveRunTypeOK
    <3>2. CASE ~Evidenced(c)
      BY <2>4, <3>2 DEF WriteGate, LiveRunTypeOK
    <3> QED
      BY <3>1, <3>2
  <2>5. CASE \/ Attempt(c) \/ CountAttempt(c) \/ Preflight(c) \/ Probe(c) \/ StartControls(c)
             \/ ClaimLaunch(c) \/ WriteClaim(c) \/ Launch(c) \/ MissionEnds(c) \/ CloseDecoy(c)
             \/ ExportEvents(c) \/ WriteCandidate(c) \/ CleanUp(c) \/ StartGate(c)
             \/ StartFinalize(c) \/ Shell(c, "preflight", "checked", FALSE, "version")
             \/ Await(c, "checked", "reserve", "version") \/ Reserve(c) \/ SyncReservation(c)
             \/ Shell(c, "run", "running", TRUE, "count")
             \/ Await(c, "running", "count", "count") \/ CountRun(c) \/ ClaimRun(c)
             \/ RecordRun(c) \/ CheckVersion(c) \/ StopVm(c) \/ RemoveVm(c) \/ ListVms(c)
             \/ LookForDisk(c) \/ KillCommand(c) \/ KillGuest(c)
    BY <2>5 DEF Attempt, CountAttempt, Preflight, Probe, StartControls, ClaimLaunch, WriteClaim,
       Launch, MissionEnds, CloseDecoy, ExportEvents, WriteCandidate, CleanUp, StartGate,
       StartFinalize, Shell, Await, Reserve, SyncReservation, CountRun, ClaimRun, RecordRun,
       CheckVersion, StopVm, RemoveVm, ListVms, LookForDisk, KillCommand, KillGuest,
       LiveRunTypeOK
  <2> QED
    BY <1>1, <2>1, <2>2, <2>3, <2>4, <2>5
    DEF GuestStep, HostStep
<1>2. CASE HostLoss
  BY <1>2 DEF HostLoss, LiveRunTypeOK
<1>3. CASE MakeVm
  BY <1>3 DEF MakeVm, LiveRunTypeOK
<1>4. CASE UNCHANGED liveRunVars
  BY <1>4 DEF liveRunVars, LiveRunTypeOK
<1> QED
  BY <1>1, <1>2, <1>3, <1>4 DEF LiveRunNext

\* The Missions.
LEMMA MissionType ==
    ASSUME LiveRunTypeOK, [LiveRunNext]_liveRunVars
    PROVE  missions' \subseteq [by : Commands, vm : 1 .. machine'.no,
                              rc : {"running", "zero", "other", "raised"}]
<1> USE LiveRunAssumption DEF hostFiles, Well, Mishap, Guest, Host, On, Step, Exit, GuestAside
<1>1. ASSUME NEW c \in Commands, GuestStep(c) \/ HostStep(c) \/ KillCommand(c) \/ KillGuest(c)
      PROVE  missions' \subseteq [by : Commands, vm : 1 .. machine'.no,
                              rc : {"running", "zero", "other", "raised"}]
  <2>1. CASE Launch(c)
    BY <2>1 DEF Launch, LiveRunTypeOK
  <2>2. CASE MissionEnds(c)
    BY <2>2 DEF MissionEnds, Concluded, LiveRunTypeOK
  <2>3. CASE StopVm(c)
    BY <2>3 DEF StopVm, LiveRunTypeOK
  <2>4. CASE RemoveVm(c)
    BY <2>4 DEF RemoveVm, LiveRunTypeOK
  <2>5. CASE \/ Attempt(c) \/ CountAttempt(c) \/ Preflight(c) \/ Probe(c) \/ StartControls(c)
             \/ ClaimLaunch(c) \/ WriteClaim(c) \/ CloseDecoy(c) \/ ExportEvents(c)
             \/ WriteCandidate(c) \/ CleanUp(c) \/ StartGate(c) \/ StartFinalize(c)
             \/ Shell(c, "preflight", "checked", FALSE, "version")
             \/ Await(c, "checked", "reserve", "version") \/ Reserve(c) \/ SyncReservation(c)
             \/ Shell(c, "run", "running", TRUE, "count")
             \/ Await(c, "running", "count", "count") \/ CountRun(c) \/ ClaimRun(c)
             \/ RecordRun(c) \/ CheckVersion(c) \/ MakeImport(c)
             \/ CopyOut(c, "candidate", "events") \/ CopyOut(c, "events", "stop") \/ ListVms(c)
             \/ LookForDisk(c) \/ WriteGate(c) \/ KillCommand(c) \/ KillGuest(c)
    BY <2>5 DEF Attempt, CountAttempt, Preflight, Probe, StartControls, ClaimLaunch, WriteClaim,
       CloseDecoy, ExportEvents, WriteCandidate, CleanUp, StartGate, StartFinalize, Shell,
       Await, Reserve, SyncReservation, CountRun, ClaimRun, RecordRun, CheckVersion, MakeImport,
       CopyOut, ListVms, LookForDisk, WriteGate, KillCommand, KillGuest, LiveRunTypeOK
  <2> QED
    BY <1>1, <2>1, <2>2, <2>3, <2>4, <2>5
    DEF GuestStep, HostStep
<1>2. CASE HostLoss
  BY <1>2 DEF HostLoss, LiveRunTypeOK
<1>3. CASE MakeVm
  BY <1>3 DEF MakeVm, LiveRunTypeOK
<1>4. CASE UNCHANGED liveRunVars
  BY <1>4 DEF liveRunVars, LiveRunTypeOK
<1> QED
  BY <1>1, <1>2, <1>3, <1>4 DEF LiveRunNext

\* LiveRunTypeOK is inductive beside Copied: what is copied is copied into a directory.
LEMMA TypeStep == ASSUME LiveRunTypeOK, Copied, [LiveRunNext]_liveRunVars PROVE LiveRunTypeOK'
  BY GuestType, CommandType, DiskType, MachineType, EvidenceType, MissionType DEF LiveRunTypeOK


------------------------------------------------------------------------------
(* What a step may do, in the terms of the invariant.                      *)
Elsewhere(c) == \A d \in Commands \ {c} : guest'[d] = guest[d]

\* A step in the guest of c.
GuestMoves(c) ==
    /\ UNCHANGED <<machine, reservation, hostLedger, import, gate, cmd>> /\ Elsewhere(c)
    /\ guest'[c].full = guest[c].full
    /\ guest[c].pc \notin BeforeLaunch => guest'[c].pc \notin BeforeLaunch
    /\ guest'[c].pc \in Paying => guest[c].pc \in Paying \/ guest[c].full
    /\ guest[c].pc \in {"cleaning", "over"} =>
          guest'[c].pc = "over" /\ guest'[c].decoy = guest[c].decoy
    /\ \/ missions' = missions
       \/ /\ guest[c].pc = "launch" /\ guest'[c].pc = "mission"
          /\ missions' = missions \cup {[by |-> c, vm |-> machine.no, rc |-> "running"]}
       \/ guest[c].pc = "mission" /\ \E rc \in {"zero", "other", "raised"} : Concluded(c, rc)

\* The command c starts a process in the guest.
Started(c) ==
    /\ Elsewhere(c) /\ guest'[c].pc = "start" /\ guest'[c].status = 0
    /\ \/ cmd[c].pc = "preflight" /\ cmd'[c].pc = "checked" /\ ~guest'[c].full
       \/ cmd[c].pc = "run" /\ cmd'[c].pc = "running" /\ guest'[c].full

\* A step of the command c, or its end.
HostMoves(c) ==
    /\ UNCHANGED missions /\ \A d \in Commands \ {c} : cmd'[d] = cmd[d]
    /\ guest' = guest \/ Halt \/ Started(c)
    /\ cmd'[c].pc \in BeforeRun => cmd[c].pc \in BeforeRun
    /\ hostLedger = "one" => hostLedger' = "one"
    /\ \/ reservation' = reservation /\ cmd'[c].pc \notin {"sync", "run"}
       \/ /\ reservation = "none" /\ reservation' = "made" /\ guest' = guest
          /\ cmd[c].pc = "reserve" /\ cmd'[c].pc = "sync"
       \/ /\ reservation' = "held" /\ guest' = guest
          /\ cmd[c].pc = "sync" /\ cmd'[c].pc # "sync"

\* What a step of c does with the evidence and the VM.
EvidenceMoves(c) ==
    /\ \/ import' = import /\ cmd'[c].ready = cmd[c].ready
       \/ /\ import = None /\ import' \in Copies /\ import'.candidate = None
          /\ cmd[c].pc = "import" /\ ~cmd'[c].deleted
       \/ /\ import' \in Copies /\ cmd[c].pc \in {"candidate", "events"} /\ ~cmd'[c].deleted
          /\ cmd'[c].ready = cmd[c].ready
          /\ import'.candidate \in {import.candidate, inGuest.candidate}
    /\ cmd'[c].pc \in {"candidate", "events"} => cmd'[c].ready
    /\ cmd'[c].deleted => cmd'[c].pc \in {"list", "disk", "verdict", "ended", "killed"}
    /\ cmd'[c].deleted => cmd[c].deleted \/ machine'.up = "gone"
    /\ inGuest'.candidate \in {inGuest.candidate, None}
    /\ machine'.no = machine.no /\ (machine.up = "gone" => machine'.up = "gone")

\* Every step in the guest is such a step.
LEMMA GuestStepMoves ==
    ASSUME LiveRunTypeOK, NEW c \in Commands, GuestStep(c) \/ KillGuest(c)
    PROVE  GuestMoves(c)
<1> USE DEF hostFiles, Well, Mishap, Guest, Host, On, Step, Exit, GuestAside
<1>1. CASE Attempt(c)
  BY <1>1 DEF Attempt, GuestMoves, Elsewhere, BeforeLaunch, Paying, LiveRunTypeOK, GuestState,
     CommandState
<1>2. CASE CountAttempt(c)
  BY <1>2 DEF CountAttempt, GuestMoves, Elsewhere, BeforeLaunch, Paying, LiveRunTypeOK,
     GuestState, CommandState
<1>3. CASE Preflight(c)
  BY <1>3 DEF Preflight, GuestMoves, Elsewhere, BeforeLaunch, Paying, LiveRunTypeOK, GuestState,
     CommandState
<1>4. CASE Probe(c)
  BY <1>4 DEF Probe, GuestMoves, Elsewhere, BeforeLaunch, Paying, LiveRunTypeOK, GuestState,
     CommandState
<1>5. CASE StartControls(c)
  BY <1>5 DEF StartControls, GuestMoves, Elsewhere, BeforeLaunch, Paying, LiveRunTypeOK,
     GuestState, CommandState
<1>6. CASE ClaimLaunch(c)
  BY <1>6 DEF ClaimLaunch, GuestMoves, Elsewhere, BeforeLaunch, Paying, LiveRunTypeOK,
     GuestState, CommandState
<1>7. CASE WriteClaim(c)
  BY <1>7 DEF WriteClaim, GuestMoves, Elsewhere, BeforeLaunch, Paying, LiveRunTypeOK,
     GuestState, CommandState
<1>8. CASE Launch(c)
  BY <1>8 DEF Launch, GuestMoves, Elsewhere, BeforeLaunch, Paying, LiveRunTypeOK, GuestState,
     CommandState
<1>9. CASE MissionEnds(c)
  BY <1>9 DEF MissionEnds, GuestMoves, Elsewhere, BeforeLaunch, Paying, LiveRunTypeOK,
     GuestState, CommandState
<1>10. CASE CloseDecoy(c)
  BY <1>10 DEF CloseDecoy, GuestMoves, Elsewhere, BeforeLaunch, Paying, LiveRunTypeOK,
     GuestState, CommandState
<1>11. CASE ExportEvents(c)
  BY <1>11 DEF ExportEvents, GuestMoves, Elsewhere, BeforeLaunch, Paying, LiveRunTypeOK,
     GuestState, CommandState
<1>12. CASE WriteCandidate(c)
  BY <1>12 DEF WriteCandidate, GuestMoves, Elsewhere, BeforeLaunch, Paying, LiveRunTypeOK,
     GuestState, CommandState
<1>13. CASE CleanUp(c)
  BY <1>13 DEF CleanUp, GuestMoves, Elsewhere, BeforeLaunch, Paying, LiveRunTypeOK, GuestState,
     CommandState
<1>14. CASE KillGuest(c)
  BY <1>14 DEF KillGuest, GuestMoves, Elsewhere, BeforeLaunch, Paying, LiveRunTypeOK,
     GuestState, CommandState
<1> QED
  BY <1>1, <1>2, <1>3, <1>4, <1>5, <1>6, <1>7, <1>8, <1>9, <1>10, <1>11, <1>12, <1>13, <1>14
  DEF GuestStep

\* Every step of a command is such a step.
LEMMA HostStepMoves ==
    ASSUME LiveRunTypeOK, NEW c \in Commands, HostStep(c) \/ KillCommand(c)
    PROVE  HostMoves(c)
<1> USE DEF hostFiles, Well, Mishap, Guest, Host, On, Step, Exit, GuestAside
<1>1. CASE StartGate(c)
  BY <1>1 DEF StartGate, HostMoves, BeforeRun, LiveRunTypeOK, GuestState, CommandState
<1>2. CASE StartFinalize(c)
  BY <1>2 DEF StartFinalize, HostMoves, BeforeRun, LiveRunTypeOK, GuestState, CommandState
<1>3. CASE Shell(c, "preflight", "checked", FALSE, "version")
  <2>1. cmd[c].pc = "preflight" /\ UNCHANGED <<missions, reservation, hostLedger>>
    BY <1>3 DEF Shell
  <2>2. CASE cmd' = [cmd EXCEPT ![c].pc = "checked"] /\ guest' = [guest EXCEPT ![c] = Fresh(FALSE)]
    <3>1. Started(c)
      BY <2>1, <2>2, FreshGuest DEF Started, Elsewhere, LiveRunTypeOK, CommandState
    <3> QED
      BY <2>1, <2>2, <3>1 DEF HostMoves, BeforeRun, LiveRunTypeOK, CommandState
  <2>3. CASE cmd' = [cmd EXCEPT ![c].pc = "version", ![c].guestOk = FALSE] /\ guest' = guest
    BY <2>1, <2>3 DEF HostMoves, BeforeRun, LiveRunTypeOK, CommandState
  <2> QED
    BY <1>3, <2>2, <2>3 DEF Shell
<1>4. CASE Await(c, "checked", "reserve", "version")
  BY <1>4 DEF Await, HostMoves, BeforeRun, LiveRunTypeOK, GuestState, CommandState
<1>5. CASE Reserve(c)
  BY <1>5 DEF Reserve, Free, HostMoves, BeforeRun, LiveRunTypeOK, GuestState, CommandState
<1>6. CASE SyncReservation(c)
  BY <1>6 DEF SyncReservation, HostMoves, BeforeRun, LiveRunTypeOK, GuestState, CommandState
<1>7. CASE Shell(c, "run", "running", TRUE, "count")
  <2>1. cmd[c].pc = "run" /\ UNCHANGED <<missions, reservation, hostLedger>>
    BY <1>7 DEF Shell
  <2>2. CASE cmd' = [cmd EXCEPT ![c].pc = "running"] /\ guest' = [guest EXCEPT ![c] = Fresh(TRUE)]
    <3>1. Started(c)
      BY <2>1, <2>2, FreshGuest DEF Started, Elsewhere, LiveRunTypeOK, CommandState
    <3> QED
      BY <2>1, <2>2, <3>1 DEF HostMoves, BeforeRun, LiveRunTypeOK, CommandState
  <2>3. CASE cmd' = [cmd EXCEPT ![c].pc = "count", ![c].guestOk = FALSE] /\ guest' = guest
    BY <2>1, <2>3 DEF HostMoves, BeforeRun, LiveRunTypeOK, CommandState
  <2> QED
    BY <1>7, <2>2, <2>3 DEF Shell
<1>8. CASE Await(c, "running", "count", "count")
  BY <1>8 DEF Await, HostMoves, BeforeRun, LiveRunTypeOK, GuestState, CommandState
<1>9. CASE CountRun(c)
  BY <1>9 DEF CountRun, HostMoves, BeforeRun, LiveRunTypeOK, GuestState, CommandState
<1>10. CASE ClaimRun(c)
  BY <1>10 DEF ClaimRun, HostMoves, BeforeRun, LiveRunTypeOK, GuestState, CommandState
<1>11. CASE RecordRun(c)
  BY <1>11 DEF RecordRun, HostMoves, BeforeRun, LiveRunTypeOK, GuestState, CommandState
<1>12. CASE CheckVersion(c)
  BY <1>12 DEF CheckVersion, HostMoves, BeforeRun, LiveRunTypeOK, GuestState, CommandState
<1>13. CASE MakeImport(c)
  BY <1>13 DEF MakeImport, HostMoves, BeforeRun, LiveRunTypeOK, GuestState, CommandState
<1>14. CASE CopyOut(c, "candidate", "events")
  BY <1>14 DEF CopyOut, HostMoves, BeforeRun, LiveRunTypeOK, GuestState, CommandState
<1>15. CASE CopyOut(c, "events", "stop")
  BY <1>15 DEF CopyOut, HostMoves, BeforeRun, LiveRunTypeOK, GuestState, CommandState
<1>16. CASE StopVm(c)
  BY <1>16 DEF StopVm, HostMoves, BeforeRun, LiveRunTypeOK, GuestState, CommandState
<1>17. CASE RemoveVm(c)
  BY <1>17 DEF RemoveVm, HostMoves, BeforeRun, LiveRunTypeOK, GuestState, CommandState
<1>18. CASE ListVms(c)
  BY <1>18 DEF ListVms, HostMoves, BeforeRun, LiveRunTypeOK, GuestState, CommandState
<1>19. CASE LookForDisk(c)
  BY <1>19 DEF LookForDisk, HostMoves, BeforeRun, LiveRunTypeOK, GuestState, CommandState
<1>20. CASE WriteGate(c)
  BY <1>20 DEF WriteGate, HostMoves, BeforeRun, LiveRunTypeOK, GuestState, CommandState
<1>21. CASE KillCommand(c)
  BY <1>21 DEF KillCommand, HostMoves, BeforeRun, LiveRunTypeOK, GuestState, CommandState
<1> QED
  BY <1>1, <1>2, <1>3, <1>4, <1>5, <1>6, <1>7, <1>8, <1>9, <1>10, <1>11, <1>12, <1>13, <1>14,
     <1>15, <1>16, <1>17, <1>18, <1>19, <1>20, <1>21 DEF HostStep

\* And what it does with the evidence.
LEMMA HostStepEvidence ==
    ASSUME LiveRunTypeOK, NEW c \in Commands, Copied, HostStep(c) \/ KillCommand(c)
    PROVE  EvidenceMoves(c)
<1> USE DEF hostFiles, Well, Mishap, Guest, Host, On, Step, Exit, GuestAside
<1>1. CASE StartGate(c)
  BY <1>1 DEF StartGate, EvidenceMoves, Copied, LiveRunTypeOK, CommandState
<1>2. CASE StartFinalize(c)
  BY <1>2 DEF StartFinalize, EvidenceMoves, Copied, LiveRunTypeOK, CommandState
<1>3. CASE Shell(c, "preflight", "checked", FALSE, "version")
  BY <1>3 DEF Shell, Fresh, NoGuest, EvidenceMoves, Copied, LiveRunTypeOK, CommandState
<1>4. CASE Await(c, "checked", "reserve", "version")
  BY <1>4 DEF Await, EvidenceMoves, Copied, LiveRunTypeOK, CommandState
<1>5. CASE Reserve(c)
  BY <1>5 DEF Reserve, Free, EvidenceMoves, Copied, LiveRunTypeOK, CommandState
<1>6. CASE SyncReservation(c)
  BY <1>6 DEF SyncReservation, EvidenceMoves, Copied, LiveRunTypeOK, CommandState
<1>7. CASE Shell(c, "run", "running", TRUE, "count")
  BY <1>7 DEF Shell, Fresh, NoGuest, EvidenceMoves, Copied, LiveRunTypeOK, CommandState
<1>8. CASE Await(c, "running", "count", "count")
  BY <1>8 DEF Await, EvidenceMoves, Copied, LiveRunTypeOK, CommandState
<1>9. CASE CountRun(c)
  BY <1>9 DEF CountRun, EvidenceMoves, Copied, LiveRunTypeOK, CommandState
<1>10. CASE ClaimRun(c)
  BY <1>10 DEF ClaimRun, EvidenceMoves, Copied, LiveRunTypeOK, CommandState
<1>11. CASE RecordRun(c)
  BY <1>11 DEF RecordRun, EvidenceMoves, Copied, LiveRunTypeOK, CommandState
<1>12. CASE CheckVersion(c)
  BY <1>12 DEF CheckVersion, EvidenceMoves, Copied, LiveRunTypeOK, CommandState
<1>13. CASE MakeImport(c)
  BY <1>13 DEF MakeImport, Copies, Candidates, EvidenceMoves, Copied, LiveRunTypeOK,
     CommandState
<1>14. CASE CopyOut(c, "candidate", "events")
  BY <1>14 DEF CopyOut, Copies, EvidenceMoves, Copied, LiveRunTypeOK, CommandState
<1>15. CASE CopyOut(c, "events", "stop")
  BY <1>15 DEF CopyOut, Copies, EvidenceMoves, Copied, LiveRunTypeOK, CommandState
<1>16. CASE StopVm(c)
  BY <1>16 DEF StopVm, EvidenceMoves, Copied, LiveRunTypeOK, CommandState
<1>17. CASE RemoveVm(c)
  BY <1>17 DEF RemoveVm, EmptyDisk, EvidenceMoves, Copied, LiveRunTypeOK, CommandState
<1>18. CASE ListVms(c)
  BY <1>18 DEF ListVms, EvidenceMoves, Copied, LiveRunTypeOK, CommandState
<1>19. CASE LookForDisk(c)
  BY <1>19 DEF LookForDisk, EvidenceMoves, Copied, LiveRunTypeOK, CommandState
<1>20. CASE WriteGate(c)
  BY <1>20 DEF WriteGate, EvidenceMoves, Copied, LiveRunTypeOK, CommandState
<1>21. CASE KillCommand(c)
  BY <1>21 DEF KillCommand, EvidenceMoves, Copied, LiveRunTypeOK, CommandState
<1> QED
  BY <1>1, <1>2, <1>3, <1>4, <1>5, <1>6, <1>7, <1>8, <1>9, <1>10, <1>11, <1>12, <1>13, <1>14,
     <1>15, <1>16, <1>17, <1>18, <1>19, <1>20, <1>21 DEF HostStep

\* What runs in a VM that stops keeps everything but its place.
LEMMA HaltKeeps ==
    ASSUME LiveRunTypeOK, Halt, NEW c \in Commands
    PROVE  /\ guest'[c].full = guest[c].full /\ guest'[c].decoy = guest[c].decoy
           /\ guest'[c].status = guest[c].status
           /\ guest'[c].pc = IF guest[c].pc = "none" THEN "none" ELSE "over"
  BY DEF Halt, LiveRunTypeOK, GuestState

\* The loss of the host kills every command that had begun and not ended.
LEMMA LossKills ==
    ASSUME LiveRunTypeOK, HostLoss, NEW c \in Commands
    PROVE  /\ cmd'[c].ready = cmd[c].ready /\ cmd'[c].deleted = cmd[c].deleted
           /\ cmd'[c].claimOk = cmd[c].claimOk /\ cmd'[c].guestOk = cmd[c].guestOk
           /\ \/ cmd'[c].pc = cmd[c].pc /\ cmd[c].pc \in {"new", "ended"}
              \/ cmd'[c].pc = "killed"
  BY DEF HostLoss, LiveRunTypeOK, CommandState

\* One holder stays one holder.
LEMMA SoleStep == ASSUME LiveRunTypeOK, Sole, [LiveRunNext]_liveRunVars PROVE Sole'
<1> USE DEF Sole, Holder, OneMissionEver
<1>1. ASSUME NEW c \in Commands, GuestMoves(c) PROVE Sole'
  <2>1. CASE missions' = missions
    BY <1>1, <2>1 DEF GuestMoves, Elsewhere, Paying, BeforeLaunch, LiveRunTypeOK
  <2>2. CASE guest[c].pc = "launch" /\ guest'[c].pc = "mission"
             /\ missions' = missions \cup {[by |-> c, vm |-> machine.no, rc |-> "running"]}
    <3>1. missions = {}
      BY <2>2 DEF Paying, BeforeLaunch, LiveRunTypeOK
    <3> QED
      BY <1>1, <2>2, <3>1 DEF GuestMoves, Elsewhere, Paying, BeforeLaunch
  <2>3. ASSUME NEW rc, guest[c].pc = "mission", Concluded(c, rc) PROVE Sole'
    <3>1. /\ \A m \in missions' : \E k \in missions : k.by = m.by
          /\ \A m, n \in missions' : m = n
      BY <2>3 DEF Concluded, LiveRunTypeOK
    <3> QED
      BY <1>1, <2>3, <3>1 DEF GuestMoves, Elsewhere, Paying, BeforeLaunch, LiveRunTypeOK
  <2> QED
    BY <1>1, <2>1, <2>2, <2>3 DEF GuestMoves
<1>2. ASSUME NEW c \in Commands, HostMoves(c) PROVE Sole'
  <2>1. CASE guest' = guest
    BY <1>2, <2>1 DEF HostMoves, BeforeRun, LiveRunTypeOK
  <2>2. CASE Halt
    BY <1>2, <2>2, HaltKeeps DEF HostMoves, BeforeRun, BeforeLaunch, Paying, LiveRunTypeOK
  <2>3. CASE Started(c)
    BY <1>2, <2>3 DEF HostMoves, Started, Elsewhere, BeforeRun, BeforeLaunch, Paying,
       LiveRunTypeOK
  <2> QED
    BY <1>2, <2>1, <2>2, <2>3 DEF HostMoves
<1>3. CASE HostLoss
  BY <1>3, LossKills, HaltKeeps DEF HostLoss, BeforeRun, BeforeLaunch, Paying, LiveRunTypeOK
<1>4. CASE MakeVm
  BY <1>4 DEF MakeVm, hostFiles
<1>5. CASE UNCHANGED liveRunVars
  BY <1>5 DEF liveRunVars, hostFiles
<1> QED
  BY <1>1, <1>2, <1>3, <1>4, <1>5, GuestStepMoves, HostStepMoves DEF LiveRunNext


------------------------------------------------------------------------------
(* What is said of the run stays so.                                       *)

\* A Mission that another guest launched stays as it is.
LEMMA MissionsStay ==
    ASSUME LiveRunTypeOK, NEW c \in Commands, GuestMoves(c),
           NEW m \in missions, m.by # c \/ guest[c].pc # "mission"
    PROVE  m \in missions'
  BY DEF GuestMoves, Concluded, LiveRunTypeOK

\* A good run stays good.
LEMMA GoodStays ==
    ASSUME LiveRunTypeOK, Sole, [LiveRunNext]_liveRunVars, NEW x, Good(x)
    PROVE  Good(x)'
<1> USE DEF Good, Ended
<1>1. ASSUME NEW c \in Commands, GuestMoves(c) PROVE Good(x)'
  <2>1. Ended(x, "zero")'
    BY <1>1, MissionsStay DEF LiveRunTypeOK
  <2> QED
    BY <1>1, <2>1 DEF GuestMoves, Elsewhere
<1>2. ASSUME NEW c \in Commands, HostMoves(c) PROVE Good(x)'
  <2>1. CASE guest' = guest
    BY <1>2, <2>1 DEF HostMoves
  <2>2. CASE Halt
    BY <1>2, <2>2, HaltKeeps DEF HostMoves
  <2>3. CASE Started(c)
    BY <1>2, <2>3 DEF HostMoves, Started, Elsewhere, Sole, BeforeRun
  <2> QED
    BY <1>2, <2>1, <2>2, <2>3 DEF HostMoves
<1>3. CASE HostLoss
  BY <1>3, HaltKeeps DEF HostLoss
<1>4. CASE MakeVm
  BY <1>4 DEF MakeVm
<1>5. CASE UNCHANGED liveRunVars
  BY <1>5 DEF liveRunVars
<1> QED
  BY <1>1, <1>2, <1>3, <1>4, <1>5, GuestStepMoves, HostStepMoves DEF LiveRunNext

\* What a process remembers of its own steps.
LEMMA OwnStepTold ==
    ASSUME LiveRunTypeOK, NEW c \in Commands, GuestTold(c), guest[c].pc \in Paying => guest[c].full,
           GuestStep(c) \/ KillGuest(c)
    PROVE  GuestTold(c)'
<1> USE DEF hostFiles, Well, Mishap, Guest, Host, On, Step, Exit, GuestAside
<1>1. CASE Attempt(c)
  BY <1>1 DEF Attempt, GuestTold, Ended, BeforeLaunch, Paying, LiveRunTypeOK, GuestState
<1>2. CASE CountAttempt(c)
  BY <1>2 DEF CountAttempt, GuestTold, Ended, BeforeLaunch, Paying, LiveRunTypeOK, GuestState
<1>3. CASE Preflight(c)
  BY <1>3 DEF Preflight, GuestTold, Ended, BeforeLaunch, Paying, LiveRunTypeOK, GuestState
<1>4. CASE Probe(c)
  BY <1>4 DEF Probe, GuestTold, Ended, BeforeLaunch, Paying, LiveRunTypeOK, GuestState
<1>5. CASE StartControls(c)
  BY <1>5 DEF StartControls, GuestTold, Ended, BeforeLaunch, Paying, LiveRunTypeOK, GuestState
<1>6. CASE ClaimLaunch(c)
  BY <1>6 DEF ClaimLaunch, GuestTold, Ended, BeforeLaunch, Paying, LiveRunTypeOK, GuestState
<1>7. CASE WriteClaim(c)
  BY <1>7 DEF WriteClaim, GuestTold, Ended, BeforeLaunch, Paying, LiveRunTypeOK, GuestState
<1>8. CASE Launch(c)
  <2>1. [by |-> c, vm |-> machine.no, rc |-> "running"] \in missions'
    BY <1>8 DEF Launch
  <2>2. \E m \in missions' : m.by = c
    BY <2>1
  <2> QED
    BY <1>8, <2>2 DEF Launch, GuestTold, BeforeLaunch, Paying, LiveRunTypeOK, GuestState
<1>9. CASE MissionEnds(c)
  <2>1. Concluded(c, "zero") => Ended(c, "zero")'
    <3> SUFFICES ASSUME Concluded(c, "zero") PROVE Ended(c, "zero")'
      OBVIOUS
    <3>1. PICK m \in missions : m.by = c
      BY <1>9 DEF MissionEnds, GuestTold
    <3>2. [m EXCEPT !.rc = "zero"] \in missions'
      BY <3>1 DEF Concluded
    <3> QED
      BY <3>1, <3>2 DEF Ended, LiveRunTypeOK
  <2> QED
    BY <1>9, <2>1 DEF MissionEnds, GuestTold, BeforeLaunch, LiveRunTypeOK, GuestState
<1>10. CASE CloseDecoy(c)
  BY <1>10 DEF CloseDecoy, GuestTold, Ended, BeforeLaunch, Paying, LiveRunTypeOK, GuestState
<1>11. CASE ExportEvents(c)
  BY <1>11 DEF ExportEvents, GuestTold, Ended, BeforeLaunch, Paying, LiveRunTypeOK, GuestState
<1>12. CASE WriteCandidate(c)
  BY <1>12 DEF WriteCandidate, GuestTold, Ended, BeforeLaunch, Paying, LiveRunTypeOK, GuestState
<1>13. CASE CleanUp(c)
  BY <1>13 DEF CleanUp, GuestTold, Ended, BeforeLaunch, Paying, LiveRunTypeOK, GuestState
<1>14. CASE KillGuest(c)
  BY <1>14 DEF KillGuest, GuestTold, Ended, BeforeLaunch, Paying, LiveRunTypeOK, GuestState
<1> QED
  BY <1>1, <1>2, <1>3, <1>4, <1>5, <1>6, <1>7, <1>8, <1>9, <1>10, <1>11, <1>12, <1>13, <1>14
  DEF GuestStep

LEMMA ToldStep ==
    ASSUME LiveRunTypeOK, Sole, \A c \in Commands : GuestTold(c), [LiveRunNext]_liveRunVars,
           NEW x \in Commands
    PROVE  GuestTold(x)'
<1> USE DEF GuestTold, Ended
<1>1. ASSUME NEW c \in Commands, GuestStep(c) \/ KillGuest(c) PROVE GuestTold(x)'
  <2>1. CASE x = c
    BY <1>1, <2>1, OwnStepTold DEF Sole
  <2>2. CASE x # c
    <3>1. guest'[x] = guest[x] /\ \A m \in missions : m.by = x => m \in missions'
      BY <1>1, <2>2, GuestStepMoves, MissionsStay DEF GuestMoves, Elsewhere
    <3> QED
      BY <3>1
  <2> QED
    BY <2>1, <2>2
<1>2. ASSUME NEW c \in Commands, HostMoves(c) PROVE GuestTold(x)'
  <2>1. CASE guest' = guest
    BY <1>2, <2>1 DEF HostMoves
  <2>2. CASE Halt
    BY <1>2, <2>2, HaltKeeps DEF HostMoves, BeforeLaunch
  <2>3. CASE Started(c)
    BY <1>2, <2>3 DEF HostMoves, Started, Elsewhere
  <2> QED
    BY <1>2, <2>1, <2>2, <2>3 DEF HostMoves
<1>3. CASE HostLoss
  BY <1>3, HaltKeeps DEF HostLoss, BeforeLaunch
<1>4. CASE MakeVm
  BY <1>4 DEF MakeVm
<1>5. CASE UNCHANGED liveRunVars
  BY <1>5 DEF liveRunVars
<1> QED
  BY <1>1, <1>2, <1>3, <1>4, <1>5, HostStepMoves DEF LiveRunNext

\* A command reaches the verdict without a fault only past its record of the run.
LEMMA OwnStepRecorded ==
    ASSUME LiveRunTypeOK, NEW c \in Commands, Recorded(c),
           HostStep(c) \/ KillCommand(c)
    PROVE  Recorded(c)'
<1> USE DEF hostFiles, Well, Mishap, Guest, Host, On, Step, Exit, GuestAside
<1>1. CASE StartGate(c)
  BY <1>1 DEF StartGate, Recorded, Judged, LiveRunTypeOK, CommandState
<1>2. CASE StartFinalize(c)
  BY <1>2 DEF StartFinalize, Recorded, Judged, LiveRunTypeOK, CommandState
<1>3. CASE Shell(c, "preflight", "checked", FALSE, "version")
  BY <1>3 DEF Shell, Fresh, NoGuest, Recorded, Judged, LiveRunTypeOK, CommandState
<1>4. CASE Await(c, "checked", "reserve", "version")
  BY <1>4 DEF Await, Recorded, Judged, LiveRunTypeOK, CommandState
<1>5. CASE Reserve(c)
  BY <1>5 DEF Reserve, Free, Recorded, Judged, LiveRunTypeOK, CommandState
<1>6. CASE SyncReservation(c)
  BY <1>6 DEF SyncReservation, Recorded, Judged, LiveRunTypeOK, CommandState
<1>7. CASE Shell(c, "run", "running", TRUE, "count")
  BY <1>7 DEF Shell, Fresh, NoGuest, Recorded, Judged, LiveRunTypeOK, CommandState
<1>8. CASE Await(c, "running", "count", "count")
  BY <1>8 DEF Await, Recorded, Judged, LiveRunTypeOK, CommandState
<1>9. CASE CountRun(c)
  BY <1>9 DEF CountRun, Recorded, Judged, LiveRunTypeOK, CommandState
<1>10. CASE ClaimRun(c)
  BY <1>10 DEF ClaimRun, Recorded, Judged, LiveRunTypeOK, CommandState
<1>11. CASE RecordRun(c)
  BY <1>11 DEF RecordRun, Recorded, Judged, LiveRunTypeOK, CommandState
<1>12. CASE CheckVersion(c)
  BY <1>12 DEF CheckVersion, Recorded, Judged, LiveRunTypeOK, CommandState
<1>13. CASE MakeImport(c)
  BY <1>13 DEF MakeImport, Recorded, Judged, LiveRunTypeOK, CommandState
<1>14. CASE CopyOut(c, "candidate", "events")
  BY <1>14 DEF CopyOut, Recorded, Judged, LiveRunTypeOK, CommandState
<1>15. CASE CopyOut(c, "events", "stop")
  BY <1>15 DEF CopyOut, Recorded, Judged, LiveRunTypeOK, CommandState
<1>16. CASE StopVm(c)
  BY <1>16 DEF StopVm, Recorded, Judged, LiveRunTypeOK, CommandState
<1>17. CASE RemoveVm(c)
  BY <1>17 DEF RemoveVm, Recorded, Judged, LiveRunTypeOK, CommandState
<1>18. CASE ListVms(c)
  BY <1>18 DEF ListVms, Recorded, Judged, LiveRunTypeOK, CommandState
<1>19. CASE LookForDisk(c)
  BY <1>19 DEF LookForDisk, Recorded, Judged, LiveRunTypeOK, CommandState
<1>20. CASE WriteGate(c)
  BY <1>20 DEF WriteGate, Recorded, Judged, LiveRunTypeOK, CommandState
<1>21. CASE KillCommand(c)
  BY <1>21 DEF KillCommand, Recorded, Judged, LiveRunTypeOK, CommandState
<1> QED
  BY <1>1, <1>2, <1>3, <1>4, <1>5, <1>6, <1>7, <1>8, <1>9, <1>10, <1>11, <1>12, <1>13, <1>14,
     <1>15, <1>16, <1>17, <1>18, <1>19, <1>20, <1>21 DEF HostStep

LEMMA RecordedStep ==
    ASSUME LiveRunTypeOK, \A c \in Commands : Recorded(c), [LiveRunNext]_liveRunVars,
           NEW x \in Commands
    PROVE  Recorded(x)'
<1>1. ASSUME NEW c \in Commands, GuestMoves(c) PROVE Recorded(x)'
  BY <1>1 DEF GuestMoves, Recorded
<1>2. ASSUME NEW c \in Commands, HostStep(c) \/ KillCommand(c) PROVE Recorded(x)'
  <2>1. CASE x = c
    BY <1>2, <2>1, OwnStepRecorded DEF LiveRunTypeOK
  <2>2. CASE x # c
    BY <1>2, <2>2, HostStepMoves DEF HostMoves, Recorded
  <2> QED
    BY <2>1, <2>2
<1>3. CASE HostLoss
  <2>1. hostLedger = "one" => hostLedger' = "one"
    BY <1>3 DEF HostLoss
  <2> QED
    BY <1>3, <2>1, LossKills DEF Recorded, Judged
<1>4. CASE MakeVm
  BY <1>4 DEF MakeVm, Recorded, hostFiles
<1>5. CASE UNCHANGED liveRunVars
  BY <1>5 DEF liveRunVars, Recorded, hostFiles
<1> QED
  BY <1>1, <1>2, <1>3, <1>4, <1>5, GuestStepMoves DEF LiveRunNext


\* What a candidate says stays so, and a new one says it truly.
LEMMA AttestedStep ==
    ASSUME LiveRunTypeOK, Sole, \A c \in Commands : GuestTold(c), Copied, Attested,
           [LiveRunNext]_liveRunVars
    PROVE  Attested'
<1>1. \A x : Good(x) => Good(x)'
  BY GoodStays
<1>2. ASSUME NEW c \in Commands, GuestStep(c) \/ KillGuest(c) PROVE Attested'
  <2>1. import' = import
    BY <1>2, GuestStepMoves DEF GuestMoves
  <2>2. CASE inGuest'.candidate = inGuest.candidate
    BY <1>1, <2>1, <2>2 DEF Attested
  <2>3. CASE WriteCandidate(c)
    <3>1. Ended(c, "zero")' = Ended(c, "zero")
      BY <2>3 DEF WriteCandidate, Ended
    <3>2. PICK v \in Verdicts(c) :
             /\ inGuest' = [inGuest EXCEPT !.candidate = [by |-> c, verdict |-> v]]
             /\ guest' = [guest EXCEPT ![c].pc = "cleaning"]
          \/ UNCHANGED inGuest
      BY <2>3 DEF WriteCandidate, Step, Verdicts
    <3>3. CASE UNCHANGED inGuest
      BY <1>1, <2>1, <3>3 DEF Attested
    <3>4. CASE /\ inGuest' = [inGuest EXCEPT !.candidate = [by |-> c, verdict |-> v]]
               /\ guest' = [guest EXCEPT ![c].pc = "cleaning"]
      <4>1. inGuest'.candidate = [by |-> c, verdict |-> v]
        BY <3>4 DEF LiveRunTypeOK
      <4>2. v = "pass" => Good(c)'
        <5>1. v = "pass" => guest[c].status = 0
          BY <3>2 DEF Verdicts
        <5>2. guest[c].pc = "judging"
          BY <2>3 DEF WriteCandidate, Guest
        <5> QED
          BY <3>1, <3>4, <5>1, <5>2 DEF GuestTold, Good, LiveRunTypeOK, GuestState
      <4> QED
        BY <1>1, <2>1, <4>1, <4>2 DEF Attested, Passed
    <3> QED
      BY <3>2, <3>3, <3>4
  <2> QED
    BY <1>2, <2>2, <2>3 DEF GuestStep, Attempt, CountAttempt, Preflight, Probe, StartControls,
       ClaimLaunch, WriteClaim, Launch, MissionEnds, CloseDecoy, ExportEvents, CleanUp, KillGuest,
       LiveRunTypeOK
<1>3. ASSUME NEW c \in Commands, EvidenceMoves(c) PROVE Attested'
  BY <1>1, <1>3 DEF EvidenceMoves, Attested, Passed, Copied
<1>4. CASE HostLoss
  <2>1. inGuest'.candidate = inGuest.candidate /\ import' = import
    BY <1>4 DEF HostLoss, LiveRunTypeOK
  <2> QED
    BY <1>1, <2>1 DEF Attested
<1>5. CASE MakeVm
  <2>1. inGuest'.candidate \in {inGuest.candidate, None} /\ import' = import
    BY <1>5 DEF MakeVm, EmptyDisk, hostFiles
  <2> QED
    BY <1>1, <2>1 DEF Attested, Passed
<1>6. CASE UNCHANGED liveRunVars
  BY <1>1, <1>6 DEF liveRunVars, hostFiles, Attested
<1> QED
  BY <1>2, <1>3, <1>4, <1>5, <1>6, HostStepEvidence DEF LiveRunNext

\* Once there was a Mission, no VM that is no more comes back.
LEMMA FarStays ==
    ASSUME LiveRunTypeOK, Sole, Copied, [LiveRunNext]_liveRunVars, Far, missions # {}
    PROVE  Far'
<1>1. ASSUME NEW c \in Commands, GuestMoves(c) PROVE Far'
  <2>1. guest[c].pc # "launch"
    BY DEF Sole, Holder, Paying, BeforeLaunch, LiveRunTypeOK
  <2>2. \A m \in missions' : \E k \in missions : k.vm = m.vm
    BY <1>1, <2>1 DEF GuestMoves, Concluded, LiveRunTypeOK
  <2> QED
    BY <1>1, <2>2 DEF GuestMoves, Far
<1>2. ASSUME NEW c \in Commands, EvidenceMoves(c), HostMoves(c) PROVE Far'
  BY <1>2 DEF EvidenceMoves, HostMoves, Far
<1>3. CASE HostLoss
  BY <1>3 DEF HostLoss, Far, LiveRunTypeOK
<1>4. CASE MakeVm
  BY <1>4, LiveRunAssumption DEF MakeVm, Far, LiveRunTypeOK
<1>5. CASE UNCHANGED liveRunVars
  BY <1>5 DEF liveRunVars, Far
<1> QED
  BY <1>1, <1>2, <1>3, <1>4, <1>5, GuestStepMoves, HostStepMoves, HostStepEvidence DEF LiveRunNext

\* One command goes on to be the one that copies.
LEMMA CopiedStep ==
    ASSUME LiveRunTypeOK, Sole, Attested, Copied, [LiveRunNext]_liveRunVars
    PROVE  Copied'
<1>1. ASSUME NEW c \in Commands, GuestMoves(c) PROVE Copied'
  <2>1. \A d \in Commands : cmd[d].ready /\ cmd[d].deleted /\ Passed(import.candidate) => Far'
    BY FarStays DEF Copied, Attested, Good, Ended
  <2> QED
    BY <1>1, <2>1 DEF GuestMoves, Copied
<1>2. ASSUME NEW c \in Commands, EvidenceMoves(c), HostMoves(c) PROVE Copied'
  <2>1. Far /\ missions # {} => Far'
    BY FarStays
  <2>2. machine'.up = "gone" => Far'
    BY DEF Far
  <2>3. \A d \in Commands : cmd[d].ready /\ cmd[d].deleted /\ Passed(import.candidate) => Far'
    BY <2>1 DEF Copied, Attested, Good, Ended
  <2>4. None \notin Copies
    BY LiveRunAssumption
  <2>5. CASE import' = import /\ cmd'[c].ready = cmd[c].ready
    BY <1>2, <2>2, <2>3, <2>5 DEF EvidenceMoves, HostMoves, Copied
  <2>6. CASE import = None
    BY <1>2, <2>4, <2>6 DEF EvidenceMoves, HostMoves, Copied, Passed
  <2>7. CASE /\ import' \in Copies /\ cmd[c].pc \in {"candidate", "events"} /\ ~cmd'[c].deleted
             /\ cmd'[c].ready = cmd[c].ready
    BY <1>2, <2>4, <2>7 DEF EvidenceMoves, HostMoves, Copied
  <2> QED
    BY <1>2, <2>5, <2>6, <2>7 DEF EvidenceMoves
<1>3. CASE HostLoss
  <2>1. import' = import
    BY <1>3 DEF HostLoss
  <2>2. \A d \in Commands : cmd[d].ready /\ cmd[d].deleted /\ Passed(import.candidate) => Far'
    BY FarStays DEF Copied, Attested, Good, Ended
  <2> QED
    BY <1>3, <2>1, <2>2, LossKills DEF Copied
<1>4. CASE MakeVm
  <2>1. UNCHANGED <<import, cmd>>
    BY <1>4 DEF MakeVm, hostFiles
  <2>2. \A d \in Commands : cmd[d].ready /\ cmd[d].deleted /\ Passed(import.candidate) => Far'
    BY FarStays DEF Copied, Attested, Good, Ended
  <2> QED
    BY <2>1, <2>2 DEF Copied
<1>5. CASE UNCHANGED liveRunVars
  BY <1>5 DEF liveRunVars, hostFiles, Copied, Far
<1> QED
  BY <1>1, <1>2, <1>3, <1>4, <1>5, GuestStepMoves, HostStepMoves, HostStepEvidence DEF LiveRunNext

\* A gate of complete success is written on such evidence only, and stays true.
LEMMA SucceededStep ==
    ASSUME LiveRunTypeOK, IInv, [LiveRunNext]_liveRunVars
    PROVE  Succeeded'
<1> USE DEF IInv
<1>1. ASSUME gate' = gate, hostLedger = "one" => hostLedger' = "one" PROVE Succeeded'
  BY <1>1, GoodStays, FarStays DEF Succeeded, Good, Ended
<1>2. ASSUME NEW c \in Commands, WriteGate(c) PROVE Succeeded'
  <2>1. CASE Evidenced(c) /\ TornDown(c) /\ import.candidate.verdict = "pass"
    <3>1. Good(import.candidate.by) /\ Far /\ hostLedger = "one"
      BY <1>2, <2>1 DEF WriteGate, Host, Evidenced, TornDown, Attested, Passed,
         Copied, Recorded, Judged
    <3>2. Good(import.candidate.by)' /\ Far' /\ hostLedger' = "one"
      BY <1>2, <3>1, GoodStays DEF WriteGate, GuestAside, Host, Far
    <3>3. gate'.of = import'.candidate.by
      BY <1>2, <2>1 DEF WriteGate
    <3> QED
      BY <3>2, <3>3 DEF Succeeded, Good, Ended
  <2>2. CASE ~(Evidenced(c) /\ TornDown(c) /\ import.candidate.verdict = "pass")
    <3>1. ~gate'.complete
      BY <1>2, <2>2 DEF WriteGate
    <3> QED
      BY <3>1 DEF Succeeded
  <2> QED
    BY <2>1, <2>2
<1>3. ASSUME NEW c \in Commands, HostStep(c) \/ KillCommand(c), ~WriteGate(c) PROVE gate' = gate
  BY <1>3 DEF HostStep, StartGate, StartFinalize, Shell, Await, Reserve, SyncReservation, CountRun,
     ClaimRun, RecordRun, CheckVersion, MakeImport, CopyOut, StopVm, RemoveVm, ListVms, LookForDisk,
     KillCommand, hostFiles
<1>4. ASSUME NEW c \in Commands, HostStep(c) \/ KillCommand(c) PROVE Succeeded'
  BY <1>1, <1>2, <1>3, <1>4, HostStepMoves DEF HostMoves
<1>5. ASSUME NEW c \in Commands, GuestStep(c) \/ KillGuest(c) PROVE Succeeded'
  BY <1>1, <1>5, GuestStepMoves DEF GuestMoves
<1>6. CASE HostLoss
  BY <1>1, <1>6 DEF HostLoss
<1>7. CASE MakeVm
  BY <1>1, <1>7 DEF MakeVm, hostFiles
<1>8. CASE UNCHANGED liveRunVars
  BY <1>1, <1>8 DEF liveRunVars, hostFiles
<1> QED
  BY <1>4, <1>5, <1>6, <1>7, <1>8 DEF LiveRunNext

------------------------------------------------------------------------------
LEMMA LiveRunInvariant == LiveRunSpec => [](LiveRunTypeOK /\ IInv)
<1>1. LiveRunInit => LiveRunTypeOK /\ IInv
  <2> SUFFICES ASSUME LiveRunInit PROVE LiveRunTypeOK /\ IInv
    OBVIOUS
  <2>1. NoCommand \in CommandState
    BY DEF NoCommand, CommandState
  <2>2. NoCommand.pc = "new" /\ ~NoCommand.ready /\ ~NoCommand.deleted
    BY DEF NoCommand
  <2>3. NoGuest.pc = "none" /\ NoGuest.status = 0 /\ ~NoGuest.full
    BY DEF NoGuest
  <2>4. LiveRunTypeOK
    BY <2>1, FreshGuest, LiveRunAssumption DEF LiveRunInit, LiveRunTypeOK, EmptyDisk, Candidates
  <2>5. IInv
    BY <2>2, <2>3 DEF LiveRunInit, EmptyDisk, IInv, Sole, Holder, OneMissionEver, Attested, Passed,
       Copied, Succeeded, GuestTold, Recorded, BeforeRun, BeforeLaunch, Paying, Judged
  <2> QED
    BY <2>4, <2>5
<1>2. LiveRunTypeOK /\ IInv /\ [LiveRunNext]_liveRunVars => (LiveRunTypeOK /\ IInv)'
  BY TypeStep, SoleStep, ToldStep, RecordedStep, AttestedStep, CopiedStep, SucceededStep DEF IInv
<1> QED
  BY <1>1, <1>2, PTL DEF LiveRunSpec

\* At most one Mission is ever launched, however many commands and virtual
\* machines there are and whatever dies between which two steps.
THEOREM OneMission == LiveRunSpec => []OneMissionEver
<1>1. IInv => OneMissionEver
  BY DEF IInv, Sole
<1> QED
  BY <1>1, LiveRunInvariant, PTL

\* A gate of complete success is that of a Mission that ended well and whose
\* decoy was closed, with the run on record and its VM gone.
THEOREM SuccessIsClean == LiveRunSpec => []CleanSuccess
<1>1. LiveRunTypeOK /\ IInv => CleanSuccess
  BY DEF CleanSuccess, IInv, Succeeded, Good, Ended, Far, Sole, Holder, SuccessMeansCleanRun
<1> QED
  BY <1>1, LiveRunInvariant, PTL

------------------------------------------------------------------------------
(***************************************************************************)
(* Theorems about LiveGate, for any number of completions and of failures, *)
(* late answers and refusals.                                              *)
(*                                                                         *)
(* A request tells the past: when it is handled its session may have gone  *)
(* on. What the controller concludes from it is of a kind that time cannot *)
(* undo (Right): that the worker came to its completion (Late), that its   *)
(* session ended (Over), that its transcript holds a correction, and that  *)
(* its file was put right, which it never spoils again. So a request that  *)
(* is late is as good as one in time (Honest), and no answer, timeout or   *)
(* outage can take back what is known (Onward).                            *)
(***************************************************************************)

\* What transcripts, sessions, requests and the controller's state are made of.
Marks == {"fallback", "correction", "ack"}
SessionSet ==
    [at : {"start", "prompt", "tool", "wait", "stop", "over", "done"}, n : Nat,
     waiting : BOOLEAN, stops : 0 .. MaxStops, blocks : Nat, outage : BOOLEAN]
RequestSet ==
    [by : Sessions,
     event : {"SessionStart", "UserPromptSubmit", "PostToolUse", "SessionEnd"}
               \cup Completions,
     n : Nat, inside : BOOLEAN]
BlockerSet ==
    [armed : BOOLEAN, resolved : BOOLEAN, released : BOOLEAN, attempts : 0 .. 2, old : BOOLEAN]
CtlSet ==
    [orch : Sessions \cup {NoOwner}, workerA : {Worker, NoOwner}, given : Nat, acked : BOOLEAN,
     known : [Sessions -> SUBSET Marks], worker : BlockerSet, mission : BlockerSet,
     stops : Nat, after : Nat, base : BOOLEAN, noticed : BOOLEAN, ended : BOOLEAN,
     errors : BOOLEAN]

\* The worker has come to its completion; it has ended.
Late == session[Worker].at \in {"stop", "over", "done"}
Over == session[Worker].at \in {"over", "done"}

\* A session is blocked once for a hook it sent at most, and corrects its work
\* only after it was blocked.
Sound(s) ==
    /\ session[s].blocks + (IF session[s].waiting THEN 1 ELSE 0) <= session[s].n
    /\ "correction" \in log[s] => session[s].blocks > 0
Honest(r) == r.by = Worker => /\ r.event = "SubagentStop" => Late
                              /\ r.event = "SessionEnd" => Over
\* What the controller knows is so.
Right(c) ==
    /\ c \in CtlSet /\ ~(c.orch = Worker /\ c.workerA = Worker)
    /\ \A s \in Sessions : c.known[s] \subseteq log[s]
    /\ c.worker.armed => Late
    /\ c.worker.resolved => c.worker.armed /\ files.worker = "cents"
       /\ "correction" \in log[Worker]
    /\ c.mission.resolved => c.mission.armed
    /\ c.ended => Over
    /\ c.noticed => c.after # 0
GateIInv ==
    /\ session \in [Sessions -> SessionSet] /\ log \in [Sessions -> SUBSET Marks]
    /\ session[Worker].at # "wait" /\ session[Orch].at \notin {"prompt", "tool"}
    /\ reqs \subseteq RequestSet /\ server \in {"serving", "pausing", "paused"}
    /\ troubles \in 0 .. MaxTroubles
    /\ files \in [worker : {"none", "dollars", "cents"}, mission : BOOLEAN]
    /\ \A s \in Sessions : Sound(s)
    /\ \A r \in reqs : Honest(r)
    /\ Right(ctl)
------------------------------------------------------------------------------
\* What happens to the sessions and their transcripts when hooks answer:
\* nothing that was written goes, and nobody comes back from a completion.
Onward ==
    /\ session' \in [Sessions -> SessionSet] /\ log' \in [Sessions -> SUBSET Marks]
    /\ session'[Worker].at # "wait" /\ session'[Orch].at \notin {"prompt", "tool"}
    /\ \A s \in Sessions : Sound(s)' /\ log[s] \subseteq log'[s]
    /\ Late => Late'
    /\ Over => Over'
FilesKept == /\ files' \in [worker : {"none", "dollars", "cents"}, mission : BOOLEAN]
             /\ files.worker = "cents" => files'.worker = "cents"

\* The two sessions, and the mark for nobody.
LEMMA Parties == Orch # Worker /\ NoOwner \notin Sessions /\ Sessions = {Orch, Worker}
BY GateAssumption DEF Sessions

\* The Mission begins with nothing known and nothing asked.
LEMMA Starts == GateInit => GateIInv
<1> SUFFICES ASSUME GateInit PROVE GateIInv
  OBVIOUS
<1>p. Orch # Worker /\ NoOwner \notin Sessions /\ Sessions = {Orch, Worker}
      /\ MaxStops \in Nat /\ MaxTroubles \in Nat
  BY Parties, GateAssumption
<1>b. Blocker \in BlockerSet /\ ~Blocker.armed /\ ~Blocker.resolved
  BY DEF Blocker, BlockerSet
<1>1. session \in [Sessions -> SessionSet] /\ \A s \in Sessions : session[s].at = "start"
                                                 /\ session[s].blocks = 0
                                                           /\ session[s].n = 0
                                                           /\ ~session[s].waiting
  BY <1>p DEF GateInit, SessionSet
<1>2. log \in [Sessions -> SUBSET Marks] /\ \A s \in Sessions : log[s] = {}
  BY DEF GateInit
<1>3. ctl \in CtlSet /\ ctl.orch = NoOwner /\ ~ctl.worker.armed /\ ~ctl.worker.resolved
      /\ ~ctl.mission.resolved
      /\ ~ctl.ended /\ ~ctl.noticed /\ \A s \in Sessions : ctl.known[s] = {}
  BY <1>b DEF GateInit, CtlSet
<1>4. Right(ctl)
  BY <1>p, <1>2, <1>3 DEF Right
<1>5. \A s \in Sessions : Sound(s)
  BY <1>1, <1>2 DEF Sound
<1>6. files \in [worker : {"none", "dollars", "cents"}, mission : BOOLEAN] /\ reqs = {}
      /\ server = "serving" /\ troubles = 0
  BY DEF GateInit
<1> QED
  BY <1>p, <1>1, <1>2, <1>4, <1>5, <1>6 DEF GateIInv

\* What the invariant says of types, for the proofs that follow.
LEMMA GateKinds ==
    ASSUME GateIInv PROVE
    /\ session \in [Sessions -> SessionSet] /\ log \in [Sessions -> SUBSET Marks]
    /\ session[Worker].at # "wait" /\ session[Orch].at \notin {"prompt", "tool"}
    /\ reqs \subseteq RequestSet /\ server \in {"serving", "pausing", "paused"}
    /\ troubles \in 0 .. MaxTroubles
    /\ files \in [worker : {"none", "dollars", "cents"}, mission : BOOLEAN]
    /\ Right(ctl)
    /\ MaxTroubles \in Nat
BY GateAssumption DEF GateIInv

\* What is known stays right as the sessions go on.
LEMMA RightOnward ==
    ASSUME NEW c, Right(c), Onward, FilesKept, ctl' = c
    PROVE  Right(ctl)'
<1>1. \A s \in Sessions : log[s] \subseteq log'[s]
  BY DEF Onward
<1>2. Worker \in Sessions
  BY Parties
<1> QED
  BY <1>1, <1>2 DEF Right, Onward, FilesKept

\* A step in which no file is spoilt, no request is added and the controller
\* knows only what is right keeps the invariant.
LEMMA Steady ==
    ASSUME GateIInv, NEW c, Right(c), ctl' = c, Onward, FilesKept,
           \A r \in reqs' : \E q \in reqs : r.by = q.by /\ r.event = q.event,
           reqs' \subseteq RequestSet,
           server' \in {"serving", "pausing", "paused"}, Smooth \/ Trouble
    PROVE  GateIInv'
<1>m. troubles \in 0 .. MaxTroubles /\ MaxTroubles \in Nat
  BY GateKinds
<1>1. Right(ctl)'
  BY RightOnward
<1>2. (\A r \in reqs : Honest(r))'
  <2> SUFFICES ASSUME NEW r \in reqs' PROVE Honest(r)'
    OBVIOUS
  <2>1. PICK q \in reqs : r.by = q.by /\ r.event = q.event
    OBVIOUS
  <2>2. Honest(q)
    BY DEF GateIInv
  <2>3. (Late => Late') /\ (Over => Over')
    BY DEF Onward
  <2> QED
    BY <2>1, <2>2, <2>3 DEF Honest
<1>3. troubles' \in 0 .. MaxTroubles
  BY <1>m DEF Smooth, Trouble
<1>4. /\ session' \in [Sessions -> SessionSet] /\ log' \in [Sessions -> SUBSET Marks]
      /\ session'[Worker].at # "wait" /\ session'[Orch].at \notin {"prompt", "tool"}
      /\ (\A s \in Sessions : Sound(s))'
  BY DEF Onward
<1>5. files' \in [worker : {"none", "dollars", "cents"}, mission : BOOLEAN]
  BY DEF FilesKept
<1> QED
  BY <1>1, <1>2, <1>3, <1>4, <1>5 DEF GateIInv

\* What Right says of types, for the controller's steps.
LEMMA RightKinds ==
    ASSUME NEW c, Right(c) PROVE
    /\ c \in CtlSet
    /\ c.orch \in Sessions \cup {NoOwner} /\ c.workerA \in {Worker, NoOwner}
    /\ c.given \in Nat /\ c.acked \in BOOLEAN
    /\ c.known \in [Sessions -> SUBSET Marks] /\ c.worker \in BlockerSet
    /\ c.mission \in BlockerSet
    /\ c.stops \in Nat /\ c.after \in Nat /\ c.base \in BOOLEAN /\ c.noticed \in BOOLEAN
    /\ c.ended \in BOOLEAN
    /\ c.errors \in BOOLEAN
BY DEF Right, CtlSet

\* Worker A is the worker, whoever else has been taken for the orchestrator.
LEMMA WorkerIsWorker ==
    ASSUME NEW c, Right(c), NEW s \in Sessions, RoleOf(c, s) = "worker_a"
    PROVE  s = Worker /\ c.workerA = Worker
<1>1. c.workerA \in {Worker, NoOwner} /\ s # NoOwner
  BY Parties, RightKinds
<1>2. c.workerA = s
  BY DEF RoleOf
<1> QED
  BY <1>1, <1>2

\* Reading a transcript: known is what it holds by now.
LEMMA ReadRight ==
    ASSUME NEW c, Right(c), NEW s \in Sessions, log \in [Sessions -> SUBSET Marks]
    PROVE  Right([c EXCEPT !.known[s] = log[s]])
<1> DEFINE d == [c EXCEPT !.known[s] = log[s]]
<1>m. c \in CtlSet /\ c.known \in [Sessions -> SUBSET Marks]
  BY RightKinds
<1>1. d \in CtlSet
  BY <1>m DEF CtlSet
<1>2. d.known = [c.known EXCEPT ![s] = log[s]]
  BY <1>m DEF CtlSet
<1>3. /\ d.orch = c.orch /\ d.workerA = c.workerA /\ d.worker = c.worker
      /\ d.mission = c.mission
      /\ d.ended = c.ended /\ d.noticed = c.noticed /\ d.after = c.after
  BY <1>m DEF CtlSet
<1>4. \A t \in Sessions : d.known[t] \subseteq log[t]
  BY <1>m, <1>2 DEF Right
<1> HIDE DEF d
<1>5. Right(d)
  BY <1>1, <1>3, <1>4 DEF Right
<1> QED
  BY <1>5 DEF d

\* A role is given to a session that has none.
LEMMA InferRight ==
    ASSUME NEW c, Right(c), NEW r \in RequestSet PROVE Right(InferRole(c, r))
<1>m. c \in CtlSet /\ c.orch \in Sessions \cup {NoOwner} /\ c.workerA \in {Worker, NoOwner}
  BY RightKinds
<1>r. r.by \in Sessions /\ NoOwner \notin Sessions /\ Worker \in Sessions
  BY Parties DEF RequestSet
<1>1. CASE r.by \notin {c.orch, c.workerA} /\ r.event = "SessionStart" /\ c.orch = NoOwner
  <2> DEFINE d == [c EXCEPT !.orch = r.by]
  <2>1. d \in CtlSet /\ d.orch = r.by
    BY <1>m, <1>r DEF CtlSet
  <2>2. /\ d.workerA = c.workerA /\ d.known = c.known /\ d.worker = c.worker
        /\ d.mission = c.mission
        /\ d.ended = c.ended /\ d.noticed = c.noticed /\ d.after = c.after
    BY <1>m DEF CtlSet
  <2> HIDE DEF d
  <2>3. Right(d)
    BY <1>1, <2>1, <2>2 DEF Right
  <2> QED
    BY <1>1, <2>3 DEF d, InferRole
<1>2. CASE r.by \notin {c.orch, c.workerA} /\ r.event = "UserPromptSubmit" /\ r.by = Worker
      /\ c.workerA = NoOwner
  <2> DEFINE d == [c EXCEPT !.workerA = r.by]
  <2>1. d \in CtlSet /\ d.workerA = r.by
    BY <1>m, <1>2 DEF CtlSet
  <2>2. /\ d.orch = c.orch /\ d.known = c.known /\ d.worker = c.worker /\ d.mission = c.mission
        /\ d.ended = c.ended /\ d.noticed = c.noticed /\ d.after = c.after
    BY <1>m DEF CtlSet
  <2> HIDE DEF d
  <2>3. Right(d)
    BY <1>2, <2>1, <2>2 DEF Right
  <2> QED
    BY <1>2, <2>3 DEF d, InferRole
<1>3. CASE InferRole(c, r) = c
  BY <1>3
<1> QED
  BY <1>1, <1>2, <1>3 DEF InferRole

\* A change of the other fields leaves what the controller knows right.
LEMMA AsRight ==
    ASSUME NEW c, Right(c), NEW d \in CtlSet,
           d.orch = c.orch, d.workerA = c.workerA, d.known = c.known,
              d.worker.armed = c.worker.armed,
           d.worker.resolved = c.worker.resolved, d.mission.armed = c.mission.armed,
           d.mission.resolved = c.mission.resolved, d.ended => Over, d.noticed => d.after # 0
    PROVE  Right(d)
BY DEF Right

\* The acknowledgment of the guidance says nothing of a blocker.
LEMMA AckRight ==
    ASSUME NEW c, Right(c), NEW s \in Sessions PROVE Right(ObserveAcknowledgment(c, s))
<1>m. c \in CtlSet /\ (c.ended => Over) /\ (c.noticed => c.after # 0)
  BY RightKinds DEF Right
<1> DEFINE d == [c EXCEPT !.acked = TRUE]
<1>1. d \in CtlSet
  BY <1>m DEF CtlSet
<1>2. /\ d.orch = c.orch /\ d.workerA = c.workerA /\ d.known = c.known /\ d.worker = c.worker
      /\ d.mission = c.mission /\ d.ended = c.ended /\ d.noticed = c.noticed
      /\ d.after = c.after
  BY <1>m DEF CtlSet
<1> HIDE DEF d
<1>3. Right(d)
  BY <1>m, <1>1, <1>2, AsRight
<1> QED
  BY <1>3 DEF d, ObserveAcknowledgment

\* The outage is noticed only after it was scheduled.
LEMMA RetryRight ==
    ASSUME NEW c, Right(c), NEW r \in RequestSet PROVE Right(ObserveOutageRetry(c, r))
<1>m. c \in CtlSet /\ (c.ended => Over) /\ (c.noticed => c.after # 0)
  BY RightKinds DEF Right
<1>1. CASE OutageShown(c, r) /\ MissionLatch
  <2> DEFINE d == [c EXCEPT !.noticed = TRUE]
  <2>1. d \in CtlSet
    BY <1>m DEF CtlSet
  <2>2. /\ d.orch = c.orch /\ d.workerA = c.workerA /\ d.known = c.known /\ d.worker = c.worker
        /\ d.mission = c.mission /\ d.ended = c.ended /\ d.after = c.after
    BY <1>m DEF CtlSet
  <2>3. d.after # 0
    BY <1>1, <2>2 DEF OutageShown, OutageDue
  <2> HIDE DEF d
  <2>4. Right(d)
    BY <1>m, <2>1, <2>2, <2>3, AsRight
  <2> QED
    BY <1>1, <2>4 DEF d, ObserveOutageRetry
<1>2. CASE OutageShown(c, r) /\ ~MissionLatch
  <2> DEFINE d == [c EXCEPT !.errors = TRUE]
  <2>1. d \in CtlSet
    BY <1>m DEF CtlSet
  <2>2. /\ d.orch = c.orch /\ d.workerA = c.workerA /\ d.known = c.known /\ d.worker = c.worker
        /\ d.mission = c.mission /\ d.ended = c.ended /\ d.noticed = c.noticed
        /\ d.after = c.after
    BY <1>m DEF CtlSet
  <2> HIDE DEF d
  <2>4. Right(d)
    BY <1>m, <2>1, <2>2, AsRight
  <2> QED
    BY <1>2, <2>4 DEF d, ObserveOutageRetry
<1> QED
  BY <1>1, <1>2 DEF ObserveOutageRetry

\* Reading the transcript leaves what the controller knows right.
LEMMA ObservedRight == ASSUME GateIInv, NEW r \in reqs PROVE Right(Observed(r))
<1>m. log \in [Sessions -> SUBSET Marks] /\ Right(ctl) /\ r \in RequestSet
  BY GateKinds
<1>r. r.by \in Sessions
  BY <1>m DEF RequestSet
<1> DEFINE a == [ctl EXCEPT !.known[r.by] = log[r.by]]
           b == InferRole(a, r)
           d == ObserveAcknowledgment(b, r.by)
<1>1. Right(a)
  BY <1>m, <1>r, ReadRight
<1> HIDE DEF a
<1>2. Right(b)
  BY <1>1, <1>m, InferRight
<1> HIDE DEF b
<1>3. Right(d)
  BY <1>2, <1>r, AckRight
<1> HIDE DEF d
<1>4. Right(ObserveOutageRetry(d, r))
  BY <1>3, <1>m, RetryRight
<1> QED
  BY <1>4 DEF Observed, a, b, d

\* The worker's blocker is resolved when its file and its transcript say so.
LEMMA ResolvedRight ==
    ASSUME NEW c, Right(c), NEW r \in RequestSet PROVE Right(Resolved(c, Resolves(c, r)))
<1>m. c \in CtlSet /\ c.worker \in BlockerSet /\ c.mission \in BlockerSet /\ r.by \in Sessions
  BY RightKinds DEF RequestSet
<1>1. CASE Resolves(c, r) = "worker"
  <2> DEFINE d == [c EXCEPT !.worker.resolved = TRUE]
  <2>1. RoleOf(c, r.by) = "worker_a" /\ c.worker.armed /\ files.worker = "cents"
        /\ "correction" \in c.known[r.by]
    BY <1>1 DEF Resolves
  <2>2. "correction" \in log[Worker]
    BY <1>m, <2>1, WorkerIsWorker DEF Right
  <2>3. d \in CtlSet /\ d.worker.armed = c.worker.armed
    BY <1>m DEF CtlSet, BlockerSet
  <2>4. /\ d.orch = c.orch /\ d.workerA = c.workerA /\ d.known = c.known
        /\ d.mission = c.mission /\ d.ended = c.ended /\ d.noticed = c.noticed
        /\ d.after = c.after
    BY <1>m DEF CtlSet
  <2> HIDE DEF d
  <2>5. Right(d)
    BY <2>1, <2>2, <2>3, <2>4 DEF Right
  <2> QED
    BY <1>1, <2>5 DEF d, Resolved
<1>2. CASE Resolves(c, r) = "mission"
  <2> DEFINE d == [c EXCEPT !.mission.resolved = TRUE]
  <2>1. c.mission.armed
    BY <1>2 DEF Resolves
  <2>3. d \in CtlSet /\ d.mission.armed = c.mission.armed
    BY <1>m DEF CtlSet, BlockerSet
  <2>4. /\ d.orch = c.orch /\ d.workerA = c.workerA /\ d.known = c.known
        /\ d.worker = c.worker /\ d.ended = c.ended /\ d.noticed = c.noticed
        /\ d.after = c.after
    BY <1>m DEF CtlSet
  <2> HIDE DEF d
  <2>5. Right(d)
    BY <2>1, <2>3, <2>4 DEF Right
  <2> QED
    BY <1>2, <2>5 DEF d, Resolved
<1>3. CASE Resolves(c, r) = "none"
  BY <1>3 DEF Resolved
<1> QED
  BY <1>1, <1>2, <1>3 DEF Resolves

\* A Stop that was seen is counted, so that what its count is noted in is not 0.
LEMMA SeenRight ==
    ASSUME NEW c, Right(c), NEW r
    PROVE  Right(StopSeen(c, r)) /\ (r.event = "Stop" => StopSeen(c, r).stops # 0)
<1>m. c \in CtlSet /\ c.stops \in Nat /\ (c.ended => Over) /\ (c.noticed => c.after # 0)
  BY RightKinds DEF Right
<1> DEFINE d == [c EXCEPT !.stops = @ + 1]
<1>1. d \in CtlSet /\ d.stops = c.stops + 1
  BY <1>m DEF CtlSet
<1>2. /\ d.orch = c.orch /\ d.workerA = c.workerA /\ d.known = c.known /\ d.worker = c.worker
      /\ d.mission = c.mission /\ d.ended = c.ended /\ d.noticed = c.noticed
      /\ d.after = c.after
  BY <1>m DEF CtlSet
<1> HIDE DEF d
<1>3. Right(d) /\ d.stops # 0
  BY <1>m, <1>1, <1>2, AsRight
<1> QED
  BY <1>3 DEF d, StopSeen

\* The worker's blocker is armed at the worker's completion, the Mission's at
\* a Stop that was counted.
LEMMA ArmedRight ==
    ASSUME NEW c, Right(c), NEW r \in RequestSet, Honest(r), r.event = "Stop" => c.stops # 0
    PROVE  Right(Armed(c, Arms(c, r), r.by))
<1>m. c \in CtlSet /\ c.worker \in BlockerSet /\ c.mission \in BlockerSet /\ r.by \in Sessions
      /\ c.stops \in Nat /\ c.known \in [Sessions -> SUBSET Marks]
  BY RightKinds DEF RequestSet
<1>1. CASE Arms(c, r) = "worker"
  <2> DEFINE d == [c EXCEPT !.worker.armed = TRUE]
  <2>1. RoleOf(c, r.by) = "worker_a" /\ r.event = "SubagentStop"
    BY <1>1 DEF Arms
  <2>2. Late
    BY <1>m, <2>1, WorkerIsWorker DEF Honest
  <2>3. d \in CtlSet /\ d.worker.armed /\ d.worker.resolved = c.worker.resolved
    BY <1>m DEF CtlSet, BlockerSet
  <2>4. /\ d.orch = c.orch /\ d.workerA = c.workerA /\ d.known = c.known
        /\ d.mission = c.mission /\ d.ended = c.ended /\ d.noticed = c.noticed
        /\ d.after = c.after
    BY <1>m DEF CtlSet
  <2> HIDE DEF d
  <2>5. Right(d)
    BY <2>2, <2>3, <2>4 DEF Right
  <2> QED
    BY <1>1, <2>5 DEF d, Armed
<1>2. CASE Arms(c, r) = "mission"
  <2> DEFINE base == "fallback" \in c.known[r.by]
             d == [c EXCEPT !.mission.armed = TRUE, !.after = c.stops, !.base = base]
  <2>b. base \in BOOLEAN
    OBVIOUS
  <2> HIDE DEF base
  <2>1. c.stops # 0
    BY <1>2 DEF Arms
  <2>3. d \in CtlSet
    BY <1>m, <2>b DEF CtlSet, BlockerSet
  <2>4. /\ d.orch = c.orch /\ d.workerA = c.workerA /\ d.known = c.known /\ d.worker = c.worker
        /\ d.ended = c.ended /\ d.noticed = c.noticed /\ d.after = c.stops
        /\ d.mission = [c.mission EXCEPT !.armed = TRUE]
    BY <1>m DEF CtlSet
  <2>5. d.mission.armed
    BY <1>m, <2>4 DEF BlockerSet
  <2> HIDE DEF d
  <2>6. Right(d)
    BY <2>1, <2>3, <2>4, <2>5 DEF Right
  <2> QED
    BY <1>2, <2>6 DEF d, base, Armed
<1>3. CASE Arms(c, r) = "none"
  BY <1>3 DEF Armed
<1> QED
  BY <1>1, <1>2, <1>3 DEF Arms

\* A completion is let go, blocked once more, or a retry too many.
LEMMA CompletingRight ==
    ASSUME NEW c, Right(c), NEW f \in {"worker", "mission"}
    PROVE  Right(Completing(c, f)[1]) /\ Completing(c, f)[2] \in BOOLEAN
<1>m. c \in CtlSet /\ c.worker \in BlockerSet /\ c.mission \in BlockerSet /\ (c.ended => Over)
      /\ (c.noticed => c.after # 0)
  BY RightKinds DEF Right
<1>1. CASE c[f].armed /\ c[f].resolved
  <2> DEFINE d == [c EXCEPT ![f].released = TRUE]
  <2>1. d \in CtlSet
    BY <1>m DEF CtlSet, BlockerSet
  <2>2. /\ d.orch = c.orch /\ d.workerA = c.workerA /\ d.known = c.known
        /\ d.ended = c.ended /\ d.noticed = c.noticed /\ d.after = c.after
    BY <1>m DEF CtlSet
  <2>3. /\ d.worker.armed = c.worker.armed /\ d.worker.resolved = c.worker.resolved
        /\ d.mission.armed = c.mission.armed /\ d.mission.resolved = c.mission.resolved
    BY <1>m DEF CtlSet, BlockerSet
  <2> HIDE DEF d
  <2>4. Right(d)
    BY <1>m, <2>1, <2>2, <2>3, AsRight
  <2> QED
    BY <1>1, <2>4 DEF d, Completing
<1>2. CASE c[f].armed /\ ~c[f].resolved /\ (c[f].attempts >= 2 \/ c[f].old)
  <2> DEFINE d == [c EXCEPT !.errors = TRUE]
  <2>1. d \in CtlSet
    BY <1>m DEF CtlSet
  <2>2. /\ d.orch = c.orch /\ d.workerA = c.workerA /\ d.known = c.known /\ d.worker = c.worker
        /\ d.mission = c.mission /\ d.ended = c.ended /\ d.noticed = c.noticed
        /\ d.after = c.after
    BY <1>m DEF CtlSet
  <2> HIDE DEF d
  <2>4. Right(d)
    BY <1>m, <2>1, <2>2, AsRight
  <2> QED
    BY <1>2, <2>4 DEF d, Completing
<1>3. CASE c[f].armed /\ ~c[f].resolved /\ ~(c[f].attempts >= 2 \/ c[f].old)
  <2> DEFINE d == [c EXCEPT ![f].attempts = @ + 1]
  <2>0. c[f] \in BlockerSet /\ c[f].attempts \in 0 .. 2 /\ ~(c[f].attempts >= 2)
    BY <1>m, <1>3 DEF BlockerSet
  <2>1. c[f].attempts + 1 \in 0 .. 2
    BY <2>0
  <2>2. d \in CtlSet
    BY <1>m, <2>1 DEF CtlSet, BlockerSet
  <2>3. /\ d.orch = c.orch /\ d.workerA = c.workerA /\ d.known = c.known
        /\ d.ended = c.ended /\ d.noticed = c.noticed /\ d.after = c.after
    BY <1>m DEF CtlSet
  <2>4. /\ d.worker.armed = c.worker.armed /\ d.worker.resolved = c.worker.resolved
        /\ d.mission.armed = c.mission.armed /\ d.mission.resolved = c.mission.resolved
    BY <1>m DEF CtlSet, BlockerSet
  <2> HIDE DEF d
  <2>5. Right(d)
    BY <1>m, <2>2, <2>3, <2>4, AsRight
  <2> QED
    BY <1>3, <2>5 DEF d, Completing
<1>4. CASE ~c[f].armed
  BY <1>4 DEF Completing
<1> QED
  BY <1>1, <1>2, <1>3, <1>4

\* The worker has ended when the end of its session is handled.
LEMMA CompletedRight ==
    ASSUME NEW c, Right(c), NEW r \in RequestSet, Honest(r)
    PROVE  Right(Completed(c, r)[1]) /\ Completed(c, r)[2] \in BOOLEAN
<1>m. c \in CtlSet /\ r.by \in Sessions /\ (c.noticed => c.after # 0)
  BY RightKinds DEF RequestSet, Right
<1>1. CASE r.event = "SessionEnd" /\ RoleOf(c, r.by) = "worker_a" /\ c.worker.released
  <2> DEFINE d == [c EXCEPT !.ended = TRUE]
  <2>1. Over
    BY <1>m, <1>1, WorkerIsWorker DEF Honest
  <2>2. d \in CtlSet
    BY <1>m DEF CtlSet
  <2>3. /\ d.orch = c.orch /\ d.workerA = c.workerA /\ d.known = c.known /\ d.worker = c.worker
        /\ d.mission = c.mission /\ d.noticed = c.noticed /\ d.after = c.after
    BY <1>m DEF CtlSet
  <2> HIDE DEF d
  <2>4. Right(d)
    BY <1>m, <2>1, <2>2, <2>3, AsRight
  <2>5. Completed(c, r) = <<d, FALSE>>
    BY <1>1 DEF d, Completed
  <2> QED
    BY <2>4, <2>5
<1>2. Right(Completing(c, "worker")[1]) /\ Completing(c, "worker")[2] \in BOOLEAN
  BY CompletingRight
<1>3. Right(Completing(c, "mission")[1]) /\ Completing(c, "mission")[2] \in BOOLEAN
  BY CompletingRight
<1>4. Right(<<c, FALSE>>[1])
  OBVIOUS
<1> QED
  BY <1>1, <1>2, <1>3, <1>4 DEF Completed

\* A session whose hook still waits is answered, and its transcript may gain
\* anything but a correction.
LEMMA ToldOnward ==
    ASSUME GateIInv, NEW s \in Sessions, session[s].waiting, NEW blocked \in BOOLEAN,
           NEW outage \in BOOLEAN,
           ToldAnd(s, blocked, outage), NEW said \in SUBSET {"fallback", "ack"},
           log' = [log EXCEPT ![s] = @ \cup said]
    PROVE  Onward
<1>m. /\ session \in [Sessions -> SessionSet] /\ log \in [Sessions -> SUBSET Marks]
      /\ session[Worker].at # "wait" /\ session[Orch].at \notin {"prompt", "tool"}
      /\ Orch # Worker /\ Sessions = {Orch, Worker}
  BY GateKinds, Parties
<1>s. session[s] \in SessionSet /\ Sound(s)
  BY <1>m DEF GateIInv
<1> DEFINE b == IF blocked THEN session[s].blocks + 1 ELSE session[s].blocks
           v == [session[s] EXCEPT !.at = After(s, blocked), !.waiting = FALSE,
              !.outage = outage, !.blocks = b]
<1>1. session' = [session EXCEPT ![s] = v]
  BY <1>m DEF ToldAnd
<1>2. After(s, blocked) \in {"start", "prompt", "tool", "wait", "stop", "over", "done"}
      /\ (s = Worker => After(s, blocked) # "wait")
         /\ (s = Orch => After(s, blocked) \notin {"prompt", "tool"})
  BY <1>m DEF After
<1>3. session[s].blocks \in Nat /\ session[s].n \in Nat
  BY <1>s DEF SessionSet
<1>b. b \in Nat
  BY <1>3
<1> HIDE DEF b
<1>4. v \in SessionSet
  BY <1>s, <1>2, <1>b DEF SessionSet
<1>5. /\ v.at = After(s, blocked) /\ v.n = session[s].n /\ v.waiting = FALSE
      /\ v.blocks = IF blocked THEN session[s].blocks + 1 ELSE session[s].blocks
  BY <1>s DEF SessionSet, b
<1> HIDE DEF v
<1>6. session' \in [Sessions -> SessionSet] /\ session'[s] = v
      /\ \A t \in Sessions : t # s => session'[t] = session[t]
  BY <1>m, <1>1, <1>4
<1>7. /\ log' \in [Sessions -> SUBSET Marks] /\ \A t \in Sessions : log[t] \subseteq log'[t]
      /\ \A t \in Sessions : "correction" \in log'[t] => "correction" \in log[t]
  BY <1>m DEF Marks
<1>8. \A t \in Sessions : Sound(t)'
  <2> SUFFICES ASSUME NEW t \in Sessions PROVE Sound(t)'
    OBVIOUS
  <2>1. CASE t # s
    <3>1. Sound(t) /\ session'[t] = session[t]
          /\ ("correction" \in log'[t] => "correction" \in log[t])
      BY <2>1, <1>6, <1>7 DEF GateIInv
    <3> QED
      BY <3>1 DEF Sound
  <2>2. CASE t = s
    <3>1. session[s].blocks + 1 <= session[s].n
          /\ ("correction" \in log[s] => session[s].blocks > 0)
      BY <1>s DEF Sound
    <3>2. session'[s] = v /\ ("correction" \in log'[s] => "correction" \in log[s])
      BY <1>6, <1>7
    <3>3. v.blocks + 0 <= v.n /\ v.blocks >= session[s].blocks
      BY <3>1, <1>3, <1>5
    <3> QED
      BY <2>2, <3>1, <3>2, <3>3, <1>3, <1>5 DEF Sound
  <2> QED
    BY <2>1, <2>2
<1>9. session'[Worker].at # "wait" /\ session'[Orch].at \notin {"prompt", "tool"}
  BY <1>m, <1>2, <1>5, <1>6
<1>10. (Late => Late') /\ (Over => Over')
  <2>1. CASE s # Worker
    BY <2>1, <1>m, <1>6 DEF Late, Over
  <2>2. CASE s = Worker
    BY <2>2, <1>m, <1>5, <1>6 DEF Late, Over, After
  <2> QED
    BY <2>1, <2>2
<1> QED
  BY <1>6, <1>7, <1>8, <1>9, <1>10 DEF Onward

\* Sessions that do nothing.
LEMMA StillOnward == ASSUME GateIInv, UNCHANGED <<session, log>> PROVE Onward
BY GateKinds DEF GateIInv, Onward, Sound, Late, Over

\* A hook without an answer decides from the latch.
LEMMA FallOnward ==
    ASSUME GateIInv, NEW s \in Sessions, session[s].waiting, NEW outage \in BOOLEAN,
           FallBackAnd(s, outage)
    PROVE  Onward
<1> DEFINE blocked == EventOf(s) \in Completions
           said == IF Matches(s) THEN {"fallback"} ELSE {}
<1>1. blocked \in BOOLEAN /\ said \in SUBSET {"fallback", "ack"}
  OBVIOUS
<1>2. ToldAnd(s, blocked, outage) /\ log' = [log EXCEPT ![s] = @ \cup said]
  BY DEF FallBackAnd
<1> HIDE DEF blocked, said
<1> QED
  BY <1>1, <1>2, ToldOnward

\* The same, outside the outage.
LEMMA PlainFallOnward ==
    ASSUME GateIInv, NEW s \in Sessions, session[s].waiting, FallBack(s) PROVE Onward
<1>1. session[s].outage \in BOOLEAN
  BY GateKinds DEF SessionSet
<1> QED
  BY <1>1, FallOnward DEF FallBack

\* The answer reaches its hook, or nobody.
LEMMA AnswerOnward ==
    ASSUME GateIInv, NEW r \in reqs, NEW blocked \in BOOLEAN, NEW guided \in BOOLEAN,
           Answer(r, blocked, guided)
    PROVE  Onward
<1>m. log \in [Sessions -> SUBSET Marks] /\ r.by \in Sessions
      /\ session[r.by].outage \in BOOLEAN
  BY GateKinds DEF RequestSet, SessionSet
<1>1. CASE Waits(r)
  <2> DEFINE said == IF guided THEN {"ack"} ELSE {}
  <2>1. said \in SUBSET {"fallback", "ack"}
    OBVIOUS
  <2>2. log' = [log EXCEPT ![r.by] = @ \cup said]
    BY <1>m, <1>1 DEF Answer
  <2>3. ToldAnd(r.by, blocked, session[r.by].outage) /\ session[r.by].waiting
    BY <1>1 DEF Answer, Told, Waits
  <2> HIDE DEF said
  <2> QED
    BY <1>m, <2>1, <2>2, <2>3, ToldOnward
<1>2. CASE ~Waits(r)
  BY <1>2, StillOnward DEF Answer
<1> QED
  BY <1>1, <1>2

\* A file that does not change is kept.
LEMMA FilesUnchanged == ASSUME GateIInv, UNCHANGED files PROVE FilesKept
BY GateKinds DEF FilesKept

\* A request of the controller is no longer there; the rest are.
LEMMA Fewer ==
    ASSUME GateIInv, NEW r, reqs' = reqs \ {r}
    PROVE  reqs' \subseteq RequestSet /\ \A p \in reqs' : \E q \in reqs : p.by = q.by
                                            /\ p.event = q.event
BY GateKinds

\* A request refused: its hook, if it still waits, decides from the latch.
LEMMA RefusedOnward ==
    ASSUME GateIInv, NEW r \in reqs,
           IF Waits(r) THEN FallBack(r.by) ELSE UNCHANGED <<session, log>>
    PROVE  Onward
<1>1. r.by \in Sessions
  BY GateKinds DEF RequestSet
<1>2. CASE Waits(r)
  BY <1>1, <1>2, PlainFallOnward DEF Waits
<1>3. CASE ~Waits(r)
  BY <1>3, StillOnward
<1> QED
  BY <1>2, <1>3

\* A gate error is no more than a mark in the controller's state.
LEMMA ErrorRight == ASSUME NEW c, Right(c) PROVE Right([c EXCEPT !.errors = TRUE])
<1>m. c \in CtlSet /\ (c.ended => Over) /\ (c.noticed => c.after # 0)
  BY RightKinds DEF Right
<1> DEFINE d == [c EXCEPT !.errors = TRUE]
<1>1. d \in CtlSet
  BY <1>m DEF CtlSet
<1>2. /\ d.orch = c.orch /\ d.workerA = c.workerA /\ d.known = c.known /\ d.worker = c.worker
      /\ d.mission = c.mission /\ d.ended = c.ended /\ d.noticed = c.noticed
      /\ d.after = c.after
  BY <1>m DEF CtlSet
<1> HIDE DEF d
<1>3. Right(d)
  BY <1>m, <1>1, <1>2, AsRight
<1> QED
  BY <1>3 DEF d

\* The guidance was given.
LEMMA GivenRight == ASSUME NEW c, Right(c), NEW n \in Nat PROVE Right([c EXCEPT !.given = n])
<1>m. c \in CtlSet /\ (c.ended => Over) /\ (c.noticed => c.after # 0)
  BY RightKinds DEF Right
<1> DEFINE d == [c EXCEPT !.given = n]
<1>1. d \in CtlSet
  BY <1>m DEF CtlSet
<1>2. /\ d.orch = c.orch /\ d.workerA = c.workerA /\ d.known = c.known /\ d.worker = c.worker
      /\ d.mission = c.mission /\ d.ended = c.ended /\ d.noticed = c.noticed
      /\ d.after = c.after
  BY <1>m DEF CtlSet
<1> HIDE DEF d
<1>3. Right(d)
  BY <1>m, <1>1, <1>2, AsRight
<1> QED
  BY <1>3 DEF d

\* A session sends its next hook; the worker writes its file before its first
\* completion, so before anything of its blocker can be known.
LEMMA SendsHook == ASSUME GateIInv, NEW s \in Sessions, SendHook(s) PROVE GateIInv'
<1>m. /\ session \in [Sessions -> SessionSet] /\ log \in [Sessions -> SUBSET Marks]
      /\ session[Worker].at # "wait" /\ session[Orch].at \notin {"prompt", "tool"}
      /\ reqs \subseteq RequestSet /\ server \in {"serving", "pausing", "paused"}
      /\ troubles \in 0 .. MaxTroubles
      /\ files \in [worker : {"none", "dollars", "cents"}, mission : BOOLEAN]
      /\ Right(ctl) /\ Orch # Worker /\ Sessions = {Orch, Worker} /\ MaxStops \in Nat
  BY GateKinds, Parties, GateAssumption
<1>s. session[s] \in SessionSet /\ Sound(s)
  BY <1>m DEF GateIInv
<1>0. /\ MayAct(s) /\ ~session[s].waiting
      /\ (session[s].at = "stop" => session[s].stops < MaxStops)
      /\ reqs' = reqs \cup {[by |-> s, event |-> EventOf(s), n |-> session[s].n + 1,
            inside |-> FALSE]}
      /\ session' = [session EXCEPT ![s].n = session[s].n + 1, ![s].waiting = TRUE,
                                    ![s].stops = IF session[s].at = "stop" THEN @ + 1 ELSE @]
      /\ files' \in (IF session[s].at = "tool"
                    THEN {[files EXCEPT !.worker = u] : u \in {"dollars", "cents"}}
                    ELSE {files})
      /\ UNCHANGED <<troubles, log, server, signed, ctl>>
  BY DEF SendHook, Smooth
<1> DEFINE k == IF session[s].at = "stop" THEN session[s].stops + 1 ELSE session[s].stops
           v == [session[s] EXCEPT !.n = session[s].n + 1, !.waiting = TRUE, !.stops = k]
           r == [by |-> s, event |-> EventOf(s), n |-> session[s].n + 1, inside |-> FALSE]
<1>1. session' = [session EXCEPT ![s] = v]
  BY <1>m, <1>0
<1>2. session[s].n \in Nat /\ session[s].blocks \in Nat /\ session[s].stops \in 0 .. MaxStops
  BY <1>s DEF SessionSet
<1>n. session[s].n + 1 \in Nat
  BY <1>2
<1>3. k \in 0 .. MaxStops
  BY <1>m, <1>0, <1>2
<1> HIDE DEF k
<1>4. v \in SessionSet
  BY <1>s, <1>n, <1>3 DEF SessionSet
<1>5. v.at = session[s].at /\ v.n = session[s].n + 1 /\ v.waiting = TRUE
      /\ v.blocks = session[s].blocks
  BY <1>s DEF SessionSet
<1>6. r \in RequestSet /\ r.by = s /\ r.event = EventOf(s)
  BY <1>m, <1>2 DEF RequestSet, EventOf, Completions
<1>7. reqs' = reqs \cup {r}
  BY <1>0
<1> HIDE DEF v, r
<1>8. session' \in [Sessions -> SessionSet] /\ session'[s] = v
      /\ \A t \in Sessions : t # s => session'[t] = session[t]
  BY <1>m, <1>1, <1>4
<1>9. \A t \in Sessions : session'[t].at = session[t].at
  BY <1>5, <1>8
<1>10. session'[Worker].at # "wait" /\ session'[Orch].at \notin {"prompt", "tool"}
       /\ (Late <=> Late') /\ (Over <=> Over')
  BY <1>m, <1>9 DEF Late, Over
<1>11. \A t \in Sessions : Sound(t)'
  <2> SUFFICES ASSUME NEW t \in Sessions PROVE Sound(t)'
    OBVIOUS
  <2>1. CASE t # s
    <3>1. Sound(t) /\ session'[t] = session[t] /\ log'[t] = log[t]
      BY <2>1, <1>0, <1>8 DEF GateIInv
    <3> QED
      BY <3>1 DEF Sound
  <2>2. CASE t = s
    <3>1. session[s].blocks + 0 <= session[s].n
          /\ ("correction" \in log[s] => session[s].blocks > 0)
      BY <1>s, <1>0 DEF Sound
    <3>2. v.blocks + 1 <= v.n
      BY <3>1, <1>2, <1>5
    <3> QED
      BY <2>2, <3>1, <3>2, <1>0, <1>5, <1>8 DEF Sound
  <2> QED
    BY <2>1, <2>2
<1>12. Honest(r)
  BY <1>m, <1>0, <1>6, <1>s DEF Honest, EventOf, MayAct, Late, Over, SessionSet
<1>13. \A q \in reqs' : Honest(q)'
  BY <1>7, <1>10, <1>12 DEF Honest, GateIInv
<1>14. files' \in [worker : {"none", "dollars", "cents"}, mission : BOOLEAN]
  BY <1>m, <1>0
<1>15. ctl.worker.resolved => files' = files
  <2>1. ctl.worker.resolved => Late
    BY <1>m DEF Right
  <2>2. s # Worker => session[s].at # "tool"
    BY <1>m
  <2> QED
    BY <1>0, <2>1, <2>2 DEF Late
<1>16. Right(ctl)'
  BY <1>m, <1>0, <1>10, <1>15 DEF Right
<1>17. reqs' \subseteq RequestSet
  BY <1>m, <1>6, <1>7
<1> QED
  BY <1>m, <1>0, <1>8, <1>10, <1>11, <1>13, <1>14, <1>16, <1>17 DEF GateIInv

\* A hook gives up waiting; its request stays where it is.
LEMMA Unheard ==
    ASSUME GateIInv, NEW s \in Sessions, TimeOut(s) \/ TimeOutInOutage(s) PROVE GateIInv'
<1>0. /\ session[s].waiting /\ (Trouble \/ Smooth)
         /\ UNCHANGED <<files, reqs, server, signed, ctl>>
      /\ FallBack(s) \/ \E o \in BOOLEAN : FallBackAnd(s, o)
  <2>1. CASE TimeOut(s)
    BY <2>1 DEF TimeOut
  <2>2. CASE TimeOutInOutage(s)
    <3>1. session[s].outage \in BOOLEAN
      BY GateKinds DEF SessionSet
    <3> DEFINE o == (EventOf(s) = "Stop" /\ MissionLatch) \/ session[s].outage
    <3>2. FallBackAnd(s, o)
      BY <2>2 DEF TimeOutInOutage
    <3>3. o \in BOOLEAN
      BY <3>1
    <3> HIDE DEF o
    <3> QED
      BY <2>2, <3>2, <3>3 DEF TimeOutInOutage
  <2> QED
    BY <2>1, <2>2
<1>1. Onward
  BY <1>0, PlainFallOnward, FallOnward
<1>2. FilesKept
  BY <1>0, FilesUnchanged
<1>3. Right(ctl) /\ reqs' \subseteq RequestSet /\ server' \in {"serving", "pausing", "paused"}
  BY <1>0, GateKinds
<1> QED
  BY <1>0, <1>1, <1>2, <1>3, Steady

\* The orchestrator goes on when the worker is done.
LEMMA Returns == ASSUME GateIInv, NEW s \in Sessions, Return(s) PROVE GateIInv'
<1>m. /\ session \in [Sessions -> SessionSet] /\ log \in [Sessions -> SUBSET Marks]
      /\ session[Worker].at # "wait"
      /\ Orch # Worker /\ Sessions = {Orch, Worker} /\ Right(ctl) /\ reqs \subseteq RequestSet
      /\ server \in {"serving", "pausing", "paused"}
  BY GateKinds, Parties
<1>0. s = Orch /\ session' = [session EXCEPT ![s].at = "stop"] /\ Smooth
      /\ UNCHANGED <<log, files, reqs, server, signed, ctl>>
  BY DEF Return
<1> DEFINE v == [session[Orch] EXCEPT !.at = "stop"]
<1>1. session' = [session EXCEPT ![Orch] = v]
  BY <1>m, <1>0
<1>2. v \in SessionSet /\ v.at = "stop" /\ v.n = session[Orch].n
      /\ v.waiting = session[Orch].waiting
      /\ v.blocks = session[Orch].blocks
  BY <1>m DEF SessionSet
<1> HIDE DEF v
<1>3. session' \in [Sessions -> SessionSet] /\ session'[Orch] = v
      /\ session'[Worker] = session[Worker]
  BY <1>m, <1>1, <1>2
<1>4. Sound(Orch)'
  BY <1>m, <1>0, <1>2, <1>3 DEF Sound, GateIInv
<1>5. Sound(Worker)'
  BY <1>m, <1>0, <1>3 DEF Sound, GateIInv
<1>6. Onward
  BY <1>m, <1>0, <1>2, <1>3, <1>4, <1>5 DEF Onward, Late, Over
<1>7. FilesKept
  BY <1>0, FilesUnchanged
<1> QED
  BY <1>m, <1>0, <1>6, <1>7, Steady

\* A blocked session corrects its work.
LEMMA Corrects == ASSUME GateIInv, NEW s \in Sessions, Correct(s) PROVE GateIInv'
<1>m. /\ files \in [worker : {"none", "dollars", "cents"}, mission : BOOLEAN] /\ Right(ctl)
      /\ reqs \subseteq RequestSet
      /\ server \in {"serving", "pausing", "paused"}
  BY GateKinds
<1>0. /\ files' = IF s = Worker THEN [files EXCEPT !.worker = "cents"]
                  ELSE [files EXCEPT !.mission = TRUE]
      /\ Smooth /\ UNCHANGED <<session, log, reqs, server, signed, ctl>>
  BY DEF Correct
<1>1. FilesKept
  BY <1>m, <1>0 DEF FilesKept
<1>2. Onward
  BY <1>0, StillOnward
<1> QED
  BY <1>m, <1>0, <1>1, <1>2, Steady

\* A blocked session says that it did.
LEMMA Says == ASSUME GateIInv, NEW s \in Sessions, Say(s) PROVE GateIInv'
<1>m. /\ session \in [Sessions -> SessionSet] /\ log \in [Sessions -> SUBSET Marks]
      /\ Right(ctl)
      /\ session[Worker].at # "wait" /\ session[Orch].at \notin {"prompt", "tool"}
      /\ reqs \subseteq RequestSet /\ server \in {"serving", "pausing", "paused"}
  BY GateKinds
<1>0. /\ session[s].blocks > 0 /\ log' = [log EXCEPT ![s] = @ \cup {"correction"}]
      /\ Smooth /\ UNCHANGED <<session, files, reqs, server, signed, ctl>>
  BY DEF Say
<1>1. log' \in [Sessions -> SUBSET Marks] /\ log'[s] = log[s] \cup {"correction"}
      /\ \A t \in Sessions : t # s => log'[t] = log[t]
  BY <1>m, <1>0 DEF Marks
<1>2. \A t \in Sessions : Sound(t)'
  BY <1>0, <1>1 DEF Sound, GateIInv
<1>3. Onward
  BY <1>m, <1>0, <1>1, <1>2 DEF Onward, Late, Over
<1>4. FilesKept
  BY <1>0, FilesUnchanged
<1> QED
  BY <1>m, <1>0, <1>3, <1>4, Steady

\* The server takes a request from its backlog.
LEMMA Accepts == ASSUME GateIInv, NEW r \in reqs, Accept(r) PROVE GateIInv'
<1>m. Right(ctl) /\ reqs \subseteq RequestSet /\ server \in {"serving", "pausing", "paused"}
  BY GateKinds
<1>0. /\ reqs' = (reqs \ {r}) \cup {[r EXCEPT !.inside = TRUE]}
      /\ Smooth /\ UNCHANGED <<session, log, files, server, signed, ctl>>
  BY DEF Accept
<1>1. [r EXCEPT !.inside = TRUE] \in RequestSet /\ [r EXCEPT !.inside = TRUE].by = r.by
      /\ [r EXCEPT !.inside = TRUE].event = r.event
  BY <1>m DEF RequestSet
<1>2. reqs' \subseteq RequestSet /\ \A p \in reqs' : \E q \in reqs : p.by = q.by
                                       /\ p.event = q.event
  BY <1>m, <1>0, <1>1
<1>3. Onward /\ FilesKept
  BY <1>0, StillOnward, FilesUnchanged
<1> QED
  BY <1>m, <1>0, <1>2, <1>3, Steady

\* The server refuses a request.
LEMMA Declines == ASSUME GateIInv, NEW r \in reqs, Decline(r) PROVE GateIInv'
<1>m. Right(ctl) /\ server \in {"serving", "pausing", "paused"}
  BY GateKinds
<1>0. /\ reqs' = reqs \ {r} /\ Trouble /\ UNCHANGED <<files, server, signed, ctl>>
      /\ IF Waits(r) THEN FallBack(r.by) ELSE UNCHANGED <<session, log>>
  BY DEF Decline
<1>1. Onward /\ FilesKept
  BY <1>0, RefusedOnward, FilesUnchanged
<1> QED
  BY <1>m, <1>0, <1>1, Fewer, Steady

\* The collector is paused and resumed.
LEMMA Serves == ASSUME GateIInv, Pause \/ Resume PROVE GateIInv'
<1>m. Right(ctl) /\ reqs \subseteq RequestSet
  BY GateKinds
<1>0. /\ server' \in {"serving", "pausing", "paused"} /\ Smooth
      /\ UNCHANGED <<session, log, files, reqs, signed, ctl>>
  BY DEF Pause, Resume
<1>1. Onward /\ FilesKept
  BY <1>0, StillOnward, FilesUnchanged
<1> QED
  BY <1>m, <1>0, <1>1, Steady

\* Time passes: an armed blocker grows old, which is no news about the worker.
LEMMA Ages == ASSUME GateIInv, TenMinutes PROVE GateIInv'
<1>m. Right(ctl) /\ reqs \subseteq RequestSet /\ server \in {"serving", "pausing", "paused"}
  BY GateKinds
<1>k. ctl \in CtlSet /\ ctl.worker \in BlockerSet /\ ctl.mission \in BlockerSet
      /\ (ctl.ended => Over)
      /\ (ctl.noticed => ctl.after # 0)
  BY <1>m, RightKinds DEF Right
<1> DEFINE d == [ctl EXCEPT !.worker.old = ctl.worker.armed, !.mission.old = ctl.mission.armed]
<1>0. Trouble /\ ctl' = d /\ UNCHANGED <<session, log, files, reqs, server>>
  BY DEF TenMinutes
<1>1. d.worker = [ctl.worker EXCEPT !.old = ctl.worker.armed]
      /\ d.mission = [ctl.mission EXCEPT !.old = ctl.mission.armed]
  BY <1>k DEF CtlSet
<1>2. d.worker \in BlockerSet /\ d.mission \in BlockerSet
  BY <1>k, <1>1 DEF BlockerSet
<1>3. d \in CtlSet
  BY <1>k, <1>1, <1>2 DEF CtlSet
<1>4. /\ d.orch = ctl.orch /\ d.workerA = ctl.workerA /\ d.known = ctl.known
      /\ d.ended = ctl.ended /\ d.noticed = ctl.noticed /\ d.after = ctl.after
  BY <1>k DEF CtlSet
<1>5. /\ d.worker.armed = ctl.worker.armed /\ d.worker.resolved = ctl.worker.resolved
      /\ d.mission.armed = ctl.mission.armed /\ d.mission.resolved = ctl.mission.resolved
  BY <1>k, <1>1 DEF BlockerSet
<1> HIDE DEF d
<1>6. Right(d)
  BY <1>m, <1>k, <1>3, <1>4, <1>5, AsRight
<1>7. Onward /\ FilesKept
  BY <1>0, StillOnward, FilesUnchanged
<1> QED
  BY <1>m, <1>0, <1>6, <1>7, Steady

\* The controller's handler, under its lock.
LEMMA Handles == ASSUME GateIInv, NEW r \in reqs, Handle(r) PROVE GateIInv'
<1>m. Right(ctl) /\ server \in {"serving", "pausing", "paused"} /\ r \in RequestSet /\ Honest(r)
  BY GateKinds DEF GateIInv
<1>n. r.n \in Nat /\ r.by \in Sessions
  BY <1>m DEF RequestSet
<1> DEFINE c1 == Observed(r)
           c2 == Resolved(c1, Resolves(c1, r))
           c3 == StopSeen(c2, r)
           arms == Arms(c3, r)
           c4 == Armed(c3, arms, r.by)
           end == Completed(c4, r)
<1>1. Right(c1)
  BY ObservedRight
<1>0. /\ reqs' = reqs \ {r} /\ Smooth /\ UNCHANGED files
      /\ IF c1.errors # ctl.errors
         THEN ctl' = c1 /\ Answer(r, r.event \in Completions, FALSE)
         /\ UNCHANGED <<server, signed>>
         ELSE /\ ctl' = IF Guides(c2, r) THEN [c2 EXCEPT !.given = r.n] ELSE end[1]
              /\ server' = IF arms = "mission" THEN "pausing" ELSE server
              /\ Answer(r, end[2], Guides(c2, r))
  BY DEF Handle
<1> HIDE DEF c1
<1>2. Right(c2)
  BY <1>m, <1>1, ResolvedRight
<1> HIDE DEF c2
<1>3. Right(c3) /\ (r.event = "Stop" => c3.stops # 0)
  BY <1>2, SeenRight
<1> HIDE DEF c3
<1>4. Right(c4)
  BY <1>m, <1>3, ArmedRight
<1> HIDE DEF c4
<1>5. Right(end[1]) /\ end[2] \in BOOLEAN
  BY <1>m, <1>4, CompletedRight
<1> HIDE DEF end, arms
<1>6. Right([c2 EXCEPT !.given = r.n])
  BY <1>n, <1>2, GivenRight
<1>7. FilesKept /\ server' \in {"serving", "pausing", "paused"}
  BY <1>m, <1>0, FilesUnchanged
<1>8. Onward
  <2>1. (r.event \in Completions) \in BOOLEAN /\ Guides(c2, r) \in BOOLEAN
    BY DEF Guides
  <2>2. CASE c1.errors # ctl.errors
    BY <1>0, <2>1, <2>2, AnswerOnward
  <2>3. CASE c1.errors = ctl.errors
    <3>1. Answer(r, end[2], Guides(c2, r))
      BY <1>0, <2>3
    <3> QED
      BY <1>5, <2>1, <3>1, AnswerOnward
  <2> QED
    BY <2>2, <2>3
<1>9. PICK c : Right(c) /\ ctl' = c
  BY <1>0, <1>1, <1>5, <1>6
<1> QED
  BY <1>m, <1>0, <1>7, <1>8, <1>9, Fewer, Steady

\* The transcript could not be read.
LEMMA Unreads == ASSUME GateIInv, NEW r \in reqs, Unread(r) PROVE GateIInv'
<1>m. Right(ctl) /\ server \in {"serving", "pausing", "paused"}
  BY GateKinds
<1>0. /\ reqs' = reqs \ {r} /\ Trouble /\ ctl' = [ctl EXCEPT !.errors = TRUE]
      /\ Answer(r, r.event \in Completions, FALSE) /\ UNCHANGED <<files, server, signed>>
  BY DEF Unread
<1>1. (r.event \in Completions) \in BOOLEAN
  OBVIOUS
<1>2. Onward /\ FilesKept
  BY <1>0, <1>1, AnswerOnward, FilesUnchanged
<1>3. Right([ctl EXCEPT !.errors = TRUE])
  BY <1>m, ErrorRight
<1> QED
  BY <1>m, <1>0, <1>2, <1>3, Fewer, Steady

\* The latch could not be written.
LEMMA Unwrites == ASSUME GateIInv, NEW r \in reqs, Unwritten(r) PROVE GateIInv'
<1>m. server \in {"serving", "pausing", "paused"}
  BY GateKinds
<1> DEFINE c1 == Observed(r)
           c2 == IF Resolves(c1, r) # "none" THEN c1 ELSE StopSeen(c1, r)
<1>1. Right(c1)
  BY ObservedRight
<1>0. /\ reqs' = reqs \ {r} /\ Trouble /\ UNCHANGED <<files, server, signed>>
      /\ \/ ctl' = [c2 EXCEPT !.errors = TRUE] /\ Answer(r, r.event \in Completions, FALSE)
         \/ ctl' = c2 /\ IF Waits(r) THEN FallBack(r.by) ELSE UNCHANGED <<session, log>>
  BY DEF Unwritten
<1> HIDE DEF c1
<1>2. Right(c2)
  BY <1>1, SeenRight
<1> HIDE DEF c2
<1>3. Right([c2 EXCEPT !.errors = TRUE])
  BY <1>2, ErrorRight
<1>4. (r.event \in Completions) \in BOOLEAN
  OBVIOUS
<1>5. Onward
  BY <1>0, <1>4, AnswerOnward, RefusedOnward
<1>6. FilesKept
  BY <1>0, FilesUnchanged
<1>7. PICK c : Right(c) /\ ctl' = c
  BY <1>0, <1>2, <1>3
<1> QED
  BY <1>m, <1>0, <1>5, <1>6, <1>7, Fewer, Steady

\* Every step of sessions, hooks, collector and controller keeps the invariant.
LEMMA GateStep == ASSUME GateIInv, [GateNext]_gateVars PROVE GateIInv'
<1>1. CASE UNCHANGED gateVars
  <2>1. UNCHANGED <<session, log, files, reqs, server, signed, ctl, troubles>>
    BY <1>1 DEF gateVars
  <2>2. Right(ctl) /\ reqs \subseteq RequestSet /\ server \in {"serving", "pausing", "paused"}
    BY GateKinds
  <2>3. Onward /\ FilesKept
    BY <2>1, StillOnward, FilesUnchanged
  <2> QED
    BY <2>1, <2>2, <2>3, Steady DEF Smooth
<1>2. ASSUME NEW s \in Sessions,
             SendHook(s) \/ TimeOut(s) \/ TimeOutInOutage(s) \/ Return(s) \/ Correct(s)
             \/ Say(s)
      PROVE  GateIInv'
  BY <1>2, SendsHook, Unheard, Returns, Corrects, Says
<1>3. ASSUME NEW r \in reqs, Accept(r) \/ Decline(r) \/ Handle(r) \/ Unread(r) \/ Unwritten(r)
      PROVE GateIInv'
  BY <1>3, Accepts, Declines, Handles, Unreads, Unwrites
<1>4. CASE Pause \/ Resume \/ TenMinutes
  BY <1>4, Serves, Ages
<1> QED
  BY <1>1, <1>2, <1>3, <1>4 DEF GateNext

\* The invariant holds of every behaviour, with any number of completions and of failures.
THEOREM GateInvariant == GateSpec => []GateIInv
<1> QED
  BY Starts, GateStep, PTL DEF GateSpec

\* The invariant gives the types, and
LEMMA GateTyped == ASSUME GateIInv PROVE GateTypeOK
<1>m. /\ session \in [Sessions -> SessionSet] /\ log \in [Sessions -> SUBSET Marks]
      /\ server \in {"serving", "pausing", "paused"} /\ troubles \in 0 .. MaxTroubles
      /\ Right(ctl)
  BY GateKinds
<1>1. /\ ctl.known \in [Sessions -> SUBSET Marks] /\ ctl.worker \in BlockerSet
      /\ ctl.mission \in BlockerSet
      /\ ctl.noticed \in BOOLEAN
  BY <1>m, RightKinds
<1>2. \A s \in Sessions : session[s].stops \in 0 .. MaxStops
      /\ session[s].blocks <= session[s].n
  <2> SUFFICES ASSUME NEW s \in Sessions
               PROVE  session[s].stops \in 0 .. MaxStops /\ session[s].blocks <= session[s].n
    OBVIOUS
  <2>1. session[s].stops \in 0 .. MaxStops /\ session[s].blocks \in Nat /\ session[s].n \in Nat
    BY <1>m DEF SessionSet
  <2>2. Sound(s)
    BY DEF GateIInv
  <2> QED
    BY <2>1, <2>2 DEF Sound
<1>3. \A s \in Sessions : log[s] \cup ctl.known[s] \subseteq {"fallback", "correction", "ack"}
  BY <1>m, <1>1 DEF Marks
<1>4. \A b \in {ctl.worker, ctl.mission} : b.attempts \in 0 .. 2 /\ (b.resolved => b.armed)
  BY <1>m, <1>1 DEF BlockerSet, Right
<1>5. ctl.noticed => ctl.after # 0
  BY <1>m DEF Right
<1> QED
  BY <1>m, <1>1, <1>2, <1>3, <1>4, <1>5 DEF GateTypeOK

\* what the controller reports of the worker is true.
LEMMA GateTrue == ASSUME GateIInv PROVE WorkerVerdictTrue
<1> SUFFICES ASSUME WorkerControls
             PROVE  /\ ctl.orch = Orch /\ ctl.workerA = Worker /\ files.worker = "cents"
                    /\ "correction" \in log[Worker]
                    /\ session[Worker].blocks > 0 /\ session[Worker].at \in {"over", "done"}
  BY DEF WorkerVerdictTrue
<1>m. Right(ctl) /\ Worker \in Sessions /\ Sessions = {Orch, Worker} /\ Sound(Worker)
  BY GateKinds, Parties DEF GateIInv
<1>1. ctl.orch \in Sessions \cup {NoOwner} /\ ctl.workerA \in {Worker, NoOwner}
  BY <1>m, RightKinds
<1>2. ctl.workerA = Worker /\ ctl.orch = Orch
  BY <1>m, <1>1 DEF WorkerControls, Right
<1>3. files.worker = "cents" /\ "correction" \in log[Worker] /\ Over
  BY <1>m DEF WorkerControls, Right
<1>4. session[Worker].blocks > 0
  BY <1>m, <1>3 DEF Sound
<1> QED
  BY <1>2, <1>3, <1>4 DEF Over

\* LiveGateController.finalize reports the worker's blocker as it should behave only
\* of a worker that was blocked, corrected its file, said so and was let go.
THEOREM Verdict == GateSpec => []WorkerVerdict
<1>1. GateIInv => GateTypeOK /\ WorkerVerdictTrue
  BY GateTyped, GateTrue
<1> QED
  BY <1>1, GateInvariant, PTL DEF WorkerVerdict
=============================================================================
