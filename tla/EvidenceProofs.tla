----------------------------- MODULE EvidenceProofs -----------------------------
(***************************************************************************)
(* Theorems about MissionRelations, for any Workers, features, plan, hook  *)
(* requests, and faults of Factory's files.                                *)
(*                                                                         *)
(* The three files are read one after the other while they change, so what *)
(* the producer has read need not be what they say; but it is always       *)
(* something they said (Read), and every candidate is vouched for by all   *)
(* three.  The relations, the assignments and the producer's own table     *)
(* differ at most in the session that is being admitted (Books), whose     *)
(* role and relation are known before its requests are let in: so the      *)
(* review thread, wherever it looks in between, finds a role that nobody   *)
(* else holds (Mapped).  A contradiction cannot be undone, and a refresh   *)
(* that began after one does not come past the file that shows it          *)
(* (Guarded).                                                              *)
(***************************************************************************)
EXTENDS MCEvidence, SequenceTheorems, FiniteSetTheorems, TLAPS

\* What the files, the scan, the books, the requests and the review are made of.
Pairs == SUBSET (Listable \X Features)
FeatureLists == [Features -> Seq(Listable)]
FactoryTyped ==
    /\ root \in [path : {"kept", "replaced"}, dir : {"absent", "made", "remade"}, extra : BOOLEAN]
    /\ state \in {"missing", "torn", "ours", "another workspace", "another Mission"}
    /\ feats \in [at : {"missing", "whole", "torn"}, list : FeatureLists]
    /\ log \in [at : {"missing", "whole", "torn"}, selected : Pairs, started : Pairs]
    /\ said \in [state : BOOLEAN, listed : Pairs, selected : Pairs, started : Pairs]

CandidateSet == [session : {Main} \cup Listable, role : RoleSet]
ScanTyped ==
    /\ lock \in Hooks \cup {Run, Free}
    /\ scan \in [pc : {"none", "locate", "state", "admit", "features", "log", "role", "registry", "assign"},
                 known : SUBSET Sessions, list : Seq(FeatureLists), queue : SUBSET CandidateSet,
                 now : CandidateSet \cup {Nothing}]
    /\ (lock = Free) = (scan = NoScan)
    /\ picked \in [dir : {"absent", "made", "remade"}, mission : {"none", "ours", "another Mission"}]

TablesTyped ==
    /\ raw \in [Sessions -> RoleSet \cup {Nothing, Excluded}]
    /\ relations \in [Sessions -> RoleSet \cup {Nothing}]
    /\ assigned \in [Sessions -> RoleSet \cup {Nothing}]
    /\ roles \in SUBSET RoleSet
    /\ registry \in [allowed : SUBSET Sessions, excluded : SUBSET {Shadow, Decoy}]

HooksTyped ==
    /\ hook \in [Hooks -> [pc : {"unborn", "refreshing", "refused", "refreshed", "ignored", "accepted"},
                           session : Sessions \cup {Nothing}, event : {"start", "tool"},
                           sound : BOOLEAN]]
    /\ ledger \in Seq(Hooks)
    /\ final \in [pc : {"flying", "freezing", "frozen", "written", "failed"},
                  roles : [Sessions -> RoleSet \cup {Nothing}]]

ReviewTyped ==
    /\ mapper \in [held : [Sessions -> RoleSet \cup {Nothing}], quarantined : SUBSET Sessions,
                   excluded : SUBSET {Shadow, Decoy}]
    /\ journal \in Seq([session : Sessions, status : {"assigned"},
                        digest : [Sessions -> RoleSet \cup {Nothing}]])
    /\ review \in {Nothing, "assigned"}
    /\ Len(journal) <= Len(ledger)
    /\ review # Nothing => Len(journal) < Len(ledger)

\* Whoever is inside refresh came after both control sessions were excluded.
Locked ==
    /\ \A h \in Hooks : (hook[h].pc = "refreshing") = (lock = h)
    /\ raw[Decoy] = Excluded => raw[Shadow] = Excluded
    /\ lock # Free => raw[Decoy] = Excluded

\* What the producer has read, the files have said.
SaidAll(list) == \A f \in Features : \A i \in DOMAIN list[f] : <<list[f][i], f>> \in said.listed
Vouched(s, r) ==
    IF s = Main THEN said.state
    ELSE <<s, r.feature>> \in said.listed \cap said.selected \cap said.started
Read ==
    /\ SaidAll(feats.list)
    /\ scan.list # <<>> => SaidAll(scan.list[1])
    /\ log.selected \subseteq said.selected /\ log.started \subseteq said.started
    /\ state \in {"ours", "another Mission"} => said.state
    /\ \A c \in scan.queue : Vouched(c.session, c.role)

\* The session being admitted, and the tables, which differ in no other one.
Admitting(s) == scan.pc \in {"role", "registry", "assign"} /\ s = scan.now.session
Booked(s) ==
    /\ relations[s] = assigned[s]
    /\ raw[s] # Excluded => raw[s] = assigned[s]
    /\ raw[s] = Excluded => assigned[s] = Nothing
Books ==
    /\ scan.pc \in {"role", "registry", "assign"} => scan.now \in CandidateSet
    /\ scan.pc \in {"registry", "assign"} => scan.now.role \in roles
    /\ \A s \in Sessions :
          /\ ~Admitting(s) => Booked(s)
          /\ Admitting(s) => /\ raw[s] = Nothing /\ assigned[s] = Nothing
                             /\ relations[s] = scan.now.role
          /\ relations[s] # Nothing => Vouched(s, relations[s]) /\ s \notin {Shadow, Decoy}
          /\ s \in registry.allowed => relations[s] \in roles
    /\ \A s, o \in Sessions : s # o /\ relations[s] = relations[o] => relations[s] = Nothing

\* The role mapper holds what the relations say, and has quarantined nobody.
Mapped ==
    /\ mapper.quarantined = {}
    /\ \A s \in Sessions : mapper.held[s] \in {Nothing, relations[s]}

\* An accepted request's session is let in.  A refresh that began after a
\* contradiction still has the file before it that shows it.
StateContradicts == \/ state = "another workspace"
                    \/ picked.mission = "ours" /\ state = "another Mission"
Guarded ==
    /\ state # "missing" => root.dir # "absent"
    /\ \A h \in Hooks :
          /\ hook[h].pc = "accepted" => hook[h].session \in registry.allowed
          /\ hook[h].pc \in {"refreshed", "accepted"} => hook[h].sound
          /\ hook[h].pc = "refreshing" /\ ~hook[h].sound =>
                \/ scan.pc = "locate" /\ Contradictory
                \/ scan.pc = "state" /\ StateContradicts
    /\ \A i \in 1 .. Len(ledger) : hook[ledger[i]].pc = "accepted"

RelationsIInv ==
    /\ FactoryTyped /\ ScanTyped /\ TablesTyped /\ HooksTyped /\ ReviewTyped
    /\ Locked /\ Read /\ Books /\ Mapped /\ Guarded

------------------------------------------------------------------------------
(* Factory.                                                                 *)

\* What a step of Factory does: it says more, takes no contradiction back, and touches
\* nothing of the producer's.
Effect ==
    /\ Ours /\ FactoryTyped'
    /\ SaidAll(feats.list)' /\ log'.selected \subseteq said'.selected
    /\ log'.started \subseteq said'.started
    /\ said.state => said'.state
    /\ said.listed \subseteq said'.listed /\ said.selected \subseteq said'.selected
    /\ said.started \subseteq said'.started
    /\ state' \in {"ours", "another Mission"} => said'.state
    /\ state' # "missing" => root'.dir # "absent"
    /\ state \in {"another workspace", "another Mission"} => state' = state
    /\ root.path = "replaced" => root'.path = "replaced"
    /\ root.extra => root'.extra
    /\ root.dir = "remade" => root'.dir = "remade"

\* What the files have said grows with what they say.
LEMMA SayGrows ==
    ASSUME FactoryTyped, feats' \in [at : {"missing", "whole", "torn"}, list : FeatureLists],
           log' \in [at : {"missing", "whole", "torn"}, selected : Pairs, started : Pairs],
           state' \in {"missing", "torn", "ours", "another workspace", "another Mission"}, Say
    PROVE  /\ said' \in [state : BOOLEAN, listed : Pairs, selected : Pairs, started : Pairs]
           /\ log'.selected \subseteq said'.selected /\ log'.started \subseteq said'.started
           /\ said.state => said'.state
           /\ said.listed \subseteq said'.listed /\ said.selected \subseteq said'.selected
           /\ said.started \subseteq said'.started
           /\ state' = "ours" => said'.state
<1> DEFINE now == {p \in Listable \X Features : feats'.at = "whole" /\ Contains(feats'.list[p[2]], p[1])}
<1>1. now \in Pairs
  BY DEF Pairs
<1>2. said' = [state |-> said.state \/ state' = "ours", listed |-> said.listed \cup now,
               selected |-> said.selected \cup log'.selected,
               started |-> said.started \cup log'.started]
  BY DEF Say
<1>3. said \in [state : BOOLEAN, listed : Pairs, selected : Pairs, started : Pairs]
  BY DEF FactoryTyped
<1>4. log'.selected \in Pairs /\ log'.started \in Pairs
  OBVIOUS
<1> HIDE DEF now
<1> QED
  BY <1>1, <1>2, <1>3, <1>4 DEF Pairs

\* A whole list is said.
LEMMA WholeIsSaid ==
    ASSUME feats' \in [at : {"missing", "whole", "torn"}, list : FeatureLists],
           feats'.at = "whole", Say
    PROVE  SaidAll(feats.list)'
<1> SUFFICES ASSUME NEW f \in Features, NEW i \in DOMAIN feats'.list[f]
             PROVE  <<feats'.list[f][i], f>> \in said'.listed
  BY DEF SaidAll
<1>1. feats'.list[f] \in Seq(Listable)
  BY DEF FeatureLists
<1>2. feats'.list[f][i] \in Listable
  BY <1>1
<1>3. Contains(feats'.list[f], feats'.list[f][i])
  BY DEF Contains, ToSet
<1>4. <<feats'.list[f][i], f>> \in
        {p \in Listable \X Features : feats'.at = "whole" /\ Contains(feats'.list[p[2]], p[1])}
  BY <1>2, <1>3
<1> QED
  BY <1>4 DEF Say

\* The same list stays said.
LEMMA SameIsSaid ==
    ASSUME FactoryTyped, SaidAll(feats.list), feats'.list = feats.list,
           said.listed \subseteq said'.listed
    PROVE  SaidAll(feats.list)'
BY DEF SaidAll

\* A step that leaves the lists alone.
LEMMA FactoryQuiet ==
    ASSUME FactoryTyped, Read, Guarded, Say, Ours, feats'.list = feats.list,
           feats' \in [at : {"missing", "whole", "torn"}, list : FeatureLists],
           log' \in [at : {"missing", "whole", "torn"}, selected : Pairs, started : Pairs],
           state' \in {"missing", "torn", "ours", "another workspace", "another Mission"},
           state' = "another Mission" => said.state,
           root' \in [path : {"kept", "replaced"}, dir : {"absent", "made", "remade"}, extra : BOOLEAN],
           state' # "missing" => root'.dir # "absent",
           state \in {"another workspace", "another Mission"} => state' = state,
           root.path = "replaced" => root'.path = "replaced", root.extra => root'.extra,
           root.dir = "remade" => root'.dir = "remade"
    PROVE  Effect
<1>1. /\ said' \in [state : BOOLEAN, listed : Pairs, selected : Pairs, started : Pairs]
      /\ log'.selected \subseteq said'.selected /\ log'.started \subseteq said'.started
      /\ said.state => said'.state
      /\ said.listed \subseteq said'.listed /\ said.selected \subseteq said'.selected
      /\ said.started \subseteq said'.started
      /\ state' = "ours" => said'.state
  BY SayGrows, Zenon
<1>2. SaidAll(feats.list)'
  BY <1>1, SameIsSaid DEF Read
<1>3. FactoryTyped'
  BY <1>1 DEF FactoryTyped
<1> QED
  BY <1>1, <1>2, <1>3 DEF Effect

\* A step that changes the lists or the log alone.
LEMMA FactoryLists ==
    ASSUME FactoryTyped, Read, Guarded, Say, Ours, UNCHANGED <<root, state>>,
           feats'.at = "whole",
           feats' \in [at : {"missing", "whole", "torn"}, list : FeatureLists],
           log' \in [at : {"missing", "whole", "torn"}, selected : Pairs, started : Pairs]
    PROVE  Effect
<1>1. state' \in {"missing", "torn", "ours", "another workspace", "another Mission"}
  BY DEF FactoryTyped
<1>2. /\ said' \in [state : BOOLEAN, listed : Pairs, selected : Pairs, started : Pairs]
      /\ log'.selected \subseteq said'.selected /\ log'.started \subseteq said'.started
      /\ said.state => said'.state
      /\ said.listed \subseteq said'.listed /\ said.selected \subseteq said'.selected
      /\ said.started \subseteq said'.started
  BY <1>1, SayGrows, Zenon
<1>3. SaidAll(feats.list)'
  BY WholeIsSaid, Zenon
<1>4. FactoryTyped'
  BY <1>1, <1>2 DEF FactoryTyped
<1> QED
  BY <1>2, <1>3, <1>4 DEF Effect, Read, Guarded, FactoryTyped

\* A pair of a session and a feature may be added to the log.
LEMMA PairAdded ==
    ASSUME NEW S \in Pairs, NEW s \in Listable, NEW f \in Features
    PROVE  S \cup {<<s, f>>} \in Pairs
BY DEF Pairs

LEMMA FactoryEffect == ASSUME FactoryTyped, Read, Guarded, Factory PROVE Effect
<1>l. \A f \in Features : feats.list[f] \in Seq(Listable)
  BY DEF FactoryTyped, FeatureLists
<1>1. ASSUME MakeDirectory PROVE Effect
  <2>1. /\ root' = [root EXCEPT !.dir = "made"] /\ root.dir = "absent" /\ UNCHANGED <<state, feats, log>>
        /\ Say /\ Ours
    BY <1>1 DEF MakeDirectory
  <2> QED
    BY <2>1, FactoryQuiet DEF FactoryTyped, Read, Guarded
<1>2. ASSUME WriteState PROVE Effect
  <2>1. /\ root.dir = "made" /\ state \in {"missing", "torn"} /\ state' = "ours"
        /\ UNCHANGED <<root, feats, log>> /\ Say /\ Ours
    BY <1>2 DEF WriteState
  <2> QED
    BY <2>1, FactoryQuiet DEF FactoryTyped
<1>3. ASSUME Tear PROVE Effect
  <2>1. /\ UNCHANGED root /\ Say /\ Ours
        /\ \/ /\ state = "ours" /\ state' \in {"torn", "missing"} /\ UNCHANGED <<feats, log>>
           \/ /\ \E at \in {"torn", "missing"} : feats' = [feats EXCEPT !.at = at]
              /\ UNCHANGED <<state, log>>
           \/ /\ \E at \in {"torn", "missing"} : log' = [log EXCEPT !.at = at]
              /\ UNCHANGED <<state, feats>>
    BY <1>3, Zenon DEF Tear
  <2> QED
    BY <2>1, FactoryQuiet DEF FactoryTyped, Read, Guarded
<1>4. ASSUME Mend PROVE Effect
  <2>1. /\ UNCHANGED <<root, state>> /\ Say /\ Ours
        /\ \/ feats' = [feats EXCEPT !.at = "whole"] /\ UNCHANGED log
           \/ log' = [log EXCEPT !.at = "whole"] /\ UNCHANGED feats
    BY <1>4 DEF Mend
  <2> QED
    BY <2>1, FactoryQuiet DEF FactoryTyped, Read, Guarded
<1>5. ASSUME Upset PROVE Effect
  <2>1. /\ UNCHANGED <<feats, log>> /\ Say /\ Ours /\ root.dir = "made"
        /\ \/ root' = [root EXCEPT !.path = "replaced"] /\ UNCHANGED state
           \/ root' = [root EXCEPT !.extra = TRUE] /\ UNCHANGED state
           \/ root' = [root EXCEPT !.dir = "remade"] /\ UNCHANGED state
           \/ state = "ours" /\ state' = "another workspace" /\ UNCHANGED root
           \/ said.state /\ state = "ours" /\ state' = "another Mission" /\ UNCHANGED root
    BY <1>5 DEF Upset
  <2> QED
    BY <2>1, FactoryQuiet DEF FactoryTyped, Read, Guarded
<1>6. ASSUME NEW s \in Listable, NEW f \in Features, ListWorker(s, f) PROVE Effect
  <2>1. /\ feats' = [at |-> "whole", list |-> [feats.list EXCEPT ![f] = Append(feats.list[f], s)]]
        /\ UNCHANGED <<root, state, log>> /\ Say /\ Ours
    BY <1>6 DEF ListWorker
  <2>2. Append(feats.list[f], s) \in Seq(Listable)
    BY <1>l
  <2>3. [feats.list EXCEPT ![f] = Append(feats.list[f], s)] \in FeatureLists
    BY <2>2 DEF FactoryTyped, FeatureLists
  <2> QED
    BY <2>1, <2>3, FactoryLists DEF FactoryTyped
<1>7. ASSUME NEW s \in Listable, NEW f \in Features, Select(s, f) \/ Start(s, f) PROVE Effect
  <2>1. /\ \/ log' = [log EXCEPT !.at = "whole", !.selected = log.selected \cup {<<s, f>>}]
           \/ log' = [log EXCEPT !.at = "whole", !.started = log.started \cup {<<s, f>>}]
        /\ UNCHANGED <<root, state, feats>> /\ Say /\ Ours
    BY <1>7 DEF Select, Start
  <2>2. log.selected \cup {<<s, f>>} \in Pairs /\ log.started \cup {<<s, f>>} \in Pairs
    BY PairAdded DEF FactoryTyped
  <2> QED
    BY <2>1, <2>2, FactoryQuiet DEF FactoryTyped, Read, Guarded
<1>8. ASSUME NEW s \in Listable, NEW f \in Features, Relist(s, f) PROVE Effect
  <2>c. feats.at = "whole" /\ UNCHANGED <<root, state>> /\ Say /\ Ours
    BY <1>8 DEF Relist
  <2>p. log.selected \cup {<<s, f>>} \in Pairs /\ log.started \cup {<<s, f>>} \in Pairs
    BY PairAdded DEF FactoryTyped
  <2>l. ASSUME NEW l \in Seq(Listable) PROVE [feats.list EXCEPT ![f] = l] \in FeatureLists
    BY <2>l DEF FactoryTyped, FeatureLists
  <2>1. CASE feats' = [feats EXCEPT !.list[f] = <<s>> \o feats.list[f]] /\ UNCHANGED log
    <3>1. <<s>> \o feats.list[f] \in Seq(Listable)
      BY <1>l
    <3> QED
      BY <2>1, <2>c, <2>l, <3>1, FactoryLists DEF FactoryTyped
  <2>2. CASE /\ UNCHANGED log
             /\ \E i \in DOMAIN feats.list[f] : feats' = [feats EXCEPT !.list[f] = RemoveAt(feats.list[f], i)]
    <3>1. PICK i \in DOMAIN feats.list[f] : feats' = [feats EXCEPT !.list[f] = RemoveAt(feats.list[f], i)]
      BY <2>2
    <3>2. /\ SubSeq(feats.list[f], 1, i - 1) \in Seq(Listable)
          /\ SubSeq(feats.list[f], i + 1, Len(feats.list[f])) \in Seq(Listable)
      BY <1>l
    <3>3. RemoveAt(feats.list[f], i) \in Seq(Listable)
      BY <3>2 DEF RemoveAt
    <3> QED
      BY <2>2, <3>1, <2>c, <2>l, <3>3, FactoryLists DEF FactoryTyped
  <2>3. CASE /\ feats' = [feats EXCEPT !.list[f] = Append(feats.list[f], s)]
             /\ log' = [at |-> "whole", selected |-> log.selected \cup {<<s, f>>},
                                        started |-> log.started \cup {<<s, f>>}]
    <3>1. Append(feats.list[f], s) \in Seq(Listable)
      BY <1>l
    <3> QED
      BY <2>3, <2>c, <2>l, <2>p, <3>1, FactoryLists DEF FactoryTyped
  <2>4. CASE log' = [log EXCEPT !.started = log.started \cup {<<s, f>>}] /\ UNCHANGED feats
    BY <2>4, <2>c, <2>p, FactoryQuiet DEF FactoryTyped, Read, Guarded
  <2> QED
    BY <1>8, <2>1, <2>2, <2>3, <2>4 DEF Relist
<1> QED
  BY <1>1, <1>2, <1>3, <1>4, <1>5, <1>6, <1>7, <1>8 DEF Factory

\* Nothing that is vouched for is taken back.
LEMMA StillVouched ==
    ASSUME NEW s, NEW r, Vouched(s, r), said.state => said'.state,
           said.listed \subseteq said'.listed, said.selected \subseteq said'.selected,
           said.started \subseteq said'.started
    PROVE  Vouched(s, r)'
BY DEF Vouched

LEMMA FactoryKeeps == ASSUME RelationsIInv, Factory PROVE RelationsIInv'
<1>1. Effect
  BY FactoryEffect DEF RelationsIInv
<1>2. UNCHANGED <<lock, scan, picked, raw, relations, roles, registry, assigned, hook, mapper,
                  journal, review, ledger, degraded, final>>
  BY <1>1 DEF Effect, Ours, binding, reviewing
<1>3. FactoryTyped'
  BY <1>1 DEF Effect
<1>4. ScanTyped'
  BY <1>2 DEF RelationsIInv, ScanTyped
<1>5. TablesTyped'
  BY <1>2 DEF RelationsIInv, TablesTyped
<1>6. HooksTyped'
  BY <1>2 DEF RelationsIInv, HooksTyped
<1>7. ReviewTyped'
  BY <1>2 DEF RelationsIInv, ReviewTyped
<1>8. Locked'
  BY <1>2 DEF RelationsIInv, Locked
<1>v. /\ said.state => said'.state
      /\ said.listed \subseteq said'.listed /\ said.selected \subseteq said'.selected
      /\ said.started \subseteq said'.started
  BY <1>1 DEF Effect
<1>9. Read'
  <2>1. scan.list # <<>> => SaidAll(scan.list[1])'
    BY <1>2, <1>v DEF RelationsIInv, Read, SaidAll
  <2>2. \A c \in scan.queue : Vouched(c.session, c.role)'
    BY <1>v, StillVouched DEF RelationsIInv, Read
  <2>3. SaidAll(feats.list)' /\ log'.selected \subseteq said'.selected
        /\ log'.started \subseteq said'.started
        /\ (state' \in {"ours", "another Mission"} => said'.state)
    BY <1>1 DEF Effect
  <2> QED
    BY <1>2, <2>1, <2>2, <2>3 DEF Read
<1>10. Books'
  <2>1. ASSUME NEW s \in Sessions, relations[s] # Nothing PROVE Vouched(s, relations[s])'
    BY <2>1, <1>v, <1>2, StillVouched DEF RelationsIInv, Books
  <2> QED
    BY <1>2, <2>1 DEF RelationsIInv, Books, Booked, Admitting
<1>11. Mapped'
  BY <1>2 DEF RelationsIInv, Mapped
<1>12. Guarded'
  <2>1. Contradictory => Contradictory'
    BY <1>1, <1>2 DEF Effect, Contradictory
  <2>2. StateContradicts => StateContradicts'
    BY <1>1, <1>2 DEF Effect, StateContradicts
  <2> QED
    BY <1>1, <1>2, <2>1, <2>2 DEF RelationsIInv, Guarded, Effect
<1> QED
  BY <1>3, <1>4, <1>5, <1>6, <1>7, <1>8, <1>9, <1>10, <1>11, <1>12 DEF RelationsIInv

------------------------------------------------------------------------------
(* The control sessions, the hook requests and the review.                  *)

LEMMA Distinct ==
    /\ Shadow \in Sessions /\ Decoy \in Sessions /\ Main \in Sessions
    /\ Shadow \notin Listable /\ Shadow # Main /\ Decoy # Main /\ Shadow # Decoy
    /\ Main \notin Listable /\ Listable \subseteq Sessions
    /\ Hooks \subseteq Nat /\ Run \notin Hooks /\ Free \notin Hooks /\ Run # Free
BY RelationsAssumption DEF Sessions, Listable, Hooks

LEMMA ExcludeKeeps ==
    ASSUME RelationsIInv, NEW s \in {Shadow, Decoy}, Exclude(s) PROVE RelationsIInv'
<1>1. /\ raw[s] = Nothing /\ (s = Decoy => raw[Shadow] = Excluded)
      /\ raw' = [raw EXCEPT ![s] = Excluded]
      /\ registry' = [allowed |-> registry.allowed \ {s}, excluded |-> registry.excluded \cup {s}]
      /\ mapper' = [mapper EXCEPT !.excluded = mapper.excluded \cup {s}]
      /\ UNCHANGED <<root, state, feats, log, said, faults, lock, scan, picked, relations, roles,
                     assigned, hook, ledger, journal, review, degraded, final>>
  BY DEF Exclude, factory
<1>2. s \in Sessions
  BY Distinct
<1>3. lock = Free /\ scan = NoScan
  BY <1>1, Distinct, RolesAssumption DEF RelationsIInv, Locked, ScanTyped
<1>4. FactoryTyped'
  BY <1>1 DEF RelationsIInv, FactoryTyped
<1>12. ScanTyped'
  BY <1>1 DEF RelationsIInv, ScanTyped
<1>13. HooksTyped'
  BY <1>1 DEF RelationsIInv, HooksTyped
<1>5. TablesTyped'
  BY <1>1 DEF RelationsIInv, TablesTyped
<1>6. ReviewTyped'
  BY <1>1 DEF RelationsIInv, ReviewTyped
<1>7. Locked'
  BY <1>1, <1>2, <1>3, Distinct DEF RelationsIInv, Locked, TablesTyped
<1>8. Read'
  BY <1>1, <1>3 DEF RelationsIInv, Read, SaidAll, Vouched
<1>9. Books'
  <2>1. \A o \in Sessions : ~Admitting(o) /\ ~Admitting(o)'
    BY <1>1, <1>3 DEF Admitting, NoScan
  <2>2. \A o \in Sessions : Booked(o)'
    BY <1>1, <1>2, <2>1, RolesAssumption DEF RelationsIInv, Books, Booked, TablesTyped
  <2> QED
    BY <1>1, <1>3, <2>1, <2>2 DEF RelationsIInv, Books, Vouched, NoScan
<1>10. Mapped'
  BY <1>1 DEF RelationsIInv, Mapped, ReviewTyped
<1>11. Guarded'
  <2>1. s \notin registry.allowed
    BY <1>2, RolesAssumption DEF RelationsIInv, Books, TablesTyped
  <2> QED
    BY <1>1, <1>3, <2>1 DEF RelationsIInv, Guarded, TablesTyped, Contradictory, StateContradicts
<1> QED
  BY <1>4, <1>5, <1>6, <1>7, <1>8, <1>9, <1>10, <1>11, <1>12, <1>13 DEF RelationsIInv

\* A thread enters refresh, after both control sessions were excluded.
LEMMA RequestKeeps == ASSUME RelationsIInv, NEW h \in Hooks, Request(h) PROVE RelationsIInv'
<1>1. /\ hook[h].pc = "unborn" /\ raw[Decoy] = Excluded
      /\ hook' = [hook EXCEPT ![h].pc = "refreshing", ![h].sound = ~Contradictory]
      /\ lock = Free /\ lock' = h /\ scan' = [NoScan EXCEPT !.pc = "locate", !.known = Known]
      /\ UNCHANGED <<root, state, feats, log, said, faults, picked, raw, relations, roles, registry,
                     assigned, mapper, journal, review, ledger, degraded, final>>
  BY DEF Request, Enter, factory, binding, reviewing
<1>2. /\ scan'.pc = "locate" /\ scan'.known \in SUBSET Sessions /\ scan'.list = <<>>
      /\ scan'.queue = {} /\ scan'.now = Nothing /\ scan.pc = "none"
      /\ scan' = [pc |-> "locate", known |-> Known, list |-> <<>>, queue |-> {}, now |-> Nothing]
  <2>1. scan' = [pc |-> "locate", known |-> Known, list |-> <<>>, queue |-> {}, now |-> Nothing]
    BY <1>1 DEF NoScan
  <2>2. scan = NoScan
    BY <1>1 DEF RelationsIInv, ScanTyped
  <2>3. Known \in SUBSET Sessions
    BY DEF Known
  <2> QED
    BY <2>1, <2>2, <2>3 DEF NoScan
<1>3. FactoryTyped'
  BY <1>1 DEF RelationsIInv, FactoryTyped
<1>11. TablesTyped'
  BY <1>1 DEF RelationsIInv, TablesTyped
<1>12. ReviewTyped'
  BY <1>1 DEF RelationsIInv, ReviewTyped
<1>4. ScanTyped'
  <2>1. <<>> \in Seq(FeatureLists)
    OBVIOUS
  <2> QED
    BY <1>1, <1>2, <2>1, Distinct DEF RelationsIInv, ScanTyped, NoScan
<1>5. HooksTyped'
  BY <1>1 DEF RelationsIInv, HooksTyped
<1>6. Locked'
  BY <1>1, Distinct DEF RelationsIInv, Locked, HooksTyped
<1>7. Read'
  BY <1>1, <1>2 DEF RelationsIInv, Read, SaidAll, Vouched
<1>8. Books'
  BY <1>1, <1>2 DEF RelationsIInv, Books, Admitting, Booked, Vouched
<1>9. Mapped'
  BY <1>1 DEF RelationsIInv, Mapped
<1>10. Guarded'
  <2>1. Contradictory' = Contradictory
    BY <1>1 DEF Contradictory
  <2>2. \A g \in Hooks \ {h} : hook'[g] = hook[g] /\ hook[g].pc # "refreshing"
    BY <1>1, Distinct DEF RelationsIInv, Locked, HooksTyped
  <2>3. hook'[h].pc = "refreshing" /\ hook'[h].sound = ~Contradictory
    BY <1>1 DEF RelationsIInv, HooksTyped
  <2>4. \A i \in 1 .. Len(ledger) : hook'[ledger[i]].pc = "accepted"
    <3> SUFFICES ASSUME NEW i \in 1 .. Len(ledger) PROVE hook'[ledger[i]].pc = "accepted"
      OBVIOUS
    <3>1. ledger[i] \in Hooks /\ hook[ledger[i]].pc = "accepted"
      BY DEF RelationsIInv, HooksTyped, Guarded
    <3> QED
      BY <3>1, <2>2, <1>1
  <2>5. ASSUME NEW g \in Hooks PROVE
           /\ hook'[g].pc = "accepted" => hook'[g].session \in registry.allowed
           /\ hook'[g].pc \in {"refreshed", "accepted"} => hook'[g].sound
           /\ hook'[g].pc = "refreshing" /\ ~hook'[g].sound => Contradictory
    <3>1. CASE g = h
      BY <3>1, <2>3
    <3>2. CASE g # h
      BY <3>2, <2>2 DEF RelationsIInv, Guarded
    <3> QED
      BY <3>1, <3>2
  <2> QED
    BY <1>1, <1>2, <2>1, <2>4, <2>5 DEF RelationsIInv, Guarded
<1> QED
  BY <1>3, <1>4, <1>5, <1>6, <1>7, <1>8, <1>9, <1>10, <1>11, <1>12 DEF RelationsIInv

LEMMA AcceptKeeps ==
    ASSUME RelationsIInv, NEW h \in Hooks, NEW s \in Sessions, NEW e \in Events, Accept(h, s, e)
    PROVE  RelationsIInv'
<1>1. /\ hook[h].pc = "refreshed"
      /\ \/ /\ s \in registry.allowed /\ ledger' = Append(ledger, h)
            /\ hook' = [hook EXCEPT ![h].pc = "accepted", ![h].session = s, ![h].event = e]
         \/ hook' = [hook EXCEPT ![h].pc = "ignored"] /\ UNCHANGED ledger
      /\ UNCHANGED <<root, state, feats, log, said, faults, lock, scan, picked, raw, relations,
                     roles, registry, assigned, mapper, journal, review, degraded, final>>
  BY DEF Accept, factory, binding, reviewing
<1>2. FactoryTyped'
  BY <1>1 DEF RelationsIInv, FactoryTyped
<1>12. TablesTyped'
  BY <1>1 DEF RelationsIInv, TablesTyped
<1>13. ScanTyped'
  BY <1>1 DEF RelationsIInv, ScanTyped
<1>3. /\ hook'[h].pc \in {"accepted", "ignored"} /\ hook'[h].sound = hook[h].sound
      /\ hook'[h].pc = "accepted" => hook'[h].session = s /\ s \in registry.allowed
      /\ \A g \in Hooks \ {h} : hook'[g] = hook[g]
  BY <1>1 DEF RelationsIInv, HooksTyped
<1>4. HooksTyped'
  <2>1. hook \in [Hooks -> [pc : {"unborn", "refreshing", "refused", "refreshed", "ignored", "accepted"},
                            session : Sessions \cup {Nothing}, event : {"start", "tool"},
                            sound : BOOLEAN]]
    BY DEF RelationsIInv, HooksTyped
  <2>2. e \in {"start", "tool"}
    BY RelationsAssumption
  <2>3. hook' \in [Hooks -> [pc : {"unborn", "refreshing", "refused", "refreshed", "ignored", "accepted"},
                             session : Sessions \cup {Nothing}, event : {"start", "tool"},
                             sound : BOOLEAN]]
    BY <1>1, <2>1, <2>2
  <2>4. ledger \in Seq(Hooks)
    BY DEF RelationsIInv, HooksTyped
  <2>5. ledger' \in Seq(Hooks)
    BY <1>1, <2>4
  <2>6. final' = final
    BY <1>1
  <2> QED
    BY <2>3, <2>5, <2>6 DEF HooksTyped, RelationsIInv
<1>5. ledger' = ledger \/ (ledger' = Append(ledger, h) /\ hook'[h].pc = "accepted")
  BY <1>1 DEF RelationsIInv, HooksTyped
<1>6. ReviewTyped'
  BY <1>1, <1>5 DEF RelationsIInv, ReviewTyped, HooksTyped
<1>7. Locked'
  BY <1>1, <1>3 DEF RelationsIInv, Locked
<1>8. Read'
  BY <1>1 DEF RelationsIInv, Read, SaidAll, Vouched
<1>9. Books'
  BY <1>1 DEF RelationsIInv, Books, Admitting, Booked, Vouched
<1>10. Mapped'
  BY <1>1 DEF RelationsIInv, Mapped
<1>11. Guarded'
  <2>1. Contradictory' = Contradictory /\ StateContradicts' = StateContradicts
    BY <1>1 DEF Contradictory, StateContradicts
  <2>2. ASSUME NEW i \in 1 .. Len(ledger') PROVE hook'[ledger'[i]].pc = "accepted"
    <3>1. CASE i \in 1 .. Len(ledger)
      <4>1. ledger[i] \in Hooks /\ hook[ledger[i]].pc = "accepted" /\ ledger'[i] = ledger[i]
        BY <1>5, <3>1 DEF RelationsIInv, HooksTyped, Guarded
      <4> QED
        BY <4>1, <1>1, <1>3
    <3>2. CASE i \notin 1 .. Len(ledger)
      <4>1. ledger' = Append(ledger, h) /\ hook'[h].pc = "accepted" /\ i = Len(ledger) + 1
        BY <1>5, <3>2 DEF RelationsIInv, HooksTyped
      <4> QED
        BY <4>1 DEF RelationsIInv, HooksTyped
    <3> QED
      BY <3>1, <3>2
  <2> QED
    BY <1>1, <1>3, <2>1, <2>2 DEF RelationsIInv, Guarded
<1> QED
  BY <1>2, <1>12, <1>13, <1>4, <1>6, <1>7, <1>8, <1>9, <1>10, <1>11 DEF RelationsIInv

\* A session that is let in is known to be the Mission's, under a role of its own.
LEMMA Known1 ==
    ASSUME RelationsIInv, NEW s \in Sessions, s \in registry.allowed
    PROVE  /\ relations[s] # Nothing /\ relations[s] \in roles
           /\ s \notin {Shadow, Decoy} /\ Vouched(s, relations[s])
BY RolesAssumption DEF RelationsIInv, Books, TablesTyped

LEMMA ObserveKeeps == ASSUME RelationsIInv, Observe PROVE RelationsIInv'
<1> DEFINE h == ledger[Len(journal) + 1]
           s == hook[h].session
           e == hook[h].event
<1>1. /\ review = Nothing /\ Len(journal) < Len(ledger) /\ review' = Decision(s, e)
      /\ mapper' = CASE Decision(s, e) = "assigned" /\ mapper.held[s] = Nothing ->
                          [mapper EXCEPT !.held[s] = relations[s]]
                     [] Decision(s, e) = "quarantined" ->
                          [mapper EXCEPT !.quarantined = mapper.quarantined \cup {s}]
                     [] OTHER -> mapper
      /\ UNCHANGED <<root, state, feats, log, said, faults, lock, scan, picked, raw, relations,
                     roles, registry, assigned, hook, ledger, journal, degraded, final>>
  BY DEF Observe, factory, binding
<1>2. Len(journal) + 1 \in 1 .. Len(ledger)
  BY <1>1 DEF RelationsIInv, ReviewTyped, HooksTyped
<1>3. h \in Hooks /\ hook[h].pc = "accepted"
  BY <1>2 DEF RelationsIInv, HooksTyped, Guarded
<1>4. s \in registry.allowed /\ s \in Sessions /\ e \in {"start", "tool"}
  BY <1>3 DEF RelationsIInv, HooksTyped, Guarded, TablesTyped
<1>5. /\ relations[s] # Nothing /\ relations[s] \in roles /\ s \notin {Shadow, Decoy}
  BY <1>4, Known1
<1>6. /\ mapper.held[s] \in {Nothing, relations[s]} /\ s \notin mapper.quarantined
      /\ s \notin mapper.excluded
  BY <1>4, <1>5 DEF RelationsIInv, Mapped, ReviewTyped
<1>7. ~Quarantines(s, e)
  <2>1. ASSUME NEW o \in Sessions \ {s} PROVE mapper.held[o] # relations[s]
    BY <1>4, <1>5 DEF RelationsIInv, Mapped, Books
  <2> QED
    BY <1>5, <1>6, <2>1 DEF Quarantines
<1>8. Decision(s, e) = "assigned"
  BY <1>5, <1>6, <1>7 DEF Decision
<1>9. mapper' = IF mapper.held[s] = Nothing THEN [mapper EXCEPT !.held[s] = relations[s]] ELSE mapper
  BY <1>1, <1>8
<1>10. FactoryTyped'
  BY <1>1 DEF RelationsIInv, FactoryTyped
<1>11. ScanTyped'
  BY <1>1 DEF RelationsIInv, ScanTyped
<1>12. TablesTyped'
  BY <1>1 DEF RelationsIInv, TablesTyped
<1>13. HooksTyped'
  BY <1>1 DEF RelationsIInv, HooksTyped
<1>14. ReviewTyped'
  BY <1>1, <1>8, <1>9, <1>4 DEF RelationsIInv, ReviewTyped, TablesTyped
<1>15. Locked'
  BY <1>1 DEF RelationsIInv, Locked
<1>16. Read'
  BY <1>1 DEF RelationsIInv, Read, SaidAll, Vouched
<1>17. Books'
  BY <1>1 DEF RelationsIInv, Books, Admitting, Booked, Vouched
<1>18. Mapped'
  BY <1>1, <1>9, <1>4 DEF RelationsIInv, Mapped, ReviewTyped
<1>19. Guarded'
  BY <1>1 DEF RelationsIInv, Guarded, Contradictory, StateContradicts
<1> QED
  BY <1>10, <1>11, <1>12, <1>13, <1>14, <1>15, <1>16, <1>17, <1>18, <1>19 DEF RelationsIInv

LEMMA RecordKeeps == ASSUME RelationsIInv, Record PROVE RelationsIInv'
<1> DEFINE h == ledger[Len(journal) + 1]
<1>1. /\ review # Nothing
      /\ journal' = Append(journal, [session |-> hook[h].session, status |-> review, digest |-> relations])
      /\ review' = Nothing
      /\ UNCHANGED <<root, state, feats, log, said, faults, lock, scan, picked, raw, relations,
                     roles, registry, assigned, hook, mapper, ledger, degraded, final>>
  BY DEF Record, factory, binding
<1>2. Len(journal) < Len(ledger) /\ review = "assigned"
  BY <1>1 DEF RelationsIInv, ReviewTyped
<1>3. h \in Hooks /\ hook[h].pc = "accepted"
  BY <1>2 DEF RelationsIInv, HooksTyped, ReviewTyped, Guarded
<1>4. hook[h].session \in Sessions
  BY <1>3 DEF RelationsIInv, TablesTyped, Guarded
<1>5. [session |-> hook[h].session, status |-> review, digest |-> relations] \in
        [session : Sessions, status : {"assigned"}, digest : [Sessions -> RoleSet \cup {Nothing}]]
  BY <1>2, <1>4 DEF RelationsIInv, TablesTyped
<1>10. FactoryTyped'
  BY <1>1 DEF RelationsIInv, FactoryTyped
<1>11. ScanTyped'
  BY <1>1 DEF RelationsIInv, ScanTyped
<1>12. TablesTyped'
  BY <1>1 DEF RelationsIInv, TablesTyped
<1>13. HooksTyped'
  BY <1>1 DEF RelationsIInv, HooksTyped
<1>14. ReviewTyped'
  <2>1. journal \in Seq([session : Sessions, status : {"assigned"},
                         digest : [Sessions -> RoleSet \cup {Nothing}]])
    BY DEF RelationsIInv, ReviewTyped
  <2>2. /\ journal' \in Seq([session : Sessions, status : {"assigned"},
                             digest : [Sessions -> RoleSet \cup {Nothing}]])
        /\ Len(journal') = Len(journal) + 1
    BY <1>1, <1>5, <2>1
  <2>3. Len(journal) \in Nat /\ Len(ledger) \in Nat
    BY <2>1 DEF RelationsIInv, HooksTyped
  <2> QED
    BY <1>1, <1>2, <2>2, <2>3 DEF RelationsIInv, ReviewTyped
<1>15. Locked'
  BY <1>1 DEF RelationsIInv, Locked
<1>16. Read'
  BY <1>1 DEF RelationsIInv, Read, SaidAll, Vouched
<1>17. Books'
  BY <1>1 DEF RelationsIInv, Books, Admitting, Booked, Vouched
<1>18. Mapped'
  BY <1>1 DEF RelationsIInv, Mapped
<1>19. Guarded'
  BY <1>1 DEF RelationsIInv, Guarded, Contradictory, StateContradicts
<1> QED
  BY <1>10, <1>11, <1>12, <1>13, <1>14, <1>15, <1>16, <1>17, <1>18, <1>19 DEF RelationsIInv

LEMMA FreezeKeeps == ASSUME RelationsIInv, Freeze PROVE RelationsIInv'
<1>1. /\ raw[Decoy] = Excluded /\ final' = [final EXCEPT !.pc = "freezing"]
      /\ lock = Free /\ lock' = Run /\ scan' = [NoScan EXCEPT !.pc = "locate", !.known = Known]
      /\ UNCHANGED <<root, state, feats, log, said, faults, picked, raw, relations, roles, registry,
                     assigned, hook, mapper, journal, review, ledger, degraded>>
  BY DEF Freeze, Enter, factory, binding, reviewing
<1>2. /\ scan'.pc = "locate" /\ scan'.known \in SUBSET Sessions /\ scan'.list = <<>>
      /\ scan'.queue = {} /\ scan'.now = Nothing /\ scan.pc = "none"
      /\ scan' = [pc |-> "locate", known |-> Known, list |-> <<>>, queue |-> {}, now |-> Nothing]
  <2>1. scan' = [pc |-> "locate", known |-> Known, list |-> <<>>, queue |-> {}, now |-> Nothing]
    BY <1>1 DEF NoScan
  <2>2. scan = NoScan
    BY <1>1 DEF RelationsIInv, ScanTyped
  <2>3. Known \in SUBSET Sessions
    BY DEF Known
  <2> QED
    BY <2>1, <2>2, <2>3 DEF NoScan
<1>10. FactoryTyped'
  BY <1>1 DEF RelationsIInv, FactoryTyped
<1>11. ScanTyped'
  <2>1. <<>> \in Seq(FeatureLists)
    OBVIOUS
  <2> QED
    BY <1>1, <1>2, <2>1, Distinct DEF RelationsIInv, ScanTyped, NoScan
<1>12. TablesTyped'
  BY <1>1 DEF RelationsIInv, TablesTyped
<1>13. HooksTyped'
  BY <1>1 DEF RelationsIInv, HooksTyped
<1>14. ReviewTyped'
  BY <1>1 DEF RelationsIInv, ReviewTyped
<1>15. Locked'
  BY <1>1, Distinct DEF RelationsIInv, Locked
<1>16. Read'
  BY <1>1, <1>2 DEF RelationsIInv, Read, SaidAll, Vouched
<1>17. Books'
  BY <1>1, <1>2 DEF RelationsIInv, Books, Admitting, Booked, Vouched
<1>18. Mapped'
  BY <1>1 DEF RelationsIInv, Mapped
<1>19. Guarded'
  <2>1. \A g \in Hooks : hook[g].pc # "refreshing"
    BY <1>1, Distinct DEF RelationsIInv, Locked
  <2> QED
    BY <1>1, <2>1 DEF RelationsIInv, Guarded
<1> QED
  BY <1>10, <1>11, <1>12, <1>13, <1>14, <1>15, <1>16, <1>17, <1>18, <1>19 DEF RelationsIInv

\* A step that changes the frozen record alone.
LEMMA FinalKeeps ==
    ASSUME RelationsIInv, UNCHANGED <<root, state, feats, log, said, lock, scan, picked, raw,
                relations, roles, registry, assigned, hook, mapper, journal, review, ledger>>,
           final' \in [pc : {"flying", "freezing", "frozen", "written", "failed"},
                       roles : [Sessions -> RoleSet \cup {Nothing}]]
    PROVE  RelationsIInv'
<1>10. FactoryTyped'
  BY DEF RelationsIInv, FactoryTyped
<1>11. ScanTyped'
  BY DEF RelationsIInv, ScanTyped
<1>12. TablesTyped'
  BY DEF RelationsIInv, TablesTyped
<1>13. HooksTyped'
  BY DEF RelationsIInv, HooksTyped
<1>14. ReviewTyped'
  BY DEF RelationsIInv, ReviewTyped
<1>15. Locked'
  BY DEF RelationsIInv, Locked
<1>16. Read'
  BY DEF RelationsIInv, Read, SaidAll, Vouched
<1>17. Books'
  BY DEF RelationsIInv, Books, Admitting, Booked, Vouched
<1>18. Mapped'
  BY DEF RelationsIInv, Mapped
<1>19. Guarded'
  BY DEF RelationsIInv, Guarded, Contradictory, StateContradicts
<1> QED
  BY <1>10, <1>11, <1>12, <1>13, <1>14, <1>15, <1>16, <1>17, <1>18, <1>19 DEF RelationsIInv

LEMMA WriteKeeps == ASSUME RelationsIInv, Write PROVE RelationsIInv'
BY FinalKeeps DEF Write, factory, binding, reviewing, RelationsIInv, HooksTyped

------------------------------------------------------------------------------
(* refresh.                                                                 *)

\* The tables stay as they are while nobody is being admitted.
LEMMA BooksSame ==
    ASSUME RelationsIInv, UNCHANGED <<said, raw, relations, roles, registry, assigned>>,
           scan.pc \notin {"role", "registry", "assign"},
           scan'.pc \notin {"role", "registry", "assign"}
    PROVE  Books'
BY DEF RelationsIInv, Books, Admitting, Booked, Vouched

\* A thread leaves refresh, with the tables as they are by then: it raises, or returns to
\* a request that came before any contradiction.
LEMMA LeaveKeeps ==
    ASSUME RelationsIInv, NEW t \in Hooks \cup {Run}, lock = t,
           Raise(t) \/ (Return(t) /\ (t \in Hooks => hook[t].sound)),
           UNCHANGED <<root, state, feats, log, said, picked, relations, registry, mapper, journal,
                       review, ledger>>,
           TablesTyped', Books', raw'[Shadow] = raw[Shadow], raw'[Decoy] = raw[Decoy]
    PROVE  RelationsIInv'
<1>1. /\ lock' = Free /\ scan' = NoScan
      /\ scan'.queue = {} /\ scan'.list = <<>> /\ scan'.pc = "none"
  BY DEF Raise, Return, NoScan
<1>2. \/ t = Run /\ hook' = hook
      \/ t \in Hooks /\ hook' = [hook EXCEPT ![t].pc = "refused"]
      \/ t \in Hooks /\ hook' = [hook EXCEPT ![t].pc = "refreshed"] /\ hook[t].sound
  BY DEF Raise, Return
<1>3. FactoryTyped'
  BY DEF RelationsIInv, FactoryTyped
<1>4. ScanTyped'
  <2>1. NoScan \in [pc : {"none", "locate", "state", "admit", "features", "log", "role", "registry", "assign"},
                 known : SUBSET Sessions, list : Seq(FeatureLists), queue : SUBSET CandidateSet,
                 now : CandidateSet \cup {Nothing}]
    BY DEF NoScan
  <2> QED
    BY <1>1, <2>1 DEF RelationsIInv, ScanTyped
<1>5. HooksTyped'
  <2>1. Snapshot' \in [Sessions -> RoleSet \cup {Nothing}]
    BY DEF Snapshot, Known, TablesTyped
  <2>2. final' \in [pc : {"flying", "freezing", "frozen", "written", "failed"},
                    roles : [Sessions -> RoleSet \cup {Nothing}]]
    <3>1. final \in [pc : {"flying", "freezing", "frozen", "written", "failed"},
                     roles : [Sessions -> RoleSet \cup {Nothing}]]
      BY DEF RelationsIInv, HooksTyped
    <3>2. \/ final' = final \/ final' = [final EXCEPT !.pc = "failed"]
          \/ final' = [pc |-> "frozen", roles |-> Snapshot']
      BY Zenon DEF Raise, Return
    <3> QED
      BY <2>1, <3>1, <3>2
  <2>3. hook' \in [Hooks -> [pc : {"unborn", "refreshing", "refused", "refreshed", "ignored", "accepted"},
                             session : Sessions \cup {Nothing}, event : {"start", "tool"},
                             sound : BOOLEAN]]
    BY <1>2 DEF RelationsIInv, HooksTyped
  <2> QED
    BY <2>2, <2>3 DEF RelationsIInv, HooksTyped
<1>6. ReviewTyped'
  BY DEF RelationsIInv, ReviewTyped
<1>7. /\ \A h \in Hooks : hook'[h].pc # "refreshing"
      /\ \A h \in Hooks : /\ hook'[h].session = hook[h].session /\ hook'[h].sound = hook[h].sound
                          /\ hook'[h].pc = "accepted" => hook[h].pc = "accepted"
                          /\ hook'[h].pc = "refreshed" => hook[h].pc = "refreshed" \/ hook[h].sound
                          /\ hook[h].pc = "accepted" => hook'[h].pc = "accepted"
  <2>1. \A h \in Hooks : (hook[h].pc = "refreshing") = (h = t)
    BY DEF RelationsIInv, Locked
  <2>2. CASE t = Run /\ hook' = hook
    BY <2>1, <2>2, Distinct
  <2>3. CASE t \in Hooks /\ hook' = [hook EXCEPT ![t].pc = "refused"]
    BY <2>1, <2>3 DEF RelationsIInv, HooksTyped
  <2>4. CASE t \in Hooks /\ hook' = [hook EXCEPT ![t].pc = "refreshed"] /\ hook[t].sound
    BY <2>1, <2>4 DEF RelationsIInv, HooksTyped
  <2> QED
    BY <1>2, <2>2, <2>3, <2>4
<1>8. Locked'
  BY <1>1, <1>7, Distinct DEF RelationsIInv, Locked
<1>9. Read'
  BY <1>1 DEF RelationsIInv, Read, SaidAll
<1>10. Mapped'
  BY DEF RelationsIInv, Mapped
<1>11. Guarded'
  <2>1. \A i \in 1 .. Len(ledger) : ledger[i] \in Hooks
    BY DEF RelationsIInv, HooksTyped
  <2> QED
    BY <1>1, <1>7, <2>1 DEF RelationsIInv, Guarded
<1> QED
  BY <1>3, <1>4, <1>5, <1>6, <1>8, <1>9, <1>10, <1>11 DEF RelationsIInv

\* A thread goes on inside refresh, with more in the tables perhaps.
LEMMA GoOnKeeps ==
    ASSUME RelationsIInv, NEW t \in Hooks \cup {Run}, lock = t,
           UNCHANGED <<root, state, feats, log, said, lock, hook, mapper, journal, review, ledger,
                       degraded, final>>,
           TablesTyped', Books', raw'[Shadow] = raw[Shadow], raw'[Decoy] = raw[Decoy],
           \A s \in Sessions : relations[s] # Nothing => relations'[s] = relations[s],
           registry.allowed \subseteq registry'.allowed,
           picked' \in [dir : {"absent", "made", "remade"}, mission : {"none", "ours", "another Mission"}],
           scan' \in [pc : {"locate", "state", "admit", "features", "log", "role", "registry", "assign"},
                      known : SUBSET Sessions, list : Seq(FeatureLists), queue : SUBSET CandidateSet,
                      now : CandidateSet \cup {Nothing}],
           scan'.list # <<>> => SaidAll(scan'.list[1]),
           \A c \in scan'.queue : Vouched(c.session, c.role),
           t \in Hooks /\ ~hook[t].sound => scan'.pc = "state" /\ StateContradicts'
    PROVE  RelationsIInv'
<1>1. scan'.pc # NoScan.pc
  BY DEF NoScan
<1>3. FactoryTyped'
  BY DEF RelationsIInv, FactoryTyped
<1>4. ScanTyped'
  BY <1>1, Distinct DEF RelationsIInv, ScanTyped
<1>5. HooksTyped'
  BY DEF RelationsIInv, HooksTyped
<1>6. ReviewTyped'
  BY DEF RelationsIInv, ReviewTyped
<1>8. Locked'
  BY DEF RelationsIInv, Locked
<1>9. Read'
  BY DEF RelationsIInv, Read, SaidAll, Vouched
<1>10. Mapped'
  BY DEF RelationsIInv, Mapped
<1>11. Guarded'
  <2>1. \A h \in Hooks : hook[h].pc = "refreshing" => h = t
    BY DEF RelationsIInv, Locked
  <2> QED
    BY <2>1 DEF RelationsIInv, Guarded
<1> QED
  BY <1>3, <1>4, <1>5, <1>6, <1>8, <1>9, <1>10, <1>11 DEF RelationsIInv

\* The request of the thread inside refresh.
LEMMA Inside ==
    ASSUME RelationsIInv, NEW t \in Hooks \cup {Run}, lock = t
    PROVE  /\ raw[Shadow] = Excluded /\ raw[Decoy] = Excluded
           /\ t \in Hooks /\ ~hook[t].sound =>
                \/ scan.pc = "locate" /\ Contradictory
                \/ scan.pc = "state" /\ StateContradicts
BY Distinct DEF RelationsIInv, Locked, Guarded

LEMMA LocateKeeps ==
    ASSUME RelationsIInv, NEW t \in Hooks \cup {Run}, Locate(t) PROVE RelationsIInv'
<1>1. /\ lock = t /\ scan.pc = "locate"
      /\ UNCHANGED <<root, state, feats, log, said, raw, relations, roles, registry, assigned, mapper,
                     journal, review, ledger>>
  BY DEF Locate, Still, factory, binding, reviewing
<1>2. TablesTyped'
  BY <1>1 DEF RelationsIInv, TablesTyped
<1>3. CASE Raise(t) /\ UNCHANGED picked
  <2>1. Books'
    BY <1>1, <1>3, BooksSame DEF Raise, NoScan
  <2> QED
    BY <1>1, <1>2, <1>3, <2>1, LeaveKeeps
<1>4. CASE ~DirectoryChanged /\ root.dir = "absent" /\ UNCHANGED picked /\ Return(t)
  <2>1. Books'
    BY <1>1, <1>4, BooksSame DEF Return, NoScan
  <2>2. ~Contradictory
    BY <1>4 DEF DirectoryChanged, Contradictory, RelationsIInv, Guarded, ScanTyped
  <2>3. t \in Hooks => hook[t].sound
    BY <1>1, <2>2, Inside
  <2> QED
    BY <1>1, <1>2, <1>4, <2>1, <2>3, LeaveKeeps
<1>5. CASE ~DirectoryChanged /\ picked' = [picked EXCEPT !.dir = root.dir] /\ Go("state")
  <2>1. scan' = [scan EXCEPT !.pc = "state"] /\ UNCHANGED <<lock, hook, degraded, final>>
    BY <1>5 DEF Go
  <2>s. scan \in [pc : {"none", "locate", "state", "admit", "features", "log", "role", "registry", "assign"},
                 known : SUBSET Sessions, list : Seq(FeatureLists), queue : SUBSET CandidateSet,
                 now : CandidateSet \cup {Nothing}]
    BY DEF RelationsIInv, ScanTyped
  <2>2. /\ scan'.pc = "state" /\ scan'.list = scan.list /\ scan'.queue = scan.queue
        /\ scan' \in [pc : {"locate", "state", "admit", "features", "log", "role", "registry", "assign"},
                      known : SUBSET Sessions, list : Seq(FeatureLists), queue : SUBSET CandidateSet,
                      now : CandidateSet \cup {Nothing}]
    BY <2>1, <2>s
  <2>3. Books'
    BY <1>1, <2>2, BooksSame
  <2>4. /\ picked' \in [dir : {"absent", "made", "remade"}, mission : {"none", "ours", "another Mission"}]
        /\ picked'.mission = picked.mission
    BY <1>5 DEF RelationsIInv, ScanTyped, FactoryTyped
  <2>5. Contradictory => StateContradicts'
    BY <1>1, <1>5, <2>4 DEF Contradictory, StateContradicts, DirectoryChanged
  <2>6. t \in Hooks /\ ~hook[t].sound => scan'.pc = "state" /\ StateContradicts'
    BY <1>1, <2>2, <2>5, Inside
  <2> QED
    BY <1>1, <1>2, <2>1, <2>2, <2>3, <2>4, <2>6, GoOnKeeps DEF RelationsIInv, Read
<1> QED
  BY <1>3, <1>4, <1>5 DEF Locate

LEMMA ReadStateKeeps ==
    ASSUME RelationsIInv, NEW t \in Hooks \cup {Run}, ReadState(t) PROVE RelationsIInv'
<1>1. /\ lock = t /\ scan.pc = "state"
      /\ UNCHANGED <<root, state, feats, log, said, raw, relations, roles, registry, assigned, mapper,
                     journal, review, ledger>>
  BY DEF ReadState, Still, factory, binding, reviewing
<1>2. TablesTyped'
  BY <1>1 DEF RelationsIInv, TablesTyped
<1>3. CASE Raise(t) /\ UNCHANGED picked
  <2>1. Books'
    BY <1>1, <1>3, BooksSame DEF Raise, NoScan
  <2> QED
    BY <1>1, <1>2, <1>3, <2>1, LeaveKeeps
<1>s. ~StateRefused => (t \in Hooks => hook[t].sound)
  BY <1>1, Inside DEF StateRefused, StateContradicts
<1>4. CASE ~StateRefused /\ UNCHANGED picked /\ Return(t)
  <2>1. Books'
    BY <1>1, <1>4, BooksSame DEF Return, NoScan
  <2> QED
    BY <1>1, <1>2, <1>4, <1>s, <2>1, LeaveKeeps
<1>5. CASE /\ ~StateRefused /\ state # "missing" /\ picked' = [picked EXCEPT !.mission = state]
           /\ scan' = [scan EXCEPT !.pc = "admit",
                                   !.queue = {[session |-> Main, role |-> Orchestrator]}]
           /\ UNCHANGED <<lock, hook, degraded, final>>
  <2>s. scan \in [pc : {"none", "locate", "state", "admit", "features", "log", "role", "registry", "assign"},
                 known : SUBSET Sessions, list : Seq(FeatureLists), queue : SUBSET CandidateSet,
                 now : CandidateSet \cup {Nothing}]
    BY DEF RelationsIInv, ScanTyped
  <2>c. [session |-> Main, role |-> Orchestrator] \in CandidateSet
    BY DEF CandidateSet, RoleSet
  <2>2. /\ scan'.pc = "admit" /\ scan'.list = scan.list
        /\ scan'.queue = {[session |-> Main, role |-> Orchestrator]}
        /\ scan' \in [pc : {"locate", "state", "admit", "features", "log", "role", "registry", "assign"},
                      known : SUBSET Sessions, list : Seq(FeatureLists), queue : SUBSET CandidateSet,
                      now : CandidateSet \cup {Nothing}]
    BY <1>5, <2>s, <2>c
  <2>3. Books'
    BY <1>1, <2>2, BooksSame
  <2>4. state \in {"ours", "another Mission"}
    BY <1>5 DEF StateRefused, RelationsIInv, FactoryTyped
  <2>5. picked' \in [dir : {"absent", "made", "remade"}, mission : {"none", "ours", "another Mission"}]
    BY <1>5, <2>4 DEF RelationsIInv, ScanTyped
  <2>6. \A c \in scan'.queue : Vouched(c.session, c.role)
    <3>1. said.state
      BY <2>4 DEF RelationsIInv, Read
    <3>2. \A c \in scan'.queue : c.session = Main
      BY <2>2
    <3> QED
      BY <3>1, <3>2 DEF Vouched
  <2> QED
    BY <1>1, <1>2, <1>5, <1>s, <2>2, <2>3, <2>5, <2>6, GoOnKeeps DEF RelationsIInv, Read
<1> QED
  BY <1>3, <1>4, <1>5 DEF ReadState

LEMMA ReadFeaturesKeeps ==
    ASSUME RelationsIInv, NEW t \in Hooks \cup {Run}, ReadFeatures(t) PROVE RelationsIInv'
<1>1. /\ lock = t /\ scan.pc = "features"
      /\ UNCHANGED <<root, state, feats, log, said, picked, raw, relations, roles, registry, assigned,
                     mapper, journal, review, ledger>>
  BY DEF ReadFeatures, Still, factory, binding, reviewing
<1>2. TablesTyped'
  BY <1>1 DEF RelationsIInv, TablesTyped
<1>3. CASE Raise(t)
  <2>1. Books'
    BY <1>1, <1>3, BooksSame DEF Raise, NoScan
  <2> QED
    BY <1>1, <1>2, <1>3, <2>1, LeaveKeeps
<1>4. CASE /\ scan' = [scan EXCEPT !.pc = "log",
                             !.list = IF feats.at = "whole" THEN <<feats.list>> ELSE <<>>]
           /\ UNCHANGED <<lock, hook, degraded, final>>
  <2>s. scan \in [pc : {"none", "locate", "state", "admit", "features", "log", "role", "registry", "assign"},
                 known : SUBSET Sessions, list : Seq(FeatureLists), queue : SUBSET CandidateSet,
                 now : CandidateSet \cup {Nothing}]
    BY DEF RelationsIInv, ScanTyped
  <2>l. <<feats.list>> \in Seq(FeatureLists) /\ <<>> \in Seq(FeatureLists) /\ <<feats.list>>[1] = feats.list
    <3>1. feats.list \in FeatureLists
      BY DEF RelationsIInv, FactoryTyped
    <3> HIDE DEF FeatureLists
    <3> QED
      BY <3>1
  <2>2. /\ scan'.pc = "log" /\ scan'.queue = scan.queue
        /\ scan'.list # <<>> => scan'.list = <<feats.list>>
        /\ scan' \in [pc : {"locate", "state", "admit", "features", "log", "role", "registry", "assign"},
                      known : SUBSET Sessions, list : Seq(FeatureLists), queue : SUBSET CandidateSet,
                      now : CandidateSet \cup {Nothing}]
    BY <1>4, <2>s, <2>l
  <2>3. Books'
    BY <1>1, <2>2, BooksSame
  <2>4. scan'.list # <<>> => SaidAll(scan'.list[1])
    BY <2>2, <2>l DEF RelationsIInv, Read
  <2>5. picked' \in [dir : {"absent", "made", "remade"}, mission : {"none", "ours", "another Mission"}]
    BY <1>1 DEF RelationsIInv, ScanTyped
  <2>6. t \in Hooks => hook[t].sound
    BY <1>1, Inside
  <2> QED
    BY <1>1, <1>2, <1>4, <2>2, <2>3, <2>4, <2>5, <2>6, GoOnKeeps DEF RelationsIInv, Read
<1> QED
  BY <1>3, <1>4 DEF ReadFeatures

\* The workers the list and the log agree on were named by all that was read.
LEMMA CorroboratedVouched ==
    ASSUME RelationsIInv, NEW list \in FeatureLists, SaidAll(list)
    PROVE  /\ Corroborated(list) \subseteq CandidateSet
           /\ \A c \in Corroborated(list) : Vouched(c.session, c.role)
<1> SUFFICES ASSUME NEW c \in Corroborated(list)
             PROVE  c \in CandidateSet /\ Vouched(c.session, c.role)
  OBVIOUS
<1>1. c \in Attempts(list) /\ <<c.session, c.role.feature>> \in log.selected \cap log.started
  BY DEF Corroborated
<1>2. PICK f \in Features :
         c \in {[session |-> list[f][i], role |-> Role(Kind(f), f, i)] : i \in DOMAIN list[f]}
  BY <1>1 DEF Attempts
<1>3. PICK i \in DOMAIN list[f] : c = [session |-> list[f][i], role |-> Role(Kind(f), f, i)]
  BY <1>2
<1>4. list[f] \in Seq(Listable)
  BY DEF FeatureLists
<1>5. i \in Nat /\ list[f][i] \in Listable
  BY <1>4
<1>6. Kind(f) \in {"worker", "validator"}
  BY DEF Kind
<1>7. Role(Kind(f), f, i) \in RoleSet /\ Role(Kind(f), f, i).feature = f
  BY <1>5, <1>6 DEF Role, RoleSet
<1>8. c.session = list[f][i] /\ c.role = Role(Kind(f), f, i)
  BY <1>3
<1>9. c \in CandidateSet
  BY <1>3, <1>5, <1>7 DEF CandidateSet
<1>10. <<c.session, c.role.feature>> \in said.listed
  BY <1>7, <1>8 DEF SaidAll
<1>11. <<c.session, c.role.feature>> \in said.selected \cap said.started
  BY <1>1 DEF RelationsIInv, Read
<1>12. c.session # Main
  BY <1>5, <1>8, Distinct
<1> QED
  BY <1>9, <1>10, <1>11, <1>12 DEF Vouched

LEMMA ReadLogKeeps ==
    ASSUME RelationsIInv, NEW t \in Hooks \cup {Run}, ReadLog(t) PROVE RelationsIInv'
<1>1. /\ lock = t /\ scan.pc = "log"
      /\ UNCHANGED <<root, state, feats, log, said, picked, raw, relations, roles, registry, assigned,
                     mapper, journal, review, ledger>>
  BY DEF ReadLog, Still, factory, binding, reviewing
<1>2. TablesTyped'
  BY <1>1 DEF RelationsIInv, TablesTyped
<1>3. t \in Hooks => hook[t].sound
  BY <1>1, Inside
<1>4. CASE Raise(t) \/ Return(t)
  <2>1. Books'
    BY <1>1, <1>4, BooksSame DEF Raise, Return, NoScan
  <2> QED
    BY <1>1, <1>2, <1>3, <1>4, <2>1, LeaveKeeps
<1>5. CASE /\ scan.list # <<>>
           /\ scan' = [scan EXCEPT !.pc = "admit", !.queue = Corroborated(scan.list[1])]
           /\ UNCHANGED <<lock, hook, degraded, final>>
  <2>s. scan \in [pc : {"none", "locate", "state", "admit", "features", "log", "role", "registry", "assign"},
                 known : SUBSET Sessions, list : Seq(FeatureLists), queue : SUBSET CandidateSet,
                 now : CandidateSet \cup {Nothing}]
    BY DEF RelationsIInv, ScanTyped
  <2>l. scan.list[1] \in FeatureLists
    BY <1>5, <2>s
  <2>v. SaidAll(scan.list[1])
    BY <1>5 DEF RelationsIInv, Read
  <2>c. /\ Corroborated(scan.list[1]) \subseteq CandidateSet
        /\ \A c \in Corroborated(scan.list[1]) : Vouched(c.session, c.role)
    BY <2>l, <2>v, CorroboratedVouched
  <2>2. /\ scan'.pc = "admit" /\ scan'.list = scan.list /\ scan'.queue = Corroborated(scan.list[1])
        /\ scan' \in [pc : {"locate", "state", "admit", "features", "log", "role", "registry", "assign"},
                      known : SUBSET Sessions, list : Seq(FeatureLists), queue : SUBSET CandidateSet,
                      now : CandidateSet \cup {Nothing}]
    BY <1>5, <2>s, <2>c
  <2>3. Books'
    BY <1>1, <2>2, BooksSame
  <2>4. picked' \in [dir : {"absent", "made", "remade"}, mission : {"none", "ours", "another Mission"}]
    BY <1>1 DEF RelationsIInv, ScanTyped
  <2> QED
    BY <1>1, <1>2, <1>3, <1>5, <2>2, <2>3, <2>4, <2>c, <2>v, GoOnKeeps
<1> QED
  BY <1>4, <1>5, Zenon DEF ReadLog

\* The next candidate, or the end of refresh.
LEMMA AdvanceKeeps ==
    ASSUME RelationsIInv, NEW t \in Hooks \cup {Run}, NEW c, lock = t, scan.pc \in {"admit", "assign"},
           Advance(t, c),
           UNCHANGED <<root, state, feats, log, said, picked, relations, registry, mapper, journal,
                       review, ledger>>,
           TablesTyped', scan'.pc \notin {"role", "registry", "assign"} => Books',
           raw'[Shadow] = raw[Shadow], raw'[Decoy] = raw[Decoy]
    PROVE  RelationsIInv'
<1>1. t \in Hooks => hook[t].sound
  BY Inside
<1>2. CASE Return(t)
  <2>1. Books'
    BY <1>2 DEF Return, NoScan
  <2> QED
    BY <1>1, <1>2, <2>1, LeaveKeeps
<1>3. CASE /\ scan' = [scan EXCEPT !.pc = IF c.session = Main THEN "features" ELSE "admit",
                                   !.queue = scan.queue \ {c}, !.now = Nothing]
           /\ UNCHANGED <<lock, hook, degraded, final>>
  <2>s. scan \in [pc : {"none", "locate", "state", "admit", "features", "log", "role", "registry", "assign"},
                 known : SUBSET Sessions, list : Seq(FeatureLists), queue : SUBSET CandidateSet,
                 now : CandidateSet \cup {Nothing}]
    BY DEF RelationsIInv, ScanTyped
  <2>2. /\ scan'.pc \in {"features", "admit"} /\ scan'.list = scan.list /\ scan'.queue \subseteq scan.queue
        /\ scan' \in [pc : {"locate", "state", "admit", "features", "log", "role", "registry", "assign"},
                      known : SUBSET Sessions, list : Seq(FeatureLists), queue : SUBSET CandidateSet,
                      now : CandidateSet \cup {Nothing}]
    BY <1>3, <2>s
  <2>3. Books'
    BY <2>2
  <2>4. picked' \in [dir : {"absent", "made", "remade"}, mission : {"none", "ours", "another Mission"}]
    BY DEF RelationsIInv, ScanTyped
  <2>5. /\ scan'.list # <<>> => SaidAll(scan'.list[1])
        /\ \A d \in scan'.queue : Vouched(d.session, d.role)
    BY <2>2 DEF RelationsIInv, Read
  <2> QED
    BY <1>1, <1>3, <2>2, <2>3, <2>4, <2>5, GoOnKeeps
<1> QED
  BY <1>2, <1>3, Zenon DEF Advance

LEMMA AdmitRelationKeeps ==
    ASSUME RelationsIInv, NEW t \in Hooks \cup {Run}, AdmitRelation(t) PROVE RelationsIInv'
<1>1. /\ lock = t /\ scan.pc = "admit"
      /\ UNCHANGED <<root, state, feats, log, said, picked, raw, roles, assigned, mapper, journal,
                     review, ledger>>
  BY DEF AdmitRelation, Still, factory, reviewing
<1>2. PICK c \in scan.queue :
         \/ Advance(t, c) /\ UNCHANGED <<relations, registry>>
         \/ Raise(t) /\ UNCHANGED <<relations, registry>>
         \/ /\ raw[c.session] = Nothing /\ ~RoleTaken(c.session, c.role)
            /\ relations' = [relations EXCEPT ![c.session] = c.role] /\ UNCHANGED registry
            /\ scan' = [scan EXCEPT !.pc = "role", !.now = c]
            /\ UNCHANGED <<lock, hook, degraded, final>>
  BY DEF AdmitRelation, Relate
<1>3. CASE (Advance(t, c) \/ Raise(t)) /\ UNCHANGED <<relations, registry>>
  <2>1. TablesTyped'
    BY <1>1, <1>3 DEF RelationsIInv, TablesTyped
  <2>2. scan'.pc \notin {"role", "registry", "assign"} => Books'
    BY <1>1, <1>3, BooksSame
  <2>3. CASE Advance(t, c)
    BY <1>1, <1>3, <2>1, <2>2, <2>3, AdvanceKeeps
  <2>4. CASE Raise(t)
    BY <1>1, <1>3, <2>1, <2>2, <2>4, LeaveKeeps DEF Raise, NoScan
  <2> QED
    BY <1>3, <2>3, <2>4
<1>4. CASE /\ raw[c.session] = Nothing /\ ~RoleTaken(c.session, c.role)
           /\ relations' = [relations EXCEPT ![c.session] = c.role] /\ UNCHANGED registry
           /\ scan' = [scan EXCEPT !.pc = "role", !.now = c]
           /\ UNCHANGED <<lock, hook, degraded, final>>
  <2> DEFINE s == c.session
             r == c.role
  <2>s. scan \in [pc : {"none", "locate", "state", "admit", "features", "log", "role", "registry", "assign"},
                 known : SUBSET Sessions, list : Seq(FeatureLists), queue : SUBSET CandidateSet,
                 now : CandidateSet \cup {Nothing}]
    BY DEF RelationsIInv, ScanTyped
  <2>c. c \in CandidateSet
    BY <2>s
  <2>d. s \in Sessions /\ r \in RoleSet
    BY <2>c, Distinct DEF CandidateSet
  <2>2. /\ scan'.pc = "role" /\ scan'.now = c /\ scan'.list = scan.list /\ scan'.queue = scan.queue
        /\ scan' \in [pc : {"locate", "state", "admit", "features", "log", "role", "registry", "assign"},
                      known : SUBSET Sessions, list : Seq(FeatureLists), queue : SUBSET CandidateSet,
                      now : CandidateSet \cup {Nothing}]
    BY <1>4, <2>s, <2>c
  <2>t. TablesTyped'
    BY <1>1, <1>4, <2>d DEF RelationsIInv, TablesTyped
  <2>v. Vouched(s, r)
    BY DEF RelationsIInv, Read
  <2>x. s \notin {Shadow, Decoy}
    BY <1>1, <1>4, Inside, RolesAssumption
  <2>b. \A o \in Sessions : Booked(o)
    BY <1>1 DEF RelationsIInv, Books, Admitting
  <2>a. assigned[s] = Nothing /\ relations[s] = Nothing
    BY <1>4, <2>b, <2>d, RolesAssumption DEF Booked
  <2>r. /\ relations'[s] = r /\ \A o \in Sessions \ {s} : relations'[o] = relations[o]
    BY <1>4, <2>d DEF RelationsIInv, TablesTyped
  <2>u. \A o \in Sessions \ {s} : relations[o] # r
    BY <1>4, <2>b DEF RoleTaken, Booked
  <2>n. s \notin registry.allowed
    BY <2>a, <2>d, RolesAssumption DEF RelationsIInv, Books, TablesTyped
  <2>3. Books'
    <3>1. \A o \in Sessions : Admitting(o)' = (o = s)
      BY <2>2 DEF Admitting
    <3>2. \A o \in Sessions \ {s} : Booked(o)'
      BY <1>1, <2>b, <2>r DEF Booked
    <3>3. \A o \in Sessions : relations'[o] # Nothing => Vouched(o, relations[o])' /\ o \notin {Shadow, Decoy}
      <4>1. ASSUME NEW o \in Sessions, o # s, relations'[o] # Nothing
            PROVE  Vouched(o, relations[o])' /\ o \notin {Shadow, Decoy}
        <5>1. relations'[o] = relations[o]
          BY <2>r, <4>1
        <5> QED
          BY <1>1, <4>1, <5>1 DEF RelationsIInv, Books, Vouched
      <4>2. Vouched(s, relations[s])'
        BY <1>1, <2>r, <2>v DEF Vouched
      <4> QED
        BY <4>1, <4>2, <2>x
    <3>4. \A o \in Sessions : o \in registry'.allowed => relations'[o] \in roles'
      BY <1>1, <1>4, <2>n, <2>r DEF RelationsIInv, Books
    <3>5. \A p, o \in Sessions : p # o /\ relations'[p] = relations'[o] => relations'[p] = Nothing
      BY <2>r, <2>u DEF RelationsIInv, Books
    <3>6. \A o \in Sessions :
             /\ ~Admitting(o)' => Booked(o)'
             /\ Admitting(o)' => /\ raw'[o] = Nothing /\ assigned'[o] = Nothing
                                 /\ relations'[o] = scan'.now.role
      BY <1>1, <1>4, <2>2, <2>a, <2>r, <3>1, <3>2
    <3>7. scan'.now \in CandidateSet /\ scan'.pc \notin {"registry", "assign"}
      BY <2>2, <2>c
    <3> QED
      BY <3>3, <3>4, <3>5, <3>6, <3>7 DEF Books
  <2>4. picked' \in [dir : {"absent", "made", "remade"}, mission : {"none", "ours", "another Mission"}]
    BY <1>1 DEF RelationsIInv, ScanTyped
  <2>5. /\ scan'.list # <<>> => SaidAll(scan'.list[1])
        /\ \A d \in scan'.queue : Vouched(d.session, d.role)
    BY <2>2 DEF RelationsIInv, Read
  <2>6. t \in Hooks => hook[t].sound
    BY <1>1, Inside
  <2>7. \A o \in Sessions : relations[o] # Nothing => relations'[o] = relations[o]
    BY <2>a, <2>r
  <2> QED
    BY <1>1, <1>4, <2>2, <2>3, <2>4, <2>5, <2>6, <2>7, <2>t, GoOnKeeps
<1> QED
  BY <1>2, <1>3, <1>4

\* The session being admitted.
LEMMA AdmittedNow ==
    ASSUME RelationsIInv, scan.pc \in {"role", "registry", "assign"}
    PROVE  /\ scan.now \in CandidateSet /\ scan.now.session \in Sessions /\ scan.now.role \in RoleSet
           /\ raw[scan.now.session] = Nothing /\ assigned[scan.now.session] = Nothing
           /\ relations[scan.now.session] = scan.now.role
           /\ scan.now.session \notin {Shadow, Decoy}
           /\ \A o \in Sessions \ {scan.now.session} : Booked(o)
<1>1. scan.now \in CandidateSet
  BY DEF RelationsIInv, Books
<1>2. scan.now.session \in Sessions /\ scan.now.role \in RoleSet
  BY <1>1, Distinct DEF CandidateSet
<1>3. /\ raw[scan.now.session] = Nothing /\ assigned[scan.now.session] = Nothing
      /\ relations[scan.now.session] = scan.now.role
      /\ \A o \in Sessions \ {scan.now.session} : Booked(o)
  BY <1>2 DEF RelationsIInv, Books, Admitting
<1>4. scan.now.session \notin {Shadow, Decoy}
  BY <1>2, <1>3, RolesAssumption DEF RelationsIInv, Books
<1> QED
  BY <1>1, <1>2, <1>3, <1>4

\* A step of an admission that goes on to the next one.
LEMMA AdmissionGoesOn ==
    ASSUME RelationsIInv, NEW t \in Hooks \cup {Run}, lock = t, scan.pc \in {"role", "registry"},
           NEW pc \in {"registry", "assign"}, Go(pc),
           UNCHANGED <<root, state, feats, log, said, picked, raw, relations, mapper, journal, review,
                       ledger>>,
           registry.allowed \subseteq registry'.allowed, TablesTyped', Books'
    PROVE  RelationsIInv'
<1>1. scan' = [scan EXCEPT !.pc = pc] /\ UNCHANGED <<lock, hook, degraded, final>>
  BY DEF Go
<1>s. scan \in [pc : {"none", "locate", "state", "admit", "features", "log", "role", "registry", "assign"},
               known : SUBSET Sessions, list : Seq(FeatureLists), queue : SUBSET CandidateSet,
               now : CandidateSet \cup {Nothing}]
  BY DEF RelationsIInv, ScanTyped
<1>2. /\ scan'.list = scan.list /\ scan'.queue = scan.queue
      /\ scan' \in [pc : {"locate", "state", "admit", "features", "log", "role", "registry", "assign"},
                    known : SUBSET Sessions, list : Seq(FeatureLists), queue : SUBSET CandidateSet,
                    now : CandidateSet \cup {Nothing}]
  BY <1>1, <1>s
<1>3. picked' \in [dir : {"absent", "made", "remade"}, mission : {"none", "ours", "another Mission"}]
  BY DEF RelationsIInv, ScanTyped
<1>4. /\ scan'.list # <<>> => SaidAll(scan'.list[1])
      /\ \A d \in scan'.queue : Vouched(d.session, d.role)
  BY <1>2 DEF RelationsIInv, Read
<1>5. t \in Hooks => hook[t].sound
  BY Inside
<1> QED
  BY <1>1, <1>2, <1>3, <1>4, <1>5, GoOnKeeps

LEMMA AdmitRoleKeeps ==
    ASSUME RelationsIInv, NEW t \in Hooks \cup {Run}, AdmitRole(t) PROVE RelationsIInv'
<1>1. /\ lock = t /\ scan.pc = "role" /\ roles' = roles \cup {scan.now.role} /\ Go("registry")
      /\ UNCHANGED <<root, state, feats, log, said, picked, raw, relations, registry, assigned, mapper,
                     journal, review, ledger>>
  BY DEF AdmitRole, Still, factory, reviewing
<1>2. /\ scan.now.role \in RoleSet /\ scan.now \in CandidateSet
  BY <1>1, AdmittedNow
<1>3. TablesTyped'
  BY <1>1, <1>2 DEF RelationsIInv, TablesTyped
<1>4. scan'.pc = "registry" /\ scan'.now = scan.now
  BY <1>1 DEF Go, RelationsIInv, ScanTyped
<1>5. Books'
  BY <1>1, <1>2, <1>4 DEF RelationsIInv, Books, Admitting, Booked, Vouched
<1> QED
  BY <1>1, <1>3, <1>5, AdmissionGoesOn

LEMMA AdmitSessionKeeps ==
    ASSUME RelationsIInv, NEW t \in Hooks \cup {Run}, AdmitSession(t) PROVE RelationsIInv'
<1>1. /\ lock = t /\ scan.pc = "registry" /\ Go("assign")
      /\ registry' = [registry EXCEPT !.allowed = registry.allowed \cup {scan.now.session}]
      /\ UNCHANGED <<root, state, feats, log, said, picked, raw, relations, roles, assigned, mapper,
                     journal, review, ledger>>
  BY DEF AdmitSession, Still, factory, reviewing
<1>2. /\ scan.now \in CandidateSet /\ scan.now.session \in Sessions
      /\ relations[scan.now.session] \in roles
  BY <1>1, AdmittedNow DEF RelationsIInv, Books
<1>3. TablesTyped'
  BY <1>1, <1>2 DEF RelationsIInv, TablesTyped
<1>4. scan'.pc = "assign" /\ scan'.now = scan.now
  BY <1>1 DEF Go, RelationsIInv, ScanTyped
<1>r. registry'.allowed = registry.allowed \cup {scan.now.session}
  BY <1>1 DEF RelationsIInv, TablesTyped
<1>5. Books'
  BY <1>1, <1>2, <1>4, <1>r DEF RelationsIInv, Books, Admitting, Booked, Vouched
<1> QED
  BY <1>1, <1>3, <1>5, <1>r, AdmissionGoesOn

LEMMA AssignKeeps ==
    ASSUME RelationsIInv, NEW t \in Hooks \cup {Run}, Assign(t) PROVE RelationsIInv'
<1> DEFINE s == scan.now.session
           r == scan.now.role
<1>1. /\ lock = t /\ scan.pc = "assign" /\ Advance(t, scan.now)
      /\ assigned' = [assigned EXCEPT ![s] = r] /\ raw' = [raw EXCEPT ![s] = r]
      /\ UNCHANGED <<root, state, feats, log, said, picked, relations, roles, registry, mapper, journal,
                     review, ledger>>
  BY DEF Assign, Still, factory, reviewing
<1>2. /\ s \in Sessions /\ r \in RoleSet /\ s \notin {Shadow, Decoy} /\ relations[s] = r
      /\ \A o \in Sessions \ {s} : Booked(o)
  BY <1>1, AdmittedNow
<1>3. TablesTyped'
  BY <1>1, <1>2 DEF RelationsIInv, TablesTyped
<1>4. /\ raw'[s] = r /\ assigned'[s] = r
      /\ \A o \in Sessions \ {s} : raw'[o] = raw[o] /\ assigned'[o] = assigned[o]
  BY <1>1, <1>2 DEF RelationsIInv, TablesTyped
<1>5. \A o \in Sessions : Booked(o)'
  BY <1>1, <1>2, <1>4, RolesAssumption DEF Booked
<1>6. scan'.pc \notin {"role", "registry", "assign"} => Books'
  BY <1>1, <1>5 DEF RelationsIInv, Books, Admitting, Vouched
<1>7. raw'[Shadow] = raw[Shadow] /\ raw'[Decoy] = raw[Decoy]
  BY <1>2, <1>4, Distinct
<1> QED
  BY <1>1, <1>3, <1>6, <1>7, AdvanceKeeps

------------------------------------------------------------------------------
(* The theorems.                                                            *)

LEMMA InitIInv == ASSUME RelationsInit PROVE RelationsIInv
<1>1. FactoryTyped
  <2>1. [f \in Features |-> <<>>] \in FeatureLists
    BY DEF FeatureLists
  <2> QED
    BY <2>1 DEF RelationsInit, FactoryTyped, Pairs
<1>2. ScanTyped
  BY DEF RelationsInit, ScanTyped, NoScan
<1>3. TablesTyped
  BY DEF RelationsInit, TablesTyped
<1>4. HooksTyped
  BY DEF RelationsInit, HooksTyped
<1>5. ReviewTyped
  BY DEF RelationsInit, ReviewTyped
<1>6. Locked
  BY Distinct, RolesAssumption DEF RelationsInit, Locked
<1>7. Read
  BY DEF RelationsInit, Read, SaidAll, NoScan
<1>8. Books
  BY Distinct, RolesAssumption DEF RelationsInit, Books, Booked, Admitting, NoScan
<1>9. Mapped
  BY DEF RelationsInit, Mapped
<1>10. Guarded
  BY DEF RelationsInit, Guarded
<1> QED
  BY <1>1, <1>2, <1>3, <1>4, <1>5, <1>6, <1>7, <1>8, <1>9, <1>10 DEF RelationsIInv

LEMMA StutterKeeps == ASSUME RelationsIInv, UNCHANGED relationVars PROVE RelationsIInv'
<1>1. UNCHANGED <<root, state, feats, log, said, lock, scan, picked, raw,
                  relations, roles, registry, assigned, hook, mapper, journal, review, ledger, final>>
  BY DEF relationVars, factory, binding, reviewing
<1> QED
  BY <1>1, FinalKeeps DEF RelationsIInv, HooksTyped

LEMMA StepIInv == ASSUME RelationsIInv, [RelationsNext]_relationVars PROVE RelationsIInv'
<1>1. CASE Factory
  BY <1>1, FactoryKeeps
<1>2. CASE Exclude(Shadow) \/ Exclude(Decoy)
  BY <1>2, ExcludeKeeps
<1>3. ASSUME NEW h \in Hooks, Request(h) PROVE RelationsIInv'
  BY <1>3, RequestKeeps
<1>4. ASSUME NEW t \in Hooks \cup {Run}, Refresh(t) PROVE RelationsIInv'
  BY <1>4, LocateKeeps, ReadStateKeeps, ReadFeaturesKeeps, ReadLogKeeps, AdmitRelationKeeps,
     AdmitRoleKeeps, AdmitSessionKeeps, AssignKeeps DEF Refresh
<1>5. ASSUME NEW h \in Hooks, NEW s \in Sessions, NEW e \in Events, Accept(h, s, e) PROVE RelationsIInv'
  BY <1>5, AcceptKeeps
<1>6. CASE Freeze \/ Write \/ Observe \/ Record
  BY <1>6, FreezeKeeps, WriteKeeps, ObserveKeeps, RecordKeeps
<1>7. CASE UNCHANGED relationVars
  BY <1>7, StutterKeeps
<1> QED
  BY <1>1, <1>2, <1>3, <1>4, <1>5, <1>6, <1>7, Zenon DEF RelationsNext

\* Every reachable state satisfies the inductive invariant, whatever the number of
\* sessions, features, requests and faults.
THEOREM RelationsInvariant == RelationsSpec => []RelationsIInv
BY InitIInv, StepIInv, PTL DEF RelationsSpec

\* An entry of the ledger is a request of a session that is let in.
LEMMA LedgerAllowed ==
    ASSUME RelationsIInv, NEW i \in 1 .. Len(ledger)
    PROVE  /\ ledger[i] \in Hooks /\ hook[ledger[i]].session \in Sessions
           /\ hook[ledger[i]].session \in registry.allowed /\ hook[ledger[i]].sound
<1>1. ledger[i] \in Hooks /\ hook[ledger[i]].pc = "accepted"
  BY DEF RelationsIInv, HooksTyped, Guarded
<1> QED
  BY <1>1 DEF RelationsIInv, Guarded, TablesTyped

\* A request enters the ledger only when all three files named its session, under the
\* feature of its role, though they were read one after the other while Factory wrote them.
THEOREM AcceptedNamed == RelationsSpec => []AcceptedMeansNamed
<1>1. RelationsIInv => AcceptedMeansNamed
  <2> SUFFICES ASSUME RelationsIInv, NEW i \in 1 .. Len(ledger)
               PROVE  LET s == hook[ledger[i]].session
                          f == relations[s].feature
                      IN /\ s \notin {Shadow, Decoy} /\ relations[s] # Nothing
                         /\ IF s = Main THEN said.state
                            ELSE <<s, f>> \in said.listed \cap said.selected \cap said.started
    BY DEF AcceptedMeansNamed
  <2> QED
    BY LedgerAllowed, Known1 DEF Vouched
<1> QED
  BY <1>1, RelationsInvariant, PTL

\* The review thread finds the role of every session whose requests are let in, and nobody
\* else holds it: no such session is quarantined.
THEOREM NeverQuarantined == RelationsSpec => []AdmittedNeverQuarantined
<1>1. RelationsIInv => AdmittedNeverQuarantined
  <2> SUFFICES ASSUME RelationsIInv, NEW i \in 1 .. Len(journal)
               PROVE  journal[i].status = "assigned"
    BY DEF AdmittedNeverQuarantined
  <2>1. journal[i] \in [session : Sessions, status : {"assigned"},
                        digest : [Sessions -> RoleSet \cup {Nothing}]]
    <3> DEFINE Entries == [session : Sessions, status : {"assigned"},
                           digest : [Sessions -> RoleSet \cup {Nothing}]]
    <3>1. journal \in Seq(Entries)
      BY DEF RelationsIInv, ReviewTyped
    <3> HIDE DEF Entries
    <3>2. journal[i] \in Entries
      BY <3>1
    <3> QED
      BY <3>2 DEF Entries
  <2> QED
    BY <2>1
<1> QED
  BY <1>1, RelationsInvariant, PTL

\* No request that came after a contradiction of the Mission root or of state.json is accepted.
THEOREM IntakeClosed == RelationsSpec => []ContradictionClosesIntake
<1>1. RelationsIInv => ContradictionClosesIntake
  BY LedgerAllowed DEF ContradictionClosesIntake
<1> QED
  BY <1>1, RelationsInvariant, PTL

\* The tables keep their types, and no two sessions hold one role.
THEOREM RelationsTyped == RelationsSpec => []RelationsTypeOK
<1>1. RelationsIInv => RelationsTypeOK
  <2> SUFFICES ASSUME RelationsIInv PROVE RelationsTypeOK
    OBVIOUS
  <2>1. /\ lock \in Hooks \cup {Run, Free} /\ (lock = Free) = (scan = NoScan)
    BY DEF RelationsIInv, ScanTyped
  <2>2. /\ roles \subseteq RoleSet /\ Len(journal) <= Len(ledger)
        /\ \A s \in Sessions : /\ raw[s] \in RoleSet \cup {Nothing, Excluded}
                                /\ relations[s] \in RoleSet \cup {Nothing}
                                /\ assigned[s] \in RoleSet \cup {Nothing}
                                /\ mapper.held[s] \in RoleSet \cup {Nothing}
    BY DEF RelationsIInv, TablesTyped, ReviewTyped
  <2>3. \A s, o \in Sessions :
          s # o => /\ relations[s] = relations[o] => relations[s] = Nothing
                   /\ mapper.held[s] = mapper.held[o] => mapper.held[s] = Nothing
    BY DEF RelationsIInv, Books, Mapped
  <2> QED
    BY <2>1, <2>2, <2>3 DEF RelationsTypeOK
<1> QED
  BY <1>1, RelationsInvariant, PTL

\* The same, of the two models side by side: a session whose requests are let in is never
\* quarantined, and the tables keep their types.
THEOREM AdmittedHold == Spec => []AdmittedStay
<1>1. Init => RelationsInit
  BY DEF Init
<1>2. [Next]_<<part, relationVars, readerVars>> => [RelationsNext]_relationVars
  BY DEF Next
<1>3. Spec => RelationsSpec
  BY <1>1, <1>2, PTL DEF Spec, RelationsSpec
<1>4. RelationsTypeOK /\ AdmittedNeverQuarantined => AdmittedStay
  BY DEF AdmittedStay
<1> QED
  BY <1>3, <1>4, RelationsTyped, NeverQuarantined, PTL

------------------------------------------------------------------------------
(***************************************************************************)
(* Theorems about TranscriptReader, for any number of transcripts, files,  *)
(* lines and mischances, and any bounds.                                   *)
(*                                                                         *)
(* Lines are numbered as they are begun, so the numbers in a file grow     *)
(* with the position, and change behind an end only (Written).  What a     *)
(* reader holds in its chunk is still in the file, or the file was cut and *)
(* all that is in it is newer (ChunkPlaced); and what it has accounted for *)
(* is older than what it has not reached (Placed).  Hence no line is       *)
(* accounted for twice, whatever happened to the file, and a tool use that *)
(* begins to wait is one that no result was paired with (Waiting); as long *)
(* as the file was not cut, no line is missed either (EveryLineOnce).      *)
(***************************************************************************)

\* What lines, files, cursors, the read, the pool and the history are made of.
Units == [no : Nat, nth : Nat, last : BOOLEAN]
Pcs == {"idle", "look", "reopen", "measure", "chunk", "settle", "lines"}
ReadSet == [pc : Pcs, alias : Aliases \cup {Gone}, size : Nat, chunk : Seq(Units), next : Nat,
            records : Nat]
Entries == [no : Nat, end : Nat, as : {"dropped", "read", "correction"}, use : Nat]
UseIds == {l.use : l \in Lines}
Uses == [alias : Aliases, use : UseIds, no : Nat, since : Nat]

FilesTyped ==
    /\ lines \in Seq(Lines) /\ disk \in [Inodes -> Seq(Units)]
    /\ path \in [Aliases -> Inodes \cup {Gone}]
Cursors == [Aliases -> [inode : 0 .. MaxInodes, offset : Nat]]
CursorsTyped ==
    /\ cursor \in Cursors
    /\ \A a \in Aliases : Registered(a) => cursor[a].inode \in Inodes
    /\ \A a, b \in Aliases : a # b /\ Registered(a) => cursor[a].inode # cursor[b].inode
    /\ opened = Cardinality({a \in Aliases : Registered(a)})
ReadTyped ==
    /\ read \in ReadSet
    /\ read.pc \in {"idle", "look", "reopen", "measure", "chunk"} => read.chunk = <<>>
    /\ read.pc # "lines" => read.next = 0
    /\ read.pc = "idle" => read.alias = Gone
    /\ read.pc # "idle" => read.alias \in Aliases /\ Registered(read.alias)
    /\ Len(read.chunk) <= MAX_TRANSCRIPT_READ_BYTES /\ read.next <= Len(read.chunk)
Histories == [Aliases -> Seq(Entries)]
PoolTyped ==
    /\ pending \in SUBSET Uses /\ IsFiniteSet(pending) /\ waits \in Nat
    /\ Cardinality(pending) <= MAX_PENDING_FACTORY_TOOL_USES

\* A file, or a part of one, when lines 1 to m were begun: the numbers of its
\* lines grow, and change behind an end only.
Written(f, m) ==
    /\ f \in Seq(Units)
    /\ \A p \in 1 .. Len(f) : f[p].no \in 1 .. m
    /\ \A p, q \in 1 .. Len(f) :
          /\ p < q => f[p].no <= f[q].no
          /\ p < q /\ f[p].last => f[p].no < f[q].no
          /\ p <= q /\ (\A r \in p .. q - 1 : ~f[r].last) => f[q].no = f[p].no
FilesWritten ==
    Written(read.chunk, Len(lines)) /\ \A i \in Inodes : Written(disk[i], Len(lines))

\* The entries of t are of lines older than those behind a place in f.
Older(t, f, from) == \A k \in 1 .. Len(t) : \A p \in from + 1 .. Len(f) : t[k].no < f[p].no

\* The chunk c is in the file yet, at the offset; or the file was cut and is all newer.
InFile(c, f, offset) == \A q \in 1 .. Len(c) : offset + q <= Len(f) /\ f[offset + q] = c[q]
Newer(c, f) == \A q \in 1 .. Len(c) : \A p \in 1 .. Len(f) : c[q].no < f[p].no
ChunkIn(c, f, offset, lost) == InFile(c, f, offset) \/ (lost /\ Newer(c, f))
ChunkPlaced ==
    read.pc \in {"settle", "lines"} =>
        LET a == read.alias
            i == cursor[a].inode
        IN /\ ChunkIn(read.chunk, disk[i], cursor[a].offset, i \in cut)
           /\ Older(taken[a], read.chunk, read.next)

\* What was accounted for is older than what is behind the place r that was reached, the
\* end of a line; or the file was cut and is all newer.
PlaceIn(t, f, r, lost) ==
    \/ r \in Ends(f) \cup {0} /\ Older(t, f, r)
    \/ lost /\ Older(t, f, 0)
Placed ==
    \A a \in Aliases : Registered(a) =>
        PlaceIn(taken[a], disk[cursor[a].inode], Reached(a), cursor[a].inode \in cut)

\* The history: the numbers of its lines grow, a result is later than its use.
Growing(t, m) ==
    \A k \in 1 .. Len(t) :
        /\ t[k].no \in 1 .. m
        /\ \A j \in 1 .. k - 1 : t[j].no < t[k].no
        /\ t[k].use = 0 \/ \E j \in 1 .. k - 1 : t[j].no = t[k].use
Told == taken \in Histories /\ \A a \in Aliases : Growing(taken[a], Len(lines))

\* A use in the pool was read, and no result was paired with it.
ReadOf(t, n) == /\ \E j \in 1 .. Len(t) : t[j].no = n /\ t[j].as = "read"
                /\ \A j \in 1 .. Len(t) : t[j].use # n
Waiting ==
    \A u \in pending :
        /\ Registered(u.alias)
        /\ u.no \in 1 .. Len(lines) /\ lines[u.no].kind = "use" /\ lines[u.no].use = u.use
        /\ ReadOf(taken[u.alias], u.no)

ReaderIInv ==
    /\ FilesTyped /\ CursorsTyped /\ ReadTyped /\ PoolTyped /\ FilesWritten /\ ChunkPlaced /\ Placed
    /\ Told /\ Waiting /\ CorrectionsPaired /\ EveryLineOnce

\* Every line up to the place r, and no other, is in the history t, in order.
Accounted(t, f, r) ==
    /\ r \in Ends(f) \cup {0}
    /\ {t[k].end : k \in 1 .. Len(t)} = {e \in Ends(f) : e <= r}
    /\ \A k \in 1 .. Len(t) : /\ t[k].no = f[t[k].end].no
                              /\ \A j \in 1 .. k - 1 : t[j].end < t[k].end

------------------------------------------------------------------------------
(* A file that grew: from f to g, while the lines begun went from m to n.   *)
Grown(f, g, m, n) ==
    /\ g \in Seq(Units) /\ Len(f) <= Len(g)
    /\ \A p \in 1 .. Len(f) : g[p] = f[p]
    /\ \A p \in Len(f) + 1 .. Len(g) :
          /\ g[p].no \in 1 .. n /\ g[p].no = g[Len(g)].no /\ (g[p].last => p = Len(g))
          /\ \/ g[p].no > m /\ (Len(f) = 0 \/ f[Len(f)].last)
             \/ Len(f) > 0 /\ ~f[Len(f)].last /\ g[p].no = f[Len(f)].no

\* A file that grew is written as it was.
LEMMA GrownWritten ==
    ASSUME NEW m \in Nat, NEW n \in Nat, m <= n, NEW f, NEW g, Written(f, m), Grown(f, g, m, n)
    PROVE  Written(g, n)
<1> DEFINE F == Len(f)
<1> DEFINE G == Len(g)
<1>1. /\ f \in Seq(Units) /\ g \in Seq(Units) /\ F \in Nat /\ G \in Nat /\ F <= G
      /\ \A p \in 1 .. F : g[p] = f[p] /\ f[p] \in Units
      /\ \A p \in 1 .. G : g[p] \in Units
  BY LenProperties, ElementOfSeq DEF Written, Grown
<1>2. \A p \in 1 .. G : p \in 1 .. F \/ p \in F + 1 .. G
  BY <1>1
<1>3. \A p \in 1 .. G : g[p].no \in 1 .. n
  <2>1. \A p \in 1 .. F : f[p].no \in 1 .. m
    BY DEF Written
  <2>2. \A p \in F + 1 .. G : g[p].no \in 1 .. n
    BY DEF Grown
  <2> HIDE DEF F, G
  <2> QED BY <2>1, <2>2, <1>1, <1>2
<1>4. \A p, q \in 1 .. F : /\ p < q => g[p].no <= g[q].no
                           /\ p < q /\ g[p].last => g[p].no < g[q].no
                           /\ p <= q /\ (\A r \in p .. q - 1 : ~g[r].last) => g[q].no = g[p].no
  <2> TAKE p, q \in 1 .. F
  <2>1. \A r \in p .. q - 1 : g[r] = f[r]
    BY <1>1
  <2> QED BY <1>1, <2>1 DEF Written
<1>5. \A p \in 1 .. F, q \in F + 1 .. G :
          /\ g[p].no <= g[q].no
          /\ g[p].last => g[p].no < g[q].no
          /\ (\A r \in p .. q - 1 : ~g[r].last) => g[q].no = g[p].no
  <2> TAKE p \in 1 .. F, q \in F + 1 .. G
  <2>0. /\ p \in 1 .. G /\ q \in 1 .. G /\ F \in 1 .. F /\ F \in p .. q - 1 /\ F > 0
        /\ g[F] = f[F] /\ g[p] = f[p] /\ g[p] \in Units /\ g[q] \in Units /\ g[F] \in Units
    BY <1>1
  <2>1. CASE g[q].no > m /\ f[F].last
    <3>1. f[p].no \in 1 .. m /\ g[q].no \in Nat
      BY <2>0 DEF Written, Units
    <3> QED BY <2>0, <2>1, <3>1
  <2>2. CASE ~f[F].last /\ g[q].no = f[F].no
    <3>1. g[p].no <= g[q].no
      BY <2>0, <2>2, <1>4 DEF Units
    <3>2. g[p].last => g[p].no < g[q].no
      BY <2>0, <2>2, <1>4
    <3>3. ASSUME \A r \in p .. q - 1 : ~g[r].last PROVE g[q].no = g[p].no
      <4>1. \A r \in p .. F - 1 : ~g[r].last
        BY <3>3, <2>0, <1>1
      <4> QED BY <4>1, <1>4, <2>0, <2>2
    <3> QED BY <3>1, <3>2, <3>3
  <2> QED BY <2>1, <2>2, <2>0 DEF Grown
<1>6. \A p, q \in F + 1 .. G : /\ g[p].no = g[q].no
                               /\ p < q => ~g[p].last
  BY <1>1 DEF Grown
<1>7. \A p, q \in 1 .. G : /\ p < q => g[p].no <= g[q].no
                           /\ p < q /\ g[p].last => g[p].no < g[q].no
                           /\ p <= q /\ (\A r \in p .. q - 1 : ~g[r].last) => g[q].no = g[p].no
  <2> TAKE p, q \in 1 .. G
  <2>1. CASE p \in 1 .. F /\ q \in 1 .. F
    BY <2>1, <1>4
  <2>2. CASE p \in 1 .. F /\ q \in F + 1 .. G
    BY <2>2, <1>5
  <2>3. CASE p \in F + 1 .. G /\ q \in F + 1 .. G
    BY <2>3, <1>6, <1>1 DEF Units
  <2>4. CASE p \in F + 1 .. G /\ q \in 1 .. F
    BY <2>4, <1>1
  <2> QED BY <2>1, <2>2, <2>3, <2>4, <1>2
<1> QED BY <1>1, <1>3, <1>7 DEF Written

\* What the reader holds of a file is in it yet when it grew.
LEMMA GrownChunk ==
    ASSUME NEW m \in Nat, NEW n \in Nat, m <= n, NEW f, NEW g, NEW c, NEW o \in Nat, NEW lost \in BOOLEAN,
           Written(f, m), Written(c, m), Grown(f, g, m, n), ChunkIn(c, f, o, lost)
    PROVE  ChunkIn(c, g, o, lost)
<1>1. /\ f \in Seq(Units) /\ g \in Seq(Units) /\ c \in Seq(Units) /\ Len(f) <= Len(g)
      /\ Len(f) \in Nat /\ Len(g) \in Nat /\ Len(c) \in Nat
      /\ \A p \in 1 .. Len(f) : g[p] = f[p]
      /\ \A q \in 1 .. Len(c) : c[q].no \in 1 .. m
  BY LenProperties DEF Written, Grown
<1>2. CASE InFile(c, f, o)
  <2>1. \A q \in 1 .. Len(c) : o + q \in 1 .. Len(f) /\ f[o + q] = c[q]
    BY <1>1, <1>2 DEF InFile
  <2> QED BY <2>1, <1>1 DEF InFile, ChunkIn
<1>3. CASE lost /\ Newer(c, f)
  <2>1. ASSUME NEW q \in 1 .. Len(c), NEW p \in 1 .. Len(g) PROVE c[q].no < g[p].no
    <3>1. CASE p \in 1 .. Len(f)
      BY <3>1, <1>3, <1>1 DEF Newer
    <3>2. CASE p \in Len(f) + 1 .. Len(g)
      <4>1. CASE g[p].no > m
        BY <4>1, <1>1, <3>2 DEF Grown
      <4>2. CASE Len(f) > 0 /\ g[p].no = f[Len(f)].no
        <5>1. Len(f) \in 1 .. Len(f)
          BY <4>2, <1>1
        <5> QED BY <5>1, <4>2, <1>3 DEF Newer
      <4> QED BY <4>1, <4>2, <3>2 DEF Grown
    <3> QED BY <3>1, <3>2, <1>1
  <2> QED BY <2>1, <1>3 DEF Newer, ChunkIn
<1> QED BY <1>2, <1>3 DEF ChunkIn

\* What was accounted for stays older than what was not when the file grew.
LEMMA GrownPlace ==
    ASSUME NEW m \in Nat, NEW n \in Nat, m <= n, NEW f, NEW g, NEW t, NEW r \in Nat, NEW lost \in BOOLEAN,
           Written(f, m), Growing(t, m), Grown(f, g, m, n), PlaceIn(t, f, r, lost)
    PROVE  PlaceIn(t, g, r, lost)
<1>1. /\ f \in Seq(Units) /\ g \in Seq(Units) /\ Len(f) <= Len(g)
      /\ Len(f) \in Nat /\ Len(g) \in Nat
      /\ \A p \in 1 .. Len(f) : g[p] = f[p]
      /\ \A q \in 1 .. Len(t) : t[q].no \in 1 .. m
  BY LenProperties DEF Written, Grown, Growing
<1>2. ASSUME NEW s \in Nat, Older(t, f, s), s < Len(f) \/ Len(f) = 0 \/ f[Len(f)].last
      PROVE  Older(t, g, s)
  <2>1. ASSUME NEW k \in 1 .. Len(t), NEW p \in s + 1 .. Len(g) PROVE t[k].no < g[p].no
    <3>1. CASE p <= Len(f)
      <4>1. p \in s + 1 .. Len(f) /\ p \in 1 .. Len(f)
        BY <3>1, <1>1
      <4> QED BY <4>1, <1>2, <1>1 DEF Older
    <3>2. CASE p \in Len(f) + 1 .. Len(g)
      <4>1. CASE g[p].no > m
        BY <4>1, <1>1, <3>2 DEF Grown
      <4>2. CASE Len(f) > 0 /\ ~f[Len(f)].last /\ g[p].no = f[Len(f)].no
        <5>1. Len(f) \in s + 1 .. Len(f)
          BY <4>2, <1>1, <1>2
        <5> QED BY <5>1, <4>2, <1>2 DEF Older
      <4> QED BY <4>1, <4>2, <3>2 DEF Grown
    <3> QED BY <3>1, <3>2, <1>1
  <2> QED BY <2>1 DEF Older
<1>3. CASE r \in Ends(f) \cup {0} /\ Older(t, f, r)
  <2>1. r <= Len(f) /\ (r < Len(f) \/ Len(f) = 0 \/ f[Len(f)].last)
    BY <1>1, <1>3 DEF Ends
  <2>2. r \in Ends(g) \cup {0}
    BY <1>1, <1>3 DEF Ends
  <2> QED BY <1>2, <1>3, <2>1, <2>2 DEF PlaceIn
<1>4. CASE lost /\ Older(t, f, 0)
  BY <1>2, <1>4, <1>1 DEF PlaceIn
<1> QED BY <1>3, <1>4 DEF PlaceIn

\* A history that had every line up to a place has it when the file grew.
LEMMA GrownAccounted ==
    ASSUME NEW m, NEW n, NEW f, NEW g, NEW t, NEW r \in Nat,
           f \in Seq(Units), Grown(f, g, m, n), Accounted(t, f, r)
    PROVE  Accounted(t, g, r)
<1>1. /\ g \in Seq(Units) /\ Len(f) <= Len(g) /\ Len(f) \in Nat /\ Len(g) \in Nat
      /\ \A p \in 1 .. Len(f) : g[p] = f[p]
  BY LenProperties DEF Grown
<1>2. r <= Len(f)
  BY <1>1 DEF Accounted, Ends
<1>3. {e \in Ends(f) : e <= r} = {e \in Ends(g) : e <= r}
  BY <1>1, <1>2 DEF Ends
<1>4. \A k \in 1 .. Len(t) : t[k].end \in {e \in Ends(f) : e <= r}
  BY DEF Accounted
<1>5. \A k \in 1 .. Len(t) : g[t[k].end] = f[t[k].end]
  BY <1>4, <1>1 DEF Ends
<1>6. r \in Ends(g) \cup {0}
  BY <1>1 DEF Accounted, Ends
<1> QED BY <1>3, <1>5, <1>6 DEF Accounted

------------------------------------------------------------------------------
(* The chunk, a line that is accounted for, a line longer than a chunk.     *)

\* A chunk is written as its file is, lies in it, and is no longer than asked for.
LEMMA ChunkTaken ==
    ASSUME NEW f, NEW m \in Nat, Written(f, m), NEW o \in Nat, NEW b \in Nat, NEW c,
           c = SubSeq(f, o + 1, IF o + b < Len(f) THEN o + b ELSE Len(f))
    PROVE  Written(c, m) /\ Len(c) <= b /\ InFile(c, f, o)
<1> DEFINE e == IF o + b < Len(f) THEN o + b ELSE Len(f)
<1>0. f \in Seq(Units) /\ Len(f) \in Nat /\ e \in Nat /\ e <= Len(f) /\ e <= o + b
  BY LenProperties DEF Written
<1>1. /\ c \in Seq(Units)
      /\ Len(c) = IF o + 1 <= e THEN e - o ELSE 0
      /\ \A q \in 1 .. Len(c) : c[q] = f[o + q]
  <2> HIDE DEF e
  <2>1. c = SubSeq(f, o + 1, e)
    BY DEF e
  <2>2. o + 1 \in Int /\ e \in Int /\ \A q \in o + 1 .. e : f[q] \in Units
    BY <1>0, ElementOfSeq
  <2>3. /\ SubSeq(f, o + 1, e) \in Seq(Units)
        /\ Len(SubSeq(f, o + 1, e)) = IF o + 1 <= e THEN e - (o + 1) + 1 ELSE 0
        /\ \A q \in 1 .. e - (o + 1) + 1 : SubSeq(f, o + 1, e)[q] = f[(o + 1) + q - 1]
    BY <2>2, SubSeqProperties
  <2>4. Len(c) = IF o + 1 <= e THEN e - o ELSE 0
    BY <2>1, <2>3, <1>0
  <2>5. ASSUME NEW q \in 1 .. Len(c) PROVE c[q] = f[o + q]
    <3>1. q \in 1 .. e - (o + 1) + 1 /\ (o + 1) + q - 1 = o + q
      BY <2>4, <1>0
    <3> QED BY <3>1, <2>1, <2>3
  <2> QED BY <2>1, <2>3, <2>4, <2>5
<1>2. Len(c) \in Nat /\ Len(c) <= b /\ \A q \in 1 .. Len(c) : o + q \in 1 .. Len(f)
  <2> HIDE DEF e
  <2> QED BY <1>0, <1>1
<1> HIDE DEF e
<1>3. InFile(c, f, o)
  BY <1>1, <1>2 DEF InFile
<1>5. \A p \in 1 .. Len(c) : c[p].no \in 1 .. m
  BY <1>1, <1>2 DEF Written
<1>6. ASSUME NEW p \in 1 .. Len(c), NEW q \in 1 .. Len(c)
      PROVE  /\ p < q => c[p].no <= c[q].no
             /\ p < q /\ c[p].last => c[p].no < c[q].no
             /\ p <= q /\ (\A r \in p .. q - 1 : ~c[r].last) => c[q].no = c[p].no
  <2>1. /\ c[p] = f[o + p] /\ c[q] = f[o + q] /\ o + p \in 1 .. Len(f) /\ o + q \in 1 .. Len(f)
    BY <1>1, <1>2
  <2>0. (p < q <=> o + p < o + q) /\ (p <= q <=> o + p <= o + q)
    OBVIOUS
  <2>2. ASSUME \A r \in p .. q - 1 : ~c[r].last PROVE \A r \in o + p .. o + q - 1 : ~f[r].last
    <3> TAKE r \in o + p .. o + q - 1
    <3>1. r - o \in p .. q - 1 /\ r - o \in 1 .. Len(c) /\ o + (r - o) = r
      BY <1>2
    <3> QED BY <3>1, <2>2, <1>1
  <2>3. /\ o + p < o + q => f[o + p].no <= f[o + q].no
        /\ o + p < o + q /\ f[o + p].last => f[o + p].no < f[o + q].no
        /\ o + p <= o + q /\ (\A r \in o + p .. o + q - 1 : ~f[r].last) => f[o + q].no = f[o + p].no
    <3> DEFINE x == o + p
    <3> DEFINE y == o + q
    <3>1. x \in 1 .. Len(f) /\ y \in 1 .. Len(f)
      BY <2>1
    <3> HIDE DEF x, y
    <3>2. /\ x < y => f[x].no <= f[y].no
          /\ x < y /\ f[x].last => f[x].no < f[y].no
          /\ x <= y /\ (\A r \in x .. y - 1 : ~f[r].last) => f[y].no = f[x].no
      BY <3>1 DEF Written
    <3> QED BY <3>2 DEF x, y
  <2> QED BY <2>0, <2>1, <2>2, <2>3
<1>7. Written(c, m)
  BY <1>1, <1>5, <1>6 DEF Written
<1> QED BY <1>2, <1>3, <1>7

\* What is older than the file behind the offset is older than the chunk.
LEMMA ChunkOlder ==
    ASSUME NEW f, NEW c \in Seq(Units), NEW o \in Nat, NEW t, f \in Seq(Units), InFile(c, f, o),
           Older(t, f, o)
    PROVE  Older(t, c, 0)
<1>1. Len(c) \in Nat /\ Len(f) \in Nat
  BY LenProperties
<1>2. \A q \in 0 + 1 .. Len(c) : o + q \in o + 1 .. Len(f) /\ c[q] = f[o + q]
  BY <1>1 DEF InFile
<1> QED BY <1>2 DEF Older

\* The history grows by an entry: what one more means for its parts.
LEMMA OneMore ==
    ASSUME NEW t \in Seq(Entries), NEW e \in Entries
    PROVE  /\ Append(t, e) \in Seq(Entries) /\ Len(t) \in Nat /\ Len(Append(t, e)) = Len(t) + 1
           /\ \A k \in 1 .. Len(t) : Append(t, e)[k] = t[k]
           /\ Append(t, e)[Len(t) + 1] = e
           /\ 1 .. Len(t) + 1 = (1 .. Len(t)) \cup {Len(t) + 1}
BY AppendProperties, LenProperties

\* It stays growing when the line is newer and its use was read.
LEMMA MoreGrowing ==
    ASSUME NEW t \in Seq(Entries), NEW e \in Entries, NEW m \in Nat, Growing(t, m), e.no \in 1 .. m,
           \A k \in 1 .. Len(t) : t[k].no < e.no,
           e.use = 0 \/ \E j \in 1 .. Len(t) : t[j].no = e.use
    PROVE  Growing(Append(t, e), m)
<1> DEFINE v == Append(t, e)
<1>1. /\ Len(v) = Len(t) + 1 /\ Len(t) \in Nat /\ v[Len(t) + 1] = e
      /\ \A k \in 1 .. Len(t) : v[k] = t[k]
  BY OneMore
<1>2. ASSUME NEW k \in 1 .. Len(v)
      PROVE  /\ v[k].no \in 1 .. m
             /\ \A j \in 1 .. k - 1 : v[j].no < v[k].no
             /\ v[k].use = 0 \/ \E j \in 1 .. k - 1 : v[j].no = v[k].use
  <2>1. CASE k \in 1 .. Len(t)
    <3>1. \A j \in 1 .. k - 1 : v[j] = t[j]
      BY <2>1, <1>1
    <3> HIDE DEF v
    <3> QED BY <3>1, <2>1, <1>1 DEF Growing
  <2>2. CASE k = Len(t) + 1
    <3>1. 1 .. k - 1 = 1 .. Len(t)
      BY <2>2, <1>1
    <3> HIDE DEF v
    <3> QED BY <3>1, <2>2, <1>1
  <2> QED BY <2>1, <2>2, <1>1
<1> QED BY <1>2 DEF Growing

\* What is not newer than its lines stays older than a file behind the new place.
LEMMA MoreOlder ==
    ASSUME NEW t \in Seq(Entries), NEW e \in Entries, NEW f, NEW r \in Nat, NEW s \in Nat, r <= s,
           Len(f) \in Nat, Older(t, f, r), \A p \in s + 1 .. Len(f) : e.no < f[p].no
    PROVE  Older(Append(t, e), f, s)
<1> DEFINE v == Append(t, e)
<1>1. /\ Len(v) = Len(t) + 1 /\ Len(t) \in Nat /\ v[Len(t) + 1] = e
      /\ \A k \in 1 .. Len(t) : v[k] = t[k]
  BY OneMore
<1>2. \A p \in s + 1 .. Len(f) : p \in r + 1 .. Len(f)
  OBVIOUS
<1>3. ASSUME NEW k \in 1 .. Len(v), NEW p \in s + 1 .. Len(f) PROVE v[k].no < f[p].no
  <2>1. CASE k \in 1 .. Len(t)
    BY <2>1, <1>1, <1>2 DEF Older
  <2>2. CASE k = Len(t) + 1
    BY <2>2, <1>1
  <2> QED BY <2>1, <2>2, <1>1
<1> QED BY <1>3 DEF Older

\* The next line of a file is accounted for: no other is in between.
LEMMA MoreAccounted ==
    ASSUME NEW t \in Seq(Entries), NEW e \in Entries, NEW f, NEW r \in Nat, f \in Seq(Units),
           Accounted(t, f, r), e.end \in Ends(f), r < e.end, e.no = f[e.end].no,
           \A p \in r + 1 .. e.end - 1 : p \notin Ends(f)
    PROVE  Accounted(Append(t, e), f, e.end)
<1> DEFINE v == Append(t, e)
<1>1. /\ Len(v) = Len(t) + 1 /\ Len(t) \in Nat /\ v[Len(t) + 1] = e
      /\ \A k \in 1 .. Len(t) : v[k] = t[k]
      /\ 1 .. Len(v) = (1 .. Len(t)) \cup {Len(t) + 1}
  BY OneMore
<1>2. Ends(f) \subseteq Nat /\ e.end \in Nat
  BY LenProperties DEF Ends
<1>3. {x \in Ends(f) : x <= e.end} = {x \in Ends(f) : x <= r} \cup {e.end}
  BY <1>2
<1>4. {v[k].end : k \in 1 .. Len(v)} = {t[k].end : k \in 1 .. Len(t)} \cup {e.end}
  <2> HIDE DEF v
  <2> QED BY <1>1
<1>5. \A k \in 1 .. Len(t) : t[k].end <= r
  <2> TAKE k \in 1 .. Len(t)
  <2>1. t[k].end \in {x \in Ends(f) : x <= r}
    BY DEF Accounted
  <2> QED BY <2>1
<1>6. ASSUME NEW k \in 1 .. Len(v)
      PROVE  /\ v[k].no = f[v[k].end].no
             /\ \A j \in 1 .. k - 1 : v[j].end < v[k].end
  <2>1. CASE k \in 1 .. Len(t)
    <3>1. \A j \in 1 .. k - 1 : v[j] = t[j]
      BY <2>1, <1>1
    <3> HIDE DEF v
    <3> QED BY <3>1, <2>1, <1>1 DEF Accounted
  <2>2. CASE k = Len(t) + 1
    <3>1. 1 .. k - 1 = 1 .. Len(t)
      BY <2>2, <1>1
    <3>2. ASSUME NEW j \in 1 .. Len(t) PROVE t[j].end \in Nat
      <4>1. t[j] \in Entries
        BY ElementOfSeq
      <4> QED BY <4>1 DEF Entries
    <3> HIDE DEF v
    <3> QED BY <3>1, <3>2, <2>2, <1>1, <1>2, <1>5
  <2> QED BY <2>1, <2>2, <1>1
<1> HIDE DEF v
<1>7. {v[k].end : k \in 1 .. Len(v)} = {x \in Ends(f) : x <= e.end}
  BY <1>3, <1>4 DEF Accounted
<1> QED BY <1>6, <1>7 DEF Accounted, v

\* A line behind the place r that ends at k: its number is that of its first unit, and
\* what is behind its end is newer.
LEMMA OneLine ==
    ASSUME NEW f, NEW m \in Nat, Written(f, m), NEW r \in Nat, NEW k \in r + 1 .. Len(f), f[k].last
    PROVE  /\ r + 1 \in 1 .. Len(f) /\ f[r + 1].no \in 1 .. m
           /\ f[r + 1].no <= f[k].no
           /\ \A p \in k + 1 .. Len(f) : f[r + 1].no < f[p].no
           /\ (\A p \in r + 1 .. k - 1 : ~f[p].last) => f[k].no = f[r + 1].no
<1>1. Len(f) \in Nat /\ r + 1 \in 1 .. Len(f) /\ k \in 1 .. Len(f)
  BY LenProperties DEF Written
<1>2. \A p \in 1 .. Len(f) : f[p].no \in Nat /\ f[p].no \in 1 .. m
  BY DEF Written
<1>3. f[r + 1].no <= f[k].no
  BY <1>1, <1>2 DEF Written
<1>4. ASSUME NEW p \in k + 1 .. Len(f) PROVE f[r + 1].no < f[p].no
  <2>1. p \in 1 .. Len(f) /\ k < p
    BY <1>1
  <2>2. f[k].no < f[p].no
    BY <2>1, <1>1 DEF Written
  <2> QED BY <2>1, <2>2, <1>1, <1>2, <1>3
<1>5. (\A p \in r + 1 .. k - 1 : ~f[p].last) => f[k].no = f[r + 1].no
  BY <1>1 DEF Written
<1> QED BY <1>1, <1>2, <1>3, <1>4, <1>5

------------------------------------------------------------------------------
(* Factory's steps: every file grew, or was cut to nothing.                 *)
Writes ==
    /\ lines' \in Seq(Lines) /\ Len(lines) <= Len(lines')
    /\ \A k \in 1 .. Len(lines) : lines'[k] = lines[k]
    /\ disk' \in [Inodes -> Seq(Units)] /\ path' \in [Aliases -> Inodes \cup {Gone}]
    /\ cut \subseteq cut'
    /\ \A i \in Inodes : \/ Grown(disk[i], disk'[i], Len(lines), Len(lines'))
                         \/ disk'[i] = <<>> /\ i \in cut'
    /\ UNCHANGED transcripts

\* Units of one line, the last of which may end it, behind an end or to finish the line.
LEMMA GrownBy ==
    ASSUME NEW f \in Seq(Units), NEW w \in Seq(Units), NEW m \in Nat, NEW n \in Nat, NEW no \in 1 .. n,
           \A j \in 1 .. Len(w) : w[j].no = no /\ (w[j].last => j = Len(w)),
           \/ no > m /\ (Len(f) = 0 \/ f[Len(f)].last)
           \/ Len(f) > 0 /\ ~f[Len(f)].last /\ no = f[Len(f)].no
    PROVE  Grown(f, f \o w, m, n)
<1> DEFINE g == f \o w
<1>1. /\ g \in Seq(Units) /\ Len(g) = Len(f) + Len(w) /\ Len(f) \in Nat /\ Len(w) \in Nat
      /\ \A i \in 1 .. Len(g) : g[i] = IF i <= Len(f) THEN f[i] ELSE w[i - Len(f)]
  BY ConcatProperties, LenProperties
<1> HIDE DEF g
<1>2. ASSUME NEW p \in Len(f) + 1 .. Len(g)
      PROVE  g[p].no = no /\ (g[p].last => p = Len(g))
  <2> DEFINE j == p - Len(f)
  <2>1. g[p] = w[j] /\ j \in 1 .. Len(w) /\ (j = Len(w) => p = Len(g))
    BY <1>1
  <2> HIDE DEF j
  <2> QED BY <2>1
<1>3. \A p \in Len(f) + 1 .. Len(g) : Len(g) \in Len(f) + 1 .. Len(g)
  BY <1>1
<1>4. \A p \in Len(f) + 1 .. Len(g) : g[p].no \in 1 .. n /\ g[p].no = g[Len(g)].no
  BY <1>2, <1>3
<1>5. \A p \in 1 .. Len(f) : g[p] = f[p]
  BY <1>1
<1>6. Grown(f, g, m, n)
  BY <1>1, <1>2, <1>4, <1>5 DEF Grown
<1> QED BY <1>6 DEF g

LEMMA UnitsTyped ==
    ASSUME NEW no \in Nat, NEW nth \in Nat, NEW c \in BOOLEAN,
           NEW u, u = [no |-> no, nth |-> nth, last |-> c]
    PROVE  u \in Units /\ u.no = no /\ (u.last => c)
BY DEF Units

LEMMA UnitsSeq ==
    ASSUME NEW k \in Nat, NEW w \in [1 .. k -> Units] PROVE w \in Seq(Units) /\ Len(w) = k
BY SeqDef, LenProperties

LEMMA GrownNot == ASSUME NEW f \in Seq(Units), NEW m, NEW n PROVE Grown(f, f, m, n)
BY LenProperties DEF Grown

LEMMA WriterWrites ==
    ASSUME FilesTyped, FilesWritten, Writer PROVE Writes
<1> USE DEF FilesTyped
<1>0. /\ Len(lines) \in Nat /\ \A i \in Inodes : disk[i] \in Seq(Units) /\ Size(i) \in Nat
      /\ \A i \in Inodes : Grown(disk[i], disk[i], Len(lines), Len(lines))
      /\ \A a \in Aliases : path[a] # Gone => path[a] \in Inodes
  BY LenProperties, GrownNot DEF Size
<1>1. ASSUME NEW a \in Aliases, Create(a) PROVE Writes
  BY <1>0, <1>1 DEF Create, Writes, Fresh
<1>2. ASSUME NEW a \in Aliases, Mischance(a) PROVE Writes
  <2>1. CASE /\ \/ \E i \in Inodes : path' = [path EXCEPT ![a] = i]
                \/ path' = [path EXCEPT ![a] = Gone]
                \/ \E b \in Aliases : path' = [path EXCEPT ![a] = path[b]]
             /\ UNCHANGED <<disk, cut>>
    BY <1>0, <1>2, <2>1 DEF Mischance, Writes
  <2>2. CASE disk' = [disk EXCEPT ![path[a]] = <<>>] /\ cut' = cut \cup {path[a]} /\ UNCHANGED path
    <3>1. path[a] \in Inodes /\ UNCHANGED lines /\ UNCHANGED transcripts
      BY <1>0, <1>2 DEF Mischance
    <3>2. disk' \in [Inodes -> Seq(Units)] /\ disk'[path[a]] = <<>>
          /\ \A i \in Inodes \ {path[a]} : disk'[i] = disk[i]
      BY <3>1, <2>2, EmptySeq
    <3> QED BY <3>1, <3>2, <2>2, <1>0 DEF Writes
  <2> QED BY <1>2, <2>1, <2>2 DEF Mischance, Fresh
<1>3. ASSUME NEW a \in Aliases, NEW l \in Lines, Begin(a, l) PROVE Writes
  <2> DEFINE N == Len(lines) + 1
  <2>1. /\ path[a] \in Inodes /\ lines' = Append(lines, l) /\ UNCHANGED <<path, cut, transcripts>>
        /\ ~Broken(path[a]) /\ l.size \in Nat \ {0}
    BY <1>0, <1>3, ReaderAssumption DEF Begin
  <2>2. /\ lines' \in Seq(Lines) /\ Len(lines') = N /\ lines'[N] = l
        /\ \A k \in 1 .. Len(lines) : lines'[k] = lines[k]
    BY <2>1, AppendProperties
  <2>3. PICK k \in {1, l.size} :
            disk' = [disk EXCEPT ![path[a]] = @ \o [j \in 1 .. k |-> Unit(N, j)]]
    BY <1>3 DEF Begin
  <2> DEFINE w == [j \in 1 .. k |-> Unit(N, j)]
  <2>4. k \in Nat /\ k <= l.size
    BY <2>1
  <2>5. \A j \in 1 .. k : Unit(N, j) = [no |-> N, nth |-> j, last |-> j = l.size]
    BY <2>2 DEF Unit
  <2>6. /\ w \in Seq(Units) /\ Len(w) = k
        /\ \A j \in 1 .. Len(w) : w[j].no = N /\ (w[j].last => j = Len(w))
    <3>0. N \in Nat /\ l.size \in Nat
      BY <2>1, <1>0
    <3> HIDE DEF N
    <3>1. \A j \in 1 .. k : w[j] = [no |-> N, nth |-> j, last |-> j = l.size]
      BY <2>5
    <3>2. ASSUME NEW j \in 1 .. k PROVE w[j] \in Units /\ w[j].no = N /\ (w[j].last => j = l.size)
      <4> DEFINE c == (j = l.size)
      <4>1. j \in Nat
        BY <2>4
      <4>2. w[j] = [no |-> N, nth |-> j, last |-> c]
        BY <3>1
      <4>3. c \in BOOLEAN /\ (c => j = l.size)
        OBVIOUS
      <4> HIDE DEF w, c
      <4> QED BY <3>0, <4>1, <4>2, <4>3, UnitsTyped
    <3>3. DOMAIN w = 1 .. k /\ w = [j \in DOMAIN w |-> w[j]]
      OBVIOUS
    <3> HIDE DEF w
    <3>4. w \in [1 .. k -> Units]
      BY <3>2, <3>3
    <3>5. w \in Seq(Units) /\ Len(w) = k
      BY <3>4, <2>4, UnitsSeq
    <3>6. \A j \in 1 .. k : j = l.size => j = k
      BY <2>4, <3>0
    <3> QED BY <3>2, <3>5, <3>6
  <2> HIDE DEF w
  <2>7. Grown(disk[path[a]], disk[path[a]] \o w, Len(lines), Len(lines'))
    <3>1. Len(disk[path[a]]) = 0 \/ disk[path[a]][Len(disk[path[a]])].last
      BY <2>1, <1>0 DEF Broken, Size
    <3>2. N \in 1 .. Len(lines') /\ N > Len(lines) /\ Len(lines') \in Nat
      BY <2>2, <1>0
    <3> QED BY <3>1, <3>2, <2>6, <2>1, <1>0, GrownBy
  <2>8. /\ disk' \in [Inodes -> Seq(Units)] /\ disk'[path[a]] = disk[path[a]] \o w
        /\ \A i \in Inodes \ {path[a]} : disk'[i] = disk[i]
    BY <2>1, <2>3, <2>6, <1>0, ConcatProperties DEF w
  <2>9. \A i \in Inodes \ {path[a]} : Grown(disk[i], disk'[i], Len(lines), Len(lines'))
    BY <2>8, <1>0, GrownNot
  <2>10. \A i \in Inodes : Grown(disk[i], disk'[i], Len(lines), Len(lines'))
    BY <2>7, <2>8, <2>9
  <2>11. Len(lines) <= Len(lines')
    BY <2>2, <1>0
  <2> QED BY <2>1, <2>2, <2>8, <2>10, <2>11, <1>0 DEF Writes
<1>4. ASSUME NEW a \in Aliases, Finish(a) PROVE Writes
  <2> DEFINE i == path[a]
  <2> DEFINE last == disk[i][Size(i)]
  <2> DEFINE k == lines[last.no].size - last.nth
  <2> DEFINE w == [j \in 1 .. k |-> Unit(last.no, last.nth + j)]
  <2>1. /\ i \in Inodes /\ lines' = lines /\ UNCHANGED <<path, cut, transcripts>> /\ Broken(i)
        /\ disk' = [disk EXCEPT ![i] = @ \o w]
    BY <1>0, <1>4 DEF Finish
  <2>2. last \in Units /\ Size(i) > 0 /\ ~last.last
    BY <2>1, <1>0, ElementOfSeq DEF Broken, Size
  <2>3. last.no \in 1 .. Len(lines) /\ last = disk[i][Len(disk[i])]
    <3>1. Size(i) \in 1 .. Len(disk[i]) /\ last = disk[i][Len(disk[i])]
      BY <2>1, <2>2, <1>0 DEF Size
    <3>2. \A p \in 1 .. Len(disk[i]) : disk[i][p].no \in 1 .. Len(lines)
      BY <2>1 DEF FilesWritten, Written
    <3> QED BY <3>1, <3>2
  <2>4. last.no \in Nat /\ last.nth \in Nat /\ lines[last.no].size \in Nat /\ k \in Int
    <3>1. lines[last.no] \in Lines
      BY <2>3, ElementOfSeq
    <3> HIDE DEF last
    <3> QED BY <3>1, <2>2, ReaderAssumption DEF Units
  <2>5. \A j \in 1 .. k : Unit(last.no, last.nth + j)
                            = [no |-> last.no, nth |-> last.nth + j, last |-> j = k]
    <3> HIDE DEF last
    <3> QED BY <2>1, <2>4 DEF Unit
  <2>6. /\ w \in Seq(Units)
        /\ \A j \in 1 .. Len(w) : w[j].no = last.no /\ (w[j].last => j = Len(w))
    <3> HIDE DEF last
    <3>1. CASE k \in Nat
      <4>1. \A j \in 1 .. k : w[j] = [no |-> last.no, nth |-> last.nth + j, last |-> j = k]
        BY <2>5
      <4>4. DOMAIN w = 1 .. k /\ w = [j \in DOMAIN w |-> w[j]]
        OBVIOUS
      <4> HIDE DEF k, w
      <4>5. ASSUME NEW j \in 1 .. k
            PROVE  w[j] \in Units /\ w[j].no = last.no /\ (w[j].last => j = k)
        <5> DEFINE c == (j = k)
        <5>1. last.nth + j \in Nat
          BY <2>4, <3>1
        <5>2. w[j] = [no |-> last.no, nth |-> last.nth + j, last |-> c]
          BY <4>1
        <5>3. c \in BOOLEAN /\ (c => j = k)
          OBVIOUS
        <5> HIDE DEF c
        <5> QED BY <2>4, <5>1, <5>2, <5>3, UnitsTyped
      <4>2. w \in [1 .. k -> Units]
        BY <4>4, <4>5
      <4>3. w \in Seq(Units) /\ Len(w) = k
        <5> HIDE DEF Units
        <5> QED BY <4>2, <3>1, UnitsSeq
      <4> QED BY <4>5, <4>3
    <3>2. CASE k \notin Nat
      <4>1. 1 .. k = {} /\ 1 .. 0 = {}
        BY <3>2, <2>4
      <4>4. DOMAIN w = 1 .. k /\ w = [j \in DOMAIN w |-> w[j]]
        OBVIOUS
      <4> HIDE DEF k, w
      <4>2. w \in [1 .. 0 -> Units]
        BY <4>1, <4>4
      <4>3. w \in Seq(Units) /\ Len(w) = 0
        BY <4>2, UnitsSeq
      <4> QED BY <4>3
    <3> QED BY <3>1, <3>2
  <2> HIDE DEF w
  <2>7. Grown(disk[i], disk[i] \o w, Len(lines), Len(lines))
    <3>1. Len(disk[i]) > 0 /\ ~disk[i][Len(disk[i])].last
      BY <2>1 DEF Broken, Size
    <3> QED BY <3>1, <2>3, <2>6, <2>1, <1>0, GrownBy
  <2> HIDE DEF i
  <2>8. /\ disk' \in [Inodes -> Seq(Units)] /\ disk'[i] = disk[i] \o w
        /\ \A j \in Inodes \ {i} : disk'[j] = disk[j]
    BY <2>1, <2>6, <1>0, ConcatProperties
  <2> QED BY <2>1, <2>7, <2>8, <1>0 DEF Writes
<1> QED BY <1>1, <1>2, <1>3, <1>4 DEF Writer

\* EveryLineOnce says of each history what Accounted says.
LEMMA KeptAccounted ==
    ASSUME NEW a
    PROVE  LinesKept(a) <=> Accounted(taken[a], disk[cursor[a].inode], Reached(a))
BY DEF LinesKept, Accounted

\* The place a transcript has come to is a number.
LEMMA ReachedTyped ==
    ASSUME CursorsTyped, ReadTyped, NEW a \in Aliases PROVE Reached(a) \in Nat /\ cursor[a].offset \in Nat
<1>1. cursor[a].offset \in Nat /\ read.next \in Nat
  BY DEF CursorsTyped, Cursors, ReadTyped, ReadSet
<1> QED BY <1>1 DEF Reached

LEMMA GrowingOn ==
    ASSUME NEW t, NEW m \in Nat, NEW n \in Nat, m <= n, Growing(t, m) PROVE Growing(t, n)
BY DEF Growing

LEMMA NothingIn ==
    /\ \A n : Written(<<>>, n)
    /\ \A c, o : ChunkIn(c, <<>>, o, TRUE)
    /\ \A t, r : PlaceIn(t, <<>>, r, TRUE)
<1>1. Len(<<>>) = 0 /\ <<>> \in Seq(Units) /\ 1 .. 0 = {} /\ 0 + 1 .. 0 = {}
  BY EmptySeq
<1> QED BY <1>1 DEF Written, ChunkIn, Newer, PlaceIn, Older

\* Whatever Factory and mischances do to the files, what the reader has said of them stands.
LEMMA WriterKeeps ==
    ASSUME ReaderIInv, Writer PROVE ReaderIInv'
<1>1. Writes
  BY WriterWrites DEF ReaderIInv
<1> USE DEF Writes, transcripts
<1> DEFINE m == Len(lines)
<1> DEFINE n == Len(lines')
<1>2. /\ m \in Nat /\ n \in Nat /\ m <= n
      /\ UNCHANGED <<cursor, pending, waits, read, opened, closed, outgrown, taken>>
  BY <1>1, LenProperties DEF ReaderIInv, FilesTyped
<1>3. FilesTyped' /\ CursorsTyped' /\ ReadTyped' /\ PoolTyped'
  <2>1. FilesTyped'
    BY <1>1 DEF FilesTyped
  <2>2. CursorsTyped'
    BY <1>2 DEF ReaderIInv, CursorsTyped, Registered
  <2>3. ReadTyped'
    BY <1>2 DEF ReaderIInv, ReadTyped, Registered
  <2>4. PoolTyped'
    BY <1>2 DEF ReaderIInv, PoolTyped
  <2> QED BY <2>1, <2>2, <2>3, <2>4
<1>4. /\ Written(read.chunk, m)
      /\ \A i \in Inodes : Written(disk[i], m)
      /\ \A i \in Inodes : Grown(disk[i], disk'[i], m, n) \/ (disk'[i] = <<>> /\ i \in cut')
  BY <1>1 DEF ReaderIInv, FilesWritten
<1>5. FilesWritten'
  <2>1. Written(read.chunk, n)
    <3>1. Grown(read.chunk, read.chunk, m, n)
      BY <1>4, GrownNot DEF Written
    <3> QED BY <3>1, <1>2, <1>4, GrownWritten
  <2>2. ASSUME NEW i \in Inodes PROVE Written(disk'[i], n)
    <3>1. CASE Grown(disk[i], disk'[i], m, n)
      BY <3>1, <1>2, <1>4, GrownWritten
    <3>2. CASE disk'[i] = <<>>
      BY <3>2, NothingIn
    <3> QED BY <3>1, <3>2, <1>4
  <2> QED BY <2>1, <2>2, <1>2 DEF FilesWritten
<1>6. ChunkPlaced'
  <2>1. SUFFICES ASSUME read.pc \in {"settle", "lines"}
                 PROVE  LET a == read.alias
                            i == cursor[a].inode
                        IN /\ ChunkIn(read.chunk, disk'[i], cursor[a].offset, i \in cut')
                           /\ Older(taken[a], read.chunk, read.next)
    BY <1>2 DEF ChunkPlaced
  <2> DEFINE a == read.alias
  <2> DEFINE i == cursor[a].inode
  <2>2. /\ a \in Aliases /\ i \in Inodes /\ cursor[a].offset \in Nat
    BY <2>1 DEF ReaderIInv, ReadTyped, CursorsTyped, Cursors
  <2>3. /\ ChunkIn(read.chunk, disk[i], cursor[a].offset, i \in cut)
        /\ Older(taken[a], read.chunk, read.next)
    BY <2>1 DEF ReaderIInv, ChunkPlaced
  <2> HIDE DEF a, i, m, n
  <2>4. CASE Grown(disk[i], disk'[i], m, n)
    <3>1. ChunkIn(read.chunk, disk[i], cursor[a].offset, i \in cut')
      BY <2>3, <1>1 DEF ChunkIn
    <3> DEFINE lost == i \in cut'
    <3>2. lost \in BOOLEAN
      OBVIOUS
    <3> HIDE DEF lost
    <3>3. ChunkIn(read.chunk, disk'[i], cursor[a].offset, lost)
      BY <3>1, <3>2, <2>2, <2>4, <1>2, <1>4, GrownChunk DEF lost
    <3> QED BY <3>3, <2>3 DEF lost, a, i
  <2>5. CASE disk'[i] = <<>> /\ i \in cut'
    <3>1. ChunkIn(read.chunk, disk'[i], cursor[a].offset, i \in cut')
      BY <2>5, NothingIn DEF ChunkIn
    <3> QED BY <3>1, <2>3 DEF a, i
  <2> QED BY <2>2, <2>4, <2>5, <1>4
<1>7. \A a \in Aliases : Growing(taken[a], m)
  BY DEF ReaderIInv, Told
<1>8. Placed'
  <2>1. SUFFICES ASSUME NEW a \in Aliases, Registered(a)
                 PROVE  PlaceIn(taken[a], disk'[cursor[a].inode], Reached(a), cursor[a].inode \in cut')
    BY <1>2 DEF Placed, Registered, Reached
  <2> DEFINE i == cursor[a].inode
  <2>2. i \in Inodes /\ Reached(a) \in Nat
    BY <2>1, ReachedTyped DEF ReaderIInv, CursorsTyped
  <2>3. PlaceIn(taken[a], disk[i], Reached(a), i \in cut)
    BY <2>1 DEF ReaderIInv, Placed
  <2> HIDE DEF i, m, n
  <2>4. CASE Grown(disk[i], disk'[i], m, n)
    <3>1. PlaceIn(taken[a], disk[i], Reached(a), i \in cut')
      BY <2>3, <1>1 DEF PlaceIn
    <3> DEFINE lost == i \in cut'
    <3>2. lost \in BOOLEAN
      OBVIOUS
    <3> HIDE DEF lost
    <3>3. PlaceIn(taken[a], disk'[i], Reached(a), lost)
      BY <3>1, <3>2, <2>2, <2>4, <1>2, <1>4, <1>7, GrownPlace DEF lost
    <3> QED BY <3>3 DEF lost, i
  <2>5. CASE disk'[i] = <<>> /\ i \in cut'
    BY <2>5, NothingIn DEF PlaceIn, i
  <2> QED BY <2>2, <2>4, <2>5, <1>4
<1>9. Told'
  <2> HIDE DEF m, n
  <2>1. \A a \in Aliases : Growing(taken[a], n)
    BY <1>2, <1>7, GrowingOn
  <2> QED BY <2>1, <1>2 DEF ReaderIInv, Told, n
<1>10. Waiting'
  <2>1. \A u \in pending : u.no \in 1 .. m /\ lines'[u.no] = lines[u.no]
    BY <1>1 DEF ReaderIInv, Waiting
  <2> QED BY <2>1, <1>2 DEF ReaderIInv, Waiting, Registered
<1>11. CorrectionsPaired'
  <2>1. SUFFICES ASSUME NEW a \in Aliases, NEW k \in {j \in 1 .. Len(taken[a]) : taken[a][j].as = "correction"}
                 PROVE  LET e == taken[a][k]
                        IN /\ \E j \in 1 .. k - 1 : taken[a][j].no = e.use /\ taken[a][j].as = "read"
                           /\ lines'[e.use].kind = "use" /\ lines'[e.use].use = lines'[e.no].use
                           /\ \A j \in 1 .. k - 1 : taken[a][j].use # e.use
    BY <1>2 DEF CorrectionsPaired
  <2> DEFINE e == taken[a][k]
  <2>2. /\ \E j \in 1 .. k - 1 : taken[a][j].no = e.use /\ taken[a][j].as = "read"
        /\ lines[e.use].kind = "use" /\ lines[e.use].use = lines[e.no].use
        /\ \A j \in 1 .. k - 1 : taken[a][j].use # e.use
    BY DEF ReaderIInv, CorrectionsPaired
  <2>3. taken[a] \in Seq(Entries) /\ k \in 1 .. Len(taken[a])
    BY DEF ReaderIInv, Told, Histories
  <2>4. e.no \in 1 .. m
    BY <1>7, <2>3 DEF Growing
  <2>5. PICK j \in 1 .. k - 1 : taken[a][j].no = e.use
    BY <2>2
  <2>6. j \in 1 .. Len(taken[a])
    BY <2>3, LenProperties
  <2>7. e.use \in 1 .. m
    BY <1>7, <2>5, <2>6 DEF Growing
  <2>8. lines'[e.no] = lines[e.no] /\ lines'[e.use] = lines[e.use]
    BY <2>4, <2>7, <1>1
  <2> QED BY <2>2, <2>8
<1>12. EveryLineOnce'
  <2>1. SUFFICES ASSUME NEW a \in Aliases \ outgrown, Registered(a), cursor[a].inode \notin cut'
                 PROVE  LinesKept(a)'
    BY <1>2 DEF EveryLineOnce, Registered
  <2> DEFINE i == cursor[a].inode
  <2>2. i \in Inodes /\ Reached(a) \in Nat /\ disk[i] \in Seq(Units) /\ i \notin cut
    BY <1>1, <2>1, ReachedTyped DEF ReaderIInv, CursorsTyped, FilesTyped
  <2>3. Accounted(taken[a], disk[i], Reached(a))
    BY <2>1, <2>2, KeptAccounted DEF ReaderIInv, EveryLineOnce
  <2>4. Grown(disk[i], disk'[i], m, n)
    BY <1>4, <2>1, <2>2
  <2> HIDE DEF i, m, n
  <2>5. Accounted(taken[a], disk'[i], Reached(a))
    BY <2>2, <2>3, <2>4, GrownAccounted
  <2> QED BY <2>5, <1>2 DEF LinesKept, Accounted, Reached, i
<1> QED BY <1>3, <1>5, <1>6, <1>8, <1>9, <1>10, <1>11, <1>12 DEF ReaderIInv

------------------------------------------------------------------------------
(* Steps of the reader that account for nothing.                            *)
Unmoved ==
    /\ UNCHANGED <<writer, pending, waits, opened, taken>>
    /\ outgrown \subseteq outgrown' /\ cursor' \in Cursors
    /\ \A b \in Aliases : /\ cursor'[b].inode = cursor[b].inode
                          /\ Registered(b)' <=> Registered(b)
                          /\ Reached(b)' = Reached(b)

LEMMA UnmovedKeeps ==
    ASSUME ReaderIInv, Unmoved
    PROVE  /\ FilesTyped' /\ CursorsTyped' /\ PoolTyped' /\ Placed' /\ Told' /\ Waiting'
           /\ CorrectionsPaired' /\ EveryLineOnce'
<1> USE DEF Unmoved, writer
<1>1. FilesTyped' /\ PoolTyped' /\ Told'
  BY DEF ReaderIInv, FilesTyped, PoolTyped, Told
<1>2. CursorsTyped'
  <2>1. {a \in Aliases : Registered(a)'} = {a \in Aliases : Registered(a)}
    OBVIOUS
  <2>2. opened' = Cardinality({a \in Aliases : Registered(a)})'
    BY <2>1 DEF ReaderIInv, CursorsTyped
  <2>3. \A a \in Aliases : Registered(a)' => cursor'[a].inode \in Inodes
    BY DEF ReaderIInv, CursorsTyped
  <2>4. \A a, b \in Aliases : a # b /\ Registered(a)' => cursor'[a].inode # cursor'[b].inode
    BY DEF ReaderIInv, CursorsTyped
  <2> QED BY <2>2, <2>3, <2>4 DEF CursorsTyped
<1>3. Placed'
  BY DEF ReaderIInv, Placed
<1>4. Waiting'
  <2>1. \A u \in pending : Registered(u.alias)'
    BY DEF ReaderIInv, Waiting, PoolTyped, Uses
  <2> QED BY <2>1 DEF ReaderIInv, Waiting
<1>5. CorrectionsPaired'
  BY DEF ReaderIInv, CorrectionsPaired
<1>6. EveryLineOnce'
  <2>1. SUFFICES ASSUME NEW a \in Aliases \ outgrown', Registered(a)', cursor'[a].inode \notin cut'
                 PROVE  LinesKept(a)'
    BY DEF EveryLineOnce
  <2>2. Accounted(taken[a], disk[cursor[a].inode], Reached(a))
    BY <2>1, KeptAccounted DEF ReaderIInv, EveryLineOnce
  <2>3. Accounted(taken'[a], disk'[cursor'[a].inode], Reached(a)')
    BY <2>2
  <2> QED BY <2>3 DEF LinesKept, Accounted
<1> QED BY <1>1, <1>2, <1>3, <1>4, <1>5, <1>6

\* The next step of a read that holds no chunk, or the end of a read.
Bare(r) == /\ r \in ReadSet /\ r.chunk = <<>> /\ r.next = 0 /\ r.pc \notin {"settle", "lines"}
           /\ r.pc = "idle" => r.alias = Gone

LEMMA BareKeeps ==
    ASSUME Bare(read'), read'.pc # "idle" => read'.alias \in Aliases /\ cursor'[read'.alias] # NoCursor,
           \A i \in Inodes : Written(disk'[i], Len(lines'))
    PROVE  ReadTyped' /\ FilesWritten' /\ ChunkPlaced'
<1>1. Len(<<>>) = 0 /\ 0 <= MAX_TRANSCRIPT_READ_BYTES
  <2>1. Len(<<>>) = 0
    BY EmptySeq
  <2> QED BY <2>1, ReaderAssumption
<1>2. ReadTyped'
  <2>1. (read.pc # "idle" => Registered(read.alias))'
    BY DEF Registered
  <2> QED BY <1>1, <2>1 DEF Bare, ReadTyped
<1>3. FilesWritten'
  BY NothingIn DEF Bare, FilesWritten
<1>4. ChunkPlaced'
  BY DEF Bare, ChunkPlaced
<1> QED BY <1>2, <1>3, <1>4

LEMMA LeaveBare == Bare(NoRead)
<1>1. <<>> \in Seq(Units)
  BY EmptySeq
<1> QED BY <1>1 DEF Bare, NoRead, ReadSet, Pcs

\* A read that neither begins to look at a chunk nor changes a cursor.
LEMMA QuietKeeps ==
    ASSUME ReaderIInv, Bare(read'), UNCHANGED <<writer, cursor, pending, waits, opened, taken>>,
           outgrown \subseteq outgrown', read.next = 0,
           read'.pc # "idle" => read'.alias \in Aliases /\ Registered(read'.alias)
    PROVE  ReaderIInv'
<1>1. Unmoved
  <2>1. \A b \in Aliases : Reached(b)' = Reached(b)
    BY DEF Reached, Bare
  <2>2. cursor' \in Cursors
    BY DEF ReaderIInv, CursorsTyped
  <2> QED BY <2>1, <2>2 DEF Unmoved, Registered
<1>2. \A i \in Inodes : Written(disk'[i], Len(lines'))
  BY DEF ReaderIInv, FilesWritten, writer
<1>3. read'.pc # "idle" => read'.alias \in Aliases /\ cursor'[read'.alias] # NoCursor
  BY DEF Registered
<1> QED BY <1>1, <1>2, <1>3, UnmovedKeeps, BareKeeps DEF ReaderIInv

LEMMA ApproachKeeps ==
    ASSUME ReaderIInv, NEW a \in Aliases, Approach(a) PROVE ReaderIInv'
<1>1. read \in ReadSet /\ read.chunk = <<>> /\ read.next = 0 /\ read.pc = "idle"
  BY DEF ReaderIInv, ReadTyped, Approach
<1>2. Bare(read') /\ read'.alias = a
  BY <1>1 DEF Approach, GoOn, Bare, ReadSet, Pcs
<1> QED BY <1>1, <1>2, QuietKeeps DEF Approach

LEMMA LookKeeps ==
    ASSUME ReaderIInv, NEW a \in Aliases, Look(a) PROVE ReaderIInv'
<1>1. /\ read \in ReadSet /\ read.chunk = <<>> /\ read.next = 0 /\ read.pc = "look"
      /\ read.alias = a /\ Registered(a)
  BY DEF ReaderIInv, ReadTyped, Look
<1>2. CASE Leave
  BY <1>1, <1>2, LeaveBare, QuietKeeps DEF Look, Leave, NoRead
<1>3. CASE GoOn("measure", a) \/ GoOn("reopen", a)
  <2>1. Bare(read') /\ read'.alias = a
    BY <1>1, <1>3 DEF GoOn, Bare, ReadSet, Pcs
  <2> QED BY <1>1, <2>1, QuietKeeps DEF Look
<1> QED BY <1>2, <1>3 DEF Look

LEMMA MeasureKeeps ==
    ASSUME ReaderIInv, NEW a \in Aliases, Measure(a) PROVE ReaderIInv'
<1>1. /\ read \in ReadSet /\ read.chunk = <<>> /\ read.next = 0 /\ read.pc = "measure"
      /\ read.alias = a /\ Registered(a)
  BY DEF ReaderIInv, ReadTyped, Measure
<1>2. CASE Leave
  BY <1>1, <1>2, LeaveBare, QuietKeeps DEF Measure, Leave, NoRead
<1>3. CASE read' = [read EXCEPT !.pc = "chunk", !.size = Size(cursor[a].inode)]
  <2>1. Size(cursor[a].inode) \in Nat
    BY <1>1, LenProperties DEF ReaderIInv, CursorsTyped, FilesTyped, Size
  <2>2. Bare(read') /\ read'.alias = a
    BY <1>1, <1>3, <2>1 DEF Bare, ReadSet, Pcs
  <2> QED BY <1>1, <2>2, QuietKeeps DEF Measure
<1> QED BY <1>2, <1>3 DEF Measure

\* A chunk is taken where the cursor stands.
LEMMA TakeKeeps ==
    ASSUME ReaderIInv, NEW a \in Aliases, Take(a) PROVE ReaderIInv'
<1> DEFINE i == cursor[a].inode
<1> DEFINE o == cursor[a].offset
<1> DEFINE c == Slice(i, o, MAX_TRANSCRIPT_READ_BYTES)
<1>1. /\ read \in ReadSet /\ read.chunk = <<>> /\ read.next = 0 /\ read.pc = "chunk"
      /\ read.alias = a /\ Registered(a)
  BY DEF ReaderIInv, ReadTyped, Take
<1>2. /\ i \in Inodes /\ o \in Nat /\ Written(disk[i], Len(lines)) /\ Len(lines) \in Nat
      /\ MAX_TRANSCRIPT_READ_BYTES \in Nat
  <2>1. Len(lines) \in Nat
    BY LenProperties DEF ReaderIInv, FilesTyped
  <2>2. i \in Inodes /\ o \in Nat
    BY <1>1 DEF ReaderIInv, CursorsTyped, Cursors
  <2> QED BY <2>1, <2>2, ReaderAssumption DEF ReaderIInv, FilesWritten
<1>3. /\ Written(c, Len(lines)) /\ Len(c) <= MAX_TRANSCRIPT_READ_BYTES /\ InFile(c, disk[i], o)
  <2>1. c = SubSeq(disk[i], o + 1, IF o + MAX_TRANSCRIPT_READ_BYTES < Len(disk[i])
                                   THEN o + MAX_TRANSCRIPT_READ_BYTES ELSE Len(disk[i]))
    BY DEF Slice, Size
  <2> DEFINE f == disk[i]
  <2> DEFINE b == MAX_TRANSCRIPT_READ_BYTES
  <2>2. /\ c = SubSeq(f, o + 1, IF o + b < Len(f) THEN o + b ELSE Len(f))
        /\ Written(f, Len(lines)) /\ Len(lines) \in Nat /\ o \in Nat /\ b \in Nat
    BY <2>1, <1>2
  <2> HIDE DEF c, i, o, f, b
  <2>3. Written(c, Len(lines)) /\ Len(c) <= b /\ InFile(c, f, o)
    BY <2>2, ChunkTaken
  <2> QED BY <2>3 DEF f, b
<1>4. /\ read' = [read EXCEPT !.pc = "settle", !.chunk = c]
      /\ UNCHANGED <<writer, cursor, pending, waits, opened, closed, outgrown, taken>>
  BY DEF Take
<1>5. Unmoved
  <2>1. \A b \in Aliases : Reached(b)' = Reached(b)
    BY <1>1, <1>4 DEF Reached, ReadSet
  <2> QED BY <1>4, <2>1 DEF Unmoved, Registered, ReaderIInv, CursorsTyped
<1>6. c \in Seq(Units) /\ Len(c) \in Nat
  BY <1>3, LenProperties DEF Written
<1> HIDE DEF c
<1>7. ReadTyped'
  <2>1. /\ read' \in ReadSet /\ read'.pc = "settle" /\ read'.chunk = c /\ read'.next = 0
        /\ read'.alias = a
    BY <1>1, <1>4, <1>6 DEF ReadSet, Pcs
  <2>2. Registered(a)'
    BY <1>1, <1>4 DEF Registered
  <2> QED BY <1>3, <1>6, <2>1, <2>2 DEF ReadTyped
<1>8. FilesWritten'
  <2>1. read'.chunk = c
    BY <1>1, <1>4 DEF ReadSet
  <2> QED BY <2>1, <1>3, <1>4 DEF FilesWritten, ReaderIInv, writer
<1>9. ChunkPlaced'
  <2>1. PlaceIn(taken[a], disk[i], Reached(a), i \in cut) /\ Reached(a) = o + 0
    BY <1>1 DEF ReaderIInv, Placed, Reached
  <2>2. Older(taken[a], c, 0)
    <3>0. disk[i] \in Seq(Units)
      BY <1>2 DEF Written
    <3>1. CASE Older(taken[a], disk[i], o)
      BY <3>0, <3>1, <1>2, <1>3, <1>6, ChunkOlder
    <3>2. CASE Older(taken[a], disk[i], 0)
      <4>1. Older(taken[a], disk[i], o)
        BY <3>2, <1>2 DEF Older
      <4> QED BY <4>1, <3>1
    <3> QED BY <2>1, <1>2, <3>1, <3>2 DEF PlaceIn
  <2>3. /\ read'.alias = a /\ read'.chunk = c /\ read'.next = 0
    BY <1>1, <1>4 DEF ReadSet
  <2>4. ChunkIn(c, disk[i], o, i \in cut)
    BY <1>3 DEF ChunkIn
  <2> QED BY <1>4, <2>2, <2>3, <2>4 DEF ChunkPlaced, writer
<1> QED BY <1>5, <1>7, <1>8, <1>9, UnmovedKeeps DEF ReaderIInv

------------------------------------------------------------------------------
(* A transcript is registered, registered again, or given up.               *)

\* The uses of the other transcripts wait as before.
LEMMA OthersWait ==
    ASSUME ReaderIInv, NEW a \in Aliases, pending' = {u \in pending : u.alias # a}, UNCHANGED <<lines, waits>>,
           \A b \in Aliases \ {a} : taken'[b] = taken[b] /\ cursor'[b] = cursor[b]
    PROVE  PoolTyped' /\ Waiting'
<1>1. PoolTyped'
  <2>1. pending' \in SUBSET pending
    OBVIOUS
  <2>2. IsFiniteSet(pending') /\ Cardinality(pending') <= Cardinality(pending)
    BY <2>1, FS_Subset DEF ReaderIInv, PoolTyped
  <2>3. Cardinality(pending') \in Nat /\ Cardinality(pending) \in Nat
    BY <2>2, FS_CardinalityType DEF ReaderIInv, PoolTyped
  <2> QED BY <2>1, <2>2, <2>3, ReaderAssumption DEF ReaderIInv, PoolTyped
<1>2. Waiting'
  <2>1. \A u \in pending' : u \in pending /\ u.alias \in Aliases \ {a}
    BY DEF ReaderIInv, PoolTyped, Uses
  <2> QED BY <2>1 DEF ReaderIInv, Waiting, Registered
<1> QED BY <1>1, <1>2

LEMMA EnrollKeeps ==
    ASSUME ReaderIInv, NEW a \in Aliases, CanRegister(a), Enroll(a), pending' = {u \in pending : u.alias # a},
           UNCHANGED <<writer, waits>>, outgrown \subseteq outgrown', Bare(read'), read.next = 0,
           read'.pc # "idle" => read'.alias = a,
           opened' = IF Registered(a) THEN opened ELSE opened + 1
    PROVE  ReaderIInv'
<1> USE DEF writer
<1>1. /\ path[a] \in Inodes /\ path[a] \in 0 .. MaxInodes /\ path[a] # 0
      /\ cursor \in Cursors /\ taken \in Histories
  BY ReaderAssumption DEF ReaderIInv, FilesTyped, CanRegister, CursorsTyped, Told, Inodes
<1>2. /\ cursor' \in Cursors /\ cursor'[a] = [inode |-> path[a], offset |-> 0]
      /\ \A b \in Aliases \ {a} : cursor'[b] = cursor[b] /\ taken'[b] = taken[b]
      /\ taken' \in Histories /\ taken'[a] = <<>>
  BY <1>1, EmptySeq DEF Enroll, Cursors, Histories
<1>3. cursor'[a] # NoCursor /\ \A b \in Aliases \ {a} : Registered(b)' <=> Registered(b)
  BY <1>1, <1>2 DEF NoCursor, Registered
<1>4. FilesTyped' /\ PoolTyped' /\ Waiting'
  BY <1>2, OthersWait DEF ReaderIInv, FilesTyped
<1>5. CursorsTyped'
  <2> DEFINE R == {b \in Aliases : Registered(b)}
  <2>1. {b \in Aliases : Registered(b)'} = R \cup {a}
    BY <1>3 DEF Registered
  <2>2. IsFiniteSet(R)
    BY FS_Subset, ReaderAssumption
  <2>3. opened' = Cardinality(R \cup {a})
    BY <2>2, FS_AddElement DEF ReaderIInv, CursorsTyped
  <2> HIDE DEF R
  <2>4. opened' = Cardinality({b \in Aliases : Registered(b)})'
    BY <2>1, <2>3
  <2>5. \A b \in Aliases : Registered(b)' => cursor'[b].inode \in Inodes
    BY <1>1, <1>2, <1>3 DEF ReaderIInv, CursorsTyped
  <2>6. \A b \in Aliases \ {a} : cursor'[b].inode # cursor'[a].inode
    BY <1>2 DEF CanRegister
  <2>7. \A b, d \in Aliases : b # d /\ Registered(b)' => cursor'[b].inode # cursor'[d].inode
    BY <1>2, <1>3, <2>6 DEF ReaderIInv, CursorsTyped
  <2> QED BY <1>2, <2>4, <2>5, <2>7 DEF CursorsTyped
<1>6. ReadTyped' /\ FilesWritten' /\ ChunkPlaced'
  <2>1. \A i \in Inodes : Written(disk'[i], Len(lines'))
    BY DEF ReaderIInv, FilesWritten
  <2> QED BY <1>3, <2>1, BareKeeps
<1>7. /\ \A b \in Aliases \ {a} : Reached(b)' = Reached(b)
      /\ Reached(a)' = 0 /\ Len(taken'[a]) = 0
  <2>1. Len(<<>>) = 0
    BY EmptySeq
  <2> QED BY <1>2, <2>1 DEF Reached, Bare
<1>8. Placed'
  <2>1. PlaceIn(taken'[a], disk'[cursor'[a].inode], Reached(a)', cursor'[a].inode \in cut')
    BY <1>7 DEF PlaceIn, Older
  <2>2. \A b \in Aliases \ {a} : Registered(b)' =>
            PlaceIn(taken'[b], disk'[cursor'[b].inode], Reached(b)', cursor'[b].inode \in cut')
    BY <1>2, <1>3, <1>7 DEF ReaderIInv, Placed
  <2> QED BY <2>1, <2>2 DEF Placed
<1>9. Told'
  BY <1>2, <1>7 DEF ReaderIInv, Told, Growing
<1>10. CorrectionsPaired'
  BY <1>2, <1>7 DEF ReaderIInv, CorrectionsPaired
<1>11. EveryLineOnce'
  <2>1. LinesKept(a)'
    <3>1. disk'[cursor'[a].inode] \in Seq(Units)
      BY <1>1, <1>2 DEF ReaderIInv, FilesTyped
    <3>2. Ends(disk'[cursor'[a].inode]) \subseteq Nat \ {0}
      BY <3>1, LenProperties DEF Ends
    <3>3. {e \in Ends(disk'[cursor'[a].inode]) : e <= 0} = {}
      BY <3>2
    <3>4. {taken'[a][k].end : k \in 1 .. Len(taken'[a])} = {}
      BY <1>7
    <3> QED BY <1>7, <3>3, <3>4 DEF LinesKept
  <2>2. ASSUME NEW b \in (Aliases \ {a}) \ outgrown', Registered(b)', cursor'[b].inode \notin cut'
        PROVE  LinesKept(b)'
    <3>1. Accounted(taken[b], disk[cursor[b].inode], Reached(b))
      BY <1>2, <1>3, <2>2, KeptAccounted DEF ReaderIInv, EveryLineOnce
    <3>2. Accounted(taken'[b], disk'[cursor'[b].inode], Reached(b)')
      BY <1>2, <1>7, <3>1
    <3> QED BY <3>2 DEF LinesKept, Accounted
  <2> QED BY <2>1, <2>2 DEF EveryLineOnce
<1> QED BY <1>4, <1>5, <1>6, <1>8, <1>9, <1>10, <1>11 DEF ReaderIInv

\* The transcript is given up: it has no cursor, and none of its uses waits.
LEMMA GiveUpKeeps ==
    ASSUME ReaderIInv, NEW a \in Aliases, cursor' = [cursor EXCEPT ![a] = NoCursor], opened' = opened - 1,
           Registered(a), pending' = {u \in pending : u.alias # a}, UNCHANGED <<writer, waits, taken>>,
           outgrown \subseteq outgrown', Leave, read.next = 0
    PROVE  ReaderIInv'
<1> USE DEF writer
<1>1. cursor \in Cursors /\ NoCursor \in [inode : 0 .. MaxInodes, offset : Nat] /\ NoCursor.inode = 0
      /\ 0 \notin Inodes
  BY ReaderAssumption DEF ReaderIInv, CursorsTyped, NoCursor, Inodes
<1>2. /\ cursor' \in Cursors /\ cursor'[a] = NoCursor
      /\ \A b \in Aliases \ {a} : cursor'[b] = cursor[b] /\ taken'[b] = taken[b]
      /\ \A b \in Aliases \ {a} : Registered(b)' <=> Registered(b)
      /\ ~Registered(a)'
  BY <1>1 DEF Cursors, Registered
<1>3. FilesTyped' /\ PoolTyped' /\ Waiting' /\ Told' /\ CorrectionsPaired'
  <2>1. PoolTyped' /\ Waiting'
    BY <1>2, OthersWait
  <2>2. FilesTyped' /\ Told'
    BY DEF ReaderIInv, FilesTyped, Told
  <2>3. CorrectionsPaired'
    BY DEF ReaderIInv, CorrectionsPaired
  <2> QED BY <2>1, <2>2, <2>3
<1>4. CursorsTyped'
  <2> DEFINE R == {b \in Aliases : Registered(b)}
  <2>1. {b \in Aliases : Registered(b)'} = R \ {a}
    BY <1>2
  <2>2. IsFiniteSet(R)
    BY FS_Subset, ReaderAssumption
  <2>3. opened' = Cardinality(R \ {a})
    BY <2>2, FS_RemoveElement DEF ReaderIInv, CursorsTyped
  <2> HIDE DEF R
  <2>4. opened' = Cardinality({b \in Aliases : Registered(b)})'
    BY <2>1, <2>3
  <2>5. \A b \in Aliases : Registered(b)' => cursor'[b].inode \in Inodes
    BY <1>2 DEF ReaderIInv, CursorsTyped
  <2>6. \A b, d \in Aliases : b # d /\ Registered(b)' => cursor'[b].inode # cursor'[d].inode
    BY <1>1, <1>2, <2>5 DEF ReaderIInv, CursorsTyped
  <2> QED BY <1>2, <2>4, <2>5, <2>6 DEF CursorsTyped
<1>5. Bare(read') /\ read'.pc = "idle" /\ read'.next = 0
  BY LeaveBare DEF Leave, NoRead
<1>6. ReadTyped' /\ FilesWritten' /\ ChunkPlaced'
  <2>1. \A i \in Inodes : Written(disk'[i], Len(lines'))
    BY DEF ReaderIInv, FilesWritten
  <2> QED BY <1>5, <2>1, BareKeeps
<1>7. \A b \in Aliases \ {a} : Reached(b)' = Reached(b)
  BY <1>2, <1>5 DEF Reached
<1>8. Placed'
  BY <1>2, <1>7 DEF ReaderIInv, Placed
<1>9. EveryLineOnce'
  <2>1. ASSUME NEW b \in (Aliases \ {a}) \ outgrown', Registered(b)', cursor'[b].inode \notin cut'
        PROVE  LinesKept(b)'
    <3>1. Accounted(taken[b], disk[cursor[b].inode], Reached(b))
      BY <1>2, <2>1, KeptAccounted DEF ReaderIInv, EveryLineOnce
    <3>2. Accounted(taken'[b], disk'[cursor'[b].inode], Reached(b)')
      BY <1>2, <1>7, <3>1
    <3> QED BY <3>2 DEF LinesKept, Accounted
  <2> QED BY <1>2, <2>1 DEF EveryLineOnce
<1> QED BY <1>3, <1>4, <1>6, <1>8, <1>9 DEF ReaderIInv

LEMMA RegisterKeeps ==
    ASSUME ReaderIInv, NEW a \in Aliases, Register(a) PROVE ReaderIInv'
<1>1. /\ read \in ReadSet /\ read.chunk = <<>> /\ read.next = 0 /\ ~Registered(a)
      /\ CanRegister(a) /\ Enroll(a) /\ opened' = opened + 1 /\ GoOn("look", a)
      /\ UNCHANGED <<writer, pending, waits, outgrown>>
  BY DEF ReaderIInv, ReadTyped, Register
<1>2. Bare(read') /\ read'.alias = a
  BY <1>1 DEF GoOn, Bare, ReadSet, Pcs
<1>3. pending' = {u \in pending : u.alias # a}
  BY <1>1 DEF ReaderIInv, Waiting
<1> QED BY <1>1, <1>2, <1>3, EnrollKeeps

LEMMA ReregisterKeeps ==
    ASSUME ReaderIInv, NEW a \in Aliases, Registered(a), pending' = {u \in pending : u.alias # a},
           IF CanRegister(a)
           THEN Enroll(a) /\ UNCHANGED opened /\ Bare(read') /\ (read'.pc # "idle" => read'.alias = a)
           ELSE /\ cursor' = [cursor EXCEPT ![a] = NoCursor] /\ opened' = opened - 1
                /\ Leave /\ UNCHANGED taken,
           UNCHANGED <<writer, waits>>, outgrown \subseteq outgrown', read.next = 0
    PROVE  ReaderIInv'
<1>1. CASE CanRegister(a)
  BY <1>1, EnrollKeeps
<1>2. CASE ~CanRegister(a)
  BY <1>2, GiveUpKeeps
<1> QED BY <1>1, <1>2

LEMMA ReopenKeeps ==
    ASSUME ReaderIInv, NEW a \in Aliases, Reopen(a) PROVE ReaderIInv'
<1>1. /\ read \in ReadSet /\ read.chunk = <<>> /\ read.next = 0 /\ Registered(a)
      /\ Reregister(a, GoOn("measure", a)) /\ UNCHANGED <<writer, waits, outgrown>>
  BY DEF ReaderIInv, ReadTyped, Reopen
<1>2. GoOn("measure", a) => Bare(read') /\ read'.alias = a
  BY <1>1 DEF GoOn, Bare, ReadSet, Pcs
<1> QED BY <1>1, <1>2, ReregisterKeeps DEF Reregister

LEMMA CloseKeeps ==
    ASSUME ReaderIInv, Close PROVE ReaderIInv'
<1> USE DEF writer
<1>1. /\ read.pc = "idle" /\ cursor' = [a \in Aliases |-> NoCursor] /\ pending' = {} /\ opened' = 0
      /\ UNCHANGED <<lines, disk, path, cut, waits, read, outgrown, taken>>
  BY DEF Close
<1>2. \A a \in Aliases : ~Registered(a)'
  BY <1>1 DEF Registered
<1>3. CursorsTyped'
  <2>1. cursor' \in Cursors
    BY <1>1, ReaderAssumption DEF Cursors, NoCursor
  <2>2. {a \in Aliases : Registered(a)'} = {}
    BY <1>2
  <2>3. opened' = Cardinality({a \in Aliases : Registered(a)})'
    BY <1>1, <2>2, FS_EmptySet
  <2> QED BY <1>2, <2>1, <2>3 DEF CursorsTyped
<1>4. PoolTyped' /\ Waiting'
  BY <1>1, FS_EmptySet, ReaderAssumption DEF ReaderIInv, PoolTyped, Waiting
<1>5. FilesTyped' /\ FilesWritten' /\ Told'
  BY <1>1 DEF ReaderIInv, FilesTyped, FilesWritten, Told
<1>7. CorrectionsPaired'
  BY <1>1 DEF ReaderIInv, CorrectionsPaired
<1>6. ReadTyped' /\ ChunkPlaced' /\ Placed' /\ EveryLineOnce'
  BY <1>1, <1>2 DEF ReaderIInv, ReadTyped, ChunkPlaced, Placed, EveryLineOnce
<1> QED BY <1>3, <1>4, <1>5, <1>6, <1>7 DEF ReaderIInv

------------------------------------------------------------------------------
(* A line is accounted for.                                                 *)

\* What an entry of the history of a must satisfy.
Sound(a, e) ==
    LET t == taken[a]
        i == cursor[a].inode
    IN /\ e \in Entries /\ e.no \in 1 .. Len(lines)
       /\ \A k \in 1 .. Len(t) : t[k].no < e.no
       /\ e.use = 0 \/ \E j \in 1 .. Len(t) : t[j].no = e.use
       /\ e.as = "correction" =>
              /\ \E j \in 1 .. Len(t) : t[j].no = e.use /\ t[j].as = "read"
              /\ lines[e.use].kind = "use" /\ lines[e.use].use = lines[e.no].use
              /\ \A j \in 1 .. Len(t) : t[j].use # e.use
       /\ PlaceIn(Append(t, e), disk[i], e.end, i \in cut)

\* The transcript a accounts for a line, and has come to its end.
Accounts(a, e) ==
    /\ taken' = [taken EXCEPT ![a] = Append(@, e)]
    /\ UNCHANGED <<writer, opened>> /\ outgrown \subseteq outgrown' /\ cursor' \in Cursors
    /\ \A b \in Aliases : /\ cursor'[b].inode = cursor[b].inode
                          /\ Registered(b)' <=> Registered(b)
    /\ \A b \in Aliases \ {a} : Reached(b)' = Reached(b)
    /\ Reached(a)' = e.end

LEMMA AccountsKeep ==
    ASSUME ReaderIInv, NEW a \in Aliases, NEW e, Sound(a, e), Accounts(a, e), Registered(a),
           a \in outgrown' \/ cursor[a].inode \in cut \/
               Accounted(Append(taken[a], e), disk[cursor[a].inode], e.end)
    PROVE  FilesTyped' /\ CursorsTyped' /\ Placed' /\ Told' /\ CorrectionsPaired' /\ EveryLineOnce'
<1> USE DEF writer
<1> DEFINE t == taken[a]
<1> DEFINE v == Append(t, e)
<1>1. /\ taken \in Histories /\ t \in Seq(Entries) /\ e \in Entries /\ Len(lines) \in Nat
      /\ Growing(t, Len(lines))
  BY LenProperties DEF ReaderIInv, Told, Histories, FilesTyped, Sound
<1>2. /\ Len(v) = Len(t) + 1 /\ Len(t) \in Nat /\ v[Len(t) + 1] = e
      /\ \A k \in 1 .. Len(t) : v[k] = t[k]
      /\ v \in Seq(Entries)
  BY <1>1, OneMore
<1>3. /\ taken' \in Histories /\ taken'[a] = v /\ \A b \in Aliases \ {a} : taken'[b] = taken[b]
  BY <1>1, <1>2 DEF Accounts, Histories
<1>4. FilesTyped'
  BY DEF ReaderIInv, FilesTyped, Accounts
<1>5. CursorsTyped'
  <2>1. {b \in Aliases : Registered(b)'} = {b \in Aliases : Registered(b)}
    BY DEF Accounts
  <2>2. opened' = Cardinality({b \in Aliases : Registered(b)})'
    BY <2>1 DEF ReaderIInv, CursorsTyped, Accounts
  <2>3. \A b \in Aliases : Registered(b)' => cursor'[b].inode \in Inodes
    BY DEF ReaderIInv, CursorsTyped, Accounts
  <2>4. \A b, d \in Aliases : b # d /\ Registered(b)' => cursor'[b].inode # cursor'[d].inode
    BY DEF ReaderIInv, CursorsTyped, Accounts
  <2> QED BY <2>2, <2>3, <2>4 DEF CursorsTyped, Accounts
<1>6. Placed'
  <2>1. PlaceIn(taken'[a], disk'[cursor'[a].inode], Reached(a)', cursor'[a].inode \in cut')
    BY <1>3 DEF Accounts, Sound
  <2>2. \A b \in Aliases \ {a} : Registered(b)' =>
            PlaceIn(taken'[b], disk'[cursor'[b].inode], Reached(b)', cursor'[b].inode \in cut')
    BY <1>3 DEF ReaderIInv, Placed, Accounts
  <2> QED BY <2>1, <2>2 DEF Placed
<1>7. Told'
  <2>1. Growing(v, Len(lines))
    BY <1>1, MoreGrowing DEF Sound
  <2>2. \A b \in Aliases \ {a} : Growing(taken'[b], Len(lines))
    BY <1>3 DEF ReaderIInv, Told
  <2>3. Len(lines') = Len(lines)
    BY DEF Accounts
  <2> HIDE DEF v
  <2> QED BY <2>1, <2>2, <2>3, <1>3 DEF Told
<1>8. CorrectionsPaired'
  <2>1. ASSUME NEW b \in Aliases \ {a}, NEW k \in {j \in 1 .. Len(taken'[b]) : taken'[b][j].as = "correction"}
        PROVE  LET c == taken'[b][k]
               IN /\ \E j \in 1 .. k - 1 : taken'[b][j].no = c.use /\ taken'[b][j].as = "read"
                  /\ lines'[c.use].kind = "use" /\ lines'[c.use].use = lines'[c.no].use
                  /\ \A j \in 1 .. k - 1 : taken'[b][j].use # c.use
    BY <1>3 DEF ReaderIInv, CorrectionsPaired, Accounts
  <2>2. ASSUME NEW k \in {j \in 1 .. Len(v) : v[j].as = "correction"}
        PROVE  LET c == v[k]
               IN /\ \E j \in 1 .. k - 1 : v[j].no = c.use /\ v[j].as = "read"
                  /\ lines[c.use].kind = "use" /\ lines[c.use].use = lines[c.no].use
                  /\ \A j \in 1 .. k - 1 : v[j].use # c.use
    <3>1. CASE k \in 1 .. Len(t)
      <4>1. (\A j \in 1 .. k - 1 : v[j] = t[j] /\ j \in 1 .. Len(t)) /\ v[k] = t[k]
        BY <3>1, <1>2
      <4>2. /\ \E j \in 1 .. k - 1 : t[j].no = t[k].use /\ t[j].as = "read"
            /\ lines[t[k].use].kind = "use" /\ lines[t[k].use].use = lines[t[k].no].use
            /\ \A j \in 1 .. k - 1 : t[j].use # t[k].use
        <5>1. k \in {j \in 1 .. Len(t) : t[j].as = "correction"}
          BY <4>1, <3>1, <2>2
        <5> QED BY <5>1 DEF ReaderIInv, CorrectionsPaired
      <4> HIDE DEF v, t
      <4> QED BY <4>1, <4>2
    <3>2. CASE k = Len(t) + 1
      <4>1. 1 .. k - 1 = 1 .. Len(t) /\ v[k] = e /\ e.as = "correction"
        BY <3>2, <1>2
      <4>2. /\ \E j \in 1 .. Len(t) : t[j].no = e.use /\ t[j].as = "read"
            /\ lines[e.use].kind = "use" /\ lines[e.use].use = lines[e.no].use
            /\ \A j \in 1 .. Len(t) : t[j].use # e.use
        BY <4>1 DEF Sound
      <4> HIDE DEF v, t
      <4> QED BY <4>1, <4>2, <1>2
    <3>3. k \in 1 .. Len(t) \/ k = Len(t) + 1
      BY <1>2
    <3> HIDE DEF v, t
    <3> QED BY <3>1, <3>2, <3>3
  <2>3. UNCHANGED lines
    BY DEF Accounts
  <2> HIDE DEF v
  <2> QED BY <2>1, <2>2, <2>3, <1>3 DEF CorrectionsPaired
<1>9. EveryLineOnce'
  <2>1. ASSUME a \notin outgrown', cursor'[a].inode \notin cut' PROVE LinesKept(a)'
    <3>1. Accounted(v, disk[cursor[a].inode], e.end)
      BY <2>1 DEF Accounts
    <3>2. Accounted(taken'[a], disk'[cursor'[a].inode], Reached(a)')
      BY <3>1, <1>3 DEF Accounts
    <3> QED BY <3>2 DEF LinesKept, Accounted
  <2>2. ASSUME NEW b \in (Aliases \ {a}) \ outgrown', Registered(b)', cursor'[b].inode \notin cut'
        PROVE  LinesKept(b)'
    <3>1. Accounted(taken[b], disk[cursor[b].inode], Reached(b))
      BY <2>2, KeptAccounted DEF ReaderIInv, EveryLineOnce, Accounts
    <3>2. Accounted(taken'[b], disk'[cursor'[b].inode], Reached(b)')
      BY <3>1, <1>3 DEF Accounts
    <3> QED BY <3>2 DEF LinesKept, Accounted
  <2> QED BY <2>1, <2>2 DEF EveryLineOnce
<1> QED BY <1>4, <1>5, <1>6, <1>7, <1>8, <1>9

\* A use that was read stays so, unless the new entry is its result.
LEMMA ReadOfMore ==
    ASSUME NEW t \in Seq(Entries), NEW e \in Entries, NEW n, ReadOf(t, n), e.use # n
    PROVE  ReadOf(Append(t, e), n)
<1> DEFINE v == Append(t, e)
<1>1. /\ Len(v) = Len(t) + 1 /\ Len(t) \in Nat /\ v[Len(t) + 1] = e
      /\ \A k \in 1 .. Len(t) : v[k] = t[k] /\ k \in 1 .. Len(v)
      /\ \A k \in 1 .. Len(v) : k \in 1 .. Len(t) \/ k = Len(t) + 1
  BY OneMore
<1> HIDE DEF v
<1>2. ReadOf(v, n)
  BY <1>1 DEF ReadOf
<1> QED BY <1>2 DEF v

\* A use that was just read has no result yet.
LEMMA ReadOfNew ==
    ASSUME NEW t \in Seq(Entries), NEW e \in Entries, NEW m \in Nat, Growing(t, m), e.no \in 1 .. m,
           e.as = "read", e.use = 0, \A k \in 1 .. Len(t) : t[k].no < e.no
    PROVE  ReadOf(Append(t, e), e.no)
<1> DEFINE v == Append(t, e)
<1>1. /\ Len(v) = Len(t) + 1 /\ Len(t) \in Nat /\ v[Len(t) + 1] = e /\ Len(t) + 1 \in 1 .. Len(v)
      /\ \A k \in 1 .. Len(t) : v[k] = t[k]
      /\ \A k \in 1 .. Len(v) : k \in 1 .. Len(t) \/ k = Len(t) + 1
  BY OneMore
<1>2. ASSUME NEW k \in 1 .. Len(t) PROVE t[k].use # e.no
  <2>1. CASE t[k].use = 0
    BY <2>1
  <2>2. CASE \E j \in 1 .. k - 1 : t[j].no = t[k].use
    <3>1. PICK j \in 1 .. k - 1 : t[j].no = t[k].use
      BY <2>2
    <3>2. j \in 1 .. Len(t)
      BY <1>1
    <3>3. t[j].no < e.no /\ t[j].no \in 1 .. m
      BY <3>2 DEF Growing
    <3> QED BY <3>1, <3>3
  <2> QED BY <2>1, <2>2 DEF Growing
<1> HIDE DEF v
<1>3. ReadOf(v, e.no)
  BY <1>1, <1>2 DEF ReadOf
<1> QED BY <1>3 DEF v

\* What is newer than the chunk is newer than what is older than the chunk.
LEMMA NewerOlder ==
    ASSUME NEW t, NEW c, NEW f, NEW m \in Nat, NEW n \in Nat, Written(c, n), Written(f, n), Growing(t, m),
           NEW r \in Nat, r + 1 \in 1 .. Len(c), Older(t, c, r), Newer(c, f)
    PROVE  Older(t, f, 0)
<1>1. Len(c) \in Nat /\ Len(f) \in Nat /\ r + 1 \in r + 1 .. Len(c)
  BY LenProperties DEF Written
<1>2. ASSUME NEW k \in 1 .. Len(t), NEW p \in 0 + 1 .. Len(f) PROVE t[k].no < f[p].no
  <2>1. t[k].no < c[r + 1].no
    BY <1>1 DEF Older
  <2>2. c[r + 1].no < f[p].no
    BY DEF Newer
  <2>3. t[k].no \in Nat /\ c[r + 1].no \in Nat /\ f[p].no \in Nat
    BY DEF Growing, Written
  <2> QED BY <2>1, <2>2, <2>3
<1> QED BY <1>2 DEF Older

\* The next line of the chunk is accounted for.
LEMMA LineKeeps ==
    ASSUME ReaderIInv, NEW a \in Aliases, read.pc = "lines", read.alias = a,
           NEW k \in Behind, FirstOf(Behind, k),
           NEW e \in Entries, e.no = read.chunk[read.next + 1].no, e.end = cursor[a].offset + k,
           e.use = 0 \/ \E j \in 1 .. Len(taken[a]) : taken[a][j].no = e.use,
           e.as = "correction" =>
              /\ \E j \in 1 .. Len(taken[a]) : taken[a][j].no = e.use /\ taken[a][j].as = "read"
              /\ lines[e.use].kind = "use" /\ lines[e.use].use = lines[e.no].use
              /\ \A j \in 1 .. Len(taken[a]) : taken[a][j].use # e.use,
           taken' = [taken EXCEPT ![a] = Append(@, e)],
           read' = [read EXCEPT !.next = k, !.records = @ + 1],
           UNCHANGED <<writer, cursor, opened, outgrown>>
    PROVE  /\ FilesTyped' /\ CursorsTyped' /\ ReadTyped' /\ FilesWritten' /\ ChunkPlaced' /\ Placed'
           /\ Told' /\ CorrectionsPaired' /\ EveryLineOnce'
           /\ e.no \in 1 .. Len(lines) /\ \A j \in 1 .. Len(taken[a]) : taken[a][j].no < e.no
<1> DEFINE i == cursor[a].inode
<1> DEFINE o == cursor[a].offset
<1> DEFINE f == disk[i]
<1> DEFINE c == read.chunk
<1> DEFINE r == read.next
<1> DEFINE t == taken[a]
<1> DEFINE m == Len(lines)
<1> DEFINE lost == i \in cut
<1>1. /\ read \in ReadSet /\ Registered(a) /\ r \in Nat /\ c \in Seq(Units) /\ Len(c) \in Nat
      /\ r <= Len(c) /\ Len(c) <= MAX_TRANSCRIPT_READ_BYTES
  BY LenProperties DEF ReaderIInv, ReadTyped, ReadSet
<1>2. /\ i \in Inodes /\ o \in Nat /\ Written(f, m) /\ Written(c, m) /\ f \in Seq(Units)
      /\ m \in Nat /\ t \in Seq(Entries) /\ Growing(t, m) /\ lost \in BOOLEAN /\ Len(f) \in Nat
  <2>1. i \in Inodes /\ o \in Nat
    BY <1>1 DEF ReaderIInv, CursorsTyped, Cursors
  <2>2. Written(f, m) /\ Written(c, m)
    BY <2>1 DEF ReaderIInv, FilesWritten
  <2>3. t \in Seq(Entries) /\ Growing(t, m)
    BY DEF ReaderIInv, Told, Histories
  <2>4. m \in Nat
    BY LenProperties DEF ReaderIInv, FilesTyped
  <2>5. f \in Seq(Units) /\ Len(f) \in Nat
    BY <2>2, LenProperties DEF Written
  <2> QED BY <2>1, <2>2, <2>3, <2>4, <2>5
<1>3. k \in r + 1 .. Len(c) /\ k \in Nat /\ c[k].last /\ \A p \in r + 1 .. k - 1 : ~c[p].last
  BY <1>1 DEF Behind, Ends, FirstOf
<1>4. /\ ChunkIn(c, f, o, lost) /\ Older(t, c, r)
      /\ PlaceIn(t, f, o + r, lost) /\ Reached(a) = o + r
  BY <1>1 DEF ReaderIInv, ChunkPlaced, Placed, Reached
<1>5. a \notin outgrown /\ ~lost => Accounted(t, f, o + r)
  BY <1>1, <1>4, KeptAccounted DEF ReaderIInv, EveryLineOnce
<1>6. /\ e.no = c[r + 1].no /\ e.end = o + k
  OBVIOUS
<1> HIDE DEF i, o, f, c, r, t, m, lost
<1>7. /\ r + 1 \in 1 .. Len(c) /\ c[r + 1].no \in 1 .. m
      /\ c[k].no = c[r + 1].no
      /\ \A p \in k + 1 .. Len(c) : c[r + 1].no < c[p].no
  BY <1>1, <1>2, <1>3, OneLine
<1>8. \A j \in 1 .. Len(t) : t[j].no < e.no
  <2>1. r + 1 \in r + 1 .. Len(c)
    BY <1>1, <1>7
  <2> QED BY <2>1, <1>4, <1>6 DEF Older
<1>9. ASSUME InFile(c, f, o)
      PROVE  /\ PlaceIn(Append(t, e), f, o + k, lost)
             /\ a \notin outgrown /\ ~lost => Accounted(Append(t, e), f, o + k)
  <2>1. \A q \in 1 .. Len(c) : o + q \in 1 .. Len(f) /\ f[o + q] = c[q]
    BY <1>1, <1>2, <1>9 DEF InFile
  <2>2. /\ o + k \in 1 .. Len(f) /\ f[o + k] = c[k] /\ f[o + (r + 1)] = c[r + 1]
        /\ o + (r + 1) = (o + r) + 1 /\ o + r \in Nat /\ o + k \in Nat /\ o + r < o + k
        /\ o + k \in (o + r) + 1 .. Len(f)
    BY <1>1, <1>2, <1>3, <1>7, <2>1
  <2>3. \A p \in o + k + 1 .. Len(f) : e.no < f[p].no
    <3> DEFINE s == o + r
    <3> DEFINE x == o + k
    <3>1. s \in Nat /\ x \in s + 1 .. Len(f) /\ f[x].last /\ f[s + 1] = c[r + 1]
      BY <2>2, <1>3
    <3> HIDE DEF s, x
    <3>2. \A p \in x + 1 .. Len(f) : f[s + 1].no < f[p].no
      BY <3>1, <1>2, OneLine
    <3> QED BY <3>1, <3>2, <1>6 DEF x
  <2>4. o + k \in Ends(f)
    BY <2>2, <1>3 DEF Ends
  <2>5. Older(Append(t, e), f, o + k)
    <3>1. CASE Older(t, f, o + r)
      BY <3>1, <2>2, <2>3, <1>2, MoreOlder
    <3>2. CASE Older(t, f, 0)
      BY <3>2, <2>2, <2>3, <1>2, MoreOlder
    <3> QED BY <3>1, <3>2, <1>4 DEF PlaceIn
  <2>6. PlaceIn(Append(t, e), f, o + k, lost)
    BY <2>4, <2>5 DEF PlaceIn
  <2>7. ASSUME a \notin outgrown, ~lost PROVE Accounted(Append(t, e), f, o + k)
    <3>1. \A p \in o + r + 1 .. e.end - 1 : p \notin Ends(f)
      <4> TAKE p \in o + r + 1 .. e.end - 1
      <4>0. p \in o + r + 1 .. o + k - 1
        <5>1. e.end \in Nat /\ e.end = o + k /\ o \in Nat /\ k \in Nat /\ r \in Nat
          BY <1>1, <1>2, <1>3, <1>6 DEF Entries
        <5> QED BY <5>1
      <4>1. p - o \in r + 1 .. k - 1 /\ p - o \in 1 .. Len(c) /\ o + (p - o) = p
        <5>1. o \in Nat /\ r \in Nat /\ k \in r + 1 .. Len(c) /\ Len(c) \in Nat
          BY <1>1, <1>2, <1>3
        <5> QED BY <4>0, <5>1
      <4>2. f[p] = c[p - o]
        BY <4>1, <2>1
      <4>3. ~c[p - o].last
        BY <4>1, <1>3
      <4> QED BY <4>2, <4>3 DEF Ends
    <3>2. e.no = f[o + k].no
      BY <1>6, <1>7, <2>2
    <3>3. Accounted(t, f, o + r)
      BY <2>7, <1>5
    <3>4. /\ e.end \in Ends(f) /\ o + r < e.end /\ e.no = f[e.end].no
          /\ \A p \in o + r + 1 .. e.end - 1 : p \notin Ends(f)
      <4>1. e.end \in Ends(f) /\ o + r < e.end
        BY <2>2, <2>4, <1>6
      <4>2. e.no = f[e.end].no
        BY <3>2, <1>6
      <4> QED BY <3>1, <4>1, <4>2
    <3>5. Accounted(Append(t, e), f, e.end)
      BY <3>3, <3>4, <2>2, <1>2, MoreAccounted
    <3> QED BY <3>5, <1>6
  <2> QED BY <2>6, <2>7
<1>10. ASSUME lost, Newer(c, f) PROVE PlaceIn(Append(t, e), f, o + k, lost)
  <2>1. Older(t, f, 0)
    BY <1>1, <1>2, <1>4, <1>7, <1>10, NewerOlder
  <2>2. \A p \in 0 + 1 .. Len(f) : e.no < f[p].no
    BY <1>6, <1>7, <1>10 DEF Newer
  <2>3. Older(Append(t, e), f, 0)
    BY <2>1, <2>2, <1>2, MoreOlder
  <2> QED BY <2>3, <1>10 DEF PlaceIn
<1>11. /\ PlaceIn(Append(t, e), f, e.end, lost)
       /\ a \notin outgrown /\ ~lost => Accounted(Append(t, e), f, e.end)
  BY <1>4, <1>6, <1>9, <1>10 DEF ChunkIn
<1>12. Sound(a, e)
  BY <1>6, <1>7, <1>8, <1>11 DEF Sound, t, f, i, lost, m
<1>13. /\ read' \in ReadSet /\ read'.pc = "lines" /\ read'.alias = a /\ read'.chunk = c /\ read'.next = k
       /\ lines' = lines /\ disk' = disk /\ cut' = cut /\ cursor' = cursor
  <2>1. read' \in ReadSet
    <3>1. read.records + 1 \in Nat /\ k \in Nat
      BY <1>1, <1>3 DEF ReadSet
    <3>2. read' = [read EXCEPT !.next = k, !.records = read.records + 1]
      BY <1>1 DEF ReadSet
    <3> QED BY <1>1, <3>1, <3>2 DEF ReadSet
  <2>2. /\ read'.pc = read.pc /\ read'.alias = read.alias /\ read'.chunk = read.chunk
        /\ read'.next = k
    BY <1>1 DEF ReadSet
  <2> QED BY <2>1, <2>2 DEF writer, c
<1>14. Accounts(a, e)
  <2>1. Reached(a)' = e.end
    BY <1>6, <1>13 DEF Reached, o
  <2>2. \A b \in Aliases \ {a} : Reached(b)' = Reached(b)
    BY <1>13 DEF Reached
  <2> QED BY <2>1, <2>2 DEF Accounts, Registered, ReaderIInv, CursorsTyped
<1>15. FilesTyped' /\ CursorsTyped' /\ Placed' /\ Told' /\ CorrectionsPaired' /\ EveryLineOnce'
  <2>1. a \in outgrown' \/ cursor[a].inode \in cut \/
            Accounted(Append(taken[a], e), disk[cursor[a].inode], e.end)
    BY <1>11 DEF lost, i, f, t
  <2> QED BY <2>1, <1>1, <1>12, <1>14, AccountsKeep
<1>16. ReadTyped'
  <2>1. Registered(a)'
    BY <1>1 DEF Registered
  <2> QED BY <2>1, <1>1, <1>3, <1>13 DEF ReadTyped
<1>17. FilesWritten'
  BY <1>2, <1>13 DEF ReaderIInv, FilesWritten, m
<1>18. ChunkPlaced'
  <2>1. Older(Append(t, e), c, k)
    BY <1>1, <1>2, <1>3, <1>4, <1>6, <1>7, MoreOlder
  <2>2. taken'[a] = Append(t, e)
    BY DEF ReaderIInv, Told, Histories, t
  <2> QED BY <2>1, <2>2, <1>4, <1>13 DEF ChunkPlaced, i, o, f, lost
<1> QED BY <1>6, <1>7, <1>8, <1>15, <1>16, <1>17, <1>18 DEF t, m

LEMMA NextLineKeeps ==
    ASSUME ReaderIInv, NEW a \in Aliases, NextLine(a) PROVE ReaderIInv'
<1> DEFINE n == read.chunk[read.next + 1].no
<1> DEFINE line == lines[n]
<1> DEFINE end(k) == cursor[a].offset + k
<1> DEFINE found == UsesOf(a, line.use)
<1> DEFINE e(k, as, use) == [no |-> n, end |-> end(k), as |-> as, use |-> use]
<1> DEFINE t == taken[a]
<1>1. PICK k \in Behind :
          /\ FirstOf(Behind, k)
          /\ read' = [read EXCEPT !.next = k, !.records = @ + 1]
          /\ \/ ~Parsed(n, k) /\ Entry(a, n, end(k), "dropped", 0) /\ UNCHANGED <<pending, waits>>
             \/ /\ Parsed(n, k) /\ line.kind = "text"
                /\ Entry(a, n, end(k), "read", 0) /\ UNCHANGED <<pending, waits>>
             \/ /\ Parsed(n, k) /\ line.kind = "use" /\ Entry(a, n, end(k), "read", 0)
                /\ Wait(a, n, line.use)
             \/ /\ Parsed(n, k) /\ line.kind \in {"result", "error"} /\ found = {}
                /\ Entry(a, n, end(k), "read", 0) /\ UNCHANGED <<pending, waits>>
             \/ /\ Parsed(n, k) /\ line.kind \in {"result", "error"}
                /\ \E u \in found :
                      Entry(a, n, end(k), IF line.kind = "result" THEN "correction" ELSE "read", u.no)
                /\ pending' = pending \ found /\ UNCHANGED waits
  BY DEF NextLine
<1>2. /\ read.pc = "lines" /\ read.alias = a /\ UNCHANGED <<writer, cursor, opened, closed, outgrown>>
      /\ Registered(a)
  BY DEF NextLine, ReaderIInv, ReadTyped
<1>3. /\ taken \in Histories /\ t \in Seq(Entries) /\ Growing(t, Len(lines)) /\ Len(lines) \in Nat
      /\ lines \in Seq(Lines) /\ pending \in SUBSET Uses /\ IsFiniteSet(pending) /\ waits \in Nat
  BY LenProperties DEF ReaderIInv, Told, Histories, FilesTyped, PoolTyped
<1>4. n \in Nat /\ end(k) \in Nat
  <2>1. /\ read.next \in Nat /\ read.chunk \in Seq(Units) /\ cursor[a].offset \in Nat
    BY DEF ReaderIInv, ReadTyped, ReadSet, CursorsTyped, Cursors
  <2>2. k \in 1 .. Len(read.chunk) /\ k > read.next /\ Len(read.chunk) \in Nat
    BY <2>1, LenProperties DEF Behind, Ends
  <2>3. read.next + 1 \in 1 .. Len(read.chunk)
    BY <2>1, <2>2
  <2>4. read.chunk[read.next + 1] \in Units
    BY <2>1, <2>3, ElementOfSeq
  <2> QED BY <2>1, <2>2, <2>4 DEF Units
<1> HIDE DEF n, end, line, found, e, t
<1>5. ASSUME NEW as \in {"dropped", "read", "correction"}, NEW use \in Nat, Entry(a, n, end(k), as, use),
             use = 0 \/ \E j \in 1 .. Len(t) : t[j].no = use,
             as = "correction" =>
                /\ \E j \in 1 .. Len(t) : t[j].no = use /\ t[j].as = "read"
                /\ lines[use].kind = "use" /\ lines[use].use = line.use
                /\ \A j \in 1 .. Len(t) : t[j].use # use
      PROVE  /\ FilesTyped' /\ CursorsTyped' /\ ReadTyped' /\ FilesWritten' /\ ChunkPlaced' /\ Placed'
             /\ Told' /\ CorrectionsPaired' /\ EveryLineOnce'
             /\ n \in 1 .. Len(lines) /\ \A j \in 1 .. Len(t) : t[j].no < n
             /\ taken' = [taken EXCEPT ![a] = Append(@, e(k, as, use))]
  <2> DEFINE x == e(k, as, use)
  <2>1. /\ x \in Entries /\ x.no = n /\ x.end = end(k) /\ x.as = as /\ x.use = use
    BY <1>4 DEF Entries, e
  <2>2. taken' = [taken EXCEPT ![a] = Append(@, x)]
    BY <1>5 DEF Entry, e
  <2>3. x.no = read.chunk[read.next + 1].no /\ x.end = cursor[a].offset + k /\ lines[x.no] = line
    BY <2>1 DEF n, end, line
  <2> HIDE DEF x
  <2>4. /\ x.use = 0 \/ \E j \in 1 .. Len(taken[a]) : taken[a][j].no = x.use
        /\ x.as = "correction" =>
              /\ \E j \in 1 .. Len(taken[a]) : taken[a][j].no = x.use /\ taken[a][j].as = "read"
              /\ lines[x.use].kind = "use" /\ lines[x.use].use = lines[x.no].use
              /\ \A j \in 1 .. Len(taken[a]) : taken[a][j].use # x.use
    BY <1>5, <2>1, <2>3 DEF t
  <2>5. /\ FilesTyped' /\ CursorsTyped' /\ ReadTyped' /\ FilesWritten' /\ ChunkPlaced' /\ Placed'
        /\ Told' /\ CorrectionsPaired' /\ EveryLineOnce'
        /\ x.no \in 1 .. Len(lines) /\ \A j \in 1 .. Len(taken[a]) : taken[a][j].no < x.no
    BY <1>1, <1>2, <2>1, <2>2, <2>3, <2>4, LineKeeps
  <2> QED BY <2>1, <2>2, <2>5 DEF t, x
\* The uses that go on waiting were read, and this line is no result of theirs.
<1>6. ASSUME NEW x \in Entries, taken' = [taken EXCEPT ![a] = Append(@, x)],
             NEW u \in pending, u.alias = a => u.no # x.use
      PROVE  /\ Registered(u.alias)' /\ u.no \in 1 .. Len(lines') /\ lines'[u.no].kind = "use"
             /\ lines'[u.no].use = u.use /\ ReadOf(taken'[u.alias], u.no)
  <2>1. /\ Registered(u.alias) /\ u.no \in 1 .. Len(lines) /\ lines[u.no].kind = "use"
        /\ lines[u.no].use = u.use /\ ReadOf(taken[u.alias], u.no) /\ u.alias \in Aliases
    BY <1>3 DEF ReaderIInv, Waiting, Uses
  <2>2. Registered(u.alias)' /\ lines' = lines
    BY <1>2, <2>1 DEF Registered, writer
  <2>3. ReadOf(taken'[u.alias], u.no)
    <3>1. CASE u.alias = a
      <4>1. taken'[a] = Append(t, x)
        BY <1>3, <1>6 DEF Histories, t
      <4>2. ReadOf(Append(t, x), u.no)
        BY <1>3, <1>6, <2>1, <3>1, ReadOfMore DEF t
      <4> QED BY <4>1, <4>2, <3>1
    <3>2. CASE u.alias # a
      BY <1>3, <1>6, <2>1, <3>2 DEF Histories
    <3> QED BY <3>1, <3>2
  <2> QED BY <2>1, <2>2, <2>3
<1>7. ASSUME NEW as \in {"dropped", "read"}, Entry(a, n, end(k), as, 0), UNCHANGED <<pending, waits>>
      PROVE  ReaderIInv'
  <2>1. /\ FilesTyped' /\ CursorsTyped' /\ ReadTyped' /\ FilesWritten' /\ ChunkPlaced' /\ Placed'
        /\ Told' /\ CorrectionsPaired' /\ EveryLineOnce'
        /\ taken' = [taken EXCEPT ![a] = Append(@, e(k, as, 0))]
    BY <1>5, <1>7
  <2>2. e(k, as, 0) \in Entries /\ e(k, as, 0).use = 0
    BY <1>4 DEF Entries, e
  <2>3. \A u \in pending : u.no # 0
    BY <1>3 DEF ReaderIInv, Waiting
  <2> DEFINE x == e(k, as, 0)
  <2> HIDE DEF x
  <2>4. Waiting'
    <3>1. x \in Entries /\ x.use = 0 /\ taken' = [taken EXCEPT ![a] = Append(@, x)]
      BY <2>1, <2>2 DEF x
    <3>2. ASSUME NEW u \in pending
          PROVE  /\ Registered(u.alias)' /\ u.no \in 1 .. Len(lines') /\ lines'[u.no].kind = "use"
                 /\ lines'[u.no].use = u.use /\ ReadOf(taken'[u.alias], u.no)
      <4>1. u.no # x.use
        BY <2>3, <3>1
      <4> QED BY <1>6, <3>1, <4>1
    <3> QED BY <3>2, <1>7 DEF Waiting
  <2>5. PoolTyped'
    BY <1>7 DEF ReaderIInv, PoolTyped
  <2> QED BY <2>1, <2>4, <2>5 DEF ReaderIInv
<1>8. ASSUME line.kind = "use", Entry(a, n, end(k), "read", 0), Wait(a, n, line.use)
      PROVE  ReaderIInv'
  <2> DEFINE one == [alias |-> a, use |-> line.use, no |-> n, since |-> waits]
  <2> DEFINE others == pending \ found
  <2> DEFINE x == e(k, "read", 0)
  <2>1. /\ FilesTyped' /\ CursorsTyped' /\ ReadTyped' /\ FilesWritten' /\ ChunkPlaced' /\ Placed'
        /\ Told' /\ CorrectionsPaired' /\ EveryLineOnce'
        /\ n \in 1 .. Len(lines) /\ \A j \in 1 .. Len(t) : t[j].no < n
        /\ taken' = [taken EXCEPT ![a] = Append(@, x)]
    BY <1>5, <1>8
  <2>2. x \in Entries /\ x.no = n /\ x.as = "read" /\ x.use = 0
    BY <1>4 DEF Entries, e
  <2>3. \A u \in pending : u.no # 0
    BY <1>3 DEF ReaderIInv, Waiting
  <2>4. /\ waits' = waits + 1 /\ found \in SUBSET pending
        /\ IF Cardinality(others) < MAX_PENDING_FACTORY_TOOL_USES THEN pending' = others \cup {one}
           ELSE \E oldest \in others : pending' = (others \ {oldest}) \cup {one}
    BY <1>8 DEF Wait, found, UsesOf
  <2>5. one \in Uses
    <3>1. line \in Lines
      BY <2>1, <1>3, ElementOfSeq DEF line
    <3>2. line.use \in UseIds
      BY <3>1 DEF UseIds
    <3> QED BY <3>2, <1>3, <1>4 DEF Uses
  <2>6. ReadOf(taken'[a], n)
    <3>1. ReadOf(Append(t, x), x.no)
      BY <2>1, <2>2, <1>3, ReadOfNew
    <3> QED BY <3>1, <2>1, <2>2, <1>3 DEF Histories, t
  <2>7. PoolTyped'
    <3>1. /\ IsFiniteSet(others) /\ Cardinality(others) <= Cardinality(pending)
          /\ Cardinality(others) \in Nat /\ Cardinality(pending) \in Nat
          /\ Cardinality(pending) <= MAX_PENDING_FACTORY_TOOL_USES
      <4>1. others \in SUBSET pending
        BY <2>4
      <4> QED BY <4>1, <1>3, FS_Subset, FS_CardinalityType DEF ReaderIInv, PoolTyped
    <3>2. others \in SUBSET Uses
      BY <2>4, <1>3
    <3> HIDE DEF others, one
    <3>3. CASE pending' = others \cup {one} /\ Cardinality(others) < MAX_PENDING_FACTORY_TOOL_USES
      <4>1. IsFiniteSet(pending') /\ Cardinality(pending') <= Cardinality(others) + 1
        BY <3>1, <3>3, FS_AddElement
      <4>2. Cardinality(pending') \in Nat
        BY <4>1, FS_CardinalityType
      <4> QED BY <4>1, <4>2, <3>1, <3>2, <3>3, <2>4, <2>5, <1>3, ReaderAssumption DEF PoolTyped
    <3>4. ASSUME NEW oldest \in others, pending' = (others \ {oldest}) \cup {one} PROVE PoolTyped'
      <4>1. IsFiniteSet(others \ {oldest}) /\ Cardinality(others \ {oldest}) = Cardinality(others) - 1
        BY <3>1, FS_RemoveElement
      <4>2. IsFiniteSet(pending') /\ Cardinality(pending') <= Cardinality(others \ {oldest}) + 1
        <5> DEFINE S == others \ {oldest}
        <5>1. IsFiniteSet(S) /\ Cardinality(S) \in Int /\ pending' = S \cup {one}
          BY <4>1, <3>1, <3>4
        <5> HIDE DEF S
        <5>2. IsFiniteSet(pending') /\ Cardinality(pending') <= Cardinality(S) + 1
          BY <5>1, FS_AddElement
        <5> QED BY <5>2 DEF S
      <4>3. Cardinality(pending') \in Nat
        BY <4>2, FS_CardinalityType
      <4> QED BY <4>1, <4>2, <4>3, <3>1, <3>2, <3>4, <2>4, <2>5, <1>3, ReaderAssumption DEF PoolTyped
    <3> QED BY <3>3, <3>4, <2>4
  <2>8. Waiting'
    <3>1. pending' \subseteq others \cup {one}
      BY <2>4
    <3>2. one.alias = a /\ one.no = n /\ one.use = line.use
      OBVIOUS
    <3> HIDE DEF others, one
    <3>3. ASSUME NEW u, u = one
          PROVE  /\ Registered(u.alias)' /\ u.no \in 1 .. Len(lines') /\ lines'[u.no].kind = "use"
                 /\ lines'[u.no].use = u.use /\ ReadOf(taken'[u.alias], u.no)
      <4>1. lines' = lines /\ cursor' = cursor /\ u.alias = a /\ u.no = n /\ u.use = line.use
        BY <1>2, <3>2, <3>3 DEF writer
      <4>2. Registered(u.alias)'
        BY <1>2, <4>1 DEF Registered
      <4>3. u.no \in 1 .. Len(lines') /\ lines'[u.no].kind = "use" /\ lines'[u.no].use = u.use
        BY <1>8, <2>1, <4>1 DEF line
      <4>4. ReadOf(taken'[u.alias], u.no)
        BY <2>6, <4>1
      <4> QED BY <4>2, <4>3, <4>4
    <3>4. ASSUME NEW u \in others
          PROVE  /\ Registered(u.alias)' /\ u.no \in 1 .. Len(lines') /\ lines'[u.no].kind = "use"
                 /\ lines'[u.no].use = u.use /\ ReadOf(taken'[u.alias], u.no)
      <4>1. u \in pending /\ u.no # x.use
        BY <2>2, <2>3, <3>4 DEF others
      <4>2. x \in Entries /\ taken' = [taken EXCEPT ![a] = Append(@, x)]
        BY <2>1, <2>2
      <4> HIDE DEF x
      <4> QED BY <1>6, <4>1, <4>2
    <3> QED BY <3>1, <3>3, <3>4 DEF Waiting
  <2> QED BY <2>1, <2>7, <2>8 DEF ReaderIInv
<1>9. ASSUME NEW u \in found, NEW as \in {"read", "correction"}, Entry(a, n, end(k), as, u.no),
             pending' = pending \ found, UNCHANGED waits
      PROVE  ReaderIInv'
  <2>1. /\ u \in pending /\ u.alias = a /\ u.use = line.use /\ u.no \in Nat
        /\ u.no \in 1 .. Len(lines) /\ lines[u.no].kind = "use" /\ lines[u.no].use = u.use
        /\ ReadOf(t, u.no)
    BY <1>3 DEF ReaderIInv, Waiting, found, UsesOf, t, Uses
  <2>2. /\ FilesTyped' /\ CursorsTyped' /\ ReadTyped' /\ FilesWritten' /\ ChunkPlaced' /\ Placed'
        /\ Told' /\ CorrectionsPaired' /\ EveryLineOnce'
        /\ taken' = [taken EXCEPT ![a] = Append(@, e(k, as, u.no))]
    BY <1>5, <1>9, <2>1 DEF ReadOf
  <2>3. e(k, as, u.no) \in Entries
    BY <1>4, <2>1 DEF Entries, e
  <2>4. \A w \in pending \ found : w.alias = a => w.no # u.no
    BY <1>3, <2>1 DEF ReaderIInv, Waiting, found, UsesOf
  <2> DEFINE x == e(k, as, u.no)
  <2>7. x \in Entries /\ x.use = u.no /\ taken' = [taken EXCEPT ![a] = Append(@, x)]
    BY <1>4, <2>1, <2>2, <2>3 DEF e
  <2> HIDE DEF x
  <2>5. Waiting'
    <3>1. ASSUME NEW w \in pending \ found
          PROVE  /\ Registered(w.alias)' /\ w.no \in 1 .. Len(lines') /\ lines'[w.no].kind = "use"
                 /\ lines'[w.no].use = w.use /\ ReadOf(taken'[w.alias], w.no)
      <4>1. w \in pending /\ (w.alias = a => w.no # x.use)
        BY <2>4, <2>7
      <4> QED BY <1>6, <2>7, <4>1
    <3> QED BY <3>1, <1>9 DEF Waiting
  <2>6. PoolTyped'
    <3>1. pending' \in SUBSET pending
      BY <1>9
    <3>2. /\ IsFiniteSet(pending') /\ Cardinality(pending') <= Cardinality(pending)
          /\ Cardinality(pending) \in Nat /\ Cardinality(pending') \in Nat
      BY <3>1, <1>3, FS_Subset, FS_CardinalityType
    <3> QED BY <1>3, <1>9, <3>1, <3>2, ReaderAssumption DEF ReaderIInv, PoolTyped
  <2> QED BY <2>2, <2>5, <2>6 DEF ReaderIInv
<1> QED BY <1>1, <1>7, <1>8, <1>9

LEMMA MoveOnKeeps ==
    ASSUME ReaderIInv, NEW a \in Aliases, MoveOn(a) PROVE ReaderIInv'
<1>1. /\ read \in ReadSet /\ read.alias = a /\ Registered(a) /\ read'= NoRead
      /\ cursor' = [cursor EXCEPT ![a].offset = @ + read.next] /\ cursor \in Cursors
      /\ UNCHANGED <<writer, pending, waits, opened, outgrown, taken>>
  BY DEF ReaderIInv, ReadTyped, CursorsTyped, MoveOn, Leave
<1>2. /\ cursor[a] \in [inode : 0 .. MaxInodes, offset : Nat] /\ cursor[a].inode \in Inodes
      /\ read.next \in Nat
  BY <1>1 DEF ReaderIInv, CursorsTyped, Cursors, ReadSet
<1>3. /\ cursor' \in Cursors /\ cursor'[a].inode = cursor[a].inode
      /\ cursor'[a].offset = cursor[a].offset + read.next
      /\ \A b \in Aliases \ {a} : cursor'[b] = cursor[b]
  BY <1>1, <1>2 DEF Cursors
<1>4. Unmoved
  <2>1. Registered(a)'
    BY <1>2, <1>3, ReaderAssumption DEF Registered, NoCursor, Inodes
  <2>2. Reached(a)' = Reached(a)
    <3>1. read'.alias # a /\ cursor'[a].offset + 0 = cursor'[a].offset
      BY <1>1, <1>2, <1>3, ReaderAssumption DEF NoRead
    <3> QED BY <3>1, <1>1, <1>3 DEF Reached
  <2>3. ASSUME NEW b \in Aliases \ {a}
        PROVE  Reached(b)' = Reached(b) /\ (Registered(b)' <=> Registered(b))
    BY <1>1, <1>3, ReaderAssumption DEF Reached, Registered, NoRead
  <2> QED BY <1>1, <1>3, <2>1, <2>2, <2>3 DEF Unmoved
<1>5. ReadTyped' /\ FilesWritten' /\ ChunkPlaced'
  <2>1. Bare(read') /\ read'.pc = "idle"
    BY <1>1, LeaveBare DEF NoRead
  <2>2. \A i \in Inodes : Written(disk'[i], Len(lines'))
    BY <1>1 DEF ReaderIInv, FilesWritten, writer
  <2> QED BY <2>1, <2>2, BareKeeps
<1> QED BY <1>4, <1>5, UnmovedKeeps DEF ReaderIInv

\* A line longer than a chunk is accounted for when its end is found.
LEMMA OversizedKeeps ==
    ASSUME ReaderIInv, NEW a \in Aliases, read.pc = "settle", read.alias = a, Ends(read.chunk) = {},
           NEW k \in OversizedEnds(cursor[a].inode, cursor[a].offset),
           FirstOf(OversizedEnds(cursor[a].inode, cursor[a].offset), k),
           cursor' = [cursor EXCEPT ![a].offset = k], Leave,
           Entry(a, disk[cursor[a].inode][cursor[a].offset + 1].no, k, "dropped", 0),
           outgrown' = IF Outgrown(a) THEN outgrown \cup {a} ELSE outgrown,
           UNCHANGED <<writer, pending, waits, opened>>
    PROVE  ReaderIInv'
<1> DEFINE i == cursor[a].inode
<1> DEFINE o == cursor[a].offset
<1> DEFINE f == disk[i]
<1> DEFINE c == read.chunk
<1> DEFINE t == taken[a]
<1> DEFINE m == Len(lines)
<1> DEFINE lost == i \in cut
<1> DEFINE n == f[o + 1].no
<1> DEFINE e == [no |-> n, end |-> k, as |-> "dropped", use |-> 0]
<1>1. /\ read.next = 0 /\ Registered(a) /\ c \in Seq(Units) /\ Len(c) \in Nat
      /\ Len(c) <= MAX_TRANSCRIPT_READ_BYTES /\ MAX_TRANSCRIPT_READ_BYTES \in Nat \ {0}
  BY LenProperties, ReaderAssumption DEF ReaderIInv, ReadTyped, ReadSet
<1>2. /\ i \in Inodes /\ o \in Nat /\ Written(f, m) /\ f \in Seq(Units) /\ Len(f) \in Nat
      /\ m \in Nat /\ t \in Seq(Entries) /\ Growing(t, m)
      /\ cursor \in Cursors /\ taken \in Histories
  <2>1. i \in Inodes /\ o \in Nat /\ cursor \in Cursors
    BY <1>1 DEF ReaderIInv, CursorsTyped, Cursors
  <2>2. Written(f, m)
    BY <2>1 DEF ReaderIInv, FilesWritten
  <2>3. t \in Seq(Entries) /\ Growing(t, m) /\ taken \in Histories
    BY DEF ReaderIInv, Told, Histories
  <2>4. m \in Nat
    BY LenProperties DEF ReaderIInv, FilesTyped
  <2>5. f \in Seq(Units) /\ Len(f) \in Nat
    BY <2>2, LenProperties DEF Written
  <2> QED BY <2>1, <2>2, <2>3, <2>4, <2>5
<1>3. /\ k \in o + MAX_TRANSCRIPT_READ_BYTES + 1 .. Len(f) /\ f[k].last
      /\ \A p \in o + MAX_TRANSCRIPT_READ_BYTES + 1 .. Len(f) : f[p].last => k <= p
  BY DEF OversizedEnds, FirstOf, Size
<1>4. k \in o + 1 .. Len(f) /\ k \in Nat /\ k \in 1 .. Len(f) /\ o < k
  BY <1>1, <1>2, <1>3
<1>5. /\ ChunkIn(c, f, o, lost) /\ PlaceIn(t, f, o, lost) /\ Reached(a) = o
  <2>1. Reached(a) = o
    BY <1>1, <1>2 DEF Reached
  <2>2. ChunkIn(c, f, o, lost)
    BY DEF ReaderIInv, ChunkPlaced
  <2>3. PlaceIn(t, f, Reached(a), lost)
    BY <1>1 DEF ReaderIInv, Placed
  <2> QED BY <2>1, <2>2, <2>3
<1>6. a \notin outgrown /\ ~lost => Accounted(t, f, o)
  BY <1>1, <1>5, KeptAccounted DEF ReaderIInv, EveryLineOnce
<1>7. a \notin outgrown' => Len(c) >= MAX_TRANSCRIPT_READ_BYTES
  BY <1>1 DEF Outgrown
<1>8. lost = (i \in cut)
  OBVIOUS
<1> HIDE DEF i, o, f, c, t, m, lost
<1>9. /\ o + 1 \in 1 .. Len(f) /\ n \in 1 .. m
      /\ \A p \in k + 1 .. Len(f) : n < f[p].no
      /\ (\A p \in o + 1 .. k - 1 : ~f[p].last) => f[k].no = n
  BY <1>2, <1>3, <1>4, OneLine
<1>10. e \in Entries /\ e.no = n /\ e.end = k /\ e.as = "dropped" /\ e.use = 0
  BY <1>4, <1>9 DEF Entries
<1> HIDE DEF n, e
<1>11. \A j \in 1 .. Len(t) : t[j].no < n
  <2>1. o + 1 \in o + 1 .. Len(f) /\ o + 1 \in 0 + 1 .. Len(f)
    BY <1>2, <1>9
  <2> QED BY <2>1, <1>5 DEF PlaceIn, Older, n
<1>12. PlaceIn(Append(t, e), f, k, lost)
  <2>1. Older(Append(t, e), f, k)
    <3>1. \A p \in k + 1 .. Len(f) : e.no < f[p].no
      BY <1>9, <1>10
    <3>2. CASE Older(t, f, o)
      BY <3>1, <3>2, <1>2, <1>4, <1>10, MoreOlder
    <3>3. CASE Older(t, f, 0)
      BY <3>1, <3>3, <1>2, <1>4, <1>10, MoreOlder
    <3> QED BY <3>2, <3>3, <1>5 DEF PlaceIn
  <2>2. k \in Ends(f)
    BY <1>3, <1>4 DEF Ends
  <2> QED BY <2>1, <2>2 DEF PlaceIn
<1>13. ASSUME a \notin outgrown', ~lost PROVE Accounted(Append(t, e), f, k)
  <2>1. InFile(c, f, o) /\ Len(c) >= MAX_TRANSCRIPT_READ_BYTES
    BY <1>5, <1>7, <1>13 DEF ChunkIn
  <2>2. a \notin outgrown
    BY <1>13
  <2>3. \A p \in o + 1 .. k - 1 : ~f[p].last
    <3> TAKE p \in o + 1 .. k - 1
    <3>1. CASE p <= o + MAX_TRANSCRIPT_READ_BYTES
      <4>1. p - o \in 1 .. Len(c) /\ o + (p - o) = p
        BY <3>1, <2>1, <1>1, <1>2, <1>4
      <4>2. f[p] = c[p - o]
        BY <4>1, <2>1 DEF InFile
      <4>3. ~c[p - o].last
        BY <4>1 DEF Ends, c
      <4> QED BY <4>2, <4>3
    <3>2. CASE p > o + MAX_TRANSCRIPT_READ_BYTES
      <4>1. p \in o + MAX_TRANSCRIPT_READ_BYTES + 1 .. Len(f) /\ ~(k <= p)
        BY <3>2, <1>1, <1>2, <1>4
      <4> QED BY <4>1, <1>3
    <3> QED BY <3>1, <3>2, <1>1, <1>2, <1>4
  <2>4. \A p \in o + 1 .. k - 1 : p \notin Ends(f)
    BY <2>3 DEF Ends
  <2>5. k \in Ends(f) /\ e.no = f[k].no
    BY <2>3, <1>3, <1>4, <1>9, <1>10 DEF Ends
  <2>6. Accounted(t, f, o)
    BY <2>2, <1>6, <1>13
  <2> QED BY <2>4, <2>5, <2>6, <1>2, <1>4, <1>10, MoreAccounted
<1>14. Sound(a, e)
  BY <1>9, <1>10, <1>11, <1>12 DEF Sound, t, f, i, lost, m
<1>15. /\ cursor' \in Cursors /\ cursor'[a].inode = cursor[a].inode /\ cursor'[a].offset = k
       /\ \A b \in Aliases \ {a} : cursor'[b] = cursor[b]
  BY <1>2, <1>4 DEF Cursors
<1>16. Bare(read') /\ read'.pc = "idle" /\ read'.alias = Gone
  BY LeaveBare DEF Leave, NoRead
<1>17. Accounts(a, e)
  <2>1. taken' = [taken EXCEPT ![a] = Append(@, e)]
    BY DEF Entry, e, n, f, i, o
  <2>2. Registered(a)'
    BY <1>2, <1>15, ReaderAssumption DEF Registered, NoCursor, Inodes, i
  <2>3. Reached(a)' = e.end
    BY <1>4, <1>10, <1>15, <1>16, ReaderAssumption DEF Reached
  <2>4. ASSUME NEW b \in Aliases \ {a}
        PROVE  Reached(b)' = Reached(b) /\ (Registered(b)' <=> Registered(b))
    BY <1>15, <1>16, ReaderAssumption DEF Reached, Registered
  <2>5. outgrown \subseteq outgrown'
    OBVIOUS
  <2> QED BY <2>1, <2>2, <2>3, <2>4, <2>5, <1>1, <1>15 DEF Accounts
<1>18. FilesTyped' /\ CursorsTyped' /\ Placed' /\ Told' /\ CorrectionsPaired' /\ EveryLineOnce'
  <2>1. a \in outgrown' \/ cursor[a].inode \in cut \/
            Accounted(Append(taken[a], e), disk[cursor[a].inode], e.end)
    BY <1>10, <1>13 DEF lost, i, f, t
  <2> QED BY <2>1, <1>1, <1>14, <1>17, AccountsKeep
<1>19. ReadTyped' /\ FilesWritten' /\ ChunkPlaced'
  <2>1. \A j \in Inodes : Written(disk'[j], Len(lines'))
    BY DEF ReaderIInv, FilesWritten, writer
  <2> QED BY <2>1, <1>16, BareKeeps
<1>20. PoolTyped'
  BY DEF ReaderIInv, PoolTyped
<1>21. Waiting'
  <2>1. taken' = [taken EXCEPT ![a] = Append(@, e)] /\ lines' = lines /\ pending' = pending
    BY DEF Entry, e, n, f, i, o, writer
  <2>2. ASSUME NEW u \in pending
        PROVE  /\ Registered(u.alias)' /\ u.no \in 1 .. Len(lines') /\ lines'[u.no].kind = "use"
               /\ lines'[u.no].use = u.use /\ ReadOf(taken'[u.alias], u.no)
    <3>1. /\ Registered(u.alias) /\ u.no \in 1 .. m /\ lines[u.no].kind = "use"
          /\ lines[u.no].use = u.use /\ ReadOf(taken[u.alias], u.no) /\ u.alias \in Aliases
      BY DEF ReaderIInv, Waiting, PoolTyped, Uses, m
    <3>2. Registered(u.alias)'
      BY <1>17, <3>1 DEF Accounts
    <3>3. CASE u.alias = a
      <4>1. taken'[a] = Append(t, e) /\ e.use # u.no
        BY <1>2, <1>10, <2>1, <3>1 DEF Histories, t
      <4>2. ReadOf(Append(t, e), u.no)
        BY <1>2, <1>10, <3>1, <3>3, <4>1, ReadOfMore DEF t
      <4> QED BY <2>1, <3>1, <3>2, <3>3, <4>1, <4>2 DEF m
    <3>4. CASE u.alias # a
      <4>1. taken'[u.alias] = taken[u.alias]
        BY <1>2, <2>1, <3>1, <3>4 DEF Histories
      <4> QED BY <2>1, <3>1, <3>2, <4>1 DEF m
    <3> QED BY <3>3, <3>4
  <2> QED BY <2>1, <2>2 DEF Waiting
<1> QED BY <1>18, <1>19, <1>20, <1>21 DEF ReaderIInv

LEMMA SettleKeeps ==
    ASSUME ReaderIInv, NEW a \in Aliases, Settle(a) PROVE ReaderIInv'
<1> DEFINE i == cursor[a].inode
<1> DEFINE beyond == OversizedEnds(i, cursor[a].offset)
<1>1. /\ read.pc = "settle" /\ read.alias = a /\ UNCHANGED <<writer, waits, closed>>
      /\ outgrown' = IF Outgrown(a) THEN outgrown \cup {a} ELSE outgrown
      /\ read.next = 0 /\ Registered(a) /\ read \in ReadSet
  BY DEF Settle, ReaderIInv, ReadTyped
<1>2. outgrown \subseteq outgrown'
  BY <1>1
<1>3. CASE Reregister(a, Leave)
  <2>1. Leave => Bare(read') /\ read'.pc = "idle"
    BY LeaveBare DEF Leave, NoRead
  <2> QED BY <1>1, <1>2, <1>3, <2>1, ReregisterKeeps DEF Reregister
<1>4. CASE GoOn("lines", a) /\ UNCHANGED <<cursor, pending, opened, taken>>
  <2>1. /\ read' \in ReadSet /\ read'.pc = "lines" /\ read'.alias = a /\ read'.chunk = read.chunk
        /\ read'.next = read.next
    BY <1>1, <1>4 DEF GoOn, ReadSet, Pcs
  <2>2. Unmoved
    <3>1. \A b \in Aliases : Reached(b)' = Reached(b)
      BY <1>1, <1>4, <2>1 DEF Reached
    <3> QED BY <1>1, <1>2, <1>4, <3>1 DEF Unmoved, Registered, ReaderIInv, CursorsTyped
  <2>3. ReadTyped'
    <3>1. Registered(a)'
      BY <1>1, <1>4 DEF Registered
    <3> QED BY <1>1, <2>1, <3>1 DEF ReaderIInv, ReadTyped
  <2>4. FilesWritten'
    BY <1>1, <2>1 DEF ReaderIInv, FilesWritten, writer
  <2>5. ChunkPlaced'
    BY <1>1, <1>4, <2>1 DEF ReaderIInv, ChunkPlaced, writer
  <2> QED BY <2>2, <2>3, <2>4, <2>5, UnmovedKeeps DEF ReaderIInv
<1>5. CASE Leave /\ UNCHANGED <<cursor, pending, opened, taken>>
  <2>1. Bare(read') /\ read'.pc = "idle"
    BY <1>5, LeaveBare DEF Leave, NoRead
  <2> QED BY <1>1, <1>2, <1>5, <2>1, QuietKeeps
<1>6. ASSUME Ends(read.chunk) = {}, Leave, UNCHANGED <<pending, opened>>,
             NEW k \in beyond, FirstOf(beyond, k), cursor' = [cursor EXCEPT ![a].offset = k],
             Entry(a, disk[i][cursor[a].offset + 1].no, k, "dropped", 0)
      PROVE  ReaderIInv'
  BY <1>1, <1>6, OversizedKeeps
<1> QED BY <1>3, <1>4, <1>5, <1>6 DEF Settle

------------------------------------------------------------------------------
LEMMA ReaderStarts == ASSUME ReaderInit PROVE ReaderIInv
<1> USE DEF ReaderInit
<1>0. /\ Len(<<>>) = 0 /\ <<>> \in Seq(Units)
      /\ <<>> \in Seq(Lines) /\ <<>> \in Seq(Entries)
  BY EmptySeq
<1>1. FilesTyped
  BY <1>0 DEF FilesTyped
<1>2. \A a \in Aliases : ~Registered(a)
  BY DEF Registered
<1>3. CursorsTyped
  <2>1. cursor \in Cursors
    BY ReaderAssumption DEF Cursors, NoCursor
  <2>2. {a \in Aliases : Registered(a)} = {}
    BY <1>2
  <2>3. opened = Cardinality({a \in Aliases : Registered(a)})
    BY <2>2, FS_EmptySet
  <2> QED BY <1>2, <2>1, <2>3 DEF CursorsTyped
<1>4. Bare(read) /\ read.pc = "idle"
  BY LeaveBare DEF NoRead
<1>5. ReadTyped
  BY <1>0, <1>4, ReaderAssumption DEF ReadTyped, Bare
<1>6. PoolTyped /\ Waiting
  BY FS_EmptySet, ReaderAssumption DEF PoolTyped, Waiting
<1>7. FilesWritten
  BY <1>4, NothingIn DEF FilesWritten, Bare
<1>8. ChunkPlaced /\ Placed /\ EveryLineOnce
  BY <1>2, <1>4 DEF ChunkPlaced, Placed, EveryLineOnce
<1>9. Told /\ CorrectionsPaired
  BY <1>0 DEF Told, Growing, Histories, CorrectionsPaired
<1> QED BY <1>1, <1>3, <1>5, <1>6, <1>7, <1>8, <1>9 DEF ReaderIInv

LEMMA ReaderKeeps == ASSUME ReaderIInv, ReaderNext PROVE ReaderIInv'
<1>1. CASE Writer
  BY <1>1, WriterKeeps
<1>2. CASE Close
  BY <1>2, CloseKeeps
<1>3. ASSUME NEW a \in Aliases,
             \/ Register(a) \/ Approach(a) \/ Look(a) \/ Reopen(a) \/ Measure(a) \/ Take(a) \/ Settle(a)
             \/ NextLine(a) \/ MoveOn(a)
      PROVE  ReaderIInv'
  BY <1>3, RegisterKeeps, ApproachKeeps, LookKeeps, ReopenKeeps, MeasureKeeps, TakeKeeps, SettleKeeps,
     NextLineKeeps, MoveOnKeeps
<1> QED BY <1>1, <1>2, <1>3 DEF ReaderNext, Reader

LEMMA ReaderStays == ASSUME ReaderIInv, UNCHANGED readerVars PROVE ReaderIInv'
<1> USE DEF readerVars, writer, transcripts
<1>1. FilesTyped' /\ CursorsTyped' /\ PoolTyped' /\ FilesWritten'
  BY DEF ReaderIInv, FilesTyped, CursorsTyped, PoolTyped, FilesWritten, Registered
<1>2. ReadTyped' /\ Told' /\ Waiting'
  BY DEF ReaderIInv, ReadTyped, Told, Waiting, Registered
<1>3. ChunkPlaced' /\ Placed'
  BY DEF ReaderIInv, ChunkPlaced, Placed, Registered, Reached
<1>4. CorrectionsPaired'
  BY DEF ReaderIInv, CorrectionsPaired
<1>5. EveryLineOnce'
  BY DEF ReaderIInv, EveryLineOnce, LinesKept, Registered, Reached
<1> QED BY <1>1, <1>2, <1>3, <1>4, <1>5 DEF ReaderIInv

\* The types and the bounds of the reader follow from its invariant.
LEMMA ReaderTypes == ASSUME ReaderIInv PROVE ReaderTypeOK
<1>1. \A a \in Aliases : path[a] \in Inodes \cup {Gone} /\ cursor[a].offset \in Nat
  BY DEF ReaderIInv, FilesTyped, CursorsTyped, Cursors
<1> QED BY <1>1 DEF ReaderIInv, CursorsTyped, PoolTyped, ReaderTypeOK

\* The invariant holds of the reader by itself, whatever Factory and mischances do to the files.
THEOREM ReaderInvariant == ReaderSpec => []ReaderIInv
<1>1. ReaderInit => ReaderIInv
  BY ReaderStarts
<1>2. ReaderIInv /\ [ReaderNext]_readerVars => ReaderIInv'
  BY ReaderKeeps, ReaderStays
<1> QED BY <1>1, <1>2, PTL DEF ReaderSpec

\* It holds where MCEvidence checks the reader beside the relations of a Mission.
THEOREM TranscriptsInvariant == Spec => []ReaderIInv
<1>1. Init => ReaderIInv
  BY ReaderStarts DEF Init
<1>2. ReaderIInv /\ [Next]_<<part, relationVars, readerVars>> => ReaderIInv'
  BY ReaderKeeps, ReaderStays DEF Next
<1> QED BY <1>1, <1>2, PTL DEF Spec

\* A result is paired with a use read before it from the same file of the same
\* transcript, under the same id, and no use has two results
\* (transcript.py, _pair_factory_tool).
THEOREM AlwaysPaired == Spec => []CorrectionsPaired
<1>1. ReaderIInv => CorrectionsPaired
  BY DEF ReaderIInv
<1> QED BY <1>1, TranscriptsInvariant, PTL

\* As long as its file was only appended to, and by less than a chunk while it was
\* read, a transcript accounts for every line once and in order; there are as many
\* descriptors as cursors, and the pool of uses keeps its bound (transcript.py,
\* read_primary and _oversized_line_end).
THEOREM AlwaysReadOnce == Spec => []LinesReadOnce
<1>1. ReaderIInv => LinesReadOnce
  BY ReaderTypes DEF LinesReadOnce, ReaderIInv
<1> QED BY <1>1, TranscriptsInvariant, PTL

\* Whatever happened to its file, a transcript never accounts for a line twice: the
\* numbers of the lines it accounted for since it was registered grow.
THEOREM NeverTwice ==
    Spec => [](\A a \in Aliases : \A k \in 1 .. Len(taken[a]) :
                    \A j \in 1 .. k - 1 : taken[a][j].no < taken[a][k].no)
<1>1. ReaderIInv => \A a \in Aliases : \A k \in 1 .. Len(taken[a]) :
                        \A j \in 1 .. k - 1 : taken[a][j].no < taken[a][k].no
  BY DEF ReaderIInv, Told, Growing
<1> QED BY <1>1, TranscriptsInvariant, PTL
==============================================================================
