------------------------- MODULE IntelligenceProofs -------------------------
(***************************************************************************)
(* Proofs about Intelligence, for any passes, assets and settings.  Flags   *)
(* travel: from a pass's query into its drafts, from there into what its    *)
(* transaction wrote, at the commit into the rows, and with an upsert that  *)
(* read a row out of it and back into it later.  A flag is sound at every   *)
(* one of these places (Sound), and stays so because relations only grow.   *)
(***************************************************************************)
EXTENDS Intelligence, FiniteSetTheorems, WellFoundedInduction, TLAPS

(* A session as it should be, and what it has locked. *)
LockedWell(p, s) ==
  /\ DOMAIN s.own \subseteq s.held
  /\ \A q \in Pass \ {p} : pass[q].held \cap s.held = {}

-----------------------------------------------------------------------------
(* Settings name every module, whatever they are made from. *)
LEMMA OverType ==
  ASSUME NEW base \in [Toggle -> BOOLEAN], NEW block \in Block \cup {None}
  PROVE  Over(base, block) \in [Toggle -> BOOLEAN]
<1>1. CASE block = None
  BY <1>1 DEF Over
<1>2. CASE block # None
  <2>1. PICK S \in SUBSET Toggle : block \in [S -> BOOLEAN]
    BY <1>2 DEF Block
  <2>2. QED
    BY <1>2, <2>1 DEF Over
<1>3. QED
  BY <1>1, <1>2

LEMMA DefaultsType == Defaults \in [Toggle -> BOOLEAN]
BY DEF Defaults

(* A stored block is a block. *)
LEMMA TotalIsBlock == [Toggle -> BOOLEAN] \subseteq Block
BY DEF Block

(* A step that replaces the session of one pass keeps the types. *)
LEMMA SessionReplaced ==
  ASSUME TypeOK, NEW p \in Pass, NEW s,
         Becomes(p, s), SessionOK(s), LockedWell(p, s)
  PROVE  TypeOK'
<1>1. DOMAIN pass = Pass /\ \A q \in Pass : SessionOK(pass[q])
  BY DEF TypeOK
<1>2. DOMAIN pass' = Pass /\ pass'[p] = s /\ \A q \in Pass \ {p} : pass'[q] = pass[q]
  BY <1>1 DEF Becomes
<1>3. \A q \in Pass : SessionOK(pass'[q])
  BY <1>1, <1>2
<1>4. (\A q \in Pass : SessionOK(pass[q]))'
  BY <1>3 DEF SessionOK, Partial, IdlePass, Labels, Scans, Toggle, Block, DraftObject, Metadata,
              Observed, Intelligences, Row
<1>5. \A q, r \in Pass : q # r => pass'[q].held \cap pass'[r].held = {}
  BY <1>2 DEF TypeOK, LockedWell
<1>6. \A q \in Pass : DOMAIN pass'[q].own \subseteq pass'[q].held
  BY <1>2 DEF TypeOK, LockedWell
<1>7. QED
  BY <1>2, <1>4, <1>5, <1>6 DEF TypeOK, Becomes, world, Metadata, Observed, Intelligences

(* What a pass sees of a row is metadata. *)
LEMMA ViewType ==
  ASSUME TypeOK, NEW p \in Pass, NEW a \in Row
  PROVE  View(p, a) \in Metadata /\ Object(p, a) \in DraftObject
<1>1. SessionOK(pass[p]) /\ meta[a] \in Metadata
  BY DEF TypeOK
<1>2. View(p, a) \in Metadata
  BY <1>1 DEF View, SessionOK, Partial
<1>3. Object(p, a) \in DraftObject
  BY <1>1, <1>2 DEF Object, DraftObject, SessionOK, Partial
<1>4. QED
  BY <1>2, <1>3

-----------------------------------------------------------------------------
(* The steps of a pass that leave its drafts and its locks on rows alone. *)
LEMMA GotoType ==
  ASSUME TypeOK, NEW p \in Pass, NEW l \in Labels \ {"touch", "insert"}, Goto(p, l)
  PROVE  TypeOK'
<1>1. SessionOK(pass[p]) /\ LockedWell(p, pass[p])
  BY DEF TypeOK, LockedWell
<1> DEFINE s == [pass[p] EXCEPT !.pc = l]
<1>2. SessionOK(s) /\ LockedWell(p, s)
  BY <1>1 DEF SessionOK, IdlePass, LockedWell
<1>3. QED
  BY <1>2, SessionReplaced DEF Goto

LEMMA StartType ==
  ASSUME TypeOK, NEW p \in Pass, Start(p)
  PROVE  TypeOK'
<1>1. SessionOK(pass[p]) /\ LockedWell(p, pass[p])
  BY DEF TypeOK, LockedWell
<1>2. PICK r \in Requests :
        Becomes(p, [pass[p] EXCEPT !.pc = "hot", !.scan = <<program, r[1], r[2]>>,
                                   !.options = MergedOptions(program, r[1], r[2])])
  BY DEF Start
<1>3. r[1] \in Block \cup {None} /\ r[2] \in Block \cup {None} /\ program \in [Toggle -> BOOLEAN]
  BY IntelligenceAssumption DEF TypeOK
<1>4. MergedOptions(program, r[1], r[2]) \in [Toggle -> BOOLEAN]
  BY <1>3, OverType, DefaultsType, TotalIsBlock DEF MergedOptions
<1> DEFINE s == [pass[p] EXCEPT !.pc = "hot", !.scan = <<program, r[1], r[2]>>,
                                !.options = MergedOptions(program, r[1], r[2])]
<1>5. <<program, r[1], r[2]>> \in Scans
  BY <1>3 DEF Scans
<1>6. SessionOK(s) /\ LockedWell(p, s)
  BY <1>1, <1>4, <1>5 DEF SessionOK, IdlePass, LockedWell, Labels
<1>7. QED
  BY <1>2, <1>6, SessionReplaced

LEMMA FindingStepType ==
  ASSUME TypeOK, NEW p \in Pass,
         ScanTakeover(p) \/ SelectFinding(p) \/ TouchFinding(p) \/ InsertFinding(p)
  PROVE  TypeOK'
<1>1. SessionOK(pass[p]) /\ LockedWell(p, pass[p])
  BY DEF TypeOK, LockedWell
<1>2. CASE ScanTakeover(p)
  <2> DEFINE found == {x \in Sub : View(p, x).observed.dangling}
             s == [pass[p] EXCEPT !.pc = "report", !.signals = found, !.todo = found]
  <2>1. CASE Becomes(p, s)
    <3>1. SessionOK(s) /\ LockedWell(p, s)
      BY <1>1 DEF SessionOK, IdlePass, LockedWell, Labels
    <3>2. QED
      BY <2>1, <3>1, SessionReplaced
  <2>2. CASE Goto(p, "cloud")
    BY <2>2, GotoType DEF Labels
  <2>3. QED
    BY <1>2, <2>1, <2>2 DEF ScanTakeover
<1>3. CASE SelectFinding(p)
  <2>1. PICK x \in pass[p].todo :
          Becomes(p, [pass[p] EXCEPT !.pc = FindingStatement(p, x), !.at = x, !.todo = @ \ {x}])
    BY <1>3 DEF SelectFinding
  <2> DEFINE s == [pass[p] EXCEPT !.pc = FindingStatement(p, x), !.at = x, !.todo = @ \ {x}]
  <2>2. SessionOK(s) /\ LockedWell(p, s)
    BY <1>1 DEF SessionOK, IdlePass, LockedWell, Labels, FindingStatement
  <2>3. QED
    BY <2>1, <2>2, SessionReplaced
<1>4. CASE TouchFinding(p)
  <2> DEFINE s == [pass[p] EXCEPT !.pc = "report", !.touched = @ \cup {pass[p].at}]
  <2>1. SessionOK(s) /\ LockedWell(p, s)
    BY <1>1, <1>4 DEF SessionOK, IdlePass, LockedWell, Labels, TouchFinding
  <2>2. QED
    BY <1>4, <2>1, SessionReplaced DEF TouchFinding
<1>5. CASE InsertFinding(p)
  <2> DEFINE s == [pass[p] EXCEPT !.pc = "report", !.created = @ \cup {pass[p].at}]
  <2>1. SessionOK(s) /\ LockedWell(p, s)
    BY <1>1, <1>5 DEF SessionOK, IdlePass, LockedWell, Labels, InsertFinding
  <2>2. QED
    BY <1>5, <2>1, SessionReplaced DEF InsertFinding
<1>6. QED
  BY <1>2, <1>3, <1>4, <1>5

-----------------------------------------------------------------------------
(* The steps of a pass on its drafts. *)
LEMMA SubsOfFinite ==
  ASSUME NEW i
  PROVE  IsFiniteSet(SubsOf(i)) /\ Cardinality(SubsOf(i)) \in Nat /\ SubsOf(i) \subseteq Sub
<1>1. SubsOf(i) \subseteq Sub
  BY DEF SubsOf
<1>2. IsFiniteSet(SubsOf(i))
  BY <1>1, FS_Subset, IntelligenceAssumption
<1>3. QED
  BY <1>1, <1>2, FS_CardinalityType

LEMMA FlaggedType ==
  ASSUME NEW o \in DraftObject, NEW h \in [ip : Ip, count : Nat]
  PROVE  /\ Flagged(o, h) \in DraftObject /\ Flagged(o, h).loaded = o.loaded
         /\ Flagged(o, h).now.intelligence.ip = h.ip
         /\ Flagged(o, h).now.intelligence.count = h.count
BY DEF Flagged, DraftObject, Metadata, Intelligences

LEMMA TaggedType ==
  ASSUME NEW o \in DraftObject
  PROVE  /\ Tagged(o) \in DraftObject /\ Tagged(o).loaded = o.loaded
         /\ Tagged(o).now.intelligence.ip = o.now.intelligence.ip
         /\ Tagged(o).now.intelligence.count = o.now.intelligence.count
BY DEF Tagged, DraftObject, Metadata, Intelligences, Observed

LEMMA FindHotIpsType ==
  ASSUME TypeOK, NEW p \in Pass, FindHotIps(p)
  PROVE  TypeOK'
<1>1. SessionOK(pass[p]) /\ LockedWell(p, pass[p])
  BY DEF TypeOK, LockedWell
<1> DEFINE s == [pass[p] EXCEPT !.pc = "flag", !.hot = HotIps]
<1>2. CASE Becomes(p, s)
  <2>1. HotIps \subseteq [ip : Ip, count : Nat]
    BY SubsOfFinite DEF HotIps
  <2>2. SessionOK(s) /\ LockedWell(p, s)
    BY <1>1, <2>1 DEF SessionOK, IdlePass, LockedWell, Labels
  <2>3. QED
    BY <1>2, <2>2, SessionReplaced
<1>3. CASE Goto(p, "takeover")
  BY <1>3, GotoType DEF Labels
<1>4. QED
  BY <1>2, <1>3 DEF FindHotIps

LEMMA FlagIpType ==
  ASSUME TypeOK, NEW p \in Pass, FlagIp(p)
  PROVE  TypeOK'
<1>1. SessionOK(pass[p]) /\ LockedWell(p, pass[p])
  BY DEF TypeOK, LockedWell
<1> DEFINE old == pass[p]
           drafts(h) == [a \in DOMAIN old.draft \cup SubsOf(h.ip) |->
                           IF a \in SubsOf(h.ip) THEN Flagged(Object(p, a), h) ELSE old.draft[a]]
           s(h) == [old EXCEPT !.hot = @ \ {h}, !.draft = drafts(h)]
<1>2. PICK h \in old.hot : Becomes(p, s(h))
  BY DEF FlagIp
<1>3. h \in [ip : Ip, count : Nat] /\ SubsOf(h.ip) \subseteq Row /\ DOMAIN old.draft \subseteq Row
  BY <1>1, SubsOfFinite DEF SessionOK, Partial, Row
<1>4. \A a \in SubsOf(h.ip) : Flagged(Object(p, a), h) \in DraftObject
  BY <1>3, ViewType, FlaggedType
<1>5. Partial(drafts(h), DraftObject)
  BY <1>1, <1>3, <1>4 DEF SessionOK, Partial
<1>6. SessionOK(s(h)) /\ LockedWell(p, s(h))
  <2> HIDE DEF drafts
  <2>1. QED
    BY <1>1, <1>5 DEF SessionOK, IdlePass, LockedWell
<1>7. QED
  BY <1>2, <1>6, SessionReplaced

LEMMA UpdateRowType ==
  ASSUME TypeOK, NEW p \in Pass, UpdateRow(p)
  PROVE  TypeOK'
<1>1. SessionOK(pass[p]) /\ LockedWell(p, pass[p])
  BY DEF TypeOK, LockedWell
<1> DEFINE old == pass[p]
           rest(a) == [b \in DOMAIN old.draft \ {a} |-> old.draft[b]]
           s(a) == [old EXCEPT !.held = @ \cup {a}, !.own = Written(p, a), !.draft = rest(a)]
<1>2. PICK a \in Row : NextRow(p, a) /\ (\A q \in Pass \ {p} : a \notin pass[q].held)
                        /\ Becomes(p, s(a))
  BY DEF UpdateRow
<1>3. a \in DOMAIN old.draft /\ old.draft[a] \in DraftObject /\ old.draft[a].now \in Metadata
  BY <1>1, <1>2 DEF NextRow, SessionOK, Partial, DraftObject
<1>4. Partial(rest(a), DraftObject)
  BY <1>1 DEF SessionOK, Partial
<1>5. Partial(Written(p, a), Metadata) /\ DOMAIN Written(p, a) \subseteq old.held \cup {a}
  BY <1>1, <1>3 DEF Written, SessionOK, Partial, LockedWell
<1>6. SessionOK(s(a)) /\ LockedWell(p, s(a))
  <2> HIDE DEF rest
  <2>1. QED
    BY <1>1, <1>2, <1>4, <1>5 DEF SessionOK, IdlePass, LockedWell
<1>7. QED
  BY <1>2, <1>6, SessionReplaced

LEMMA TagCloudType ==
  ASSUME TypeOK, NEW p \in Pass, TagCloud(p)
  PROVE  TypeOK'
<1>1. SessionOK(pass[p]) /\ LockedWell(p, pass[p])
  BY DEF TypeOK, LockedWell
<1> DEFINE hosted == {a \in Row : View(p, a).observed.vendor # None}
           drafts == [a \in hosted |-> Tagged(Object(p, a))]
           s == [pass[p] EXCEPT !.pc = "cloud_flush", !.draft = drafts]
<1>2. CASE Becomes(p, s)
  <2>1. Partial(drafts, DraftObject)
    BY ViewType, TaggedType DEF Partial
  <2>2. SessionOK(s) /\ LockedWell(p, s)
    <3> HIDE DEF drafts
    <3>1. QED
      BY <1>1, <2>1 DEF SessionOK, IdlePass, LockedWell, Labels
  <2>3. QED
    BY <1>2, <2>2, SessionReplaced
<1>3. CASE Goto(p, "commit")
  BY <1>3, GotoType DEF Labels
<1>4. QED
  BY <1>2, <1>3 DEF TagCloud

-----------------------------------------------------------------------------
(* The end of a pass. *)
LEMMA EndedType ==
  ASSUME TypeOK, NEW p \in Pass, NEW how \in {"done", "failed"}
  PROVE  SessionOK(Ended(p, how)) /\ LockedWell(p, Ended(p, how))
<1>1. SessionOK(pass[p])
  BY DEF TypeOK
<1>2. Partial(NoDraft, DraftObject) /\ Partial(NoDraft, Metadata) /\ DOMAIN NoDraft = {}
  BY DEF Partial, NoDraft
<1>3. QED
  BY <1>1, <1>2 DEF Ended, IdlePass, SessionOK, LockedWell, Labels

LEMMA CommitType ==
  ASSUME TypeOK, NEW p \in Pass, Commit(p)
  PROVE  TypeOK'
<1> DEFINE s == Ended(p, "done")
<1>1. SessionOK(s) /\ LockedWell(p, s) /\ SessionOK(pass[p])
  BY EndedType DEF TypeOK
<1>2. DOMAIN pass = Pass /\ \A q \in Pass : SessionOK(pass[q])
  BY DEF TypeOK
<1>3. pass' = [pass EXCEPT ![p] = s]
  BY DEF Commit
<1>4. DOMAIN pass' = Pass /\ pass'[p] = s /\ \A q \in Pass \ {p} : pass'[q] = pass[q]
  <2> HIDE DEF s
  <2>1. QED
    BY <1>2, <1>3
<1>5. \A q \in Pass : SessionOK(pass'[q])
  BY <1>1, <1>2, <1>4
<1>6. (\A q \in Pass : SessionOK(pass[q]))'
  BY <1>5 DEF SessionOK, Partial, IdlePass, Labels, Scans, Toggle, Block, DraftObject, Metadata,
              Observed, Intelligences, Row
<1>7. \A q, r \in Pass : q # r => pass'[q].held \cap pass'[r].held = {}
  <2> HIDE DEF s
  <2>1. QED
    BY <1>1, <1>4 DEF TypeOK, LockedWell
<1>8. \A q \in Pass : DOMAIN pass'[q].own \subseteq pass'[q].held
  <2> HIDE DEF s
  <2>1. QED
    BY <1>1, <1>4 DEF TypeOK, LockedWell
<1>9. meta' \in [Row -> Metadata] /\ findings' \subseteq Sub
  BY <1>1, ViewType DEF Commit, TypeOK, SessionOK
<1>10. QED
  BY <1>4, <1>6, <1>7, <1>8, <1>9 DEF TypeOK, Commit, Metadata, Observed, Intelligences

LEMMA PassStepType ==
  ASSUME TypeOK, NEW p \in Pass, Start(p) \/ Step(p) \/ Victim(p)
  PROVE  TypeOK'
<1>1. CASE Start(p)
  BY <1>1, StartType
<1>2. CASE FindHotIps(p) \/ FlagIp(p) \/ UpdateRow(p) \/ TagCloud(p) \/ Commit(p)
  BY <1>2, FindHotIpsType, FlagIpType, UpdateRowType, TagCloudType, CommitType
<1>3. CASE Flushed(p) \/ Reported(p)
  BY <1>3, GotoType DEF Flushed, Reported, Labels
<1>4. CASE ScanTakeover(p) \/ SelectFinding(p) \/ TouchFinding(p) \/ InsertFinding(p)
  BY <1>4, FindingStepType
<1>5. CASE Conflict(p) \/ Victim(p)
  BY <1>5, EndedType, SessionReplaced DEF Conflict, Victim
<1>6. QED
  BY <1>1, <1>2, <1>3, <1>4, <1>5 DEF Step

(* Steps beside the passes. *)
LEMMA WorldStepType ==
  ASSUME TypeOK, PatchProgram \/ Resolve \/ UpsertRead \/ UpsertWrite
  PROVE  TypeOK'
<1>1. UNCHANGED pass
  BY DEF PatchProgram, Resolve, UpsertRead, UpsertWrite
<1>2. /\ DOMAIN pass' = Pass /\ (\A p \in Pass : SessionOK(pass[p]))'
      /\ (\A p, q \in Pass : p # q => pass[p].held \cap pass[q].held = {})'
      /\ (\A p \in Pass : DOMAIN pass[p].own \subseteq pass[p].held)'
  BY <1>1 DEF TypeOK, SessionOK, Partial, IdlePass, Labels, Scans, Toggle, Block, DraftObject,
              Metadata, Observed, Intelligences, Row
<1>3. CASE PatchProgram
  <2>1. PICK b \in Blocks : program' = PatchedSettings(program, b)
    BY <1>3 DEF PatchProgram
  <2>2. b \in Block /\ program \in Block
    BY <2>1, TotalIsBlock, IntelligenceAssumption DEF TypeOK
  <2>3. program' \in [Toggle -> BOOLEAN]
    BY <2>1, <2>2, OverType, DefaultsType DEF PatchedSettings
  <2>4. changes' \in 0 .. MaxChanges
    BY <1>3, IntelligenceAssumption DEF PatchProgram, Changes, TypeOK
  <2>5. QED
    BY <1>2, <1>3, <2>3, <2>4 DEF TypeOK, PatchProgram
<1>4. CASE Resolve
  <2>1. changes' \in 0 .. MaxChanges /\ resolves' \subseteq Relation
    BY <1>4, IntelligenceAssumption DEF Resolve, Changes, TypeOK
  <2>2. QED
    BY <1>2, <1>4, <2>1 DEF TypeOK, Resolve
<1>5. CASE UpsertRead
  <2>1. changes' \in 0 .. MaxChanges
    BY <1>5, IntelligenceAssumption DEF UpsertRead, Changes, TypeOK
  <2>2. upsert' \in [row : Row, meta : Metadata]
    BY <1>5 DEF UpsertRead, TypeOK, Metadata
  <2>3. QED
    BY <1>2, <1>5, <2>1, <2>2 DEF TypeOK, UpsertRead
<1>6. CASE UpsertWrite
  <2>1. upsert' = None /\ meta' \in [Row -> Metadata]
    BY <1>6 DEF UpsertWrite, TypeOK
  <2>2. QED
    BY <1>2, <1>6, <2>1 DEF TypeOK, UpsertWrite
<1>7. QED
  BY <1>3, <1>4, <1>5, <1>6

LEMMA InitType == Init => TypeOK
<1> SUFFICES ASSUME Init
             PROVE  TypeOK
  OBVIOUS
<1>1. program \in [Toggle -> BOOLEAN]
  <2>1. PICK b \in Blocks \cup {None} : program = CreatedSettings(b)
    BY DEF Init
  <2>2. b \in Block \cup {None}
    BY <2>1, IntelligenceAssumption
  <2>3. QED
    BY <2>1, <2>2, OverType, DefaultsType DEF CreatedSettings
<1>2. NoFlags \in Intelligences
  BY DEF NoFlags, Intelligences
<1>3. meta \in [Row -> Metadata]
  <2>1. PICK o \in Observations :
          meta = [a \in Row |-> [observed |-> o[a], intelligence |-> NoFlags]]
    BY DEF Init
  <2>2. o \in [Row -> Observed]
    BY <2>1, IntelligenceAssumption
  <2>3. QED
    BY <1>2, <2>1, <2>2 DEF Metadata
<1>4. Partial(NoDraft, DraftObject) /\ Partial(NoDraft, Metadata) /\ DOMAIN NoDraft = {}
  BY DEF Partial, NoDraft
<1>5. \A p \in Pass : pass[p] = IdlePass
  BY DEF Init
<1>6. SessionOK(IdlePass) /\ IdlePass.held = {} /\ DOMAIN IdlePass.own = {}
  BY <1>4 DEF SessionOK, IdlePass, Labels
<1>7. DOMAIN pass = Pass
  BY DEF Init
<1>8. QED
  BY <1>1, <1>3, <1>5, <1>6, <1>7, IntelligenceAssumption DEF Init, TypeOK

LEMMA TypeStep == TypeOK /\ [Next]_vars => TypeOK'
<1> SUFFICES ASSUME TypeOK, [Next]_vars
             PROVE  TypeOK'
  OBVIOUS
<1>1. CASE UNCHANGED vars
  BY <1>1 DEF TypeOK, vars, world, SessionOK, Partial, IdlePass, Labels, Scans, Toggle, Block,
              DraftObject, Metadata, Observed, Intelligences, Row
<1>2. CASE \E p \in Pass : Start(p) \/ Step(p) \/ Victim(p)
  BY <1>2, PassStepType
<1>3. CASE PatchProgram \/ Resolve \/ UpsertRead \/ UpsertWrite
  BY <1>3, WorldStepType
<1>4. QED
  BY <1>1, <1>2, <1>3 DEF Next, Terminating

(* The types, of every behaviour: the program's settings name every module *)
(* whatever is patched, and the rows' locks are exclusive.                 *)
THEOREM IntelligenceTypes == Spec => []TypeOK
<1>1. QED
  BY InitType, TypeStep, PTL DEF Spec

-----------------------------------------------------------------------------
(***************************************************************************)
(* Flags.                                                                  *)
(***************************************************************************)
SubsIn(rel, i) == {s \in Sub : <<s, i>> \in rel}

HotIn(rel, h) == Threshold < h.count /\ h.count <= Cardinality(SubsIn(rel, h.ip))

SoundIn(rel, a, block) == block.ip # None => <<a, block.ip>> \in rel /\ HotIn(rel, block)

SoundSession(rel, s) ==
  /\ \A a \in DOMAIN s.draft : /\ SoundIn(rel, a, s.draft[a].loaded.intelligence)
                               /\ SoundIn(rel, a, s.draft[a].now.intelligence)
  /\ \A a \in DOMAIN s.own : SoundIn(rel, a, s.own[a].intelligence)
  /\ \A h \in s.hot : HotIn(rel, h)

(* Flags are sound wherever they are kept. *)
Sound ==
  /\ \A a \in Row : SoundIn(resolves, a, meta[a].intelligence)
  /\ upsert # None => SoundIn(resolves, upsert.row, upsert.meta.intelligence)
  /\ \A p \in Pass : SoundSession(resolves, pass[p])

(* Relations are only ever added, which keeps flags sound. *)
LEMMA SoundGrows ==
  ASSUME NEW old \in SUBSET Relation, NEW new \in SUBSET Relation, old \subseteq new,
         NEW a, NEW block, block.ip # None => block.count \in Nat, SoundIn(old, a, block)
  PROVE  SoundIn(new, a, block)
<1> SUFFICES ASSUME block.ip # None
             PROVE  <<a, block.ip>> \in new /\ HotIn(new, block)
  BY DEF SoundIn
<1> DEFINE i == block.ip
<1>1. SubsIn(old, i) \subseteq SubsIn(new, i) /\ SubsIn(new, i) \subseteq Sub
  BY DEF SubsIn
<1>2. IsFiniteSet(SubsIn(new, i)) /\ IsFiniteSet(SubsIn(old, i))
  BY <1>1, FS_Subset, IntelligenceAssumption
<1>3. /\ Cardinality(SubsIn(old, i)) <= Cardinality(SubsIn(new, i))
      /\ Cardinality(SubsIn(old, i)) \in Nat /\ Cardinality(SubsIn(new, i)) \in Nat
  BY <1>1, <1>2, FS_Subset, FS_CardinalityType
<1>4. QED
  BY <1>3, IntelligenceAssumption DEF SoundIn, HotIn

LEMMA HotGrows ==
  ASSUME NEW old \in SUBSET Relation, NEW new \in SUBSET Relation, old \subseteq new,
         NEW h \in [ip : Ip, count : Nat], HotIn(old, h)
  PROVE  HotIn(new, h)
<1>1. SubsIn(old, h.ip) \subseteq SubsIn(new, h.ip) /\ SubsIn(new, h.ip) \subseteq Sub
  BY DEF SubsIn
<1>2. IsFiniteSet(SubsIn(new, h.ip)) /\ IsFiniteSet(SubsIn(old, h.ip))
  BY <1>1, FS_Subset, IntelligenceAssumption
<1>3. /\ Cardinality(SubsIn(old, h.ip)) <= Cardinality(SubsIn(new, h.ip))
      /\ Cardinality(SubsIn(old, h.ip)) \in Nat /\ Cardinality(SubsIn(new, h.ip)) \in Nat
  BY <1>1, <1>2, FS_Subset, FS_CardinalityType
<1>4. QED
  BY <1>3, IntelligenceAssumption DEF HotIn

LEMMA SessionGrows ==
  ASSUME NEW old \in SUBSET Relation, NEW new \in SUBSET Relation, old \subseteq new,
         NEW s, SessionOK(s), SoundSession(old, s)
  PROVE  SoundSession(new, s)
<1>1. \A a \in DOMAIN s.draft : /\ s.draft[a].loaded.intelligence.count \in Nat
                                /\ s.draft[a].now.intelligence.count \in Nat
  BY DEF SessionOK, Partial, DraftObject, Metadata, Intelligences
<1>2. \A a \in DOMAIN s.own : s.own[a].intelligence.count \in Nat
  BY DEF SessionOK, Partial, Metadata, Intelligences
<1>3. \A h \in s.hot : h \in [ip : Ip, count : Nat]
  BY DEF SessionOK
<1>4. QED
  BY <1>1, <1>2, <1>3, SoundGrows, HotGrows DEF SoundSession

-----------------------------------------------------------------------------
(* What a pass sees is sound, and so is what it makes of it. *)
LEMMA ViewSound ==
  ASSUME TypeOK, Sound, NEW p \in Pass, NEW a \in Row
  PROVE  /\ SoundIn(resolves, a, View(p, a).intelligence)
         /\ SoundIn(resolves, a, Object(p, a).loaded.intelligence)
         /\ SoundIn(resolves, a, Object(p, a).now.intelligence)
<1>1. SoundSession(resolves, pass[p]) /\ SoundIn(resolves, a, meta[a].intelligence)
  BY DEF Sound
<1>2. SoundIn(resolves, a, View(p, a).intelligence)
  BY <1>1 DEF View, SoundSession
<1>3. QED
  BY <1>1, <1>2 DEF Object, SoundSession

(* A step within a session keeps flags sound if the session's are. *)
LEMMA SessionSound ==
  ASSUME TypeOK, Sound, NEW p \in Pass, NEW s, Becomes(p, s), SoundSession(resolves, s)
  PROVE  Sound'
<1>1. DOMAIN pass = Pass
  BY DEF TypeOK
<1>2. pass'[p] = s /\ \A q \in Pass \ {p} : pass'[q] = pass[q]
  BY <1>1 DEF Becomes
<1>3. meta' = meta /\ upsert' = upsert /\ resolves' = resolves
  BY DEF Becomes, world
<1>4. \A q \in Pass : SoundSession(resolves', pass'[q])
  BY <1>2, <1>3 DEF Sound
<1>5. QED
  BY <1>3, <1>4 DEF Sound

LEMMA GotoSound ==
  ASSUME TypeOK, Sound, NEW p \in Pass, NEW l, Goto(p, l)
  PROVE  Sound'
<1> DEFINE s == [pass[p] EXCEPT !.pc = l]
<1>1. SoundSession(resolves, pass[p]) /\ SessionOK(pass[p])
  BY DEF Sound, TypeOK
<1>2. s.draft = pass[p].draft /\ s.own = pass[p].own /\ s.hot = pass[p].hot
  BY <1>1 DEF SessionOK, IdlePass
<1>3. SoundSession(resolves, s)
  BY <1>1, <1>2 DEF SoundSession
<1>4. QED
  BY <1>3, SessionSound DEF Goto

(* The query finds hot addresses. *)
LEMMA FindHotIpsSound ==
  ASSUME TypeOK, Sound, NEW p \in Pass, FindHotIps(p)
  PROVE  Sound'
<1> DEFINE s == [pass[p] EXCEPT !.pc = "flag", !.hot = HotIps]
<1>1. SoundSession(resolves, pass[p]) /\ SessionOK(pass[p])
  BY DEF Sound, TypeOK
<1>2. CASE Becomes(p, s)
  <2>1. s.draft = pass[p].draft /\ s.own = pass[p].own /\ s.hot = HotIps
    BY <1>1 DEF SessionOK, IdlePass
  <2>2. \A h \in HotIps : HotIn(resolves, h)
    <3>1. SUFFICES ASSUME NEW i \in Ip, Cardinality(SubsOf(i)) > Threshold
                   PROVE  HotIn(resolves, [ip |-> i, count |-> Cardinality(SubsOf(i))])
      BY DEF HotIps
    <3>2. SubsIn(resolves, i) = SubsOf(i) /\ Cardinality(SubsOf(i)) \in Nat
      BY SubsOfFinite DEF SubsIn, SubsOf
    <3>3. QED
      BY <3>1, <3>2, IntelligenceAssumption DEF HotIn
  <2>3. SoundSession(resolves, s)
    BY <1>1, <2>1, <2>2 DEF SoundSession
  <2>4. QED
    BY <1>2, <2>3, SessionSound
<1>3. CASE Goto(p, "takeover")
  BY <1>3, GotoSound
<1>4. QED
  BY <1>2, <1>3 DEF FindHotIps

(* Only SUBDOMAINs of a hot address are flagged with it. *)
LEMMA FlagIpSound ==
  ASSUME TypeOK, Sound, NEW p \in Pass, FlagIp(p)
  PROVE  Sound'
<1> DEFINE old == pass[p]
           drafts(h) == [a \in DOMAIN old.draft \cup SubsOf(h.ip) |->
                           IF a \in SubsOf(h.ip) THEN Flagged(Object(p, a), h) ELSE old.draft[a]]
           s(h) == [old EXCEPT !.hot = @ \ {h}, !.draft = drafts(h)]
<1>1. SoundSession(resolves, old) /\ SessionOK(old)
  BY DEF Sound, TypeOK
<1>2. PICK h \in old.hot : Becomes(p, s(h))
  BY DEF FlagIp
<1>3. HotIn(resolves, h) /\ h \in [ip : Ip, count : Nat]
  BY <1>1 DEF SoundSession, SessionOK
<1>4. s(h).draft = drafts(h) /\ s(h).own = old.own /\ s(h).hot \subseteq old.hot
  BY <1>1 DEF SessionOK, IdlePass
<1>5. ASSUME NEW a \in DOMAIN drafts(h)
      PROVE  /\ SoundIn(resolves, a, drafts(h)[a].loaded.intelligence)
             /\ SoundIn(resolves, a, drafts(h)[a].now.intelligence)
  <2>1. CASE a \in SubsOf(h.ip)
    <3>1. a \in Row /\ <<a, h.ip>> \in resolves
      BY <2>1 DEF SubsOf, Row
    <3>2. Object(p, a) \in DraftObject /\ SoundIn(resolves, a, Object(p, a).loaded.intelligence)
      BY <3>1, ViewType, ViewSound
    <3>3. drafts(h)[a] = Flagged(Object(p, a), h)
      BY <2>1
    <3>4. SoundIn(resolves, a, Flagged(Object(p, a), h).now.intelligence)
      BY <1>3, <3>1, <3>2, FlaggedType DEF SoundIn, HotIn
    <3>5. QED
      BY <1>3, <3>2, <3>3, <3>4, FlaggedType
  <2>2. CASE a \notin SubsOf(h.ip)
    BY <1>1, <2>2 DEF SoundSession
  <2>3. QED
    BY <2>1, <2>2
<1>6. SoundSession(resolves, s(h))
  <2> HIDE DEF drafts
  <2>1. QED
    BY <1>1, <1>4, <1>5 DEF SoundSession
<1>7. QED
  BY <1>2, <1>6, SessionSound

(* A row is written as it was drafted. *)
LEMMA UpdateRowSound ==
  ASSUME TypeOK, Sound, NEW p \in Pass, UpdateRow(p)
  PROVE  Sound'
<1> DEFINE old == pass[p]
           rest(a) == [b \in DOMAIN old.draft \ {a} |-> old.draft[b]]
           s(a) == [old EXCEPT !.held = @ \cup {a}, !.own = Written(p, a), !.draft = rest(a)]
<1>1. SoundSession(resolves, old) /\ SessionOK(old)
  BY DEF Sound, TypeOK
<1>2. PICK a \in Row : NextRow(p, a) /\ Becomes(p, s(a))
  BY DEF UpdateRow
<1>3. s(a).draft = rest(a) /\ s(a).own = Written(p, a) /\ s(a).hot = old.hot
  BY <1>1 DEF SessionOK, IdlePass
<1>4. SoundIn(resolves, a, old.draft[a].now.intelligence)
  BY <1>1, <1>2 DEF NextRow, SoundSession
<1>5. \A b \in DOMAIN Written(p, a) : SoundIn(resolves, b, Written(p, a)[b].intelligence)
  BY <1>1, <1>4 DEF Written, SoundSession
<1>6. \A b \in DOMAIN rest(a) : /\ SoundIn(resolves, b, rest(a)[b].loaded.intelligence)
                                /\ SoundIn(resolves, b, rest(a)[b].now.intelligence)
  BY <1>1 DEF SoundSession
<1>7. SoundSession(resolves, s(a))
  <2> HIDE DEF rest
  <2>1. QED
    BY <1>1, <1>3, <1>5, <1>6 DEF SoundSession
<1>8. QED
  BY <1>2, <1>7, SessionSound

(* Tagging leaves address and count alone. *)
LEMMA TagCloudSound ==
  ASSUME TypeOK, Sound, NEW p \in Pass, TagCloud(p)
  PROVE  Sound'
<1> DEFINE hosted == {a \in Row : View(p, a).observed.vendor # None}
           drafts == [a \in hosted |-> Tagged(Object(p, a))]
           s == [pass[p] EXCEPT !.pc = "cloud_flush", !.draft = drafts]
<1>1. SoundSession(resolves, pass[p]) /\ SessionOK(pass[p])
  BY DEF Sound, TypeOK
<1>2. CASE Becomes(p, s)
  <2>1. s.draft = drafts /\ s.own = pass[p].own /\ s.hot = pass[p].hot
    BY <1>1 DEF SessionOK, IdlePass
  <2>2. ASSUME NEW a \in hosted
        PROVE  /\ SoundIn(resolves, a, Tagged(Object(p, a)).loaded.intelligence)
               /\ SoundIn(resolves, a, Tagged(Object(p, a)).now.intelligence)
    <3>1. Object(p, a) \in DraftObject
      BY ViewType
    <3>2. /\ SoundIn(resolves, a, Object(p, a).loaded.intelligence)
          /\ SoundIn(resolves, a, Object(p, a).now.intelligence)
      BY ViewSound
    <3>3. QED
      BY <3>1, <3>2, TaggedType DEF SoundIn, HotIn
  <2>3. SoundSession(resolves, s)
    BY <1>1, <2>1, <2>2 DEF SoundSession
  <2>4. QED
    BY <1>2, <2>3, SessionSound
<1>3. CASE Goto(p, "commit")
  BY <1>3, GotoSound
<1>4. QED
  BY <1>2, <1>3 DEF TagCloud

(* Nothing happens to flags while a session's drafts and writes stay as they are. *)
LEMMA SameDrafts ==
  ASSUME TypeOK, Sound, NEW p \in Pass, NEW s, Becomes(p, s),
         s.draft = pass[p].draft, s.own = pass[p].own, s.hot = pass[p].hot
  PROVE  Sound'
<1>1. SoundSession(resolves, s)
  BY DEF Sound, SoundSession
<1>2. QED
  BY <1>1, SessionSound

LEMMA StartSound ==
  ASSUME TypeOK, Sound, NEW p \in Pass, Start(p)
  PROVE  Sound'
<1> DEFINE s(r) == [pass[p] EXCEPT !.pc = "hot", !.scan = <<program, r[1], r[2]>>,
                                   !.options = MergedOptions(program, r[1], r[2])]
<1>1. PICK r \in Requests : Becomes(p, s(r))
  BY DEF Start
<1>2. s(r).draft = pass[p].draft /\ s(r).own = pass[p].own /\ s(r).hot = pass[p].hot
  BY DEF TypeOK, SessionOK, IdlePass
<1>3. QED
  BY <1>1, <1>2, SameDrafts

LEMMA FindingStepSound ==
  ASSUME TypeOK, Sound, NEW p \in Pass,
         ScanTakeover(p) \/ SelectFinding(p) \/ TouchFinding(p) \/ InsertFinding(p)
  PROVE  Sound'
<1> DEFINE old == pass[p]
<1>1. SessionOK(old)
  BY DEF TypeOK
<1>2. CASE ScanTakeover(p)
  <2> DEFINE found == {x \in Sub : View(p, x).observed.dangling}
             s == [old EXCEPT !.pc = "report", !.signals = found, !.todo = found]
  <2>1. Becomes(p, s) \/ Goto(p, "cloud")
    BY <1>2 DEF ScanTakeover
  <2>2. s.draft = old.draft /\ s.own = old.own /\ s.hot = old.hot
    BY <1>1 DEF SessionOK, IdlePass
  <2>3. QED
    BY <2>1, <2>2, SameDrafts, GotoSound
<1>3. CASE SelectFinding(p)
  <2> DEFINE s(x) == [old EXCEPT !.pc = FindingStatement(p, x), !.at = x, !.todo = @ \ {x}]
  <2>1. PICK x \in old.todo : Becomes(p, s(x))
    BY <1>3 DEF SelectFinding
  <2>2. s(x).draft = old.draft /\ s(x).own = old.own /\ s(x).hot = old.hot
    BY <1>1 DEF SessionOK, IdlePass
  <2>3. QED
    BY <2>1, <2>2, SameDrafts
<1>4. CASE TouchFinding(p)
  <2> DEFINE s == [old EXCEPT !.pc = "report", !.touched = @ \cup {old.at}]
  <2>1. s.draft = old.draft /\ s.own = old.own /\ s.hot = old.hot
    BY <1>1 DEF SessionOK, IdlePass
  <2>2. QED
    BY <1>4, <2>1, SameDrafts DEF TouchFinding
<1>5. CASE InsertFinding(p)
  <2> DEFINE s == [old EXCEPT !.pc = "report", !.created = @ \cup {old.at}]
  <2>1. s.draft = old.draft /\ s.own = old.own /\ s.hot = old.hot
    BY <1>1 DEF SessionOK, IdlePass
  <2>2. QED
    BY <1>5, <2>1, SameDrafts DEF InsertFinding
<1>6. QED
  BY <1>2, <1>3, <1>4, <1>5

(* A session that has ended keeps nothing. *)
LEMMA EndedSound ==
  ASSUME NEW p, NEW how, NEW rel
  PROVE  SoundSession(rel, Ended(p, how))
<1>1. Ended(p, how).draft = NoDraft /\ Ended(p, how).own = NoDraft /\ Ended(p, how).hot = {}
  BY DEF Ended, IdlePass
<1>2. DOMAIN NoDraft = {}
  BY DEF NoDraft
<1>3. QED
  BY <1>1, <1>2 DEF SoundSession

LEMMA CommitSound ==
  ASSUME TypeOK, Sound, NEW p \in Pass, Commit(p)
  PROVE  Sound'
<1>1. pass'[p] = Ended(p, "done") /\ \A q \in Pass \ {p} : pass'[q] = pass[q]
  BY DEF Commit, TypeOK
<1>2. resolves' = resolves /\ upsert' = upsert
  BY DEF Commit
<1>3. \A a \in Row : SoundIn(resolves', a, meta'[a].intelligence)
  BY <1>2, ViewSound DEF Commit
<1>4. \A q \in Pass : SoundSession(resolves', pass'[q])
  BY <1>1, <1>2, EndedSound DEF Sound
<1>5. QED
  BY <1>2, <1>3, <1>4 DEF Sound

LEMMA PassStepSound ==
  ASSUME TypeOK, Sound, NEW p \in Pass, Start(p) \/ Step(p) \/ Victim(p)
  PROVE  Sound'
<1>1. CASE Start(p) \/ Commit(p)
  BY <1>1, StartSound, CommitSound
<1>2. CASE FindHotIps(p) \/ FlagIp(p) \/ UpdateRow(p) \/ TagCloud(p)
  BY <1>2, FindHotIpsSound, FlagIpSound, UpdateRowSound, TagCloudSound
<1>3. CASE Flushed(p) \/ Reported(p)
  BY <1>3, GotoSound DEF Flushed, Reported
<1>4. CASE ScanTakeover(p) \/ SelectFinding(p) \/ TouchFinding(p) \/ InsertFinding(p)
  BY <1>4, FindingStepSound
<1>5. CASE Conflict(p) \/ Victim(p)
  BY <1>5, EndedSound, SessionSound DEF Conflict, Victim
<1>6. QED
  BY <1>1, <1>2, <1>3, <1>4, <1>5 DEF Step

(* An upsert carries a flag from the row it read to the same row. *)
LEMMA WorldStepSound ==
  ASSUME TypeOK, TypeOK', Sound, PatchProgram \/ Resolve \/ UpsertRead \/ UpsertWrite
  PROVE  Sound'
<1>1. CASE PatchProgram
  BY <1>1 DEF PatchProgram, Sound
<1>2. CASE Resolve
  <2>1. resolves \in SUBSET Relation /\ resolves' \in SUBSET Relation /\ resolves \subseteq resolves'
    BY <1>2 DEF Resolve, TypeOK
  <2>2. meta' = meta /\ upsert' = upsert /\ pass' = pass
    BY <1>2 DEF Resolve
  <2>3. \A a \in Row : SoundIn(resolves', a, meta[a].intelligence)
    <3>1. \A a \in Row : meta[a].intelligence.count \in Nat
      BY DEF TypeOK, Metadata, Intelligences
    <3>2. QED
      BY <2>1, <3>1, SoundGrows DEF Sound
  <2>4. upsert # None => SoundIn(resolves', upsert.row, upsert.meta.intelligence)
    <3>1. upsert # None => upsert.meta.intelligence.count \in Nat
      BY DEF TypeOK, Metadata, Intelligences
    <3>2. QED
      BY <2>1, <3>1, SoundGrows DEF Sound
  <2>5. \A p \in Pass : SoundSession(resolves', pass[p])
    BY <2>1, SessionGrows DEF Sound, TypeOK
  <2>6. QED
    BY <2>2, <2>3, <2>4, <2>5 DEF Sound
<1>3. CASE UpsertRead
  <2>1. PICK a \in Row, o \in Observed :
          upsert' = [row |-> a, meta |-> [meta[a] EXCEPT !.observed = o]]
    BY <1>3 DEF UpsertRead
  <2>2. upsert'.row = a /\ upsert'.meta.intelligence = meta[a].intelligence
    BY <2>1 DEF TypeOK, Metadata
  <2>3. QED
    BY <1>3, <2>2 DEF UpsertRead, Sound
<1>4. CASE UpsertWrite
  <2>1. upsert \in [row : Row, meta : Metadata] /\ upsert # None
    BY <1>4 DEF UpsertWrite, TypeOK
  <2>2. \A a \in Row : meta'[a] = IF a = upsert.row THEN upsert.meta ELSE meta[a]
    BY <1>4, <2>1 DEF UpsertWrite, TypeOK
  <2>3. QED
    BY <1>4, <2>1, <2>2 DEF UpsertWrite, Sound
<1>5. QED
  BY <1>1, <1>2, <1>3, <1>4

LEMMA InitSound == Init => Sound
<1> SUFFICES ASSUME Init
             PROVE  Sound
  OBVIOUS
<1>1. \A a \in Row : meta[a].intelligence.ip = None
  BY DEF Init, NoFlags
<1>2. \A p \in Pass : SoundSession(resolves, pass[p])
  <2>1. DOMAIN NoDraft = {} /\ \A p \in Pass : pass[p] = IdlePass
    BY DEF Init, NoDraft
  <2>2. QED
    BY <2>1 DEF IdlePass, SoundSession
<1>3. QED
  BY <1>1, <1>2 DEF Init, Sound, SoundIn

(* Whatever passes and upserts do to each other's metadata, a SUBDOMAIN that *)
(* is flagged as shared infrastructure is one: its address has more         *)
(* SUBDOMAINs than the threshold, and at least as many as recorded.         *)
THEOREM FlagsAreSound == Spec => []FlagsSound
<1>1. TypeOK /\ Sound /\ [Next]_vars => Sound'
  <2> SUFFICES ASSUME TypeOK, Sound, [Next]_vars
               PROVE  Sound'
    OBVIOUS
  <2>1. CASE UNCHANGED vars
    BY <2>1 DEF vars, world, Sound
  <2>2. CASE \E p \in Pass : Start(p) \/ Step(p) \/ Victim(p)
    BY <2>2, PassStepSound
  <2>3. CASE PatchProgram \/ Resolve \/ UpsertRead \/ UpsertWrite
    BY <2>3, TypeStep, WorldStepSound
  <2>4. QED
    BY <2>1, <2>2, <2>3 DEF Next, Terminating
<1>2. Sound => FlagsSound
  BY DEF Sound, FlagsSound, SoundIn, HotIn, SoundFlag, SubsIn, SubsOf
<1>3. QED
  BY InitSound, <1>1, <1>2, IntelligenceTypes, PTL DEF Spec

-----------------------------------------------------------------------------
(***************************************************************************)
(* Findings and switches: what a session knows at each label.              *)
(***************************************************************************)
Reporting(known, s) ==
  /\ s.pc \in {"idle", "hot", "flag", "takeover"} => s.signals = {}
  /\ s.pc = "report" => s.signals \subseteq known \cup s.created \cup s.todo
  /\ s.pc \in {"touch", "insert"} => s.signals \subseteq known \cup s.created \cup s.todo \cup {s.at}
  /\ s.pc = "touch" => s.at \in known \cup s.created
  /\ s.pc \in {"cloud", "cloud_flush", "commit"} => s.signals \subseteq known \cup s.created
  /\ s.pc = "done" => s.signals \subseteq known

Launched(s) ==
  s.pc \notin {"idle", "done", "failed"} =>
    s.scan \in Scans /\ s.options = MergedOptions(s.scan[1], s.scan[2], s.scan[3])

Known == \A p \in Pass : Reporting(findings, pass[p]) /\ Launched(pass[p])

(* A step within a session that keeps what it should know. *)
LEMMA SessionKnown ==
  ASSUME TypeOK, Known, NEW p \in Pass, NEW s, Becomes(p, s), Reporting(findings, s), Launched(s)
  PROVE  Known'
<1>1. pass'[p] = s /\ (\A q \in Pass \ {p} : pass'[q] = pass[q]) /\ findings' = findings
  BY DEF Becomes, world, TypeOK
<1>2. \A q \in Pass : Reporting(findings', pass'[q]) /\ Launched(pass'[q])
  BY <1>1 DEF Known
<1>3. QED
  BY <1>2 DEF Known, Launched, Scans, Toggle, Block, MergedOptions, Over, Defaults

(* Steps between the modules, and on drafts. *)
LEMMA MoveKnown ==
  ASSUME TypeOK, Known, NEW p \in Pass,
         \/ FindHotIps(p) \/ FlagIp(p) \/ UpdateRow(p) \/ Flushed(p) \/ Reported(p) \/ TagCloud(p)
  PROVE  Known'
<1> DEFINE old == pass[p]
           Moved(s) == /\ s.signals = old.signals /\ s.created = old.created
                       /\ s.scan = old.scan /\ s.options = old.options
<1>1. SessionOK(old) /\ Reporting(findings, old) /\ Launched(old)
  BY DEF TypeOK, Known
<1>2. SUFFICES \E s : /\ Becomes(p, s) /\ Moved(s)
                      /\ \/ old.pc \in {"hot", "flag"} /\ s.pc \in {"flag", "takeover"}
                         \/ old.pc = "report" /\ old.todo = {} /\ s.pc = "cloud"
                         \/ old.pc \in {"cloud", "cloud_flush"} /\ s.pc \in {"cloud_flush", "commit"}
  BY <1>1, SessionKnown DEF Reporting, Launched
<1>3. CASE FindHotIps(p)
  <2>1. CASE Becomes(p, [old EXCEPT !.pc = "flag", !.hot = HotIps])
    <3> WITNESS [old EXCEPT !.pc = "flag", !.hot = HotIps]
    <3>1. QED
      BY <1>1, <1>3, <2>1 DEF FindHotIps, SessionOK, IdlePass
  <2>2. CASE Goto(p, "takeover")
    <3> WITNESS [old EXCEPT !.pc = "takeover"]
    <3>1. QED
      BY <1>1, <1>3, <2>2 DEF FindHotIps, Goto, SessionOK, IdlePass
  <2>3. QED
    BY <1>3, <2>1, <2>2 DEF FindHotIps
<1>4. CASE FlagIp(p)
  <2> DEFINE drafts(h) == [a \in DOMAIN old.draft \cup SubsOf(h.ip) |->
                             IF a \in SubsOf(h.ip) THEN Flagged(Object(p, a), h) ELSE old.draft[a]]
  <2>1. PICK h \in old.hot : Becomes(p, [old EXCEPT !.hot = @ \ {h}, !.draft = drafts(h)])
    BY <1>4 DEF FlagIp
  <2> HIDE DEF drafts
  <2> WITNESS [old EXCEPT !.hot = @ \ {h}, !.draft = drafts(h)]
  <2>2. QED
    BY <1>1, <1>4, <2>1 DEF FlagIp, SessionOK, IdlePass
<1>5. CASE UpdateRow(p)
  <2> DEFINE rest(a) == [b \in DOMAIN old.draft \ {a} |-> old.draft[b]]
  <2>1. PICK a \in Row :
          /\ NextRow(p, a)
          /\ Becomes(p, [old EXCEPT !.held = @ \cup {a}, !.own = Written(p, a), !.draft = rest(a)])
    BY <1>5 DEF UpdateRow
  <2> HIDE DEF rest
  <2> WITNESS [old EXCEPT !.held = @ \cup {a}, !.own = Written(p, a), !.draft = rest(a)]
  <2>2. QED
    BY <1>1, <2>1 DEF NextRow, SessionOK, IdlePass
<1>6. CASE Flushed(p)
  <2> WITNESS [old EXCEPT !.pc = IF pass[p].pc = "flag" THEN "takeover" ELSE "commit"]
  <2>1. QED
    BY <1>1, <1>6 DEF Flushed, Goto, SessionOK, IdlePass
<1>7. CASE Reported(p)
  <2> WITNESS [old EXCEPT !.pc = "cloud"]
  <2>1. QED
    BY <1>1, <1>7 DEF Reported, Goto, SessionOK, IdlePass
<1>8. CASE TagCloud(p)
  <2> DEFINE hosted == {a \in Row : View(p, a).observed.vendor # None}
             drafts == [a \in hosted |-> Tagged(Object(p, a))]
  <2>1. CASE Becomes(p, [old EXCEPT !.pc = "cloud_flush", !.draft = drafts])
    <3> HIDE DEF drafts
    <3> WITNESS [old EXCEPT !.pc = "cloud_flush", !.draft = drafts]
    <3>1. QED
      BY <1>1, <1>8, <2>1 DEF TagCloud, SessionOK, IdlePass
  <2>2. CASE Goto(p, "commit")
    <3> WITNESS [old EXCEPT !.pc = "commit"]
    <3>1. QED
      BY <1>1, <1>8, <2>2 DEF TagCloud, Goto, SessionOK, IdlePass
  <2>3. QED
    BY <1>8, <2>1, <2>2 DEF TagCloud
<1>9. QED
  BY <1>3, <1>4, <1>5, <1>6, <1>7, <1>8

LEMMA StartKnown ==
  ASSUME TypeOK, Known, NEW p \in Pass, Start(p)
  PROVE  Known'
<1> DEFINE old == pass[p]
           s(r) == [old EXCEPT !.pc = "hot", !.scan = <<program, r[1], r[2]>>,
                               !.options = MergedOptions(program, r[1], r[2])]
<1>1. SessionOK(old) /\ Reporting(findings, old) /\ old.pc = "idle"
  BY DEF TypeOK, Known, Start
<1>2. PICK r \in Requests : Becomes(p, s(r))
  BY DEF Start
<1>3. s(r).pc = "hot" /\ s(r).signals = old.signals /\ s(r).scan = <<program, r[1], r[2]>>
      /\ s(r).options = MergedOptions(program, r[1], r[2])
  BY <1>1 DEF SessionOK, IdlePass
<1>4. <<program, r[1], r[2]>> \in Scans
  BY IntelligenceAssumption DEF Scans, TypeOK
<1>5. Reporting(findings, s(r)) /\ Launched(s(r))
  BY <1>1, <1>3, <1>4 DEF Reporting, Launched
<1>6. QED
  BY <1>2, <1>5, SessionKnown

LEMMA FindingStepKnown ==
  ASSUME TypeOK, Known, NEW p \in Pass,
         ScanTakeover(p) \/ SelectFinding(p) \/ TouchFinding(p) \/ InsertFinding(p)
  PROVE  Known'
<1> DEFINE old == pass[p]
<1>1. SessionOK(old) /\ Reporting(findings, old) /\ Launched(old)
  BY DEF TypeOK, Known
<1>2. CASE ScanTakeover(p)
  <2> DEFINE found == {x \in Sub : View(p, x).observed.dangling}
             s == [old EXCEPT !.pc = "report", !.signals = found, !.todo = found]
             t == [old EXCEPT !.pc = "cloud"]
  <2>1. old.pc = "takeover" /\ (Becomes(p, s) \/ Becomes(p, t))
    BY <1>2 DEF ScanTakeover, Goto
  <2>2. Reporting(findings, s) /\ Launched(s) /\ Reporting(findings, t) /\ Launched(t)
    BY <1>1, <2>1 DEF SessionOK, IdlePass, Reporting, Launched
  <2>3. QED
    BY <2>1, <2>2, SessionKnown
<1>3. CASE SelectFinding(p)
  <2> DEFINE s(x) == [old EXCEPT !.pc = FindingStatement(p, x), !.at = x, !.todo = @ \ {x}]
  <2>1. PICK x \in old.todo : Becomes(p, s(x))
    BY <1>3 DEF SelectFinding
  <2>2. /\ s(x).pc = FindingStatement(p, x) /\ s(x).at = x /\ s(x).todo = old.todo \ {x}
        /\ s(x).signals = old.signals /\ s(x).created = old.created
        /\ s(x).scan = old.scan /\ s(x).options = old.options /\ old.pc = "report"
    BY <1>1, <1>3 DEF SessionOK, IdlePass, SelectFinding
  <2>3. Reporting(findings, s(x)) /\ Launched(s(x))
    <3> HIDE DEF s
    <3>1. QED
      BY <1>1, <2>1, <2>2 DEF FindingStatement, Reporting, Launched
  <2>4. QED
    BY <2>1, <2>3, SessionKnown
<1>4. CASE TouchFinding(p)
  <2> DEFINE s == [old EXCEPT !.pc = "report", !.touched = @ \cup {old.at}]
  <2>1. Becomes(p, s) /\ old.pc = "touch"
    BY <1>4 DEF TouchFinding
  <2>2. Reporting(findings, s) /\ Launched(s)
    BY <1>1, <2>1 DEF SessionOK, IdlePass, Reporting, Launched
  <2>3. QED
    BY <2>1, <2>2, SessionKnown
<1>5. CASE InsertFinding(p)
  <2> DEFINE s == [old EXCEPT !.pc = "report", !.created = @ \cup {old.at}]
  <2>1. Becomes(p, s) /\ old.pc = "insert"
    BY <1>5 DEF InsertFinding
  <2>2. Reporting(findings, s) /\ Launched(s)
    BY <1>1, <2>1 DEF SessionOK, IdlePass, Reporting, Launched
  <2>3. QED
    BY <2>1, <2>2, SessionKnown
<1>6. QED
  BY <1>2, <1>3, <1>4, <1>5

(* The commit stores the findings; those of others stay. *)
LEMMA EndKnown ==
  ASSUME TypeOK, Known, NEW p \in Pass, Commit(p) \/ Conflict(p) \/ Victim(p)
  PROVE  Known'
<1> DEFINE old == pass[p]
<1>1. SessionOK(old) /\ Reporting(findings, old)
  BY DEF TypeOK, Known
<1>2. CASE Commit(p)
  <2>1. /\ pass'[p] = Ended(p, "done") /\ \A q \in Pass \ {p} : pass'[q] = pass[q]
        /\ findings' = findings \cup old.created /\ old.pc = "commit"
    BY <1>2 DEF Commit, TypeOK
  <2>2. Ended(p, "done").pc = "done" /\ Ended(p, "done").signals = old.signals
    BY DEF Ended, IdlePass
  <2>3. Reporting(findings', pass'[p]) /\ Launched(pass'[p])
    BY <1>1, <2>1, <2>2 DEF Reporting, Launched
  <2>4. \A q \in Pass \ {p} : Reporting(findings', pass'[q]) /\ Launched(pass'[q])
    BY <2>1 DEF Known, Reporting
  <2>5. \A q \in Pass : Reporting(findings', pass'[q]) /\ Launched(pass'[q])
    BY <2>3, <2>4
  <2>6. QED
    BY <2>5 DEF Known, Launched, Scans, Toggle, Block, MergedOptions, Over, Defaults
<1>3. CASE Conflict(p) \/ Victim(p)
  <2>1. Becomes(p, Ended(p, "failed"))
    BY <1>3 DEF Conflict, Victim
  <2>2. Ended(p, "failed").pc = "failed"
    BY DEF Ended, IdlePass
  <2>3. QED
    BY <2>1, <2>2, SessionKnown DEF Reporting, Launched
<1>4. QED
  BY <1>2, <1>3

LEMMA KnownStep == TypeOK /\ Known /\ [Next]_vars => Known'
<1> SUFFICES ASSUME TypeOK, Known, [Next]_vars
             PROVE  Known'
  OBVIOUS
<1>1. CASE UNCHANGED <<findings, pass>>
  <2>1. \A p \in Pass : Reporting(findings', pass'[p]) /\ Launched(pass'[p])
    BY <1>1 DEF Known
  <2>2. QED
    BY <2>1 DEF Known, Launched, Scans, Toggle, Block, MergedOptions, Over, Defaults
<1>2. CASE \E p \in Pass : Start(p) \/ Step(p) \/ Victim(p)
  BY <1>2, StartKnown, MoveKnown, FindingStepKnown, EndKnown DEF Step
<1>3. QED
  BY <1>1, <1>2 DEF Next, Terminating, vars, world, PatchProgram, Resolve, UpsertRead, UpsertWrite

LEMMA InitKnown == Init => Known
<1> SUFFICES ASSUME Init
             PROVE  Known
  OBVIOUS
<1>1. \A p \in Pass : pass[p] = IdlePass
  BY DEF Init
<1>2. IdlePass.pc = "idle" /\ IdlePass.signals = {}
  BY DEF IdlePass
<1>3. QED
  BY <1>1, <1>2 DEF Known, Reporting, Launched

(* Two passes that report at the same time, conflicts and rollbacks included, *)
(* leave no signal of a committed pass without its finding.                 *)
THEOREM SignalsAreReported == Spec => []SignalsReported
<1>1. Known => SignalsReported
  BY DEF Known, Reporting, SignalsReported
<1>2. QED
  BY InitType, TypeStep, InitKnown, KnownStep, <1>1, PTL DEF Spec

-----------------------------------------------------------------------------
(* The three merges and the pass's own look-up agree on the layer that decides. *)
LEMMA OptionsWanted ==
  ASSUME NEW scan \in Scans, NEW k \in Toggle
  PROVE  Resolved(MergedOptions(scan[1], scan[2], scan[3]))[k] =
           IF scan[3] # None /\ k \in DOMAIN scan[3] THEN scan[3][k]
           ELSE IF scan[2] # None /\ k \in DOMAIN scan[2] THEN scan[2][k]
           ELSE scan[1][k]
<1> DEFINE m == MergedOptions(scan[1], scan[2], scan[3])
<1>1. scan[1] \in [Toggle -> BOOLEAN] /\ scan[2] \in Block \cup {None} /\ scan[3] \in Block \cup {None}
  BY DEF Scans
<1>2. scan[1] # None
  BY <1>1, TotalIsBlock, IntelligenceAssumption
<1>3. m \in [Toggle -> BOOLEAN]
  BY <1>1, OverType, DefaultsType, TotalIsBlock DEF MergedOptions
<1>4. m # None
  BY <1>3, TotalIsBlock, IntelligenceAssumption
<1>5. Resolved(m)[k] = m[k]
  <2> HIDE DEF m
  <2>1. QED
    BY <1>3, <1>4 DEF Resolved, Over, Defaults
<1>6. Over(Defaults, scan[1])[k] = scan[1][k]
  BY <1>1, <1>2 DEF Over
<1>7. QED
  BY <1>1, <1>5, <1>6 DEF MergedOptions, Over

LEMMA OnIsWanted ==
  ASSUME Known, NEW p \in Pass, NEW k \in Toggle, pass[p].pc \notin {"idle", "done", "failed"}
  PROVE  On(p, k) = Wanted(p, k)
BY OptionsWanted DEF Known, Launched, On, Wanted

(* Where a switch decides, only the module's own step goes on. *)
LEMMA OnlyTheModule ==
  ASSUME TypeOK, [Next]_vars, NEW p \in Pass, pass'[p].pc # pass[p].pc,
         pass[p].pc \in {"hot", "takeover", "cloud"}
  PROVE  FindHotIps(p) \/ ScanTakeover(p) \/ TagCloud(p)
<1>1. PICK q \in Pass : Start(q) \/ Step(q) \/ Victim(q)
  BY DEF Next, Terminating, vars, PatchProgram, Resolve, UpsertRead, UpsertWrite
<1>2. pass'[p] = pass[p] \/ q = p
  <2>1. \E s : pass' = [pass EXCEPT ![q] = s]
    BY <1>1 DEF Start, Step, Victim, FindHotIps, FlagIp, UpdateRow, Flushed, ScanTakeover, Goto,
                SelectFinding, TouchFinding, InsertFinding, Reported, TagCloud, Commit, Conflict,
                Becomes
  <2>2. QED
    BY <2>1 DEF TypeOK
<1>3. q = p
  BY <1>2
<1>4. ~Victim(p)
  BY DEF Victim, Blocking, NextRow
<1>5. QED
  BY <1>1, <1>3, <1>4 DEF Step, Start, FlagIp, UpdateRow, NextRow, Flushed, SelectFinding,
                          TouchFinding, InsertFinding, Reported, Commit, Conflict, HashTaken

LEMMA SwitchObeyed ==
  ASSUME TypeOK, Known, [Next]_vars, NEW p \in Pass
  PROVE  /\ Enters(p, "hot", "flag", "correlate_shared_ips")
         /\ Enters(p, "takeover", "report", "check_takeover")
         /\ Enters(p, "cloud", "cloud_flush", "tag_cloud_providers")
<1> DEFINE old == pass[p]
<1> SUFFICES ASSUME pass'[p].pc # old.pc, old.pc \in {"hot", "takeover", "cloud"}
             PROVE  /\ Enters(p, "hot", "flag", "correlate_shared_ips")
                    /\ Enters(p, "takeover", "report", "check_takeover")
                    /\ Enters(p, "cloud", "cloud_flush", "tag_cloud_providers")
  BY DEF Enters
<1>1. \A k \in Toggle : On(p, k) = Wanted(p, k)
  BY OnIsWanted
<1>2. SessionOK(old) /\ DOMAIN pass = Pass
  BY DEF TypeOK
<1>3. CASE FindHotIps(p)
  <2>1. old.pc = "hot" /\ pass'[p].pc = IF On(p, "correlate_shared_ips") THEN "flag" ELSE "takeover"
    BY <1>2, <1>3 DEF FindHotIps, Becomes, Goto, SessionOK, IdlePass
  <2>2. QED
    BY <1>1, <2>1 DEF Enters, Toggle
<1>4. CASE ScanTakeover(p)
  <2>1. old.pc = "takeover" /\ pass'[p].pc = IF On(p, "check_takeover") THEN "report" ELSE "cloud"
    BY <1>2, <1>4 DEF ScanTakeover, Becomes, Goto, SessionOK, IdlePass
  <2>2. QED
    BY <1>1, <2>1 DEF Enters, Toggle
<1>5. CASE TagCloud(p)
  <2>1. old.pc = "cloud"
        /\ pass'[p].pc = IF On(p, "tag_cloud_providers") THEN "cloud_flush" ELSE "commit"
    BY <1>2, <1>5 DEF TagCloud, Becomes, Goto, SessionOK, IdlePass
  <2>2. QED
    BY <1>1, <2>1 DEF Enters, Toggle
<1>6. QED
  BY <1>3, <1>4, <1>5, OnlyTheModule

(* A module works in a pass exactly when the launch had it switched on. *)
THEOREM SwitchesAreObeyed == Spec => SwitchesObeyed
<1>1. TypeOK /\ Known /\ [Next]_vars =>
        [\A p \in Pass :
           /\ Enters(p, "hot", "flag", "correlate_shared_ips")
           /\ Enters(p, "takeover", "report", "check_takeover")
           /\ Enters(p, "cloud", "cloud_flush", "tag_cloud_providers")]_vars
  BY SwitchObeyed
<1>2. QED
  BY InitType, TypeStep, InitKnown, KnownStep, <1>1, PTL DEF Spec, SwitchesObeyed

-----------------------------------------------------------------------------
(***************************************************************************)
(* Passes end: no pass is left waiting without a deadlock, and every step  *)
(* brings some pass nearer to its end.                                     *)
(***************************************************************************)
Busy == {p \in Pass : pass[p].pc \notin {"idle", "done", "failed"}}

(* The guards of a started pass's steps. *)
Able(p) ==
  \/ pass[p].pc \in {"hot", "takeover", "report", "cloud", "commit"}
  \/ pass[p].pc = "flag" /\ pass[p].hot # {}
  \/ pass[p].pc \in {"flag", "cloud_flush"} /\ pass[p].hot = {} /\ pass[p].draft = NoDraft
  \/ \E a \in Row : NextRow(p, a) /\ \A q \in Pass \ {p} : a \notin pass[q].held
  \/ pass[p].pc = "touch" /\ \A q \in Pass \ {p} : pass[p].at \notin pass[q].touched
  \/ pass[p].pc = "insert" /\ FindingFree(p)

(* What the server's deadlock detection looks for. *)
Circular(p) ==
  \E S \in SUBSET Pass :
    p \in S /\ \A r \in S : (\E q \in S : Blocking(q, r)) /\ (\E q \in S : Blocking(r, q))

(* As long as a started pass has to end, some pass can go on or the server    *)
(* finds a deadlock: none waits for a pass that has ended, or in vain.        *)
NeverWedged == Busy # {} => \E p \in Pass : Able(p) \/ Circular(p)

(* Only a started pass has anything locked; the addresses to flag are finitely *)
(* many, and there are none left once the module is done.                     *)
Settled(s) ==
  /\ s.held # {} \/ s.touched # {} \/ s.created # {} => s.pc \notin {"idle", "done", "failed"}
  /\ s.pc # "flag" => s.hot = {}
  /\ IsFiniteSet(s.hot)

AllSettled == \A p \in Pass : Settled(pass[p])


(* Of a family of subsets of a finite set there is a smallest one. *)
LEMMA Smallest ==
  ASSUME NEW U, IsFiniteSet(U), NEW F, F \subseteq SUBSET U, F # {}
  PROVE  \E S \in F : \A T \in F : T \subseteq S => T = S
<1>1. IsWellFoundedOn(StrictSubsetOrdering(U), SUBSET U)
  BY FS_StrictSubsetOrderingWellFounded, FS_FiniteSubsetsOfFinite
<1>2. PICK S \in F : \A T \in F : <<T, S>> \notin StrictSubsetOrdering(U)
  BY <1>1, WFMin
<1>q. QED
  BY <1>2 DEF StrictSubsetOrdering

(* Where everyone has another to wait for, some wait in a circle: a smallest  *)
(* set that no wait leads out of has nobody no one in it waits for.           *)
LEMMA Circle ==
  ASSUME NEW U, IsFiniteSet(U), U # {}, NEW R, \A x \in U : \E y \in U \ {x} : <<x, y>> \in R
  PROVE  \E S \in SUBSET U :
           S # {} /\ \A x \in S : (\E y \in S : <<x, y>> \in R) /\ (\E y \in S : <<y, x>> \in R)
<1> DEFINE Shut == {S \in SUBSET U : S # {} /\ \A x \in S : \E y \in S \ {x} : <<x, y>> \in R}
<1>1. Shut \subseteq SUBSET U /\ Shut # {}
  OBVIOUS
<1>2. PICK S \in Shut : \A T \in Shut : T \subseteq S => T = S
  <2> HIDE DEF Shut
  <2>q. QED
    BY <1>1, Smallest
<1>3. ASSUME NEW x \in S, \A y \in S : <<y, x>> \notin R PROVE FALSE
  <2>1. \A y \in S \ {x} : \E z \in (S \ {x}) \ {y} : <<y, z>> \in R
    BY <1>3
  <2>2. S \ {x} # {}
    OBVIOUS
  <2>3. S \ {x} \in Shut
    BY <2>1, <2>2
  <2>q. QED
    BY <1>2, <2>3
<1>q. QED
  BY <1>3

(* A flush with something to write has a row to come to. *)
LEMMA NextRowExists ==
  ASSUME TypeOK, NEW p \in Pass, pass[p].pc \in {"flag", "cloud_flush"}, pass[p].hot = {},
         pass[p].draft # NoDraft
  PROVE  \E a \in Row : NextRow(p, a)
<1> DEFINE D == DOMAIN pass[p].draft
           Upto(a) == {b \in D : Rank[b] <= Rank[a]}
           F == {Upto(a) : a \in D}
<1>1. D \subseteq Row /\ IsFiniteSet(D)
  <2>1. IsFiniteSet(Row)
    BY IntelligenceAssumption, FS_Union DEF Row
  <2>2. D \subseteq Row
    BY DEF TypeOK, SessionOK, Partial
  <2>q. QED
    BY <2>1, <2>2, FS_Subset
<1>2. D # {}
  <2>1. pass[p].draft \in [D -> DraftObject]
    BY DEF TypeOK, SessionOK, Partial
  <2>q. QED
    BY <2>1 DEF NoDraft
<1>3. \A a \in D : Rank[a] \in Nat
  BY <1>1, IntelligenceAssumption
<1>4. F \subseteq SUBSET D /\ F # {}
  <2> HIDE DEF D
  <2>1. PICK a \in D : TRUE
    BY <1>2
  <2>2. Upto(a) \in F
    OBVIOUS
  <2>3. F \subseteq SUBSET D
    OBVIOUS
  <2>q. QED
    BY <2>2, <2>3
<1>5. PICK S \in F : \A T \in F : T \subseteq S => T = S
  <2> HIDE DEF F, D
  <2>q. QED
    BY <1>1, <1>4, Smallest
<1>6. PICK a \in D : S = Upto(a)
  OBVIOUS
<1>7. ASSUME NEW b \in D PROVE Rank[a] <= Rank[b]
  <2> SUFFICES ASSUME Rank[b] < Rank[a] PROVE FALSE
    BY <1>3
  <2>1. Upto(b) \subseteq Upto(a) /\ a \notin Upto(b) /\ a \in Upto(a)
    BY <1>3
  <2>2. Upto(b) \in F
    OBVIOUS
  <2>q. QED
    BY <1>5, <1>6, <2>1, <2>2
<1>q. QED
  BY <1>1, <1>7 DEF NextRow

(* Whoever has to end can go on, or waits for another pass that has to end. *)
LEMMA AbleOrBlocked ==
  ASSUME TypeOK, AllSettled, NEW p \in Busy, ~Able(p)
  PROVE  \E q \in Busy \ {p} : Blocking(q, p)
<1>0. pass[p].pc \in Labels
  BY DEF TypeOK, SessionOK, Busy
<1>1. pass[p].pc \in {"flag", "cloud_flush", "touch", "insert"}
  BY <1>0 DEF Labels, Able, Busy
<1>2. ASSUME NEW q \in Pass \ {p}, Blocking(q, p) PROVE q \in Busy
  BY <1>2 DEF Blocking, AllSettled, Settled, Busy
<1>3. \E q \in Pass \ {p} : Blocking(q, p)
  <2>1. CASE pass[p].pc \in {"flag", "cloud_flush"}
    <3>1. pass[p].hot = {}
      BY <2>1 DEF Able, AllSettled, Settled, Busy
    <3>2. pass[p].draft # NoDraft
      BY <2>1, <3>1 DEF Able
    <3>3. PICK a \in Row : NextRow(p, a)
      BY <2>1, <3>1, <3>2, NextRowExists DEF Busy
    <3>4. PICK q \in Pass \ {p} : a \in pass[q].held
      BY <3>3 DEF Able
    <3>q. QED
      BY <3>3, <3>4 DEF Blocking
  <2>2. CASE pass[p].pc = "touch"
    BY <2>2 DEF Able, Blocking
  <2>3. CASE pass[p].pc = "insert"
    BY <2>3 DEF Able, Blocking, FindingFree
  <2>q. QED
    BY <1>1, <2>1, <2>2, <2>3
<1>q. QED
  BY <1>2, <1>3

LEMMA SomeoneGoesOn ==
  ASSUME IsFiniteSet(Pass), TypeOK, AllSettled
  PROVE  NeverWedged
<1> SUFFICES ASSUME Busy # {}, \A p \in Pass : ~Able(p)
             PROVE  \E p \in Pass : Circular(p)
  BY DEF NeverWedged
<1> DEFINE R == {e \in Pass \X Pass : Blocking(e[2], e[1])}
<1>1. Busy \subseteq Pass /\ IsFiniteSet(Busy)
  BY FS_Subset DEF Busy
<1>2. \A p \in Busy : \E q \in Busy \ {p} : <<p, q>> \in R
  BY <1>1, AbleOrBlocked
<1>3. PICK S \in SUBSET Busy :
        S # {} /\ \A x \in S : (\E y \in S : <<x, y>> \in R) /\ (\E y \in S : <<y, x>> \in R)
  <2> HIDE DEF R
  <2>q. QED
    BY <1>1, <1>2, Circle
<1>4. \A r \in S : (\E q \in S : Blocking(q, r)) /\ (\E q \in S : Blocking(r, q))
  BY <1>3
<1>q. QED
  BY <1>1, <1>3, <1>4 DEF Circular

-----------------------------------------------------------------------------
(* Where a pass is: its modules in their order. *)
Ahead(s) ==
  CASE s.pc = "idle"                         -> 9
    [] s.pc = "hot"                          -> 8
    [] s.pc = "flag"                         -> 7
    [] s.pc = "takeover"                     -> 6
    [] s.pc \in {"report", "touch", "insert"} -> 5
    [] s.pc = "cloud"                        -> 4
    [] s.pc = "cloud_flush"                  -> 3
    [] s.pc = "commit"                       -> 2
    [] OTHER                                 -> 1

Less(A, B) == A \subseteq B /\ A # B

(* The next module; or, within one, an address, a row or a finding less to    *)
(* do, or the finding at hand reported.                                       *)
Onward(s, t) ==
  \/ Ahead(t) < Ahead(s)
  \/ /\ t.pc = s.pc
     /\ \/ Less(t.hot, s.hot)
        \/ t.hot = s.hot /\ Less(DOMAIN t.draft, DOMAIN s.draft)
  \/ s.pc = "report" /\ t.pc \in {"touch", "insert"} /\ Less(t.todo, s.todo)
  \/ s.pc \in {"touch", "insert"} /\ t.pc = "report" /\ t.todo = s.todo

(* Every step is progress of one pass and leaves the sessions of the others as *)
(* they are, or is one of finitely many changes beside them.                  *)
Counts ==
  \/ /\ \E p \in Pass : /\ Onward(pass[p], pass'[p])
                        /\ \A q \in Pass \ {p} : pass'[q] = pass[q]
     /\ UNCHANGED <<changes, upsert>>
  \/ /\ UNCHANGED pass
     /\ changes' = changes + 1 \/ (changes' = changes /\ upsert # None /\ upsert' = None)

EveryStepCounts == [][Counts]_vars

LEMMA HotIpsFinite == IsFiniteSet(HotIps)
<1> DEFINE count(i) == Cardinality(SubsOf(i))
           D == {j \in Ip : count(j) > Threshold}
           f == [i \in D |-> [ip |-> i, count |-> count(i)]]
<1>1. IsFiniteSet(D)
  BY IntelligenceAssumption, FS_Subset
<1>2. HotIps = {f[i] : i \in D}
  BY DEF HotIps
<1>3. f \in Surjection(D, HotIps)
  BY <1>2 DEF Surjection
<1>q. QED
  BY <1>1, <1>3, FS_Surjection

(* What a step of a pass makes of its session. *)
Moves(p) ==
  \E s : /\ pass' = [pass EXCEPT ![p] = s] /\ UNCHANGED <<changes, upsert>>
         /\ Settled(s) /\ Onward(pass[p], s)

LEMMA BecomesMoves ==
  ASSUME NEW p \in Pass, NEW s, Becomes(p, s), Settled(s), Onward(pass[p], s)
  PROVE  Moves(p)
BY DEF Becomes, Moves, world

(* It goes to another module with nothing more to flag. *)
LEMMA GotoMoves ==
  ASSUME TypeOK, AllSettled, NEW p \in Pass, NEW l, Goto(p, l),
         l \notin {"idle", "flag", "done", "failed"}, pass[p].hot = {},
         \A s : s.pc = l => Ahead(s) < Ahead(pass[p])
  PROVE  Moves(p)
<1> DEFINE s == [pass[p] EXCEPT !.pc = l]
<1>1. SessionOK(pass[p]) /\ Settled(pass[p])
  BY DEF TypeOK, AllSettled
<1>2. s.pc = l /\ s.hot = {} 
  BY <1>1 DEF SessionOK, IdlePass
<1>3. Settled(s)
  BY <1>1, <1>2, FS_EmptySet DEF Settled
<1>4. Onward(pass[p], s)
  BY <1>2 DEF Onward
<1> HIDE DEF s
<1>q. QED
  BY <1>3, <1>4, BecomesMoves DEF Goto, s

(* Its transaction ends. *)
LEMMA EndMoves ==
  ASSUME TypeOK, NEW p \in Busy, NEW how \in {"done", "failed"},
         pass' = [pass EXCEPT ![p] = Ended(p, how)], UNCHANGED <<changes, upsert>>
  PROVE  Moves(p)
<1> DEFINE s == Ended(p, how)
<1>1. s.pc = how /\ s.hot = {} /\ s.held = {} /\ s.touched = {} /\ s.created = {}
  BY DEF Ended, IdlePass
<1>2. Settled(s)
  BY <1>1, FS_EmptySet DEF Settled
<1>3. Ahead(s) = 1 /\ Ahead(pass[p]) \in 2 .. 9
  BY <1>1 DEF Ahead, Busy, TypeOK, SessionOK, Labels
<1>4. Onward(pass[p], s)
  BY <1>3 DEF Onward
<1>q. QED
  BY <1>2, <1>4 DEF Moves

LEMMA PassMoves ==
  ASSUME TypeOK, AllSettled, NEW p \in Pass, Start(p) \/ Step(p) \/ Victim(p)
  PROVE  Moves(p)
<1> DEFINE old == pass[p]
<1>0. SessionOK(old) /\ Settled(old)
  BY DEF TypeOK, AllSettled
<1>1. CASE Start(p)
  <2>1. PICK r : Becomes(p, [old EXCEPT !.pc = "hot", !.scan = <<program, r[1], r[2]>>,
                                       !.options = MergedOptions(program, r[1], r[2])])
    BY <1>1 DEF Start
  <2> DEFINE s == [old EXCEPT !.pc = "hot", !.scan = <<program, r[1], r[2]>>,
                              !.options = MergedOptions(program, r[1], r[2])]
  <2>2. s.pc = "hot" /\ s.hot = old.hot /\ old.pc = "idle"
    BY <1>0, <1>1 DEF SessionOK, IdlePass, Start
  <2>3. Settled(s) /\ Onward(old, s)
    BY <1>0, <2>2 DEF Settled, Onward, Ahead
  <2>q. QED
    BY <2>1, <2>3, BecomesMoves
<1>2. CASE FindHotIps(p)
  <2>1. CASE Becomes(p, [old EXCEPT !.pc = "flag", !.hot = HotIps])
    <3> DEFINE s == [old EXCEPT !.pc = "flag", !.hot = HotIps]
    <3>1. s.pc = "flag" /\ s.hot = HotIps /\ old.pc = "hot"
      BY <1>0, <1>2 DEF SessionOK, IdlePass, FindHotIps
    <3>2. Settled(s) /\ Onward(old, s)
      BY <3>1, HotIpsFinite DEF Settled, Onward, Ahead
    <3>q. QED
      BY <2>1, <3>2, BecomesMoves
  <2>2. CASE Goto(p, "takeover")
    <3>1. old.pc = "hot" /\ old.hot = {}
      BY <1>0, <1>2 DEF FindHotIps, Settled
    <3>2. \A s : s.pc = "takeover" => Ahead(s) < Ahead(old)
      BY <3>1 DEF Ahead
    <3>q. QED
      BY <2>2, <3>1, <3>2, GotoMoves
  <2>q. QED
    BY <1>2, <2>1, <2>2 DEF FindHotIps
<1>3. CASE FlagIp(p)
  <2>1. PICK h \in old.hot : \E d : Becomes(p, [old EXCEPT !.hot = @ \ {h}, !.draft = d])
    BY <1>3 DEF FlagIp
  <2>2. PICK d : Becomes(p, [old EXCEPT !.hot = @ \ {h}, !.draft = d])
    BY <2>1
  <2> DEFINE s == [old EXCEPT !.hot = @ \ {h}, !.draft = d]
  <2>3. s.pc = "flag" /\ s.hot = old.hot \ {h} /\ old.pc = "flag"
    BY <1>0, <1>3 DEF SessionOK, IdlePass, FlagIp
  <2>4. Settled(s)
    BY <1>0, <2>3, FS_Subset DEF Settled
  <2>5. Onward(old, s)
    BY <2>3 DEF Onward, Less
  <2>q. QED
    BY <2>2, <2>4, <2>5, BecomesMoves
<1>4. CASE UpdateRow(p)
  <2>1. PICK a \in Row :
          /\ NextRow(p, a)
          /\ Becomes(p, [old EXCEPT !.held = @ \cup {a}, !.own = Written(p, a),
                                    !.draft = [b \in DOMAIN @ \ {a} |-> @[b]]])
    BY <1>4 DEF UpdateRow
  <2> DEFINE s == [old EXCEPT !.held = @ \cup {a}, !.own = Written(p, a),
                              !.draft = [b \in DOMAIN @ \ {a} |-> @[b]]]
  <2>2. /\ s.pc = old.pc /\ s.hot = old.hot /\ DOMAIN s.draft = DOMAIN old.draft \ {a}
        /\ old.pc \in {"flag", "cloud_flush"} /\ a \in DOMAIN old.draft
    BY <1>0, <2>1 DEF SessionOK, IdlePass, NextRow
  <2>3. Settled(s)
    BY <1>0, <2>2 DEF Settled
  <2>4. Onward(old, s)
    BY <2>2 DEF Onward, Less
  <2>q. QED
    BY <2>1, <2>3, <2>4, BecomesMoves
<1>5. CASE Flushed(p) \/ Reported(p)
  <2>1. PICK l \in {"takeover", "cloud", "commit"} :
          /\ Goto(p, l) /\ old.hot = {}
          /\ <<old.pc, l>> \in {<<"flag", "takeover">>, <<"report", "cloud">>, <<"cloud_flush", "commit">>}
    BY <1>0, <1>5 DEF Flushed, Reported, Settled
  <2>2. \A s : s.pc = l => Ahead(s) < Ahead(old)
    BY <2>1 DEF Ahead
  <2>q. QED
    BY <2>1, <2>2, GotoMoves
<1>6. CASE ScanTakeover(p)
  <2> DEFINE found == {x \in Sub : View(p, x).observed.dangling}
             s == [old EXCEPT !.pc = "report", !.signals = found, !.todo = found]
  <2>0. old.pc = "takeover" /\ old.hot = {}
    BY <1>0, <1>6 DEF ScanTakeover, Settled
  <2>1. CASE Becomes(p, s)
    <3>1. s.pc = "report" /\ s.hot = {}
      BY <1>0, <2>0 DEF SessionOK, IdlePass
    <3>2. Settled(s) /\ Onward(old, s)
      BY <2>0, <3>1, FS_EmptySet DEF Settled, Onward, Ahead
    <3>q. QED
      BY <2>1, <3>2, BecomesMoves
  <2>2. CASE Goto(p, "cloud")
    <3>1. \A x : x.pc = "cloud" => Ahead(x) < Ahead(old)
      BY <2>0 DEF Ahead
    <3>q. QED
      BY <2>0, <2>2, <3>1, GotoMoves
  <2>q. QED
    BY <1>6, <2>1, <2>2 DEF ScanTakeover
<1>7. CASE SelectFinding(p)
  <2>1. PICK x \in old.todo :
          Becomes(p, [old EXCEPT !.pc = FindingStatement(p, x), !.at = x, !.todo = @ \ {x}])
    BY <1>7 DEF SelectFinding
  <2> DEFINE s == [old EXCEPT !.pc = FindingStatement(p, x), !.at = x, !.todo = @ \ {x}]
  <2>2. /\ s.pc \in {"touch", "insert"} /\ s.hot = {} /\ s.todo = old.todo \ {x} /\ old.pc = "report"
    BY <1>0, <1>7 DEF SessionOK, IdlePass, SelectFinding, FindingStatement, Settled
  <2>3. Settled(s)
    BY <2>2, FS_EmptySet DEF Settled
  <2>4. Onward(old, s)
    BY <2>2 DEF Onward, Less
  <2>q. QED
    BY <2>1, <2>3, <2>4, BecomesMoves
<1>8. CASE TouchFinding(p) \/ InsertFinding(p)
  <2>1. PICK s \in {[old EXCEPT !.pc = "report", !.touched = @ \cup {old.at}],
                    [old EXCEPT !.pc = "report", !.created = @ \cup {old.at}]} : Becomes(p, s)
    BY <1>8 DEF TouchFinding, InsertFinding
  <2>2. s.pc = "report" /\ s.hot = {} /\ s.todo = old.todo /\ old.pc \in {"touch", "insert"}
    BY <1>0, <1>8 DEF SessionOK, IdlePass, TouchFinding, InsertFinding, Settled
  <2>3. Settled(s)
    BY <2>2, FS_EmptySet DEF Settled
  <2>4. Onward(old, s)
    BY <2>2 DEF Onward
  <2>q. QED
    BY <2>1, <2>3, <2>4, BecomesMoves
<1>9. CASE TagCloud(p)
  <2>0. old.pc = "cloud" /\ old.hot = {}
    BY <1>0, <1>9 DEF TagCloud, Settled
  <2>1. ASSUME NEW d, Becomes(p, [old EXCEPT !.pc = "cloud_flush", !.draft = d]) PROVE Moves(p)
    <3> DEFINE s == [old EXCEPT !.pc = "cloud_flush", !.draft = d]
    <3>1. s.pc = "cloud_flush" /\ s.hot = {}
      BY <1>0, <2>0 DEF SessionOK, IdlePass
    <3>2. Settled(s) /\ Onward(old, s)
      BY <2>0, <3>1, FS_EmptySet DEF Settled, Onward, Ahead
    <3>q. QED
      BY <2>1, <3>2, BecomesMoves
  <2>2. CASE Goto(p, "commit")
    <3>1. \A x : x.pc = "commit" => Ahead(x) < Ahead(old)
      BY <2>0 DEF Ahead
    <3>q. QED
      BY <2>0, <2>2, <3>1, GotoMoves
  <2>q. QED
    BY <1>9, <2>1, <2>2 DEF TagCloud
<1>10. CASE Commit(p)
  BY <1>10, EndMoves DEF Commit, Busy
<1>11. CASE Conflict(p)
  BY <1>11, EndMoves DEF Conflict, HashTaken, Becomes, world, Busy
<1>12. CASE Victim(p)
  <2>1. p \in Busy
    BY <1>12 DEF Victim, Blocking, NextRow, Busy
  <2>q. QED
    BY <1>12, <2>1, EndMoves DEF Victim, Becomes, world
<1>q. QED
  BY <1>1, <1>2, <1>3, <1>4, <1>5, <1>6, <1>7, <1>8, <1>9, <1>10, <1>11, <1>12 DEF Step

LEMMA MovesSettle ==
  ASSUME TypeOK, AllSettled, NEW p \in Pass, Moves(p)
  PROVE  AllSettled' /\ Counts
<1>1. PICK s : /\ pass' = [pass EXCEPT ![p] = s] /\ UNCHANGED <<changes, upsert>>
               /\ Settled(s) /\ Onward(pass[p], s)
  BY DEF Moves
<1>2. pass'[p] = s /\ \A q \in Pass \ {p} : pass'[q] = pass[q]
  BY <1>1 DEF TypeOK
<1>3. \A q \in Pass : Settled(pass'[q])
  BY <1>1, <1>2 DEF AllSettled
<1>4. AllSettled'
  BY <1>3 DEF AllSettled, Settled
<1>5. Counts
  BY <1>1, <1>2 DEF Counts
<1>q. QED
  BY <1>4, <1>5

LEMMA StepSettles == TypeOK /\ AllSettled /\ [Next]_vars => AllSettled' /\ [Counts]_vars
<1> SUFFICES ASSUME TypeOK, AllSettled, [Next]_vars
             PROVE  AllSettled' /\ [Counts]_vars
  OBVIOUS
<1>1. CASE \E p \in Pass : Start(p) \/ Step(p) \/ Victim(p)
  BY <1>1, PassMoves, MovesSettle
<1>2. CASE PatchProgram \/ Resolve \/ UpsertRead \/ UpsertWrite
  <2>1. UNCHANGED pass
    BY <1>2 DEF PatchProgram, Resolve, UpsertRead, UpsertWrite
  <2>2. changes' = changes + 1 \/ (changes' = changes /\ upsert # None /\ upsert' = None)
    BY <1>2 DEF PatchProgram, Resolve, UpsertRead, UpsertWrite, Changes
  <2>q. QED
    BY <2>1, <2>2 DEF Counts, AllSettled, Settled
<1>3. CASE UNCHANGED vars
  BY <1>3 DEF vars, AllSettled, Settled
<1>q. QED
  BY <1>1, <1>2, <1>3 DEF Next, Terminating

LEMMA InitSettled == Init => AllSettled
<1> SUFFICES ASSUME Init
             PROVE  AllSettled
  OBVIOUS
<1>1. \A p \in Pass : pass[p] = IdlePass
  BY DEF Init
<1>2. Settled(IdlePass)
  BY FS_EmptySet DEF Settled, IdlePass
<1>q. QED
  BY <1>1, <1>2 DEF AllSettled

(* The server's deadlock detection is all it takes: whatever rows and findings *)
(* passes wait for, some pass can go on or is on a circle of waits.           *)
THEOREM PassesAreNeverWedged ==
  ASSUME IsFiniteSet(Pass)
  PROVE  Spec => []NeverWedged
BY InitType, TypeStep, InitSettled, StepSettles, SomeoneGoesOn, PTL DEF Spec

(* With finitely many addresses, rows and findings no pass goes on forever,   *)
(* however its locks and findings meet those of the others.                   *)
THEOREM EveryPassStepIsProgress == Spec => EveryStepCounts
BY InitType, TypeStep, InitSettled, StepSettles, PTL DEF Spec, EveryStepCounts
=============================================================================
