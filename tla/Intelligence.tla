---------------------------- MODULE Intelligence ----------------------------
(***************************************************************************)
(* Passes of services/intelligence_service.py over one program's assets,   *)
(* each in one transaction of its own, beside the DNS task and requests    *)
(* that go on storing relations and metadata; and the way a module's       *)
(* switch takes from the program's settings over the scan's options to the *)
(* pass.  No route or task calls run_intelligence_pass yet: the model lets *)
(* any caller start it with the options of a job, which is what it is      *)
(* written for.  PostgreSQL is modelled as in AssetStore.  The fingerprint *)
(* module is an ingest of AssetStore, ports being the parents.             *)
(***************************************************************************)
EXTENDS Integers, FiniteSets

CONSTANTS
  Pass,          \* intelligence passes
  Sub, Dom, Ip,  \* assets by type: SUBDOMAIN, DOMAIN, IP
  Vendor,        \* cloud vendors that _CLOUD_VENDOR_RULES knows
  Rank,          \* the order of the primary keys
  Threshold,     \* DEFAULT_HOT_IP_SUBDOMAIN_THRESHOLD
  Blocks,        \* the "intelligence" blocks sent for the program
  Requests,      \* those of scan requests: the nested block, the flat keys
  Graphs,        \* resolves_to relations to start with
  Observations,  \* what the rows' metadata says at the start
  None,          \* no block, address or vendor
  MaxChanges     \* bound on the changes beside the passes

Toggle == {"correlate_shared_ips", "check_takeover", "tag_cloud_providers"}
Block  == UNION {[S -> BOOLEAN] : S \in SUBSET Toggle}

Row      == Sub \cup Ip
Relation == (Sub \cup Dom) \X Ip
Observed == [dangling : BOOLEAN, vendor : Vendor \cup {None}]

ASSUME IntelligenceAssumption ==
  /\ Blocks \subseteq Block /\ Requests \subseteq (Block \cup {None}) \X (Block \cup {None})
  /\ None \notin Block \cup Vendor \cup Ip
  /\ Graphs \subseteq SUBSET Relation /\ Observations \subseteq [Row -> Observed]
  /\ IsFiniteSet(Sub) /\ IsFiniteSet(Ip)
  /\ Sub \cap Ip = {} /\ Sub \cap Dom = {} /\ Dom \cap Ip = {}
  /\ Rank \in [Row -> Nat] /\ \A a, b \in Row : Rank[a] = Rank[b] => a = b
  /\ Threshold \in Nat /\ MaxChanges \in Nat

-----------------------------------------------------------------------------
(***************************************************************************)
(* Settings.                                                               *)
(***************************************************************************)
Defaults == [k \in Toggle |-> TRUE]

(* The entries of base, replaced by those block has. *)
Over(base, block) ==
  IF block = None THEN base
  ELSE [k \in Toggle |-> IF k \in DOMAIN block THEN block[k] ELSE base[k]]

(* What a new program stores of the block it is sent. *)
CreatedSettings(block) == Over(Defaults, block)

(* Mutant: the block is stored as it is sent. *)
PatchedAsSent(stored, block) == IF block = None THEN stored ELSE block

(* A patch without a block keeps the stored one; a block replaces it.  What  *)
(* is sent as null or as no dict counts as an empty block, the defaults.    *)
PatchedSettings(stored, block) == Over(Defaults, IF block = None THEN stored ELSE block)

(* Mutant: the nested block is applied after the flat keys. *)
MergedNestedLast(stored, nested, flat) == Over(Over(Over(Defaults, stored), flat), nested)

(* merge_scan_options_for_job: the program's block, the request's block, and *)
(* the request's flat keys.                                                 *)
MergedOptions(stored, nested, flat) == Over(Over(Over(Defaults, stored), nested), flat)

(* resolve_intelligence_scan_settings, of options with a block. *)
Resolved(options) == Over(Defaults, options)

-----------------------------------------------------------------------------
VARIABLES
  program,   \* the program's stored block
  resolves,  \* committed resolves_to relations
  meta,      \* metadata of the rows: what was observed, and the intelligence block
  findings,  \* SUBDOMAINs with a committed finding (one dedupe hash each)
  upsert,    \* a metadata update by another session: what it is about to write
  changes,
  pass       \* what each pass has in its session and its transaction

world == <<program, resolves, meta, findings, upsert, changes>>
vars  == <<world, pass>>

NoFlags == [ip |-> None, count |-> 0, correlation |-> "none", provider |-> None]
NoDraft == [a \in {} |-> None]

(* scan: the layers its job's options were merged from; draft: modified    *)
(* objects not yet flushed, as loaded and as they are; own: metadata it has *)
(* written; held, touched, created: rows and findings it has updated or     *)
(* inserted, and so locked; signals, todo, at: the SUBDOMAINs it saw takeover *)
(* signals of, those still to report, and the one it is reporting.          *)
IdlePass ==
  [pc |-> "idle", scan |-> None, options |-> None, hot |-> {}, draft |-> NoDraft,
   own |-> NoDraft, held |-> {}, signals |-> {}, todo |-> {}, at |-> None,
   touched |-> {}, created |-> {}]

Init ==
  /\ program \in {CreatedSettings(b) : b \in Blocks \cup {None}}
  /\ resolves \in Graphs
  /\ \E o \in Observations : meta = [a \in Row |-> [observed |-> o[a], intelligence |-> NoFlags]]
  /\ findings = {} /\ upsert = None /\ changes = 0
  /\ pass = [p \in Pass |-> IdlePass]

-----------------------------------------------------------------------------
(***************************************************************************)
(* Beside the passes.                                                      *)
(***************************************************************************)
RowFree(a) == \A p \in Pass : a \notin pass[p].held

Changes == changes < MaxChanges /\ changes' = changes + 1

(* update_program *)
PatchProgram ==
  /\ Changes
  /\ \E b \in Blocks : program' = PatchedSettings(program, b)
  /\ UNCHANGED <<resolves, meta, findings, upsert, pass>>

(* A DNS task's transaction: the address is upserted, then linked. *)
Resolve ==
  /\ Changes
  /\ \E r \in Relation \ resolves :
       RowFree(r[2]) /\ resolves' = resolves \cup {r}
  /\ UNCHANGED <<program, meta, findings, upsert, pass>>

(* upsert_asset with new observations: reads the metadata ... *)
UpsertRead ==
  /\ upsert = None /\ Changes
  /\ \E a \in Row, o \in Observed :
       upsert' = [row |-> a, meta |-> [meta[a] EXCEPT !.observed = o]]
  /\ UNCHANGED <<program, resolves, meta, findings, pass>>

(* ... and writes it whole, when the row is free. *)
UpsertWrite ==
  /\ upsert # None /\ RowFree(upsert.row)
  /\ meta' = [meta EXCEPT ![upsert.row] = upsert.meta]
  /\ upsert' = None
  /\ UNCHANGED <<program, resolves, findings, changes, pass>>

-----------------------------------------------------------------------------
(***************************************************************************)
(* A pass: run_intelligence_pass and the modules it calls in turn.          *)
(***************************************************************************)
On(p, toggle) == Resolved(pass[p].options)[toggle]

(* A step within the session. *)
Becomes(p, session) == pass' = [pass EXCEPT ![p] = session] /\ UNCHANGED world

Goto(p, label) == Becomes(p, [pass[p] EXCEPT !.pc = label])

(* launch_scan merges the options, and a pass is started with them. *)
Start(p) ==
  /\ pass[p].pc = "idle"
  /\ \E r \in Requests :
       Becomes(p, [pass[p] EXCEPT !.pc = "hot", !.scan = <<program, r[1], r[2]>>,
                                  !.options = MergedOptions(program, r[1], r[2])])

SubsOf(i) == {s \in Sub : <<s, i>> \in resolves}

(* Mutant: every parent counts. *)
HotIpsOfAll ==
  LET count(i) == Cardinality({r \in resolves : r[2] = i})
  IN  {[ip |-> i, count |-> count(i)] : i \in {j \in Ip : count(j) > Threshold}}

(* Addresses with more than Threshold SUBDOMAINs. *)
HotIps ==
  LET count(i) == Cardinality(SubsOf(i))
  IN  {[ip |-> i, count |-> count(i)] : i \in {j \in Ip : count(j) > Threshold}}

(* map_ip_neighborhoods: the first query. *)
FindHotIps(p) ==
  /\ pass[p].pc = "hot"
  /\ IF On(p, "correlate_shared_ips")
       THEN Becomes(p, [pass[p] EXCEPT !.pc = "flag", !.hot = HotIps])
       ELSE Goto(p, "takeover")

(* What the transaction sees of a row. *)
View(p, a) == IF a \in DOMAIN pass[p].own THEN pass[p].own[a] ELSE meta[a]

(* The object of a row in the session: loaded now, unless it was modified     *)
(* (a session keeps no other).                                              *)
Object(p, a) ==
  IF a \in DOMAIN pass[p].draft THEN pass[p].draft[a] ELSE [loaded |-> View(p, a), now |-> View(p, a)]

(* _merge_intelligence_block *)
Flagged(object, h) ==
  [object EXCEPT !.now.intelligence =
     [@ EXCEPT !.ip = h.ip, !.count = h.count, !.correlation = "hot_ip"]]

Tagged(object) ==
  [object EXCEPT !.now.intelligence =
     [@ EXCEPT !.provider = object.loaded.observed.vendor, !.correlation = "asn_cloud"]]

(* The SUBDOMAINs of a hot address, those of now, are flagged. *)
FlagIp(p) ==
  /\ pass[p].pc = "flag"
  /\ \E h \in pass[p].hot :
       Becomes(p, [pass[p] EXCEPT !.hot = @ \ {h},
         !.draft = [a \in DOMAIN pass[p].draft \cup SubsOf(h.ip) |->
           IF a \in SubsOf(h.ip) THEN Flagged(Object(p, a), h) ELSE pass[p].draft[a]]])

(* The row a flush comes to next: they are updated in the order of their keys. *)
NextRow(p, a) ==
  /\ pass[p].pc \in {"flag", "cloud_flush"} /\ pass[p].hot = {} /\ a \in DOMAIN pass[p].draft
  /\ \A b \in DOMAIN pass[p].draft : Rank[a] <= Rank[b]

(* flush: last_seen is always written, metadata only when it changed. *)
Written(p, a) ==
  LET object == pass[p].draft[a]
  IN  IF object.now = object.loaded THEN pass[p].own
      ELSE [b \in DOMAIN pass[p].own \cup {a} |-> IF b = a THEN object.now ELSE pass[p].own[b]]

UpdateRow(p) ==
  \E a \in Row :
    /\ NextRow(p, a) /\ \A q \in Pass \ {p} : a \notin pass[q].held
    /\ Becomes(p, [pass[p] EXCEPT !.held = @ \cup {a}, !.own = Written(p, a),
                     !.draft = [b \in DOMAIN @ \ {a} |-> @[b]]])

Flushed(p) ==
  /\ pass[p].pc \in {"flag", "cloud_flush"} /\ pass[p].hot = {} /\ pass[p].draft = NoDraft
  /\ Goto(p, IF pass[p].pc = "flag" THEN "takeover" ELSE "commit")

(* scan_subdomain_takeover_signals: the query and the metadata tests. *)
ScanTakeover(p) ==
  LET found == {s \in Sub : View(p, s).observed.dangling}
  IN  /\ pass[p].pc = "takeover"
      /\ IF On(p, "check_takeover")
           THEN Becomes(p, [pass[p] EXCEPT !.pc = "report", !.signals = found, !.todo = found])
           ELSE Goto(p, "cloud")

(* create_finding: is there one with this dedupe hash? *)
FindingStatement(p, s) == IF s \in findings \cup pass[p].created THEN "touch" ELSE "insert"

(* Mutant: the loop comes back to the same SUBDOMAIN. *)
SelectFindingAgain(p) ==
  /\ pass[p].pc = "report"
  /\ \E s \in pass[p].todo : Becomes(p, [pass[p] EXCEPT !.pc = FindingStatement(p, s), !.at = s])

SelectFinding(p) ==
  /\ pass[p].pc = "report"
  /\ \E s \in pass[p].todo :
       Becomes(p, [pass[p] EXCEPT !.pc = FindingStatement(p, s), !.at = s, !.todo = @ \ {s}])

TouchFinding(p) ==
  /\ pass[p].pc = "touch"
  /\ \A q \in Pass \ {p} : pass[p].at \notin pass[q].touched
  /\ Becomes(p, [pass[p] EXCEPT !.pc = "report", !.touched = @ \cup {pass[p].at}])

(* Nobody else has inserted it and not yet committed. *)
FindingFree(p) == \A q \in Pass \ {p} : pass[p].at \notin pass[q].created

InsertFinding(p) ==
  /\ pass[p].pc = "insert" /\ FindingFree(p) /\ pass[p].at \notin findings
  /\ Becomes(p, [pass[p] EXCEPT !.pc = "report", !.created = @ \cup {pass[p].at}])

Reported(p) == pass[p].pc = "report" /\ pass[p].todo = {} /\ Goto(p, "cloud")

(* tag_cloud_hosted_assets. *)
TagCloud(p) ==
  LET hosted == {a \in Row : View(p, a).observed.vendor # None}
  IN  /\ pass[p].pc = "cloud"
      /\ IF On(p, "tag_cloud_providers")
           THEN Becomes(p, [pass[p] EXCEPT !.pc = "cloud_flush",
                              !.draft = [a \in hosted |-> Tagged(Object(p, a))]])
           ELSE Goto(p, "commit")

(* The session after its transaction. *)
Ended(p, how) == [IdlePass EXCEPT !.pc = how, !.signals = pass[p].signals]

Commit(p) ==
  /\ pass[p].pc = "commit"
  /\ meta' = [a \in Row |-> View(p, a)]
  /\ findings' = findings \cup pass[p].created
  /\ pass' = [pass EXCEPT ![p] = Ended(p, "done")]
  /\ UNCHANGED <<program, resolves, upsert, changes>>

(* A unique key that is taken. *)
HashTaken(p) == pass[p].pc = "insert" /\ FindingFree(p) /\ pass[p].at \in findings

(* Mutant: the taken hash is passed over, after the rollback. *)
ConflictIgnored(p) == HashTaken(p) /\ Becomes(p, Ended(p, "done"))

(* The caller's transaction fails, with all the pass has done. *)
Conflict(p) == HashTaken(p) /\ Becomes(p, Ended(p, "failed"))

Blocking(q, p) ==
  /\ q # p
  /\ \/ \E a \in pass[q].held : NextRow(p, a)
     \/ pass[p].pc = "touch" /\ pass[p].at \in pass[q].touched
     \/ pass[p].pc = "insert" /\ pass[p].at \in pass[q].created

(* Of a cycle of waiting transactions one is rolled back. *)
Victim(p) ==
  /\ \E S \in SUBSET Pass :
       p \in S /\ \A r \in S : (\E q \in S : Blocking(q, r)) /\ (\E q \in S : Blocking(r, q))
  /\ Becomes(p, Ended(p, "failed"))

-----------------------------------------------------------------------------
Step(p) ==
  \/ FindHotIps(p) \/ FlagIp(p) \/ UpdateRow(p) \/ Flushed(p)
  \/ ScanTakeover(p) \/ SelectFinding(p) \/ TouchFinding(p) \/ InsertFinding(p) \/ Reported(p)
  \/ TagCloud(p) \/ Commit(p) \/ Conflict(p)

Terminating ==
  upsert = None /\ (\A p \in Pass : pass[p].pc \in {"done", "failed"}) /\ UNCHANGED vars

Next ==
  \/ \E p \in Pass : Start(p) \/ Step(p) \/ Victim(p)
  \/ PatchProgram \/ Resolve \/ UpsertRead \/ UpsertWrite
  \/ Terminating

Spec == Init /\ [][Next]_vars

(* Sessions go on, and the server resolves deadlocks. *)
FairSpec ==
  /\ Spec
  /\ \A p \in Pass : WF_vars(Step(p))
  /\ WF_vars(\E p \in Pass : Victim(p))

-----------------------------------------------------------------------------
(***************************************************************************)
(* Properties.                                                             *)
(***************************************************************************)
Intelligences == [ip : Ip \cup {None}, count : Nat, correlation : {"none", "hot_ip", "asn_cloud"},
                  provider : Vendor \cup {None}]
Metadata == [observed : Observed, intelligence : Intelligences]
DraftObject  == [loaded : Metadata, now : Metadata]

Labels == {"idle", "hot", "flag", "takeover", "report", "touch", "insert", "cloud", "cloud_flush",
           "commit", "done", "failed"}

Partial(f, S) == DOMAIN f \subseteq Row /\ f \in [DOMAIN f -> S]

Scans == [Toggle -> BOOLEAN] \X (Block \cup {None}) \X (Block \cup {None})

SessionOK(s) ==
  /\ DOMAIN s = DOMAIN IdlePass
  /\ s.pc \in Labels
  /\ s.scan \in Scans \cup {None} /\ s.options \in [Toggle -> BOOLEAN] \cup {None}
  /\ s.hot \subseteq [ip : Ip, count : Nat]
  /\ Partial(s.draft, DraftObject) /\ Partial(s.own, Metadata)
  /\ s.held \subseteq Row /\ s.signals \subseteq Sub /\ s.todo \subseteq Sub
  /\ s.at \in (IF s.pc \in {"touch", "insert"} THEN Sub ELSE Sub \cup {None})
  /\ s.touched \subseteq Sub /\ s.created \subseteq Sub

(* Types; the settings of a program always name every module; locks are     *)
(* exclusive, and what a transaction wrote it has locked.                   *)
TypeOK ==
  /\ program \in [Toggle -> BOOLEAN] /\ resolves \subseteq Relation
  /\ meta \in [Row -> Metadata] /\ findings \subseteq Sub
  /\ upsert \in {None} \cup [row : Row, meta : Metadata] /\ changes \in 0 .. MaxChanges
  /\ DOMAIN pass = Pass /\ \A p \in Pass : SessionOK(pass[p])
  /\ \A p, q \in Pass : p # q => pass[p].held \cap pass[q].held = {}
  /\ \A p \in Pass : DOMAIN pass[p].own \subseteq pass[p].held

SoundFlag(s, block) ==
  block.ip # None =>
    /\ <<s, block.ip>> \in resolves
    /\ Threshold < block.count /\ block.count <= Cardinality(SubsOf(block.ip))

(* A row flagged as shared infrastructure is a SUBDOMAIN that resolves to    *)
(* the address named, and that address has more SUBDOMAINs than the          *)
(* threshold and no fewer than recorded: however passes and upserts overwrite *)
(* each other's metadata, address and count stay a pair, and a flag never    *)
(* becomes false.                                                           *)
FlagsSound == \A a \in Row : SoundFlag(a, meta[a].intelligence)

(* When a pass has committed, every SUBDOMAIN whose signals it saw has its   *)
(* finding; also when another pass reports at the same time.                 *)
SignalsReported == \A p \in Pass : pass[p].pc = "done" => pass[p].signals \subseteq findings

(* What the user asked for: the flat key of the request decides, else its   *)
(* block, else the program's.                                               *)
Wanted(p, k) ==
  LET scan == pass[p].scan
  IN  IF scan[3] # None /\ k \in DOMAIN scan[3] THEN scan[3][k]
      ELSE IF scan[2] # None /\ k \in DOMAIN scan[2] THEN scan[2][k]
      ELSE scan[1][k]

Enters(p, from, to, k) ==
  pass[p].pc = from /\ pass'[p].pc # from => (pass'[p].pc = to <=> Wanted(p, k))

(* A module does its work in a pass exactly when the user had it switched on *)
(* as the scan was launched, through the three merges in between and        *)
(* whatever becomes of the program's settings afterwards.                   *)
SwitchesObeyed ==
  [][\A p \in Pass :
       /\ Enters(p, "hot", "flag", "correlate_shared_ips")
       /\ Enters(p, "takeover", "report", "check_takeover")
       /\ Enters(p, "cloud", "cloud_flush", "tag_cloud_providers")]_vars

(* A pass that was started ends, whatever its updates and inserts wait for. *)
PassesEnd == \A p \in Pass : pass[p].pc = "hot" ~> pass[p].pc \in {"done", "failed"}
=============================================================================
