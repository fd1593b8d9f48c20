------------------------------ MODULE AssetStore ------------------------------
(***************************************************************************)
(* Concurrent ingestion of one program's assets, and the deletion of the   *)
(* program beside it.  Discovery and DNS tasks and API requests each run   *)
(* upsert_asset and link_assets of services/asset_service.py for a list of *)
(* finds in one transaction; both look a row up first and insert it when   *)
(* it is not there.  delete_program of services/program_service.py deletes *)
(* the assets it has loaded, then the program, whose foreign key takes the *)
(* assets stored meanwhile along.  PostgreSQL is modelled from its use, at *)
(* READ COMMITTED: a query sees what is committed and what its own         *)
(* transaction wrote; a written row is locked until its transaction ends,  *)
(* a row an inserted one refers to cannot be deleted until then; an insert *)
(* of a key another transaction has written waits for it, and fails on a   *)
(* committed one; of a cycle of waiting transactions one is rolled back.   *)
(***************************************************************************)
EXTENDS Integers, Sequences

CONSTANTS
  Ingest,      \* ingesting transactions, one per task or request
  Retried,     \* those of Celery tasks, which are retried; the others are requests
  Asset,       \* assets of the program, by type and value
  DomainAsset, \* those of type DOMAIN
  NoParent,    \* "no parent_id"
  MetaKey,     \* metadata keys
  Plans,       \* the lists of finds a task may bring
  Requests,    \* those of a request, of one find each
  Stored,      \* sets of assets that may be there at the start
  MaxRetries,  \* retry_kwargs["max_retries"]
  MaxFaults,   \* bound on failures other than conflicts
  Deletion,    \* the request that deletes the program
  Deletes      \* whether there is one

Find == [parent : Asset \cup {NoParent}, asset : Asset, meta : SUBSET MetaKey]

ASSUME AssetStoreAssumption ==
  /\ Retried \subseteq Ingest /\ NoParent \notin Asset /\ DomainAsset \subseteq Asset
  /\ Plans \subseteq Seq(Find) \ {<<>>} /\ Requests \subseteq {<<f>> : f \in Find}
  /\ Stored \subseteq SUBSET Asset
  /\ MaxRetries \in Nat /\ MaxFaults \in Nat
  /\ Deletion \notin Ingest /\ Deletes \in BOOLEAN

VARIABLES
  before,    \* the assets stored at the start
  rows,      \* committed assets
  meta,      \* their metadata keys
  rels,      \* committed relations <<parent, child>>
  plan, at,  \* of an ingest: its finds, and the one it is at
  pc,        \* its next statement
  held,      \* assets its transaction has inserted or updated, and so locked
  seen,      \* the metadata its session has of an asset
  dirty,     \* assets whose metadata it has written
  links,     \* relations it has inserted
  retries,
  committed, \* ingests that committed at least once
  faults,
  delPc,     \* the next statement of the deletion
  doomed,    \* assets it has deleted, uncommitted
  left,      \* assets it still has to delete, as far as it has seen
  target     \* the one its statement is about

store    == <<rows, meta, rels>>
txnVars  == <<held, seen, dirty, links>>
restVars == <<before, plan>>
delVars  == <<delPc, doomed, left, target>>
vars     == <<before, store, plan, at, pc, txnVars, retries, committed, faults, delVars>>

Parents(p) == {p[i].parent : i \in 1 .. Len(p)} \ {NoParent}

(* What ingest t may bring. *)
Brings(t) == IF t \in Retried THEN Plans ELSE Requests

(* Parents are stored before the ingest that names them starts. *)
Init ==
  /\ plan \in [Ingest -> Plans \cup Requests] /\ \A t \in Ingest : plan[t] \in Brings(t)
  /\ before \in Stored /\ UNION {Parents(plan[t]) : t \in Ingest} \subseteq before
  /\ rows = before /\ meta = [a \in Asset |-> {}] /\ rels = {}
  /\ at = [t \in Ingest |-> 1] /\ pc = [t \in Ingest |-> "begin"]
  /\ held = [t \in Ingest |-> {}] /\ seen = [t \in Ingest |-> [a \in Asset |-> {}]]
  /\ dirty = [t \in Ingest |-> {}] /\ links = [t \in Ingest |-> {}]
  /\ retries = [t \in Ingest |-> 0] /\ committed = {} /\ faults = 0
  /\ delPc = "idle" /\ doomed = {} /\ left = {} /\ target = NoParent

Now(t)  == plan[t][at[t]]
Key(t)  == Now(t).asset
Link(t) == <<Now(t).parent, Key(t)>>

Goto(t, label) == pc' = [pc EXCEPT ![t] = label]

(* The statement's row is not locked by another transaction. *)
RowFree(t)  == \A u \in Ingest \ {t} : Key(t) \notin held[u]
LinkFree(t) == \A u \in Ingest \ {t} : Link(t) \notin links[u]

(* The program's row is deleted, uncommitted; it is gone. *)
ProgramLocked == delPc \in {"cascade", "commit"}
ProgramGone   == delPc = "deleted"

(* Mutant: one find too many. *)
NextFindPastEnd(t) ==
  IF at[t] <= Len(plan[t])
    THEN Goto(t, "select") /\ at' = [at EXCEPT ![t] = @ + 1]
    ELSE Goto(t, "commit") /\ UNCHANGED at

(* On to the next find, or to the commit. *)
NextFind(t) ==
  IF at[t] < Len(plan[t])
    THEN Goto(t, "select") /\ at' = [at EXCEPT ![t] = @ + 1]
    ELSE Goto(t, "commit") /\ UNCHANGED at

(* After upsert_asset: link_assets when there is a parent. *)
AfterUpsert(t) ==
  IF Now(t).parent = NoParent THEN NextFind(t) ELSE Goto(t, "select_link") /\ UNCHANGED at

(***************************************************************************)
(* upsert_asset.                                                           *)
(***************************************************************************)
(* Mutant: the insert without the look-up. *)
SelectNothing(t) ==
  /\ pc[t] = "select"
  /\ Goto(t, "insert")
  /\ UNCHANGED <<restVars, delVars, store, at, txnVars, retries, committed, faults>>

SelectAsset(t) ==
  /\ pc[t] = "select"
  /\ IF Key(t) \in rows \cup held[t]
       THEN /\ Goto(t, "update")
            /\ seen' = [seen EXCEPT ![t][Key(t)] = IF Key(t) \in held[t] THEN @ ELSE meta[Key(t)]]
       ELSE Goto(t, "insert") /\ UNCHANGED seen
  /\ UNCHANGED <<restVars, delVars, store, at, held, dirty, links, retries, committed, faults>>

(* Mutant: the update is left for the commit to flush. *)
UpdateUnflushed(t) ==
  /\ pc[t] = "update" /\ ~ProgramGone
  /\ dirty' = [dirty EXCEPT ![t] = @ \cup {Key(t)}]
  /\ seen' = [seen EXCEPT ![t][Key(t)] = @ \cup Now(t).meta]
  /\ AfterUpsert(t)
  /\ UNCHANGED <<restVars, delVars, store, held, links, retries, committed, faults>>

(* last_seen is always written, metadata only when the merge changes it. *)
UpdateAsset(t) ==
  LET merged == seen[t][Key(t)] \cup Now(t).meta
  IN  /\ pc[t] = "update" /\ RowFree(t) /\ Key(t) \notin doomed /\ ~ProgramGone
      /\ held' = [held EXCEPT ![t] = @ \cup {Key(t)}]
      /\ dirty' = [dirty EXCEPT ![t] = IF merged = seen[t][Key(t)] THEN @ ELSE @ \cup {Key(t)}]
      /\ seen' = [seen EXCEPT ![t][Key(t)] = merged]
      /\ AfterUpsert(t)
      /\ UNCHANGED <<restVars, delVars, store, links, retries, committed, faults>>

InsertAsset(t) ==
  /\ pc[t] = "insert" /\ RowFree(t) /\ Key(t) \notin rows /\ ~ProgramLocked /\ ~ProgramGone
  /\ held' = [held EXCEPT ![t] = @ \cup {Key(t)}]
  /\ dirty' = [dirty EXCEPT ![t] = @ \cup {Key(t)}]
  /\ seen' = [seen EXCEPT ![t][Key(t)] = Now(t).meta]
  /\ AfterUpsert(t)
  /\ UNCHANGED <<restVars, delVars, store, links, retries, committed, faults>>

(***************************************************************************)
(* link_assets.                                                            *)
(***************************************************************************)
SelectLink(t) ==
  /\ pc[t] = "select_link"
  /\ IF Link(t) \in rels \cup links[t] THEN NextFind(t)
     ELSE Goto(t, "insert_link") /\ UNCHANGED at
  /\ UNCHANGED <<restVars, delVars, store, txnVars, retries, committed, faults>>

(* Mutant: a relation is committed at once. *)
InsertLinkAtOnce(t) ==
  /\ pc[t] = "insert_link" /\ LinkFree(t) /\ Link(t) \notin rels /\ Now(t).parent \notin doomed
  /\ rels' = rels \cup {Link(t)}
  /\ NextFind(t)
  /\ UNCHANGED <<restVars, delVars, rows, meta, txnVars, retries, committed, faults>>

InsertLink(t) ==
  /\ pc[t] = "insert_link" /\ LinkFree(t) /\ Link(t) \notin rels /\ Now(t).parent \notin doomed
  /\ links' = [links EXCEPT ![t] = @ \cup {Link(t)}]
  /\ NextFind(t)
  /\ UNCHANGED <<restVars, delVars, store, held, seen, dirty, retries, committed, faults>>

(***************************************************************************)
(* The end of a transaction: run_with_session, get_db.                     *)
(***************************************************************************)
Release(t) ==
  /\ held' = [held EXCEPT ![t] = {}] /\ dirty' = [dirty EXCEPT ![t] = {}]
  /\ seen' = [seen EXCEPT ![t] = [a \in Asset |-> {}]] /\ links' = [links EXCEPT ![t] = {}]

Commit(t) ==
  /\ pc[t] = "commit"
  /\ rows' = rows \cup held[t]
  /\ meta' = [a \in Asset |-> IF a \in dirty[t] THEN seen[t][a] ELSE meta[a]]
  /\ rels' = rels \cup links[t]
  /\ committed' = committed \cup {t}
  /\ Release(t) /\ Goto(t, "done")
  /\ UNCHANGED <<restVars, delVars, at, retries, faults>>

(* Mutant: max_retries = None. *)
RestartUncounted(t) ==
  IF t \in Retried
    THEN Goto(t, "begin") /\ at' = [at EXCEPT ![t] = 1] /\ UNCHANGED retries
    ELSE Goto(t, "failed") /\ UNCHANGED <<at, retries>>

(* Celery starts a task whose transaction failed again; a request has failed. *)
Restart(t) ==
  IF t \in Retried /\ retries[t] < MaxRetries
    THEN /\ Goto(t, "begin") /\ at' = [at EXCEPT ![t] = 1]
         /\ retries' = [retries EXCEPT ![t] = @ + 1]
    ELSE Goto(t, "failed") /\ UNCHANGED <<at, retries>>

(* Mutant: an attempt that fails leaves what it had stored. *)
AbortKeeps(t) ==
  /\ Release(t) /\ Restart(t)
  /\ rows' = rows \cup held[t] /\ UNCHANGED <<meta, rels>>
  /\ UNCHANGED <<restVars, delVars, committed>>

Abort(t) ==
  /\ Release(t) /\ Restart(t)
  /\ UNCHANGED <<restVars, delVars, store, committed>>

(* A unique key turns out to be taken; a foreign key has nothing to refer    *)
(* to any more, a row to be updated is not there.                            *)
Conflict(t) ==
  /\ \/ pc[t] = "insert" /\ RowFree(t) /\ Key(t) \in rows \ doomed
     \/ pc[t] = "insert_link" /\ LinkFree(t) /\ Link(t) \in rels
     \/ pc[t] \in {"insert", "update"} /\ ProgramGone
  /\ Abort(t) /\ UNCHANGED faults

(***************************************************************************)
(* The first look: the program of a request, the root of a discovery task, *)
(* without which it fails, or the parents of a DNS batch, which passes     *)
(* over missing ones.                                                      *)
(***************************************************************************)
PassesOver(t) == t \in Retried /\ Now(t).parent \notin DomainAsset

Begin(t) ==
  /\ pc[t] = "begin" /\ (ProgramGone => PassesOver(t))
  /\ Goto(t, IF ProgramGone THEN "commit" ELSE "select")
  /\ UNCHANGED <<restVars, delVars, store, at, txnVars, retries, committed, faults>>

NotFound(t) ==
  /\ pc[t] = "begin" /\ ProgramGone /\ ~PassesOver(t)
  /\ Abort(t) /\ UNCHANGED faults

(***************************************************************************)
(* delete_program and the flush at the end of its request.                 *)
(***************************************************************************)
(* On to one of the assets S, or to where the deletion goes after them. *)
DeleteThese(S, here, after) ==
  /\ left' = S
  /\ IF S = {} THEN delPc' = after /\ target' = NoParent ELSE delPc' = here /\ target' \in S

(* session.delete loads program.assets for the ORM's cascade. *)
LoadAssets ==
  /\ Deletes /\ delPc = "idle"
  /\ DeleteThese(rows, "assets", "program")
  /\ UNCHANGED <<restVars, store, at, pc, txnVars, retries, committed, faults, doomed>>

(* No ingest has written the asset or refers to it. *)
Deletable(a) == \A t \in Ingest : a \notin held[t] /\ \A l \in links[t] : l[1] # a

DeleteAsset ==
  /\ delPc \in {"assets", "cascade"} /\ Deletable(target)
  /\ doomed' = doomed \cup {target}
  /\ DeleteThese(left \ {target}, delPc, IF delPc = "assets" THEN "program" ELSE "commit")
  /\ UNCHANGED <<restVars, store, at, pc, txnVars, retries, committed, faults>>

(* No ingest has inserted an asset of the program, uncommitted. *)
NoneInserted == \A t \in Ingest : held[t] \subseteq rows

(* Mutant: the foreign key of an asset does not cascade. *)
DeleteProgramOnly ==
  /\ delPc = "program" /\ NoneInserted
  /\ DeleteThese({}, "cascade", "commit")
  /\ UNCHANGED <<restVars, store, at, pc, txnVars, retries, committed, faults, doomed>>

(* Its foreign key deletes what has been committed since the assets were loaded. *)
DeleteProgram ==
  /\ delPc = "program" /\ NoneInserted
  /\ DeleteThese(rows \ doomed, "cascade", "commit")
  /\ UNCHANGED <<restVars, store, at, pc, txnVars, retries, committed, faults, doomed>>

EndDelete(label) ==
  delPc' = label /\ doomed' = {} /\ left' = {} /\ target' = NoParent

CommitDelete ==
  /\ delPc = "commit"
  /\ rows' = rows \ doomed
  /\ meta' = [a \in Asset |-> IF a \in doomed THEN {} ELSE meta[a]]
  /\ rels' = {l \in rels : l[1] \notin doomed /\ l[2] \notin doomed}
  /\ EndDelete("deleted")
  /\ UNCHANGED <<restVars, at, pc, txnVars, retries, committed, faults>>

Deleting == delPc \notin {"idle", "deleted", "failed"}

RollBackDelete ==
  /\ Deleting /\ EndDelete("failed")
  /\ UNCHANGED <<restVars, store, at, pc, txnVars, retries, committed>>

DeleteFails ==
  faults < MaxFaults /\ faults' = faults + 1 /\ RollBackDelete

(***************************************************************************)
(* Lock waits.                                                             *)
(***************************************************************************)
(* Ingest t waits for ingest u, for the deletion; the deletion waits for t. *)
WaitsForIngest(t, u) ==
  /\ u # t
  /\ \/ pc[t] \in {"update", "insert"} /\ Key(t) \in held[u]
     \/ pc[t] = "insert_link" /\ Link(t) \in links[u]

WaitsForDeletion(t) ==
  \/ pc[t] \in {"update", "insert"} /\ Key(t) \in doomed
  \/ pc[t] = "insert" /\ ProgramLocked /\ RowFree(t) /\ Key(t) \notin rows
  \/ pc[t] = "insert_link" /\ Now(t).parent \in doomed

DeletionWaitsFor(t) ==
  \/ delPc \in {"assets", "cascade"} /\ (target \in held[t] \/ \E l \in links[t] : l[1] = target)
  \/ delPc = "program" /\ ~(held[t] \subseteq rows)

Party == Ingest \cup {Deletion}

Waits(x, y) ==
  \/ x \in Ingest /\ y \in Ingest /\ WaitsForIngest(x, y)
  \/ x \in Ingest /\ y = Deletion /\ WaitsForDeletion(x)
  \/ x = Deletion /\ y \in Ingest /\ DeletionWaitsFor(y)

(* x is on a cycle of waits: it belongs to a set that cannot be left along    *)
(* waits from any part of it without meeting the rest.                        *)
Deadlocked(x) ==
  /\ \E y \in Party : Waits(x, y)
  /\ \E S \in SUBSET Party :
    /\ x \in S /\ S # {x}
    /\ \A P \in (SUBSET S) \ {{}, S} : \E y \in P, z \in S \ P : Waits(y, z)

Victim(t) == Deadlocked(t) /\ Abort(t) /\ UNCHANGED faults

DeletionVictim == Deadlocked(Deletion) /\ RollBackDelete /\ UNCHANGED faults

Active(t) == pc[t] \notin {"done", "failed"}

(* Anything else that makes the attempt fail. *)
Fails(t) ==
  /\ Active(t) /\ faults < MaxFaults /\ faults' = faults + 1
  /\ Abort(t)

(* The process is lost; its message was acknowledged. *)
Crash(t) ==
  /\ Active(t) /\ faults < MaxFaults /\ faults' = faults + 1
  /\ Release(t) /\ Goto(t, "failed")
  /\ UNCHANGED <<restVars, delVars, store, at, retries, committed>>

(* The task fails after its commit, when it hands over to the next one. *)
FailsLater(t) ==
  /\ pc[t] = "done" /\ t \in Retried
  /\ faults < MaxFaults /\ faults' = faults + 1
  /\ Restart(t)
  /\ UNCHANGED <<restVars, delVars, store, txnVars, committed>>

-----------------------------------------------------------------------------
Statement(t) ==
  \/ Begin(t) \/ NotFound(t) \/ SelectAsset(t) \/ UpdateAsset(t) \/ InsertAsset(t)
  \/ SelectLink(t) \/ InsertLink(t) \/ Commit(t) \/ Conflict(t)

DeleteStatement == LoadAssets \/ DeleteAsset \/ DeleteProgram \/ CommitDelete

Terminating == (\A t \in Ingest : ~Active(t)) /\ ~Deleting /\ UNCHANGED vars

Next ==
  \/ \E t \in Ingest : Statement(t) \/ Victim(t) \/ Fails(t) \/ Crash(t) \/ FailsLater(t)
  \/ DeleteStatement \/ DeletionVictim \/ DeleteFails
  \/ Terminating

Spec == Init /\ [][Next]_vars

(* Of the sessions that can go on one does, and the server resolves deadlocks. *)
System ==
  \/ \E t \in Ingest : Statement(t) \/ Victim(t)
  \/ (DeleteStatement /\ delPc # "idle") \/ DeletionVictim

FairSpec == Spec /\ WF_vars(System)

-----------------------------------------------------------------------------
(***************************************************************************)
(* Properties.                                                             *)
(***************************************************************************)
Labels == {"begin", "select", "update", "insert", "select_link", "insert_link", "commit", "done", "failed"}

(* Types; locks are exclusive. *)
TypeOK ==
  /\ plan \in [Ingest -> Plans \cup Requests] /\ before \subseteq Asset /\ rows \subseteq Asset
  /\ meta \in [Asset -> SUBSET MetaKey] /\ rels \subseteq Asset \X Asset
  /\ at \in [Ingest -> Nat] /\ \A t \in Ingest : at[t] \in 1 .. Len(plan[t])
  /\ pc \in [Ingest -> Labels]
  /\ held \in [Ingest -> SUBSET Asset] /\ dirty \in [Ingest -> SUBSET Asset]
  /\ seen \in [Ingest -> [Asset -> SUBSET MetaKey]]
  /\ links \in [Ingest -> SUBSET (Asset \X Asset)]
  /\ retries \in [Ingest -> 0 .. MaxRetries]
  /\ committed \subseteq Ingest /\ faults \in 0 .. MaxFaults
  /\ delPc \in {"idle", "assets", "program", "cascade", "commit", "deleted", "failed"}
  /\ doomed \subseteq Asset /\ left \subseteq Asset
  /\ target \in left \/ (target = NoParent /\ left = {})
  /\ \A t, u \in Ingest : t # u => held[t] \cap held[u] = {}

Assets(p) == {p[i].asset : i \in 1 .. Len(p)}
Edges(p)  == {<<p[i].parent, p[i].asset>> : i \in {j \in 1 .. Len(p) : p[j].parent # NoParent}}

(* The graph is at any time what the committed ingests found, whole and     *)
(* nothing else: conflicts, deadlocks, crashes and repeated attempts leave  *)
(* neither gaps nor traces.  Once the program is deleted there is nothing:  *)
(* not what ingests committed while its assets were being deleted, nor what *)
(* they bring later.                                                        *)
IngestExact ==
  IF ProgramGone THEN rows = {} /\ rels = {}
  ELSE /\ rows = before \cup UNION {Assets(plan[t]) : t \in committed}
       /\ rels = UNION {Edges(plan[t]) : t \in committed}

(* link_assets looks a relation up and inserts it without any protection of *)
(* its own, yet never meets another's: the lock that the upsert of the child *)
(* took (through last_seen, if nothing else changed) is held all along.     *)
LinksNeverConflict ==
  \A t \in Ingest : pc[t] = "insert_link" => LinkFree(t) /\ Link(t) \notin rels

(* Whoever loses to a committed row, a deletion or a deadlock loses to      *)
(* another who wins: without other failures the competition never costs all *)
(* of them.                                                                 *)
SomeoneWins ==
  faults = 0 /\ (\A t \in Ingest : ~Active(t)) /\ ~Deleting => committed # {} \/ ProgramGone

(* Whatever they wait for, ingests and a deletion that was begun come to an *)
(* end for good.                                                            *)
EveryoneEnds == <>[]((\A t \in Ingest : ~Active(t)) /\ ~Deleting)

(* services/asset_service.py: metadata keys are merged into JSONB.  What a  *)
(* committed ingest brought is part of the row's metadata.                  *)
MetadataMerged ==
  \A t \in committed : \A i \in 1 .. Len(plan[t]) : plan[t][i].meta \subseteq meta[plan[t][i].asset]

(* Rows, locks, conflicts, deadlocks and repeated attempts cannot be seen    *)
(* from outside: an ingest of many statements is one step of GraphStore,     *)
(* which stores all of it, or nothing once the deletion, one step too, has   *)
(* taken everything.                                                         *)
Graph == INSTANCE GraphStore WITH gone <- ProgramGone

ImplementsGraphStore == Graph!Spec
=============================================================================
