--------------------------- MODULE AssetStoreProofs ---------------------------
(***************************************************************************)
(* Proofs about AssetStore, for any set of ingests, assets and finds.      *)
(* What an ingest has stored so far follows from where it is in its finds  *)
(* (Phase): its locks are the assets of the finds it has upserted, and     *)
(* every link it has inserted is the link of one of them.  The deletion    *)
(* takes nothing an ingest has written (Erasing); once the program's row   *)
(* is locked no ingest writes anything but a row it will have to wait for, *)
(* so that nothing is held any more when it commits.                       *)
(***************************************************************************)
EXTENDS AssetStore, FiniteSetTheorems, WellFoundedInduction, TLAPS

AtLink == {"select_link", "insert_link"}

(* How many of its finds an attempt has upserted, and linked. *)
Upserted(t) == IF pc[t] \in AtLink \cup {"commit"} THEN at[t] ELSE at[t] - 1
Linked(t)   == IF pc[t] = "commit" THEN at[t] ELSE at[t] - 1

AssetsTo(t, n) == {plan[t][i].asset : i \in 1 .. n}

LinkedTo(t, n) ==
  \A i \in 1 .. n :
    plan[t][i].parent # NoParent => <<plan[t][i].parent, plan[t][i].asset>> \in rels \cup links[t]

OwnLinks(t) == \A l \in links[t] : l \in Edges(plan[t]) /\ l[2] \in held[t]

Phase(t) ==
  /\ ~Active(t) \/ ProgramGone => held[t] = {} /\ links[t] = {}
  /\ Active(t) /\ ~ProgramGone => held[t] = AssetsTo(t, Upserted(t)) /\ LinkedTo(t, Linked(t))
  /\ OwnLinks(t)
  /\ pc[t] = "commit" /\ ~ProgramGone => at[t] = Len(plan[t])
  /\ pc[t] = "update" /\ ~ProgramGone => Key(t) \in rows \cup held[t]
  /\ pc[t] \in AtLink => Now(t).parent # NoParent /\ ~ProgramGone
  /\ pc[t] = "insert_link" => Link(t) \notin rels \cup links[t]

(* The deletion and the ingests share no row; what is not yet deleted when   *)
(* the program's row is, is all there is.                                    *)
Erasing ==
  /\ doomed \cup left \subseteq rows
  /\ \A t \in Ingest : held[t] \cap doomed = {}
  /\ ProgramLocked => rows = doomed \cup left /\ \A t \in Ingest : held[t] \subseteq rows
  /\ delPc = "commit" => left = {}
  /\ delPc \in {"assets", "cascade"} => target \in left

IInv == TypeOK /\ IngestExact /\ Erasing /\ \A t \in Ingest : Phase(t)

-----------------------------------------------------------------------------
(* Every find of a plan is a find. *)
LEMMA FindType ==
  ASSUME plan \in [Ingest -> Plans \cup Requests], NEW t \in Ingest
  PROVE  /\ Len(plan[t]) \in Nat \ {0}
         /\ \A i \in 1 .. Len(plan[t]) :
              /\ plan[t][i].asset \in Asset /\ plan[t][i].meta \subseteq MetaKey
              /\ plan[t][i].parent \in Asset \cup {NoParent}
<1>1. plan[t] \in Seq(Find) \ {<<>>}
  <2>1. plan[t] \in Plans \cup Requests
    OBVIOUS
  <2>2. CASE plan[t] \in Plans
    BY <2>2, AssetStoreAssumption
  <2>3. CASE plan[t] \in Requests
    <3>1. PICK f \in Find : plan[t] = <<f>>
      BY <2>3, AssetStoreAssumption
    <3>2. QED
      BY <3>1
  <2>4. QED
    BY <2>1, <2>2, <2>3
<1>2. Len(plan[t]) \in Nat \ {0}
  BY <1>1
<1>3. \A i \in 1 .. Len(plan[t]) : plan[t][i] \in Find
  BY <1>1
<1>4. QED
  BY <1>2, <1>3 DEF Find

(* The find an ingest is at, and its key. *)
LEMMA NowType ==
  ASSUME TypeOK, NEW t \in Ingest
  PROVE  /\ at[t] \in 1 .. Len(plan[t]) /\ Len(plan[t]) \in Nat
         /\ Key(t) \in Asset /\ Now(t).meta \subseteq MetaKey
         /\ Now(t).parent \in Asset \cup {NoParent}
<1>1. at[t] \in 1 .. Len(plan[t]) /\ plan \in [Ingest -> Plans \cup Requests]
  BY DEF TypeOK
<1>2. QED
  BY <1>1, FindType DEF Key, Now

(* Going on to the next find, when this one is stored and linked. *)
LEMMA NextFindPhase ==
  ASSUME TypeOK, NEW t \in Ingest, NEW n, n = at[t],
         NextFind(t), ~ProgramGone, delPc' = delPc, plan' = plan, OwnLinks(t)',
         held'[t] = AssetsTo(t, n), LinkedTo(t, n)'
  PROVE  Phase(t)' /\ at'[t] \in 1 .. Len(plan[t]) /\ pc'[t] \in {"select", "commit"}
<1>1. at[t] \in 1 .. Len(plan[t]) /\ Len(plan[t]) \in Nat
  BY NowType
<1>2. pc \in [Ingest -> Labels] /\ at \in [Ingest -> Nat]
  BY DEF TypeOK
<1>3. CASE at[t] < Len(plan[t])
  <2>1. pc'[t] = "select" /\ at'[t] = at[t] + 1
    BY <1>2, <1>3 DEF NextFind, Goto
  <2>2. Upserted(t)' = n /\ Linked(t)' = n
    BY <2>1, <1>1 DEF Upserted, Linked, AtLink
  <2>3. held'[t] = AssetsTo(t, Upserted(t))' /\ LinkedTo(t, Linked(t))'
    BY <2>2 DEF AssetsTo, LinkedTo
  <2>4. QED
    BY <2>1, <2>3, <1>1, <1>3 DEF Phase, Active, AtLink, ProgramGone
<1>4. CASE ~(at[t] < Len(plan[t]))
  <2>1. pc'[t] = "commit" /\ at'[t] = at[t] /\ at[t] = Len(plan[t])
    BY <1>1, <1>2, <1>4 DEF NextFind, Goto
  <2>2. Upserted(t)' = n /\ Linked(t)' = n
    BY <2>1 DEF Upserted, Linked
  <2>3. held'[t] = AssetsTo(t, Upserted(t))' /\ LinkedTo(t, Linked(t))'
    BY <2>2 DEF AssetsTo, LinkedTo
  <2>4. QED
    BY <2>1, <2>3, <1>1 DEF Phase, Active, AtLink, ProgramGone
<1>5. QED
  BY <1>3, <1>4

(* An upsert: the asset is locked, and the link comes next if there is one. *)
LEMMA UpsertPhase ==
  ASSUME TypeOK, NEW t \in Ingest, NEW n, n = at[t], Phase(t), pc[t] \in {"update", "insert"},
         AfterUpsert(t), ~ProgramGone, delPc' = delPc, plan' = plan, rels' = rels, links' = links,
         held' = [held EXCEPT ![t] = @ \cup {Key(t)}]
  PROVE  Phase(t)' /\ at'[t] \in 1 .. Len(plan[t]) /\ pc'[t] \in {"select", "commit", "select_link"}
<1>1. at[t] \in 1 .. Len(plan[t]) /\ Len(plan[t]) \in Nat /\ Now(t).parent \in Asset \cup {NoParent}
  BY NowType
<1>2. pc \in [Ingest -> Labels] /\ at \in [Ingest -> Nat] /\ held \in [Ingest -> SUBSET Asset]
  BY DEF TypeOK
<1>3. /\ held[t] = AssetsTo(t, n - 1) /\ LinkedTo(t, n - 1) /\ OwnLinks(t)
  BY DEF Phase, Active, Upserted, Linked, AtLink
<1>4. held'[t] = AssetsTo(t, n)
  <2>1. held'[t] = AssetsTo(t, n - 1) \cup {plan[t][n].asset}
    BY <1>2, <1>3 DEF Key, Now
  <2>2. 1 .. n = (1 .. (n - 1)) \cup {n}
    BY <1>1
  <2>3. QED
    BY <2>1, <2>2 DEF AssetsTo
<1>5. OwnLinks(t)'
  BY <1>2, <1>3 DEF OwnLinks
<1>6. CASE Now(t).parent = NoParent
  <2>1. \A i \in 1 .. n : i = n \/ i \in 1 .. (n - 1)
    BY <1>1
  <2>3. LinkedTo(t, n)'
    BY <2>1, <1>3, <1>6 DEF LinkedTo, Now
  <2>2. NextFind(t)
    BY <1>6 DEF AfterUpsert
  <2>4. QED
    BY <2>2, <2>3, <1>4, <1>5, NextFindPhase
<1>7. CASE Now(t).parent # NoParent
  <2>1. pc'[t] = "select_link" /\ at' = at
    BY <1>2, <1>7 DEF AfterUpsert, Goto
  <2>2. Upserted(t)' = n /\ Linked(t)' = n - 1
    BY <2>1 DEF Upserted, Linked, AtLink
  <2>3. held'[t] = AssetsTo(t, Upserted(t))' /\ LinkedTo(t, Linked(t))'
    BY <2>2, <1>3, <1>4 DEF AssetsTo, LinkedTo
  <2>4. Now(t)'.parent # NoParent
    BY <2>1, <1>7 DEF Now
  <2>5. QED
    BY <2>1, <2>3, <2>4, <1>1, <1>5 DEF Phase, Active, ProgramGone
<1>8. QED
  BY <1>6, <1>7

(* An attempt that starts again, or ends, holds nothing. *)
LEMMA ReleasePhase ==
  ASSUME TypeOK, NEW t \in Ingest, plan' = plan, held'[t] = {}, links'[t] = {},
         \/ pc'[t] = "begin" /\ at'[t] = 1
         \/ pc'[t] \in {"done", "failed"} /\ at'[t] = at[t]
  PROVE  Phase(t)' /\ at'[t] \in 1 .. Len(plan[t])
<1>1. at[t] \in 1 .. Len(plan[t]) /\ Len(plan[t]) \in Nat
  BY NowType
<1>2. OwnLinks(t)'
  BY DEF OwnLinks
<1>3. CASE pc'[t] = "begin" /\ at'[t] = 1
  <2>1. Upserted(t)' = 0 /\ Linked(t)' = 0
    BY <1>3 DEF Upserted, Linked, AtLink
  <2>2. AssetsTo(t, Upserted(t))' = {} /\ LinkedTo(t, Linked(t))'
    BY <2>1 DEF AssetsTo, LinkedTo
  <2>3. QED
    BY <2>2, <1>1, <1>2, <1>3 DEF Phase, Active, AtLink
<1>4. CASE pc'[t] \in {"done", "failed"} /\ at'[t] = at[t]
  BY <1>1, <1>2, <1>4 DEF Phase, Active, AtLink
<1>5. QED
  BY <1>3, <1>4

(* What an ingest has stored does not change with the steps of others. *)
LEMMA OtherPhase ==
  ASSUME NEW u \in Ingest, Phase(u), plan' = plan, rows \subseteq rows', rels \subseteq rels',
         ProgramGone' <=> ProgramGone,
         pc'[u] = pc[u], at'[u] = at[u], held'[u] = held[u], links'[u] = links[u],
         pc[u] = "insert_link" => Link(u) \notin rels'
  PROVE  Phase(u)'
<1>1. /\ Now(u)' = Now(u) /\ Key(u)' = Key(u) /\ Link(u)' = Link(u) /\ (Active(u)' <=> Active(u))
      /\ Upserted(u)' = Upserted(u) /\ Linked(u)' = Linked(u)
  BY DEF Now, Link, Key, Active, Upserted, Linked
<1>2. OwnLinks(u)'
  BY DEF Phase, OwnLinks
<1>3. ASSUME Active(u), ~ProgramGone
      PROVE  held'[u] = AssetsTo(u, Upserted(u))' /\ LinkedTo(u, Linked(u))'
  <2>1. held[u] = AssetsTo(u, Upserted(u)) /\ LinkedTo(u, Linked(u))
    BY <1>3 DEF Phase
  <2>2. held'[u] = AssetsTo(u, Upserted(u))'
    BY <2>1, <1>1 DEF AssetsTo
  <2>3. LinkedTo(u, Linked(u))'
    BY <2>1, <1>1 DEF LinkedTo
  <2>4. QED
    BY <2>2, <2>3
<1>4. QED
  BY <1>1, <1>2, <1>3 DEF Phase

(* The finds an ingest is at have their asset locked once it is to be linked. *)
LEMMA ChildHeld ==
  ASSUME TypeOK, NEW t \in Ingest, Phase(t), pc[t] \in AtLink
  PROVE  Key(t) \in held[t] /\ ~ProgramGone
<1>1. at[t] \in 1 .. Len(plan[t]) /\ Len(plan[t]) \in Nat
  BY NowType
<1>2. held[t] = AssetsTo(t, at[t]) /\ ~ProgramGone
  BY DEF Phase, Active, Upserted, AtLink
<1>3. QED
  BY <1>1, <1>2 DEF AssetsTo, Key, Now

(* link_assets never meets the relation of another: its child is locked. *)
LEMMA Disjoint ==
  ASSUME IInv, NEW t \in Ingest, NEW u \in Ingest, t # u, pc[t] \in AtLink
  PROVE  Link(t) \notin links[u]
<1>1. Key(t) \in held[t]
  BY ChildHeld DEF IInv
<1>2. held[t] \cap held[u] = {}
  BY DEF IInv, TypeOK
<1>3. \A l \in links[u] : l[2] \in held[u]
  BY DEF IInv, Phase, OwnLinks
<1>4. Link(t)[2] = Key(t)
  BY DEF Link
<1>5. QED
  BY <1>1, <1>2, <1>3, <1>4

LEMMA IInvImplies == IInv => TypeOK /\ IngestExact /\ LinksNeverConflict
<1> SUFFICES ASSUME IInv PROVE LinksNeverConflict
  BY DEF IInv
<1> SUFFICES ASSUME NEW t \in Ingest, pc[t] = "insert_link"
             PROVE  LinkFree(t) /\ Link(t) \notin rels
  BY DEF LinksNeverConflict
<1>1. Link(t) \notin rels
  BY DEF IInv, Phase
<1>2. LinkFree(t)
  BY Disjoint DEF LinkFree, AtLink
<1>3. QED
  BY <1>1, <1>2

LEMMA InitIInv == Init => IInv
<1> SUFFICES ASSUME Init PROVE IInv
  OBVIOUS
<1> USE DEF Init
<1>1. plan \in [Ingest -> Plans \cup Requests]
  OBVIOUS
<1>2. \A t \in Ingest : Len(plan[t]) \in Nat \ {0}
  BY <1>1, FindType
<1>3. TypeOK
  BY <1>1, <1>2, AssetStoreAssumption DEF TypeOK, Labels
<1>4. IngestExact /\ Erasing
  BY DEF IngestExact, Erasing, ProgramGone, ProgramLocked
<1>5. ASSUME NEW t \in Ingest PROVE Phase(t)
  <2>1. pc[t] = "begin" /\ at[t] = 1 /\ held[t] = {} /\ links[t] = {}
    OBVIOUS
  <2>2. Upserted(t) = 0 /\ Linked(t) = 0
    BY <2>1 DEF Upserted, Linked, AtLink
  <2>3. AssetsTo(t, Upserted(t)) = {} /\ LinkedTo(t, Linked(t)) /\ OwnLinks(t)
    BY <2>1, <2>2 DEF AssetsTo, LinkedTo, OwnLinks
  <2>4. QED
    BY <2>1, <2>3 DEF Phase, AtLink, Active
<1>6. QED
  BY <1>3, <1>4, <1>5 DEF IInv

-----------------------------------------------------------------------------
(* Every step keeps the invariant. *)
LEMMA StepSelectAsset ==
  ASSUME IInv, NEW t \in Ingest, SelectAsset(t)
  PROVE  IInv'
<1> USE DEF SelectAsset, restVars, delVars, store, IInv
<1>1. pc'[t] \in {"update", "insert"} /\ at' = at
  BY DEF TypeOK, Goto
<1>2. TypeOK'
  <2>1. seen' \in [Ingest -> [Asset -> SUBSET MetaKey]]
    <3>1. Key(t) \in Asset /\ seen \in [Ingest -> [Asset -> SUBSET MetaKey]]
      BY NowType DEF TypeOK
    <3>2. meta[Key(t)] \in SUBSET MetaKey /\ seen[t][Key(t)] \in SUBSET MetaKey
      BY <3>1 DEF TypeOK
    <3>3. \E m \in SUBSET MetaKey : seen' \in {seen, [seen EXCEPT ![t][Key(t)] = m]}
      BY <3>1, <3>2
    <3>4. QED
      BY <3>1, <3>3
  <2>2. pc' \in [Ingest -> Labels]
    BY DEF TypeOK, Goto, Labels
  <2>3. QED
    BY <2>1, <2>2 DEF TypeOK
<1>3. IngestExact' /\ Erasing'
  BY DEF IngestExact, Erasing, ProgramGone, ProgramLocked
<1>4. Phase(t)'
  <2>1. Upserted(t)' = Upserted(t) /\ Linked(t)' = Linked(t) /\ Key(t)' = Key(t)
    BY <1>1 DEF Upserted, Linked, AtLink, Key, Now
  <2>2. ~ProgramGone => held[t] = AssetsTo(t, Upserted(t)) /\ LinkedTo(t, Linked(t))
    BY DEF Phase, Active
  <2>3. OwnLinks(t)' /\ (~ProgramGone => held'[t] = AssetsTo(t, Upserted(t))' /\ LinkedTo(t, Linked(t))')
    BY <2>1, <2>2 DEF AssetsTo, LinkedTo, OwnLinks, Phase
  <2>4. pc'[t] = "update" => Key(t) \in rows \cup held[t]
    BY DEF Goto, TypeOK
  <2>5. QED
    BY <2>1, <2>3, <2>4, <1>1 DEF Phase, Active, AtLink, ProgramGone
<1>5. ASSUME NEW u \in Ingest, u # t PROVE Phase(u)'
  <2>1. pc'[u] = pc[u]
    BY <1>5 DEF Goto, TypeOK
  <2>2. pc[u] = "insert_link" => Link(u) \notin rels'
    BY DEF Phase
  <2>3. QED
    BY <2>1, <2>2, OtherPhase DEF ProgramGone
<1>6. QED
  BY <1>2, <1>3, <1>4, <1>5

(* The first look, whatever it finds. *)
LEMMA StepBegin ==
  ASSUME IInv, NEW t \in Ingest, Begin(t)
  PROVE  IInv'
<1> USE DEF Begin, restVars, delVars, store, txnVars, IInv
<1>1. pc'[t] \in {"select", "commit"} /\ (~ProgramGone => pc'[t] = "select")
  BY DEF TypeOK, Goto
<1>2. TypeOK'
  BY DEF TypeOK, Goto, Labels
<1>3. IngestExact' /\ Erasing'
  BY DEF IngestExact, Erasing, ProgramGone, ProgramLocked
<1>4. Phase(t)'
  <2>1. ~ProgramGone => Upserted(t)' = Upserted(t) /\ Linked(t)' = Linked(t)
    BY <1>1 DEF Upserted, Linked, AtLink
  <2>2. ~ProgramGone => held[t] = AssetsTo(t, Upserted(t)) /\ LinkedTo(t, Linked(t))
    BY DEF Phase, Active
  <2>3. OwnLinks(t)' /\ (~ProgramGone => held'[t] = AssetsTo(t, Upserted(t))' /\ LinkedTo(t, Linked(t))')
    BY <2>1, <2>2 DEF AssetsTo, LinkedTo, OwnLinks, Phase
  <2>4. QED
    BY <2>3, <1>1 DEF Phase, Active, AtLink, ProgramGone
<1>5. ASSUME NEW u \in Ingest, u # t PROVE Phase(u)'
  <2>1. pc'[u] = pc[u]
    BY <1>5 DEF Goto, TypeOK
  <2>2. pc[u] = "insert_link" => Link(u) \notin rels'
    BY DEF Phase
  <2>3. QED
    BY <2>1, <2>2, OtherPhase DEF ProgramGone
<1>6. QED
  BY <1>2, <1>3, <1>4, <1>5

(* The two ways of an upsert change the same variables the same way. *)
LEMMA StepUpsert ==
  ASSUME IInv, NEW t \in Ingest, pc[t] \in {"update", "insert"}, RowFree(t), AfterUpsert(t),
         ~ProgramGone, Key(t) \notin doomed, ProgramLocked => Key(t) \in rows,
         held' = [held EXCEPT ![t] = @ \cup {Key(t)}],
         dirty' \in [Ingest -> SUBSET Asset],
         seen' \in [Ingest -> [Asset -> SUBSET MetaKey]],
         UNCHANGED <<restVars, delVars, store, links, retries, committed, faults>>
  PROVE  IInv'
<1> USE DEF restVars, delVars, store, IInv
<1>1. Phase(t)' /\ at'[t] \in 1 .. Len(plan[t]) /\ pc'[t] \in {"select", "commit", "select_link"}
  BY UpsertPhase
<1>2. \A u \in Ingest \ {t} : pc'[u] = pc[u] /\ at'[u] = at[u] /\ held'[u] = held[u]
  BY DEF AfterUpsert, NextFind, Goto, TypeOK
<1>3. TypeOK'
  <2>1. pc' \in [Ingest -> Labels]
    BY <1>1 DEF AfterUpsert, NextFind, Goto, TypeOK, Labels
  <2>2. at' \in [Ingest -> Nat]
    BY <1>1 DEF AfterUpsert, NextFind, TypeOK
  <2>3. \A u \in Ingest : at'[u] \in 1 .. Len(plan'[u])
    BY <1>1, <1>2 DEF TypeOK
  <2>4. held' \in [Ingest -> SUBSET Asset]
    BY NowType DEF TypeOK
  <2>5. \A u, v \in Ingest : u # v => held'[u] \cap held'[v] = {}
    <3>1. held'[t] = held[t] \cup {Key(t)}
      BY DEF TypeOK
    <3>2. \A u \in Ingest \ {t} : Key(t) \notin held[u] /\ held[t] \cap held[u] = {}
      BY DEF RowFree, TypeOK
    <3>3. \A u \in Ingest \ {t} : held'[t] \cap held'[u] = {}
      BY <3>1, <3>2, <1>2
    <3>4. \A u, v \in Ingest \ {t} : u # v => held'[u] \cap held'[v] = {}
      BY <1>2 DEF TypeOK
    <3>5. QED
      BY <3>3, <3>4
  <2>6. QED
    BY <2>1, <2>2, <2>3, <2>4, <2>5 DEF TypeOK
<1>4. IngestExact' /\ Erasing'
  <2>1. held'[t] = held[t] \cup {Key(t)}
    BY DEF TypeOK
  <2>2. \A u \in Ingest : held'[u] \cap doomed = {}
    BY <2>1, <1>2 DEF Erasing
  <2>3. ProgramLocked => \A u \in Ingest : held'[u] \subseteq rows
    BY <2>1, <1>2 DEF Erasing
  <2>4. QED
    BY <2>2, <2>3 DEF IngestExact, Erasing, ProgramGone, ProgramLocked
<1>5. ASSUME NEW u \in Ingest, u # t PROVE Phase(u)'
  <2>1. pc[u] = "insert_link" => Link(u) \notin rels'
    BY DEF Phase
  <2>2. QED
    BY <2>1, <1>2, <1>5, OtherPhase DEF ProgramGone
<1>6. QED
  BY <1>1, <1>3, <1>4, <1>5

LEMMA StepUpdateAsset ==
  ASSUME IInv, NEW t \in Ingest, UpdateAsset(t)
  PROVE  IInv'
<1>1. /\ Key(t) \in Asset /\ Now(t).meta \subseteq MetaKey
      /\ seen \in [Ingest -> [Asset -> SUBSET MetaKey]] /\ dirty \in [Ingest -> SUBSET Asset]
  BY NowType DEF IInv, TypeOK
<1>2. dirty' \in [Ingest -> SUBSET Asset]
  BY <1>1 DEF UpdateAsset
<1>3. seen' \in [Ingest -> [Asset -> SUBSET MetaKey]]
  <2>1. seen[t][Key(t)] \cup Now(t).meta \in SUBSET MetaKey
    BY <1>1
  <2>2. seen' = [seen EXCEPT ![t][Key(t)] = seen[t][Key(t)] \cup Now(t).meta]
    BY DEF UpdateAsset
  <2>3. QED
    BY <1>1, <2>1, <2>2
<1>4. ProgramLocked => Key(t) \in rows
  BY DEF UpdateAsset, IInv, Phase, Erasing
<1>5. QED
  BY <1>2, <1>3, <1>4, StepUpsert DEF UpdateAsset

LEMMA StepInsertAsset ==
  ASSUME IInv, NEW t \in Ingest, InsertAsset(t)
  PROVE  IInv'
<1>1. /\ Key(t) \in Asset /\ Now(t).meta \in SUBSET MetaKey
      /\ seen \in [Ingest -> [Asset -> SUBSET MetaKey]] /\ dirty \in [Ingest -> SUBSET Asset]
  BY NowType DEF IInv, TypeOK
<1>2. dirty' \in [Ingest -> SUBSET Asset] /\ seen' \in [Ingest -> [Asset -> SUBSET MetaKey]]
  BY <1>1 DEF InsertAsset
<1>3. Key(t) \notin doomed
  BY DEF InsertAsset, IInv, Erasing
<1>4. QED
  BY <1>2, <1>3, StepUpsert DEF InsertAsset

(* Going on after a link that is now there, whoever inserted it. *)
LEMMA StepLink ==
  ASSUME IInv, NEW t \in Ingest, pc[t] \in AtLink, NextFind(t),
         \/ links' = links /\ Link(t) \in rels \cup links[t]
         \/ links' = [links EXCEPT ![t] = @ \cup {Link(t)}],
         UNCHANGED <<restVars, delVars, store, held, seen, dirty, retries, committed, faults>>
  PROVE  IInv'
<1> USE DEF restVars, delVars, store, IInv
<1>1. /\ at[t] \in 1 .. Len(plan[t]) /\ Len(plan[t]) \in Nat /\ Key(t) \in Asset
      /\ Now(t).parent \in Asset /\ Now(t).parent # NoParent /\ ~ProgramGone
  BY NowType DEF Phase
<1>2. Link(t) \in Asset \X Asset /\ Link(t) \in Edges(plan[t]) /\ Link(t)[2] = Key(t)
  BY <1>1 DEF Link, Key, Now, Edges
<1>3. held[t] = AssetsTo(t, at[t]) /\ LinkedTo(t, at[t] - 1) /\ OwnLinks(t) /\ Key(t) \in held[t]
  BY ChildHeld DEF Phase, Active, Upserted, Linked, AtLink
<1>4. links[t] \subseteq links'[t] /\ links'[t] \subseteq links[t] \cup {Link(t)}
  BY DEF TypeOK
<1>5. Link(t) \in rels \cup links'[t]
  BY DEF TypeOK
<1>6. OwnLinks(t)'
  BY <1>2, <1>3, <1>4 DEF OwnLinks
<1>7. ASSUME NEW n, n = at[t] PROVE LinkedTo(t, n)'
  <2>1. \A i \in 1 .. n : i = n \/ i \in 1 .. (n - 1)
    BY <1>1, <1>7
  <2>2. QED
    BY <2>1, <1>3, <1>4, <1>5, <1>7 DEF LinkedTo, Link, Key, Now
<1>8. Phase(t)' /\ at'[t] \in 1 .. Len(plan[t]) /\ pc'[t] \in {"select", "commit"}
  <2>1. ASSUME NEW n, n = at[t] PROVE held'[t] = AssetsTo(t, n)
    BY <1>3, <2>1
  <2>2. QED
    BY <1>1, <1>6, <1>7, <2>1, NextFindPhase
<1>9. \A u \in Ingest \ {t} : pc'[u] = pc[u] /\ at'[u] = at[u] /\ links'[u] = links[u]
  BY DEF NextFind, Goto, TypeOK
<1>10. TypeOK'
  <2>1. pc' \in [Ingest -> Labels]
    BY <1>8 DEF NextFind, Goto, TypeOK, Labels
  <2>2. at' \in [Ingest -> Nat]
    <3>1. at \in [Ingest -> Nat]
      BY DEF TypeOK
    <3>2. at' = at \/ at' = [at EXCEPT ![t] = at[t] + 1]
      BY DEF NextFind
    <3>3. QED
      BY <3>1, <3>2
  <2>3. \A u \in Ingest : at'[u] \in 1 .. Len(plan'[u])
    BY <1>8, <1>9 DEF TypeOK
  <2>4. links' \in [Ingest -> SUBSET (Asset \X Asset)]
    <3>1. links \in [Ingest -> SUBSET (Asset \X Asset)]
      BY DEF TypeOK
    <3>2. links[t] \cup {Link(t)} \in SUBSET (Asset \X Asset)
      BY <1>2, <3>1
    <3>3. links' = links \/ links' = [links EXCEPT ![t] = links[t] \cup {Link(t)}]
      OBVIOUS
    <3>4. QED
      BY <3>1, <3>2, <3>3
  <2>5. QED
    BY <2>1, <2>2, <2>3, <2>4 DEF TypeOK
<1>11. IngestExact' /\ Erasing'
  BY DEF IngestExact, Erasing, ProgramGone, ProgramLocked
<1>12. ASSUME NEW u \in Ingest, u # t PROVE Phase(u)'
  <2>1. pc[u] = "insert_link" => Link(u) \notin rels'
    BY DEF Phase
  <2>2. QED
    BY <2>1, <1>9, <1>12, OtherPhase DEF ProgramGone
<1>13. QED
  BY <1>8, <1>10, <1>11, <1>12

LEMMA StepSelectLink ==
  ASSUME IInv, NEW t \in Ingest, SelectLink(t)
  PROVE  IInv'
<1> USE DEF SelectLink, txnVars, delVars
<1>1. CASE Link(t) \in rels \cup links[t]
  BY <1>1, StepLink DEF AtLink
<1>2. CASE Link(t) \notin rels \cup links[t]
  <2> USE <1>2 DEF IInv, restVars, store
  <2>1. pc'[t] = "insert_link" /\ at' = at /\ \A u \in Ingest \ {t} : pc'[u] = pc[u]
    BY DEF Goto, TypeOK
  <2>2. TypeOK'
    BY DEF TypeOK, Goto, Labels
  <2>3. IngestExact' /\ Erasing'
    BY DEF IngestExact, Erasing, ProgramGone, ProgramLocked
  <2>4. Phase(t)'
    <3>1. Upserted(t)' = Upserted(t) /\ Linked(t)' = Linked(t) /\ Now(t)' = Now(t) /\ Link(t)' = Link(t)
      BY <2>1 DEF Upserted, Linked, AtLink, Now, Link, Key
    <3>2. held[t] = AssetsTo(t, Upserted(t)) /\ LinkedTo(t, Linked(t)) /\ OwnLinks(t) /\ ~ProgramGone
      BY DEF Phase, Active, AtLink
    <3>3. held'[t] = AssetsTo(t, Upserted(t))' /\ LinkedTo(t, Linked(t))' /\ OwnLinks(t)'
      BY <3>1, <3>2 DEF AssetsTo, LinkedTo, OwnLinks
    <3>4. Now(t).parent # NoParent
      BY DEF Phase, AtLink
    <3>5. QED
      BY <2>1, <3>1, <3>2, <3>3, <3>4 DEF Phase, Active, ProgramGone
  <2>5. ASSUME NEW u \in Ingest, u # t PROVE Phase(u)'
    <3>1. pc[u] = "insert_link" => Link(u) \notin rels'
      BY DEF Phase
    <3>2. QED
      BY <3>1, <2>1, <2>5, OtherPhase DEF ProgramGone
  <2>6. QED
    BY <2>2, <2>3, <2>4, <2>5
<1>3. QED
  BY <1>1, <1>2

LEMMA StepInsertLink ==
  ASSUME IInv, NEW t \in Ingest, InsertLink(t)
  PROVE  IInv'
BY StepLink DEF InsertLink, AtLink, delVars

(* The transaction of an attempt ends without its rows: Abort, Crash. *)
LEMMA StepRelease ==
  ASSUME IInv, NEW t \in Ingest, Release(t),
         \/ Restart(t)
         \/ Goto(t, "failed") /\ UNCHANGED <<at, retries>>,
         UNCHANGED <<restVars, delVars, store, committed>>, faults' \in 0 .. MaxFaults
  PROVE  IInv'
<1> USE DEF restVars, delVars, store, IInv
<1>1. \/ pc'[t] = "begin" /\ at'[t] = 1
      \/ pc'[t] \in {"done", "failed"} /\ at'[t] = at[t]
  BY DEF Restart, Goto, TypeOK
<1>2. held'[t] = {} /\ links'[t] = {}
  BY DEF Release, TypeOK
<1>3. Phase(t)' /\ at'[t] \in 1 .. Len(plan[t])
  BY <1>1, <1>2, ReleasePhase
<1>4. \A u \in Ingest \ {t} :
        pc'[u] = pc[u] /\ at'[u] = at[u] /\ held'[u] = held[u] /\ links'[u] = links[u]
  BY DEF Restart, Goto, Release, TypeOK
<1>5. TypeOK'
  <2>1. pc' \in [Ingest -> Labels]
    BY DEF Restart, Goto, TypeOK, Labels
  <2>2. at' \in [Ingest -> Nat] /\ \A u \in Ingest : at'[u] \in 1 .. Len(plan'[u])
    <3>1. at \in [Ingest -> Nat] /\ \A u \in Ingest : at[u] \in 1 .. Len(plan[u])
      BY DEF TypeOK
    <3>2. at' = at \/ at' = [at EXCEPT ![t] = 1]
      BY DEF Restart
    <3>3. at' \in [Ingest -> Nat]
      BY <3>1, <3>2
    <3>4. QED
      BY <3>1, <3>3, <1>3, <1>4
  <2>3. retries' \in [Ingest -> 0 .. MaxRetries]
    <3>1. retries \in [Ingest -> 0 .. MaxRetries]
      BY DEF TypeOK
    <3>2. retries' = retries \/ (retries' = [retries EXCEPT ![t] = retries[t] + 1] /\ retries[t] < MaxRetries)
      BY DEF Restart
    <3>3. QED
      BY <3>1, <3>2, AssetStoreAssumption
  <2>4. /\ held' \in [Ingest -> SUBSET Asset] /\ dirty' \in [Ingest -> SUBSET Asset]
        /\ seen' \in [Ingest -> [Asset -> SUBSET MetaKey]]
        /\ links' \in [Ingest -> SUBSET (Asset \X Asset)]
    BY DEF Release, TypeOK
  <2>5. \A u, v \in Ingest : u # v => held'[u] \cap held'[v] = {}
    BY <1>2, <1>4 DEF TypeOK
  <2>6. QED
    BY <2>1, <2>2, <2>3, <2>4, <2>5 DEF TypeOK
<1>6. IngestExact' /\ Erasing'
  <2>1. \A u \in Ingest : held'[u] \subseteq held[u]
    BY <1>2, <1>4
  <2>2. QED
    BY <2>1 DEF IngestExact, Erasing, ProgramGone, ProgramLocked
<1>7. ASSUME NEW u \in Ingest, u # t PROVE Phase(u)'
  <2>1. pc[u] = "insert_link" => Link(u) \notin rels'
    BY DEF Phase
  <2>2. QED
    BY <2>1, <1>4, <1>7, OtherPhase DEF ProgramGone
<1>8. QED
  BY <1>3, <1>5, <1>6, <1>7

LEMMA StepCommit ==
  ASSUME IInv, NEW t \in Ingest, Commit(t)
  PROVE  IInv'
<1> USE DEF Commit, restVars, delVars, IInv
<1>1. pc'[t] = "done" /\ at' = at /\ held'[t] = {} /\ links'[t] = {}
  BY DEF Goto, Release, TypeOK
<1>2. Phase(t)'
  BY <1>1, ReleasePhase
<1>3. \A u \in Ingest \ {t} :
        pc'[u] = pc[u] /\ at'[u] = at[u] /\ held'[u] = held[u] /\ links'[u] = links[u]
  BY DEF Goto, Release, TypeOK
<1>4. TypeOK'
  <2>1. pc' \in [Ingest -> Labels]
    BY DEF Goto, TypeOK, Labels
  <2>2. rows' \subseteq Asset /\ rels' \subseteq Asset \X Asset /\ committed' \subseteq Ingest
    BY DEF TypeOK
  <2>3. meta' \in [Asset -> SUBSET MetaKey]
    BY DEF TypeOK
  <2>4. /\ held' \in [Ingest -> SUBSET Asset] /\ dirty' \in [Ingest -> SUBSET Asset]
        /\ seen' \in [Ingest -> [Asset -> SUBSET MetaKey]]
        /\ links' \in [Ingest -> SUBSET (Asset \X Asset)]
    BY DEF Release, TypeOK
  <2>5. \A u, v \in Ingest : u # v => held'[u] \cap held'[v] = {}
    BY <1>1, <1>3 DEF TypeOK
  <2>6. QED
    BY <2>1, <2>2, <2>3, <2>4, <2>5 DEF TypeOK
<1>5. Erasing'
  <2>1. rows \subseteq rows' /\ (ProgramLocked => rows' = rows)
    BY DEF Erasing
  <2>2. \A u \in Ingest : held'[u] \subseteq held[u]
    BY <1>1, <1>3
  <2>3. QED
    BY <2>1, <2>2 DEF Erasing, ProgramLocked
<1>6. IngestExact'
  <2>1. CASE ProgramGone
    BY <2>1 DEF Phase, IngestExact, ProgramGone
  <2>2. CASE ~ProgramGone
    <3> USE <2>2
    <3>1. at[t] = Len(plan[t]) /\ Upserted(t) = at[t] /\ Linked(t) = at[t]
      BY DEF Phase, Upserted, Linked
    <3>2. held[t] = Assets(plan[t])
      BY <3>1 DEF Phase, Active, AssetsTo, Assets
    <3>3. Edges(plan[t]) \subseteq rels \cup links[t]
      BY <3>1 DEF Phase, Active, LinkedTo, Edges
    <3>4. links[t] \subseteq Edges(plan[t])
      BY DEF Phase, OwnLinks
    <3>5. rows' = before \cup UNION {Assets(plan[u]) : u \in committed'}
      BY <3>2 DEF IngestExact
    <3>6. rels' = UNION {Edges(plan[u]) : u \in committed'}
      <4>1. rels' = rels \cup Edges(plan[t])
        BY <3>3, <3>4
      <4>2. QED
        BY <4>1 DEF IngestExact
    <3>7. QED
      BY <3>5, <3>6 DEF IngestExact, ProgramGone
  <2>3. QED
    BY <2>1, <2>2
<1>7. ASSUME NEW u \in Ingest, u # t PROVE Phase(u)'
  <2>1. pc[u] = "insert_link" => Link(u) \notin rels'
    BY <1>7, Disjoint DEF Phase, AtLink
  <2>2. rels \subseteq rels' /\ rows \subseteq rows'
    OBVIOUS
  <2>3. QED
    BY <2>1, <2>2, <1>3, <1>7, OtherPhase DEF ProgramGone
<1>8. QED
  BY <1>2, <1>4, <1>5, <1>6, <1>7

LEMMA StepFailsLater ==
  ASSUME IInv, NEW t \in Ingest, FailsLater(t)
  PROVE  IInv'
<1> USE DEF IInv
<1>1. held[t] = {} /\ links[t] = {} /\ faults' \in 0 .. MaxFaults
  BY AssetStoreAssumption DEF FailsLater, Phase, Active, TypeOK
<1>2. dirty' = dirty /\ seen' = seen /\ held' = held /\ links' = links
  BY DEF FailsLater, txnVars
<1> USE DEF FailsLater, restVars, delVars, store
<1>3. \/ pc'[t] = "begin" /\ at'[t] = 1
      \/ pc'[t] \in {"done", "failed"} /\ at'[t] = at[t]
  BY DEF Restart, Goto, TypeOK
<1>4. Phase(t)' /\ at'[t] \in 1 .. Len(plan[t])
  BY <1>1, <1>2, <1>3, ReleasePhase
<1>5. \A u \in Ingest \ {t} : pc'[u] = pc[u] /\ at'[u] = at[u]
  BY DEF Restart, Goto, TypeOK
<1>6. TypeOK'
  <2>1. pc' \in [Ingest -> Labels]
    BY DEF Restart, Goto, TypeOK, Labels
  <2>2. at \in [Ingest -> Nat] /\ retries \in [Ingest -> 0 .. MaxRetries]
    BY DEF TypeOK
  <2>3. at' = at \/ at' = [at EXCEPT ![t] = 1]
    BY DEF Restart
  <2>4. retries' = retries \/ (retries' = [retries EXCEPT ![t] = retries[t] + 1] /\ retries[t] < MaxRetries)
    BY DEF Restart
  <2>5. at' \in [Ingest -> Nat] /\ retries' \in [Ingest -> 0 .. MaxRetries]
    BY <2>2, <2>3, <2>4, AssetStoreAssumption
  <2>6. \A u \in Ingest : at'[u] \in 1 .. Len(plan'[u])
    BY <1>4, <1>5 DEF TypeOK
  <2>7. QED
    BY <2>1, <2>5, <2>6, <1>1, <1>2 DEF TypeOK
<1>7. IngestExact' /\ Erasing'
  BY <1>2 DEF IngestExact, Erasing, ProgramGone, ProgramLocked
<1>8. ASSUME NEW u \in Ingest, u # t PROVE Phase(u)'
  <2>1. pc[u] = "insert_link" => Link(u) \notin rels'
    BY DEF Phase
  <2>2. QED
    BY <2>1, <1>2, <1>5, <1>8, OtherPhase DEF ProgramGone
<1>9. QED
  BY <1>4, <1>6, <1>7, <1>8

-----------------------------------------------------------------------------
(* The steps of the deletion that leave the ingests alone. *)
LEMMA StepDeletion ==
  ASSUME IInv, UNCHANGED <<restVars, store, at, pc, txnVars, retries, committed>>,
         faults' \in 0 .. MaxFaults, ~ProgramGone, delPc' # "deleted", Erasing',
         delPc' \in {"idle", "assets", "program", "cascade", "commit", "deleted", "failed"},
         left' \subseteq Asset, target' \in left' \/ (target' = NoParent /\ left' = {})
  PROVE  IInv'
<1> USE DEF IInv, restVars, store, txnVars
<1>1. TypeOK'
  BY DEF TypeOK, Erasing
<1>2. IngestExact'
  BY DEF IngestExact, ProgramGone
<1>3. ASSUME NEW u \in Ingest PROVE Phase(u)'
  <2>1. pc[u] = "insert_link" => Link(u) \notin rels'
    BY DEF Phase
  <2>2. QED
    BY <2>1, OtherPhase DEF ProgramGone
<1>4. QED
  BY <1>1, <1>2, <1>3

LEMMA StepLoadAssets ==
  ASSUME IInv, LoadAssets
  PROVE  IInv'
<1>1. /\ delPc' \in {"assets", "program"} /\ (delPc' = "assets" => target' \in left')
      /\ left' = rows /\ doomed' = doomed /\ rows' = rows /\ held' = held
  BY DEF LoadAssets, DeleteThese, store, txnVars
<1>2. Erasing'
  BY <1>1 DEF Erasing, IInv, ProgramLocked
<1>3. target' \in left' \/ (target' = NoParent /\ left' = {})
  BY DEF LoadAssets, DeleteThese
<1>4. rows \subseteq Asset /\ faults' \in 0 .. MaxFaults /\ ~ProgramGone
  BY DEF LoadAssets, IInv, TypeOK, ProgramGone
<1>5. QED
  BY <1>1, <1>2, <1>3, <1>4, StepDeletion DEF LoadAssets

LEMMA StepDeleteAsset ==
  ASSUME IInv, DeleteAsset
  PROVE  IInv'
<1>1. /\ doomed' = doomed \cup {target} /\ left' = left \ {target} /\ rows' = rows /\ held' = held
      /\ delPc' \in {"assets", "program", "cascade", "commit"}
      /\ delPc' \in {"assets", "cascade"} => target' \in left'
      /\ ProgramLocked' => ProgramLocked
      /\ delPc' = "commit" => left' = {}
  BY DEF DeleteAsset, DeleteThese, ProgramLocked, store, txnVars
<1>2. Erasing'
  <2>1. target \in left
    BY DEF DeleteAsset, IInv, Erasing
  <2>2. doomed' \cup left' = doomed \cup left
    BY <1>1, <2>1
  <2>3. \A t \in Ingest : target \notin held[t]
    BY DEF DeleteAsset, Deletable
  <2>4. QED
    BY <1>1, <2>2, <2>3 DEF Erasing, IInv
<1>3. target' \in left' \/ (target' = NoParent /\ left' = {})
  BY DEF DeleteAsset, DeleteThese
<1>4. left \subseteq Asset /\ faults' \in 0 .. MaxFaults /\ ~ProgramGone
  BY DEF DeleteAsset, IInv, TypeOK, ProgramGone
<1>5. QED
  BY <1>1, <1>2, <1>3, <1>4, StepDeletion DEF DeleteAsset

LEMMA StepDeleteProgram ==
  ASSUME IInv, DeleteProgram
  PROVE  IInv'
<1>1. /\ doomed' = doomed /\ left' = rows \ doomed /\ rows' = rows /\ held' = held
      /\ delPc' \in {"cascade", "commit"} /\ (delPc' = "cascade" => target' \in left')
      /\ delPc' = "commit" => left' = {}
  BY DEF DeleteProgram, DeleteThese, store, txnVars
<1>2. Erasing'
  <2>1. \A t \in Ingest : held[t] \subseteq rows
    BY DEF DeleteProgram, NoneInserted
  <2>2. QED
    BY <1>1, <2>1 DEF Erasing, IInv
<1>3. target' \in left' \/ (target' = NoParent /\ left' = {})
  BY DEF DeleteProgram, DeleteThese
<1>4. rows \subseteq Asset /\ faults' \in 0 .. MaxFaults /\ ~ProgramGone
  BY DEF DeleteProgram, IInv, TypeOK, ProgramGone
<1>5. QED
  BY <1>1, <1>2, <1>3, <1>4, StepDeletion DEF DeleteProgram

LEMMA StepRollBackDelete ==
  ASSUME IInv, RollBackDelete, faults' \in 0 .. MaxFaults
  PROVE  IInv'
<1>1. /\ delPc' = "failed" /\ doomed' = {} /\ left' = {} /\ target' = NoParent
      /\ rows' = rows /\ held' = held
  BY DEF RollBackDelete, EndDelete, store, txnVars
<1>2. Erasing'
  BY <1>1 DEF Erasing, ProgramLocked
<1>3. ~ProgramGone
  BY DEF RollBackDelete, Deleting, ProgramGone
<1>4. QED
  BY <1>1, <1>2, <1>3, StepDeletion DEF RollBackDelete

(* When the deletion commits, all assets are doomed, so that no ingest has    *)
(* written anything.                                                          *)
LEMMA StepCommitDelete ==
  ASSUME IInv, CommitDelete
  PROVE  IInv'
<1> USE DEF CommitDelete, EndDelete, restVars, txnVars, IInv
<1>1. rows = doomed /\ ~ProgramGone
  BY DEF Erasing, ProgramLocked, ProgramGone
<1>2. \A t \in Ingest : held[t] = {} /\ links[t] = {}
  <2>1. \A t \in Ingest : held[t] = {}
    BY <1>1 DEF Erasing, ProgramLocked
  <2>2. QED
    BY <2>1 DEF Phase, OwnLinks
<1>3. rows' = {}
  BY <1>1
<1>4. rels' = {}
  <2>1. ASSUME NEW l \in rels PROVE l[2] \in rows
    <3>1. PICK t \in committed : l \in Edges(plan[t])
      BY <1>1 DEF IngestExact
    <3>2. l[2] \in Assets(plan[t])
      BY <3>1 DEF Edges, Assets
    <3>3. QED
      BY <3>2, <1>1 DEF IngestExact
  <2>2. QED
    BY <2>1, <1>1
<1>5. TypeOK'
  <2>1. meta' \in [Asset -> SUBSET MetaKey]
    BY DEF TypeOK
  <2>2. QED
    BY <2>1, <1>3, <1>4 DEF TypeOK
<1>6. IngestExact' /\ Erasing'
  BY <1>2, <1>3, <1>4 DEF IngestExact, Erasing, ProgramGone, ProgramLocked
<1>7. ASSUME NEW t \in Ingest PROVE Phase(t)'
  <2>1. pc[t] \notin AtLink
    BY <1>2, ChildHeld
  <2>2. OwnLinks(t)'
    BY <1>2 DEF OwnLinks
  <2>3. QED
    BY <1>2, <2>1, <2>2 DEF Phase, ProgramGone, AtLink
<1>8. QED
  BY <1>5, <1>6, <1>7

LEMMA StepIInv == IInv /\ [Next]_vars => IInv'
<1> SUFFICES ASSUME IInv, [Next]_vars PROVE IInv'
  OBVIOUS
<1>1. ASSUME NEW t \in Ingest, Statement(t) PROVE IInv'
  <2>1. CASE SelectAsset(t)
    BY <2>1, StepSelectAsset
  <2>2. CASE UpdateAsset(t)
    BY <2>2, StepUpdateAsset
  <2>3. CASE InsertAsset(t)
    BY <2>3, StepInsertAsset
  <2>4. CASE SelectLink(t)
    BY <2>4, StepSelectLink
  <2>5. CASE InsertLink(t)
    BY <2>5, StepInsertLink
  <2>6. CASE Commit(t)
    BY <2>6, StepCommit
  <2>7. CASE Conflict(t)
    <3>1. faults' \in 0 .. MaxFaults
      BY <2>7 DEF Conflict, IInv, TypeOK
    <3>2. QED
      BY <2>7, <3>1, StepRelease DEF Conflict, Abort
  <2>8. CASE Begin(t)
    BY <2>8, StepBegin
  <2>9. CASE NotFound(t)
    <3>1. faults' \in 0 .. MaxFaults
      BY <2>9 DEF NotFound, IInv, TypeOK
    <3>2. QED
      BY <2>9, <3>1, StepRelease DEF NotFound, Abort
  <2>10. QED
    BY <1>1, <2>1, <2>2, <2>3, <2>4, <2>5, <2>6, <2>7, <2>8, <2>9 DEF Statement
<1>2. ASSUME NEW t \in Ingest, Victim(t) PROVE IInv'
  <2>1. faults' \in 0 .. MaxFaults
    BY <1>2 DEF Victim, IInv, TypeOK
  <2>2. QED
    BY <1>2, <2>1, StepRelease DEF Victim, Abort
<1>3. ASSUME NEW t \in Ingest, Fails(t) \/ Crash(t) PROVE IInv'
  <2>1. faults' \in 0 .. MaxFaults
    BY <1>3, AssetStoreAssumption DEF Fails, Crash, IInv, TypeOK
  <2>2. CASE Fails(t)
    BY <2>1, <2>2, StepRelease DEF Fails, Abort
  <2>3. CASE Crash(t)
    BY <2>1, <2>3, StepRelease DEF Crash
  <2>4. QED
    BY <1>3, <2>2, <2>3
<1>4. ASSUME NEW t \in Ingest, FailsLater(t) PROVE IInv'
  BY <1>4, StepFailsLater
<1>5. CASE DeleteStatement
  BY <1>5, StepLoadAssets, StepDeleteAsset, StepDeleteProgram, StepCommitDelete DEF DeleteStatement
<1>6. CASE DeletionVictim \/ DeleteFails
  <2>1. RollBackDelete /\ faults' \in 0 .. MaxFaults
    BY <1>6, AssetStoreAssumption DEF DeletionVictim, DeleteFails, IInv, TypeOK
  <2>2. QED
    BY <2>1, StepRollBackDelete
<1>7. CASE UNCHANGED vars
  <2>1. \A u \in Ingest : Phase(u) => Phase(u)'
    BY <1>7, OtherPhase DEF vars, restVars, store, txnVars, delVars, ProgramGone, Phase
  <2>2. TypeOK' /\ IngestExact' /\ Erasing'
    BY <1>7 DEF IInv, vars, restVars, store, txnVars, delVars, TypeOK, IngestExact, Erasing, ProgramGone, ProgramLocked
  <2>3. QED
    BY <2>1, <2>2 DEF IInv
<1>8. QED
  BY <1>1, <1>2, <1>3, <1>4, <1>5, <1>6, <1>7 DEF Next, Terminating

-----------------------------------------------------------------------------
(***************************************************************************)
(* The theorems.                                                           *)
(***************************************************************************)
LEMMA Inductive == Spec => []IInv
  BY InitIInv, StepIInv, PTL DEF Spec

(* The types, and that no two transactions hold the lock of one row. *)
THEOREM AssetTypes == Spec => []TypeOK
  BY Inductive, IInvImplies, PTL

(* run_with_session and the look-ups of asset_service.py: the stored graph is *)
(* at any time what the committed ingests found, however many run, conflict,  *)
(* fail, and are repeated.                                                    *)
THEOREM IngestsAreExact == Spec => []IngestExact
  BY Inductive, IInvImplies, PTL

(* link_assets inserts a relation no other transaction has inserted or is      *)
(* inserting: the lock of the child that upsert_asset took keeps others away.  *)
THEOREM LinksAreSafe == Spec => []LinksNeverConflict
  BY Inductive, IInvImplies, PTL
-----------------------------------------------------------------------------
(* Somebody has still to end: an ingest, or the deletion that was begun. *)
Going == Deleting \/ \E t \in Ingest : Active(t)

(* Until an ingest commits or the deletion does, nobody can lose to a       *)
(* committed row, and whoever loses a deadlock leaves another waiting.      *)
Winner ==
  faults = 0 /\ committed = {} /\ ~ProgramGone =>
    /\ Going
    /\ \A t \in Ingest : pc[t] = "insert" => Key(t) \notin rows

(* A party of a deadlock is waited for by another that has still to end. *)
LEMMA OtherWaits ==
  ASSUME NEW x \in Party, Deadlocked(x)
  PROVE  \E y \in Party \ {x} : \/ y = Deletion /\ Deleting
                                \/ y \in Ingest /\ Active(y)
<1>1. PICK S \in SUBSET Party :
        /\ x \in S /\ S # {x}
        /\ \A P \in (SUBSET S) \ {{}, S} : \E y \in P, z \in S \ P : Waits(y, z)
  BY DEF Deadlocked
<1>2. S \ {x} \in (SUBSET S) \ {{}, S}
  BY <1>1
<1>3. PICK y \in S \ {x} : \E z \in S \ (S \ {x}) : Waits(y, z)
  BY <1>1, <1>2
<1>4. \/ y = Deletion /\ Deleting
      \/ y \in Ingest /\ Active(y)
  BY <1>3, AssetStoreAssumption
     DEF Waits, WaitsForIngest, WaitsForDeletion, DeletionWaitsFor, Active, Deleting
<1>q. QED
  BY <1>3, <1>4

(* An ingest that ends its attempt leaves the others where they are. *)
LEMMA AbortWinner ==
  ASSUME IInv, Winner, NEW t \in Ingest, Abort(t), faults' = faults,
         \E y \in Party \ {t} : (y = Deletion /\ Deleting) \/ (y \in Ingest /\ Active(y))
  PROVE  Winner'
<1>1. /\ UNCHANGED <<rows, plan, delPc, committed>>
      /\ pc' = [pc EXCEPT ![t] = pc'[t]] /\ pc'[t] \in {"begin", "failed"}
      /\ \A u \in Ingest \ {t} : at'[u] = at[u]
  BY DEF Abort, Restart, Goto, IInv, TypeOK, restVars, store, delVars
<1>2. /\ \A u \in Ingest \ {t} : pc'[u] = pc[u] /\ Key(u)' = Key(u) /\ Active(u)' = Active(u)
      /\ Deleting' = Deleting /\ ProgramGone' = ProgramGone
  BY <1>1 DEF IInv, TypeOK, Key, Now, Active, Deleting, ProgramGone
<1>3. Going'
  BY <1>2, AssetStoreAssumption DEF Going
<1>q. QED
  BY <1>1, <1>2, <1>3 DEF Winner

(* A statement that does not end an attempt leaves its ingest on its way. *)
LEMMA GoesOnWinner ==
  ASSUME IInv, Winner, NEW t \in Ingest, UNCHANGED <<rows, plan, delPc, committed, faults>>,
         pc' = [pc EXCEPT ![t] = pc'[t]], pc'[t] \in Labels \ {"done", "failed"},
         \A u \in Ingest \ {t} : at'[u] = at[u],
         pc'[t] = "insert" => Key(t) \notin rows /\ at'[t] = at[t]
  PROVE  Winner'
<1>1. /\ \A u \in Ingest \ {t} : pc'[u] = pc[u] /\ Key(u)' = Key(u)
      /\ ProgramGone' = ProgramGone
      /\ pc'[t] = "insert" => Key(t)' = Key(t)
  BY DEF IInv, TypeOK, Key, Now, ProgramGone
<1>2. Going'
  BY DEF Going, Active
<1>q. QED
  BY <1>1, <1>2 DEF Winner

(* The next find, and the link, never go to an insert. *)
LEMMA NextGoesOn ==
  ASSUME IInv, NEW t \in Ingest, NextFind(t) \/ AfterUpsert(t)
  PROVE  /\ pc' = [pc EXCEPT ![t] = pc'[t]] /\ pc'[t] \in {"select", "select_link", "commit"}
         /\ \A u \in Ingest \ {t} : at'[u] = at[u]
BY DEF NextFind, AfterUpsert, Goto, IInv, TypeOK

(* Every step keeps somebody going until somebody has won. *)
LEMMA StepWinner == IInv /\ Winner /\ [Next]_vars => Winner'
<1> SUFFICES ASSUME IInv, Winner, [Next]_vars PROVE Winner'
  OBVIOUS
<1>0. faults \in Nat /\ pc \in [Ingest -> Labels]
  BY AssetStoreAssumption DEF IInv, TypeOK
<1>1. ASSUME NEW t \in Ingest, Statement(t) PROVE Winner'
  <2>1. CASE Begin(t)
    <3>1. pc' = [pc EXCEPT ![t] = pc'[t]] /\ pc'[t] \in {"commit", "select"}
          /\ UNCHANGED <<rows, plan, delPc, committed, faults, at>>
      BY <2>1, <1>0 DEF Begin, Goto, restVars, delVars, store
    <3>q. QED
      BY <3>1, GoesOnWinner DEF Labels
  <2>2. CASE SelectAsset(t)
    <3>1. pc' = [pc EXCEPT ![t] = pc'[t]] /\ pc'[t] \in {"update", "insert"}
          /\ UNCHANGED <<rows, plan, delPc, committed, faults, at>>
          /\ (pc'[t] = "insert" => Key(t) \notin rows)
      BY <2>2, <1>0 DEF SelectAsset, Goto, restVars, delVars, store
    <3>2. pc'[t] \in Labels \ {"done", "failed"} /\ \A u \in Ingest \ {t} : at'[u] = at[u]
      BY <3>1 DEF Labels
    <3>q. QED
      BY <3>1, <3>2, GoesOnWinner
  <2>3. CASE UpdateAsset(t) \/ InsertAsset(t)
    <3>1. AfterUpsert(t) /\ UNCHANGED <<rows, plan, delPc, committed, faults>>
      BY <2>3 DEF UpdateAsset, InsertAsset, restVars, delVars, store
    <3>q. QED
      BY <3>1, NextGoesOn, GoesOnWinner DEF Labels
  <2>4. CASE SelectLink(t)
    <3>1. UNCHANGED <<rows, plan, delPc, committed, faults>>
      BY <2>4 DEF SelectLink, restVars, delVars, store
    <3>2. CASE NextFind(t)
      BY <3>1, <3>2, NextGoesOn, GoesOnWinner DEF Labels
    <3>3. CASE Goto(t, "insert_link") /\ UNCHANGED at
      <4>1. pc' = [pc EXCEPT ![t] = pc'[t]] /\ pc'[t] = "insert_link"
        BY <3>3, <1>0 DEF Goto
      <4>q. QED
        BY <3>1, <3>3, <4>1, GoesOnWinner DEF Labels
    <3>q. QED
      BY <2>4, <3>2, <3>3 DEF SelectLink
  <2>5. CASE InsertLink(t)
    <3>1. NextFind(t) /\ UNCHANGED <<rows, plan, delPc, committed, faults>>
      BY <2>5 DEF InsertLink, restVars, delVars, store
    <3>q. QED
      BY <3>1, NextGoesOn, GoesOnWinner DEF Labels
  <2>6. CASE Commit(t)
    BY <2>6 DEF Commit, Winner
  <2>7. CASE Conflict(t)
    <3>1. ~ (faults = 0 /\ committed = {} /\ ~ProgramGone)
      BY <2>7, IInvImplies DEF Conflict, Winner, LinksNeverConflict
    <3>2. UNCHANGED <<faults, committed, delPc>>
      BY <2>7 DEF Conflict, Abort, delVars
    <3>q. QED
      BY <3>1, <3>2 DEF Winner, ProgramGone
  <2>8. CASE NotFound(t)
    <3>1. ProgramGone /\ UNCHANGED delPc
      BY <2>8 DEF NotFound, Abort, delVars
    <3>q. QED
      BY <3>1 DEF Winner, ProgramGone
  <2>q. QED
    BY <1>1, <2>1, <2>2, <2>3, <2>4, <2>5, <2>6, <2>7, <2>8 DEF Statement
<1>2. ASSUME NEW t \in Ingest, Victim(t) PROVE Winner'
  <2>1. \E y \in Party \ {t} : (y = Deletion /\ Deleting) \/ (y \in Ingest /\ Active(y))
    BY <1>2, OtherWaits DEF Victim, Party
  <2>q. QED
    BY <1>2, <2>1, AbortWinner DEF Victim
<1>3. ASSUME faults' = faults + 1 PROVE Winner'
  BY <1>0, <1>3 DEF Winner
<1>4. ASSUME NEW t \in Ingest, Fails(t) \/ Crash(t) \/ FailsLater(t) PROVE Winner'
  BY <1>3, <1>4 DEF Fails, Crash, FailsLater
<1>5. CASE LoadAssets \/ DeleteAsset \/ DeleteProgram
  <2>1. UNCHANGED <<rows, plan, at, pc, committed, faults>>
    BY <1>5 DEF LoadAssets, DeleteAsset, DeleteProgram, restVars, store
  <2>2. delPc' \in {"assets", "program", "cascade", "commit"} /\ ~ ProgramGone
    BY <1>5 DEF LoadAssets, DeleteAsset, DeleteProgram, DeleteThese, ProgramGone
  <2>q. QED
    BY <2>1, <2>2 DEF Winner, Going, Deleting, ProgramGone, Key, Now
<1>6. CASE CommitDelete
  BY <1>6 DEF CommitDelete, EndDelete, Winner, ProgramGone
<1>7. CASE DeletionVictim
  <2>1. /\ UNCHANGED <<rows, plan, at, pc, committed, faults>> /\ delPc' = "failed"
        /\ delPc # "deleted"
    BY <1>7 DEF DeletionVictim, RollBackDelete, EndDelete, Deleting, restVars, store
  <2>2. \E y \in Party \ {Deletion} : (y = Deletion /\ Deleting) \/ (y \in Ingest /\ Active(y))
    BY <1>7, OtherWaits DEF DeletionVictim, Party
  <2>3. \E y \in Ingest : Active(y)
    BY <2>2
  <2>q. QED
    BY <2>1, <2>3 DEF Winner, Going, Active, ProgramGone, Key, Now
<1>8. CASE DeleteFails
  BY <1>3, <1>8 DEF DeleteFails
<1>9. CASE UNCHANGED vars
  BY <1>9 DEF vars, restVars, store, delVars, Winner, Going, Active, Deleting, ProgramGone, Key, Now
<1>q. QED
  BY <1>1, <1>2, <1>4, <1>5, <1>6, <1>7, <1>8, <1>9 DEF Next, Terminating, DeleteStatement

(* Competition alone never costs all of the ingests: when everybody has     *)
(* ended and nothing else failed, one has committed or the program is gone. *)
THEOREM SomeoneAlwaysWins ==
  ASSUME Ingest # {}
  PROVE  Spec => []SomeoneWins
<1>1. Init => Winner
  BY DEF Init, Winner, Going, Active
<1>2. Winner => SomeoneWins
  BY DEF Winner, Going, SomeoneWins
<1>q. QED
  BY Inductive, StepWinner, <1>1, <1>2, PTL DEF Spec

-----------------------------------------------------------------------------
(***************************************************************************)
(* Everyone ends: nobody is left waiting without a deadlock, and every     *)
(* step brings somebody nearer to the end.                                 *)
(***************************************************************************)
(* The guards of an ingest's statements, and of the deletion's once begun. *)
Able(t) ==
  \/ pc[t] \in {"begin", "select", "select_link", "commit"}
  \/ pc[t] = "update" /\ (ProgramGone \/ (RowFree(t) /\ Key(t) \notin doomed))
  \/ pc[t] = "insert" /\ \/ ProgramGone
                         \/ RowFree(t) /\ IF Key(t) \in rows THEN Key(t) \notin doomed ELSE ~ProgramLocked
  \/ pc[t] = "insert_link" /\ LinkFree(t) /\ (Link(t) \in rels \/ Now(t).parent \notin doomed)

DeletionAble ==
  \/ delPc \in {"assets", "cascade"} /\ Deletable(target)
  \/ delPc = "program" /\ NoneInserted
  \/ delPc = "commit"

(* As long as somebody has to end, somebody can go on or the server finds a   *)
(* deadlock: no session waits for one that has ended, or in vain.             *)
NeverWedged ==
  Going => \/ \E t \in Ingest : Able(t) \/ Deadlocked(t)
           \/ DeletionAble \/ Deadlocked(Deletion)

Unended == {t \in Ingest : Active(t)} \cup (IF Deleting THEN {Deletion} ELSE {})

(* What a deletion has deleted is its own until it ends. *)
Restored == ~Deleting => doomed = {}

LEMMA StepRestored == IInv /\ Restored /\ [Next]_vars => Restored'
<1> SUFFICES ASSUME IInv, Restored, [Next]_vars PROVE Restored'
  OBVIOUS
<1>1. CASE UNCHANGED delVars
  BY <1>1 DEF delVars, Restored, Deleting
<1>2. CASE LoadAssets \/ DeleteAsset \/ DeleteProgram
  BY <1>2 DEF LoadAssets, DeleteAsset, DeleteProgram, DeleteThese, Restored, Deleting
<1>3. CASE CommitDelete \/ RollBackDelete
  BY <1>3 DEF CommitDelete, RollBackDelete, EndDelete, Restored
<1>4. ASSUME NEW t \in Ingest, Statement(t) PROVE UNCHANGED delVars
  BY <1>4 DEF Statement, Begin, NotFound, SelectAsset, UpdateAsset, InsertAsset, SelectLink,
     InsertLink, Commit, Conflict, Abort
<1>5. ASSUME NEW t \in Ingest, Victim(t) \/ Fails(t) \/ Crash(t) \/ FailsLater(t) PROVE UNCHANGED delVars
  BY <1>5 DEF Victim, Fails, Crash, FailsLater, Abort
<1>6. UNCHANGED vars => UNCHANGED delVars
  BY DEF vars
<1>7. Terminating => UNCHANGED vars
  BY DEF Terminating
<1>8. DeleteStatement => LoadAssets \/ DeleteAsset \/ DeleteProgram \/ CommitDelete
  BY DEF DeleteStatement
<1>9. DeletionVictim \/ DeleteFails => RollBackDelete
  BY DEF DeletionVictim, DeleteFails
<1>q. QED
  BY <1>1, <1>2, <1>3, <1>4, <1>5, <1>6, <1>7, <1>8, <1>9 DEF Next

(* Whoever has to end can go on, or waits. *)
LEMMA AbleOrWaits ==
  ASSUME IInv
  PROVE  /\ \A t \in Ingest : Active(t) => Able(t) \/ \E y \in Party : Waits(t, y)
         /\ Deleting => DeletionAble \/ \E y \in Party : Waits(Deletion, y)
<1>1. ASSUME NEW t \in Ingest, Active(t), ~Able(t)
      PROVE  (\E u \in Ingest : WaitsForIngest(t, u)) \/ WaitsForDeletion(t)
  <2>1. pc[t] \in {"update", "insert", "insert_link"}
    BY <1>1 DEF IInv, TypeOK, Labels, Active, Able
  <2>2. CASE pc[t] \in {"update", "insert"} /\ ~RowFree(t)
    BY <2>2 DEF RowFree, WaitsForIngest
  <2>3. CASE pc[t] = "update" /\ RowFree(t)
    BY <1>1, <2>3 DEF Able, WaitsForDeletion
  <2>4. CASE pc[t] = "insert" /\ RowFree(t)
    BY <1>1, <2>4 DEF Able, WaitsForDeletion
  <2>5. CASE pc[t] = "insert_link" /\ ~LinkFree(t)
    BY <2>5 DEF LinkFree, WaitsForIngest
  <2>6. CASE pc[t] = "insert_link" /\ LinkFree(t)
    BY <1>1, <2>6 DEF Able, WaitsForDeletion
  <2>q. QED
    BY <2>1, <2>2, <2>3, <2>4, <2>5, <2>6
<1>2. ASSUME Deleting, ~DeletionAble PROVE \E t \in Ingest : DeletionWaitsFor(t)
  <2>1. delPc \in {"assets", "program", "cascade"}
    BY <1>2 DEF IInv, TypeOK, Deleting, DeletionAble
  <2>2. CASE delPc \in {"assets", "cascade"}
    BY <1>2, <2>2 DEF DeletionAble, Deletable, DeletionWaitsFor
  <2>3. CASE delPc = "program"
    BY <1>2, <2>3 DEF DeletionAble, NoneInserted, DeletionWaitsFor
  <2>q. QED
    BY <2>1, <2>2, <2>3
<1>q. QED
  BY <1>1, <1>2 DEF Waits, Party

(* What is waited for is a session that has still to end, another one. *)
LEMMA WaitsForUnended ==
  ASSUME IInv, Restored, NEW x \in Unended, NEW y \in Party, Waits(x, y)
  PROVE  y \in Unended \ {x}
<1>1. \A u \in Ingest : held[u] # {} \/ links[u] # {} => Active(u)
  BY DEF IInv, Phase
<1>2. ASSUME x \in Ingest, y \in Ingest, WaitsForIngest(x, y) PROVE y # x /\ Active(y)
  BY <1>1, <1>2 DEF WaitsForIngest
<1>3. ASSUME x \in Ingest, y = Deletion, WaitsForDeletion(x) PROVE Deleting
  BY <1>3 DEF WaitsForDeletion, Restored, ProgramLocked, Deleting
<1>4. ASSUME y \in Ingest, DeletionWaitsFor(y) PROVE Active(y)
  <2>1. held[y] # {} \/ links[y] # {}
    BY <1>4 DEF DeletionWaitsFor
  <2>q. QED
    BY <1>1, <1>4, <2>1
<1>q. QED
  BY <1>2, <1>3, <1>4, AssetStoreAssumption DEF Waits, Unended

(* Where everyone waits for another, some wait for each other in a circle:    *)
(* a smallest set that no wait leads out of cannot be left from any part      *)
(* of it without meeting the rest.                                            *)
LEMMA Knot ==
  ASSUME NEW U, IsFiniteSet(U), U # {}, NEW R, \A x \in U : \E y \in U \ {x} : <<x, y>> \in R
  PROVE  \E S \in SUBSET U :
           /\ S # {} /\ \A x : S # {x}
           /\ \A P \in (SUBSET S) \ {{}, S} : \E y \in P, z \in S \ P : <<y, z>> \in R
<1> DEFINE Shut == {S \in SUBSET U : S # {} /\ \A x \in S, y \in U : <<x, y>> \in R => y \in S}
<1>1. IsWellFoundedOn(StrictSubsetOrdering(U), SUBSET U)
  BY FS_StrictSubsetOrderingWellFounded, FS_FiniteSubsetsOfFinite
<1>2. U \in Shut /\ Shut \subseteq SUBSET U
  OBVIOUS
<1>3. PICK S \in Shut : \A T \in Shut : <<T, S>> \notin StrictSubsetOrdering(U)
  <2> HIDE DEF Shut
  <2>q. QED
    BY <1>1, <1>2, WFMin
<1>4. \A T \in Shut : T \subseteq S => T = S
  BY <1>3 DEF StrictSubsetOrdering
<1>5. ASSUME NEW P \in (SUBSET S) \ {{}, S} PROVE \E y \in P, z \in S \ P : <<y, z>> \in R
  <2>1. P \notin Shut
    BY <1>4
  <2>2. PICK y \in P, z \in U : <<y, z>> \in R /\ z \notin P
    BY <2>1
  <2>q. QED
    BY <2>2
<1>6. ASSUME NEW x, S = {x} PROVE FALSE
  <2>1. x \in U
    BY <1>6
  <2>2. PICK y \in U \ {x} : <<x, y>> \in R
    BY <2>1
  <2>q. QED
    BY <2>2, <1>6
<1>q. QED
  BY <1>5, <1>6

LEMMA SomeoneGoesOn ==
  ASSUME IsFiniteSet(Ingest), IInv, Restored
  PROVE  NeverWedged
<1> SUFFICES ASSUME Going, ~DeletionAble, \A t \in Ingest : ~Able(t)
             PROVE  \E x \in Party : Deadlocked(x)
  BY DEF NeverWedged, Party
<1> DEFINE R == {e \in Party \X Party : Waits(e[1], e[2])}
<1>1. Unended # {} /\ Unended \subseteq Party
  BY DEF Going, Unended, Party
<1>2. IsFiniteSet(Unended)
  <2>1. IsFiniteSet(Party)
    BY FS_AddElement DEF Party
  <2>q. QED
    BY <1>1, <2>1, FS_Subset
<1>3. ASSUME NEW x \in Unended PROVE \E y \in Unended \ {x} : <<x, y>> \in R
  <2>1. PICK y \in Party : Waits(x, y)
    BY AbleOrWaits DEF Unended
  <2>2. y \in Unended \ {x}
    BY <2>1, WaitsForUnended
  <2>q. QED
    BY <1>1, <2>1, <2>2
<1> HIDE DEF R
<1>4. PICK S \in SUBSET Unended :
        /\ S # {} /\ \A x : S # {x}
        /\ \A P \in (SUBSET S) \ {{}, S} : \E y \in P, z \in S \ P : <<y, z>> \in R
  BY <1>1, <1>2, <1>3, Knot
<1>5. PICK x \in S : x \in Unended
  BY <1>4
<1>6. \E y \in Party : Waits(x, y)
  BY <1>1, <1>3, <1>5 DEF R
<1>7. \A P \in (SUBSET S) \ {{}, S} : \E y \in P, z \in S \ P : Waits(y, z)
  BY <1>4 DEF R
<1>8. S \in SUBSET Party /\ x \in S /\ S # {x}
  BY <1>1, <1>4, <1>5
<1>9. Deadlocked(x)
  BY <1>6, <1>7, <1>8 DEF Deadlocked
<1>q. QED
  BY <1>1, <1>5, <1>9

(* The server's deadlock detection is all it takes: whatever ingests and the  *)
(* deletion wait for, somebody can go on or is on a circle of waits.          *)
THEOREM WaitsAreNeverWedged ==
  ASSUME IsFiniteSet(Ingest)
  PROVE  Spec => []NeverWedged
<1>1. Init => Restored
  BY DEF Init, Restored
<1>q. QED
  BY Inductive, StepRestored, SomeoneGoesOn, <1>1, PTL DEF Spec

(* The statements an attempt has still to make for the find it is at, and    *)
(* where the deletion is.                                                    *)
Ahead(t) ==
  CASE pc[t] = "begin"                -> 8
    [] pc[t] = "select"               -> 7
    [] pc[t] \in {"update", "insert"} -> 6
    [] pc[t] = "select_link"          -> 5
    [] pc[t] = "insert_link"          -> 4
    [] pc[t] = "commit"               -> 3
    [] pc[t] = "done"                 -> 2
    [] OTHER                          -> 1

DeletionAhead ==
  CASE delPc = "idle"    -> 6
    [] delPc = "assets"  -> 5
    [] delPc = "program" -> 4
    [] delPc = "cascade" -> 3
    [] delPc = "commit"  -> 2
    [] OTHER             -> 1

(* The next attempt, the next find, or the next statement; TypeOK bounds all  *)
(* three.                                                                     *)
Onward(t) ==
  \/ retries'[t] = retries[t] + 1
  \/ retries'[t] = retries[t] /\ at'[t] = at[t] + 1
  \/ retries'[t] = retries[t] /\ at'[t] = at[t] /\ Ahead(t)' < Ahead(t)

Still(t) == pc'[t] = pc[t] /\ at'[t] = at[t] /\ retries'[t] = retries[t]

DeletionOnward == DeletionAhead' < DeletionAhead \/ (delPc' = delPc /\ left' \subseteq left /\ left' # left)
DeletionStill  == delPc' = delPc /\ left' = left

(* Every step is progress of an ingest or of the deletion, and takes nobody   *)
(* else back: conflicts, deadlocks, failures and repeated attempts cannot go  *)
(* round in circles.                                                          *)
Counts ==
  /\ \A t \in Ingest : Onward(t) \/ Still(t)
  /\ DeletionOnward \/ DeletionStill
  /\ (\E t \in Ingest : Onward(t)) \/ DeletionOnward

EveryStepCounts == [][Counts]_vars

(* A step of one ingest. *)
LEMMA IngestCounts ==
  ASSUME TypeOK, NEW t \in Ingest, Onward(t), UNCHANGED delVars,
         \A u \in Ingest \ {t} : Still(u)
  PROVE  Counts
BY DEF Counts, DeletionStill, delVars

(* It goes on within its attempt. *)
LEMMA StatementCounts ==
  ASSUME TypeOK, NEW t \in Ingest, UNCHANGED <<delVars, at, retries>>,
         NEW label, Goto(t, label), Ahead(t)' < Ahead(t)
  PROVE  Counts
<1>1. \A u \in Ingest \ {t} : Still(u)
  BY DEF TypeOK, Goto, Still
<1>2. Onward(t)
  BY DEF Onward
<1>q. QED
  BY <1>1, <1>2, IngestCounts

(* It goes on to the next find or to the end of its transaction. *)
LEMMA NextFindCounts ==
  ASSUME TypeOK, NEW t \in Ingest, UNCHANGED <<delVars, retries>>, NextFind(t),
         pc[t] \in {"update", "insert", "select_link", "insert_link"}
  PROVE  Counts
<1>0. pc \in [Ingest -> Labels] /\ at \in [Ingest -> Nat]
  BY DEF TypeOK
<1>1. CASE at[t] < Len(plan[t])
  <2>1. Onward(t) /\ \A u \in Ingest \ {t} : Still(u)
    BY <1>0, <1>1 DEF NextFind, Goto, Onward, Still
  <2>q. QED
    BY <2>1, IngestCounts
<1>2. CASE ~(at[t] < Len(plan[t]))
  <2>1. Goto(t, "commit") /\ UNCHANGED at
    BY <1>2 DEF NextFind
  <2>2. Ahead(t)' < Ahead(t)
    BY <1>0, <2>1 DEF Goto, Ahead
  <2>q. QED
    BY <2>1, <2>2, StatementCounts
<1>q. QED
  BY <1>1, <1>2

(* It has upserted a find. *)
LEMMA UpsertCounts ==
  ASSUME TypeOK, NEW t \in Ingest, UNCHANGED <<delVars, retries>>, AfterUpsert(t),
         pc[t] \in {"update", "insert"}
  PROVE  Counts
<1>1. CASE Now(t).parent = NoParent
  BY <1>1, NextFindCounts DEF AfterUpsert
<1>2. CASE Now(t).parent # NoParent
  <2>1. Goto(t, "select_link") /\ UNCHANGED at
    BY <1>2 DEF AfterUpsert
  <2>2. Ahead(t)' < Ahead(t)
    BY <2>1 DEF Goto, Ahead, TypeOK
  <2>q. QED
    BY <2>1, <2>2, StatementCounts
<1>q. QED
  BY <1>1, <1>2

(* Its attempt ends: the next one begins, or there is none. *)
LEMMA RestartCounts ==
  ASSUME TypeOK, NEW t \in Ingest, UNCHANGED delVars, Restart(t), pc[t] # "failed"
  PROVE  Counts
<1>0. pc \in [Ingest -> Labels] /\ at \in [Ingest -> Nat] /\ retries \in [Ingest -> 0 .. MaxRetries]
  BY DEF TypeOK
<1>1. CASE t \in Retried /\ retries[t] < MaxRetries
  <2>1. Onward(t) /\ \A u \in Ingest \ {t} : Still(u)
    BY <1>0, <1>1 DEF Restart, Goto, Onward, Still
  <2>q. QED
    BY <2>1, IngestCounts
<1>2. CASE ~(t \in Retried /\ retries[t] < MaxRetries)
  <2>1. Goto(t, "failed") /\ UNCHANGED <<at, retries>>
    BY <1>2 DEF Restart
  <2>2. Ahead(t)' < Ahead(t)
    BY <1>0, <2>1 DEF Goto, Ahead, Labels
  <2>q. QED
    BY <2>1, <2>2, StatementCounts
<1>q. QED
  BY <1>1, <1>2

(* A step of the deletion. *)
LEMMA DeletionCounts ==
  ASSUME UNCHANGED <<at, pc, retries>>, DeletionOnward
  PROVE  Counts
BY DEF Counts, Still

LEMMA StepCounts ==
  ASSUME IInv, [Next]_vars
  PROVE  [Counts]_vars
<1>0. TypeOK
  BY DEF IInv
<1>1. ASSUME NEW t \in Ingest, Statement(t) PROVE Counts
  <2>0. pc \in [Ingest -> Labels]
    BY <1>0 DEF TypeOK
  <2>1. CASE Begin(t)
    <3>1. PICK label \in {"commit", "select"} : Goto(t, label) /\ UNCHANGED <<delVars, at, retries>>
      BY <2>1 DEF Begin
    <3>2. Ahead(t)' < Ahead(t)
      BY <2>0, <2>1, <3>1 DEF Begin, Goto, Ahead
    <3>q. QED
      BY <1>0, <3>1, <3>2, StatementCounts
  <2>2. CASE SelectAsset(t)
    <3>1. PICK label \in {"update", "insert"} : Goto(t, label) /\ UNCHANGED <<delVars, at, retries>>
      BY <2>2 DEF SelectAsset
    <3>2. Ahead(t)' < Ahead(t)
      BY <2>0, <2>2, <3>1 DEF SelectAsset, Goto, Ahead
    <3>q. QED
      BY <1>0, <3>1, <3>2, StatementCounts
  <2>3. CASE UpdateAsset(t) \/ InsertAsset(t)
    BY <1>0, <2>3, UpsertCounts DEF UpdateAsset, InsertAsset
  <2>4. CASE SelectLink(t)
    <3>1. CASE NextFind(t)
      BY <1>0, <2>4, <3>1, NextFindCounts DEF SelectLink
    <3>2. CASE Goto(t, "insert_link") /\ UNCHANGED at
      <4>1. Ahead(t)' < Ahead(t)
        BY <2>0, <2>4, <3>2 DEF SelectLink, Goto, Ahead
      <4>q. QED
        BY <1>0, <2>4, <3>2, <4>1, StatementCounts DEF SelectLink
    <3>q. QED
      BY <2>4, <3>1, <3>2 DEF SelectLink
  <2>5. CASE InsertLink(t)
    BY <1>0, <2>5, NextFindCounts DEF InsertLink
  <2>6. CASE Commit(t)
    <3>1. Goto(t, "done") /\ UNCHANGED <<delVars, at, retries>>
      BY <2>6 DEF Commit
    <3>2. Ahead(t)' < Ahead(t)
      BY <2>0, <2>6, <3>1 DEF Commit, Goto, Ahead
    <3>q. QED
      BY <1>0, <3>1, <3>2, StatementCounts
  <2>7. CASE Conflict(t) \/ NotFound(t)
    BY <1>0, <2>7, RestartCounts DEF Conflict, NotFound, Abort
  <2>q. QED
    BY <1>1, <2>1, <2>2, <2>3, <2>4, <2>5, <2>6, <2>7 DEF Statement
<1>2. ASSUME NEW t \in Ingest, Victim(t) PROVE Counts
  <2>1. pc[t] # "failed"
    BY <1>2, AssetStoreAssumption
       DEF Victim, Deadlocked, Waits, WaitsForIngest, WaitsForDeletion
  <2>q. QED
    BY <1>0, <1>2, <2>1, RestartCounts DEF Victim, Abort
<1>3. ASSUME NEW t \in Ingest, Fails(t) \/ FailsLater(t) PROVE Counts
  BY <1>0, <1>3, RestartCounts DEF Fails, FailsLater, Abort, Active
<1>4. ASSUME NEW t \in Ingest, Crash(t) PROVE Counts
  <2>1. Goto(t, "failed") /\ UNCHANGED <<delVars, at, retries>>
    BY <1>4 DEF Crash
  <2>2. Ahead(t)' < Ahead(t)
    BY <1>0, <1>4, <2>1 DEF Crash, Active, Goto, Ahead, TypeOK, Labels
  <2>q. QED
    BY <1>0, <2>1, <2>2, StatementCounts
<1>5. CASE LoadAssets \/ DeleteProgram
  <2>1. DeletionOnward /\ UNCHANGED <<at, pc, retries>>
    BY <1>5 DEF LoadAssets, DeleteProgram, DeleteThese, DeletionOnward, DeletionAhead
  <2>q. QED
    BY <2>1, DeletionCounts
<1>6. CASE DeleteAsset
  <2>1. target \in left
    BY <1>6 DEF IInv, Erasing, DeleteAsset
  <2>2. DeletionOnward /\ UNCHANGED <<at, pc, retries>>
    BY <1>6, <2>1 DEF DeleteAsset, DeleteThese, DeletionOnward, DeletionAhead
  <2>q. QED
    BY <2>2, DeletionCounts
<1>7. CASE CommitDelete \/ RollBackDelete
  <2>1. delPc \in {"assets", "program", "cascade", "commit"}
    BY <1>0, <1>7 DEF CommitDelete, RollBackDelete, Deleting, TypeOK
  <2>2. DeletionOnward /\ UNCHANGED <<at, pc, retries>>
    BY <1>7, <2>1 DEF CommitDelete, RollBackDelete, EndDelete, DeletionOnward, DeletionAhead
  <2>q. QED
    BY <2>2, DeletionCounts
<1>q. QED
  BY <1>1, <1>2, <1>3, <1>4, <1>5, <1>6, <1>7
     DEF Next, Terminating, DeleteStatement, DeletionVictim, DeleteFails

(* With finitely many finds, assets and attempts, nothing goes on forever. *)
THEOREM EveryStepIsProgress == Spec => EveryStepCounts
<1>1. IInv /\ [Next]_vars => [Counts]_vars
  BY StepCounts
<1>q. QED
  BY Inductive, <1>1, PTL DEF Spec, EveryStepCounts
-----------------------------------------------------------------------------
(***************************************************************************)
(* AssetStore implements GraphStore.                                       *)
(***************************************************************************)
(* The metadata keys of the first n finds of an ingest for an asset. *)
Found(t, a, n) == {k \in MetaKey : \E i \in 1 .. n : plan[t][i].asset = a /\ k \in plan[t][i].meta}

(* What a session knows of metadata somebody has brought; of an asset it has  *)
(* upserted it knows at least what it has itself found so far, and of one it  *)
(* has inserted nothing else.                                                *)
Data(t) ==
  /\ dirty[t] \subseteq held[t]
  /\ \A a \in Asset : seen[t][a] \subseteq Graph!Brought(a, committed \cup {t})
  /\ \A a \in held[t] : Found(t, a, Upserted(t)) \subseteq seen[t][a]
  /\ \A a \in held[t] \ rows : a \in dirty[t] /\ seen[t][a] \subseteq Found(t, a, Upserted(t))
  /\ pc[t] = "insert" => Key(t) \notin held[t]

Known == \A a \in Asset : meta[a] \subseteq Graph!Brought(a, committed)

DataInv == Known /\ \A t \in Ingest : Data(t)

LEMMA BroughtGrows ==
  ASSUME NEW T, NEW U, T \subseteq U
  PROVE  \A a \in Asset : Graph!Brought(a, T) \subseteq Graph!Brought(a, U)
BY DEF Graph!Brought

LEMMA BroughtKept ==
  ASSUME plan' = plan, committed \subseteq committed'
  PROVE  /\ \A a \in Asset : Graph!Brought(a, committed) \subseteq Graph!Brought(a, committed)'
         /\ \A a \in Asset : \A t \in Ingest :
              Graph!Brought(a, committed \cup {t}) \subseteq Graph!Brought(a, committed \cup {t})'
BY DEF Graph!Brought

(* A session that a step leaves as it is. *)
LEMMA OtherData ==
  ASSUME NEW t \in Ingest, Data(t), plan' = plan, committed \subseteq committed',
         pc'[t] = pc[t], at'[t] = at[t], held'[t] = held[t], seen'[t] = seen[t], dirty'[t] = dirty[t],
         held[t] = {} \/ rows \subseteq rows'
  PROVE  Data(t)'
<1>1. Upserted(t)' = Upserted(t) /\ Key(t)' = Key(t)
  BY DEF Upserted, Key, Now
<1>2. \A a, n : Found(t, a, n)' = Found(t, a, n)
  BY DEF Found
<1>3. \A a \in Asset : seen'[t][a] \subseteq Graph!Brought(a, committed \cup {t})'
  BY BroughtKept DEF Data
<1>4. \A a \in held'[t] : Found(t, a, Upserted(t))' \subseteq seen'[t][a]
  BY <1>1 DEF Data, Found
<1>5. \A a \in held'[t] \ rows' : a \in dirty'[t] /\ seen'[t][a] \subseteq Found(t, a, Upserted(t))'
  BY <1>1 DEF Data, Found
<1>q. QED
  BY <1>1, <1>3, <1>4, <1>5 DEF Data

(* A statement that is not an upsert. *)
LEMMA QuietData ==
  ASSUME NEW t \in Ingest, Data(t), UNCHANGED <<plan, rows, committed, held, seen, dirty>>,
         held[t] = {} \/ Upserted(t)' = Upserted(t), pc'[t] = "insert" => Key(t)' \notin held[t]
  PROVE  Data(t)'
<1>1. \A a \in Asset : seen'[t][a] \subseteq Graph!Brought(a, committed \cup {t})'
  BY DEF Data, Graph!Brought
<1>2. \A a \in held'[t] : Found(t, a, Upserted(t))' \subseteq seen'[t][a]
  BY DEF Data, Found
<1>3. \A a \in held'[t] \ rows' : a \in dirty'[t] /\ seen'[t][a] \subseteq Found(t, a, Upserted(t))'
  BY DEF Data, Found
<1>q. QED
  BY <1>1, <1>2, <1>3 DEF Data

(* A transaction that has ended. *)
LEMMA EndedData ==
  ASSUME NEW t \in Ingest, held'[t] = {}, dirty'[t] = {}, seen'[t] = [a \in Asset |-> {}],
         pc'[t] # "insert"
  PROVE  Data(t)'
BY DEF Data

(* The finds up to the one an ingest is at. *)
LEMMA FoundNext ==
  ASSUME TypeOK, NEW t \in Ingest, NEW a
  PROVE  /\ Found(t, a, at[t]) =
              IF a = Key(t) THEN Found(t, a, at[t] - 1) \cup Now(t).meta ELSE Found(t, a, at[t] - 1)
         /\ a \notin AssetsTo(t, at[t] - 1) => Found(t, a, at[t] - 1) = {}
<1>1. at[t] \in Nat \ {0} /\ Now(t).meta \subseteq MetaKey
  BY NowType
<1>2. 1 .. at[t] = (1 .. (at[t] - 1)) \cup {at[t]}
  BY <1>1
<1>3. Found(t, a, at[t]) = Found(t, a, at[t] - 1)
                             \cup {k \in MetaKey : plan[t][at[t]].asset = a /\ k \in plan[t][at[t]].meta}
  BY <1>2 DEF Found
<1>4. a \notin AssetsTo(t, at[t] - 1) => Found(t, a, at[t] - 1) = {}
  BY DEF Found, AssetsTo
<1>q. QED
  BY <1>1, <1>3, <1>4 DEF Key, Now

(* Where an ingest goes after an upsert. *)
LEMMA AfterUpsertGoes ==
  ASSUME TypeOK, NEW t \in Ingest, AfterUpsert(t)
  PROVE  \/ pc'[t] \in {"select_link", "commit"} /\ at'[t] = at[t]
         \/ pc'[t] = "select" /\ at'[t] = at[t] + 1
<1>1. pc \in [Ingest -> Labels] /\ at \in [Ingest -> Nat]
  BY DEF TypeOK
<1>2. CASE NextFind(t)
  BY <1>1, <1>2 DEF NextFind, Goto
<1>3. CASE Goto(t, "select_link") /\ UNCHANGED at
  BY <1>1, <1>3 DEF Goto
<1>q. QED
  BY <1>2, <1>3 DEF AfterUpsert

(* An upsert: what it now knows of its asset is what it knew and what it has  *)
(* just found; of one it inserts, only that.                                  *)
LEMMA UpsertData ==
  ASSUME IInv, NEW t \in Ingest, Data(t), pc[t] \in {"update", "insert"}, ~ProgramGone,
         UNCHANGED <<plan, rows, committed>>, AfterUpsert(t),
         held' = [held EXCEPT ![t] = @ \cup {Key(t)}],
         NEW known \in SUBSET MetaKey,
         known \subseteq Graph!Brought(Key(t), committed \cup {t}),
         Key(t) \in held[t] => known = seen[t][Key(t)],
         Key(t) \notin held[t] \cup rows => known = {},
         seen' = [seen EXCEPT ![t][Key(t)] = known \cup Now(t).meta],
         dirty' \in {dirty, [dirty EXCEPT ![t] = @ \cup {Key(t)}]},
         dirty' = dirty => Key(t) \in rows \/ Key(t) \in dirty[t]
  PROVE  Data(t)'
<1> DEFINE key == Key(t)
           n == at[t] - 1
<1>1. TypeOK /\ Phase(t) /\ key \in Asset /\ Now(t).meta \subseteq MetaKey
  BY NowType DEF IInv
<1>2. held[t] = AssetsTo(t, n) /\ Upserted(t) = n
  BY <1>1 DEF Phase, Active, Upserted, AtLink
<1>3. Upserted(t)' = at[t]
  <2>1. \/ pc'[t] \in {"select_link", "commit"} /\ at'[t] = at[t]
        \/ pc'[t] = "select" /\ at'[t] = at[t] + 1
    BY <1>1, AfterUpsertGoes
  <2>2. at[t] \in Nat
    BY <1>1 DEF TypeOK
  <2>q. QED
    BY <2>1, <2>2 DEF Upserted, AtLink
<1>4. /\ held'[t] = held[t] \cup {key} /\ dirty'[t] \subseteq dirty[t] \cup {key} /\ dirty[t] \subseteq dirty'[t]
      /\ key \in rows \cup dirty'[t]
      /\ seen'[t][key] = known \cup Now(t).meta /\ \A a \in Asset \ {key} : seen'[t][a] = seen[t][a]
  BY <1>1 DEF TypeOK
<1>5. \A a : Found(t, a, Upserted(t))' = Found(t, a, at[t])
  BY <1>3 DEF Found
<1>6. Now(t).meta \subseteq Graph!Brought(key, committed \cup {t})
  BY <1>1, NowType DEF Graph!Brought, Now, Key
<1>7. \A a \in Asset : seen'[t][a] \subseteq Graph!Brought(a, committed \cup {t})'
  <2>1. \A a \in Asset : seen'[t][a] \subseteq Graph!Brought(a, committed \cup {t})
    BY <1>4, <1>6 DEF Data
  <2>q. QED
    BY <2>1, BroughtKept
<1>8. Found(t, key, n) \subseteq known
  <2>1. CASE key \in held[t]
    BY <1>2, <2>1 DEF Data
  <2>2. CASE key \notin held[t]
    BY <1>1, <1>2, <2>2, FoundNext
  <2>q. QED
    BY <2>1, <2>2
<1>9. ASSUME NEW a \in held'[t] PROVE Found(t, a, at[t]) \subseteq seen'[t][a]
  <2>0. a \in Asset
    BY <1>1, <1>4 DEF TypeOK
  <2>1. CASE a = key
    BY <1>1, <1>4, <1>8, <2>1, FoundNext
  <2>2. CASE a # key
    BY <1>1, <1>2, <1>4, <2>0, <2>2, FoundNext DEF Data
  <2>q. QED
    BY <2>1, <2>2
<1>10. ASSUME NEW a \in held'[t] \ rows
       PROVE  a \in dirty'[t] /\ seen'[t][a] \subseteq Found(t, a, at[t])
  <2>0. a \in Asset
    BY <1>1, <1>4 DEF TypeOK
  <2>1. CASE a = key
    <3>1. known \subseteq Found(t, key, n)
      BY <1>2, <2>1 DEF Data
    <3>q. QED
      BY <1>1, <1>4, <2>1, <3>1, FoundNext
  <2>2. CASE a # key
    BY <1>1, <1>2, <1>4, <2>0, <2>2, FoundNext DEF Data
  <2>q. QED
    BY <2>1, <2>2
<1>11. pc'[t] # "insert"
  BY <1>1 DEF AfterUpsert, NextFind, Goto, TypeOK
<1>13. /\ \A a \in held'[t] : Found(t, a, Upserted(t))' \subseteq seen'[t][a]
       /\ \A a \in held'[t] \ rows' : a \in dirty'[t] /\ seen'[t][a] \subseteq Found(t, a, Upserted(t))'
  BY <1>5, <1>9, <1>10
<1>12. dirty'[t] \subseteq held'[t]
  BY <1>4 DEF Data
<1>q. QED
  BY <1>7, <1>11, <1>12, <1>13 DEF Data

LEMMA SelectData ==
  ASSUME IInv, DataInv, NEW t \in Ingest, SelectAsset(t)
  PROVE  Data(t)'
<1> USE DEF SelectAsset, restVars, delVars, store
<1>1. TypeOK /\ Data(t) /\ Key(t) \in Asset
  BY NowType DEF IInv, DataInv
<1>2. /\ pc[t] = "select" /\ pc'[t] \in {"update", "insert"} /\ at' = at /\ plan' = plan
      /\ held' = held /\ dirty' = dirty /\ rows' = rows /\ committed' = committed
      /\ pc'[t] = "insert" => Key(t) \notin held[t]
  BY <1>1 DEF Goto, TypeOK
<1>3. Upserted(t)' = Upserted(t) /\ Key(t)' = Key(t)
  BY <1>2 DEF Upserted, AtLink, Key, Now
<1>4. /\ \A a \in Asset : seen'[t][a] = seen[t][a] \/ (a \notin held[t] /\ seen'[t][a] = meta[a])
  BY <1>1, <1>2 DEF TypeOK
<1>5. \A a \in Asset : seen'[t][a] \subseteq Graph!Brought(a, committed \cup {t})'
  <2>1. \A a \in Asset : meta[a] \subseteq Graph!Brought(a, committed \cup {t})
    BY BroughtGrows DEF DataInv, Known
  <2>2. \A a \in Asset : seen'[t][a] \subseteq Graph!Brought(a, committed \cup {t})
    BY <1>1, <1>4, <2>1 DEF Data
  <2>q. QED
    BY <1>2, <2>2, BroughtKept
<1>6. \A a \in held[t] : seen'[t][a] = seen[t][a]
  BY <1>1, <1>4 DEF TypeOK
<1>7. \A a \in held'[t] : Found(t, a, Upserted(t))' \subseteq seen'[t][a]
  BY <1>1, <1>2, <1>3, <1>6 DEF Data, Found
<1>8. \A a \in held'[t] \ rows' : a \in dirty'[t] /\ seen'[t][a] \subseteq Found(t, a, Upserted(t))'
  BY <1>1, <1>2, <1>3, <1>6 DEF Data, Found
<1>q. QED
  BY <1>1, <1>2, <1>3, <1>5, <1>7, <1>8 DEF Data

LEMMA UpdateData ==
  ASSUME IInv, DataInv, NEW t \in Ingest, UpdateAsset(t)
  PROVE  Data(t)'
<1> DEFINE known == seen[t][Key(t)]
<1>1. TypeOK /\ Data(t) /\ Phase(t) /\ Key(t) \in Asset
  BY NowType DEF IInv, DataInv
<1>2. pc[t] = "update" /\ ~ProgramGone /\ UNCHANGED <<plan, rows, committed>> /\ AfterUpsert(t)
  BY DEF UpdateAsset, restVars, store
<1>3. /\ held' = [held EXCEPT ![t] = @ \cup {Key(t)}]
      /\ seen' = [seen EXCEPT ![t][Key(t)] = known \cup Now(t).meta]
      /\ dirty' \in {dirty, [dirty EXCEPT ![t] = @ \cup {Key(t)}]}
  BY <1>1 DEF UpdateAsset, TypeOK
<1>4. known \in SUBSET MetaKey /\ known \subseteq Graph!Brought(Key(t), committed \cup {t})
  <2>1. known \in SUBSET MetaKey
    BY <1>1 DEF TypeOK
  <2>2. known \subseteq Graph!Brought(Key(t), committed \cup {t})
    BY <1>1 DEF Data
  <2>q. QED
    BY <2>1, <2>2
<1>5. Key(t) \in rows \cup held[t] /\ (Key(t) \in rows \/ Key(t) \in dirty[t])
  BY <1>1, <1>2 DEF Phase, Data
<1> HIDE DEF known
<1>q. QED
  BY <1>1, <1>2, <1>3, <1>4, <1>5, UpsertData DEF known

LEMMA InsertData ==
  ASSUME IInv, DataInv, NEW t \in Ingest, InsertAsset(t)
  PROVE  Data(t)'
<1>1. TypeOK /\ Data(t) /\ Key(t) \in Asset
  BY NowType DEF IInv, DataInv
<1>2. pc[t] = "insert" /\ ~ProgramGone /\ UNCHANGED <<plan, rows, committed>> /\ AfterUpsert(t)
  BY DEF InsertAsset, restVars, store
<1>3. /\ held' = [held EXCEPT ![t] = @ \cup {Key(t)}]
      /\ seen' = [seen EXCEPT ![t][Key(t)] = {} \cup Now(t).meta]
      /\ dirty' = [dirty EXCEPT ![t] = @ \cup {Key(t)}]
  BY DEF InsertAsset
<1>4. Key(t) \notin held[t] /\ (dirty' = dirty => Key(t) \in dirty[t])
  BY <1>1, <1>2, <1>3 DEF Data, TypeOK
<1>5. PICK known \in SUBSET MetaKey : known = {}
  OBVIOUS
<1>6. /\ known \subseteq Graph!Brought(Key(t), committed \cup {t})
      /\ seen' = [seen EXCEPT ![t][Key(t)] = known \cup Now(t).meta]
      /\ dirty' \in {dirty, [dirty EXCEPT ![t] = @ \cup {Key(t)}]}
  BY <1>3, <1>5
<1>7. (Key(t) \in held[t] => known = seen[t][Key(t)]) /\ (Key(t) \notin held[t] \cup rows => known = {})
  BY <1>4, <1>5
<1>q. QED
  BY <1>1, <1>2, <1>3, <1>4, <1>6, <1>7, UpsertData

LEMMA LinkData ==
  ASSUME IInv, DataInv, NEW t \in Ingest, Begin(t) \/ SelectLink(t) \/ InsertLink(t) \/ FailsLater(t)
  PROVE  Data(t)'
<1>1. TypeOK /\ Data(t) /\ Phase(t)
  BY DEF IInv, DataInv
<1>2. UNCHANGED <<plan, rows, committed, held, seen, dirty>>
  BY DEF Begin, SelectLink, InsertLink, FailsLater, restVars, store, txnVars
<1>3. pc \in [Ingest -> Labels] /\ at \in [Ingest -> Nat]
  BY <1>1 DEF TypeOK
<1>4. CASE Begin(t)
  <2>1. /\ pc[t] = "begin" /\ at' = at
        /\ pc'[t] = "select" \/ (pc'[t] = "commit" /\ ProgramGone)
    BY <1>3, <1>4 DEF Begin, Goto
  <2>2. held[t] = {} \/ Upserted(t)' = Upserted(t)
    BY <1>1, <2>1 DEF Phase, Upserted, AtLink
  <2>q. QED
    BY <1>1, <1>2, <2>1, <2>2, QuietData
<1>5. CASE SelectLink(t) \/ InsertLink(t)
  <2>1. pc[t] \in AtLink
    BY <1>5 DEF SelectLink, InsertLink, AtLink
  <2>2. NextFind(t) \/ (Goto(t, "insert_link") /\ at' = at)
    BY <1>5 DEF SelectLink, InsertLink
  <2>3. \/ pc'[t] \in {"insert_link", "commit"} /\ at'[t] = at[t]
        \/ pc'[t] = "select" /\ at'[t] = at[t] + 1
    BY <1>3, <2>2 DEF NextFind, Goto
  <2>4. Upserted(t)' = Upserted(t)
    BY <1>3, <2>1, <2>3 DEF Upserted, AtLink
  <2>q. QED
    BY <1>1, <1>2, <2>3, <2>4, QuietData
<1>6. CASE FailsLater(t)
  <2>1. held[t] = {} /\ pc'[t] \in {"begin", "failed"}
    BY <1>1, <1>3, <1>6 DEF FailsLater, Restart, Goto, Phase, Active
  <2>q. QED
    BY <1>1, <1>2, <2>1, QuietData
<1>q. QED
  BY <1>4, <1>5, <1>6

(* The attempts that fail. *)
Aborting(t) == Conflict(t) \/ NotFound(t) \/ Victim(t) \/ Fails(t) \/ Crash(t)

LEMMA ReleaseData ==
  ASSUME IInv, DataInv, NEW t \in Ingest, Aborting(t) \/ Commit(t)
  PROVE  Data(t)'
<1>1. Release(t) /\ pc'[t] \in {"begin", "failed", "done"}
  BY DEF Aborting, Conflict, NotFound, Victim, Fails, Crash, Commit, Abort, Restart, Goto, IInv, TypeOK
<1>2. held'[t] = {} /\ dirty'[t] = {} /\ seen'[t] = [a \in Asset |-> {}]
  BY <1>1 DEF Release, IInv, TypeOK
<1>q. QED
  BY <1>1, <1>2, EndedData

(* An ingest's steps leave the others alone. *)
LEMMA OthersStay ==
  ASSUME TypeOK, NEW t \in Ingest, Statement(t) \/ Aborting(t) \/ FailsLater(t), NEW u \in Ingest \ {t}
  PROVE  /\ pc'[u] = pc[u] /\ at'[u] = at[u]
         /\ held'[u] = held[u] /\ seen'[u] = seen[u] /\ dirty'[u] = dirty[u]
<1>1. pc'[u] = pc[u] /\ at'[u] = at[u]
  BY DEF Statement, Begin, SelectAsset, UpdateAsset, InsertAsset, SelectLink, InsertLink, Commit,
     Conflict, NotFound, Aborting, Victim, Fails, Crash, FailsLater, Abort, Restart, NextFind,
     AfterUpsert, Goto, TypeOK
<1>2. held'[u] = held[u] /\ dirty'[u] = dirty[u]
  BY DEF Statement, Begin, SelectAsset, UpdateAsset, InsertAsset, SelectLink, InsertLink, Commit,
     Conflict, NotFound, Aborting, Victim, Fails, Crash, FailsLater, Abort, Release, txnVars, TypeOK
<1>3. seen'[u] = seen[u]
  BY DEF Statement, Begin, SelectAsset, UpdateAsset, InsertAsset, SelectLink, InsertLink, Commit,
     Conflict, NotFound, Aborting, Victim, Fails, Crash, FailsLater, Abort, Release, txnVars, TypeOK
<1>q. QED
  BY <1>1, <1>2, <1>3

(* What everyone sees is only changed by commits. *)
visible == <<plan, rows, meta, rels, committed, ProgramGone>>

LEMMA OnlyCommits ==
  ASSUME [Next]_vars
  PROVE  UNCHANGED visible \/ CommitDelete \/ \E t \in Ingest : Commit(t)
<1>1. ASSUME NEW t \in Ingest, Statement(t), ~Commit(t) PROVE UNCHANGED visible
  BY <1>1 DEF Statement, Begin, SelectAsset, UpdateAsset, InsertAsset, SelectLink, InsertLink,
     Conflict, NotFound, Abort, restVars, store, delVars, visible, ProgramGone
<1>2. ASSUME NEW t \in Ingest, Victim(t) \/ Fails(t) \/ Crash(t) \/ FailsLater(t) PROVE UNCHANGED visible
  BY <1>2 DEF Victim, Fails, Crash, FailsLater, Abort, restVars, store, delVars, visible, ProgramGone
<1>3. CASE LoadAssets \/ DeleteAsset \/ DeleteProgram
  <2>1. UNCHANGED <<plan, rows, meta, rels, committed>>
    BY <1>3 DEF LoadAssets, DeleteAsset, DeleteProgram, restVars, store
  <2>2. ~ProgramGone /\ ~ProgramGone'
    BY <1>3 DEF LoadAssets, DeleteAsset, DeleteProgram, DeleteThese, ProgramGone
  <2>3. ProgramGone' = ProgramGone
    BY <2>2 DEF ProgramGone
  <2>q. QED
    BY <2>1, <2>3 DEF visible
<1>4. CASE RollBackDelete
  <2>1. UNCHANGED <<plan, rows, meta, rels, committed>>
    BY <1>4 DEF RollBackDelete, restVars, store
  <2>2. ~ProgramGone /\ ~ProgramGone'
    BY <1>4 DEF RollBackDelete, Deleting, EndDelete, ProgramGone
  <2>3. ProgramGone' = ProgramGone
    BY <2>2 DEF ProgramGone
  <2>q. QED
    BY <2>1, <2>3 DEF visible
<1>5. CASE UNCHANGED vars
  BY <1>5 DEF vars, store, restVars, delVars, visible, ProgramGone
<1>q. QED
  BY <1>1, <1>2, <1>3, <1>4, <1>5
     DEF Next, Terminating, DeleteStatement, DeletionVictim, DeleteFails

LEMMA CommitKnown ==
  ASSUME IInv, DataInv, NEW t \in Ingest, Commit(t)
  PROVE  Known'
<1>1. plan' = plan /\ committed' = committed \cup {t}
  BY DEF Commit, restVars
<1>2. \A a \in Asset : meta'[a] = meta[a] \/ meta'[a] = seen[t][a]
  BY DEF Commit
<1>3. ASSUME NEW a \in Asset PROVE meta'[a] \subseteq Graph!Brought(a, committed')
  <2>1. meta[a] \subseteq Graph!Brought(a, committed')
    BY <1>1, BroughtGrows DEF DataInv, Known
  <2>2. seen[t][a] \subseteq Graph!Brought(a, committed')
    BY <1>1 DEF DataInv, Data
  <2>q. QED
    BY <1>2, <2>1, <2>2
<1>q. QED
  BY <1>1, <1>3 DEF Known, Graph!Brought

LEMMA StepData == IInv /\ IInv' /\ DataInv /\ [Next]_vars => DataInv'
<1> SUFFICES ASSUME IInv, IInv', DataInv, [Next]_vars PROVE DataInv'
  OBVIOUS
<1>1. Known'
  <2>1. CASE UNCHANGED visible
    BY <2>1 DEF visible, DataInv, Known, Graph!Brought
  <2>2. CASE CommitDelete
    <3>1. \A a \in Asset : meta'[a] \subseteq meta[a]
      BY <2>2 DEF CommitDelete
    <3>q. QED
      BY <2>2, <3>1 DEF CommitDelete, restVars, DataInv, Known, Graph!Brought
  <2>q. QED
    BY <2>1, <2>2, OnlyCommits, CommitKnown
<1>2. plan' = plan /\ committed \subseteq committed' /\ (rows \subseteq rows' \/ CommitDelete)
  BY OnlyCommits DEF visible, Commit, CommitDelete, restVars
<1>3. ASSUME NEW t \in Ingest, Statement(t) \/ Aborting(t) \/ FailsLater(t), NEW u \in Ingest
      PROVE  Data(u)'
  <2>1. CASE u = t
    BY <1>3, <2>1, SelectData, UpdateData, InsertData, LinkData, ReleaseData DEF Statement, Aborting
  <2>2. CASE u # t
    <3>1. rows \subseteq rows'
      BY <1>3 DEF Statement, Begin, SelectAsset, UpdateAsset, InsertAsset, SelectLink, InsertLink,
         Commit, Conflict, NotFound, Aborting, Victim, Fails, Crash, FailsLater, Abort, store
    <3>q. QED
      BY <1>2, <1>3, <2>2, <3>1, OthersStay, OtherData DEF IInv, DataInv
  <2>q. QED
    BY <2>1, <2>2
<1>4. CASE UNCHANGED <<pc, at, txnVars>>
  <2>1. ASSUME NEW u \in Ingest PROVE held[u] = {} \/ rows \subseteq rows'
    <3>1. CASE CommitDelete
      <4>1. held'[u] = {}
        BY <3>1 DEF CommitDelete, EndDelete, IInv, Phase, ProgramGone
      <4>q. QED
        BY <1>4, <4>1 DEF txnVars
    <3>q. QED
      BY <1>2, <3>1
  <2>2. ASSUME NEW u \in Ingest PROVE Data(u)'
    BY <1>2, <1>4, <2>1, OtherData DEF txnVars, DataInv
  <2>q. QED
    BY <1>1, <2>2 DEF DataInv
<1>5. DeleteStatement \/ DeletionVictim \/ DeleteFails \/ UNCHANGED vars => UNCHANGED <<pc, at, txnVars>>
  BY DEF DeleteStatement, LoadAssets, DeleteAsset, DeleteProgram, CommitDelete, DeletionVictim,
     DeleteFails, RollBackDelete, vars, txnVars
<1>q. QED
  BY <1>1, <1>3, <1>4, <1>5 DEF DataInv, Next, Terminating, Aborting

LEMMA InitData == Init => DataInv
<1> SUFFICES ASSUME Init PROVE DataInv
  OBVIOUS
<1>1. Known
  BY DEF Init, Known
<1>2. ASSUME NEW t \in Ingest PROVE Data(t)
  BY DEF Init, Data
<1>q. QED
  BY <1>1, <1>2 DEF DataInv

-----------------------------------------------------------------------------
(* A commit stores the whole ingest, or nothing once the program is gone. *)
LEMMA CommitStores ==
  ASSUME IInv, DataInv, NEW t \in Ingest, Commit(t)
  PROVE  Graph!Store(t) \/ Graph!StoreNothing(t)
<1>1. /\ TypeOK /\ Phase(t) /\ Data(t) /\ pc[t] = "commit"
      /\ rows' = rows \cup held[t] /\ rels' = rels \cup links[t] /\ committed' = committed \cup {t}
      /\ meta' = [a \in Asset |-> IF a \in dirty[t] THEN seen[t][a] ELSE meta[a]]
      /\ plan' = plan /\ delPc' = delPc
  BY DEF IInv, DataInv, Commit, restVars, delVars
<1>2. CASE ProgramGone
  <2>1. held[t] = {} /\ links[t] = {} /\ dirty[t] = {}
    BY <1>1, <1>2 DEF Phase, Data
  <2>2. meta' = meta
    BY <1>1, <2>1 DEF TypeOK
  <2>q. QED
    BY <1>1, <1>2, <2>1, <2>2 DEF Graph!StoreNothing, ProgramGone
<1>3. CASE ~ProgramGone
  <2>1. at[t] = Len(plan[t]) /\ Upserted(t) = at[t] /\ Linked(t) = at[t]
    BY <1>1, <1>3 DEF Phase, Upserted, Linked
  <2>2. held[t] = Graph!Assets(plan[t])
    BY <1>1, <1>3, <2>1 DEF Phase, Active, AssetsTo, Graph!Assets
  <2>3. rels' = rels \cup Graph!Edges(plan[t])
    <3>1. Graph!Edges(plan[t]) \subseteq rels \cup links[t]
      BY <1>1, <1>3, <2>1 DEF Phase, Active, LinkedTo, Graph!Edges
    <3>2. links[t] \subseteq Graph!Edges(plan[t])
      BY <1>1 DEF Phase, OwnLinks, Edges, Graph!Edges
    <3>q. QED
      BY <1>1, <3>1, <3>2
  <2>4. \A a : Found(t, a, Upserted(t)) = Graph!Brought(a, {t})
    BY <2>1 DEF Found, Graph!Brought
  <2>5. meta' \in [Asset -> SUBSET MetaKey]
    BY <1>1 DEF TypeOK
  <2>6. \A a \in Asset \ held[t] : meta'[a] = meta[a]
    BY <1>1 DEF Data
  <2>7. \A a \in held[t] \ rows : meta'[a] = Graph!Brought(a, {t})
    <3>1. ASSUME NEW a \in held[t] \ rows PROVE meta'[a] = Graph!Brought(a, {t})
      <4>1. a \in Asset /\ a \in dirty[t] /\ seen[t][a] \subseteq Found(t, a, Upserted(t))
        BY <1>1, <3>1 DEF Data, TypeOK
      <4>2. Found(t, a, Upserted(t)) \subseteq seen[t][a] /\ meta'[a] = seen[t][a]
        BY <1>1, <3>1, <4>1 DEF Data
      <4>q. QED
        <5>1. meta'[a] \subseteq Graph!Brought(a, {t}) /\ Graph!Brought(a, {t}) \subseteq meta'[a]
          BY <2>4, <4>1, <4>2
        <5>q. QED
          BY <5>1
    <3>q. QED
      BY <3>1
  <2>8. \A a \in held[t] \cap rows : meta'[a] = meta[a] \/ Graph!Rewritten(t, a, meta'[a])
    BY <1>1, <2>4 DEF Data, Graph!Rewritten, TypeOK
  <2>9. UNCHANGED ProgramGone
    BY <1>1 DEF ProgramGone
  <2>q. QED
    BY <1>1, <1>3, <2>2, <2>3, <2>5, <2>6, <2>7, <2>8, <2>9 DEF Graph!Store
<1>q. QED
  BY <1>2, <1>3

(* The deletion takes everything. *)
LEMMA CommitDeletes ==
  ASSUME IInv, IInv', DataInv, CommitDelete
  PROVE  Graph!Delete
<1>1. ~ProgramGone /\ ProgramGone' /\ rows = doomed
  BY DEF CommitDelete, EndDelete, ProgramGone, IInv, Erasing, ProgramLocked
<1>2. rows' = {} /\ rels' = {}
  BY <1>1 DEF IInv, IngestExact
<1>3. ASSUME NEW a \in Asset \ rows PROVE meta[a] = {}
  <2>1. ASSUME NEW k \in meta[a] PROVE FALSE
    <3>1. PICK t \in committed : \E i \in 1 .. Len(plan[t]) : plan[t][i].asset = a
      BY <2>1 DEF DataInv, Known, Graph!Brought
    <3>2. a \in Assets(plan[t])
      BY <3>1 DEF Assets
    <3>q. QED
      BY <1>1, <1>3, <3>2 DEF IInv, IngestExact
  <2>q. QED
    BY <2>1
<1>4. meta' = [a \in Asset |-> {}]
  BY <1>1, <1>3 DEF CommitDelete
<1>q. QED
  BY <1>1, <1>2, <1>4 DEF Graph!Delete, CommitDelete, restVars

LEMMA GraphInit == Init => Graph!Init
<1> SUFFICES ASSUME Init PROVE Graph!Init
  OBVIOUS
<1>1. ASSUME NEW t \in Ingest, NEW i \in 1 .. Len(plan[t]) PROVE plan[t][i].parent \in rows \cup {NoParent}
  BY DEF Init, Parents
<1>2. rows \subseteq Asset
  BY AssetStoreAssumption DEF Init
<1>q. QED
  BY <1>1, <1>2 DEF Init, Graph!Init, ProgramGone

(* An ingest of many statements is one step, whatever runs beside it:       *)
(* AssetStore implements GraphStore.                                        *)
THEOREM RefinesGraphStore == Spec => ImplementsGraphStore
<1>1. IInv /\ IInv' /\ DataInv /\ [Next]_vars => [Graph!Next]_visible
  <2> SUFFICES ASSUME IInv, IInv', DataInv, [Next]_vars PROVE [Graph!Next]_visible
    OBVIOUS
  <2>1. CASE UNCHANGED visible
    BY <2>1
  <2>2. CASE CommitDelete
    BY <2>2, CommitDeletes DEF Graph!Next
  <2>3. ASSUME NEW t \in Ingest, Commit(t) PROVE Graph!Next
    BY <2>3, CommitStores DEF Graph!Next
  <2>q. QED
    BY <2>1, <2>2, <2>3, OnlyCommits
<1>q. QED
  BY GraphInit, Inductive, InitData, StepData, <1>1, PTL
     DEF Spec, ImplementsGraphStore, Graph!Spec, visible
=============================================================================
