----------------------------- MODULE GraphStore -----------------------------
(***************************************************************************)
(* What the asset store promises to those who bring finds, without rows,   *)
(* locks, conflicts and attempts: an ingest's assets and relations appear  *)
(* at once and all of them, none ever goes away but by the deletion of the *)
(* program, which takes everything at once, and a new asset comes with the *)
(* metadata its ingest found.  Of the metadata of a known one keys may be  *)
(* lost, but none is made up.  AssetStore implements it.                   *)
(***************************************************************************)
EXTENDS Integers, Sequences

CONSTANTS Ingest, Asset, NoParent, MetaKey

VARIABLES
  plan,             \* of an ingest: its finds
  rows, meta, rels, \* the assets, their metadata keys, the relations
  committed,        \* ingests that have been stored
  gone              \* whether the program has been deleted

Assets(p) == {p[i].asset : i \in 1 .. Len(p)}

Edges(p) == {<<p[i].parent, p[i].asset>> : i \in {j \in 1 .. Len(p) : p[j].parent # NoParent}}

(* The metadata keys that ingests T bring for asset a. *)
Brought(a, T) ==
  {k \in MetaKey : \E t \in T : \E i \in 1 .. Len(plan[t]) : plan[t][i].asset = a /\ k \in plan[t][i].meta}

Init ==
  /\ rows \subseteq Asset /\ meta = [a \in Asset |-> {}] /\ rels = {}
  /\ \A t \in Ingest : \A i \in 1 .. Len(plan[t]) : plan[t][i].parent \in rows \cup {NoParent}
  /\ committed = {} /\ gone = FALSE

(* The metadata of a known asset stays, or is written as a whole: what t has  *)
(* found is in it, of what others have brought it may have missed something.  *)
Rewritten(t, a, keys) == Brought(a, {t}) \subseteq keys /\ keys \subseteq Brought(a, committed \cup {t})

Store(t) ==
  /\ ~gone
  /\ rows' = rows \cup Assets(plan[t]) /\ rels' = rels \cup Edges(plan[t])
  /\ meta' \in [Asset -> SUBSET MetaKey]
  /\ \A a \in Asset \ Assets(plan[t]) : meta'[a] = meta[a]
  /\ \A a \in Assets(plan[t]) \ rows : meta'[a] = Brought(a, {t})
  /\ \A a \in Assets(plan[t]) \cap rows : meta'[a] = meta[a] \/ Rewritten(t, a, meta'[a])
  /\ committed' = committed \cup {t}
  /\ UNCHANGED <<plan, gone>>

(* A batch whose parents are gone is done without having stored anything. *)
StoreNothing(t) ==
  /\ gone
  /\ committed' = committed \cup {t}
  /\ UNCHANGED <<plan, rows, meta, rels, gone>>

Delete ==
  /\ ~gone /\ gone' = TRUE
  /\ rows' = {} /\ meta' = [a \in Asset |-> {}] /\ rels' = {}
  /\ UNCHANGED <<plan, committed>>

Next == Delete \/ \E t \in Ingest : Store(t) \/ StoreNothing(t)

Spec == Init /\ [][Next]_<<plan, rows, meta, rels, committed, gone>>
=============================================================================
