---------------------------- MODULE HierarchyTree ----------------------------
(***************************************************************************)
(* build_hierarchical_graph of services/asset_service.py: the depth-first  *)
(* walk that turns a program's assets and relations into discovery trees   *)
(* and a flat list of orphans.  link_assets refuses self-links only, so    *)
(* any other directed graph may be stored.  Children and root domains are  *)
(* taken in an order that depends on asset values; the walk is modelled    *)
(* for every such order.                                                   *)
(***************************************************************************)
EXTENDS Integers, Sequences, FiniteSets

CONSTANTS
  Asset,           \* the assets of one program
  DomainAsset,     \* those of type DOMAIN
  RecursionLimit,  \* nested calls before Python raises RecursionError
  MaxEdges         \* bound on the relations of the enumerated graphs

ASSUME TreeAssumption ==
  /\ IsFiniteSet(Asset)
  /\ DomainAsset \subseteq Asset
  /\ RecursionLimit \in Nat \ {0}

VARIABLES
  edges,    \* stored relations <<parent, type, child>>
  phase,    \* "roots", "done" or "error"
  todo,     \* root domains the loop has still to look at
  visited,  \* assets some call of build_subtree was made for
  stack,    \* calls in progress: the asset and the edges it has still to follow
  rootsOut, \* roots_out: the top-level trees in their order
  orphans   \* the flat list

vars == <<edges, phase, todo, visited, stack, rootsOut, orphans>>

Relation == {e \in Asset \X {"contains", "other"} \X Asset : e[1] # e[3]}

(* Mutant: only "contains" relations are followed. *)
OutgoingContains(a) == {e \in edges : e[1] = a /\ e[2] = "contains"}

Outgoing(a)  == {e \in edges : e[1] = a}
RootDomains  == {a \in DomainAsset : \A e \in edges : ~(e[2] = "contains" /\ e[3] = a)}

Init ==
  /\ \E k \in 0 .. MaxEdges : edges \in {E \in SUBSET Relation : Cardinality(E) = k}
  /\ phase = "roots" /\ todo = RootDomains
  /\ visited = {} /\ stack = <<>> /\ rootsOut = <<>> /\ orphans = {}

Top == stack[Len(stack)]

(* Mutant: the asset is not marked on entry. *)
CallUnmarked(rest, a) ==
  /\ visited' = visited
  /\ stack' = Append(rest, [asset |-> a, todo |-> Outgoing(a)])

(* build_subtree(a): mark, then follow every outgoing relation. *)
Call(rest, a) ==
  /\ visited' = visited \cup {a}
  /\ stack' = Append(rest, [asset |-> a, todo |-> Outgoing(a)])

SkipRoot(a) ==
  /\ phase = "roots" /\ stack = <<>> /\ a \in todo /\ a \in visited
  /\ todo' = todo \ {a}
  /\ UNCHANGED <<edges, phase, visited, stack, rootsOut, orphans>>

(* Mutant: a root gets a tree of its own though an earlier one shows it. *)
StartAnyRoot(a) ==
  /\ phase = "roots" /\ stack = <<>> /\ a \in todo
  /\ todo' = todo \ {a}
  /\ rootsOut' = Append(rootsOut, a)
  /\ Call(<<>>, a)
  /\ UNCHANGED <<edges, phase, orphans>>

StartRoot(a) ==
  /\ phase = "roots" /\ stack = <<>> /\ a \in todo /\ a \notin visited
  /\ todo' = todo \ {a}
  /\ rootsOut' = Append(rootsOut, a)
  /\ Call(<<>>, a)
  /\ UNCHANGED <<edges, phase, orphans>>

(* The recursive call is made for every child, visited or not. *)
Descend(e) ==
  /\ phase = "roots" /\ stack # <<>> /\ e \in Top.todo
  /\ Len(stack) < RecursionLimit
  /\ Call([stack EXCEPT ![Len(stack)].todo = @ \ {e}], e[3])
  /\ UNCHANGED <<edges, phase, todo, rootsOut, orphans>>

TooDeep ==
  /\ phase = "roots" /\ stack # <<>> /\ Top.todo # {}
  /\ Len(stack) = RecursionLimit
  /\ phase' = "error"
  /\ UNCHANGED <<edges, todo, visited, stack, rootsOut, orphans>>

LeaveAsset ==
  /\ phase = "roots" /\ stack # <<>> /\ Top.todo = {}
  /\ stack' = SubSeq(stack, 1, Len(stack) - 1)
  /\ UNCHANGED <<edges, phase, todo, visited, rootsOut, orphans>>

CollectOrphans ==
  /\ phase = "roots" /\ stack = <<>> /\ todo = {}
  /\ orphans' = Asset \ visited
  /\ phase' = "done"
  /\ UNCHANGED <<edges, todo, visited, stack, rootsOut>>

Terminating == phase \in {"done", "error"} /\ UNCHANGED vars

Next ==
  \/ \E a \in Asset : SkipRoot(a) \/ StartRoot(a)
  \/ \E e \in Relation : Descend(e)
  \/ TooDeep \/ LeaveAsset \/ CollectOrphans
  \/ Terminating

Spec == Init /\ [][Next]_vars

-----------------------------------------------------------------------------
(* A set of assets no relation leads out of. *)
Closed(S) == \A e \in edges : e[1] \in S => e[3] \in S

(* What a tree that starts at r shows: every closed set around r has it. *)
Shows(r, a) == \A S \in SUBSET Asset : r \in S /\ Closed(S) => a \in S

(* What can be reached from the root domains: the least closed set around them. *)
Reachable == {a \in Asset : \A S \in SUBSET Asset : RootDomains \subseteq S /\ Closed(S) => a \in S}

(* Assets on a cycle, or leading to one, inside S. *)
HasCycle(S) == \E C \in SUBSET S : C # {} /\ \A a \in C : \E e \in edges : e[1] = a /\ e[3] \in C

(* Calls in progress form a path of the stored graph. *)
TypeOK ==
  /\ edges \subseteq Relation
  /\ phase \in {"roots", "done", "error"}
  /\ todo \subseteq RootDomains /\ rootsOut \in Seq(RootDomains)
  /\ visited \subseteq Asset /\ orphans \subseteq Asset
  /\ Len(stack) <= RecursionLimit
  /\ \A i \in 1 .. Len(stack) : stack[i].asset \in visited /\ stack[i].todo \subseteq Outgoing(stack[i].asset)
  /\ \A i \in 1 .. Len(stack) - 1 :
       \E e \in edges : e[1] = stack[i].asset /\ e[3] = stack[i + 1].asset

(* The orphans are exactly the assets no root DOMAIN reaches: skipping the  *)
(* roots already visited loses nothing, and nothing is listed twice.        *)
OrphansAreUnreachable == phase = "done" => orphans = Asset \ Reachable

(* The walk fails exactly on the graphs in which a root reaches a cycle;    *)
(* on the others it is never deeper than the assets are many, however often *)
(* it enters a shared subtree.                                              *)
OnlyCyclesFail ==
  /\ phase = "error" => HasCycle(Reachable)
  /\ phase = "done"  => ~HasCycle(Reachable)
  /\ ~HasCycle(Reachable) => Len(stack) <= Cardinality(Asset)

(* Which root domains get a tree of their own depends on the order they are *)
(* taken in, as one may lead to another by any relation but "contains".  In *)
(* every order none starts a tree that an earlier tree already shows, so no *)
(* subtree is doubled at the top level; and a root passed over is shown, as *)
(* is whatever was visited, below some top-level tree.                      *)
RootsAccounted ==
  /\ \A i, j \in 1 .. Len(rootsOut) : i < j => ~Shows(rootsOut[i], rootsOut[j])
  /\ phase = "done" =>
       /\ RootDomains \subseteq visited
       /\ \A a \in visited : \E i \in 1 .. Len(rootsOut) : Shows(rootsOut[i], a)

=============================================================================
