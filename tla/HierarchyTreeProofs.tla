------------------------ MODULE HierarchyTreeProofs ------------------------
(***************************************************************************)
(* Proofs about build_hierarchical_graph for every set of assets and       *)
(* relations: what it returns when it returns (the orphans are exactly the *)
(* assets no root domain reaches, all others hang below a top-level tree), *)
(* and that nothing but a cycle below a root makes it fail.                *)
(***************************************************************************)
EXTENDS HierarchyTree, SequenceTheorems, FiniteSetTheorems, TLAPS

(* An edge some call in progress has still to follow. *)
Awaited(e) == \E i \in 1 .. Len(stack) : e \in stack[i].todo

(* A call in progress: its asset and the relations it has still to follow. *)
Frame == [asset : Asset, todo : SUBSET Relation]

(* The calls in progress are about visited assets and follow their edges.   *)
Calls ==
  /\ stack \in Seq(Frame)
  /\ \A i \in 1 .. Len(stack) :
       /\ stack[i].asset \in visited
       /\ stack[i].todo \subseteq Outgoing(stack[i].asset)

(* What is visited is reachable; what it leads to is visited or awaited.    *)
Walk ==
  /\ edges \subseteq Relation
  /\ visited \subseteq Asset
  /\ RootDomains \subseteq todo \cup visited
  /\ todo \subseteq RootDomains
  /\ \A e \in edges : e[1] \in visited => e[3] \in visited \/ Awaited(e)
  /\ visited \subseteq Reachable
  /\ phase = "done" => stack = <<>> /\ todo = {} /\ orphans = Asset \ visited

TreeInv == Calls /\ Walk

(* Pushing a frame after changing the top one. *)
LEMMA PushFrame ==
  ASSUME NEW F, NEW s \in Seq(F), s # <<>>, NEW f \in F, NEW g \in F, NEW t,
         t = Append([s EXCEPT ![Len(s)] = f], g)
  PROVE  /\ t \in Seq(F) /\ Len(t) = Len(s) + 1
         /\ t[Len(s) + 1] = g /\ t[Len(s)] = f
         /\ \A i \in 1 .. Len(s) - 1 : t[i] = s[i]
<1> DEFINE r == [s EXCEPT ![Len(s)] = f]
<1>1. Len(s) \in Nat \ {0}
  OBVIOUS
<1>2. r \in Seq(F) /\ Len(r) = Len(s) /\ r[Len(s)] = f /\ \A i \in 1 .. Len(s) - 1 : r[i] = s[i]
  BY <1>1
<1> HIDE DEF r
<1>3. t = Append(r, g)
  BY DEF r
<1>q. QED
  BY <1>1, <1>2, <1>3

(* Returning drops the top frame. *)
LEMMA PopFrame ==
  ASSUME NEW F, NEW s \in Seq(F), s # <<>>
  PROVE  /\ SubSeq(s, 1, Len(s) - 1) \in Seq(F)
         /\ Len(SubSeq(s, 1, Len(s) - 1)) = Len(s) - 1
         /\ \A i \in 1 .. Len(s) - 1 : SubSeq(s, 1, Len(s) - 1)[i] = s[i]
<1>1. Len(s) \in Nat \ {0}
  OBVIOUS
<1> DEFINE m == Len(s) - 1
           t == SubSeq(s, 1, m)
<1>2. m \in Nat /\ \A i \in 1 .. m : s[i] \in F
  BY <1>1
<1>3. /\ t \in Seq(F) /\ Len(t) = IF 1 <= m THEN m - 1 + 1 ELSE 0
      /\ \A i \in 1 .. m - 1 + 1 : t[i] = s[1 + i - 1]
  <2> HIDE DEF m
  <2>q. QED
    BY <1>2, SubSeqProperties
<1>4. m - 1 + 1 = m /\ (\A i \in 1 .. m : 1 + i - 1 = i) /\ (IF 1 <= m THEN m - 1 + 1 ELSE 0) = m
  <2> HIDE DEF m, t
  <2>q. QED
    BY <1>2
<1>q. QED
  BY <1>3, <1>4

(* Crossing one relation off a call. *)
LEMMA CrossOff ==
  ASSUME NEW r \in Frame, NEW T
  PROVE  [r EXCEPT !.todo = T] = [asset |-> r.asset, todo |-> T]
BY DEF Frame

(* Relations join two different assets. *)
LEMMA EdgeEnds ==
  ASSUME NEW e \in Relation
  PROVE  e[1] \in Asset /\ e[3] \in Asset
BY DEF Relation

(* Reachability is closed under the stored relations. *)
LEMMA ReachableClosed ==
  ASSUME edges \subseteq Relation, NEW e \in edges, e[1] \in Reachable
  PROVE  e[3] \in Reachable
<1>1. e[3] \in Asset
  BY EdgeEnds
<1>2. ASSUME NEW S \in SUBSET Asset, RootDomains \subseteq S, Closed(S) PROVE e[3] \in S
  <2>1. e[1] \in S
    BY <1>2 DEF Reachable
  <2>q. QED
    BY <1>2, <2>1 DEF Closed
<1>q. QED
  BY <1>1, <1>2 DEF Reachable

(* Root domains are reachable. *)
LEMMA RootsReachable == RootDomains \subseteq Reachable
BY TreeAssumption DEF Reachable, RootDomains

(* Nothing is visited at first. *)
LEMMA InitTree == Init => TreeInv
<1> SUFFICES ASSUME Init PROVE TreeInv
  OBVIOUS
<1>1. edges \subseteq Relation
  BY DEF Init
<1>2. Calls
  BY DEF Init, Calls
<1>3. Walk
  BY <1>1 DEF Init, Walk
<1>q. QED
  BY <1>2, <1>3 DEF TreeInv

(* What build_subtree's recursive call does to the calls in progress. *)
LEMMA DescendStack ==
  ASSUME TreeInv, NEW e \in Relation, Descend(e)
  PROVE  LET n == Len(stack)
         IN  /\ n \in Nat \ {0} /\ e \in stack[n].todo /\ stack # <<>>
             /\ visited' = visited \cup {e[3]}
             /\ UNCHANGED <<edges, phase, todo, orphans>> /\ phase = "roots"
             /\ stack' \in Seq(Frame) /\ Len(stack') = n + 1
             /\ stack'[n + 1] = [asset |-> e[3], todo |-> Outgoing(e[3])]
             /\ stack'[n] = [asset |-> stack[n].asset, todo |-> stack[n].todo \ {e}]
             /\ \A i \in 1 .. n - 1 : stack'[i] = stack[i]
<1> USE DEF TreeInv, Calls, Walk, Outgoing
<1> DEFINE n == Len(stack)
           top == [asset |-> stack[n].asset, todo |-> stack[n].todo \ {e}]
           frame == [asset |-> e[3], todo |-> Outgoing(e[3])]
<1>1. /\ n \in Nat \ {0} /\ e \in stack[n].todo /\ stack # <<>>
      /\ visited' = visited \cup {e[3]}
      /\ UNCHANGED <<edges, phase, todo, orphans>> /\ phase = "roots"
  BY DEF Descend, Call, Top
<1>2. e \in edges /\ e[3] \in Asset
  BY <1>1, EdgeEnds
<1>3. n \in 1 .. n /\ stack[n] \in Frame
  BY <1>1
<1>4. top \in Frame /\ frame \in Frame
  BY <1>2, <1>3 DEF Frame
<1>5. [stack[n] EXCEPT !.todo = @ \ {e}] = top
  BY <1>3, CrossOff
<1>6. stack' = Append([stack EXCEPT ![n] = top], frame)
  BY <1>1, <1>5 DEF Descend, Call
<1>7. /\ stack' \in Seq(Frame) /\ Len(stack') = n + 1
      /\ stack'[n + 1] = frame /\ stack'[n] = top
      /\ \A i \in 1 .. n - 1 : stack'[i] = stack[i]
  <2> HIDE DEF top, frame
  <2>q. QED
    BY <1>1, <1>4, <1>6, PushFrame
<1>q. QED
  BY <1>1, <1>7

(* What its return does to them. *)
LEMMA LeaveStack ==
  ASSUME TreeInv, LeaveAsset
  PROVE  LET n == Len(stack)
         IN  /\ n \in Nat \ {0} /\ stack[n].todo = {} /\ stack # <<>>
             /\ UNCHANGED <<edges, phase, todo, visited, orphans>> /\ phase = "roots"
             /\ stack' \in Seq(Frame) /\ Len(stack') = n - 1
             /\ \A i \in 1 .. n - 1 : stack'[i] = stack[i]
<1> DEFINE n == Len(stack)
<1>1. stack \in Seq(Frame)
  BY DEF TreeInv, Calls
<1>2. /\ n \in Nat \ {0} /\ stack[n].todo = {}
      /\ stack' = SubSeq(stack, 1, n - 1) /\ UNCHANGED <<edges, phase, todo, visited, orphans>>
      /\ phase = "roots" /\ stack # <<>>
  BY <1>1 DEF LeaveAsset, Top
<1>3. /\ stack' \in Seq(Frame) /\ Len(stack') = n - 1
      /\ \A i \in 1 .. n - 1 : stack'[i] = stack[i]
  BY ONLY <1>1, <1>2, PopFrame
<1>q. QED
  BY <1>2, <1>3

(* Every step keeps the calls and the walk. *)
LEMMA StepTree == TreeInv /\ [Next]_vars => TreeInv'
<1> SUFFICES ASSUME TreeInv, [Next]_vars PROVE TreeInv'
  OBVIOUS
<1> USE DEF TreeInv, Calls, Walk, Outgoing
<1>0. ASSUME UNCHANGED edges PROVE Reachable' = Reachable /\ RootDomains' = RootDomains
  BY <1>0 DEF Reachable, RootDomains, Closed
<1>1. ASSUME NEW a \in Asset, SkipRoot(a) PROVE TreeInv'
  BY <1>1, <1>0 DEF SkipRoot, Awaited
<1>2. ASSUME NEW a \in Asset, StartRoot(a) PROVE TreeInv'
  <2>1. stack' = <<[asset |-> a, todo |-> Outgoing(a)]>> /\ visited' = visited \cup {a}
        /\ UNCHANGED <<edges, phase>> /\ todo' = todo \ {a} /\ phase = "roots" /\ stack = <<>>
    BY <1>2 DEF StartRoot, Call
  <2>2. Calls'
    <3>1. [asset |-> a, todo |-> Outgoing(a)] \in Frame
      BY DEF Frame
    <3>q. QED
      BY <2>1, <3>1
  <2>3. a \in Reachable
    BY <1>2, RootsReachable DEF StartRoot
  <2>4. ASSUME NEW e \in edges', e[1] \in visited' PROVE e[3] \in visited' \/ Awaited(e)'
    BY <2>1, <2>4 DEF Awaited
  <2>q. QED
    BY <2>1, <2>2, <2>3, <2>4, <1>0
<1>3. ASSUME NEW e \in Relation, Descend(e) PROVE TreeInv'
  <2> DEFINE n == Len(stack)
             top == [asset |-> stack[n].asset, todo |-> stack[n].todo \ {e}]
             frame == [asset |-> e[3], todo |-> Outgoing(e[3])]
  <2>1. /\ n \in Nat \ {0} /\ e \in stack[n].todo /\ stack # <<>>
        /\ visited' = visited \cup {e[3]}
        /\ UNCHANGED <<edges, phase, todo, orphans>> /\ phase = "roots"
    BY <1>3, DescendStack
  <2>2. e \in edges /\ e[1] \in visited /\ e[3] \in Asset
    BY <2>1, EdgeEnds
  <2>3. e[3] \in Reachable
    BY <2>2, ReachableClosed
  <2>4. n \in 1 .. n /\ stack[n] \in Frame
    BY <2>1
  <2>8. /\ stack' \in Seq(Frame) /\ Len(stack') = n + 1
        /\ stack'[n + 1] = frame /\ stack'[n] = top
        /\ \A i \in 1 .. n - 1 : stack'[i] = stack[i]
    BY <1>3, DescendStack
  <2>9. ASSUME NEW i \in 1 .. n + 1
        PROVE  stack'[i].asset \in visited' /\ stack'[i].todo \subseteq Outgoing(stack'[i].asset)
    <3>1. CASE i = n + 1
      <4>1. stack'[i] = frame
        BY <2>8, <3>1
      <4>q. QED
        BY <2>1, <4>1
    <3>2. CASE i = n
      <4>1. stack'[i] = top /\ stack[n].asset \in visited /\ stack[n].todo \subseteq Outgoing(stack[n].asset)
        BY <2>4, <2>8, <3>2
      <4>q. QED
        BY <2>1, <4>1
    <3>3. CASE i \in 1 .. n - 1
      <4>1. stack'[i] = stack[i] /\ i \in 1 .. n
        BY <2>1, <2>8, <3>3
      <4>q. QED
        BY <2>1, <4>1
    <3>q. QED
      BY <2>1, <3>1, <3>2, <3>3
  <2>10. ASSUME NEW f \in edges, f[1] \in visited' PROVE f[3] \in visited' \/ Awaited(f)'
    <3>1. CASE f[1] = e[3]
      <4>1. f \in stack'[n + 1].todo /\ n + 1 \in 1 .. Len(stack')
        BY <2>1, <2>8, <3>1
      <4>q. QED
        BY <4>1 DEF Awaited
    <3>2. CASE f[1] \in visited /\ f[3] \notin visited /\ f # e
      <4>1. PICK i \in 1 .. n : f \in stack[i].todo
        BY <3>2 DEF Awaited
      <4>2. f \in stack'[i].todo /\ i \in 1 .. Len(stack')
        BY <2>1, <2>8, <3>2, <4>1
      <4>q. QED
        BY <4>2 DEF Awaited
    <3>q. QED
      BY <2>1, <2>10, <3>1, <3>2
  <2>11. Calls'
    BY <2>1, <2>8, <2>9
  <2>q. QED
    BY <2>1, <2>2, <2>3, <2>10, <2>11, <1>0
<1>4. CASE TooDeep
  BY <1>4, <1>0 DEF TooDeep, Awaited
<1>5. CASE LeaveAsset
  <2>1. LET n == Len(stack)
        IN  /\ n \in Nat \ {0} /\ stack[n].todo = {}
            /\ UNCHANGED <<edges, phase, todo, visited, orphans>> /\ phase = "roots"
            /\ stack' \in Seq(Frame) /\ Len(stack') = n - 1
            /\ \A i \in 1 .. n - 1 : stack'[i] = stack[i]
    BY <1>5, LeaveStack
  <2>2. ASSUME NEW f \in edges', f[1] \in visited' PROVE f[3] \in visited' \/ Awaited(f)'
    BY <2>1, <2>2 DEF Awaited
  <2>q. QED
    BY <2>1, <2>2, <1>0
<1>6. CASE CollectOrphans
  BY <1>6, <1>0 DEF CollectOrphans, Awaited
<1>7. CASE UNCHANGED vars
  BY <1>7, <1>0 DEF vars, Awaited
<1>q. QED
  BY <1>1, <1>2, <1>3, <1>4, <1>5, <1>6, <1>7 DEF Next, Terminating

(* When the walk returns, what is not shown in a tree is what no root       *)
(* DOMAIN reaches.                                                          *)
THEOREM OrphansCorrect == Spec => []OrphansAreUnreachable
<1>1. TreeInv => OrphansAreUnreachable
  <2> SUFFICES ASSUME TreeInv, phase = "done" PROVE orphans = Asset \ Reachable
    BY DEF OrphansAreUnreachable
  <2>1. stack = <<>> /\ todo = {} /\ orphans = Asset \ visited /\ visited \subseteq Reachable
    BY DEF TreeInv, Walk
  <2>2. Closed(visited) /\ RootDomains \subseteq visited /\ visited \in SUBSET Asset
    BY <2>1 DEF TreeInv, Walk, Awaited, Closed
  <2>3. Reachable \subseteq visited
    BY <2>2 DEF Reachable
  <2>q. QED
    BY <2>1, <2>3
<1>q. QED
  BY InitTree, StepTree, <1>1, PTL DEF Spec
-----------------------------------------------------------------------------
(* No cycle can be reached from a. *)
Acyclic(a) ==
  ~ \E C \in SUBSET Asset : a \in C /\ \A x \in C : \E e \in edges : e[1] = x /\ e[3] \in C

OnStack(a) == \E i \in 1 .. Len(stack) : stack[i].asset = a

(* The calls in progress follow one path, no longer than the interpreter    *)
(* allows; RecursionError is raised at its full length.                     *)
Path ==
  /\ phase \in {"roots", "done", "error"}
  /\ orphans \subseteq Asset /\ rootsOut \in Seq(RootDomains)
  /\ Len(stack) <= RecursionLimit
  /\ phase = "error" => Len(stack) = RecursionLimit
  /\ \A i \in 1 .. Len(stack) - 1 :
       \E e \in edges : e[1] = stack[i].asset /\ e[3] = stack[i + 1].asset

(* Everything visited hangs below a top-level tree. *)
Shown == \A a \in visited : \E i \in 1 .. Len(rootsOut) : Shows(rootsOut[i], a)

(* The trees begun so far are of visited roots, none shown by an earlier.   *)
Ordered ==
  /\ \A i \in 1 .. Len(rootsOut) : rootsOut[i] \in visited
  /\ \A i, j \in 1 .. Len(rootsOut) : i < j => ~Shows(rootsOut[i], rootsOut[j])

(* A call that has returned met no cycle: of the children a call in         *)
(* progress has looked at, only the one it is about may lead to one.        *)
Settled ==
  /\ \A a \in visited : Acyclic(a) \/ OnStack(a)
  /\ \A i \in 1 .. Len(stack) : \A e \in Outgoing(stack[i].asset) \ stack[i].todo :
       \/ Acyclic(e[3])
       \/ i < Len(stack) /\ e[3] = stack[i + 1].asset

ShapeInv == Path /\ Shown /\ Ordered /\ Settled

(* Nothing is shown, and no call made, at first. *)
LEMMA InitShape == Init => ShapeInv
BY TreeAssumption DEF Init, ShapeInv, Path, Shown, Ordered, Settled

(* Every step keeps the path, what is shown and what is settled. *)
LEMMA StepShape == TreeInv /\ TreeInv' /\ ShapeInv /\ [Next]_vars => ShapeInv'
<1> SUFFICES ASSUME TreeInv, TreeInv', ShapeInv, [Next]_vars PROVE ShapeInv'
  OBVIOUS
<1> USE DEF ShapeInv
<1>0. ASSUME UNCHANGED edges
      PROVE  /\ RootDomains' = RootDomains
             /\ \A r, a : Shows(r, a)' = Shows(r, a)
             /\ \A a : Acyclic(a)' = Acyclic(a)
             /\ \A a : Outgoing(a)' = Outgoing(a)
  BY <1>0 DEF RootDomains, Shows, Closed, Acyclic, Outgoing
<1>1. ASSUME NEW a \in Asset, SkipRoot(a) PROVE ShapeInv'
  <2>1. UNCHANGED <<edges, phase, visited, stack, rootsOut, orphans>>
    BY <1>1 DEF SkipRoot
  <2>2. Path'
    BY <2>1, <1>0 DEF Path
  <2>3. Shown' /\ Ordered'
    BY <2>1, <1>0 DEF Shown, Ordered
  <2>4. Settled'
    BY <2>1, <1>0 DEF Settled, OnStack
  <2>q. QED
    BY <2>2, <2>3, <2>4
<1>2. ASSUME NEW a \in Asset, StartRoot(a) PROVE ShapeInv'
  <2>1. /\ stack' = <<[asset |-> a, todo |-> Outgoing(a)]>> /\ visited' = visited \cup {a}
        /\ UNCHANGED <<edges, phase, orphans>> /\ stack = <<>> /\ phase = "roots"
        /\ rootsOut' = Append(rootsOut, a) /\ a \in todo /\ a \notin visited
    BY <1>2 DEF StartRoot, Call
  <2>2. a \in RootDomains
    BY <2>1 DEF TreeInv, Walk
  <2>3. Len(stack') = 1 /\ stack'[1] = [asset |-> a, todo |-> Outgoing(a)]
    BY <2>1
  <2> DEFINE n == Len(rootsOut)
  <2>r. /\ rootsOut' \in Seq(RootDomains) /\ n \in Nat /\ Len(rootsOut') = n + 1
        /\ rootsOut'[n + 1] = a /\ \A i \in 1 .. n : rootsOut'[i] = rootsOut[i]
    BY <2>1, <2>2 DEF Path
  <2>4. Path'
    BY <2>1, <2>2, <2>3, <2>r, <1>0, TreeAssumption DEF Path
  <2>5. Shows(a, a)
    BY DEF Shows
  <2>6. Shown'
    <3>1. ASSUME NEW b \in visited PROVE \E i \in 1 .. n + 1 : Shows(rootsOut'[i], b)
      BY <2>r DEF Shown
    <3>2. n + 1 \in 1 .. n + 1
      BY <2>r
    <3>q. QED
      BY <2>1, <2>5, <2>r, <3>1, <3>2, <1>0 DEF Shown
  <2>9. Ordered'
    <3>1. Closed(visited) /\ visited \in SUBSET Asset
      BY <2>1 DEF TreeInv, Walk, Awaited, Closed
    <3>2. \A i \in 1 .. n : rootsOut[i] \in visited /\ ~Shows(rootsOut[i], a)
      BY <2>1, <3>1 DEF Ordered, Shows
    <3>3. ASSUME NEW i \in 1 .. n + 1, NEW j \in 1 .. n + 1, i < j
          PROVE  ~Shows(rootsOut'[i], rootsOut'[j])
      <4>1. i \in 1 .. n /\ rootsOut'[i] = rootsOut[i]
        BY <2>r, <3>3
      <4>2. CASE j = n + 1
        BY <2>r, <3>2, <4>1, <4>2
      <4>3. CASE j \in 1 .. n
        BY <2>r, <3>3, <4>1, <4>3 DEF Ordered
      <4>q. QED
        BY <2>r, <4>2, <4>3
    <3>4. \A i \in 1 .. n + 1 : rootsOut'[i] \in visited'
      BY <2>1, <2>r, <3>2
    <3>q. QED
      BY <2>1, <2>r, <3>3, <3>4, <1>0 DEF Ordered
  <2>7. OnStack(a)'
    BY <2>3 DEF OnStack
  <2>8. Settled'
    <3>1. \A b \in visited : Acyclic(b)
      BY <2>1 DEF Settled, OnStack
    <3>2. stack'[1].asset = a /\ stack'[1].todo = Outgoing(a)
      BY <2>3
    <3>q. QED
      BY <2>1, <2>3, <2>7, <3>1, <3>2, <1>0 DEF Settled
  <2>q. QED
    BY <2>4, <2>6, <2>8, <2>9
<1>3. ASSUME NEW e \in Relation, Descend(e) PROVE ShapeInv'
  <2> DEFINE n == Len(stack)
  <2>1. /\ n \in Nat \ {0} /\ e \in stack[n].todo
        /\ visited' = visited \cup {e[3]}
        /\ UNCHANGED <<edges, phase, orphans>> /\ phase = "roots"
        /\ Len(stack') = n + 1
        /\ stack'[n + 1] = [asset |-> e[3], todo |-> Outgoing(e[3])]
        /\ stack'[n] = [asset |-> stack[n].asset, todo |-> stack[n].todo \ {e}]
        /\ \A i \in 1 .. n - 1 : stack'[i] = stack[i]
    BY <1>3, DescendStack
  <2>2. n < RecursionLimit /\ rootsOut' = rootsOut
    BY <1>3 DEF Descend
  <2>3. e \in edges /\ e[1] = stack[n].asset /\ stack[n].asset \in visited
    BY <2>1 DEF TreeInv, Calls, Outgoing
  <2>4. /\ stack'[n + 1].asset = e[3] /\ stack'[n + 1].todo = Outgoing(e[3])
        /\ stack'[n].todo = stack[n].todo \ {e}
        /\ \A i \in 1 .. n : stack'[i].asset = stack[i].asset
    BY <2>1
  <2>5. Path'
    <3>1. ASSUME NEW i \in 1 .. n
          PROVE  \E f \in edges : f[1] = stack'[i].asset /\ f[3] = stack'[i + 1].asset
      <4>1. CASE i = n
        BY <2>3, <2>4, <4>1
      <4>2. CASE i \in 1 .. n - 1
        <5>1. i + 1 \in 1 .. n
          BY <2>1, <4>2
        <5>q. QED
          BY <2>4, <4>2, <5>1 DEF Path
      <4>q. QED
        BY <2>1, <4>1, <4>2
    <3>q. QED
      BY <2>1, <2>2, <3>1, <1>0, TreeAssumption DEF Path
  <2>6. Shown'
    <3>1. PICK i \in 1 .. Len(rootsOut) : Shows(rootsOut[i], stack[n].asset)
      BY <2>3 DEF Shown
    <3>2. Shows(rootsOut[i], e[3])
      BY <2>3, <3>1 DEF Shows, Closed
    <3>q. QED
      BY <2>1, <2>2, <3>2, <1>0 DEF Shown
  <2>7. ASSUME NEW a \in visited' PROVE Acyclic(a) \/ OnStack(a)'
    <3>1. CASE a = e[3]
      <4>1. n + 1 \in 1 .. Len(stack')
        BY <2>1
      <4>q. QED
        BY <2>4, <3>1, <4>1 DEF OnStack
    <3>2. CASE OnStack(a)
      <4>1. PICK i \in 1 .. n : stack[i].asset = a
        BY <3>2 DEF OnStack
      <4>2. i \in 1 .. Len(stack') /\ stack'[i].asset = a
        BY <2>1, <2>4, <4>1
      <4>q. QED
        BY <4>2 DEF OnStack
    <3>q. QED
      BY <2>1, <2>7, <3>1, <3>2 DEF Settled
  <2>8. ASSUME NEW i \in 1 .. n + 1, NEW f \in Outgoing(stack'[i].asset) \ stack'[i].todo
        PROVE  Acyclic(f[3]) \/ (i < n + 1 /\ f[3] = stack'[i + 1].asset)
    <3>1. i # n + 1
      BY <2>4
    <3>2. CASE i = n
      BY <2>1, <2>4, <3>2 DEF Settled
    <3>3. CASE i \in 1 .. n - 1
      <4>1. i + 1 \in 1 .. n /\ i \in 1 .. n /\ i < n /\ i < n + 1 /\ stack'[i] = stack[i]
        BY <2>1, <3>3
      <4>2. Acyclic(f[3]) \/ f[3] = stack[i + 1].asset
        BY <4>1 DEF Settled
      <4>q. QED
        BY <2>4, <4>1, <4>2
    <3>q. QED
      BY <2>1, <3>1, <3>2, <3>3
  <2>9. Settled'
    BY <2>1, <2>7, <2>8, <1>0 DEF Settled
  <2>10. Ordered'
    BY <2>1, <2>2, <1>0 DEF Ordered
  <2>q. QED
    BY <2>5, <2>6, <2>9, <2>10
<1>4. CASE TooDeep
  BY <1>4, <1>0 DEF TooDeep, Path, Shown, Ordered, Settled, OnStack
<1>5. CASE LeaveAsset
  <2> DEFINE n == Len(stack)
             a == stack[n].asset
  <2>1. /\ n \in Nat \ {0} /\ stack[n].todo = {}
        /\ UNCHANGED <<edges, phase, visited, orphans>> /\ phase = "roots"
        /\ Len(stack') = n - 1
        /\ \A i \in 1 .. n - 1 : stack'[i] = stack[i]
    BY <1>5, LeaveStack
  <2>2. rootsOut' = rootsOut
    BY <1>5 DEF LeaveAsset
  <2>3. \A e \in Outgoing(a) : Acyclic(e[3])
    BY <2>1 DEF Settled
  <2>4. Acyclic(a)
    BY <2>3 DEF Acyclic, Outgoing
  <2>5. Path'
    <3>1. ASSUME NEW i \in 1 .. n - 2
          PROVE  \E e \in edges : e[1] = stack'[i].asset /\ e[3] = stack'[i + 1].asset
      <4>1. i \in 1 .. n - 1 /\ i + 1 \in 1 .. n - 1
        BY <2>1
      <4>2. \E e \in edges : e[1] = stack[i].asset /\ e[3] = stack[i + 1].asset
        BY <4>1 DEF Path
      <4>q. QED
        BY <2>1, <4>1, <4>2
    <3>2. Len(stack') - 1 = n - 2 /\ Len(stack') <= RecursionLimit
      BY <2>1, TreeAssumption DEF Path
    <3>q. QED
      BY <2>1, <2>2, <3>1, <3>2, <1>0 DEF Path
  <2>6. Shown'
    BY <2>1, <2>2, <1>0 DEF Shown
  <2>7. ASSUME NEW b \in visited PROVE Acyclic(b) \/ OnStack(b)'
    <3>1. CASE OnStack(b)
      <4>1. PICK i \in 1 .. n : stack[i].asset = b
        BY <3>1 DEF OnStack
      <4>2. CASE i = n
        BY <2>4, <4>1, <4>2
      <4>3. CASE i # n
        <5>1. i \in 1 .. Len(stack') /\ stack'[i].asset = b
          BY <2>1, <4>1, <4>3
        <5>q. QED
          BY <5>1 DEF OnStack
      <4>q. QED
        BY <4>2, <4>3
    <3>q. QED
      BY <3>1 DEF Settled
  <2>8. ASSUME NEW i \in 1 .. n - 1, NEW f \in Outgoing(stack'[i].asset) \ stack'[i].todo
        PROVE  Acyclic(f[3]) \/ (i < n - 1 /\ f[3] = stack'[i + 1].asset)
    <3>1. i \in 1 .. n /\ stack'[i] = stack[i]
      BY <2>1
    <3>2. Acyclic(f[3]) \/ f[3] = stack[i + 1].asset
      BY <3>1 DEF Settled
    <3>3. CASE i = n - 1
      <4>1. i + 1 = n
        BY <2>1, <3>3
      <4>q. QED
        BY <2>4, <3>2, <4>1
    <3>4. CASE i < n - 1
      <4>1. i + 1 \in 1 .. n - 1
        BY <2>1, <3>4
      <4>q. QED
        BY <2>1, <3>2, <3>4, <4>1
    <3>q. QED
      BY <2>1, <3>3, <3>4
  <2>9. Settled'
    BY <2>1, <2>7, <2>8, <1>0 DEF Settled
  <2>10. Ordered'
    BY <2>1, <2>2, <1>0 DEF Ordered
  <2>q. QED
    BY <2>5, <2>6, <2>9, <2>10
<1>6. CASE CollectOrphans
  BY <1>6, <1>0 DEF CollectOrphans, Path, Shown, Ordered, Settled, OnStack
<1>7. CASE UNCHANGED vars
  BY <1>7, <1>0 DEF vars, Path, Shown, Ordered, Settled, OnStack
<1>q. QED
  BY <1>1, <1>2, <1>3, <1>4, <1>5, <1>6, <1>7 DEF Next, Terminating

(* Both invariants hold of every walk. *)
LEMMA WalkInvariance == Spec => [](TreeInv /\ ShapeInv)
<1>1. TreeInv /\ ShapeInv /\ [Next]_vars => (TreeInv /\ ShapeInv)'
  BY StepTree, StepShape
<1>q. QED
  BY InitTree, InitShape, <1>1, PTL DEF Spec

(* The variables of the walk have their types, and the calls in progress    *)
(* form a path of the stored graph.                                         *)
THEOREM TreeTypes == Spec => []TypeOK
<1>1. TreeInv /\ ShapeInv => TypeOK
  BY DEF TreeInv, Calls, Walk, ShapeInv, Path, TypeOK
<1>q. QED
  BY WalkInvariance, <1>1, PTL

(* No top-level tree shows the root of a later one, in whatever order the   *)
(* roots are taken; and when the walk returns every root domain was visited *)
(* and every asset it visited is below one of the top-level trees.          *)
THEOREM RootsAreAccounted == Spec => []RootsAccounted
<1>1. TreeInv /\ ShapeInv => RootsAccounted
  BY DEF TreeInv, Walk, ShapeInv, Shown, Ordered, RootsAccounted
<1>q. QED
  BY WalkInvariance, <1>1, PTL

(* More calls in progress than assets: some asset is on the path twice, and *)
(* the part of the path between is a cycle.                                 *)
LEMMA LongPathHasCycle ==
  ASSUME TreeInv, ShapeInv, Len(stack) > Cardinality(Asset)
  PROVE  HasCycle(Reachable)
<1> DEFINE n == Len(stack)
           f == [i \in 1 .. n |-> stack[i].asset]
<1>1. n \in Nat /\ f \in [1 .. n -> Asset] /\ \A i \in 1 .. n : stack[i].asset \in Reachable
  BY DEF TreeInv, Calls, Walk, Frame
<1>2. IsFiniteSet(Asset) /\ Cardinality(Asset) \in Nat
  BY TreeAssumption, FS_CardinalityType
<1>3. IsFiniteSet(1 .. n) /\ Cardinality(1 .. n) = n
  <2>1. 1 \in Int /\ n \in Int /\ n > 0
    BY <1>1, <1>2
  <2>2. IsFiniteSet(1 .. n) /\ Cardinality(1 .. n) = IF 1 > n THEN 0 ELSE n - 1 + 1
    <3> HIDE DEF n
    <3>q. QED
      BY <2>1, FS_Interval
  <2>q. QED
    BY <2>1, <2>2
<1>4. PICK x \in 1 .. n, y \in 1 .. n : x # y /\ f[x] = f[y]
  <2> HIDE DEF f
  <2>q. QED
    BY <1>1, <1>2, <1>3, FS_PigeonHole
<1>5. PICK i \in 1 .. n, j \in 1 .. n : i < j /\ stack[i].asset = stack[j].asset
  BY <1>1, <1>4
<1> DEFINE C == {stack[k].asset : k \in i .. j - 1}
<1>6. stack[i].asset \in C /\ C \in SUBSET Reachable
  BY <1>1, <1>5
<1>7. ASSUME NEW k \in i .. j - 1 PROVE \E e \in edges : e[1] = stack[k].asset /\ e[3] \in C
  <2>1. k \in 1 .. n - 1
    BY <1>1, <1>5
  <2>2. PICK e \in edges : e[1] = stack[k].asset /\ e[3] = stack[k + 1].asset
    BY <2>1 DEF ShapeInv, Path
  <2>3. stack[k + 1].asset \in C
    <3>1. CASE k = j - 1
      BY <1>5, <1>6, <3>1
    <3>2. CASE k + 1 \in i .. j - 1
      BY <3>2
    <3>q. QED
      BY <1>1, <1>5, <3>1, <3>2
  <2>q. QED
    BY <2>2, <2>3
<1>8. \A a \in C : \E e \in edges : e[1] = a /\ e[3] \in C
  BY <1>7
<1>q. QED
  BY <1>6, <1>8 DEF HasCycle

(* When the interpreter allows more nested calls than the program has       *)
(* assets, the walk fails exactly when a root domain reaches a cycle.       *)
THEOREM OnlyCyclesMakeItFail ==
  ASSUME RecursionLimit > Cardinality(Asset)
  PROVE  Spec => []OnlyCyclesFail
<1>1. TreeInv /\ ShapeInv => OnlyCyclesFail
  <2> SUFFICES ASSUME TreeInv, ShapeInv PROVE OnlyCyclesFail
    OBVIOUS
  <2>0. Cardinality(Asset) \in Nat /\ RecursionLimit \in Nat /\ Len(stack) \in Nat
    BY TreeAssumption, FS_CardinalityType DEF TreeInv, Calls
  <2>1. phase = "error" => HasCycle(Reachable)
    BY <2>0, LongPathHasCycle DEF ShapeInv, Path
  <2>2. ~ HasCycle(Reachable) => Len(stack) <= Cardinality(Asset)
    BY <2>0, LongPathHasCycle
  <2>3. ASSUME phase = "done" PROVE ~ HasCycle(Reachable)
    <3>1. stack = <<>> /\ todo = {}
      BY <2>3 DEF TreeInv, Walk
    <3>2. \A a \in visited : Acyclic(a)
      BY <3>1 DEF ShapeInv, Settled, OnStack
    <3>3. Closed(visited) /\ RootDomains \subseteq visited /\ visited \in SUBSET Asset
      BY <3>1 DEF TreeInv, Walk, Awaited, Closed
    <3>4. Reachable \subseteq visited /\ Reachable \subseteq Asset
      BY <3>3 DEF Reachable
    <3>q. QED
      BY <3>2, <3>4 DEF HasCycle, Acyclic
  <2>q. QED
    BY <2>1, <2>2, <2>3 DEF OnlyCyclesFail
<1>q. QED
  BY WalkInvariance, <1>1, PTL
=============================================================================
