------------------------ MODULE WorkflowRouterProofs ------------------------
(***************************************************************************)
(* Proofs about WorkflowRouter, for requests of every length.              *)
(***************************************************************************)
EXTENDS WorkflowRouter, FiniteSetTheorems, SequenceTheorems, TLAPS

(* AUTO_BRIDGE_STEPS is right about every registered pair: the bridge fits  *)
(* on both sides.                                                           *)
LEMMA BridgeFits ==
  ASSUME NEW a \in StepId, NEW b \in StepId, HasBridge(a, b)
  PROVE  Feeds(a, BridgeStep) /\ Feeds(BridgeStep, b)
BY DEF StepId, HasBridge, BridgedKinds, BridgeStep, Feeds, FeedsKind, WorkflowStep

(* A compatible chain stays compatible when a step its end can feed is added. *)
LEMMA AppendChained ==
  ASSUME NEW seq \in Seq(StepId), seq # <<>>, Chained(seq),
         NEW b \in StepId, Feeds(seq[Len(seq)], b)
  PROVE  Append(seq, b) \in Seq(StepId) /\ Append(seq, b) # <<>> /\ Chained(Append(seq, b))
<1>1. /\ Append(seq, b) \in Seq(StepId) /\ Len(Append(seq, b)) = Len(seq) + 1
      /\ Append(seq, b)[Len(seq) + 1] = b
      /\ \A k \in 1 .. Len(seq) : Append(seq, b)[k] = seq[k]
  OBVIOUS
<1>2. ASSUME NEW k \in 1 .. Len(Append(seq, b)) - 1
      PROVE  Feeds(Append(seq, b)[k], Append(seq, b)[k + 1])
  <2>1. CASE k = Len(seq)
    BY <1>1, <2>1
  <2>2. CASE k # Len(seq)
    <3>1. k \in 1 .. Len(seq) - 1
      BY <1>1, <2>2
    <3>q. QED
      BY <1>1, <3>1 DEF Chained
  <2>q. QED
    BY <2>1, <2>2
<1>q. QED
  BY <1>1, <1>2 DEF Chained

(* The entries of a request form a sequence that is not empty. *)
LEMMA RequestIds ==
  ASSUME request \in Requests
  PROVE  ids \in Seq(StepId \cup {Unknown, Blank}) /\ Len(ids) >= 1
<1> DEFINE Entry == StepId \cup {Unknown, Blank}
<1>1. ASSUME NEW seq \in NamedSequences PROVE seq \in Seq(Entry) /\ Len(seq) >= 1
  <2>1. /\ <<"subfinder", "dns_resolve", "httpx_stub">> \in Seq(Entry)
        /\ <<"nmap", "nuclei">> \in Seq(Entry)
    BY DEF StepId
  <2>2. Len(<<"subfinder", "dns_resolve", "httpx_stub">>) = 3 /\ Len(<<"nmap", "nuclei">>) = 2
    OBVIOUS
  <2>3. seq = <<"subfinder", "dns_resolve", "httpx_stub">> \/ seq = <<"nmap", "nuclei">>
    BY DEF NamedSequences
  <2>4. seq \in Seq(Entry) /\ (Len(seq) = 3 \/ Len(seq) = 2)
    BY <2>1, <2>2, <2>3, Zenon
  <2>q. QED
    BY <2>4
<1>2. ASSUME NEW n \in 1 .. MaxLen, NEW seq \in [1 .. n -> Entry]
      PROVE  seq \in Seq(Entry) /\ Len(seq) >= 1
  BY RouterAssumption
<1>3. request.ids \in NamedSequences \/ request.ids \in Requested
  BY DEF Requests
<1>4. ASSUME request.ids \in Requested
      PROVE  \E n \in 1 .. MaxLen : request.ids \in [1 .. n -> Entry]
  BY <1>4 DEF Requested
<1>q. QED
  BY <1>1, <1>2, <1>3, <1>4 DEF ids

(* What the loop keeps: a compatible chain of registered steps, not empty   *)
(* while pairs are compared, built from entries that were all checked.      *)
Inv ==
  /\ request \in Requests
  /\ resolved \in Seq(StepId)
  /\ consumed \in Nat
  /\ phase = "pairs" => resolved # <<>> /\ KnownEntries
  /\ ChainCompatible

(* Nothing is built yet. *)
LEMMA InitInv == Init => Inv
BY DEF Init, Inv, ChainCompatible, Chained

(* The next requested id is a registered step. *)
LEMMA NextIsKnown ==
  ASSUME Inv, phase = "pairs", consumed < Len(ids)
  PROVE  NextId \in StepId
<1>1. Len(ids) \in Nat
  BY RequestIds DEF Inv
<1>q. QED
  BY <1>1 DEF Inv, KnownEntries, NextId

(* Only the three ways the loop extends the chain need an argument. *)
LEMMA StepInv == Inv /\ [Next]_vars => Inv'
<1> SUFFICES ASSUME Inv, [Next]_vars PROVE Inv'
  OBVIOUS
<1>1. CASE TakeFirst
  <2>1. Len(ids) \in Nat /\ Len(ids) >= 1
    BY RequestIds DEF Inv
  <2>2. ids[1] \in StepId
    BY <1>1, <2>1 DEF TakeFirst, KnownEntries
  <2>3. resolved' = <<ids[1]>> /\ Len(resolved') = 1
    BY <1>1 DEF TakeFirst
  <2>4. Chained(resolved') /\ resolved' \in Seq(StepId) /\ resolved' # <<>>
    BY <2>2, <2>3 DEF Chained
  <2>q. QED
    BY <1>1, <2>4 DEF Inv, TakeFirst, ChainCompatible, Chained, KnownEntries, ids
<1>2. CASE ExtendPlain
  <2>1. Append(resolved, NextId) \in Seq(StepId) /\ Append(resolved, NextId) # <<>>
        /\ Chained(Append(resolved, NextId))
    BY <1>2, NextIsKnown, AppendChained DEF ExtendPlain, Inv, ChainCompatible, LastStep
  <2>q. QED
    BY <1>2, <2>1 DEF Inv, ExtendPlain, ChainCompatible, Chained, KnownEntries, ids
<1>3. CASE ExtendBridged
  <2> DEFINE bridged == Append(resolved, BridgeStep)
  <2>1. LastStep \in StepId /\ NextId \in StepId /\ BridgeStep \in StepId /\ resolved # <<>>
    BY <1>3, NextIsKnown DEF ExtendBridged, Inv, LastStep, BridgeStep, StepId
  <2>2. Feeds(LastStep, BridgeStep) /\ Feeds(BridgeStep, NextId)
    BY <1>3, <2>1, BridgeFits DEF ExtendBridged
  <2>3. bridged \in Seq(StepId) /\ bridged # <<>> /\ Chained(bridged)
    BY <2>1, <2>2, AppendChained DEF Inv, ChainCompatible, LastStep
  <2>4. bridged[Len(bridged)] = BridgeStep
    BY <2>1 DEF Inv
  <2>5. Append(bridged, NextId) \in Seq(StepId) /\ Append(bridged, NextId) # <<>>
        /\ Chained(Append(bridged, NextId))
    BY <2>1, <2>2, <2>3, <2>4, AppendChained
  <2>6. resolved \o <<BridgeStep, NextId>> = Append(bridged, NextId)
    BY <2>1 DEF Inv
  <2>q. QED
    BY <1>3, <2>5, <2>6 DEF Inv, ExtendBridged, ChainCompatible, Chained, KnownEntries, ids
<1>4. ASSUME UNCHANGED <<request, resolved, consumed>>, phase' # "pairs" \/ phase' = phase
      PROVE  Inv'
  BY <1>4 DEF Inv, ChainCompatible, Chained, KnownEntries, ids
<1>5. ASSUME NEW found \in BOOLEAN, RunStep(found) \/ RunDnsTail(found) PROVE Inv'
  <2>1. UNCHANGED <<request, resolved, consumed>> /\ phase' # "pairs"
    BY <1>5 DEF RunStep, RunDnsTail, Ran
  <2>q. QED
    BY <2>1, <1>4
<1>6. CASE RejectEntries \/ RejectPair \/ SequenceValid \/ CheckTarget \/ RejectTarget
           \/ StartFirst \/ RejectStart \/ UNCHANGED vars
  BY <1>4, <1>6 DEF RejectEntries, RejectPair, SequenceValid, CheckTarget, RejectTarget,
       StartFirst, RejectStart, Reject, vars
<1>q. QED
  BY <1>1, <1>2, <1>3, <1>5, <1>6 DEF Next, Terminating

(* However requested steps are mixed and bridged, the chain validate_sequence *)
(* builds and every launch then walks is compatible at each joint.            *)
THEOREM ChainsAreCompatible == Spec => []ChainCompatible
<1>1. Inv => ChainCompatible
  BY DEF Inv
<1>q. QED
  BY InitInv, StepInv, <1>1, PTL DEF Spec
-----------------------------------------------------------------------------
(* The requested ids up to k whose predecessor cannot feed them. *)
BrokenTo(k) == {j \in 1 .. k : Broken(j)}

(* Each requested id moves the place by one, or by two when it is broken. *)
LEMMA PlaceNext ==
  ASSUME NEW k \in Nat
  PROVE  /\ Place(k) \in Nat
         /\ Place(k + 1) = IF Broken(k + 1) THEN Place(k) + 2 ELSE Place(k) + 1
<1>1. IsFiniteSet(BrokenTo(k)) /\ Cardinality(BrokenTo(k)) \in Nat
  <2>1. IsFiniteSet(1 .. k)
    BY FS_Interval
  <2>q. QED
    BY <2>1, FS_Subset, FS_CardinalityType DEF BrokenTo
<1>2. CASE Broken(k + 1)
  <2>1. BrokenTo(k + 1) = BrokenTo(k) \cup {k + 1} /\ k + 1 \notin BrokenTo(k)
    BY <1>2 DEF BrokenTo
  <2>2. Cardinality(BrokenTo(k + 1)) = Cardinality(BrokenTo(k)) + 1
    BY <1>1, <2>1, FS_AddElement
  <2>q. QED
    BY <1>1, <1>2, <2>2 DEF Place, BrokenTo
<1>3. CASE ~ Broken(k + 1)
  <2>1. BrokenTo(k + 1) = BrokenTo(k)
    BY <1>3 DEF BrokenTo
  <2>q. QED
    BY <1>1, <1>3, <2>1 DEF Place, BrokenTo
<1>q. QED
  BY <1>2, <1>3, <1>1 DEF Place, BrokenTo

(* The first id is in the first place. *)
LEMMA PlaceFirst == Place(1) = 1
<1>1. BrokenTo(1) = {}
  BY DEF BrokenTo, Broken
<1>q. QED
  BY <1>1, FS_EmptySet DEF Place, BrokenTo

(* Earlier ids have earlier places. *)
LEMMA PlaceWithin ==
  ASSUME NEW n \in Nat, NEW k \in 1 .. n
  PROVE  Place(k) \in Nat /\ k <= Place(k) /\ Place(k) <= Place(n)
<1>1. IsFiniteSet(BrokenTo(n))
  <2>1. IsFiniteSet(1 .. n)
    BY FS_Interval
  <2>q. QED
    BY <2>1, FS_Subset DEF BrokenTo
<1>2. BrokenTo(k) \subseteq BrokenTo(n)
  BY DEF BrokenTo
<1>3. /\ IsFiniteSet(BrokenTo(k))
      /\ Cardinality(BrokenTo(k)) <= Cardinality(BrokenTo(n))
  BY <1>1, <1>2, FS_Subset
<1>4. Cardinality(BrokenTo(k)) \in Nat /\ Cardinality(BrokenTo(n)) \in Nat
  BY <1>1, <1>3, FS_CardinalityType
<1>q. QED
  BY <1>3, <1>4 DEF Place, BrokenTo

(* A pair of requested ids that validate_sequence lets pass. *)
PairPasses(k) ==
  Feeds(ids[k - 1], ids[k]) \/ (request.autoBridge /\ HasBridge(ids[k - 1], ids[k]))

(* The list built so far is the pairwise bridged prefix of the request. *)
Built ==
  /\ bridgeLog \in Seq({BridgeStep})
  /\ consumed \in 0 .. Len(ids)
  /\ consumed = 0 => resolved = <<>> /\ bridgeLog = <<>>
  /\ consumed > 0 => KnownEntries
  /\ BridgedAsSpecified
  /\ \A k \in 2 .. consumed : PairPasses(k)

(* The end of the list is the last id taken, its head the first. *)
LEMMA BuiltEnds ==
  ASSUME Inv, Built, consumed > 0
  PROVE  /\ Len(resolved) \in Nat \ {0}
         /\ LastStep = ids[consumed] /\ resolved[1] = ids[1]
<1>1. consumed \in Nat /\ 1 \in 1 .. consumed /\ consumed \in 1 .. consumed
  BY DEF Inv
<1>2. Len(resolved) = Place(consumed) /\ \A k \in 1 .. consumed : resolved[Place(k)] = ids[k]
  BY DEF Built, BridgedAsSpecified
<1>3. Len(resolved) \in Nat \ {0}
  BY <1>1, <1>2, PlaceWithin
<1>q. QED
  BY <1>1, <1>2, <1>3, PlaceFirst DEF LastStep

(* Nothing is taken at first. *)
LEMMA InitBuilt == Init => Built
<1>1. Init => Len(ids) \in Nat
  BY RequestIds DEF Init
<1>q. QED
  BY <1>1 DEF Init, Built, BridgedAsSpecified

(* The places and pairs of a request stay what they are. *)
LEMMA RequestKept ==
  ASSUME UNCHANGED request
  PROVE  /\ ids' = ids /\ KnownEntries' = KnownEntries
         /\ \A k : Place(k)' = Place(k) /\ Broken(k)' = Broken(k) /\ PairPasses(k)' = PairPasses(k)
BY DEF ids, KnownEntries, Place, Broken, PairPasses

(* Adding the next id behind what was built, with or without its bridge. *)
LEMMA Extended ==
  ASSUME Inv, Built, phase = "pairs", consumed > 0, consumed < Len(ids), NEW mid \in Seq({BridgeStep}),
         mid = IF Broken(consumed + 1) THEN <<BridgeStep>> ELSE <<>>,
         resolved' = Append(resolved \o mid, NextId), bridgeLog' = bridgeLog \o mid,
         consumed' = consumed + 1, PairPasses(consumed + 1), UNCHANGED request
  PROVE  Built'
<1> DEFINE c == consumed
           n == Len(resolved)
<1>1. c \in Nat \ {0} /\ n = Place(c) /\ n \in Nat \ {0} /\ resolved \in Seq(StepId)
  BY BuiltEnds DEF Inv, Built, BridgedAsSpecified
<1>2. NextId \in StepId /\ BridgeStep \in StepId
  BY NextIsKnown DEF BridgeStep, StepId
<1>3. Len(mid) = (IF Broken(c + 1) THEN 1 ELSE 0) /\ (Broken(c + 1) => mid[1] = BridgeStep)
  OBVIOUS
<1>4. mid \in Seq(StepId)
  BY <1>2
<1>5. /\ resolved \o mid \in Seq(StepId) /\ Len(resolved \o mid) = n + Len(mid)
      /\ \A i \in 1 .. n : (resolved \o mid)[i] = resolved[i]
      /\ Broken(c + 1) => (resolved \o mid)[n + 1] = BridgeStep
  BY <1>1, <1>3, <1>4
<1>6. /\ Len(resolved') = n + Len(mid) + 1 /\ resolved'[n + Len(mid) + 1] = NextId
      /\ \A i \in 1 .. n : resolved'[i] = resolved[i]
      /\ Broken(c + 1) => resolved'[n + 1] = BridgeStep
  <2> DEFINE r == resolved \o mid
  <2>1. /\ r \in Seq(StepId) /\ Len(r) = n + Len(mid) /\ resolved' = Append(r, NextId)
        /\ \A i \in 1 .. n : r[i] = resolved[i]
        /\ Broken(c + 1) => r[n + 1] = BridgeStep
    BY <1>5
  <2>2. Len(mid) = 0 \/ Len(mid) = 1
    BY <1>3
  <2> HIDE DEF r
  <2>q. QED
    BY <1>1, <1>2, <1>3, <2>1, <2>2
<1>7. Place(c + 1) = n + Len(mid) + 1
  <2>1. c \in Nat /\ n \in Nat /\ n = Place(c)
    BY <1>1
  <2>2. Place(c + 1) = IF Broken(c + 1) THEN n + 2 ELSE n + 1
    BY <2>1, PlaceNext
  <2>3. CASE Broken(c + 1)
    BY <1>3, <2>1, <2>2, <2>3
  <2>4. CASE ~ Broken(c + 1)
    BY <1>3, <2>1, <2>2, <2>4
  <2>q. QED
    BY <2>3, <2>4
<1>8. bridgeLog' \in Seq({BridgeStep}) /\ Len(bridgeLog') = Len(bridgeLog) + Len(mid)
      /\ Len(bridgeLog) = n - c
  BY <1>1 DEF Built, BridgedAsSpecified
<1>9. ASSUME NEW k \in 1 .. c + 1
      PROVE  /\ resolved'[Place(k)] = ids[k]
             /\ Broken(k) => resolved'[Place(k) - 1] = BridgeStep
  <2>1. CASE k = c + 1
    <3>1. Broken(k) => Place(k) - 1 = n + 1
      BY <1>1, <1>3, <1>7, <2>1
    <3>q. QED
      BY <1>6, <1>7, <2>1, <3>1 DEF NextId
  <2>2. CASE k \in 1 .. c
    <3>1. Place(k) \in Nat /\ k <= Place(k) /\ Place(k) <= n /\ k \in Nat
      BY <1>1, <2>2, PlaceWithin
    <3>3. Place(k) \in 1 .. n /\ (k > 1 => Place(k) - 1 \in 1 .. n)
      BY <1>1, <2>2, <3>1
    <3>4. Broken(k) => k > 1
      BY DEF Broken
    <3>2. /\ resolved[Place(k)] = ids[k]
          /\ Broken(k) => resolved[Place(k) - 1] = BridgeStep
      BY <1>1, <2>2 DEF Built, BridgedAsSpecified
    <3>q. QED
      BY <1>6, <3>2, <3>3, <3>4
  <2>3. k = c + 1 \/ k \in 1 .. c
    BY <1>1
  <2>q. QED
    BY <2>1, <2>2, <2>3
<1>10. \A k \in 2 .. c + 1 : PairPasses(k)
  BY <1>1 DEF Built
<1>11. BridgedAsSpecified'
  <2>1. Len(resolved') = Place(c + 1) /\ Len(bridgeLog') = Len(resolved') - (c + 1)
    <3>1. Len(mid) \in Nat /\ Len(bridgeLog) \in Nat
      BY DEF Built
    <3>2. Len(resolved') = Place(c + 1) /\ Len(resolved') = n + Len(mid) + 1
      BY <1>6, <1>7
    <3>3. Len(bridgeLog') = n - c + Len(mid)
      BY <1>8
    <3>4. \A i, j, k \in Int : i - j + k = (i + k + 1) - (j + 1)
      OBVIOUS
    <3>5. n \in Int /\ c \in Int /\ Len(mid) \in Int
      BY <1>1, <3>1
    <3>q. QED
      BY ONLY <3>2, <3>3, <3>4, <3>5
  <2>q. QED
    BY <1>9, <2>1, RequestKept DEF BridgedAsSpecified
<1>12. c + 1 \in 0 .. Len(ids) /\ c + 1 # 0
  BY <1>1 DEF Built
<1>q. QED
  BY <1>8, <1>10, <1>11, <1>12, RequestKept DEF Built

(* Everything but the loop leaves what was built alone. *)
LEMMA BuiltKept ==
  ASSUME Built, UNCHANGED <<request, resolved, consumed, bridgeLog>>
  PROVE  Built'
BY RequestKept DEF Built, BridgedAsSpecified

(* What the phase says of the loop and of the checks made so far. *)
Launched == {"queued", "dns_tail", "stopped", "done"}
Checked ==
  /\ phase \in {"entries", "pairs", "target", "start", "rejected"} \cup Launched
  /\ phase = "entries" => consumed = 0
  /\ phase = "pairs"   => consumed > 0
  /\ phase = "target"  => consumed = IF request.named THEN 0 ELSE Len(ids)
  /\ phase \in {"start"} \cup Launched => consumed = Len(ids)
  /\ \/ phase \in {"start"} \cup Launched
     \/ phase \in {"entries", "pairs"} /\ request.named
     => Accepts(ids[1], request.target)
  /\ phase \in Launched => Startable
  /\ phase = "rejected" => ~Launchable

(* Every way out of the loop and of the checks is a fact about the request. *)
LEMMA InitChecked == Init => Checked
BY DEF Init, Checked, Launched, Requests
(* Every step keeps the pairwise list. *)
LEMMA StepBuilt == Inv /\ Built /\ Checked /\ [Next]_vars => Built'
<1> SUFFICES ASSUME Inv, Built, Checked, [Next]_vars PROVE Built'
  OBVIOUS
<1>0. Len(ids) \in Nat /\ Len(ids) >= 1 /\ consumed \in Nat /\ resolved \in Seq(StepId)
  BY RequestIds DEF Inv
<1>1. CASE TakeFirst
  <2>1. resolved' = <<ids[1]>> /\ consumed' = 1 /\ bridgeLog' = <<>> /\ KnownEntries
        /\ UNCHANGED request
    BY <1>1 DEF TakeFirst, Built, Checked
  <2>2. Len(resolved') = 1 /\ Len(bridgeLog') = 0 /\ resolved'[1] = ids[1]
    BY <2>1
  <2>3. ~ Broken(1) /\ Place(1) = 1
    BY PlaceFirst DEF Broken
  <2>4. BridgedAsSpecified'
    <3>1. \A k \in 1 .. 1 : k = 1
      OBVIOUS
    <3>q. QED
      BY <2>1, <2>2, <2>3, <3>1, RequestKept DEF BridgedAsSpecified
  <2>5. \A k \in 2 .. consumed' : FALSE
    BY <2>1
  <2>6. bridgeLog' \in Seq({BridgeStep}) /\ consumed' \in 0 .. Len(ids) /\ consumed' # 0
    BY <2>1, <1>0
  <2>q. QED
    BY <2>1, <2>4, <2>5, <2>6, RequestKept DEF Built
<1>2. ASSUME phase = "pairs", consumed < Len(ids)
      PROVE  /\ consumed > 0 /\ LastStep = ids[consumed]
             /\ Broken(consumed + 1) <=> ~ Feeds(LastStep, NextId)
             /\ PairPasses(consumed + 1) <=>
                  Feeds(LastStep, NextId) \/ (request.autoBridge /\ HasBridge(LastStep, NextId))
  <2>1. consumed > 0 /\ LastStep = ids[consumed]
    BY <1>2, BuiltEnds DEF Checked
  <2>2. consumed + 1 > 1 /\ consumed + 1 - 1 = consumed
    BY <1>0, <2>1
  <2>3. Broken(consumed + 1) <=> consumed + 1 > 1 /\ ~ Feeds(ids[consumed + 1 - 1], NextId)
    BY <1>0 DEF Broken, NextId
  <2>4. PairPasses(consumed + 1) <=>
          \/ Feeds(ids[consumed + 1 - 1], NextId)
          \/ request.autoBridge /\ HasBridge(ids[consumed + 1 - 1], NextId)
    BY <1>0 DEF PairPasses, NextId
  <2>5. ids[consumed + 1 - 1] = LastStep
    BY <2>1, <2>2
  <2>q. QED
    BY <2>1, <2>2, <2>3, <2>4, <2>5
<1>3. CASE ExtendPlain
  <2>1. /\ phase = "pairs" /\ consumed < Len(ids) /\ Feeds(LastStep, NextId)
        /\ resolved' = Append(resolved, NextId) /\ consumed' = consumed + 1
        /\ UNCHANGED <<request, bridgeLog>>
    BY <1>3 DEF ExtendPlain
  <2>2. consumed > 0 /\ ~ Broken(consumed + 1) /\ PairPasses(consumed + 1)
    BY <1>2, <2>1
  <2>3. <<>> \in Seq({BridgeStep}) /\ resolved \o <<>> = resolved /\ bridgeLog \o <<>> = bridgeLog
    BY <1>0 DEF Built
  <2>q. QED
    BY <2>1, <2>2, <2>3, Extended
<1>4. CASE ExtendBridged
  <2>1. /\ phase = "pairs" /\ consumed < Len(ids) /\ ~ Feeds(LastStep, NextId)
        /\ HasBridge(LastStep, NextId) /\ request.autoBridge
        /\ resolved' = resolved \o <<BridgeStep, NextId>> /\ consumed' = consumed + 1
        /\ bridgeLog' = Append(bridgeLog, BridgeStep) /\ UNCHANGED request
    BY <1>4 DEF ExtendBridged
  <2>2. consumed > 0 /\ Broken(consumed + 1) /\ PairPasses(consumed + 1)
    BY <1>2, <2>1
  <2>3. NextId \in StepId /\ BridgeStep \in StepId
    BY <2>1, NextIsKnown DEF BridgeStep, StepId
  <2>4. <<BridgeStep>> \in Seq({BridgeStep})
        /\ resolved \o <<BridgeStep, NextId>> = Append(resolved \o <<BridgeStep>>, NextId)
        /\ Append(bridgeLog, BridgeStep) = bridgeLog \o <<BridgeStep>>
    BY <1>0, <2>3 DEF Built
  <2>q. QED
    BY <2>1, <2>2, <2>4, Extended
<1>5. CASE UNCHANGED <<request, resolved, consumed, bridgeLog>>
  BY <1>5, BuiltKept
<1>6. ASSUME NEW found \in BOOLEAN, RunStep(found) \/ RunDnsTail(found)
      PROVE  UNCHANGED <<request, resolved, consumed, bridgeLog>>
  BY <1>6 DEF RunStep, RunDnsTail, Ran
<1>7. CASE RejectEntries \/ RejectPair \/ SequenceValid \/ CheckTarget \/ RejectTarget
           \/ StartFirst \/ RejectStart \/ UNCHANGED vars
  BY <1>5, <1>7 DEF RejectEntries, RejectPair, SequenceValid, CheckTarget, RejectTarget,
       StartFirst, RejectStart, Reject, vars
<1>q. QED
  BY <1>1, <1>3, <1>4, <1>5, <1>6, <1>7 DEF Next, Terminating

(* Every step keeps what its phase says of the request. *)
LEMMA StepChecked == Inv /\ Built /\ Checked /\ [Next]_vars => Checked'
<1> SUFFICES ASSUME Inv, Built, Checked, [Next]_vars PROVE Checked'
  OBVIOUS
<1>0. Len(ids) \in Nat /\ Len(ids) >= 1 /\ consumed \in Nat /\ request.named \in BOOLEAN
  <2>1. request.named \in BOOLEAN
    BY DEF Inv, Requests
  <2>q. QED
    BY <2>1, RequestIds DEF Inv
<1>1. CASE RejectEntries
  <2>1. ~ Launchable
    BY <1>1 DEF RejectEntries, Launchable, PairwiseValid
  <2>q. QED
    BY <1>1, <2>1 DEF RejectEntries, Reject, Checked, Launched, Launchable, PairwiseValid, KnownEntries, ids
<1>2. CASE TakeFirst
  BY <1>2 DEF TakeFirst, Checked, Launched, ids
<1>3. CASE ExtendPlain \/ ExtendBridged
  BY <1>3, <1>0 DEF ExtendPlain, ExtendBridged, Checked, Launched, ids
<1>4. CASE RejectPair
  <2>1. consumed > 0 /\ LastStep = ids[consumed] /\ NextId = ids[consumed + 1] /\ consumed < Len(ids)
        /\ ~ Feeds(LastStep, NextId) /\ ~ (HasBridge(LastStep, NextId) /\ request.autoBridge)
    BY <1>4, BuiltEnds DEF RejectPair, Checked, NextId
  <2>2. consumed + 1 \in 2 .. Len(ids) /\ consumed + 1 - 1 = consumed
    BY <1>0, <2>1
  <2>3. ASSUME Launchable PROVE FALSE
    <3>1. \/ Feeds(ids[consumed + 1 - 1], ids[consumed + 1])
          \/ request.autoBridge /\ HasBridge(ids[consumed + 1 - 1], ids[consumed + 1])
      BY <1>0, <2>2, <2>3 DEF Launchable, PairwiseValid
    <3>2. ids[consumed + 1 - 1] = LastStep
      BY <2>1, <2>2
    <3>q. QED
      BY <2>1, <3>1, <3>2
  <2>q. QED
    BY <1>4, <2>3 DEF RejectPair, Reject, Checked, Launched, Launchable, PairwiseValid, KnownEntries, ids
<1>5. CASE SequenceValid
  BY <1>5 DEF SequenceValid, Checked, Launched, ids
<1>6. CASE CheckTarget
  BY <1>6 DEF CheckTarget, Checked, Launched, ids
<1>7. CASE RejectTarget
  <2>1. ~ Launchable
    BY <1>7 DEF RejectTarget, Launchable
  <2>q. QED
    BY <1>7, <2>1 DEF RejectTarget, Reject, Checked, Launched, Launchable, PairwiseValid, KnownEntries, ids
<1>8. CASE StartFirst
  BY <1>8 DEF StartFirst, Startable, Checked, Launched, ids
<1>9. CASE RejectStart
  <2>1. resolved[1] = ids[1]
    BY <1>0, <1>9, BuiltEnds DEF RejectStart, Checked
  <2>2. ~ Launchable
    BY <1>9, <2>1 DEF RejectStart, Startable, Launchable
  <2>q. QED
    BY <1>9, <2>2 DEF RejectStart, Reject, Checked, Launched, Launchable, PairwiseValid, KnownEntries, ids
<1>10. ASSUME NEW found \in BOOLEAN, RunStep(found) \/ RunDnsTail(found) PROVE Checked'
  <2>1. phase \in Launched /\ phase' \in Launched /\ UNCHANGED <<request, resolved, consumed>>
    BY <1>10 DEF RunStep, RunDnsTail, Ran, Launched
  <2>q. QED
    BY <2>1 DEF Checked, Launched, Startable, ids
<1>11. CASE UNCHANGED vars
  BY <1>11 DEF vars, Checked, Launched, Startable, Launchable, PairwiseValid, KnownEntries, ids
<1>q. QED
  BY <1>1, <1>2, <1>3, <1>4, <1>5, <1>6, <1>7, <1>8, <1>9, <1>10, <1>11 DEF Next, Terminating

-----------------------------------------------------------------------------
(* The steps that ran are the beginning of the resolved chain. *)
RanTo(n) == Len(ran) = n /\ \A k \in 1 .. n : ran[k] = resolved[k]

(* How far a launch has walked its chain, and with what. *)
Walked ==
  /\ index \in 0 .. Len(resolved) /\ payload \subseteq Keys /\ attach \in BOOLEAN
  /\ ran \in Seq(StepId)
  /\ phase \notin Launched => index = 0 /\ ran = <<>> /\ attach = FALSE
  /\ attach => resolved[1] = "subfinder" /\ AttachDnsChain(resolved)
  /\ phase = "queued" => index >= 1 /\ RanTo(index - 1)
  /\ phase = "dns_tail" => attach /\ ran = resolved
  /\ ArgumentsAdequate
  /\ NoStepDropped

(* What a step can be fed by. *)
LEMMA Feeders ==
  ASSUME NEW a \in StepId, NEW b \in StepId, Feeds(a, b)
  PROVE  /\ b = "dns_resolve" <=> a = "subfinder"
         /\ b = "httpx_stub" => a = "dns_resolve"
BY DEF StepId, Feeds, FeedsKind, WorkflowStep

(* Nothing has run at first. *)
LEMMA InitWalked == Init => Walked
<1> SUFFICES ASSUME Init PROVE Walked
  OBVIOUS
<1>1. resolved = <<>> /\ ran = <<>> /\ index = 0 /\ payload = {} /\ attach = FALSE
      /\ phase \in {"entries", "target"}
  BY DEF Init
<1>2. phase \notin Launched
  BY <1>1 DEF Launched
<1>3. ArgumentsAdequate /\ NoStepDropped
  BY <1>2 DEF ArgumentsAdequate, NoStepDropped, Launched
<1>4. 0 \in 0 .. Len(resolved) /\ <<>> \in Seq(StepId)
  BY <1>1
<1>q. QED
  BY <1>1, <1>2, <1>3, <1>4 DEF Walked, Launched

(* A chain is resolved before it is launched. *)
LEMMA ChainResolved ==
  ASSUME Inv, Built, Checked, phase \in {"start"} \cup Launched
  PROVE  /\ Len(resolved) \in Nat \ {0} /\ resolved \in Seq(StepId)
         /\ \A k \in 1 .. Len(resolved) : resolved[k] \in StepId
         /\ \A k \in 1 .. Len(resolved) - 1 : Feeds(resolved[k], resolved[k + 1])
<1>1. consumed > 0
  <2>1. Len(ids) \in Nat /\ Len(ids) >= 1
    BY RequestIds DEF Inv
  <2>q. QED
    BY <2>1 DEF Checked
<1>q. QED
  BY <1>1, BuiltEnds DEF Inv, ChainCompatible, Chained

(* The start of a chain gives its first step what it needs. *)
LEMMA StartWalked == Inv /\ Built /\ Checked /\ Walked /\ StartFirst => Walked'
<1> SUFFICES ASSUME Inv, Built, Checked, Walked, StartFirst PROVE Walked'
  OBVIOUS
<1>1. /\ index' = 1 /\ phase' = "queued" /\ UNCHANGED <<resolved, ran>> /\ ran = <<>>
      /\ WiredFirst(resolved[1]) /\ payload' \subseteq Keys
      /\ phase = "start"
  BY DEF StartFirst, Startable, Walked, Keys, Launched
<1>2. Len(resolved) \in Nat \ {0}
  BY <1>1, ChainResolved
<1>3. attach' \in BOOLEAN /\ (attach' => resolved[1] = "subfinder" /\ AttachDnsChain(resolved))
  BY DEF StartFirst
<1>4. ArgumentsAdequate'
  BY <1>1 DEF ArgumentsAdequate, WiredFirst
<1>5. RanTo(0)' /\ 1 \in 0 .. Len(resolved) /\ 1 - 1 = 0
  BY <1>1, <1>2 DEF RanTo
<1>q. QED
  BY <1>1, <1>3, <1>4, <1>5 DEF Walked, NoStepDropped, AttachDnsChain, Launched

(* The step whose turn it is runs and hands over to the next. *)
LEMMA RunWalked ==
  ASSUME Inv, Built, Checked, Walked, NEW found \in BOOLEAN, RunStep(found)
  PROVE  Walked'
<1> DEFINE s == resolved[index]
           result == Result(s, payload, found)
           next == resolved[index + 1]
<1>1. /\ phase = "queued" /\ found \in MayFind(s) /\ UNCHANGED <<resolved, attach>>
      /\ ran' = Append(ran, s)
  BY DEF RunStep, Ran
<1>2. /\ Len(resolved) \in Nat \ {0} /\ resolved \in Seq(StepId)
      /\ index \in 1 .. Len(resolved) /\ s \in StepId
      /\ \A k \in 1 .. Len(resolved) - 1 : Feeds(resolved[k], resolved[k + 1])
  <2>1. /\ Len(resolved) \in Nat \ {0} /\ resolved \in Seq(StepId)
        /\ \A k \in 1 .. Len(resolved) : resolved[k] \in StepId
        /\ \A k \in 1 .. Len(resolved) - 1 : Feeds(resolved[k], resolved[k + 1])
    BY <1>1, ChainResolved DEF Launched
  <2>2. index \in 1 .. Len(resolved)
    BY <1>1, <2>1 DEF Walked
  <2>q. QED
    BY <2>1, <2>2
<1>3. ran' \in Seq(StepId) /\ Len(ran') = index /\ \A k \in 1 .. index : ran'[k] = resolved[k]
  <2>1. Len(ran) = index - 1 /\ ran \in Seq(StepId) /\ \A k \in 1 .. index - 1 : ran[k] = resolved[k]
    BY <1>1 DEF Walked, RanTo
  <2>2. /\ ran' \in Seq(StepId) /\ Len(ran') = index
        /\ \A k \in 1 .. index - 1 : ran'[k] = ran[k]
        /\ ran'[index] = s
    BY <1>1, <1>2, <2>1
  <2>3. \A k \in 1 .. index : k = index \/ k \in 1 .. index - 1
    BY <1>2
  <2>q. QED
    BY <2>1, <2>2, <2>3
<1>4. index = Len(resolved) => ran' = resolved
  BY <1>2, <1>3, SeqEqual
<1>5. result \subseteq Keys /\ Invocation(next, result) \subseteq Keys
  BY DEF Result, Invocation, Keys, Walked
<1>6. CASE attach /\ index = 1
  <2>1. s = "subfinder" /\ AttachDnsChain(resolved)
    BY <1>6 DEF Walked
  <2>2. Len(resolved) = 1
    <3>1. ASSUME Len(resolved) > 1 PROVE FALSE
      <4>1. 1 \in 1 .. Len(resolved) - 1 /\ 2 \in 1 .. Len(resolved) /\ 1 + 1 = 2
        BY <1>2, <3>1
      <4>2. resolved[2] \in StepId /\ Feeds("subfinder", resolved[2])
        BY <1>2, <1>6, <2>1, <4>1
      <4>3. resolved[2] = "dns_resolve"
        BY <4>2, Feeders DEF StepId
      <4>q. QED
        BY <2>1, <3>1, <4>3 DEF AttachDnsChain
    <3>2. Len(resolved) \in Nat \ {0} => Len(resolved) = 1 \/ Len(resolved) > 1
      OBVIOUS
    <3>q. QED
      BY <1>2, <3>1, <3>2
  <2>3. ran' = resolved
    BY <1>4, <1>6, <2>2
  <2>4. /\ phase' = (IF found THEN "dns_tail" ELSE "done")
        /\ index' = index /\ payload' = result
    BY <1>6 DEF RunStep, Ran
  <2>5. phase' = "dns_tail" => payload' = Keys
    BY <2>1, <2>4 DEF Result, Keys
  <2>q. QED
    BY <1>1, <1>2, <1>3, <1>5, <1>6, <2>1, <2>3, <2>4, <2>5
       DEF Walked, ArgumentsAdequate, NoStepDropped, Launched
<1>7. CASE ~ (attach /\ index = 1) /\ StopsChain(s, found)
  <2>1. phase' = "stopped" /\ index' = index /\ payload' = result
    BY <1>7 DEF RunStep, Ran
  <2>q. QED
    BY <1>1, <1>2, <1>3, <1>5, <2>1 DEF Walked, ArgumentsAdequate, NoStepDropped, Launched
<1>8. CASE ~ (attach /\ index = 1) /\ ~ StopsChain(s, found) /\ index = Len(resolved)
  <2>1. phase' = "done" /\ index' = index /\ payload' = result
    BY <1>8 DEF RunStep, Ran
  <2>q. QED
    BY <1>1, <1>2, <1>3, <1>4, <1>5, <1>8, <2>1 DEF Walked, ArgumentsAdequate, NoStepDropped, Launched
<1>9. CASE ~ (attach /\ index = 1) /\ ~ StopsChain(s, found) /\ index # Len(resolved)
  <2>1. phase' = "queued" /\ index' = index + 1 /\ payload' = Invocation(next, result)
    BY <1>9 DEF RunStep, Ran
  <2>2. index \in 1 .. Len(resolved) - 1 /\ index + 1 \in 1 .. Len(resolved)
        /\ index + 1 \in 0 .. Len(resolved) /\ index + 1 - 1 = index /\ index + 1 >= 1
    BY <1>2, <1>9
  <2>3. next \in StepId /\ Feeds(s, next)
    BY <1>2, <2>2
  <2>4. s = "subfinder" => found
    BY <1>9 DEF StopsChain
  <2>5. ArgumentsAdequate'
    <3>1. CASE next = "dns_resolve"
      <4>1. s = "subfinder"
        BY <1>2, <2>3, <3>1, Feeders
      <4>2. payload' = Keys
        BY <2>1, <2>4, <3>1, <4>1 DEF Invocation, Result, Keys
      <4>q. QED
        BY <1>1, <2>1, <3>1, <4>2 DEF ArgumentsAdequate
    <3>2. CASE next = "httpx_stub"
      <4>1. s = "dns_resolve"
        BY <1>2, <2>3, <3>2, Feeders
      <4>2. "program_id" \in payload'
        BY <2>1, <3>2, <4>1 DEF Invocation, Result
      <4>q. QED
        BY <1>1, <2>1, <3>2, <4>2 DEF ArgumentsAdequate
    <3>3. CASE next # "dns_resolve" /\ next # "httpx_stub"
      BY <1>1, <2>1, <3>3 DEF ArgumentsAdequate
    <3>q. QED
      BY <3>1, <3>2, <3>3
  <2>6. Len(ran') = index' - 1 /\ \A k \in 1 .. index' - 1 : ran'[k] = resolved'[k]
    BY <1>1, <1>3, <2>1, <2>2
  <2>q. QED
    BY <1>1, <1>3, <1>5, <2>1, <2>2, <2>5, <2>6 DEF Walked, RanTo, NoStepDropped, Launched
<1>q. QED
  BY <1>6, <1>7, <1>8, <1>9

(* Every step keeps how far the launch has walked. *)
LEMMA StepWalked == Inv /\ Built /\ Checked /\ Walked /\ [Next]_vars => Walked'
<1> SUFFICES ASSUME Inv, Built, Checked, Walked, [Next]_vars PROVE Walked'
  OBVIOUS
<1>1. CASE StartFirst
  BY <1>1, StartWalked
<1>2. ASSUME NEW found \in BOOLEAN, RunStep(found) PROVE Walked'
  BY <1>2, RunWalked
<1>3. ASSUME NEW found \in BOOLEAN, RunDnsTail(found) PROVE Walked'
  <2>1. /\ phase = "dns_tail" /\ attach /\ phase' = "done" /\ index' = index
        /\ ran' = Append(ran, BridgeStep)
        /\ payload' \subseteq Keys /\ UNCHANGED <<resolved, attach>> /\ ran = resolved
    BY <1>3 DEF RunDnsTail, Ran, Walked, Result, BridgeStep, Keys
  <2>2. ran \in Seq(StepId) /\ BridgeStep \in StepId
    BY DEF Walked, BridgeStep, StepId
  <2>3. ran' \in Seq(StepId) /\ ran' = resolved \o <<BridgeStep>>
    BY <2>1, <2>2
  <2>q. QED
    BY <2>1, <2>3 DEF Walked, ArgumentsAdequate, NoStepDropped, Launched
<1>4. ASSUME UNCHANGED <<index, payload, attach, ran>>, phase \notin Launched, phase' \notin Launched,
             Len(resolved') \in Nat
      PROVE  Walked'
  <2>1. index = 0 /\ ran = <<>> /\ attach = FALSE /\ payload \subseteq Keys
    BY <1>4 DEF Walked
  <2>q. QED
    BY <1>4, <2>1 DEF Walked, ArgumentsAdequate, NoStepDropped, Launched
<1>5. Len(resolved') \in Nat
  BY StepInv DEF Inv
<1>6. CASE RejectEntries \/ TakeFirst \/ ExtendPlain \/ ExtendBridged \/ RejectPair \/ SequenceValid
           \/ CheckTarget \/ RejectTarget \/ RejectStart
  <2>1. UNCHANGED <<index, payload, attach, ran>> /\ phase \notin Launched /\ phase' \notin Launched
    BY <1>6 DEF RejectEntries, TakeFirst, ExtendPlain, ExtendBridged, RejectPair, SequenceValid,
         CheckTarget, RejectTarget, RejectStart, Reject, Launched
  <2>q. QED
    BY <1>4, <1>5, <2>1
<1>7. CASE UNCHANGED vars
  BY <1>7 DEF vars, Walked, RanTo, ArgumentsAdequate, NoStepDropped, Launched
<1>q. QED
  BY <1>1, <1>2, <1>3, <1>6, <1>7 DEF Next, Terminating

(* All parts of the invariant hold of every launch. *)
LEMMA LaunchInvariance == Spec => [](Inv /\ Built /\ Checked /\ Walked)
<1>1. Init => Inv /\ Built /\ Checked /\ Walked
  BY InitInv, InitBuilt, InitChecked, InitWalked
<1>2. Inv /\ Built /\ Checked /\ Walked /\ [Next]_vars => (Inv /\ Built /\ Checked /\ Walked)'
  BY StepInv, StepBuilt, StepChecked, StepWalked
<1>q. QED
  BY <1>1, <1>2, PTL DEF Spec

(* The variables of a launch have their types. *)
THEOREM LaunchTypes == Spec => []TypeOK
<1>1. Inv /\ Built /\ Checked /\ Walked => TypeOK
  BY DEF Inv, Built, Checked, Walked, Launched, TypeOK, Ended
<1>q. QED
  BY LaunchInvariance, <1>1, PTL

(* Comparing each id with the end of the list gives the pairwise outcome,   *)
(* for requests of every length.                                            *)
THEOREM BridgesArePairwise == Spec => []BridgedAsSpecified
<1>1. Built => BridgedAsSpecified
  BY DEF Built
<1>q. QED
  BY LaunchInvariance, <1>1, PTL

(* The verdict on a request can be read off the request. *)
THEOREM VerdictsArePairwise == Spec => []VerdictIsPairwise
<1>1. Inv /\ Built /\ Checked => VerdictIsPairwise
  <2> SUFFICES ASSUME Inv, Built, Checked PROVE VerdictIsPairwise
    OBVIOUS
  <2>1. ASSUME phase \in Launched PROVE Launchable
    <3>1. Len(ids) \in Nat /\ Len(ids) >= 1
      BY RequestIds DEF Inv
    <3>2. consumed = Len(ids) /\ consumed > 0 /\ Accepts(ids[1], request.target) /\ Startable
      BY <2>1, <3>1 DEF Checked
    <3>3. resolved[1] = ids[1]
      BY <3>2, BuiltEnds
    <3>4. KnownEntries /\ \A k \in 2 .. Len(ids) : PairPasses(k)
      BY <3>2 DEF Built
    <3>q. QED
      BY <3>2, <3>3, <3>4 DEF Launchable, PairwiseValid, PairPasses, Startable
  <2>q. QED
    BY <2>1 DEF VerdictIsPairwise, Checked, Launched
<1>q. QED
  BY LaunchInvariance, <1>1, PTL

(* A step is enqueued only with arguments it can work on. *)
THEOREM ArgumentsAreAdequate == Spec => []ArgumentsAdequate
<1>1. Walked => ArgumentsAdequate
  BY DEF Walked
<1>q. QED
  BY LaunchInvariance, <1>1, PTL

(* A launch that was not stopped ran its whole chain. *)
THEOREM NoStepIsDropped == Spec => []NoStepDropped
<1>1. Walked => NoStepDropped
  BY DEF Walked
<1>q. QED
  BY LaunchInvariance, <1>1, PTL
=============================================================================
