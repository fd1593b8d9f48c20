--------------------------- MODULE WorkflowRouter ---------------------------
(***************************************************************************)
(* One workflow launch of services/workflow_service.py, from the requested *)
(* list of tools to the last step that runs: validate_sequence's loop with *)
(* its bridging, the check of the target, the start of step 0, and the     *)
(* hand-over of each step's result to the next by trigger_next_step.       *)
(* Worker failures, retries and job rows are ScanJobs' subject; here every *)
(* step that can run does, and what is checked is which steps run, in what *)
(* order and with which arguments.                                         *)
(***************************************************************************)
EXTENDS WorkflowSteps, FiniteSets

CONSTANTS
  Unknown,    \* a requested entry that is no registered tool
  Blank,      \* a requested entry that is empty once stripped
  MaxLen,     \* bound on the length of a requested sequence
  TargetType  \* the asset types a target is taken from

ASSUME RouterAssumption ==
  /\ Unknown \notin StepId /\ Blank \notin StepId /\ Unknown # Blank
  /\ MaxLen \in Nat \ {0}

VARIABLES
  request,    \* the launch request; ids are entries after strip().lower()
  phase,      \* where the launch is
  resolved,   \* validate_sequence: the sequence built so far
  consumed,   \* how many requested ids it holds
  bridgeLog,  \* bridge steps inserted
  index,      \* workflow_step_index of the step enqueued
  payload,    \* non-empty keys of the arguments it was enqueued with
  attach,     \* attach_dns_chain given to a subfinder step
  ran         \* the steps that ran, in order

vars == <<request, phase, resolved, consumed, bridgeLog, index, payload, attach, ran>>

(* Requested sequences: at least one entry, any entries. *)
Requested == UNION {[1 .. n -> StepId \cup {Unknown, Blank}] : n \in 1 .. MaxLen}

Requests ==
  [named : {FALSE}, ids : Requested, autoBridge : BOOLEAN, target : TargetType, value : BOOLEAN]
    \cup
  [named : {TRUE}, ids : NamedSequences, autoBridge : {FALSE}, target : TargetType, value : BOOLEAN]

Init ==
  /\ request \in Requests
  /\ phase = IF request.named THEN "target" ELSE "entries"
  /\ resolved = <<>> /\ consumed = 0 /\ bridgeLog = <<>>
  /\ index = 0 /\ payload = {} /\ attach = FALSE /\ ran = <<>>

ids == request.ids

Reject ==
  /\ phase' = "rejected"
  /\ UNCHANGED <<request, resolved, consumed, bridgeLog, index, payload, attach, ran>>

(***************************************************************************)
(* validate_sequence.                                                      *)
(***************************************************************************)
KnownEntries == \A k \in 1 .. Len(ids) : ids[k] \in StepId

(* Blank entries, then unknown ones, are refused before the loop starts. *)
RejectEntries == phase = "entries" /\ ~KnownEntries /\ Reject

TakeFirst ==
  /\ phase = "entries" /\ KnownEntries
  /\ resolved' = <<ids[1]>> /\ consumed' = 1
  /\ phase' = "pairs"
  /\ UNCHANGED <<request, bridgeLog, index, payload, attach, ran>>

LastStep == resolved[Len(resolved)]
NextId   == ids[consumed + 1]

ExtendPlain ==
  /\ phase = "pairs" /\ consumed < Len(ids)
  /\ Feeds(LastStep, NextId)
  /\ resolved' = Append(resolved, NextId)
  /\ consumed' = consumed + 1
  /\ UNCHANGED <<request, phase, bridgeLog, index, payload, attach, ran>>

(* Mutant: auto_bridge is ignored. *)
ExtendAlways ==
  /\ phase = "pairs" /\ consumed < Len(ids)
  /\ ~Feeds(LastStep, NextId) /\ HasBridge(LastStep, NextId)
  /\ resolved' = resolved \o <<BridgeStep, NextId>>
  /\ bridgeLog' = Append(bridgeLog, BridgeStep)
  /\ consumed' = consumed + 1
  /\ UNCHANGED <<request, phase, index, payload, attach, ran>>

(* Mutant: the id itself is not appended after its bridge. *)
ExtendBridgeOnly ==
  /\ phase = "pairs" /\ consumed < Len(ids)
  /\ ~Feeds(LastStep, NextId) /\ HasBridge(LastStep, NextId) /\ request.autoBridge
  /\ resolved' = Append(resolved, BridgeStep)
  /\ bridgeLog' = Append(bridgeLog, BridgeStep)
  /\ consumed' = consumed + 1
  /\ UNCHANGED <<request, phase, index, payload, attach, ran>>

ExtendBridged ==
  /\ phase = "pairs" /\ consumed < Len(ids)
  /\ ~Feeds(LastStep, NextId)
  /\ HasBridge(LastStep, NextId) /\ request.autoBridge
  /\ resolved' = resolved \o <<BridgeStep, NextId>>
  /\ bridgeLog' = Append(bridgeLog, BridgeStep)
  /\ consumed' = consumed + 1
  /\ UNCHANGED <<request, phase, index, payload, attach, ran>>

RejectPair ==
  /\ phase = "pairs" /\ consumed < Len(ids)
  /\ ~Feeds(LastStep, NextId)
  /\ ~(HasBridge(LastStep, NextId) /\ request.autoBridge)
  /\ Reject

SequenceValid ==
  /\ phase = "pairs" /\ consumed = Len(ids)
  /\ phase' = IF request.named THEN "start" ELSE "target"
  /\ UNCHANGED <<request, resolved, consumed, bridgeLog, index, payload, attach, ran>>

(***************************************************************************)
(* validate_sequence_against_target: step 0 is the first requested id.     *)
(***************************************************************************)
CheckTarget ==
  /\ phase = "target"
  /\ Accepts(ids[1], request.target)
  /\ phase' = IF request.named THEN "entries" ELSE "start"
  /\ UNCHANGED <<request, resolved, consumed, bridgeLog, index, payload, attach, ran>>

RejectTarget == phase = "target" /\ ~Accepts(ids[1], request.target) /\ Reject

(***************************************************************************)
(* start_workflow and start_custom_workflow: enqueue step 0, or refuse a   *)
(* first tool that is not wired or a subfinder target without a value.     *)
(***************************************************************************)
Startable == WiredFirst(resolved[1]) /\ (resolved[1] = "subfinder" => request.value)

StartFirst ==
  /\ phase = "start" /\ Startable
  /\ attach' = /\ ~request.named
               /\ resolved[1] = "subfinder"
               /\ AttachDnsChain(resolved)
  /\ payload' = IF resolved[1] = "subfinder" THEN {"program_id"} ELSE {}
  /\ index' = 1
  /\ phase' = "queued"
  /\ UNCHANGED <<request, resolved, consumed, bridgeLog, ran>>

RejectStart == phase = "start" /\ ~Startable /\ Reject

(***************************************************************************)
(* A step runs: the non-empty keys of the result it hands to the router,   *)
(* and what the router makes of it.                                        *)
(***************************************************************************)
Result(s, args, found) ==
  CASE s = "subfinder"   -> {"program_id"} \cup (IF found THEN {"subdomain_asset_ids"} ELSE {})
    [] s = "dns_resolve" -> {"program_id"}
    [] s = "httpx_stub"  -> args \cap {"program_id"}
    [] OTHER             -> {}

(* _build_celery_invocation: httpx_stub is passed the program id alone. *)
Invocation(s, result) == IF s = "httpx_stub" THEN result \cap {"program_id"} ELSE result

Ran(s, phase2, index2, payload2) ==
  /\ ran' = Append(ran, s)
  /\ phase' = phase2 /\ index' = index2 /\ payload' = payload2
  /\ UNCHANGED <<request, resolved, consumed, bridgeLog, attach>>

RunStep(found) ==
  LET s      == resolved[index]
      result == Result(s, payload, found)
  IN  /\ phase = "queued" /\ found \in MayFind(s)
      /\ IF attach /\ index = 1
           THEN Ran(s, IF found THEN "dns_tail" ELSE "done", index, result)
           ELSE IF StopsChain(s, found) THEN Ran(s, "stopped", index, result)
           ELSE IF index = Len(resolved) THEN Ran(s, "done", index, result)
           ELSE Ran(s, "queued", index + 1, Invocation(resolved[index + 1], result))

(* resolve_dns_batch chained by process_subdomain_discovery, without a workflow. *)
RunDnsTail(found) ==
  /\ phase = "dns_tail" /\ found \in MayFind(BridgeStep)
  /\ Ran(BridgeStep, "done", index, Result(BridgeStep, payload, found))

Ended == {"rejected", "stopped", "done"}

Terminating == phase \in Ended /\ UNCHANGED vars

Next ==
  \/ RejectEntries \/ TakeFirst \/ ExtendPlain \/ ExtendBridged \/ RejectPair
  \/ SequenceValid \/ CheckTarget \/ RejectTarget \/ StartFirst \/ RejectStart
  \/ \E found \in BOOLEAN : RunStep(found) \/ RunDnsTail(found)
  \/ Terminating

Spec == Init /\ [][Next]_vars

-----------------------------------------------------------------------------
(***************************************************************************)
(* Properties.                                                             *)
(***************************************************************************)
Keys == {"program_id", "subdomain_asset_ids"}

(* Every variable holds a value the code can put there; in particular only *)
(* registered bridge steps are logged as bridges.                          *)
TypeOK ==
  /\ request \in Requests
  /\ phase \in {"entries", "pairs", "target", "start", "queued", "dns_tail"} \cup Ended
  /\ resolved \in Seq(StepId) /\ ran \in Seq(StepId)
  /\ consumed \in 0 .. Len(ids) /\ index \in 0 .. Len(resolved)
  /\ bridgeLog \in Seq({BridgeStep})
  /\ payload \subseteq Keys /\ attach \in BOOLEAN

(* The chain validate_sequence has built is compatible at every joint, the *)
(* inserted bridges included, however the requested steps are mixed.       *)
ChainCompatible == Chained(resolved)

(* The number of bridges in front of the k-th requested id, and its place. *)
Broken(k) == k > 1 /\ ~Feeds(ids[k - 1], ids[k])
Place(k)  == k + Cardinality({j \in 1 .. k : Broken(j)})

(* The loop compares each id with the end of the list built so far; the    *)
(* outcome is nevertheless the pairwise one: every requested id is kept in *)
(* order, with exactly one bridge before each id its predecessor in the    *)
(* request cannot feed, and the bridge log counts exactly these.           *)
BridgedAsSpecified ==
  consumed > 0 =>
    /\ Len(resolved) = Place(consumed)
    /\ Len(bridgeLog) = Len(resolved) - consumed
    /\ \A k \in 1 .. consumed :
         /\ resolved[Place(k)] = ids[k]
         /\ Broken(k) => resolved[Place(k) - 1] = BridgeStep

(* What makes a request acceptable, read off the request alone. *)
PairwiseValid ==
  /\ KnownEntries
  /\ \A k \in 2 .. Len(ids) :
       Feeds(ids[k - 1], ids[k]) \/ (request.autoBridge /\ HasBridge(ids[k - 1], ids[k]))
Launchable ==
  /\ PairwiseValid
  /\ Accepts(ids[1], request.target)
  /\ WiredFirst(ids[1])
  /\ ids[1] = "subfinder" => request.value

(* A launch reaches the queue exactly when its request is valid pair by    *)
(* pair, fits the target and starts with a wired tool: bridging neither    *)
(* rescues a request it should not nor spoils one it should rescue.        *)
VerdictIsPairwise ==
  /\ phase \in {"queued", "dns_tail", "stopped", "done"} => Launchable
  /\ phase = "rejected" => ~Launchable

(* Whatever chain was accepted, a step is enqueued only with arguments its *)
(* handler can work on: resolve_dns_batch with a program and some          *)
(* subdomains, http_probe_stub with a program.                             *)
ArgumentsAdequate ==
  /\ phase = "queued" =>
       CASE resolved[index] = "dns_resolve" -> payload = Keys
         [] resolved[index] = "httpx_stub"  -> "program_id" \in payload
         [] OTHER                           -> TRUE
  /\ phase = "dns_tail" => payload = Keys

(* A launch that was not stopped by an empty result ran every step of its  *)
(* resolved chain in order; only a lone subfinder adds a DNS task of its   *)
(* own.  (A subfinder step told to attach that DNS task never calls the    *)
(* router, so attaching it in front of further steps would drop them.)     *)
NoStepDropped ==
  phase = "done" =>
    ran = resolved \/ (attach /\ ran = resolved \o <<BridgeStep>>)
=============================================================================
