--------------------------- MODULE WorkflowSteps ---------------------------
(***************************************************************************)
(* The step registry of services/workflow_service.py: the tools a workflow *)
(* is made of, what each consumes and produces, the compatibility relation *)
(* between neighbouring steps, the bridges that repair an incompatible     *)
(* pair, and the plans the launch endpoints can start.  Constant-level:    *)
(* shared by WorkflowRouter (building and walking a chain) and ScanJobs    *)
(* (running it).                                                           *)
(***************************************************************************)
EXTENDS Integers, Sequences

Kind == {"DOMAIN", "SUBDOMAIN", "IP", "HOST_OR_IP", "ARBITRARY"}

(* The registry; task is the Celery task the step is bound to. *)
WorkflowStep ==
  [subfinder   |-> [input |-> "DOMAIN",     output |-> "SUBDOMAIN", task |-> "subfinder"],
   dns_resolve |-> [input |-> "SUBDOMAIN",  output |-> "IP",        task |-> "dns"],
   httpx_stub  |-> [input |-> "IP",         output |-> "ARBITRARY", task |-> "stub"],
   nmap        |-> [input |-> "HOST_OR_IP", output |-> "ARBITRARY", task |-> "stub"],
   nuclei      |-> [input |-> "HOST_OR_IP", output |-> "ARBITRARY", task |-> "stub"]]

(* Its keys. *)
StepId == {"subfinder", "dns_resolve", "httpx_stub", "nmap", "nuclei"}

(* The task behind a step; a health check is no step of the registry. *)
TaskOf(s) == IF s = "ping" THEN "ping" ELSE WorkflowStep[s].task

(* Target asset types that step 0 accepts ("any" type when unrestricted). *)
Accepts(s, type) == s = "subfinder" => type = "DOMAIN"

(* What one step's primary output may feed into the next step's input. *)
FeedsKind(out, in) ==
  \/ out = in
  \/ in = "ARBITRARY"
  \/ out \in {"IP", "ARBITRARY"} /\ in = "HOST_OR_IP"

Feeds(a, b) == FeedsKind(WorkflowStep[a].output, WorkflowStep[b].input)

(* Pairs (output, input) AUTO_BRIDGE_STEPS repairs, each by the one step dns_resolve. *)
BridgedKinds == {<<"SUBDOMAIN", "IP">>, <<"SUBDOMAIN", "HOST_OR_IP">>}
BridgeStep   == "dns_resolve"

HasBridge(a, b) == <<WorkflowStep[a].output, WorkflowStep[b].input>> \in BridgedKinds

(* A chain every neighbouring pair of which is compatible. *)
Chained(seq) == \A k \in 1 .. Len(seq) - 1 : Feeds(seq[k], seq[k + 1])

(* Mutant: subfinder's stop rule is missing. *)
StopsOnlyNmap(s, found) == s = "nmap" /\ ~found

(* stop_chain_if: the chain ends after a step whose result is empty.  found is *)
(* whether the step's result list is non-empty; only these two steps ask.      *)
StopsChain(s, found) == s \in {"subfinder", "nmap"} /\ ~found

(* tool_stub answers with an empty result list; http_probe_stub likewise finds *)
(* nothing.  subfinder and dns_resolve may or may not find something.          *)
MayFind(s) == IF WorkflowStep[s].task = "stub" THEN {FALSE} ELSE BOOLEAN

(* Mutant: every custom subfinder run attaches the DNS task. *)
AttachAlways(seq) == TRUE

(* attach_dns_chain of a custom workflow started with subfinder. *)
AttachDnsChain(seq) == ~(Len(seq) > 1 /\ seq[2] = "dns_resolve")

NamedSequences == {<<"subfinder", "dns_resolve", "httpx_stub">>, <<"nmap", "nuclei">>}

(* First steps start_custom_workflow knows how to enqueue. *)
WiredFirst(s) == s \in {"subfinder", "nmap", "nuclei"}

(* A plan: the chain of steps, whether its subfinder step hands over to an     *)
(* untracked DNS task of its own, and whether the router continues the chain.  *)
Plan == [steps : Seq(StepId \cup {"ping"}), routed : BOOLEAN, attach : BOOLEAN]

CustomPlan(seq) == [steps |-> seq, routed |-> TRUE,
                    attach |-> seq[1] = "subfinder" /\ AttachDnsChain(seq)]
NamedPlan(seq)  == [steps |-> seq, routed |-> TRUE, attach |-> FALSE]
DiscoveryPlan   == [steps |-> <<"subfinder">>, routed |-> FALSE, attach |-> TRUE]
HealthPlan      == [steps |-> <<"ping">>, routed |-> FALSE, attach |-> FALSE]
DnsPlan         == [steps |-> <<"dns_resolve">>, routed |-> FALSE, attach |-> FALSE]
=============================================================================
