------------------------------ MODULE StepChain ------------------------------
(***************************************************************************)
(* What a chain of scan steps promises, without rows, messages and status  *)
(* requests: a step runs at least once and at most MaxRetries + 1 times;   *)
(* an attempt that has delivered its result hands over to at most one next *)
(* step, the one the plan and the result call for; and a step is shown as  *)
(* completed only when one of its attempts has delivered.  ScanJobs        *)
(* implements it.                                                          *)
(***************************************************************************)
EXTENDS WorkflowSteps

CONSTANTS Task, Root, NoTask, Plans, MaxRetries

VARIABLES
  plan, step,       \* of a task: its chain and its place in it
  parent, attempt,  \* the task and the attempt that handed over to it
  retries,          \* attempts so far, without the first
  phase,            \* where its latest attempt is
  found,            \* whether the latest delivery found something
  worked,           \* whether it has ever delivered
  completed         \* tasks shown as completed

origin == <<plan, step, parent, attempt>>
vars   == <<origin, retries, phase, found, worked, completed>>

Phase  == {"none", "pending", "ready", "running", "delivered", "failing",
           "succeeded", "given_up", "lost"}
Active == {"running", "delivered", "failing"}

Init ==
  /\ plan = [t \in Task |-> HealthPlan] /\ step = [t \in Task |-> 1]
  /\ parent = [t \in Task |-> NoTask] /\ attempt = [t \in Task |-> 0]
  /\ retries = [t \in Task |-> 0] /\ phase = [t \in Task |-> "none"]
  /\ found = [t \in Task |-> FALSE] /\ worked = [t \in Task |-> FALSE]
  /\ completed = {}

Move(t, from, to) == phase[t] \in from /\ phase' = [phase EXCEPT ![t] = to]

(* A request opens a chain; its message is sent at once or later, or never. *)
Open(t, pl, to) ==
  /\ t \in Root /\ Move(t, {"none"}, to)
  /\ plan' = [plan EXCEPT ![t] = pl]
  /\ UNCHANGED <<step, parent, attempt, retries, found, worked, completed>>

Issue(t) ==
  /\ Move(t, {"pending"}, "ready")
  /\ UNCHANGED <<origin, retries, found, worked, completed>>

Start(t) ==
  /\ Move(t, {"ready"}, "running")
  /\ UNCHANGED <<origin, retries, found, worked, completed>>

Deliver(t, some) ==
  /\ Move(t, {"running"}, "delivered")
  /\ found' = [found EXCEPT ![t] = some] /\ worked' = [worked EXCEPT ![t] = TRUE]
  /\ UNCHANGED <<origin, retries, completed>>

(* The step after t: the DNS step that a subfinder step with finds attaches, *)
(* or else the next of its chain.                                            *)
Successor(t, pl, n) ==
  LET this == plan[t].steps[step[t]]
  IN  IF plan[t].attach /\ TaskOf(this) = "subfinder"
        THEN found[t] /\ pl = DnsPlan /\ n = 1
        ELSE /\ plan[t].routed /\ step[t] < Len(plan[t].steps) /\ ~StopsChain(this, found[t])
             /\ pl = plan[t] /\ n = step[t] + 1

HandedOver(t) == \E d \in Task : parent[d] = t /\ attempt[d] = retries[t]

Hand(t, c, pl, n, to) ==
  /\ phase[t] = "delivered" /\ ~HandedOver(t) /\ Successor(t, pl, n)
  /\ c \notin Root /\ Move(c, {"none"}, to)
  /\ plan' = [plan EXCEPT ![c] = pl] /\ step' = [step EXCEPT ![c] = n]
  /\ parent' = [parent EXCEPT ![c] = t] /\ attempt' = [attempt EXCEPT ![c] = retries[t]]
  /\ UNCHANGED <<retries, found, worked, completed>>

Succeed(t) ==
  /\ Move(t, {"delivered"}, "succeeded")
  /\ UNCHANGED <<origin, retries, found, worked, completed>>

Fail(t) ==
  /\ Move(t, {"running", "delivered"}, "failing")
  /\ UNCHANGED <<origin, retries, found, worked, completed>>

Again(t) ==
  /\ Move(t, {"failing"}, "ready") /\ retries[t] < MaxRetries
  /\ retries' = [retries EXCEPT ![t] = @ + 1]
  /\ UNCHANGED <<origin, found, worked, completed>>

GiveUp(t) ==
  /\ Move(t, {"failing"}, "given_up")
  /\ UNCHANGED <<origin, retries, found, worked, completed>>

Lose(t) ==
  /\ Move(t, Active, "lost")
  /\ UNCHANGED <<origin, retries, found, worked, completed>>

(* Statuses come and go, but never ahead of the work. *)
Show ==
  /\ completed' \subseteq {t \in Task : worked[t]}
  /\ UNCHANGED <<origin, retries, phase, found, worked>>

-----------------------------------------------------------------------------
(* What a worker does of itself with a task that has been issued. *)
Advance(t) ==
  \/ Start(t) \/ (\E some \in BOOLEAN : Deliver(t, some))
  \/ Succeed(t) \/ Fail(t) \/ Again(t) \/ GiveUp(t)

Next ==
  \/ Show
  \/ \E t \in Task : Issue(t) \/ Advance(t) \/ Lose(t)
  \/ \E t \in Task, to \in {"pending", "ready"} :
       \/ \E c \in Task, pl \in {plan[t], DnsPlan}, n \in {step[t] + 1, 1} : Hand(t, c, pl, n, to)
       \/ \E pl \in Plans \cup {DiscoveryPlan} : Open(t, pl, to)

Spec == Init /\ [][Next]_vars

(* Every chain comes to rest: at some time every step that was ever issued    *)
(* has ended or is lost, and nothing is retried or handed over any more.      *)
ComesToRest == <>[](\A t \in Task : phase[t] \notin {"ready"} \cup Active)
=============================================================================
