------------------------------ MODULE ScanJobs ------------------------------
(***************************************************************************)
(* Scan jobs from launch to their last status: the API transaction that    *)
(* writes a job row and sends its Celery task, the workers that run the    *)
(* task, retry it and dispatch the next step of a workflow, and the        *)
(* clients whose status requests write to the row as well.  A task and its *)
(* job row share one identifier; a task without a job keeps no row.        *)
(*   API       services/scan_service.py, services/workflow_service.py      *)
(*   rows      services/job_service.py, core/database.py                   *)
(*   workers   workers/base_task.py, workers/tasks/*.py                    *)
(* Celery is modelled from its use: a message is acknowledged when a       *)
(* worker takes it, so a crash loses the task; a retry puts the message    *)
(* back and reports RETRY; the last outcome stays SUCCESS or FAILURE.      *)
(***************************************************************************)
EXTENDS WorkflowSteps

CONSTANTS
  Task,        \* identifiers of tasks and of their job rows
  Root,        \* those the API may hand out; the others are for dispatched steps
  NoTask,      \* "no parent"
  Plans,       \* the plans that launches choose from
  MaxRetries,  \* retry_kwargs["max_retries"]
  Poller,      \* concurrent status requests
  MaxFaults    \* bound on the failures of one behaviour

ASSUME ScanJobsAssumption ==
  /\ Root \subseteq Task /\ NoTask \notin Task
  /\ Plans \subseteq Plan
  /\ MaxRetries \in Nat /\ MaxFaults \in Nat

(* An empty sequence is refused before a job exists. *)
ASSUME PlansHaveSteps == \A pl \in Plans : pl.steps # <<>>

VARIABLES
  plan, step, parent, attempt,    \* a task: its chain, its place in it, the task
                                  \* and the attempt of it that dispatched it
  txn, status, times, linked,     \* its job row: the writing transaction, status,
                                  \* which of start_time and end_time are set, and
                                  \* whether celery_task_id is
  pc, retries, found, child,      \* its worker
  worked,                         \* has some attempt committed its work?
  backend,                        \* state in the Celery result backend
  pollPc, pollTask, pollSeen,     \* a status request
  faults                          \* failures so far

taskVars == <<plan, step, parent, attempt>>
rowVars  == <<txn, status, times, linked>>
runVars  == <<retries, found, child, worked>>
pollVars == <<pollPc, pollTask, pollSeen>>
vars     == <<taskVars, rowVars, pc, runVars, backend, pollVars, faults>>

Terminal == {"completed", "failed"}

(* Where a task is inside a worker, and where it may be at all. *)
Executing == {"mark_running", "work", "dispatch", "send", "link",
              "mark_completed", "mark_failed", "raise", "return"}
PCs == {"unused", "unsent", "queued", "ended", "lost"} \cup Executing

Init ==
  /\ plan = [t \in Task |-> HealthPlan] /\ step = [t \in Task |-> 1]
  /\ parent = [t \in Task |-> NoTask] /\ attempt = [t \in Task |-> 0]
  /\ txn = [t \in Task |-> "none"] /\ status = [t \in Task |-> "absent"]
  /\ times = [t \in Task |-> {}] /\ linked = [t \in Task |-> FALSE]
  /\ pc = [t \in Task |-> "unused"] /\ retries = [t \in Task |-> 0]
  /\ found = [t \in Task |-> FALSE] /\ child = [t \in Task |-> NoTask]
  /\ worked = [t \in Task |-> FALSE] /\ backend = [t \in Task |-> "PENDING"]
  /\ pollPc = [p \in Poller |-> "idle"] /\ pollTask = [p \in Poller |-> NoTask]
  /\ pollSeen = [p \in Poller |-> "absent"]
  /\ faults = 0

Step(t)     == plan[t].steps[step[t]]
Handler(t)  == TaskOf(Step(t))
HasJobId(t) == txn[t] # "none"

(* Handlers that mark the job running and failed, and retry on any error. *)
MarksFailure(t) == Handler(t) \in {"ping", "subfinder"}
Retries(t)      == Handler(t) \in {"subfinder", "dns"}

Goto(t, label) == pc' = [pc EXCEPT ![t] = label]
Fault          == faults < MaxFaults /\ faults' = faults + 1

(* An uncommitted poll holds the lock of the row it has written. *)
RowFree(t) == \A p \in Poller : ~(pollPc[p] = "locked" /\ pollTask[p] = t)

(* Mutant: the row is marked without looking whether it is there. *)
MarkUnchecked(t, new) ==
  /\ RowFree(t)
  /\ status' = [status EXCEPT ![t] = new]
  /\ UNCHANGED <<txn, times, linked>>

(* Mutant: failed is taken for a final status. *)
MarkUnlessFailed(t, new) ==
  /\ RowFree(t)
  /\ IF status[t] \in {"absent", "failed"} THEN UNCHANGED <<status, times>>
     ELSE status' = [status EXCEPT ![t] = new] /\ UNCHANGED times
  /\ UNCHANGED <<txn, linked>>

(* mark_job_status in a transaction of its own; a row that is not there *)
(* (not yet committed, or rolled back) is passed over with a warning.   *)
Mark(t, new) ==
  /\ RowFree(t)
  /\ IF status[t] = "absent" THEN UNCHANGED <<status, times>>
     ELSE /\ status' = [status EXCEPT ![t] = new]
          /\ times' = [times EXCEPT ![t] = @ \cup
               (IF new \in Terminal THEN {"end"} ELSE {"start"})]
  /\ UNCHANGED <<txn, linked>>

(***************************************************************************)
(* The API.  launch_scan flushes the row, sends the task and stores its id *)
(* in one transaction, which get_db commits after the endpoint returns.    *)
(***************************************************************************)
Launch(t, pl) ==
  /\ t \in Root /\ pc[t] = "unused"
  /\ plan' = [plan EXCEPT ![t] = pl]
  /\ txn' = [txn EXCEPT ![t] = "flushed"]
  /\ Goto(t, "unsent")
  /\ UNCHANGED <<step, parent, attempt, status, times, linked, runVars, backend, pollVars, faults>>

LaunchSend(t) ==
  /\ txn[t] = "flushed"
  /\ txn' = [txn EXCEPT ![t] = "sent"]
  /\ Goto(t, "queued")
  /\ UNCHANGED <<taskVars, status, times, linked, runVars, backend, pollVars, faults>>

LaunchCommit(t) ==
  /\ txn[t] = "sent"
  /\ txn' = [txn EXCEPT ![t] = "committed"]
  /\ status' = [status EXCEPT ![t] = "pending"]
  /\ linked' = [linked EXCEPT ![t] = TRUE]
  /\ UNCHANGED <<taskVars, times, pc, runVars, backend, pollVars, faults>>

(* A target without a value, a first tool that is not wired. *)
LaunchRefused(t) ==
  /\ txn[t] = "flushed"
  /\ txn' = [txn EXCEPT ![t] = "rolledback"]
  /\ UNCHANGED <<taskVars, status, times, linked, pc, runVars, backend, pollVars, faults>>

(* The broker refuses the message, or the transaction fails after sending it. *)
LaunchFails(t) ==
  /\ txn[t] \in {"flushed", "sent"} /\ Fault
  /\ txn' = [txn EXCEPT ![t] = "rolledback"]
  /\ UNCHANGED <<taskVars, status, times, linked, pc, runVars, backend, pollVars>>

(* start_subdomain_discovery sends a discovery task that has no job. *)
StartDiscovery(t) ==
  /\ t \in Root /\ pc[t] = "unused"
  /\ plan' = [plan EXCEPT ![t] = DiscoveryPlan]
  /\ Goto(t, "queued")
  /\ UNCHANGED <<step, parent, attempt, rowVars, runVars, backend, pollVars, faults>>

(***************************************************************************)
(* The worker.  ping and subfinder: mark running, work, (dispatch), mark   *)
(* completed; any error marks the job failed.  dns and the stubs: work,    *)
(* mark completed (an error there is swallowed), dispatch.                 *)
(***************************************************************************)
Take(t) ==
  /\ pc[t] = "queued"
  /\ Goto(t, IF MarksFailure(t) /\ HasJobId(t) THEN "mark_running" ELSE "work")
  /\ UNCHANGED <<taskVars, rowVars, runVars, backend, pollVars, faults>>

(* Mutant: the worker waits for its row to appear. *)
MarkRunningWaits(t) ==
  /\ pc[t] = "mark_running" /\ Mark(t, "running")
  /\ Goto(t, IF status[t] = "absent" THEN "mark_running" ELSE "work")
  /\ UNCHANGED <<taskVars, runVars, backend, pollVars, faults>>

MarkRunning(t) ==
  /\ pc[t] = "mark_running" /\ Mark(t, "running")
  /\ Goto(t, "work")
  /\ UNCHANGED <<taskVars, runVars, backend, pollVars, faults>>

(* The handler's own transaction commits; a stub only builds its result. *)
Work(t, some) ==
  /\ pc[t] = "work"
  /\ some \in IF Handler(t) = "ping" THEN {FALSE} ELSE MayFind(Step(t))
  /\ found' = [found EXCEPT ![t] = some]
  /\ worked' = [worked EXCEPT ![t] = TRUE]
  /\ Goto(t, IF Handler(t) # "subfinder" /\ HasJobId(t) THEN "mark_completed" ELSE "dispatch")
  /\ UNCHANGED <<taskVars, rowVars, retries, child, backend, pollVars, faults>>

AfterDispatch(t) ==
  IF Handler(t) = "subfinder" /\ HasJobId(t) THEN "mark_completed" ELSE "return"

Attaches(t)  == plan[t].attach /\ Handler(t) = "subfinder"

(* Mutant: the stop rule is not asked. *)
ContinuesAlways(t) == plan[t].routed /\ ~Attaches(t) /\ step[t] < Len(plan[t].steps)

Continues(t) == /\ plan[t].routed /\ ~Attaches(t)
                /\ step[t] < Len(plan[t].steps)
                /\ ~StopsChain(Step(t), found[t])

DispatchNothing(t) ==
  /\ pc[t] = "dispatch"
  /\ ~Continues(t) /\ ~(Attaches(t) /\ found[t])
  /\ Goto(t, AfterDispatch(t))
  /\ UNCHANGED <<taskVars, rowVars, runVars, backend, pollVars, faults>>

(* chain(resolve_dns_batch.s(payload)).apply_async(): a task without a job. *)
AttachDns(t, c) ==
  /\ pc[t] = "dispatch" /\ Attaches(t) /\ found[t]
  /\ c \in Task \ Root /\ pc[c] = "unused"
  /\ plan' = [plan EXCEPT ![c] = DnsPlan]
  /\ parent' = [parent EXCEPT ![c] = t] /\ attempt' = [attempt EXCEPT ![c] = retries[t]]
  /\ pc' = [pc EXCEPT ![c] = "queued", ![t] = AfterDispatch(t)]
  /\ UNCHANGED <<step, rowVars, runVars, backend, pollVars, faults>>

(* trigger_next_step: sync_create_job, send_task, sync_set_celery_task_id. *)
CreateChild(t, c) ==
  /\ pc[t] = "dispatch" /\ Continues(t)
  /\ c \in Task \ Root /\ pc[c] = "unused"
  /\ plan' = [plan EXCEPT ![c] = plan[t]] /\ step' = [step EXCEPT ![c] = step[t] + 1]
  /\ parent' = [parent EXCEPT ![c] = t] /\ attempt' = [attempt EXCEPT ![c] = retries[t]]
  /\ txn' = [txn EXCEPT ![c] = "committed"] /\ status' = [status EXCEPT ![c] = "pending"]
  /\ child' = [child EXCEPT ![t] = c]
  /\ pc' = [pc EXCEPT ![c] = "unsent", ![t] = "send"]
  /\ UNCHANGED <<times, linked, retries, found, worked, backend, pollVars, faults>>

SendChild(t) ==
  /\ pc[t] = "send"
  /\ pc' = [pc EXCEPT ![child[t]] = "queued", ![t] = "link"]
  /\ UNCHANGED <<taskVars, rowVars, runVars, backend, pollVars, faults>>

LinkChild(t) ==
  /\ pc[t] = "link"
  /\ linked' = [linked EXCEPT ![child[t]] = TRUE]
  /\ Goto(t, AfterDispatch(t))
  /\ UNCHANGED <<taskVars, txn, status, times, runVars, backend, pollVars, faults>>

(* Mutant: completed is marked ahead of the hand-over. *)
MarkCompletedAhead(t) ==
  /\ pc[t] = "mark_completed" /\ Mark(t, "completed")
  /\ Goto(t, "dispatch")
  /\ UNCHANGED <<taskVars, runVars, backend, pollVars, faults>>

MarkCompleted(t) ==
  /\ pc[t] = "mark_completed" /\ Mark(t, "completed")
  /\ Goto(t, IF MarksFailure(t) THEN "return" ELSE "dispatch")
  /\ UNCHANGED <<taskVars, runVars, backend, pollVars, faults>>

MarkFailed(t) ==
  /\ pc[t] = "mark_failed" /\ Mark(t, "failed")
  /\ Goto(t, "raise")
  /\ UNCHANGED <<taskVars, runVars, backend, pollVars, faults>>

Return(t) ==
  /\ pc[t] = "return"
  /\ Goto(t, "ended")
  /\ backend' = [backend EXCEPT ![t] = "SUCCESS"]
  /\ UNCHANGED <<taskVars, rowVars, runVars, pollVars, faults>>

(***************************************************************************)
(* Failures of the worker's steps.                                         *)
(***************************************************************************)
(* Mutant: completed is written in a finally block. *)
OnErrorComplete(t) == IF MarksFailure(t) /\ HasJobId(t) THEN "mark_completed" ELSE "raise"

(* Where an error inside the handler's try block leads. *)
OnError(t) == IF MarksFailure(t) /\ HasJobId(t) THEN "mark_failed" ELSE "raise"

Fallible(t) ==
  \/ pc[t] = "work" /\ Handler(t) # "stub"
  \/ pc[t] = "dispatch" /\ (Continues(t) \/ (Attaches(t) /\ found[t]))
  \/ pc[t] \in {"send", "link"}
  \/ pc[t] = "mark_completed" /\ MarksFailure(t)

StepFails(t) ==
  /\ Fallible(t) /\ Fault
  /\ Goto(t, OnError(t))
  /\ UNCHANGED <<taskVars, rowVars, runVars, backend, pollVars>>

(* The mark before the try block, or the one in its except block, fails. *)
MarkFails(t) ==
  /\ pc[t] \in {"mark_running", "mark_failed"} /\ Fault
  /\ Goto(t, "raise")
  /\ UNCHANGED <<taskVars, rowVars, runVars, backend, pollVars>>

(* dns and the stubs log a failed mark and carry on. *)
SwallowedMark(t) ==
  /\ pc[t] = "mark_completed" /\ ~MarksFailure(t) /\ Fault
  /\ Goto(t, "dispatch")
  /\ UNCHANGED <<taskVars, rowVars, runVars, backend, pollVars>>

Retry(t) ==
  /\ pc[t] = "raise" /\ Retries(t) /\ retries[t] < MaxRetries
  /\ retries' = [retries EXCEPT ![t] = @ + 1]
  /\ backend' = [backend EXCEPT ![t] = "RETRY"]
  /\ Goto(t, "queued")
  /\ UNCHANGED <<taskVars, rowVars, found, child, worked, pollVars, faults>>

GiveUp(t) ==
  /\ pc[t] = "raise" /\ ~(Retries(t) /\ retries[t] < MaxRetries)
  /\ backend' = [backend EXCEPT ![t] = "FAILURE"]
  /\ Goto(t, "ended")
  /\ UNCHANGED <<taskVars, rowVars, runVars, pollVars, faults>>

(* The whole worker dies, or only the pool process: then its parent still  *)
(* reports the failure.  Acknowledged already, the task is not run again.  *)
Crash(t) ==
  /\ pc[t] \in Executing /\ Fault
  /\ \/ UNCHANGED backend
     \/ backend' = [backend EXCEPT ![t] = "FAILURE"]
  /\ Goto(t, "lost")
  /\ UNCHANGED <<taskVars, rowVars, runVars, pollVars>>

(***************************************************************************)
(* get_merged_scan_status: read the row, look the task up, write what the  *)
(* row read does not show yet.  Clients know the ids of launched jobs      *)
(* only.  A row read in a terminal state is left alone.                    *)
(***************************************************************************)
PollRead(p, t) ==
  /\ pollPc[p] = "idle"
  /\ t \in Root /\ linked[t] /\ status[t] \notin Terminal
  /\ pollPc' = [pollPc EXCEPT ![p] = "read"]
  /\ pollTask' = [pollTask EXCEPT ![p] = t]
  /\ pollSeen' = [pollSeen EXCEPT ![p] = status[t]]
  /\ UNCHANGED <<taskVars, rowVars, pc, runVars, backend, faults>>

(* The first look finds RETRY: the row, read as pending, is set running and *)
(* stays locked until the request's transaction ends.                       *)
PollLock(p) ==
  LET t == pollTask[p]
  IN  /\ pollPc[p] = "read" /\ pollSeen[p] = "pending" /\ backend[t] = "RETRY"
      /\ RowFree(t)
      /\ pollPc' = [pollPc EXCEPT ![p] = "locked"]
      /\ UNCHANGED <<taskVars, rowVars, pc, runVars, backend, pollTask, pollSeen, faults>>

(* The job status that stands for what Celery reports. *)
Reported(t) ==
  IF backend[t] = "SUCCESS" THEN "completed"
  ELSE IF backend[t] = "FAILURE" THEN "failed" ELSE "running"

(* Mutant: only a row read as running is reconciled. *)
PollFinishRunning(p) ==
  LET t     == pollTask[p]
      ended == backend[t] \in {"SUCCESS", "FAILURE"} /\ pollSeen[p] = "running"
  IN  /\ pollPc[p] # "idle"
      /\ pollPc[p] = "locked" \/ RowFree(t)
      /\ status' = IF ended THEN [status EXCEPT ![t] = Reported(t)] ELSE status
      /\ pollPc' = [pollPc EXCEPT ![p] = "idle"]
      /\ pollTask' = [pollTask EXCEPT ![p] = NoTask]
      /\ pollSeen' = [pollSeen EXCEPT ![p] = "absent"]
      /\ UNCHANGED <<taskVars, txn, times, linked, pc, runVars, backend, faults>>

(* The later looks, and the commit. *)
PollFinish(p) ==
  LET t       == pollTask[p]
      running == pollPc[p] = "locked"
      ended   == backend[t] \in {"SUCCESS", "FAILURE"}
  IN  /\ pollPc[p] # "idle"
      /\ running \/ RowFree(t)
      /\ IF running \/ ended
           THEN /\ status' = [status EXCEPT ![t] = Reported(t)]
                /\ times' = [times EXCEPT ![t] = @ \cup (IF running THEN {"start"} ELSE {})
                                                   \cup (IF ended THEN {"end"} ELSE {})]
           ELSE UNCHANGED <<status, times>>
      /\ pollPc' = [pollPc EXCEPT ![p] = "idle"]
      /\ pollTask' = [pollTask EXCEPT ![p] = NoTask]
      /\ pollSeen' = [pollSeen EXCEPT ![p] = "absent"]
      /\ UNCHANGED <<taskVars, txn, linked, pc, runVars, backend, faults>>

(* The request is rolled back. *)
PollAbort(p) ==
  /\ pollPc[p] # "idle" /\ Fault
  /\ pollPc' = [pollPc EXCEPT ![p] = "idle"]
  /\ pollTask' = [pollTask EXCEPT ![p] = NoTask]
  /\ pollSeen' = [pollSeen EXCEPT ![p] = "absent"]
  /\ UNCHANGED <<taskVars, rowVars, pc, runVars, backend>>

-----------------------------------------------------------------------------
Api(t) == LaunchSend(t) \/ LaunchCommit(t)

Worker(t) ==
  \/ Take(t) \/ MarkRunning(t) \/ MarkCompleted(t) \/ MarkFailed(t) \/ Return(t)
  \/ \E some \in BOOLEAN : Work(t, some)
  \/ DispatchNothing(t) \/ SendChild(t) \/ LinkChild(t)
  \/ \E c \in Task : AttachDns(t, c) \/ CreateChild(t, c)
  \/ Retry(t) \/ GiveUp(t)

Failure(t) ==
  LaunchFails(t) \/ StepFails(t) \/ MarkFails(t) \/ SwallowedMark(t) \/ Crash(t)

Client(p) == (\E t \in Task : PollRead(p, t)) \/ PollLock(p) \/ PollFinish(p) \/ PollAbort(p)

(* Everything launched, run and settled as far as it ever will be. *)
Terminating ==
  /\ \A t \in Root : pc[t] # "unused"
  /\ \A t \in Task : pc[t] \in {"unused", "unsent", "ended", "lost"}
                    /\ txn[t] \notin {"flushed", "sent"}
  /\ \A p \in Poller : pollPc[p] = "idle"
  /\ UNCHANGED vars

Next ==
  \/ \E t \in Task : \/ \E pl \in Plans : Launch(t, pl)
                     \/ StartDiscovery(t) \/ LaunchRefused(t)
                     \/ Api(t) \/ Worker(t) \/ Failure(t)
  \/ \E p \in Poller : Client(p)
  \/ Terminating

Spec == Init /\ [][Next]_vars

(* The request that launches ends by itself, each queue has a worker that   *)
(* goes on, a status request ends.                                          *)
Progress ==
  /\ \A t \in Task : WF_vars(Api(t)) /\ WF_vars(Worker(t))
  /\ \A p \in Poller : WF_vars(PollFinish(p))

(* A client that keeps asking for a job that has not ended. *)
Polling == \A t \in Root : WF_vars(\E p \in Poller : PollRead(p, t))

FairSpec   == Spec /\ Progress
PolledSpec == FairSpec /\ Polling

-----------------------------------------------------------------------------
(***************************************************************************)
(* Properties.                                                             *)
(***************************************************************************)
Status   == {"absent", "pending", "running"} \cup Terminal
Backends == {"PENDING", "RETRY", "SUCCESS", "FAILURE"}

(* Types; a row is visible exactly when its writing transaction committed. *)
TypeOK ==
  /\ plan \in [Task -> Plan]
  /\ step \in [Task -> Nat] /\ attempt \in [Task -> 0 .. MaxRetries]
  /\ parent \in [Task -> Task \cup {NoTask}] /\ child \in [Task -> Task \cup {NoTask}]
  /\ txn \in [Task -> {"none", "flushed", "sent", "committed", "rolledback"}]
  /\ status \in [Task -> Status] /\ times \in [Task -> SUBSET {"start", "end"}]
  /\ linked \in [Task -> BOOLEAN] /\ found \in [Task -> BOOLEAN] /\ worked \in [Task -> BOOLEAN]
  /\ pc \in [Task -> PCs] /\ retries \in [Task -> 0 .. MaxRetries]
  /\ backend \in [Task -> Backends]
  /\ pollPc \in [Poller -> {"idle", "read", "locked"}]
  /\ pollTask \in [Poller -> Task \cup {NoTask}] /\ pollSeen \in [Poller -> Status]
  /\ faults \in 0 .. MaxFaults
  /\ \A t \in Task : status[t] = "absent" <=> txn[t] # "committed"

(* A job shown as completed has its results in the database: whatever the   *)
(* retries, swallowed marks and stale status requests in between, some      *)
(* attempt committed its work before.                                       *)
CompletedMeansWorked == \A t \in Task : status[t] = "completed" => worked[t]

(* A task Celery knows as succeeded does not leave its job failed, although *)
(* earlier attempts may have marked it so.                                  *)
SuccessNotFailed == \A t \in Task : backend[t] = "SUCCESS" => status[t] # "failed"

(* The next step never starts from results that are not committed yet. *)
DispatchAfterCommit == \A c \in Task : parent[c] # NoTask => worked[parent[c]]

(* A dispatched step that keeps a job has its row before its message can be *)
(* taken; only launched jobs run ahead of their row.                        *)
ChildRowBeforeMessage ==
  \A c \in Task : /\ parent[c] # NoTask /\ HasJobId(c)
                  /\ pc[c] \notin {"unused", "unsent"}
                 => status[c] # "absent"

(* One attempt of a task dispatches at most one successor: a chain is       *)
(* duplicated by retries alone, at most MaxRetries + 1 times per step.      *)
OneChildPerAttempt ==
  \A c1, c2 \in Task :
    c1 # c2 /\ parent[c1] = parent[c2] /\ parent[c1] # NoTask => attempt[c1] # attempt[c2]

(* Workers never take a job back from completed, not even by retrying it:   *)
(* only a status request that read the row before it was completed does.    *)
ReopenedByPollOnly ==
  [][\A t \in Task :
       status[t] = "completed" /\ status'[t] # "completed"
         => \E p \in Poller : pollTask[p] = t /\ pollPc'[p] = "idle"]_vars

(* While a client keeps asking, the job of every launch ends up agreeing    *)
(* with Celery for good, unless a crash lost the task: stale status         *)
(* requests, launches overtaken by their worker and failed marks are all    *)
(* repaired in the end.                                                     *)
Reconciled ==
  \A t \in Root :
    <>[](linked[t] => \/ backend[t] = "SUCCESS" /\ status[t] = "completed"
                      \/ backend[t] = "FAILURE" /\ status[t] \in Terminal
                      \/ pc[t] = "lost")

(* The chain of steps that all this amounts to. *)
Phase(t) ==
  IF pc[t] = "unused" THEN "none"
  ELSE IF pc[t] = "unsent" THEN "pending"
  ELSE IF pc[t] = "queued" THEN "ready"
  ELSE IF pc[t] \in {"mark_running", "work"} THEN "running"
  ELSE IF pc[t] \in {"dispatch", "send", "link", "mark_completed", "return"} THEN "delivered"
  ELSE IF pc[t] \in {"mark_failed", "raise"} THEN "failing"
  ELSE IF pc[t] = "lost" THEN "lost"
  ELSE IF backend[t] = "SUCCESS" THEN "succeeded" ELSE "given_up"

Chain == INSTANCE StepChain WITH
  phase     <- [t \in Task |-> Phase(t)],
  completed <- {t \in Task : status[t] = "completed"}

(* Rows that lag behind, messages ahead of their rows, stale status requests *)
(* and failures between any two steps leave an at-least-once chain: what the *)
(* next step is, who may hand over to it and when a step may be shown as     *)
(* completed.                                                                *)
ImplementsStepChain == Chain!Spec

(* And it comes to rest, whatever locks a step's marks wait for and however   *)
(* often it is asked about.                                                  *)
ChainComesToRest == Chain!ComesToRest

(* README.md: background jobs do not sit PENDING forever. *)
JobsDoNotSitPending == \A t \in Task : status[t] = "pending" ~> status[t] # "pending"
=============================================================================
