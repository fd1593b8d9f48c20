------------------------------- MODULE ToolRun -------------------------------
(***************************************************************************)
(* One process_subdomain_discovery task (workers/tasks/discovery.py) and   *)
(* the tool it runs through AsyncBaseTool (core/base_tool.py): an attempt  *)
(* starts Subfinder, waits for its output or for the timeout, kills what   *)
(* does not end, keeps the raw output under the task's id, ingests the     *)
(* rows of a clean run in one transaction and dispatches the DNS lookups.  *)
(* An exception makes Celery attempt the task again.                       *)
(***************************************************************************)
EXTENDS Integers

CONSTANTS
  Host,        \* hosts the tool may print, after _host_from_row
  MaxRetries,  \* retry_kwargs["max_retries"]
  MaxFaults    \* bound on exceptions and worker crashes

ASSUME ToolRunAssumption ==
  MaxRetries \in Nat /\ MaxFaults \in Nat

Attempt == 1 .. (MaxRetries + 1)

VARIABLES
  pc,        \* where the worker is
  attempt,   \* self.request.retries + 1
  proc,      \* of an attempt: its tool's process
  code,      \* its exit code
  printed,   \* the hosts it has printed
  signalled, \* attempts whose process was killed
  late,      \* attempts that ran into the timeout
  raw,       \* the attempt whose output subfinder-<task id>.jsonl holds, 0 if there is no file
  rows,      \* the parsed rows of this attempt
  stored,    \* SUBDOMAIN assets committed to the graph
  resolving, \* hosts handed to resolve_dns_batch
  faults

tool == <<proc, code, printed>>
kept == <<raw, rows, stored, resolving>>
vars == <<pc, attempt, tool, signalled, late, kept, faults>>

Init ==
  /\ pc = "start" /\ attempt = 1
  /\ proc = [a \in Attempt |-> "none"] /\ code = [a \in Attempt |-> "none"]
  /\ printed = [a \in Attempt |-> {}] /\ signalled = {} /\ late = {}
  /\ raw = 0 /\ rows = {} /\ stored = {} /\ resolving = {} /\ faults = 0

-----------------------------------------------------------------------------
(***************************************************************************)
(* The tool.  It may hang, and may not react to a signal.                  *)
(***************************************************************************)
ToolPrints(h) ==
  /\ proc[attempt] = "running" /\ attempt \notin signalled
  /\ printed' = [printed EXCEPT ![attempt] = @ \cup {h}]
  /\ UNCHANGED <<pc, attempt, proc, code, signalled, late, kept, faults>>

ToolExits(c) ==
  /\ proc[attempt] = "running" /\ attempt \notin signalled
  /\ proc' = [proc EXCEPT ![attempt] = "exited"] /\ code' = [code EXCEPT ![attempt] = c]
  /\ UNCHANGED <<pc, attempt, printed, signalled, late, kept, faults>>

ToolDies(a) ==
  /\ proc[a] = "running" /\ a \in signalled
  /\ proc' = [proc EXCEPT ![a] = "exited"] /\ code' = [code EXCEPT ![a] = "error"]
  /\ UNCHANGED <<pc, attempt, printed, signalled, late, kept, faults>>

-----------------------------------------------------------------------------
(***************************************************************************)
(* run_subprocess.                                                         *)
(***************************************************************************)
Spawn ==
  /\ pc = "start" /\ pc' = "communicate"
  /\ proc' = [proc EXCEPT ![attempt] = "running"]
  /\ UNCHANGED <<attempt, code, printed, signalled, late, kept, faults>>

(* The binary is missing or cannot be executed: exit code -1, no output. *)
SpawnFails ==
  /\ pc = "start" /\ pc' = "save"
  /\ code' = [code EXCEPT ![attempt] = "error"]
  /\ UNCHANGED <<attempt, proc, printed, signalled, late, kept, faults>>

Communicate ==
  /\ pc = "communicate" /\ proc[attempt] = "exited" /\ pc' = "save"
  /\ UNCHANGED <<attempt, tool, signalled, late, kept, faults>>

(* Mutant: the process is abandoned, not killed. *)
TimeoutAbandons ==
  /\ pc = "communicate" /\ pc' = "save"
  /\ late' = late \cup {attempt}
  /\ UNCHANGED <<attempt, tool, signalled, kept, faults>>

(* The timeout may come first even when the tool has just ended. *)
Timeout ==
  /\ pc = "communicate" /\ pc' = "wait_killed"
  /\ late' = late \cup {attempt}
  /\ signalled' = IF proc[attempt] = "running" THEN signalled \cup {attempt} ELSE signalled
  /\ UNCHANGED <<attempt, tool, kept, faults>>

WaitKilled ==
  /\ pc = "wait_killed" /\ proc[attempt] = "exited" /\ pc' = "save"
  /\ UNCHANGED <<attempt, tool, signalled, late, kept, faults>>

(* Five seconds later: terminate() adds nothing to a kill the process ignores. *)
StillThere ==
  /\ pc = "wait_killed" /\ proc[attempt] = "running" /\ pc' = "wait_terminated"
  /\ UNCHANGED <<attempt, tool, signalled, late, kept, faults>>

(* Mutant: the wait after terminate() has no timeout. *)
WaitTerminatedForever ==
  /\ pc = "wait_terminated" /\ proc[attempt] = "exited" /\ pc' = "save"
  /\ UNCHANGED <<attempt, tool, signalled, late, kept, faults>>

WaitTerminated ==
  /\ pc = "wait_terminated" /\ pc' = "save"
  /\ UNCHANGED <<attempt, tool, signalled, late, kept, faults>>

(* ToolResult: what a run that timed out had printed is lost. *)
Stdout(a) == IF a \in late THEN {} ELSE printed[a]
Clean(a)  == a \notin late /\ code[a] = "ok"

-----------------------------------------------------------------------------
(***************************************************************************)
(* run_and_parse, and the rest of the task.                                *)
(***************************************************************************)
Save ==
  /\ pc = "save" /\ pc' = "parse"
  /\ raw' = attempt
  /\ UNCHANGED <<attempt, tool, signalled, late, rows, stored, resolving, faults>>

(* Mutant: the exit code is not looked at. *)
ParseAnyExit ==
  /\ pc = "parse" /\ pc' = "ingest"
  /\ rows' = Stdout(attempt)
  /\ UNCHANGED <<attempt, tool, signalled, late, raw, stored, resolving, faults>>

(* No rows after a timeout or an exit code other than 0. *)
Parse ==
  /\ pc = "parse" /\ pc' = "ingest"
  /\ rows' = IF Clean(attempt) THEN Stdout(attempt) ELSE {}
  /\ UNCHANGED <<attempt, tool, signalled, late, raw, stored, resolving, faults>>

Ingest ==
  /\ pc = "ingest" /\ pc' = "dispatch"
  /\ stored' = stored \cup rows
  /\ UNCHANGED <<attempt, tool, signalled, late, raw, rows, resolving, faults>>

(* attach_dns_chain: nothing to resolve, nothing dispatched. *)
Dispatch ==
  /\ pc = "dispatch" /\ pc' = "mark"
  /\ resolving' = resolving \cup rows
  /\ UNCHANGED <<attempt, tool, signalled, late, raw, rows, stored, faults>>

(* The job row, if there is one, is marked completed (ScanJobs follows the   *)
(* row): the last of the steps that may raise, after the dispatch.           *)
MarkCompleted ==
  /\ pc = "mark" /\ pc' = "done"
  /\ UNCHANGED <<attempt, tool, signalled, late, kept, faults>>

(* Mutant: one attempt more than retries are granted. *)
RetryTaskOnceMore ==
  IF attempt <= MaxRetries + 1
    THEN attempt' = attempt + 1 /\ rows' = {} /\ pc' = "start"
    ELSE pc' = "failed" /\ UNCHANGED <<attempt, rows>>

(* Celery's autoretry, with the same task id. *)
RetryTask ==
  IF attempt <= MaxRetries
    THEN attempt' = attempt + 1 /\ rows' = {} /\ pc' = "start"
    ELSE pc' = "failed" /\ UNCHANGED <<attempt, rows>>

(* The root asset is refused, the disk is full, the transaction fails, the  *)
(* broker is away, or the job row cannot be marked: then what is dispatched *)
(* already is dispatched again by the next attempt.                         *)
Raises ==
  /\ pc \in {"start", "save", "ingest", "dispatch", "mark"}
  /\ faults < MaxFaults /\ faults' = faults + 1
  /\ RetryTask
  /\ UNCHANGED <<tool, signalled, late, raw, stored, resolving>>

Ended == pc \in {"done", "failed", "lost"}

WorkerCrash ==
  /\ ~Ended /\ pc' = "lost"
  /\ faults < MaxFaults /\ faults' = faults + 1
  /\ UNCHANGED <<attempt, tool, signalled, late, kept>>

-----------------------------------------------------------------------------
Tool ==
  \/ \E h \in Host : ToolPrints(h)
  \/ \E c \in {"ok", "error"} : ToolExits(c)
  \/ \E a \in Attempt : ToolDies(a)

Worker ==
  \/ Spawn \/ SpawnFails \/ Communicate \/ Timeout \/ WaitKilled \/ StillThere
  \/ WaitTerminated \/ Save \/ Parse \/ Ingest \/ Dispatch \/ MarkCompleted

Terminating == Ended /\ UNCHANGED vars

Next == Tool \/ Worker \/ Raises \/ WorkerCrash \/ Terminating

Spec == Init /\ [][Next]_vars

(* The event loop and its timers run; nothing is assumed of the tool. *)
FairSpec == Spec /\ WF_vars(Worker)

-----------------------------------------------------------------------------
(***************************************************************************)
(* Properties.                                                             *)
(***************************************************************************)
(* Types; only processes that were started or refused have an exit code. *)
TypeOK ==
  /\ pc \in {"start", "communicate", "wait_killed", "wait_terminated", "save", "parse",
             "ingest", "dispatch", "mark", "done", "failed", "lost"}
  /\ attempt \in Attempt
  /\ proc \in [Attempt -> {"none", "running", "exited"}]
  /\ code \in [Attempt -> {"none", "ok", "error"}]
  /\ printed \in [Attempt -> SUBSET Host]
  /\ signalled \subseteq Attempt /\ late \subseteq Attempt
  /\ raw \in {0} \cup Attempt /\ rows \subseteq Host
  /\ stored \subseteq Host /\ resolving \subseteq Host /\ faults \in 0 .. MaxFaults
  /\ \A a \in Attempt : proc[a] = "running" => code[a] = "none"

(* Only complete output reaches the graph: every stored host, and every host *)
(* handed on, was printed by an attempt that exited with 0 in time, and a    *)
(* task that ended after such an attempt has stored all of its hosts.        *)
GraphFromCleanRuns ==
  /\ \A h \in stored : \E a \in Attempt : Clean(a) /\ h \in printed[a]
  /\ resolving \subseteq stored
  /\ pc = "done" /\ Clean(attempt) => printed[attempt] \subseteq resolving

(* A tool that runs unkilled is the one the worker is waiting for, or was    *)
(* waiting for when it crashed: however often the task was attempted, a dead *)
(* worker leaves one tool behind at most, that of its last attempt.          *)
NoStrayTool ==
  \A a \in Attempt :
    proc[a] = "running" => a \in signalled \/ (a = attempt /\ pc \in {"communicate", "lost"})

(* The raw output kept is that of the attempt whose rows are ingested, not   *)
(* of an earlier one under the same task id.                                 *)
RawMatchesRows ==
  pc \in {"ingest", "dispatch", "mark", "done"} =>
    raw \in Attempt /\ rows \subseteq Stdout(raw) /\ (Clean(raw) => rows = Stdout(raw))

(* The task ends whatever its tool does: hang, or survive its kill. *)
TaskEnds == <>Ended

(* workers/base_task.py: "Tool / IO failures: bounded exponential backoff".  *)
(* A task that reports success had a tool that ran successfully.             *)
ToolFailuresAreRetried ==
  pc = "done" => Clean(attempt)
=============================================================================
