---------------------------- MODULE ToolRunProofs ----------------------------
(***************************************************************************)
(* The safety properties of ToolRun, for any number of retries, hosts and  *)
(* failures.  They follow together from one inductive invariant: what an   *)
(* attempt leaves behind does not change any more once it has been parsed, *)
(* because a tool that is still running then was killed and is late.       *)
(***************************************************************************)
EXTENDS ToolRun, TLAPS

(* Attempts to come have done nothing; an attempt is killed only when late. *)
Untouched(a) ==
  proc[a] = "none" /\ code[a] = "none" /\ printed[a] = {} /\ a \notin signalled /\ a \notin late

Fresh ==
  /\ \A a \in Attempt : a > attempt \/ (a = attempt /\ pc = "start") => Untouched(a)
  /\ signalled \subseteq late

(* The rows of the current attempt from Parse on. *)
Parsed ==
  /\ pc \in {"parse", "ingest", "dispatch", "mark", "done"} => raw = attempt
  /\ pc \in {"ingest", "dispatch", "mark", "done"} =>
       rows = IF Clean(attempt) THEN Stdout(attempt) ELSE {}

(* What was stored comes from attempts whose outcome is final. *)
Waiting == {"start", "communicate", "wait_killed", "wait_terminated"}

Final(a) == Clean(a) /\ (a = attempt => pc \notin Waiting)

Kept ==
  /\ \A h \in stored : \E a \in Attempt : Final(a) /\ h \in printed[a]
  /\ resolving \subseteq stored
  /\ pc \in {"dispatch", "mark", "done"} => rows \subseteq stored
  /\ pc \in {"mark", "done"} => rows \subseteq resolving

IInv == TypeOK /\ NoStrayTool /\ Fresh /\ Parsed /\ Kept

-----------------------------------------------------------------------------
LEMMA InitIInv == Init => IInv
<1> SUFFICES ASSUME Init PROVE IInv
  OBVIOUS
<1> USE ToolRunAssumption DEF Init, Attempt
<1>1. TypeOK
  BY DEF TypeOK
<1>2. NoStrayTool
  BY DEF NoStrayTool
<1>3. Fresh
  BY DEF Fresh, Untouched
<1>4. Parsed /\ Kept
  BY DEF Parsed, Kept
<1> QED
  BY <1>1, <1>2, <1>3, <1>4 DEF IInv

-----------------------------------------------------------------------------
(***************************************************************************)
(* The tool.                                                               *)
(***************************************************************************)
LEMMA PrintsStep ==
  ASSUME IInv, NEW h \in Host, ToolPrints(h) PROVE IInv'
<1> USE DEF IInv, ToolPrints, kept
<1>1. TypeOK'
  BY DEF TypeOK
<1>2. NoStrayTool'
  BY DEF NoStrayTool
<1>3. Fresh'
  BY DEF Fresh, Untouched, TypeOK
<1>4. pc \notin {"ingest", "dispatch", "mark", "done"}
  BY DEF NoStrayTool, TypeOK
<1>5. Parsed'
  BY <1>4 DEF Parsed
<1>6. Kept'
  BY <1>4 DEF Kept, Final, Clean, TypeOK
<1> QED
  BY <1>1, <1>2, <1>3, <1>5, <1>6

LEMMA ExitsStep ==
  ASSUME IInv, NEW c \in {"ok", "error"}, ToolExits(c) PROVE IInv'
<1> USE DEF IInv, ToolExits, kept
<1>1. TypeOK'
  BY DEF TypeOK
<1>2. NoStrayTool'
  BY DEF NoStrayTool, TypeOK
<1>3. Fresh'
  BY DEF Fresh, Untouched, TypeOK
<1>4. pc \notin {"ingest", "dispatch", "mark", "done"} /\ ~Clean(attempt)
  BY DEF NoStrayTool, TypeOK, Clean
<1>5. Parsed'
  BY <1>4 DEF Parsed
<1>6. Kept'
  BY <1>4 DEF Kept, Final, Clean, TypeOK
<1> QED
  BY <1>1, <1>2, <1>3, <1>5, <1>6

LEMMA DiesStep ==
  ASSUME IInv, NEW a \in Attempt, ToolDies(a) PROVE IInv'
<1> USE DEF IInv, ToolDies, kept
<1>1. TypeOK'
  BY DEF TypeOK
<1>2. NoStrayTool'
  BY DEF NoStrayTool, TypeOK
<1>3. Fresh'
  BY DEF Fresh, Untouched, TypeOK
<1>4. \A b \in Attempt : Clean(b)' = Clean(b) /\ Stdout(b)' = Stdout(b)
  BY DEF Fresh, Clean, Stdout, TypeOK
<1>5. Parsed'
  BY <1>4 DEF Parsed, TypeOK
<1>6. Kept'
  BY <1>4 DEF Kept, Final
<1> QED
  BY <1>1, <1>2, <1>3, <1>5, <1>6

-----------------------------------------------------------------------------
(***************************************************************************)
(* The worker.                                                             *)
(***************************************************************************)
LEMMA SpawnStep == IInv /\ (Spawn \/ SpawnFails) => IInv'
<1> SUFFICES ASSUME IInv, Spawn \/ SpawnFails PROVE IInv'
  OBVIOUS
<1> USE DEF IInv, Spawn, SpawnFails, kept
<1>1. Untouched(attempt)
  BY DEF Fresh, TypeOK
<1>2. TypeOK'
  BY <1>1 DEF TypeOK, Untouched
<1>3. NoStrayTool'
  BY <1>1 DEF NoStrayTool, Untouched, TypeOK
<1>4. Fresh'
  <2>1. \A a \in Attempt : a > attempt => a # attempt /\ Untouched(a)
    BY ToolRunAssumption DEF Fresh, TypeOK, Attempt
  <2>2. \A a \in Attempt : a > attempt => Untouched(a)'
    BY <2>1 DEF Untouched, TypeOK
  <2> QED
    BY <2>2 DEF Fresh
<1>5. Parsed'
  BY DEF Parsed
<1>6. \A a \in Attempt : Final(a) => Final(a)'
  BY DEF Final, Waiting, Clean, TypeOK
<1>7. Kept'
  BY <1>6 DEF Kept
<1> QED
  BY <1>2, <1>3, <1>4, <1>5, <1>7

LEMMA TimeoutStep == IInv /\ Timeout => IInv'
<1> SUFFICES ASSUME IInv, Timeout PROVE IInv'
  OBVIOUS
<1> USE DEF IInv, Timeout, tool, kept
<1>1. TypeOK'
  BY DEF TypeOK
<1>2. NoStrayTool'
  BY DEF NoStrayTool, TypeOK
<1>3. Fresh'
  BY DEF Fresh, Untouched, TypeOK, Attempt
<1>4. Parsed'
  BY DEF Parsed
<1>5. Kept'
  BY DEF Kept, Final, Waiting, Clean, TypeOK
<1> QED
  BY <1>1, <1>2, <1>3, <1>4, <1>5

(* Waiting, saving, parsing and the last mark change neither the tools nor the graph. *)
LEMMA QuietStep ==
  IInv /\ (Communicate \/ WaitKilled \/ StillThere \/ WaitTerminated \/ Save \/ Parse \/ MarkCompleted) => IInv'
<1> SUFFICES ASSUME IInv, Communicate \/ WaitKilled \/ StillThere \/ WaitTerminated \/ Save \/ Parse
                              \/ MarkCompleted
             PROVE  IInv'
  OBVIOUS
<1> USE DEF IInv, Communicate, WaitKilled, StillThere, WaitTerminated, Save, Parse, MarkCompleted, tool, kept
<1>1. /\ \A a \in Attempt : Clean(a)' = Clean(a) /\ Stdout(a)' = Stdout(a)
      /\ UNCHANGED <<attempt, proc, code, printed, signalled, late, stored, resolving>>
  BY DEF Clean, Stdout
<1>2. TypeOK'
  BY DEF TypeOK, Stdout
<1>3. NoStrayTool'
  BY DEF NoStrayTool, TypeOK
<1>4. Fresh'
  BY DEF Fresh, Untouched
<1>5. Parsed'
  BY <1>1 DEF Parsed, TypeOK
<1>6. Kept'
  BY <1>1 DEF Kept, Final, Waiting
<1> QED
  BY <1>2, <1>3, <1>4, <1>5, <1>6

LEMMA IngestStep == IInv /\ Ingest => IInv'
<1> SUFFICES ASSUME IInv, Ingest PROVE IInv'
  OBVIOUS
<1> USE DEF IInv, Ingest, tool
<1>1. TypeOK'
  BY DEF TypeOK
<1>2. NoStrayTool'
  BY DEF NoStrayTool
<1>3. Fresh'
  BY DEF Fresh, Untouched
<1>4. Parsed'
  BY DEF Parsed, Clean, Stdout
<1>5. \A h \in rows : Final(attempt)' /\ h \in printed[attempt]
  BY DEF Parsed, Final, Waiting, Clean, Stdout
<1>6. \A h \in stored' : \E a \in Attempt : (Final(a) /\ h \in printed[a])'
  <2> TAKE h \in stored'
  <2>1. CASE h \in rows
    BY <2>1, <1>5 DEF TypeOK
  <2>2. CASE h \in stored
    <3>1. PICK a \in Attempt : Final(a) /\ h \in printed[a]
      BY <2>2 DEF Kept
    <3> QED
      BY <3>1 DEF Final, Waiting, Clean
  <2> QED
    BY <2>1, <2>2
<1>7. Kept'
  BY <1>6 DEF Kept
<1> QED
  BY <1>1, <1>2, <1>3, <1>4, <1>7

LEMMA DispatchStep == IInv /\ Dispatch => IInv'
<1> SUFFICES ASSUME IInv, Dispatch PROVE IInv'
  OBVIOUS
<1> USE DEF IInv, Dispatch, tool
<1>1. TypeOK'
  BY DEF TypeOK
<1>2. NoStrayTool'
  BY DEF NoStrayTool
<1>3. Fresh'
  BY DEF Fresh, Untouched
<1>4. Parsed'
  BY DEF Parsed, Clean, Stdout
<1>5. Kept'
  BY DEF Kept, Final, Waiting, Clean
<1> QED
  BY <1>1, <1>2, <1>3, <1>4, <1>5

LEMMA RaisesStep == IInv /\ Raises => IInv'
<1> SUFFICES ASSUME IInv, Raises PROVE IInv'
  OBVIOUS
<1> USE ToolRunAssumption DEF IInv, Raises, RetryTask, tool
<1>1. TypeOK'
  BY DEF TypeOK, Attempt
<1>2. NoStrayTool'
  BY DEF NoStrayTool, TypeOK
<1>3. Fresh'
  BY DEF Fresh, Untouched, TypeOK, Attempt
<1>4. Parsed'
  BY DEF Parsed
<1>5. \A a \in Attempt : Final(a) /\ printed[a] # {} => Final(a)'
  BY DEF Fresh, Untouched, Final, Clean, Waiting, TypeOK, Attempt
<1>6. Kept'
  BY <1>5 DEF Kept
<1> QED
  BY <1>1, <1>2, <1>3, <1>4, <1>6

LEMMA CrashStep == IInv /\ WorkerCrash => IInv'
<1> SUFFICES ASSUME IInv, WorkerCrash PROVE IInv'
  OBVIOUS
<1> USE ToolRunAssumption DEF IInv, WorkerCrash, tool, kept
<1>1. TypeOK'
  BY DEF TypeOK
<1>2. NoStrayTool'
  BY DEF NoStrayTool
<1>3. Fresh'
  BY DEF Fresh, Untouched
<1>4. Parsed' /\ Kept'
  BY DEF Parsed, Kept, Final, Clean, Waiting
<1> QED
  BY <1>1, <1>2, <1>3, <1>4

LEMMA NextIInv == IInv /\ [Next]_vars => IInv'
<1> SUFFICES ASSUME IInv, [Next]_vars PROVE IInv'
  OBVIOUS
<1>1. CASE Tool
  BY <1>1, PrintsStep, ExitsStep, DiesStep DEF Tool
<1>2. CASE Worker
  BY <1>2, SpawnStep, TimeoutStep, QuietStep, IngestStep, DispatchStep DEF Worker
<1>3. CASE Raises \/ WorkerCrash
  BY <1>3, RaisesStep, CrashStep
<1>4. CASE UNCHANGED vars
  BY <1>4 DEF vars, tool, kept, IInv, TypeOK, NoStrayTool, Fresh, Untouched, Parsed, Kept, Final,
     Clean, Stdout
<1> QED
  BY <1>1, <1>2, <1>3, <1>4 DEF Next, Terminating

-----------------------------------------------------------------------------
(* The invariant holds in every reachable state. *)
THEOREM ToolInvariance == Spec => []IInv
  BY InitIInv, NextIInv, PTL DEF Spec

(* Types, and that a running process has no exit code yet. *)
THEOREM ToolTypes == Spec => []TypeOK
<1>1. IInv => TypeOK
  BY DEF IInv
<1> QED
  BY <1>1, ToolInvariance, PTL

(* Whatever tools do, and however often the task is attempted, only the      *)
(* complete output of a clean run reaches the graph, and all of it does.     *)
THEOREM GraphIsFromCleanRuns == Spec => []GraphFromCleanRuns
<1>1. IInv => GraphFromCleanRuns
  BY DEF IInv, GraphFromCleanRuns, Kept, Final, Parsed, Clean, Stdout
<1> QED
  BY <1>1, ToolInvariance, PTL

(* A worker that goes on leaves no tool running that it has not killed, and *)
(* one that crashes at most the tool of its last attempt.                   *)
THEOREM NoToolIsLeft == Spec => []NoStrayTool
<1>1. IInv => NoStrayTool
  BY DEF IInv
<1> QED
  BY <1>1, ToolInvariance, PTL

(* The raw file under the task's id belongs to the attempt that is ingested. *)
THEOREM RawIsOfTheRows == Spec => []RawMatchesRows
<1>1. IInv => RawMatchesRows
  BY DEF IInv, TypeOK, RawMatchesRows, Parsed, Clean, Stdout
<1> QED
  BY <1>1, ToolInvariance, PTL

-----------------------------------------------------------------------------
(***************************************************************************)
(* The task ends: the worker always has a step, and only so many of them.  *)
(***************************************************************************)
(* The guards of the worker's steps.  A tool that hangs is left by the timeout *)
(* and a kill that does nothing by terminate(), whose wait nothing ends but   *)
(* time; only of a process that was never started is there nothing to wait for. *)
Able ==
  \/ pc \in {"start", "communicate", "wait_terminated", "save", "parse", "ingest", "dispatch",
            "mark"}
  \/ pc = "wait_killed" /\ proc[attempt] \in {"running", "exited"}

NeverStuck == ~Ended => Able

Started == pc \in {"communicate", "wait_killed"} => proc[attempt] # "none"

Ahead ==
  CASE pc = "start"           -> 9
    [] pc = "communicate"     -> 8
    [] pc = "wait_killed"     -> 7
    [] pc = "wait_terminated" -> 6
    [] pc = "save"            -> 5
    [] pc = "parse"           -> 4
    [] pc = "ingest"          -> 3
    [] pc = "dispatch"        -> 2
    [] pc = "mark"            -> 1
    [] OTHER                  -> 0

(* The steps the worker can still take, in this attempt and in those to come. *)
StepsLeft == 10 * (MaxRetries + 1 - attempt) + Ahead

Shortens ==
  /\ StepsLeft' \in Nat
  /\ StepsLeft' < StepsLeft \/ UNCHANGED <<pc, attempt>>
  /\ Worker => StepsLeft' < StepsLeft

(* Every step of the worker, and every exception, leaves it fewer; the tool   *)
(* takes none away and gives none back.                                      *)
StepsRunOut == [][Shortens]_vars

LEMMA StepStarted == TypeOK /\ Started /\ [Next]_vars => Started'
<1> SUFFICES ASSUME TypeOK, Started, [Next]_vars PROVE Started'
  OBVIOUS
<1>1. CASE Tool
  BY <1>1 DEF Tool, ToolPrints, ToolExits, ToolDies, TypeOK, Started
<1>2. CASE Spawn
  BY <1>2 DEF Spawn, TypeOK, Started
<1>3. CASE Timeout
  BY <1>3 DEF Timeout, tool, Started
<1>4. CASE Worker /\ ~Spawn /\ ~Timeout
  <2>1. pc' \notin {"communicate", "wait_killed"}
    BY <1>4 DEF Worker, SpawnFails, Communicate, WaitKilled, StillThere, WaitTerminated, Save, Parse,
                Ingest, Dispatch, MarkCompleted
  <2>q. QED
    BY <2>1 DEF Started
<1>5. CASE Raises \/ WorkerCrash
  <2>1. pc' \notin {"communicate", "wait_killed"}
    BY <1>5 DEF Raises, RetryTask, WorkerCrash
  <2>q. QED
    BY <2>1 DEF Started
<1>6. CASE UNCHANGED vars
  BY <1>6 DEF vars, tool, Started
<1>q. QED
  BY <1>1, <1>2, <1>3, <1>4, <1>5, <1>6 DEF Next, Terminating

LEMMA StepShortens == TypeOK /\ TypeOK' /\ [Next]_vars => [Shortens]_vars
<1> SUFFICES ASSUME TypeOK, TypeOK', [Next]_vars PROVE [Shortens]_vars
  OBVIOUS
<1>1. PICK m \in Nat, n \in Nat :
        m = attempt /\ n = attempt' /\ m <= MaxRetries + 1 /\ n <= MaxRetries + 1
  BY ToolRunAssumption DEF TypeOK, Attempt
<1>r. MaxRetries \in Nat /\ m <= MaxRetries + 1 /\ n <= MaxRetries + 1
  BY <1>1, ToolRunAssumption
<1>2. PICK i \in 0 .. 9, k \in 0 .. 9 : i = Ahead /\ k = Ahead'
  BY DEF Ahead
<1>3. StepsLeft = 10 * (MaxRetries + 1 - m) + i /\ StepsLeft' = 10 * (MaxRetries + 1 - n) + k
  BY <1>1, <1>2 DEF StepsLeft
<1>4. 10 * (MaxRetries + 1 - n) + k \in Nat
  BY <1>r
<1>5. Worker => n = m /\ k < i
  <2>1. Worker => attempt' = attempt /\ Ahead' < Ahead
    BY DEF Worker, Spawn, SpawnFails, Communicate, Timeout, WaitKilled, StillThere, WaitTerminated,
           Save, Parse, Ingest, Dispatch, MarkCompleted, Ahead
  <2>q. QED
    BY <1>1, <1>2, <2>1
<1>6. Raises => (n = m + 1 /\ i > 0) \/ (n = m /\ k < i)
  <2>1. Raises => (attempt' = attempt + 1 /\ Ahead > 0) \/ (attempt' = attempt /\ Ahead' < Ahead)
    BY DEF Raises, RetryTask, Ahead
  <2>q. QED
    BY <1>1, <1>2, <2>1
<1>7. WorkerCrash => n = m /\ k < i
  <2>1. WorkerCrash => attempt' = attempt /\ Ahead' < Ahead
    BY DEF WorkerCrash, Ended, Ahead, TypeOK
  <2>q. QED
    BY <1>1, <1>2, <2>1
<1>8. (n = m + 1 /\ i > 0) \/ (n = m /\ k < i) =>
        10 * (MaxRetries + 1 - n) + k < 10 * (MaxRetries + 1 - m) + i
  BY <1>r
<1>9. Worker \/ Raises \/ WorkerCrash => StepsLeft' < StepsLeft
  BY <1>3, <1>5, <1>6, <1>7, <1>8
<1>10. Tool \/ UNCHANGED vars => UNCHANGED <<pc, attempt>> /\ ~Worker
  <2>1. Tool \/ UNCHANGED vars => UNCHANGED <<pc, attempt>>
    BY DEF Tool, ToolPrints, ToolExits, ToolDies, vars
  <2>2. Worker => ~UNCHANGED <<pc, attempt>>
    <3>1. UNCHANGED <<pc, attempt>> => Ahead' = Ahead
      BY DEF Ahead
    <3>q. QED
      BY <1>2, <1>5, <3>1
  <2>q. QED
    BY <2>1, <2>2
<1>q. QED
  BY <1>3, <1>4, <1>9, <1>10 DEF Next, Terminating, Shortens

(* Whatever the tool does, the worker of a task that has not ended can take a *)
(* step.                                                                     *)
THEOREM WorkerIsNeverStuck == Spec => []NeverStuck
<1>1. Init => Started
  BY DEF Init, Started
<1>2. TypeOK /\ Started => NeverStuck
  BY DEF TypeOK, Started, NeverStuck, Ended, Able
<1> QED
  BY ToolTypes, StepStarted, <1>1, <1>2, PTL DEF Spec

(* However often it is attempted again, a task has only so many steps.        *)
THEOREM WorkerStepsRunOut == Spec => StepsRunOut
  BY ToolTypes, StepShortens, PTL DEF Spec, StepsRunOut
=============================================================================
