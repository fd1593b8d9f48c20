--------------------------- MODULE ScanJobsProofs ---------------------------
(***************************************************************************)
(* Proofs about ScanJobs, for every set of tasks, plans and clients and    *)
(* every bound on retries and failures.                                    *)
(***************************************************************************)
EXTENDS ScanJobs, FiniteSetTheorems, FunctionTheorems, TLAPS

(* Rows and requests: an identifier not yet used has no row and no parent,  *)
(* the API writes rows of roots and steps are dispatched with a committed   *)
(* row, and a status request in progress is about a row it has seen.        *)
Rows ==
  /\ \A t \in Task : /\ pc[t] = "unused" => txn[t] = "none" /\ parent[t] = NoTask /\ step[t] = 1
                     /\ txn[t] \in {"flushed", "sent"} => t \in Root
                     /\ txn[t] = "flushed" => pc[t] = "unsent"
                     /\ t \in Root => parent[t] = NoTask
                     /\ linked[t] => status[t] # "absent"
                     /\ parent[t] # NoTask /\ txn[t] # "none" => txn[t] = "committed"
  /\ \A p \in Poller : pollPc[p] # "idle" => /\ pollTask[p] \in Task
                                             /\ status[pollTask[p]] # "absent"

(* Between creating a step's job and linking its task, a worker holds a     *)
(* child of its own, unsent until it sends it.                              *)
Sending ==
  \A t \in Task :
    pc[t] \in {"send", "link"} =>
      /\ child[t] \in Task /\ parent[child[t]] = t /\ txn[child[t]] = "committed"
      /\ pc[t] = "send" => pc[child[t]] = "unsent"

(* Celery reports an outcome only of tasks no worker holds any more. *)
Outcome ==
  \A t \in Task : backend[t] \in {"SUCCESS", "FAILURE"} => pc[t] \in {"ended", "lost"}

(* Past its work step an attempt has committed its work. *)
Worked ==
  /\ CompletedMeansWorked
  /\ DispatchAfterCommit
  /\ \A t \in Task :
       /\ pc[t] \in {"dispatch", "send", "link", "mark_completed", "return"} => worked[t]
       /\ backend[t] = "SUCCESS" => worked[t]

(* Who marks jobs failed or running, and what a returning task left behind. *)
Marks ==
  \A t \in Task :
    /\ pc[t] \in {"mark_running", "mark_failed"} => MarksFailure(t)
    /\ ~MarksFailure(t) /\ status[t] = "failed" => backend[t] = "FAILURE"
    /\ Handler(t) = "ping" /\ pc[t] \in {"dispatch", "send", "link"} => ~HasJobId(t)
    /\ MarksFailure(t) /\ status[t] = "completed" => pc[t] \in {"return", "ended", "lost"}
    /\ pc[t] = "return" \/ backend[t] = "SUCCESS" => status[t] # "failed"

(* Before it dispatches, an attempt has no child of its own yet. *)
BeforeDispatch(t) ==
  \/ pc[t] \in {"unused", "unsent", "queued", "mark_running", "work", "dispatch"}
  \/ pc[t] = "mark_completed" /\ Handler(t) # "subfinder"

Attempts ==
  /\ OneChildPerAttempt
  /\ \A c \in Task : parent[c] # NoTask =>
       /\ attempt[c] <= retries[parent[c]]
       /\ BeforeDispatch(parent[c]) => attempt[c] < retries[parent[c]]

(* The inductive invariant. *)
IInv == TypeOK /\ Rows /\ Sending /\ Outcome /\ Worked /\ Marks /\ Attempts

(* The fixed plans, of a health check and of discovery and DNS tasks without a *)
(* workflow, are plans.                                                        *)
LEMMA PlansAreTyped == HealthPlan \in Plan /\ DiscoveryPlan \in Plan /\ DnsPlan \in Plan
<1>1. <<"ping">> \in Seq(StepId \cup {"ping"}) /\ <<"subfinder">> \in Seq(StepId \cup {"ping"})
      /\ <<"dns_resolve">> \in Seq(StepId \cup {"ping"})
  BY DEF StepId
<1>q. QED
  BY <1>1 DEF HealthPlan, DiscoveryPlan, DnsPlan, Plan

(* Every part of the invariant holds before anything is launched. *)
LEMMA InitIInv == Init => IInv
<1>1. Init => TypeOK
  BY PlansAreTyped, ScanJobsAssumption DEF Init, TypeOK, Status, Backends, PCs, Terminal
<1>2. Init => Rows /\ Sending /\ Outcome
  BY ScanJobsAssumption DEF Init, Rows, Sending, Outcome
<1>3. Init => Worked
  BY ScanJobsAssumption DEF Init, Worked, CompletedMeansWorked, DispatchAfterCommit
<1>4. Init => Marks
  BY ScanJobsAssumption DEF Init, Marks, HasJobId
<1>5. Init => Attempts
  BY ScanJobsAssumption DEF Init, Attempts, OneChildPerAttempt
<1>q. QED
  BY <1>1, <1>2, <1>3, <1>4, <1>5 DEF IInv

(* Type correctness is preserved by every step. *)
LEMMA TypeStep ==
  ASSUME TypeOK, Rows, [Next]_vars
  PROVE  TypeOK'
<1> USE ScanJobsAssumption, PlansAreTyped DEF TypeOK, taskVars, rowVars, runVars, pollVars, Status, Backends, PCs, Executing, Terminal
<1>1. ASSUME NEW t \in Task, NEW pl \in Plans, Launch(t, pl) PROVE TypeOK'
  BY <1>1 DEF Launch, Goto, Rows
<1>2. ASSUME NEW t \in Task, StartDiscovery(t) PROVE TypeOK'
  BY <1>2 DEF StartDiscovery, Goto
<1>3. ASSUME NEW t \in Task, LaunchRefused(t) PROVE TypeOK'
  BY <1>3 DEF LaunchRefused
<1>4. ASSUME NEW t \in Task, LaunchSend(t) PROVE TypeOK'
  BY <1>4 DEF LaunchSend, Goto
<1>5. ASSUME NEW t \in Task, LaunchCommit(t) PROVE TypeOK'
  BY <1>5 DEF LaunchCommit
<1>6. ASSUME NEW t \in Task, Take(t) PROVE TypeOK'
  BY <1>6 DEF Take, Goto
<1>7. ASSUME NEW t \in Task, MarkRunning(t) PROVE TypeOK'
  BY <1>7 DEF MarkRunning, Mark, Goto
<1>8. ASSUME NEW t \in Task, MarkCompleted(t) PROVE TypeOK'
  BY <1>8 DEF MarkCompleted, Mark, Goto
<1>9. ASSUME NEW t \in Task, MarkFailed(t) PROVE TypeOK'
  BY <1>9 DEF MarkFailed, Mark, Goto
<1>10. ASSUME NEW t \in Task, Return(t) PROVE TypeOK'
  BY <1>10 DEF Return, Goto
<1>11. ASSUME NEW t \in Task, NEW some \in BOOLEAN, Work(t, some) PROVE TypeOK'
  BY <1>11 DEF Work, Goto
<1>12. ASSUME NEW t \in Task, DispatchNothing(t) PROVE TypeOK'
  BY <1>12 DEF DispatchNothing, AfterDispatch, Goto
<1>13. ASSUME NEW t \in Task, SendChild(t) PROVE TypeOK'
  BY <1>13 DEF SendChild
<1>14. ASSUME NEW t \in Task, LinkChild(t) PROVE TypeOK'
  BY <1>14 DEF LinkChild, AfterDispatch, Goto
<1>15. ASSUME NEW t \in Task, NEW c \in Task, AttachDns(t, c) PROVE TypeOK'
  BY <1>15 DEF AttachDns, AfterDispatch, Rows
<1>16. ASSUME NEW t \in Task, NEW c \in Task, CreateChild(t, c) PROVE TypeOK'
  BY <1>16 DEF CreateChild, Rows
<1>17. ASSUME NEW t \in Task, Retry(t) PROVE TypeOK'
  BY <1>17 DEF Retry, Goto
<1>18. ASSUME NEW t \in Task, GiveUp(t) PROVE TypeOK'
  BY <1>18 DEF GiveUp, Goto
<1>19. ASSUME NEW t \in Task, LaunchFails(t) PROVE TypeOK'
  BY <1>19 DEF LaunchFails, Fault
<1>20. ASSUME NEW t \in Task, StepFails(t) PROVE TypeOK'
  BY <1>20 DEF StepFails, Fallible, OnError, Fault, Goto
<1>21. ASSUME NEW t \in Task, MarkFails(t) PROVE TypeOK'
  BY <1>21 DEF MarkFails, Fault, Goto
<1>22. ASSUME NEW t \in Task, SwallowedMark(t) PROVE TypeOK'
  BY <1>22 DEF SwallowedMark, Fault, Goto
<1>23. ASSUME NEW t \in Task, Crash(t) PROVE TypeOK'
  BY <1>23 DEF Crash, Executing, Fault, Goto
<1>24. ASSUME NEW p \in Poller, NEW t \in Task, PollRead(p, t) PROVE TypeOK'
  BY <1>24 DEF PollRead
<1>25. ASSUME NEW p \in Poller, PollLock(p) PROVE TypeOK'
  BY <1>25 DEF PollLock, Rows
<1>26. ASSUME NEW p \in Poller, PollFinish(p) PROVE TypeOK'
  BY <1>26 DEF PollFinish, Reported, Rows
<1>27. ASSUME NEW p \in Poller, PollAbort(p) PROVE TypeOK'
  BY <1>27 DEF PollAbort, Fault
<1>s. ASSUME UNCHANGED vars PROVE TypeOK'
  BY <1>s DEF vars
<1> HIDE DEF TypeOK, taskVars, rowVars, runVars, pollVars, Status, Backends, PCs, Executing, Terminal
<1>q. QED
  BY <1>1, <1>2, <1>3, <1>4, <1>5, <1>6, <1>7, <1>8, <1>9, <1>10, <1>11, <1>12, <1>13, <1>14, <1>15, <1>16, <1>17, <1>18, <1>19, <1>20, <1>21, <1>22, <1>23, <1>24, <1>25, <1>26, <1>27, <1>s DEF Next, Terminating, Api, Worker, Failure, Client

(* Rows and requests stay sane. *)
LEMMA RowsStep ==
  ASSUME TypeOK, Rows, Sending, [Next]_vars
  PROVE  Rows'
<1> USE ScanJobsAssumption DEF TypeOK, Rows, taskVars, rowVars, runVars, pollVars, Terminal
<1>1. ASSUME NEW t \in Task, NEW pl \in Plans, Launch(t, pl) PROVE Rows'
  BY <1>1 DEF Launch, Goto
<1>2. ASSUME NEW t \in Task, StartDiscovery(t) PROVE Rows'
  BY <1>2 DEF StartDiscovery, Goto
<1>3. ASSUME NEW t \in Task, LaunchRefused(t) PROVE Rows'
  BY <1>3 DEF LaunchRefused
<1>4. ASSUME NEW t \in Task, LaunchSend(t) PROVE Rows'
  BY <1>4 DEF LaunchSend, Goto
<1>5. ASSUME NEW t \in Task, LaunchCommit(t) PROVE Rows'
  BY <1>5 DEF LaunchCommit
<1>6. ASSUME NEW t \in Task, Take(t) PROVE Rows'
  BY <1>6 DEF Take, Goto
<1>7. ASSUME NEW t \in Task, MarkRunning(t) PROVE Rows'
  BY <1>7 DEF MarkRunning, Mark, Goto
<1>8. ASSUME NEW t \in Task, MarkCompleted(t) PROVE Rows'
  BY <1>8 DEF MarkCompleted, Mark, Goto
<1>9. ASSUME NEW t \in Task, MarkFailed(t) PROVE Rows'
  BY <1>9 DEF MarkFailed, Mark, Goto
<1>10. ASSUME NEW t \in Task, Return(t) PROVE Rows'
  BY <1>10 DEF Return, Goto
<1>11. ASSUME NEW t \in Task, NEW some \in BOOLEAN, Work(t, some) PROVE Rows'
  BY <1>11 DEF Work, Goto
<1>12. ASSUME NEW t \in Task, DispatchNothing(t) PROVE Rows'
  BY <1>12 DEF DispatchNothing, AfterDispatch, Goto
<1>13. ASSUME NEW t \in Task, SendChild(t) PROVE Rows'
  BY <1>13 DEF SendChild, Sending
<1>14. ASSUME NEW t \in Task, LinkChild(t) PROVE Rows'
  BY <1>14 DEF LinkChild, AfterDispatch, Goto, Sending
<1>15. ASSUME NEW t \in Task, NEW c \in Task, AttachDns(t, c) PROVE Rows'
  BY <1>15 DEF AttachDns, AfterDispatch
<1>16. ASSUME NEW t \in Task, NEW c \in Task, CreateChild(t, c) PROVE Rows'
  BY <1>16 DEF CreateChild
<1>17. ASSUME NEW t \in Task, Retry(t) PROVE Rows'
  BY <1>17 DEF Retry, Goto
<1>18. ASSUME NEW t \in Task, GiveUp(t) PROVE Rows'
  BY <1>18 DEF GiveUp, Goto
<1>19. ASSUME NEW t \in Task, LaunchFails(t) PROVE Rows'
  BY <1>19 DEF LaunchFails, Fault
<1>20. ASSUME NEW t \in Task, StepFails(t) PROVE Rows'
  BY <1>20 DEF StepFails, Fallible, OnError, Fault, Goto
<1>21. ASSUME NEW t \in Task, MarkFails(t) PROVE Rows'
  BY <1>21 DEF MarkFails, Fault, Goto
<1>22. ASSUME NEW t \in Task, SwallowedMark(t) PROVE Rows'
  BY <1>22 DEF SwallowedMark, Fault, Goto
<1>23. ASSUME NEW t \in Task, Crash(t) PROVE Rows'
  BY <1>23 DEF Crash, Executing, Fault, Goto
<1>24. ASSUME NEW p \in Poller, NEW t \in Task, PollRead(p, t) PROVE Rows'
  BY <1>24 DEF PollRead
<1>25. ASSUME NEW p \in Poller, PollLock(p) PROVE Rows'
  BY <1>25 DEF PollLock
<1>26. ASSUME NEW p \in Poller, PollFinish(p) PROVE Rows'
  BY <1>26 DEF PollFinish, Reported
<1>27. ASSUME NEW p \in Poller, PollAbort(p) PROVE Rows'
  BY <1>27 DEF PollAbort, Fault
<1>s. ASSUME UNCHANGED vars PROVE Rows'
  BY <1>s DEF vars
<1> HIDE DEF TypeOK, Rows, taskVars, rowVars, runVars, pollVars, Terminal
<1>q. QED
  BY <1>1, <1>2, <1>3, <1>4, <1>5, <1>6, <1>7, <1>8, <1>9, <1>10, <1>11, <1>12, <1>13, <1>14, <1>15, <1>16, <1>17, <1>18, <1>19, <1>20, <1>21, <1>22, <1>23, <1>24, <1>25, <1>26, <1>27, <1>s DEF Next, Terminating, Api, Worker, Failure, Client

(* A child is sent only by the worker that created it. *)
LEMMA SendingStep ==
  ASSUME TypeOK, Rows, Sending, [Next]_vars
  PROVE  Sending'
<1> USE ScanJobsAssumption DEF TypeOK, Sending, taskVars, rowVars, runVars, pollVars, Terminal
<1>1. ASSUME NEW t \in Task, NEW pl \in Plans, Launch(t, pl) PROVE Sending'
  BY <1>1 DEF Launch, Goto, Rows
<1>2. ASSUME NEW t \in Task, StartDiscovery(t) PROVE Sending'
  BY <1>2 DEF StartDiscovery, Goto, Rows
<1>3. ASSUME NEW t \in Task, LaunchRefused(t) PROVE Sending'
  BY <1>3 DEF LaunchRefused, Rows
<1>4. ASSUME NEW t \in Task, LaunchSend(t) PROVE Sending'
  BY <1>4 DEF LaunchSend, Goto, Rows
<1>5. ASSUME NEW t \in Task, LaunchCommit(t) PROVE Sending'
  BY <1>5 DEF LaunchCommit, Rows
<1>6. ASSUME NEW t \in Task, Take(t) PROVE Sending'
  BY <1>6 DEF Take, Goto
<1>7. ASSUME NEW t \in Task, MarkRunning(t) PROVE Sending'
  BY <1>7 DEF MarkRunning, Mark, Goto
<1>8. ASSUME NEW t \in Task, MarkCompleted(t) PROVE Sending'
  BY <1>8 DEF MarkCompleted, Mark, Goto
<1>9. ASSUME NEW t \in Task, MarkFailed(t) PROVE Sending'
  BY <1>9 DEF MarkFailed, Mark, Goto
<1>10. ASSUME NEW t \in Task, Return(t) PROVE Sending'
  BY <1>10 DEF Return, Goto
<1>11. ASSUME NEW t \in Task, NEW some \in BOOLEAN, Work(t, some) PROVE Sending'
  BY <1>11 DEF Work, Goto
<1>12. ASSUME NEW t \in Task, DispatchNothing(t) PROVE Sending'
  BY <1>12 DEF DispatchNothing, AfterDispatch, Goto
<1>13. ASSUME NEW t \in Task, SendChild(t) PROVE Sending'
  BY <1>13 DEF SendChild
<1>14. ASSUME NEW t \in Task, LinkChild(t) PROVE Sending'
  BY <1>14 DEF LinkChild, AfterDispatch, Goto
<1>15. ASSUME NEW t \in Task, NEW c \in Task, AttachDns(t, c) PROVE Sending'
  BY <1>15 DEF AttachDns, AfterDispatch, Rows
<1>16. ASSUME NEW t \in Task, NEW c \in Task, CreateChild(t, c) PROVE Sending'
  BY <1>16 DEF CreateChild, Rows
<1>17. ASSUME NEW t \in Task, Retry(t) PROVE Sending'
  BY <1>17 DEF Retry, Goto
<1>18. ASSUME NEW t \in Task, GiveUp(t) PROVE Sending'
  BY <1>18 DEF GiveUp, Goto
<1>19. ASSUME NEW t \in Task, LaunchFails(t) PROVE Sending'
  BY <1>19 DEF LaunchFails, Fault, Rows
<1>20. ASSUME NEW t \in Task, StepFails(t) PROVE Sending'
  BY <1>20 DEF StepFails, Fallible, OnError, Fault, Goto
<1>21. ASSUME NEW t \in Task, MarkFails(t) PROVE Sending'
  BY <1>21 DEF MarkFails, Fault, Goto
<1>22. ASSUME NEW t \in Task, SwallowedMark(t) PROVE Sending'
  BY <1>22 DEF SwallowedMark, Fault, Goto
<1>23. ASSUME NEW t \in Task, Crash(t) PROVE Sending'
  BY <1>23 DEF Crash, Executing, Fault, Goto
<1>24. ASSUME NEW p \in Poller, NEW t \in Task, PollRead(p, t) PROVE Sending'
  BY <1>24 DEF PollRead
<1>25. ASSUME NEW p \in Poller, PollLock(p) PROVE Sending'
  BY <1>25 DEF PollLock
<1>26. ASSUME NEW p \in Poller, PollFinish(p) PROVE Sending'
  BY <1>26 DEF PollFinish, Reported
<1>27. ASSUME NEW p \in Poller, PollAbort(p) PROVE Sending'
  BY <1>27 DEF PollAbort, Fault
<1>s. ASSUME UNCHANGED vars PROVE Sending'
  BY <1>s DEF vars
<1> HIDE DEF TypeOK, Sending, taskVars, rowVars, runVars, pollVars, Terminal
<1>q. QED
  BY <1>1, <1>2, <1>3, <1>4, <1>5, <1>6, <1>7, <1>8, <1>9, <1>10, <1>11, <1>12, <1>13, <1>14, <1>15, <1>16, <1>17, <1>18, <1>19, <1>20, <1>21, <1>22, <1>23, <1>24, <1>25, <1>26, <1>27, <1>s DEF Next, Terminating, Api, Worker, Failure, Client

(* An outcome is reported once the worker is done. *)
LEMMA OutcomeStep ==
  ASSUME TypeOK, Rows, Sending, Outcome, [Next]_vars
  PROVE  Outcome'
<1> USE DEF TypeOK, Outcome, taskVars, rowVars, runVars, pollVars, Terminal
<1>1. ASSUME NEW t \in Task, NEW pl \in Plans, Launch(t, pl) PROVE Outcome'
  BY <1>1 DEF Launch, Goto
<1>2. ASSUME NEW t \in Task, StartDiscovery(t) PROVE Outcome'
  BY <1>2 DEF StartDiscovery, Goto
<1>3. ASSUME NEW t \in Task, LaunchRefused(t) PROVE Outcome'
  BY <1>3 DEF LaunchRefused
<1>4. ASSUME NEW t \in Task, LaunchSend(t) PROVE Outcome'
  BY <1>4 DEF LaunchSend, Goto, Rows
<1>5. ASSUME NEW t \in Task, LaunchCommit(t) PROVE Outcome'
  BY <1>5 DEF LaunchCommit
<1>6. ASSUME NEW t \in Task, Take(t) PROVE Outcome'
  BY <1>6 DEF Take, Goto
<1>7. ASSUME NEW t \in Task, MarkRunning(t) PROVE Outcome'
  BY <1>7 DEF MarkRunning, Mark, Goto
<1>8. ASSUME NEW t \in Task, MarkCompleted(t) PROVE Outcome'
  BY <1>8 DEF MarkCompleted, Mark, Goto
<1>9. ASSUME NEW t \in Task, MarkFailed(t) PROVE Outcome'
  BY <1>9 DEF MarkFailed, Mark, Goto
<1>10. ASSUME NEW t \in Task, Return(t) PROVE Outcome'
  BY <1>10 DEF Return, Goto
<1>11. ASSUME NEW t \in Task, NEW some \in BOOLEAN, Work(t, some) PROVE Outcome'
  BY <1>11 DEF Work, Goto
<1>12. ASSUME NEW t \in Task, DispatchNothing(t) PROVE Outcome'
  BY <1>12 DEF DispatchNothing, AfterDispatch, Goto
<1>13. ASSUME NEW t \in Task, SendChild(t) PROVE Outcome'
  BY <1>13 DEF SendChild, Sending
<1>14. ASSUME NEW t \in Task, LinkChild(t) PROVE Outcome'
  BY <1>14 DEF LinkChild, AfterDispatch, Goto
<1>15. ASSUME NEW t \in Task, NEW c \in Task, AttachDns(t, c) PROVE Outcome'
  BY <1>15 DEF AttachDns, AfterDispatch
<1>16. ASSUME NEW t \in Task, NEW c \in Task, CreateChild(t, c) PROVE Outcome'
  BY <1>16 DEF CreateChild
<1>17. ASSUME NEW t \in Task, Retry(t) PROVE Outcome'
  BY <1>17 DEF Retry, Goto
<1>18. ASSUME NEW t \in Task, GiveUp(t) PROVE Outcome'
  BY <1>18 DEF GiveUp, Goto
<1>19. ASSUME NEW t \in Task, LaunchFails(t) PROVE Outcome'
  BY <1>19 DEF LaunchFails, Fault
<1>20. ASSUME NEW t \in Task, StepFails(t) PROVE Outcome'
  BY <1>20 DEF StepFails, Fallible, OnError, Fault, Goto
<1>21. ASSUME NEW t \in Task, MarkFails(t) PROVE Outcome'
  BY <1>21 DEF MarkFails, Fault, Goto
<1>22. ASSUME NEW t \in Task, SwallowedMark(t) PROVE Outcome'
  BY <1>22 DEF SwallowedMark, Fault, Goto
<1>23. ASSUME NEW t \in Task, Crash(t) PROVE Outcome'
  BY <1>23 DEF Crash, Executing, Fault, Goto
<1>24. ASSUME NEW p \in Poller, NEW t \in Task, PollRead(p, t) PROVE Outcome'
  BY <1>24 DEF PollRead
<1>25. ASSUME NEW p \in Poller, PollLock(p) PROVE Outcome'
  BY <1>25 DEF PollLock
<1>26. ASSUME NEW p \in Poller, PollFinish(p) PROVE Outcome'
  BY <1>26 DEF PollFinish, Reported
<1>27. ASSUME NEW p \in Poller, PollAbort(p) PROVE Outcome'
  BY <1>27 DEF PollAbort, Fault
<1>s. ASSUME UNCHANGED vars PROVE Outcome'
  BY <1>s DEF vars
<1> HIDE DEF TypeOK, Outcome, taskVars, rowVars, runVars, pollVars, Terminal
<1>q. QED
  BY <1>1, <1>2, <1>3, <1>4, <1>5, <1>6, <1>7, <1>8, <1>9, <1>10, <1>11, <1>12, <1>13, <1>14, <1>15, <1>16, <1>17, <1>18, <1>19, <1>20, <1>21, <1>22, <1>23, <1>24, <1>25, <1>26, <1>27, <1>s DEF Next, Terminating, Api, Worker, Failure, Client

(* Work is committed before anything is made of it. *)
LEMMA WorkedStep ==
  ASSUME TypeOK, Rows, Worked, [Next]_vars
  PROVE  Worked'
<1> USE ScanJobsAssumption DEF TypeOK, Worked, CompletedMeansWorked, DispatchAfterCommit, taskVars, rowVars, runVars, pollVars, Terminal
<1>1. ASSUME NEW t \in Task, NEW pl \in Plans, Launch(t, pl) PROVE Worked'
  BY <1>1 DEF Launch, Goto
<1>2. ASSUME NEW t \in Task, StartDiscovery(t) PROVE Worked'
  BY <1>2 DEF StartDiscovery, Goto
<1>3. ASSUME NEW t \in Task, LaunchRefused(t) PROVE Worked'
  BY <1>3 DEF LaunchRefused
<1>4. ASSUME NEW t \in Task, LaunchSend(t) PROVE Worked'
  BY <1>4 DEF LaunchSend, Goto
<1>5. ASSUME NEW t \in Task, LaunchCommit(t) PROVE Worked'
  BY <1>5 DEF LaunchCommit, Rows
<1>6. ASSUME NEW t \in Task, Take(t) PROVE Worked'
  BY <1>6 DEF Take, Goto
<1>7. ASSUME NEW t \in Task, MarkRunning(t) PROVE Worked'
  BY <1>7 DEF MarkRunning, Mark, Goto
<1>8. ASSUME NEW t \in Task, MarkCompleted(t) PROVE Worked'
  BY <1>8 DEF MarkCompleted, Mark, Goto
<1>9. ASSUME NEW t \in Task, MarkFailed(t) PROVE Worked'
  BY <1>9 DEF MarkFailed, Mark, Goto
<1>10. ASSUME NEW t \in Task, Return(t) PROVE Worked'
  BY <1>10 DEF Return, Goto
<1>11. ASSUME NEW t \in Task, NEW some \in BOOLEAN, Work(t, some) PROVE Worked'
  BY <1>11 DEF Work, Goto
<1>12. ASSUME NEW t \in Task, DispatchNothing(t) PROVE Worked'
  BY <1>12 DEF DispatchNothing, AfterDispatch, Goto
<1>13. ASSUME NEW t \in Task, SendChild(t) PROVE Worked'
  BY <1>13 DEF SendChild
<1>14. ASSUME NEW t \in Task, LinkChild(t) PROVE Worked'
  BY <1>14 DEF LinkChild, AfterDispatch, Goto
<1>15. ASSUME NEW t \in Task, NEW c \in Task, AttachDns(t, c) PROVE Worked'
  BY <1>15 DEF AttachDns, AfterDispatch
<1>16. ASSUME NEW t \in Task, NEW c \in Task, CreateChild(t, c) PROVE Worked'
  BY <1>16 DEF CreateChild
<1>17. ASSUME NEW t \in Task, Retry(t) PROVE Worked'
  BY <1>17 DEF Retry, Goto
<1>18. ASSUME NEW t \in Task, GiveUp(t) PROVE Worked'
  BY <1>18 DEF GiveUp, Goto
<1>19. ASSUME NEW t \in Task, LaunchFails(t) PROVE Worked'
  BY <1>19 DEF LaunchFails, Fault
<1>20. ASSUME NEW t \in Task, StepFails(t) PROVE Worked'
  BY <1>20 DEF StepFails, Fallible, OnError, Fault, Goto
<1>21. ASSUME NEW t \in Task, MarkFails(t) PROVE Worked'
  BY <1>21 DEF MarkFails, Fault, Goto
<1>22. ASSUME NEW t \in Task, SwallowedMark(t) PROVE Worked'
  BY <1>22 DEF SwallowedMark, Fault, Goto
<1>23. ASSUME NEW t \in Task, Crash(t) PROVE Worked'
  BY <1>23 DEF Crash, Executing, Fault, Goto
<1>24. ASSUME NEW p \in Poller, NEW t \in Task, PollRead(p, t) PROVE Worked'
  BY <1>24 DEF PollRead
<1>25. ASSUME NEW p \in Poller, PollLock(p) PROVE Worked'
  BY <1>25 DEF PollLock
<1>26. ASSUME NEW p \in Poller, PollFinish(p) PROVE Worked'
  BY <1>26 DEF PollFinish, Reported, Rows
<1>27. ASSUME NEW p \in Poller, PollAbort(p) PROVE Worked'
  BY <1>27 DEF PollAbort, Fault
<1>s. ASSUME UNCHANGED vars PROVE Worked'
  BY <1>s DEF vars
<1> HIDE DEF TypeOK, Worked, CompletedMeansWorked, DispatchAfterCommit, taskVars, rowVars, runVars, pollVars, Terminal
<1>q. QED
  BY <1>1, <1>2, <1>3, <1>4, <1>5, <1>6, <1>7, <1>8, <1>9, <1>10, <1>11, <1>12, <1>13, <1>14, <1>15, <1>16, <1>17, <1>18, <1>19, <1>20, <1>21, <1>22, <1>23, <1>24, <1>25, <1>26, <1>27, <1>s DEF Next, Terminating, Api, Worker, Failure, Client

(* Marks and outcomes agree. *)
LEMMA MarksStep ==
  ASSUME TypeOK, Rows, Sending, Outcome, Marks, [Next]_vars
  PROVE  Marks'
<1> USE ScanJobsAssumption DEF TypeOK, Marks, Handler, Step, MarksFailure, HasJobId, taskVars, rowVars, runVars, pollVars, Terminal
<1>1. ASSUME NEW t \in Task, NEW pl \in Plans, Launch(t, pl) PROVE Marks'
  BY <1>1 DEF Launch, Goto, Rows, Sending, Outcome
<1>2. ASSUME NEW t \in Task, StartDiscovery(t) PROVE Marks'
  BY <1>2 DEF StartDiscovery, Goto, Rows, Sending, Outcome
<1>3. ASSUME NEW t \in Task, LaunchRefused(t) PROVE Marks'
  BY <1>3 DEF LaunchRefused, Rows, Sending, Outcome
<1>4. ASSUME NEW t \in Task, LaunchSend(t) PROVE Marks'
  BY <1>4 DEF LaunchSend, Goto, Rows, Sending, Outcome
<1>5. ASSUME NEW t \in Task, LaunchCommit(t) PROVE Marks'
  BY <1>5 DEF LaunchCommit, Rows, Sending, Outcome
<1>6. ASSUME NEW t \in Task, Take(t) PROVE Marks'
  BY <1>6 DEF Take, Goto
<1>7. ASSUME NEW t \in Task, MarkRunning(t) PROVE Marks'
  BY <1>7 DEF MarkRunning, Mark, Goto, Rows, Sending, Outcome
<1>8. ASSUME NEW t \in Task, MarkCompleted(t) PROVE Marks'
  BY <1>8 DEF MarkCompleted, Mark, Goto, Rows, Sending, Outcome
<1>9. ASSUME NEW t \in Task, MarkFailed(t) PROVE Marks'
  BY <1>9 DEF MarkFailed, Mark, Goto, Rows, Sending, Outcome
<1>10. ASSUME NEW t \in Task, Return(t) PROVE Marks'
  BY <1>10 DEF Return, Goto, Rows, Sending, Outcome
<1>11. ASSUME NEW t \in Task, NEW some \in BOOLEAN, Work(t, some) PROVE Marks'
  BY <1>11 DEF Work, Goto
<1>12. ASSUME NEW t \in Task, DispatchNothing(t) PROVE Marks'
  BY <1>12 DEF DispatchNothing, AfterDispatch, Goto, Rows, Sending, Outcome
<1>13. ASSUME NEW t \in Task, SendChild(t) PROVE Marks'
  BY <1>13 DEF SendChild, Rows, Sending, Outcome
<1>14. ASSUME NEW t \in Task, LinkChild(t) PROVE Marks'
  BY <1>14 DEF LinkChild, AfterDispatch, Goto, Rows, Sending, Outcome
<1>15. ASSUME NEW t \in Task, NEW c \in Task, AttachDns(t, c) PROVE Marks'
  BY <1>15 DEF AttachDns, AfterDispatch, Rows, Sending, Outcome
<1>16. ASSUME NEW t \in Task, NEW c \in Task, CreateChild(t, c) PROVE Marks'
  BY <1>16 DEF CreateChild, Rows, Sending, Outcome
<1>17. ASSUME NEW t \in Task, Retry(t) PROVE Marks'
  BY <1>17 DEF Retry, Goto, Rows, Sending, Outcome
<1>18. ASSUME NEW t \in Task, GiveUp(t) PROVE Marks'
  BY <1>18 DEF GiveUp, Goto, Rows, Sending, Outcome
<1>19. ASSUME NEW t \in Task, LaunchFails(t) PROVE Marks'
  BY <1>19 DEF LaunchFails, Fault, Rows, Sending, Outcome
<1>20. ASSUME NEW t \in Task, StepFails(t) PROVE Marks'
  BY <1>20 DEF StepFails, Fallible, OnError, Fault, Goto, Rows, Sending, Outcome
<1>21. ASSUME NEW t \in Task, MarkFails(t) PROVE Marks'
  BY <1>21 DEF MarkFails, Fault, Goto
<1>22. ASSUME NEW t \in Task, SwallowedMark(t) PROVE Marks'
  BY <1>22 DEF SwallowedMark, Fault, Goto
<1>23. ASSUME NEW t \in Task, Crash(t) PROVE Marks'
  BY <1>23 DEF Crash, Executing, Fault, Goto, Rows, Sending, Outcome
<1>24. ASSUME NEW p \in Poller, NEW t \in Task, PollRead(p, t) PROVE Marks'
  BY <1>24 DEF PollRead
<1>25. ASSUME NEW p \in Poller, PollLock(p) PROVE Marks'
  BY <1>25 DEF PollLock
<1>26. ASSUME NEW p \in Poller, PollFinish(p) PROVE Marks'
  BY <1>26 DEF PollFinish, Reported, Rows, Sending, Outcome
<1>27. ASSUME NEW p \in Poller, PollAbort(p) PROVE Marks'
  BY <1>27 DEF PollAbort, Fault
<1>s. ASSUME UNCHANGED vars PROVE Marks'
  BY <1>s DEF vars
<1> HIDE DEF TypeOK, Marks, Handler, Step, MarksFailure, HasJobId, taskVars, rowVars, runVars, pollVars, Terminal
<1>q. QED
  BY <1>1, <1>2, <1>3, <1>4, <1>5, <1>6, <1>7, <1>8, <1>9, <1>10, <1>11, <1>12, <1>13, <1>14, <1>15, <1>16, <1>17, <1>18, <1>19, <1>20, <1>21, <1>22, <1>23, <1>24, <1>25, <1>26, <1>27, <1>s DEF Next, Terminating, Api, Worker, Failure, Client

(* An attempt dispatches once. *)
LEMMA AttemptsStep ==
  ASSUME TypeOK, Rows, Sending, Attempts, [Next]_vars
  PROVE  Attempts'
<1> USE ScanJobsAssumption DEF TypeOK, Attempts, OneChildPerAttempt, BeforeDispatch, MarksFailure, Handler, Step, taskVars, rowVars, runVars, pollVars, Terminal
<1>1. ASSUME NEW t \in Task, NEW pl \in Plans, Launch(t, pl) PROVE Attempts'
  BY <1>1 DEF Launch, Goto, Rows, Sending
<1>2. ASSUME NEW t \in Task, StartDiscovery(t) PROVE Attempts'
  BY <1>2 DEF StartDiscovery, Goto, Rows, Sending
<1>3. ASSUME NEW t \in Task, LaunchRefused(t) PROVE Attempts'
  BY <1>3 DEF LaunchRefused
<1>4. ASSUME NEW t \in Task, LaunchSend(t) PROVE Attempts'
  BY <1>4 DEF LaunchSend, Goto, Rows, Sending
<1>5. ASSUME NEW t \in Task, LaunchCommit(t) PROVE Attempts'
  BY <1>5 DEF LaunchCommit
<1>6. ASSUME NEW t \in Task, Take(t) PROVE Attempts'
  BY <1>6 DEF Take, Goto
<1>7. ASSUME NEW t \in Task, MarkRunning(t) PROVE Attempts'
  BY <1>7 DEF MarkRunning, Mark, Goto
<1>8. ASSUME NEW t \in Task, MarkCompleted(t) PROVE Attempts'
  BY <1>8 DEF MarkCompleted, Mark, Goto
<1>9. ASSUME NEW t \in Task, MarkFailed(t) PROVE Attempts'
  BY <1>9 DEF MarkFailed, Mark, Goto
<1>10. ASSUME NEW t \in Task, Return(t) PROVE Attempts'
  BY <1>10 DEF Return, Goto
<1>11. ASSUME NEW t \in Task, NEW some \in BOOLEAN, Work(t, some) PROVE Attempts'
  BY <1>11 DEF Work, Goto
<1>12. ASSUME NEW t \in Task, DispatchNothing(t) PROVE Attempts'
  BY <1>12 DEF DispatchNothing, AfterDispatch, Goto
<1>13. ASSUME NEW t \in Task, SendChild(t) PROVE Attempts'
  BY <1>13 DEF SendChild, Rows, Sending
<1>14. ASSUME NEW t \in Task, LinkChild(t) PROVE Attempts'
  BY <1>14 DEF LinkChild, AfterDispatch, Goto, Rows, Sending
<1>15. ASSUME NEW t \in Task, NEW c \in Task, AttachDns(t, c) PROVE Attempts'
  BY <1>15 DEF AttachDns, AfterDispatch, Rows, Sending
<1>16. ASSUME NEW t \in Task, NEW c \in Task, CreateChild(t, c) PROVE Attempts'
  BY <1>16 DEF CreateChild, Rows, Sending
<1>17. ASSUME NEW t \in Task, Retry(t) PROVE Attempts'
  BY <1>17 DEF Retry, Goto
<1>18. ASSUME NEW t \in Task, GiveUp(t) PROVE Attempts'
  BY <1>18 DEF GiveUp, Goto
<1>19. ASSUME NEW t \in Task, LaunchFails(t) PROVE Attempts'
  BY <1>19 DEF LaunchFails, Fault
<1>20. ASSUME NEW t \in Task, StepFails(t) PROVE Attempts'
  BY <1>20 DEF StepFails, Fallible, OnError, Fault, Goto
<1>21. ASSUME NEW t \in Task, MarkFails(t) PROVE Attempts'
  BY <1>21 DEF MarkFails, Fault, Goto
<1>22. ASSUME NEW t \in Task, SwallowedMark(t) PROVE Attempts'
  BY <1>22 DEF SwallowedMark, Fault, Goto, Rows, Sending
<1>23. ASSUME NEW t \in Task, Crash(t) PROVE Attempts'
  BY <1>23 DEF Crash, Executing, Fault, Goto
<1>24. ASSUME NEW p \in Poller, NEW t \in Task, PollRead(p, t) PROVE Attempts'
  BY <1>24 DEF PollRead
<1>25. ASSUME NEW p \in Poller, PollLock(p) PROVE Attempts'
  BY <1>25 DEF PollLock
<1>26. ASSUME NEW p \in Poller, PollFinish(p) PROVE Attempts'
  BY <1>26 DEF PollFinish, Reported
<1>27. ASSUME NEW p \in Poller, PollAbort(p) PROVE Attempts'
  BY <1>27 DEF PollAbort, Fault
<1>s. ASSUME UNCHANGED vars PROVE Attempts'
  BY <1>s DEF vars
<1> HIDE DEF TypeOK, Attempts, OneChildPerAttempt, BeforeDispatch, MarksFailure, Handler, Step, taskVars, rowVars, runVars, pollVars, Terminal
<1>q. QED
  BY <1>1, <1>2, <1>3, <1>4, <1>5, <1>6, <1>7, <1>8, <1>9, <1>10, <1>11, <1>12, <1>13, <1>14, <1>15, <1>16, <1>17, <1>18, <1>19, <1>20, <1>21, <1>22, <1>23, <1>24, <1>25, <1>26, <1>27, <1>s DEF Next, Terminating, Api, Worker, Failure, Client

(* The conjunction is an invariant of every behaviour. *)
THEOREM Invariance == Spec => []IInv
<1>1. IInv /\ [Next]_vars => IInv'
  BY TypeStep, RowsStep, SendingStep, OutcomeStep, WorkedStep, MarksStep, AttemptsStep DEF IInv
<1>q. QED
  BY InitIInv, <1>1, PTL DEF Spec

(* Every variable keeps its type, and a row is visible exactly when the     *)
(* transaction that wrote it committed.                                     *)
THEOREM TypeCorrect == Spec => []TypeOK
<1>1. IInv => TypeOK
  BY DEF IInv
<1>q. QED
  BY Invariance, <1>1, PTL

(* A completed job has committed results (mark_job_status and the status    *)
(* request are the only writers of "completed").                            *)
THEOREM CompletedIsTrue == Spec => []CompletedMeansWorked
<1>1. IInv => CompletedMeansWorked
  BY DEF IInv, Worked
<1>q. QED
  BY Invariance, <1>1, PTL

(* A task that succeeded on a later attempt leaves no failed job behind.    *)
THEOREM SuccessIsNotFailed == Spec => []SuccessNotFailed
<1>1. IInv => SuccessNotFailed
  BY DEF IInv, Marks, SuccessNotFailed
<1>q. QED
  BY Invariance, <1>1, PTL

(* trigger_next_step and the attached DNS task come after the commit of     *)
(* run_with_session.                                                        *)
THEOREM DispatchIsAfterCommit == Spec => []DispatchAfterCommit
<1>1. IInv => DispatchAfterCommit
  BY DEF IInv, Worked
<1>q. QED
  BY Invariance, <1>1, PTL

(* sync_create_job commits a step's row before send_task.                   *)
THEOREM ChildRowsComeFirst == Spec => []ChildRowBeforeMessage
<1>1. IInv => ChildRowBeforeMessage
  BY DEF IInv, Rows, TypeOK, ChildRowBeforeMessage, HasJobId
<1>q. QED
  BY Invariance, <1>1, PTL

(* An attempt of a task dispatches at most one next step.                   *)
THEOREM OneDispatchPerAttempt == Spec => []OneChildPerAttempt
<1>1. IInv => OneChildPerAttempt
  BY DEF IInv, Attempts
<1>q. QED
  BY Invariance, <1>1, PTL

(* No step but the end of a status request about it takes a job back from   *)
(* completed: a worker marks a job running or failed only while it cannot   *)
(* be completed.                                                            *)
LEMMA ReopenStep ==
  ASSUME IInv, [Next]_vars, NEW j \in Task, status[j] = "completed", status'[j] # "completed"
  PROVE  \E p \in Poller : pollTask[p] = j /\ pollPc'[p] = "idle"
<1> DEFINE Ended == \E p \in Poller : pollTask[p] = j /\ pollPc'[p] = "idle"
<1> USE DEF IInv, TypeOK, taskVars, rowVars, runVars, pollVars, Terminal
<1>1. ASSUME NEW t \in Task, NEW pl \in Plans, Launch(t, pl) PROVE Ended
  BY <1>1 DEF Launch, Goto, Rows
<1>2. ASSUME NEW t \in Task, StartDiscovery(t) PROVE Ended
  BY <1>2 DEF StartDiscovery, Goto
<1>3. ASSUME NEW t \in Task, LaunchRefused(t) PROVE Ended
  BY <1>3 DEF LaunchRefused
<1>4. ASSUME NEW t \in Task, LaunchSend(t) PROVE Ended
  BY <1>4 DEF LaunchSend, Goto
<1>5. ASSUME NEW t \in Task, LaunchCommit(t) PROVE Ended
  BY <1>5 DEF LaunchCommit
<1>6. ASSUME NEW t \in Task, Take(t) PROVE Ended
  BY <1>6 DEF Take, Goto
<1>7. ASSUME NEW t \in Task, MarkRunning(t) PROVE Ended
  BY <1>7 DEF MarkRunning, Mark, Goto, Marks
<1>8. ASSUME NEW t \in Task, MarkCompleted(t) PROVE Ended
  BY <1>8 DEF MarkCompleted, Mark, Goto
<1>9. ASSUME NEW t \in Task, MarkFailed(t) PROVE Ended
  BY <1>9 DEF MarkFailed, Mark, Goto, Marks
<1>10. ASSUME NEW t \in Task, Return(t) PROVE Ended
  BY <1>10 DEF Return, Goto
<1>11. ASSUME NEW t \in Task, NEW some \in BOOLEAN, Work(t, some) PROVE Ended
  BY <1>11 DEF Work, Goto
<1>12. ASSUME NEW t \in Task, DispatchNothing(t) PROVE Ended
  BY <1>12 DEF DispatchNothing, AfterDispatch, Goto
<1>13. ASSUME NEW t \in Task, SendChild(t) PROVE Ended
  BY <1>13 DEF SendChild
<1>14. ASSUME NEW t \in Task, LinkChild(t) PROVE Ended
  BY <1>14 DEF LinkChild, AfterDispatch, Goto
<1>15. ASSUME NEW t \in Task, NEW c \in Task, AttachDns(t, c) PROVE Ended
  BY <1>15 DEF AttachDns, AfterDispatch
<1>16. ASSUME NEW t \in Task, NEW c \in Task, CreateChild(t, c) PROVE Ended
  BY <1>16 DEF CreateChild, Rows
<1>17. ASSUME NEW t \in Task, Retry(t) PROVE Ended
  BY <1>17 DEF Retry, Goto
<1>18. ASSUME NEW t \in Task, GiveUp(t) PROVE Ended
  BY <1>18 DEF GiveUp, Goto
<1>19. ASSUME NEW t \in Task, LaunchFails(t) PROVE Ended
  BY <1>19 DEF LaunchFails, Fault
<1>20. ASSUME NEW t \in Task, StepFails(t) PROVE Ended
  BY <1>20 DEF StepFails, Fallible, OnError, Fault, Goto
<1>21. ASSUME NEW t \in Task, MarkFails(t) PROVE Ended
  BY <1>21 DEF MarkFails, Fault, Goto
<1>22. ASSUME NEW t \in Task, SwallowedMark(t) PROVE Ended
  BY <1>22 DEF SwallowedMark, Fault, Goto
<1>23. ASSUME NEW t \in Task, Crash(t) PROVE Ended
  BY <1>23 DEF Crash, Executing, Fault, Goto
<1>24. ASSUME NEW p \in Poller, NEW t \in Task, PollRead(p, t) PROVE Ended
  BY <1>24 DEF PollRead
<1>25. ASSUME NEW p \in Poller, PollLock(p) PROVE Ended
  BY <1>25 DEF PollLock
<1>26. ASSUME NEW p \in Poller, PollFinish(p) PROVE Ended
  BY <1>26 DEF PollFinish, Reported, Rows
<1>27. ASSUME NEW p \in Poller, PollAbort(p) PROVE Ended
  BY <1>27 DEF PollAbort, Fault
<1>s. ASSUME UNCHANGED vars PROVE Ended
  BY <1>s DEF vars
<1> HIDE DEF IInv, TypeOK, taskVars, rowVars, runVars, pollVars, Terminal, Ended
<1>r. Ended
  BY <1>1, <1>2, <1>3, <1>4, <1>5, <1>6, <1>7, <1>8, <1>9, <1>10, <1>11, <1>12, <1>13, <1>14, <1>15, <1>16, <1>17, <1>18, <1>19, <1>20, <1>21, <1>22, <1>23, <1>24, <1>25, <1>26, <1>27, <1>s DEF Next, Terminating, Api, Worker, Failure, Client
<1>q. QED
  BY <1>r DEF Ended

(* Only a status request that read the row earlier reopens a completed job. *)
THEOREM WorkersNeverReopen == Spec => ReopenedByPollOnly
<1>1. IInv /\ [Next]_vars =>
        [\A t \in Task :
           status[t] = "completed" /\ status'[t] # "completed"
             => \E p \in Poller : pollTask[p] = t /\ pollPc'[p] = "idle"]_vars
  BY ReopenStep
<1>q. QED
  BY Invariance, <1>1, PTL DEF Spec, ReopenedByPollOnly

-----------------------------------------------------------------------------
(***************************************************************************)
(* Where hand-overs lead and how often a step can be repeated.             *)
(***************************************************************************)
(* trigger_next_step goes on with the next step of its own plan; a discovery *)
(* that attaches DNS hands over to a DNS task that ends there.               *)
FollowsPlan ==
  \A c \in Task : parent[c] # NoTask =>
    LET t == parent[c]
    IN  \/ Attaches(t) /\ plan[c] = DnsPlan /\ step[c] = 1
        \/ /\ plan[t].routed /\ ~Attaches(t)
           /\ plan[c] = plan[t] /\ step[c] = step[t] + 1

(* The step a task stands for is one of its plan. *)
StepOfPlan == \A t \in Task : pc[t] # "unused" => step[t] \in 1 .. Len(plan[t].steps)

(* Only tasks that retry have been retried, and only used ones have children. *)
Tried ==
  /\ \A t \in Task : retries[t] > 0 => pc[t] # "unused" /\ Retries(t)
  /\ \A c \in Task : parent[c] # NoTask => pc[parent[c]] # "unused"

Places == StepOfPlan /\ Tried /\ FollowsPlan

(* Where a task is and what it has been told stay as they are. *)
Settled ==
  /\ UNCHANGED <<taskVars, retries>>
  /\ \A t \in Task : pc[t] = "unused" <=> pc'[t] = "unused"

(* A step that neither uses an identifier for the first time nor retries. *)
LEMMA SettledStep ==
  ASSUME Places, TypeOK, Rows, Settled
  PROVE  Places'
<1>1. (\A t \in Task : Handler(t)' = Handler(t)) /\ (\A t \in Task : Retries(t)' = Retries(t))
      /\ (\A t \in Task : Attaches(t)' = Attaches(t))
  BY DEF Settled, taskVars, Handler, Step, Retries, Attaches
<1>2. StepOfPlan' /\ Tried'
  BY <1>1 DEF Places, StepOfPlan, Tried, Settled, taskVars, TypeOK
<1>3. FollowsPlan'
  BY <1>1 DEF Places, FollowsPlan, Settled, taskVars, TypeOK
<1>q. QED
  BY <1>2, <1>3 DEF Places

LEMMA DnsPlanHasAStep == Len(DnsPlan.steps) = 1 /\ Len(DiscoveryPlan.steps) = 1
BY DEF DnsPlan, DiscoveryPlan

(* Every step keeps the places. *)
LEMMA PlacesStep ==
  ASSUME IInv, Places, [Next]_vars
  PROVE  Places'
<1> USE ScanJobsAssumption, PlansHaveSteps, DnsPlanHasAStep DEF taskVars, rowVars, runVars, pollVars
<1>0. TypeOK /\ Rows
  BY DEF IInv
<1>1. ASSUME NEW t \in Task, NEW pl \in Plans, Launch(t, pl) PROVE Places'
  <2>1. StepOfPlan'
    BY <1>0, <1>1 DEF Launch, Goto, Places, StepOfPlan, TypeOK, Rows
  <2>2. Tried'
    BY <1>0, <1>1 DEF Launch, Goto, Places, Tried, TypeOK, Rows, Retries, Handler, Step
  <2>3. FollowsPlan'
    BY <1>0, <1>1 DEF Launch, Goto, Places, Tried, FollowsPlan, TypeOK, Rows, Attaches, Handler, Step
  <2>q. QED
    BY <2>1, <2>2, <2>3 DEF Places
<1>2. ASSUME NEW t \in Task, StartDiscovery(t) PROVE Places'
  <2>1. StepOfPlan'
    <3>1. plan'[t] = DiscoveryPlan /\ step'[t] = 1
      BY <1>0, <1>2 DEF StartDiscovery, Goto, TypeOK, Rows
    <3>2. step'[t] \in 1 .. Len(plan'[t].steps)
      BY <3>1
    <3>3. \A u \in Task \ {t} : plan'[u] = plan[u] /\ step'[u] = step[u] /\ (pc'[u] # "unused" => pc[u] # "unused")
      BY <1>0, <1>2 DEF StartDiscovery, Goto, TypeOK
    <3>q. QED
      BY <3>2, <3>3 DEF Places, StepOfPlan
  <2>2. Tried'
    BY <1>0, <1>2 DEF StartDiscovery, Goto, Places, Tried, TypeOK, Rows, Retries, Handler, Step
  <2>3. FollowsPlan'
    BY <1>0, <1>2 DEF StartDiscovery, Goto, Places, Tried, FollowsPlan, TypeOK, Rows, Attaches, Handler, Step
  <2>q. QED
    BY <2>1, <2>2, <2>3 DEF Places
<1>3. ASSUME NEW t \in Task, LaunchRefused(t) PROVE Places'
  <2>1. Settled
    BY <1>0, <1>3 DEF LaunchRefused, Settled, TypeOK
  <2>q. QED
    BY <1>0, <2>1, SettledStep
<1>4. ASSUME NEW t \in Task, LaunchSend(t) PROVE Places'
  <2>1. Settled
    BY <1>0, <1>4 DEF LaunchSend, Goto, Rows, Settled, TypeOK
  <2>q. QED
    BY <1>0, <2>1, SettledStep
<1>5. ASSUME NEW t \in Task, LaunchCommit(t) PROVE Places'
  <2>1. Settled
    BY <1>0, <1>5 DEF LaunchCommit, Settled, TypeOK
  <2>q. QED
    BY <1>0, <2>1, SettledStep
<1>6. ASSUME NEW t \in Task, Take(t) PROVE Places'
  <2>1. Settled
    BY <1>0, <1>6 DEF Take, Goto, Settled, TypeOK
  <2>q. QED
    BY <1>0, <2>1, SettledStep
<1>7. ASSUME NEW t \in Task, MarkRunning(t) PROVE Places'
  <2>1. Settled
    BY <1>0, <1>7 DEF MarkRunning, Goto, Settled, TypeOK
  <2>q. QED
    BY <1>0, <2>1, SettledStep
<1>8. ASSUME NEW t \in Task, MarkCompleted(t) PROVE Places'
  <2>1. Settled
    BY <1>0, <1>8 DEF MarkCompleted, Goto, Settled, TypeOK
  <2>q. QED
    BY <1>0, <2>1, SettledStep
<1>9. ASSUME NEW t \in Task, MarkFailed(t) PROVE Places'
  <2>1. Settled
    BY <1>0, <1>9 DEF MarkFailed, Goto, Settled, TypeOK
  <2>q. QED
    BY <1>0, <2>1, SettledStep
<1>10. ASSUME NEW t \in Task, Return(t) PROVE Places'
  <2>1. Settled
    BY <1>0, <1>10 DEF Return, Goto, Settled, TypeOK
  <2>q. QED
    BY <1>0, <2>1, SettledStep
<1>11. ASSUME NEW t \in Task, NEW some \in BOOLEAN, Work(t, some) PROVE Places'
  <2>1. Settled
    BY <1>0, <1>11 DEF Work, Goto, Settled, TypeOK
  <2>q. QED
    BY <1>0, <2>1, SettledStep
<1>12. ASSUME NEW t \in Task, DispatchNothing(t) PROVE Places'
  <2>1. Settled
    BY <1>0, <1>12 DEF DispatchNothing, AfterDispatch, Goto, Settled, TypeOK
  <2>q. QED
    BY <1>0, <2>1, SettledStep
<1>13. ASSUME NEW t \in Task, SendChild(t) PROVE Places'
  <2>1. Settled
    BY <1>0, <1>13 DEF SendChild, IInv, Sending, Settled, TypeOK
  <2>q. QED
    BY <1>0, <2>1, SettledStep
<1>14. ASSUME NEW t \in Task, LinkChild(t) PROVE Places'
  <2>1. Settled
    BY <1>0, <1>14 DEF LinkChild, AfterDispatch, Goto, Settled, TypeOK
  <2>q. QED
    BY <1>0, <2>1, SettledStep
<1>15. ASSUME NEW t \in Task, NEW c \in Task, AttachDns(t, c) PROVE Places'
  <2>1. StepOfPlan'
    <3>1. plan'[c] = DnsPlan /\ step'[c] = 1
      BY <1>0, <1>15 DEF AttachDns, AfterDispatch, TypeOK, Rows
    <3>2. step'[c] \in 1 .. Len(plan'[c].steps)
      BY <3>1
    <3>3. \A u \in Task \ {c} : plan'[u] = plan[u] /\ step'[u] = step[u] /\ (pc'[u] # "unused" => pc[u] # "unused")
      BY <1>0, <1>15 DEF AttachDns, AfterDispatch, TypeOK
    <3>q. QED
      BY <3>2, <3>3 DEF Places, StepOfPlan
  <2>2. Tried'
    BY <1>0, <1>15 DEF AttachDns, AfterDispatch, Places, Tried, TypeOK, Rows, Retries, Handler, Step
  <2>3. FollowsPlan'
    BY <1>0, <1>15 DEF AttachDns, AfterDispatch, Places, Tried, FollowsPlan, TypeOK, Rows, Attaches, Handler, Step
  <2>q. QED
    BY <2>1, <2>2, <2>3 DEF Places
<1>16. ASSUME NEW t \in Task, NEW c \in Task, CreateChild(t, c) PROVE Places'
  <2>1. StepOfPlan'
    BY <1>0, <1>16 DEF CreateChild, Continues, Places, StepOfPlan, TypeOK, Rows, Attaches, Handler, Step
  <2>2. Tried'
    BY <1>0, <1>16 DEF CreateChild, Continues, Places, Tried, TypeOK, Rows, Retries, Handler, Step
  <2>3. FollowsPlan'
    BY <1>0, <1>16 DEF CreateChild, Continues, Places, Tried, FollowsPlan, TypeOK, Rows, Attaches, Handler, Step
  <2>q. QED
    BY <2>1, <2>2, <2>3 DEF Places
<1>17. ASSUME NEW t \in Task, Retry(t) PROVE Places'
  <2>1. StepOfPlan'
    BY <1>0, <1>17 DEF Retry, Goto, Places, StepOfPlan, TypeOK, Retries, Handler, Step
  <2>2. Tried'
    BY <1>0, <1>17 DEF Retry, Goto, Places, Tried, TypeOK, Rows, Retries, Handler, Step
  <2>3. FollowsPlan'
    BY <1>0, <1>17 DEF Retry, Goto, Places, Tried, FollowsPlan, TypeOK, Rows, Attaches, Handler, Step
  <2>q. QED
    BY <2>1, <2>2, <2>3 DEF Places
<1>18. ASSUME NEW t \in Task, GiveUp(t) PROVE Places'
  <2>1. Settled
    BY <1>0, <1>18 DEF GiveUp, Goto, Settled, TypeOK
  <2>q. QED
    BY <1>0, <2>1, SettledStep
<1>19. ASSUME NEW t \in Task, LaunchFails(t) PROVE Places'
  <2>1. Settled
    BY <1>0, <1>19 DEF LaunchFails, Settled, TypeOK
  <2>q. QED
    BY <1>0, <2>1, SettledStep
<1>20. ASSUME NEW t \in Task, StepFails(t) PROVE Places'
  <2>1. Settled
    BY <1>0, <1>20 DEF StepFails, Fallible, OnError, Goto, Settled, TypeOK
  <2>q. QED
    BY <1>0, <2>1, SettledStep
<1>21. ASSUME NEW t \in Task, MarkFails(t) PROVE Places'
  <2>1. Settled
    BY <1>0, <1>21 DEF MarkFails, Goto, Settled, TypeOK
  <2>q. QED
    BY <1>0, <2>1, SettledStep
<1>22. ASSUME NEW t \in Task, SwallowedMark(t) PROVE Places'
  <2>1. Settled
    BY <1>0, <1>22 DEF SwallowedMark, Goto, Settled, TypeOK
  <2>q. QED
    BY <1>0, <2>1, SettledStep
<1>23. ASSUME NEW t \in Task, Crash(t) PROVE Places'
  <2>1. Settled
    BY <1>0, <1>23 DEF Crash, Executing, Goto, Settled, TypeOK
  <2>q. QED
    BY <1>0, <2>1, SettledStep
<1>24. ASSUME NEW p \in Poller, NEW t \in Task, PollRead(p, t) PROVE Places'
  <2>1. Settled
    BY <1>0, <1>24 DEF PollRead, Settled, TypeOK
  <2>q. QED
    BY <1>0, <2>1, SettledStep
<1>25. ASSUME NEW p \in Poller, PollLock(p) PROVE Places'
  <2>1. Settled
    BY <1>0, <1>25 DEF PollLock, Settled, TypeOK
  <2>q. QED
    BY <1>0, <2>1, SettledStep
<1>26. ASSUME NEW p \in Poller, PollFinish(p) PROVE Places'
  <2>1. Settled
    BY <1>0, <1>26 DEF PollFinish, Settled, TypeOK
  <2>q. QED
    BY <1>0, <2>1, SettledStep
<1>27. ASSUME NEW p \in Poller, PollAbort(p) PROVE Places'
  <2>1. Settled
    BY <1>0, <1>27 DEF PollAbort, Settled, TypeOK
  <2>q. QED
    BY <1>0, <2>1, SettledStep
<1>s. ASSUME UNCHANGED vars PROVE Places'
  <2>1. Settled
    BY <1>0, <1>s DEF vars, Settled, TypeOK
  <2>q. QED
    BY <1>0, <2>1, SettledStep
<1> HIDE DEF taskVars, rowVars, runVars, pollVars
<1>q. QED
  BY <1>1, <1>2, <1>3, <1>4, <1>5, <1>6, <1>7, <1>8, <1>9, <1>10, <1>11, <1>12, <1>13, <1>14, <1>15, <1>16, <1>17, <1>18, <1>19, <1>20, <1>21, <1>22, <1>23, <1>24, <1>25, <1>26, <1>27, <1>s DEF Next, Terminating, Api, Worker, Failure, Client

LEMMA PlacesInvariance == Spec => []Places
<1>1. Init => Places
  BY ScanJobsAssumption DEF Init, Places, StepOfPlan, Tried, FollowsPlan
<1>2. IInv /\ Places /\ [Next]_vars => Places'
  BY PlacesStep
<1>q. QED
  BY Invariance, <1>1, <1>2, PTL DEF Spec

(* A chain never leaves its plan, and no task stands for a step it has not. *)
THEOREM ChainsFollowTheirPlan == Spec => [](StepOfPlan /\ FollowsPlan)
<1>1. Places => StepOfPlan /\ FollowsPlan
  BY DEF Places
<1>q. QED
  BY PlacesInvariance, <1>1, PTL

(* However its attempts fail, a task hands over to at most one task for each *)
(* attempt its handler allows, one if its handler does not retry.            *)
BoundedCopies ==
  \A t \in Task :
    LET next == {c \in Task : parent[c] = t}
    IN  /\ IsFiniteSet(next)
        /\ Cardinality(next) <= IF Retries(t) THEN MaxRetries + 1 ELSE 1

THEOREM CopiesAreBounded == Spec => []BoundedCopies
<1>1. ASSUME IInv, Places PROVE BoundedCopies
  <2> SUFFICES ASSUME NEW t \in Task
               PROVE  /\ IsFiniteSet({c \in Task : parent[c] = t})
                      /\ Cardinality({c \in Task : parent[c] = t}) <= IF Retries(t) THEN MaxRetries + 1 ELSE 1
    BY DEF BoundedCopies
  <2> DEFINE next == {c \in Task : parent[c] = t}
             of   == [c \in next |-> attempt[c]]
  <2>1. retries[t] \in Nat /\ retries[t] <= MaxRetries
    BY <1>1, ScanJobsAssumption DEF IInv, TypeOK
  <2>2. \A c \in next : attempt[c] \in 0 .. retries[t]
    BY <1>1, <2>1, ScanJobsAssumption DEF IInv, TypeOK, Attempts
  <2>3. \A c, d \in next : attempt[c] = attempt[d] => c = d
    BY <1>1, ScanJobsAssumption DEF IInv, Attempts, OneChildPerAttempt
  <2>4. of \in Injection(next, 0 .. retries[t])
    BY <2>2, <2>3 DEF Injection, IsInjective
  <2>5. IsFiniteSet(0 .. retries[t]) /\ Cardinality(0 .. retries[t]) = retries[t] + 1
    BY <2>1, FS_Interval
  <2> HIDE DEF of, next
  <2>6. IsFiniteSet(next) /\ Cardinality(next) <= retries[t] + 1
    BY <2>4, <2>5, FS_Injection
  <2>7. ~Retries(t) => retries[t] = 0
    BY <1>1, <2>1 DEF Places, Tried
  <2>8. Cardinality(next) \in Nat
    BY <2>6, FS_CardinalityType
  <2>q. QED
    BY <2>1, <2>6, <2>7, <2>8, ScanJobsAssumption DEF next
<1>q. QED
  BY Invariance, PlacesInvariance, <1>1, PTL

-----------------------------------------------------------------------------
(***************************************************************************)
(* How long a task can go on.                                              *)
(***************************************************************************)
(* The steps an attempt may still take; dns and the stubs mark completed     *)
(* before they hand over, subfinder after that.                              *)
Ahead(t) ==
  CASE pc[t] = "unused"         -> 13
    [] pc[t] = "unsent"         -> 12
    [] pc[t] = "queued"         -> 11
    [] pc[t] = "mark_running"   -> 10
    [] pc[t] = "work"           -> 9
    [] pc[t] = "mark_completed" -> IF Handler(t) = "subfinder" THEN 4 ELSE 8
    [] pc[t] = "dispatch"       -> 7
    [] pc[t] = "send"           -> 6
    [] pc[t] = "link"           -> 5
    [] pc[t] = "mark_failed"    -> 3
    [] pc[t] = "raise"          -> 2
    [] pc[t] = "return"         -> 1
    [] OTHER                    -> 0

StepsLeft(t) == 12 * (MaxRetries - retries[t]) + Ahead(t)

(* Whatever fails, however long marks wait for status requests and whoever   *)
(* else takes steps, a task never goes back within an attempt, and every     *)
(* step of its worker leaves it fewer: 12 * MaxRetries + 13 is all it has.   *)
TaskGoesOn ==
  [][\A t \in Task :
       /\ StepsLeft(t)' \in Nat
       /\ StepsLeft(t)' < StepsLeft(t) \/ (pc'[t] = pc[t] /\ retries'[t] = retries[t])
       /\ Worker(t) => StepsLeft(t)' < StepsLeft(t)]_vars

(* Nothing of a task changes that its measure depends on. *)
Rests(t) == plan'[t] = plan[t] /\ step'[t] = step[t] /\ pc'[t] = pc[t] /\ retries'[t] = retries[t]
Falls(t) == StepsLeft(t)' < StepsLeft(t)

(* A step of the program takes every task on or lets it rest. *)
LEMMA EachGoesOn ==
  ASSUME IInv, [Next]_vars
  PROVE  \A u \in Task : Falls(u) \/ Rests(u)
<1> DEFINE Fine == \A u \in Task : Falls(u) \/ Rests(u)
<1> USE ScanJobsAssumption DEF taskVars, rowVars, runVars, pollVars
<1>0. TypeOK /\ Rows /\ Marks /\ Sending
  BY DEF IInv
<1>a. \A t \in Task : retries[t] \in Nat /\ MaxRetries \in Nat
  BY <1>0 DEF TypeOK
<1>1. ASSUME NEW t \in Task, NEW pl \in Plans, Launch(t, pl) PROVE Fine
  <2>1. \A u \in Task \ {t} : Rests(u)
    BY <1>0, <1>1 DEF Launch, Goto, Rests, TypeOK
  <2>2. Falls(t)
    BY <1>0, <1>a, <1>1 DEF Launch, Goto, Falls, StepsLeft, Ahead, Handler, Step, TypeOK, MarksFailure, Rows, Marks
  <2>q. QED
    BY <2>1, <2>2
<1>2. ASSUME NEW t \in Task, StartDiscovery(t) PROVE Fine
  <2>1. \A u \in Task \ {t} : Rests(u)
    BY <1>0, <1>2 DEF StartDiscovery, Goto, Rests, TypeOK
  <2>2. Falls(t)
    BY <1>0, <1>a, <1>2 DEF StartDiscovery, Goto, Falls, StepsLeft, Ahead, Handler, Step, TypeOK, MarksFailure, Rows, Marks
  <2>q. QED
    BY <2>1, <2>2
<1>3. ASSUME NEW t \in Task, LaunchRefused(t) PROVE Fine
  BY <1>0, <1>3 DEF LaunchRefused, Rests
<1>4. ASSUME NEW t \in Task, LaunchSend(t) PROVE Fine
  <2>1. \A u \in Task \ {t} : Rests(u)
    BY <1>0, <1>4 DEF LaunchSend, Goto, Rests, TypeOK
  <2>2. Falls(t)
    BY <1>0, <1>a, <1>4 DEF LaunchSend, Goto, Rows, Falls, StepsLeft, Ahead, Handler, Step, TypeOK, MarksFailure, Marks
  <2>q. QED
    BY <2>1, <2>2
<1>5. ASSUME NEW t \in Task, LaunchCommit(t) PROVE Fine
  BY <1>0, <1>5 DEF LaunchCommit, Rests
<1>6. ASSUME NEW t \in Task, Take(t) PROVE Fine
  <2>1. \A u \in Task \ {t} : Rests(u)
    BY <1>0, <1>6 DEF Take, Goto, Rests, TypeOK
  <2>2. Falls(t)
    BY <1>0, <1>a, <1>6 DEF Take, Goto, Falls, StepsLeft, Ahead, Handler, Step, TypeOK, MarksFailure, Rows, Marks
  <2>q. QED
    BY <2>1, <2>2
<1>7. ASSUME NEW t \in Task, MarkRunning(t) PROVE Fine
  <2>1. \A u \in Task \ {t} : Rests(u)
    BY <1>0, <1>7 DEF MarkRunning, Goto, Rests, TypeOK
  <2>2. Falls(t)
    BY <1>0, <1>a, <1>7 DEF MarkRunning, Goto, Falls, StepsLeft, Ahead, Handler, Step, TypeOK, MarksFailure, Rows, Marks
  <2>q. QED
    BY <2>1, <2>2
<1>8. ASSUME NEW t \in Task, MarkCompleted(t) PROVE Fine
  <2>1. \A u \in Task \ {t} : Rests(u)
    BY <1>0, <1>8 DEF MarkCompleted, Goto, Rests, TypeOK
  <2>2. Falls(t)
    BY <1>0, <1>a, <1>8 DEF MarkCompleted, Goto, Falls, StepsLeft, Ahead, Handler, Step, TypeOK, MarksFailure, Rows, Marks
  <2>q. QED
    BY <2>1, <2>2
<1>9. ASSUME NEW t \in Task, MarkFailed(t) PROVE Fine
  <2>1. \A u \in Task \ {t} : Rests(u)
    BY <1>0, <1>9 DEF MarkFailed, Goto, Rests, TypeOK
  <2>2. Falls(t)
    BY <1>0, <1>a, <1>9 DEF MarkFailed, Goto, Falls, StepsLeft, Ahead, Handler, Step, TypeOK, MarksFailure, Rows, Marks
  <2>q. QED
    BY <2>1, <2>2
<1>10. ASSUME NEW t \in Task, Return(t) PROVE Fine
  <2>1. \A u \in Task \ {t} : Rests(u)
    BY <1>0, <1>10 DEF Return, Goto, Rests, TypeOK
  <2>2. Falls(t)
    BY <1>0, <1>a, <1>10 DEF Return, Goto, Falls, StepsLeft, Ahead, Handler, Step, TypeOK, MarksFailure, Rows, Marks
  <2>q. QED
    BY <2>1, <2>2
<1>11. ASSUME NEW t \in Task, NEW some \in BOOLEAN, Work(t, some) PROVE Fine
  <2>1. \A u \in Task \ {t} : Rests(u)
    BY <1>0, <1>11 DEF Work, Goto, Rests, TypeOK
  <2>2. Falls(t)
    BY <1>0, <1>a, <1>11 DEF Work, Goto, Falls, StepsLeft, Ahead, Handler, Step, TypeOK, MarksFailure, Rows, Marks
  <2>q. QED
    BY <2>1, <2>2
<1>12. ASSUME NEW t \in Task, DispatchNothing(t) PROVE Fine
  <2>1. \A u \in Task \ {t} : Rests(u)
    BY <1>0, <1>12 DEF DispatchNothing, AfterDispatch, Goto, Rests, TypeOK
  <2>2. Falls(t)
    BY <1>0, <1>a, <1>12 DEF DispatchNothing, AfterDispatch, Goto, Falls, StepsLeft, Ahead, Handler, Step, TypeOK, MarksFailure, Rows, Marks
  <2>q. QED
    BY <2>1, <2>2
<1>13. ASSUME NEW t \in Task, SendChild(t) PROVE Fine
  <2>0. child[t] \in Task /\ child[t] # t
    BY <1>0, <1>13 DEF SendChild, IInv, Sending
  <2>1. \A u \in Task \ {t, child[t]} : Rests(u)
    BY <1>0, <2>0, <1>13 DEF SendChild, IInv, Rests, TypeOK
  <2>2. Falls(child[t])
    BY <1>0, <1>a, <2>0, <1>13 DEF SendChild, IInv, Falls, StepsLeft, Ahead, TypeOK, Sending
  <2>3. Falls(t)
    BY <1>0, <1>a, <2>0, <1>13 DEF SendChild, IInv, Falls, StepsLeft, Ahead, Handler, Step, TypeOK, Marks
  <2>q. QED
    BY <2>1, <2>2, <2>3
<1>14. ASSUME NEW t \in Task, LinkChild(t) PROVE Fine
  <2>1. \A u \in Task \ {t} : Rests(u)
    BY <1>0, <1>14 DEF LinkChild, AfterDispatch, Goto, Rests, TypeOK
  <2>2. Falls(t)
    BY <1>0, <1>a, <1>14 DEF LinkChild, AfterDispatch, Goto, Falls, StepsLeft, Ahead, Handler, Step, TypeOK, MarksFailure, Rows, Marks
  <2>q. QED
    BY <2>1, <2>2
<1>15. ASSUME NEW t \in Task, NEW c \in Task, AttachDns(t, c) PROVE Fine
  <2>0. c \in Task /\ c # t
    BY <1>0, <1>15 DEF AttachDns, AfterDispatch, Sending
  <2>1. \A u \in Task \ {t, c} : Rests(u)
    BY <1>0, <2>0, <1>15 DEF AttachDns, AfterDispatch, Rests, TypeOK
  <2>2. Falls(c)
    BY <1>0, <1>a, <2>0, <1>15 DEF AttachDns, AfterDispatch, Falls, StepsLeft, Ahead, TypeOK, Sending
  <2>3. Falls(t)
    BY <1>0, <1>a, <2>0, <1>15 DEF AttachDns, AfterDispatch, Falls, StepsLeft, Ahead, Handler, Step, TypeOK, Marks
  <2>q. QED
    BY <2>1, <2>2, <2>3
<1>16. ASSUME NEW t \in Task, NEW c \in Task, CreateChild(t, c) PROVE Fine
  <2>0. c \in Task /\ c # t
    BY <1>0, <1>16 DEF CreateChild, Continues, Sending
  <2>1. \A u \in Task \ {t, c} : Rests(u)
    BY <1>0, <2>0, <1>16 DEF CreateChild, Continues, Rests, TypeOK
  <2>2. Falls(c)
    BY <1>0, <1>a, <2>0, <1>16 DEF CreateChild, Continues, Falls, StepsLeft, Ahead, TypeOK, Sending
  <2>3. Falls(t)
    BY <1>0, <1>a, <2>0, <1>16 DEF CreateChild, Continues, Falls, StepsLeft, Ahead, Handler, Step, TypeOK, Marks
  <2>q. QED
    BY <2>1, <2>2, <2>3
<1>17. ASSUME NEW t \in Task, Retry(t) PROVE Fine
  <2>1. \A u \in Task \ {t} : Rests(u)
    BY <1>0, <1>17 DEF Retry, Goto, Rests, TypeOK
  <2>2. Falls(t)
    BY <1>0, <1>a, <1>17 DEF Retry, Goto, Falls, StepsLeft, Ahead, Handler, Step, TypeOK, MarksFailure, Rows, Marks
  <2>q. QED
    BY <2>1, <2>2
<1>18. ASSUME NEW t \in Task, GiveUp(t) PROVE Fine
  <2>1. \A u \in Task \ {t} : Rests(u)
    BY <1>0, <1>18 DEF GiveUp, Goto, Rests, TypeOK
  <2>2. Falls(t)
    BY <1>0, <1>a, <1>18 DEF GiveUp, Goto, Falls, StepsLeft, Ahead, Handler, Step, TypeOK, MarksFailure, Rows, Marks
  <2>q. QED
    BY <2>1, <2>2
<1>19. ASSUME NEW t \in Task, LaunchFails(t) PROVE Fine
  BY <1>0, <1>19 DEF LaunchFails, Rests
<1>20. ASSUME NEW t \in Task, StepFails(t) PROVE Fine
  <2>1. \A u \in Task \ {t} : Rests(u)
    BY <1>0, <1>20 DEF StepFails, Fallible, OnError, Goto, Rests, TypeOK
  <2>a. pc'[t] \in {"mark_failed", "raise"} /\ pc[t] \in {"work", "dispatch", "send", "link", "mark_completed"} /\ retries' = retries
    BY <1>0, <1>20 DEF StepFails, Fallible, OnError, Goto, TypeOK
  <2>b. Ahead(t) \in {4, 5, 6, 7, 8, 9}
    BY <2>a DEF Ahead
  <2>c. Ahead(t)' \in {2, 3}
    BY <2>a DEF Ahead
  <2>2. Falls(t)
    BY <1>a, <2>a, <2>b, <2>c DEF Falls, StepsLeft
  <2>q. QED
    BY <2>1, <2>2
<1>21. ASSUME NEW t \in Task, MarkFails(t) PROVE Fine
  <2>1. \A u \in Task \ {t} : Rests(u)
    BY <1>0, <1>21 DEF MarkFails, Goto, Rests, TypeOK
  <2>2. Falls(t)
    BY <1>0, <1>a, <1>21 DEF MarkFails, Goto, Falls, StepsLeft, Ahead, Handler, Step, TypeOK, MarksFailure, Rows, Marks
  <2>q. QED
    BY <2>1, <2>2
<1>22. ASSUME NEW t \in Task, SwallowedMark(t) PROVE Fine
  <2>1. \A u \in Task \ {t} : Rests(u)
    BY <1>0, <1>22 DEF SwallowedMark, Goto, Rests, TypeOK
  <2>2. Falls(t)
    BY <1>0, <1>a, <1>22 DEF SwallowedMark, Goto, Falls, StepsLeft, Ahead, Handler, Step, TypeOK, MarksFailure, Rows, Marks
  <2>q. QED
    BY <2>1, <2>2
<1>23. ASSUME NEW t \in Task, Crash(t) PROVE Fine
  <2>1. \A u \in Task \ {t} : Rests(u)
    BY <1>0, <1>23 DEF Crash, Executing, Goto, Rests, TypeOK
  <2>2. Falls(t)
    BY <1>0, <1>a, <1>23 DEF Crash, Executing, Goto, Falls, StepsLeft, Ahead, Handler, Step, TypeOK, MarksFailure, Rows, Marks
  <2>q. QED
    BY <2>1, <2>2
<1>24. ASSUME NEW p \in Poller, NEW t \in Task, PollRead(p, t) PROVE Fine
  BY <1>0, <1>24 DEF PollRead, Rests
<1>25. ASSUME NEW p \in Poller, PollLock(p) PROVE Fine
  BY <1>0, <1>25 DEF PollLock, Rests
<1>26. ASSUME NEW p \in Poller, PollFinish(p) PROVE Fine
  BY <1>0, <1>26 DEF PollFinish, Rests
<1>27. ASSUME NEW p \in Poller, PollAbort(p) PROVE Fine
  BY <1>0, <1>27 DEF PollAbort, Rests
<1>s. ASSUME UNCHANGED vars PROVE Fine
  BY <1>0, <1>s DEF vars, Rests
<1> HIDE DEF taskVars, rowVars, runVars, pollVars, Fine
<1>r. Fine
  BY <1>1, <1>2, <1>3, <1>4, <1>5, <1>6, <1>7, <1>8, <1>9, <1>10, <1>11, <1>12, <1>13, <1>14, <1>15, <1>16, <1>17, <1>18, <1>19, <1>20, <1>21, <1>22, <1>23, <1>24, <1>25, <1>26, <1>27, <1>s DEF Next, Terminating, Api, Worker, Failure, Client
<1>q. QED
  BY <1>r DEF Fine

(* A worker does not stay where it is. *)
LEMMA WorkerMoves ==
  ASSUME IInv, NEW t \in Task, Worker(t)
  PROVE  pc'[t] # pc[t]
<1>1. pc \in [Task -> PCs] /\ (pc[t] = "send" => child[t] \in Task /\ pc[child[t]] # pc[t])
  BY DEF IInv, TypeOK, Sending
<1>2. CASE Take(t) \/ Retry(t) \/ GiveUp(t) \/ Return(t)
  BY <1>1, <1>2 DEF Take, Retry, GiveUp, Return, Goto
<1>3. CASE MarkRunning(t) \/ MarkCompleted(t) \/ MarkFailed(t)
  BY <1>1, <1>3 DEF MarkRunning, MarkCompleted, MarkFailed, Goto
<1>4. CASE \E some \in BOOLEAN : Work(t, some)
  BY <1>1, <1>4 DEF Work, Goto
<1>5. CASE DispatchNothing(t) \/ LinkChild(t) \/ SendChild(t)
  BY <1>1, <1>5 DEF DispatchNothing, LinkChild, SendChild, AfterDispatch, Goto
<1>6. CASE \E c \in Task : AttachDns(t, c) \/ CreateChild(t, c)
  BY <1>1, <1>6 DEF AttachDns, CreateChild, AfterDispatch
<1>q. QED
  BY <1>2, <1>3, <1>4, <1>5, <1>6 DEF Worker

(* No task runs forever. *)
THEOREM TasksGoOn == Spec => TaskGoesOn
<1>1. ASSUME IInv, IInv', [Next]_vars, NEW t \in Task
      PROVE  /\ StepsLeft(t)' \in Nat
             /\ StepsLeft(t)' < StepsLeft(t) \/ (pc'[t] = pc[t] /\ retries'[t] = retries[t])
             /\ Worker(t) => StepsLeft(t)' < StepsLeft(t)
  <2>1. StepsLeft(t)' \in Nat
    <3>1. retries'[t] \in 0 .. MaxRetries
      BY <1>1 DEF IInv, TypeOK
    <3>2. Ahead(t)' \in 0 .. 13
      BY DEF Ahead
    <3>q. QED
      BY <3>1, <3>2, ScanJobsAssumption DEF StepsLeft
  <2>2. StepsLeft(t)' < StepsLeft(t) \/ Rests(t)
    BY <1>1, EachGoesOn DEF Falls
  <2>3. Worker(t) => pc'[t] # pc[t]
    BY <1>1, WorkerMoves
  <2>q. QED
    BY <2>1, <2>2, <2>3 DEF Rests
<1>2. IInv /\ IInv' /\ [Next]_vars =>
        [\A t \in Task :
           /\ StepsLeft(t)' \in Nat
           /\ StepsLeft(t)' < StepsLeft(t) \/ (pc'[t] = pc[t] /\ retries'[t] = retries[t])
           /\ Worker(t) => StepsLeft(t)' < StepsLeft(t)]_vars
  BY <1>1
<1>q. QED
  BY Invariance, <1>2, PTL DEF Spec, TaskGoesOn

-----------------------------------------------------------------------------
(***************************************************************************)
(* The refinement of StepChain.                                            *)
(***************************************************************************)
(* What the abstract variables stand for. *)
Phases == [t \in Task |-> Phase(t)]
Shown  == {t \in Task : status[t] = "completed"}

(* Nothing the chain knows of changes but what is shown as completed. *)
Hidden ==
  /\ UNCHANGED <<taskVars, retries, found, worked>>
  /\ \A t \in Task : Phase(t)' = Phase(t)

(* One task goes from one phase to another, and none gets to be shown as *)
(* completed or ceases to be.                                            *)
Moves(t, from, to) ==
  /\ Phase(t) = from /\ Phase(t)' = to
  /\ \A u \in Task \ {t} : Phase(u)' = Phase(u)
  /\ Shown' = Shown

(* Both modules have the same registry of steps. *)
LEMMA SameSteps ==
  /\ Chain!HealthPlan = HealthPlan /\ Chain!DiscoveryPlan = DiscoveryPlan /\ Chain!DnsPlan = DnsPlan
  /\ \A s : Chain!TaskOf(s) = TaskOf(s)
  /\ \A s, f : Chain!StopsChain(s, f) = StopsChain(s, f)
BY DEF Chain!HealthPlan, HealthPlan, Chain!DiscoveryPlan, DiscoveryPlan, Chain!DnsPlan, DnsPlan,
       Chain!TaskOf, TaskOf, Chain!WorkflowStep, WorkflowStep, Chain!StopsChain, StopsChain

(* Before a launch there is no chain. *)
LEMMA ChainInit == Init => Chain!Init
BY SameSteps DEF Init, Chain!Init, Phase

(* A hidden step at most changes what is shown, and never ahead of the work. *)
LEMMA HiddenStep ==
  ASSUME IInv', Hidden
  PROVE  Chain!Next
<1>1. Shown' \subseteq {t \in Task : worked[t]}'
  BY DEF IInv, Worked, CompletedMeansWorked, Shown
<1>2. Phases' = Phases
  BY DEF Hidden, Phases
<1>3. Chain!Show
  BY <1>1, <1>2 DEF Hidden, Shown, Phases, taskVars, Chain!Show, Chain!origin
<1>q. QED
  BY <1>3 DEF Chain!Next

(* The phase function after a move. *)
LEMMA MoveStep ==
  ASSUME NEW t \in Task, NEW from, NEW to, Moves(t, from, to)
  PROVE  /\ Phases[t] = from /\ Phases' = [Phases EXCEPT ![t] = to]
         /\ Shown' = Shown
BY DEF Moves, Phases, Shown

(* A message is sent. *)
LEMMA IssueStep ==
  ASSUME NEW t \in Task, Moves(t, "pending", "ready"), UNCHANGED <<taskVars, retries, found, worked>>
  PROVE  Chain!Next
<1>1. Chain!Issue(t)
  BY MoveStep DEF Chain!Issue, Chain!Move, Chain!origin, Phases, Shown, taskVars
<1>q. QED
  BY <1>1, SameSteps DEF Chain!Next

(* A worker takes the message. *)
LEMMA StartStep ==
  ASSUME NEW t \in Task, Moves(t, "ready", "running"), UNCHANGED <<taskVars, retries, found, worked>>
  PROVE  Chain!Next
<1>1. Chain!Start(t)
  BY MoveStep DEF Chain!Start, Chain!Move, Chain!origin, Phases, Shown, taskVars
<1>q. QED
  BY <1>1, SameSteps DEF Chain!Next, Chain!Advance

(* An attempt commits its work. *)
LEMMA DeliverStep ==
  ASSUME NEW t \in Task, NEW some \in BOOLEAN, Moves(t, "running", "delivered"), UNCHANGED <<taskVars, retries>>,
         found' = [found EXCEPT ![t] = some], worked' = [worked EXCEPT ![t] = TRUE]
  PROVE  Chain!Next
<1>1. Chain!Deliver(t, some)
  BY MoveStep DEF Chain!Deliver, Chain!Move, Chain!origin, Phases, Shown, taskVars
<1>q. QED
  BY <1>1, SameSteps DEF Chain!Next, Chain!Advance

(* A task returns. *)
LEMMA SucceedStep ==
  ASSUME NEW t \in Task, Moves(t, "delivered", "succeeded"), UNCHANGED <<taskVars, retries, found, worked>>
  PROVE  Chain!Next
<1>1. Chain!Succeed(t)
  BY MoveStep DEF Chain!Succeed, Chain!Move, Chain!origin, Phases, Shown, taskVars
<1>q. QED
  BY <1>1, SameSteps DEF Chain!Next, Chain!Advance

(* An attempt fails. *)
LEMMA FailStep ==
  ASSUME NEW t \in Task, NEW from \in {"running", "delivered"}, Moves(t, from, "failing"), UNCHANGED <<taskVars, retries, found, worked>>
  PROVE  Chain!Next
<1>1. Chain!Fail(t)
  BY MoveStep DEF Chain!Fail, Chain!Move, Chain!origin, Phases, Shown, taskVars
<1>q. QED
  BY <1>1, SameSteps DEF Chain!Next, Chain!Advance

(* It is tried again. *)
LEMMA AgainStep ==
  ASSUME NEW t \in Task, Moves(t, "failing", "ready"), retries[t] < MaxRetries,
         retries' = [retries EXCEPT ![t] = @ + 1], UNCHANGED <<taskVars, found, worked>>
  PROVE  Chain!Next
<1>1. Chain!Again(t)
  BY MoveStep DEF Chain!Again, Chain!Move, Chain!origin, Phases, Shown, taskVars
<1>q. QED
  BY <1>1, SameSteps DEF Chain!Next, Chain!Advance

(* It is not tried again. *)
LEMMA GiveUpStep ==
  ASSUME NEW t \in Task, Moves(t, "failing", "given_up"), UNCHANGED <<taskVars, retries, found, worked>>
  PROVE  Chain!Next
<1>1. Chain!GiveUp(t)
  BY MoveStep DEF Chain!GiveUp, Chain!Move, Chain!origin, Phases, Shown, taskVars
<1>q. QED
  BY <1>1, SameSteps DEF Chain!Next, Chain!Advance

(* Its worker dies. *)
LEMMA LoseStep ==
  ASSUME NEW t \in Task, NEW from \in {"running", "delivered", "failing"}, Moves(t, from, "lost"), UNCHANGED <<taskVars, retries, found, worked>>
  PROVE  Chain!Next
<1>1. Chain!Lose(t)
  BY MoveStep DEF Chain!Lose, Chain!Active, Chain!Move, Chain!origin, Phases, Shown, taskVars
<1>q. QED
  BY <1>1, SameSteps DEF Chain!Next

(* A launch opens a chain. *)
LEMMA OpenStep ==
  ASSUME NEW t \in Task, t \in Root, NEW pl \in Plans \cup {DiscoveryPlan},
         NEW to \in {"pending", "ready"}, Moves(t, "none", to), plan' = [plan EXCEPT ![t] = pl],
         UNCHANGED <<step, parent, attempt, retries, found, worked>>
  PROVE  Chain!Next
<1>1. Chain!Open(t, pl, to)
  BY MoveStep DEF Chain!Open, Chain!Move, Chain!origin, Phases, Shown, taskVars
<1>q. QED
  BY <1>1, SameSteps DEF Chain!Next

(* A delivered attempt hands over to the step that comes next. *)
LEMMA HandStep ==
  ASSUME IInv, NEW t \in Task, NEW c \in Task \ Root, NEW to \in {"pending", "ready"},
         NEW pl \in {plan[t], DnsPlan}, NEW n \in {step[t] + 1, 1},
         Phase(t) = "delivered", BeforeDispatch(t), Chain!Successor(t, pl, n), Moves(c, "none", to),
         plan' = [plan EXCEPT ![c] = pl], step' = [step EXCEPT ![c] = n],
         parent' = [parent EXCEPT ![c] = t], attempt' = [attempt EXCEPT ![c] = retries[t]],
         UNCHANGED <<retries, found, worked>>
  PROVE  Chain!Next
<1>1. ~Chain!HandedOver(t)
  BY ScanJobsAssumption DEF IInv, TypeOK, Attempts, Chain!HandedOver
<1>2. Chain!Hand(t, c, pl, n, to)
  BY <1>1, MoveStep DEF Chain!Hand, Chain!Move, Phases, Shown
<1>q. QED
  BY <1>2, SameSteps DEF Chain!Next

(* Every step is a step of the chain or hidden from it. *)
LEMMA ChainStep ==
  ASSUME IInv, IInv', [Next]_vars
  PROVE  [Chain!Next]_(Chain!vars)
<1> USE DEF taskVars, rowVars, runVars, pollVars
<1>1. ASSUME NEW t \in Task, NEW pl \in Plans, Launch(t, pl) PROVE Chain!Next
  <2>1. Moves(t, "none", "pending")
    BY <1>1 DEF Launch, Goto, Moves, Shown, Phase, IInv, TypeOK
  <2>q. QED
    BY <1>1, <2>1, OpenStep DEF Launch, Goto
<1>2. ASSUME NEW t \in Task, StartDiscovery(t) PROVE Chain!Next
  <2>1. Moves(t, "none", "ready")
    BY <1>2 DEF StartDiscovery, Goto, Moves, Shown, Phase, IInv, TypeOK
  <2>q. QED
    BY <1>2, <2>1, OpenStep DEF StartDiscovery, Goto
<1>3. ASSUME NEW t \in Task, LaunchRefused(t) PROVE Chain!Next
  <2>1. Hidden
    BY <1>3 DEF LaunchRefused, Hidden, Phase, IInv, TypeOK
  <2>q. QED
    BY <2>1, HiddenStep
<1>4. ASSUME NEW t \in Task, LaunchSend(t) PROVE Chain!Next
  <2>1. Moves(t, "pending", "ready")
    BY <1>4 DEF LaunchSend, Goto, Rows, Moves, Shown, Phase, IInv, TypeOK
  <2>q. QED
    BY <1>4, <2>1, IssueStep DEF LaunchSend, Goto, Rows
<1>5. ASSUME NEW t \in Task, LaunchCommit(t) PROVE Chain!Next
  <2>1. Hidden
    BY <1>5 DEF LaunchCommit, Hidden, Phase, IInv, TypeOK
  <2>q. QED
    BY <2>1, HiddenStep
<1>6. ASSUME NEW t \in Task, Take(t) PROVE Chain!Next
  <2>1. Moves(t, "ready", "running")
    BY <1>6 DEF Take, Goto, Moves, Shown, Phase, IInv, TypeOK
  <2>q. QED
    BY <1>6, <2>1, StartStep DEF Take, Goto
<1>7. ASSUME NEW t \in Task, MarkRunning(t) PROVE Chain!Next
  <2>1. Hidden
    BY <1>7 DEF MarkRunning, Mark, Goto, Hidden, Phase, IInv, TypeOK
  <2>q. QED
    BY <2>1, HiddenStep
<1>8. ASSUME NEW t \in Task, MarkCompleted(t) PROVE Chain!Next
  <2>1. Hidden
    BY <1>8 DEF MarkCompleted, Mark, Goto, Hidden, Phase, IInv, TypeOK
  <2>q. QED
    BY <2>1, HiddenStep
<1>9. ASSUME NEW t \in Task, MarkFailed(t) PROVE Chain!Next
  <2>1. Hidden
    BY <1>9 DEF MarkFailed, Mark, Goto, Hidden, Phase, IInv, TypeOK
  <2>q. QED
    BY <2>1, HiddenStep
<1>10. ASSUME NEW t \in Task, Return(t) PROVE Chain!Next
  <2>1. Moves(t, "delivered", "succeeded")
    BY <1>10 DEF Return, Goto, Moves, Shown, Phase, IInv, TypeOK
  <2>q. QED
    BY <1>10, <2>1, SucceedStep DEF Return, Goto
<1>11. ASSUME NEW t \in Task, NEW some \in BOOLEAN, Work(t, some) PROVE Chain!Next
  <2>1. Moves(t, "running", "delivered")
    BY <1>11 DEF Work, Goto, Moves, Shown, Phase, IInv, TypeOK
  <2>q. QED
    BY <1>11, <2>1, DeliverStep DEF Work, Goto
<1>12. ASSUME NEW t \in Task, DispatchNothing(t) PROVE Chain!Next
  <2>1. Hidden
    BY <1>12 DEF DispatchNothing, AfterDispatch, Goto, Hidden, Phase, IInv, TypeOK
  <2>q. QED
    BY <2>1, HiddenStep
<1>13. ASSUME NEW t \in Task, SendChild(t) PROVE Chain!Next
  <2>1. child[t] \in Task /\ pc[child[t]] = "unsent"
    BY <1>13 DEF SendChild, IInv, Sending
  <2>2. Moves(child[t], "pending", "ready")
    BY <1>13, <2>1 DEF SendChild, Moves, Shown, Phase, IInv, TypeOK
  <2>q. QED
    BY <1>13, <2>1, <2>2, IssueStep DEF SendChild
<1>14. ASSUME NEW t \in Task, LinkChild(t) PROVE Chain!Next
  <2>1. Hidden
    BY <1>14 DEF LinkChild, AfterDispatch, Goto, Hidden, Phase, IInv, TypeOK
  <2>q. QED
    BY <2>1, HiddenStep
<1>15. ASSUME NEW t \in Task, NEW c \in Task, AttachDns(t, c) PROVE Chain!Next
  <2>1. Moves(c, "none", "ready")
    BY <1>15 DEF AttachDns, AfterDispatch, Moves, Shown, Phase, IInv, TypeOK, Rows, HasJobId
  <2>2. Phase(t) = "delivered" /\ BeforeDispatch(t)
    BY <1>15 DEF AttachDns, AfterDispatch, Phase, BeforeDispatch
  <2>3. Chain!Successor(t, DnsPlan, 1)
    BY <1>15, SameSteps DEF AttachDns, AfterDispatch, Attaches, Continues, Handler, Step, Chain!Successor
  <2>4. step' = [step EXCEPT ![c] = 1]
    BY <1>15 DEF AttachDns, IInv, TypeOK, Rows
  <2>q. QED
    BY <1>15, <2>1, <2>2, <2>3, <2>4, HandStep DEF AttachDns, AfterDispatch
<1>16. ASSUME NEW t \in Task, NEW c \in Task, CreateChild(t, c) PROVE Chain!Next
  <2>1. Moves(c, "none", "pending")
    BY <1>16 DEF CreateChild, Moves, Shown, Phase, IInv, TypeOK, Rows, HasJobId
  <2>2. Phase(t) = "delivered" /\ BeforeDispatch(t)
    BY <1>16 DEF CreateChild, Phase, BeforeDispatch
  <2>3. Chain!Successor(t, plan[t], step[t] + 1)
    BY <1>16, SameSteps DEF CreateChild, Attaches, Continues, Handler, Step, Chain!Successor
  <2>q. QED
    BY <1>16, <2>1, <2>2, <2>3, HandStep DEF CreateChild
<1>17. ASSUME NEW t \in Task, Retry(t) PROVE Chain!Next
  <2>1. Moves(t, "failing", "ready")
    BY <1>17 DEF Retry, Retries, Goto, Moves, Shown, Phase, IInv, TypeOK
  <2>q. QED
    BY <1>17, <2>1, AgainStep DEF Retry, Retries, Goto
<1>18. ASSUME NEW t \in Task, GiveUp(t) PROVE Chain!Next
  <2>1. Moves(t, "failing", "given_up")
    BY <1>18 DEF GiveUp, Goto, Moves, Shown, Phase, IInv, TypeOK
  <2>q. QED
    BY <1>18, <2>1, GiveUpStep DEF GiveUp, Goto
<1>19. ASSUME NEW t \in Task, LaunchFails(t) PROVE Chain!Next
  <2>1. Hidden
    BY <1>19 DEF LaunchFails, Fault, Hidden, Phase, IInv, TypeOK
  <2>q. QED
    BY <2>1, HiddenStep
<1>20. ASSUME NEW t \in Task, StepFails(t) PROVE Chain!Next
  <2>1. PICK from \in {"running", "delivered"} : Moves(t, from, "failing")
    BY <1>20 DEF StepFails, Fallible, OnError, Fault, Goto, Moves, Shown, Phase, IInv, TypeOK
  <2>q. QED
    BY <1>20, <2>1, FailStep DEF StepFails, Fallible, OnError, Fault, Goto
<1>21. ASSUME NEW t \in Task, MarkFails(t) PROVE Chain!Next
  <2>1. CASE pc[t] = "mark_running"
    <3>1. Moves(t, "running", "failing")
      BY <1>21, <2>1 DEF MarkFails, Fault, Goto, Moves, Shown, Phase, IInv, TypeOK
    <3>q. QED
      BY <1>21, <3>1, FailStep DEF MarkFails, Fault, Goto
  <2>2. CASE pc[t] = "mark_failed"
    <3>1. Hidden
      BY <1>21, <2>2 DEF MarkFails, Fault, Goto, Hidden, Phase, IInv, TypeOK
    <3>q. QED
      BY <3>1, HiddenStep
  <2>q. QED
    BY <1>21, <2>1, <2>2 DEF MarkFails
<1>22. ASSUME NEW t \in Task, SwallowedMark(t) PROVE Chain!Next
  <2>1. Hidden
    BY <1>22 DEF SwallowedMark, Fault, Goto, Hidden, Phase, IInv, TypeOK
  <2>q. QED
    BY <2>1, HiddenStep
<1>23. ASSUME NEW t \in Task, Crash(t) PROVE Chain!Next
  <2>1. PICK from \in {"running", "delivered", "failing"} : Moves(t, from, "lost")
    BY <1>23 DEF Crash, Executing, Fault, Goto, Moves, Shown, Phase, IInv, TypeOK
  <2>q. QED
    BY <1>23, <2>1, LoseStep DEF Crash, Executing, Fault, Goto
<1>24. ASSUME NEW p \in Poller, NEW t \in Task, PollRead(p, t) PROVE Chain!Next
  <2>1. Hidden
    BY <1>24 DEF PollRead, Hidden, Phase
  <2>q. QED
    BY <2>1, HiddenStep
<1>25. ASSUME NEW p \in Poller, PollLock(p) PROVE Chain!Next
  <2>1. Hidden
    BY <1>25 DEF PollLock, Hidden, Phase
  <2>q. QED
    BY <2>1, HiddenStep
<1>26. ASSUME NEW p \in Poller, PollFinish(p) PROVE Chain!Next
  <2>1. Hidden
    BY <1>26 DEF PollFinish, Reported, Hidden, Phase
  <2>q. QED
    BY <2>1, HiddenStep
<1>27. ASSUME NEW p \in Poller, PollAbort(p) PROVE Chain!Next
  <2>1. Hidden
    BY <1>27 DEF PollAbort, Fault, Hidden, Phase
  <2>q. QED
    BY <2>1, HiddenStep
<1>s. ASSUME UNCHANGED vars PROVE Chain!Next
  <2>1. Hidden
    BY <1>s DEF vars, Hidden, Phase
  <2>q. QED
    BY <2>1, HiddenStep
<1> HIDE DEF taskVars, rowVars, runVars, pollVars
<1>r. Chain!Next
  BY <1>1, <1>2, <1>3, <1>4, <1>5, <1>6, <1>7, <1>8, <1>9, <1>10, <1>11, <1>12, <1>13, <1>14, <1>15, <1>16, <1>17, <1>18, <1>19, <1>20, <1>21, <1>22, <1>23, <1>24, <1>25, <1>26, <1>27, <1>s DEF Next, Terminating, Api, Worker, Failure, Client
<1>q. QED
  BY <1>r

(* The chain that launches, workers, retries, crashes and status requests   *)
(* amount to is an at-least-once chain.                                     *)
THEOREM RefinesStepChain == Spec => ImplementsStepChain
<1>1. IInv /\ [Next]_vars /\ IInv' => [Chain!Next]_(Chain!vars)
  BY ChainStep
<1>q. QED
  BY ChainInit, Invariance, <1>1, PTL DEF Spec, ImplementsStepChain, Chain!Spec
=============================================================================
