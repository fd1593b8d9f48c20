---------------------------- MODULE DiscoveryPanel ----------------------------
(***************************************************************************)
(* The discovery panel of the web UI and the program page around it.  The  *)
(* panel starts a discovery and then asks for the state of its Celery task *)
(* every two seconds, whether or not the last question has been answered;  *)
(* a poll that sees the task succeed has the page load the graph again and *)
(* ends the tracking after that.  The page loads the graph for the user as *)
(* well, and takes the panel away when a load fails.                       *)
(* React is modelled from its use: setting state takes effect at once for  *)
(* whoever sets it again, while effects, their clean-up and what the user  *)
(* can click follow with the next render.  Answers arrive in any order.    *)
(***************************************************************************)
EXTENDS Integers

CONSTANTS
  MaxTasks,  \* bound on the discoveries started
  MaxPolls,  \* bound on the polls under way at once
  MaxFaults  \* bound on requests that fail

ASSUME DiscoveryPanelAssumption ==
  MaxTasks \in Nat \ {0} /\ MaxPolls \in Nat \ {0} /\ MaxFaults \in Nat

Task   == 1 .. MaxTasks   \* in the order in which they are started
NoTask == 0
User   == 0               \* the slot of the user's load
Poll   == 1 .. MaxPolls
Slot   == {User} \cup Poll

VARIABLES
  state,    \* of a Celery task, "none" before there is one
  stored,   \* tasks whose finds are committed
  page,     \* the program page is open
  shown,    \* the tasks whose finds are in its graph, or NoGraph
  panel,    \* the panel is rendered
  polled,   \* pollTaskId
  effect,   \* the task of the polling effect that is set up
  line,     \* statusLine: a kind and a task
  start,    \* the request to start a discovery
  slots,    \* polls and loads under way
  crowded,   \* history: a poll began before the tracking was done with the last one
  overtaken, \* history: an answer replaced a newer graph, or a failure before it was rendered,
             \* and none has brought the present one since
  faults

NoGraph == {NoTask}

server  == <<state, stored>>
display == <<page, shown, panel>>
track   == <<polled, effect, line, start>>
history == <<crowded, overtaken>>
vars    == <<server, display, track, slots, history, faults>>

(* A poll of a task, live until its effect is cleaned up; a load for a poll  *)
(* that saw its task succeed, or for nobody in particular.                   *)
Free           == [pc |-> "free", task |-> NoTask, live |-> FALSE, got |-> {}]
Asking(t)      == [pc |-> "asked", task |-> t, live |-> TRUE, got |-> {}]
Loading(t, lv) == [pc |-> "loading", task |-> t, live |-> lv, got |-> {}]

NoLine == <<"none", NoTask>>

Init ==
  /\ state = [t \in Task |-> "none"] /\ stored = {}
  /\ page = FALSE /\ shown = NoGraph /\ panel = FALSE
  /\ polled = NoTask /\ effect = NoTask /\ line = NoLine /\ start = "idle"
  /\ slots = [s \in Slot |-> Free]
  /\ crowded = FALSE /\ overtaken = FALSE /\ faults = 0

(* The free slot that the next poll takes. *)
NextPoll(s) == slots[s].pc = "free" /\ \A r \in 1 .. s - 1 : slots[r].pc # "free"

Exists(t) == state[t] # "none"
Newest    == IF \E t \in Task : Exists(t)
               THEN CHOOSE t \in Task : Exists(t) /\ \A u \in Task : u > t => ~Exists(u)
               ELSE NoTask

Fault == faults < MaxFaults /\ faults' = faults + 1

-----------------------------------------------------------------------------
(***************************************************************************)
(* The API and the workers.                                                *)
(***************************************************************************)
Final == {"SUCCESS", "FAILURE"}

Store(t) ==
  /\ state[t] \in {"PENDING", "RETRY"} /\ t \notin stored
  /\ stored' = stored \cup {t}
  /\ UNCHANGED <<state, display, track, slots, history, faults>>

Becomes(t, from, to) ==
  /\ state[t] \in from /\ state' = [state EXCEPT ![t] = to]
  /\ UNCHANGED <<stored, display, track, slots, history, faults>>

Succeed(t) == t \in stored /\ Becomes(t, {"PENDING", "RETRY"}, "SUCCESS")
Retry(t)   == Becomes(t, {"PENDING"}, "RETRY")
Fail(t)    == Becomes(t, {"RETRY"}, "FAILURE")

(* start_subdomain_discovery sends the task. *)
Queue(sent) ==
  \/ ~sent /\ UNCHANGED state
  \/ sent /\ \E t \in Task : Newest = t - 1 /\ state' = [state EXCEPT ![t] = "PENDING"]

HandleStart ==
  /\ start = "asked" /\ Queue(TRUE) /\ start' = "answered"
  /\ UNCHANGED <<stored, display, polled, effect, line, slots, history, faults>>

AnswerPoll(s) ==
  /\ slots[s].pc = "asked"
  /\ slots' = [slots EXCEPT ![s].pc = state[slots[s].task]]
  /\ UNCHANGED <<server, display, track, history, faults>>

AnswerLoad(s) ==
  /\ slots[s].pc = "loading"
  /\ slots' = [slots EXCEPT ![s].pc = "loaded", ![s].got = stored]
  /\ UNCHANGED <<server, display, track, history, faults>>

LoseAnswer(s) ==
  /\ Fault
  /\ \/ slots[s].pc = "asked" /\ slots' = [slots EXCEPT ![s].pc = "no_answer"]
     \/ slots[s].pc = "loading" /\ slots' = [slots EXCEPT ![s].pc = "loaded", ![s].got = NoGraph]
  /\ UNCHANGED <<server, display, track, history>>

-----------------------------------------------------------------------------
(***************************************************************************)
(* The panel.                                                              *)
(***************************************************************************)
(* The page is as its state says; only then does the user see and do things. *)
Rendered == effect = polled /\ panel = (shown # NoGraph)

(* onStartDiscovery; the button is off while a task is tracked. *)
StartDiscovery ==
  /\ panel /\ Rendered /\ start = "idle" /\ polled = NoTask /\ Newest < MaxTasks
  /\ start' = "asked" /\ line' = NoLine
  /\ UNCHANGED <<server, display, polled, effect, slots, history, faults>>

Started ==
  /\ start = "answered" /\ start' = "idle"
  /\ line' = <<"queued", Newest>> /\ polled' = Newest
  /\ UNCHANGED <<server, display, effect, slots, history, faults>>

(* The request, or only its answer, is lost. *)
StartFails ==
  /\ start # "idle" /\ Fault
  /\ start' = "idle" /\ line' = <<"not_started", NoTask>>
  /\ UNCHANGED <<server, display, polled, effect, slots, history>>

(* The first tick of the effect, and those of its interval. *)
Tick(s) ==
  /\ effect # NoTask /\ NextPoll(s)
  /\ slots' = [slots EXCEPT ![s] = Asking(effect)]
  /\ crowded' = (crowded \/ polled # effect \/ \E r \in Slot : slots[r].live)
  /\ UNCHANGED <<server, display, track, overtaken, faults>>

Says(kind, t) == line' = <<kind, t>>

(* What a tick does with the answer: goes on, stops the tracking, or has the *)
(* graph loaded before it stops it.                                          *)
GoOn(s, kind) ==
  Says(kind, slots[s].task) /\ UNCHANGED polled /\ slots' = [slots EXCEPT ![s] = Free]

(* Mutants: a failed task is tracked on; a poll that fails says nothing. *)
StopUnlessFailed(s, kind) ==
  /\ Says(kind, slots[s].task) /\ slots' = [slots EXCEPT ![s] = Free]
  /\ IF kind = "failed" THEN UNCHANGED polled ELSE polled' = NoTask

StopSilently(s, kind) ==
  /\ IF kind = "failed" THEN Says(kind, slots[s].task) ELSE UNCHANGED line
  /\ polled' = NoTask /\ slots' = [slots EXCEPT ![s] = Free]

Stop(s, kind) ==
  Says(kind, slots[s].task) /\ polled' = NoTask /\ slots' = [slots EXCEPT ![s] = Free]

(* Mutant: the graph is not loaded. *)
RefreshNothing(s) == Stop(s, "finished")

Refresh(s) ==
  /\ Says("finished", slots[s].task) /\ UNCHANGED polled
  /\ slots' = [slots EXCEPT ![s] = Loading(slots[s].task, slots[s].live)]

React(s) ==
  \/ slots[s].pc = "PENDING" /\ GoOn(s, "waiting")
  \/ slots[s].pc = "RETRY" /\ GoOn(s, "running")
  \/ slots[s].pc = "SUCCESS" /\ Refresh(s)
  \/ slots[s].pc = "FAILURE" /\ Stop(s, "failed")
  \/ slots[s].pc = "no_answer" /\ Stop(s, "no_answer")

Answered(s) == slots[s].pc \in {"PENDING", "RETRY", "no_answer"} \cup Final

(* Mutant: the cancelled flag is not asked. *)
ReceiveAnyway(s) ==
  /\ Answered(s) /\ React(s)
  /\ UNCHANGED <<server, display, effect, start, history, faults>>

Receive(s) ==
  /\ Answered(s)
  /\ \/ slots[s].live /\ React(s)
     \/ ~slots[s].live /\ slots' = [slots EXCEPT ![s] = Free] /\ UNCHANGED <<polled, line>>
  /\ UNCHANGED <<server, display, effect, start, history, faults>>

-----------------------------------------------------------------------------
(***************************************************************************)
(* The page.                                                               *)
(***************************************************************************)
(* loadAll ends; the tick that awaits it stops the tracking, whichever task's *)
(* that is by now.                                                           *)
Loaded(s) ==
  /\ slots[s].pc = "loaded" /\ slots' = [slots EXCEPT ![s] = Free]
  /\ shown' = slots[s].got
  /\ overtaken' = (/\ shown' # stored
                    /\ \/ overtaken
                       \/ panel /\ shown' # NoGraph /\ ~(shown \subseteq shown'))
  /\ polled' = IF slots[s].task = NoTask THEN polled ELSE NoTask
  /\ UNCHANGED <<server, page, panel, effect, line, start, crowded, faults>>

(* The user asks for the graph, or has added an asset. *)
LoadGraph ==
  /\ panel /\ slots[User].pc = "free"
  /\ slots' = [slots EXCEPT ![User] = Loading(NoTask, FALSE)]
  /\ UNCHANGED <<server, display, track, history, faults>>

(* A request to start a discovery that nobody awaits any more has reached the *)
(* API or not.                                                               *)
DropPanel ==
  /\ panel' = FALSE /\ polled' = NoTask /\ effect' = NoTask /\ line' = NoLine /\ start' = "idle"
  /\ \E sent \in BOOLEAN : (sent => start = "asked") /\ Queue(sent)

Enter ==
  /\ ~page /\ page' = TRUE
  /\ slots' = [slots EXCEPT ![User] = Loading(NoTask, FALSE)]
  /\ UNCHANGED <<server, shown, panel, track, history, faults>>

(* To another page, or out of the session. *)
Leave ==
  /\ page /\ page' = FALSE /\ shown' = NoGraph /\ DropPanel
  /\ slots' = [s \in Slot |-> Free]
  /\ UNCHANGED <<stored, history, faults>>

(* Mutant: the effect is not cleaned up. *)
RenderUncleaned ==
  /\ ~Rendered /\ shown # NoGraph
  /\ panel' = TRUE /\ effect' = polled
  /\ UNCHANGED <<server, page, shown, polled, line, start, slots, history, faults>>

(* The effect of the task that was tracked is cleaned up, that of the one that *)
(* is set up.                                                                 *)
Render ==
  /\ ~Rendered /\ shown # NoGraph
  /\ panel' = TRUE /\ effect' = polled
  /\ slots' = [s \in Slot |-> [slots[s] EXCEPT !.live = FALSE]]
  /\ UNCHANGED <<server, page, shown, polled, line, start, history, faults>>

(* Loads go on without the panel that asked for them. *)
RenderError ==
  /\ ~Rendered /\ shown = NoGraph /\ DropPanel
  /\ slots' = [s \in Slot |-> IF slots[s].pc \notin {"loading", "loaded"} THEN Free
                               ELSE [slots[s] EXCEPT !.task = NoTask, !.live = FALSE]]
  /\ UNCHANGED <<stored, page, shown, history, faults>>

-----------------------------------------------------------------------------
Workers == \E t \in Task : Store(t) \/ Succeed(t) \/ Retry(t) \/ Fail(t)

Browser ==
  \/ HandleStart \/ Started \/ StartFails \/ Render \/ RenderError
  \/ \E s \in Slot : AnswerPoll(s) \/ AnswerLoad(s) \/ LoseAnswer(s) \/ Receive(s) \/ Loaded(s)
  \/ \E s \in Poll : Tick(s)

Visitor == StartDiscovery \/ LoadGraph \/ Enter \/ Leave

Next == Workers \/ Browser \/ Visitor

Spec == Init /\ [][Next]_vars

(* Requests are answered or fail, timers fire and React renders.  Nothing is *)
(* assumed of the tasks: that of a worker that is lost never ends.          *)
FairSpec ==
  /\ Spec
  /\ \A s \in Slot : WF_vars(AnswerPoll(s) \/ AnswerLoad(s)) /\ WF_vars(Receive(s) \/ Loaded(s))
  /\ WF_vars(\E s \in Poll : Tick(s))
  /\ WF_vars(HandleStart \/ Started) /\ WF_vars(Render \/ RenderError)

-----------------------------------------------------------------------------
(***************************************************************************)
(* Properties.                                                             *)
(***************************************************************************)
Stages == {"free", "asked", "PENDING", "RETRY", "SUCCESS", "FAILURE", "no_answer", "loading", "loaded"}
Kinds  == {"none", "queued", "waiting", "running", "finished", "failed", "no_answer", "not_started"}

(* Types; only polls of the effect that is set up are live, and nothing is    *)
(* tracked while a discovery is being started.                               *)
TypeOK ==
  /\ state \in [Task -> {"none", "PENDING", "RETRY"} \cup Final] /\ stored \subseteq Task
  /\ page \in BOOLEAN /\ panel \in BOOLEAN
  /\ shown \subseteq Task \/ shown = NoGraph
  /\ polled \in Task \cup {NoTask} /\ effect \in Task \cup {NoTask}
  /\ line \in Kinds \X (Task \cup {NoTask}) /\ start \in {"idle", "asked", "answered"}
  /\ slots \in [Slot -> [pc : Stages, task : Task \cup {NoTask}, live : BOOLEAN,
                          got : (SUBSET Task) \cup {NoGraph}]]
  /\ crowded \in BOOLEAN /\ overtaken \in BOOLEAN /\ faults \in 0 .. MaxFaults
  /\ \A s \in Slot : slots[s].live => slots[s].task = effect /\ effect # NoTask
  /\ start # "idle" => polled = NoTask

(* However late its answer comes, a poll of an earlier discovery never writes *)
(* the line of a later one.                                                  *)
LineOfLatest == line[2] \in {NoTask, Newest}

(* Unless polls crowd, the line that is left behind when the tracking is over *)
(* says how the task ended, or that a poll failed.                           *)
LineLeftBehind ==
  ~crowded /\ polled = NoTask /\ start = "idle" /\ line[2] # NoTask =>
    \/ line[1] = "no_answer"
    \/ <<line[1], state[line[2]]>> \in {<<"finished", "SUCCESS">>, <<"failed", "FAILURE">>}

(* When a discovery is said to have finished and its refresh is done, its     *)
(* finds are in the graph on the page, unless an older answer came later and *)
(* no load has brought the present graph since.                              *)
GraphShown ==
  /\ line[1] = "finished" /\ ~overtaken /\ shown # NoGraph
  /\ \A s \in Slot : slots[s].pc \in {"loading", "loaded"} => slots[s].task # line[2]
  => line[2] \in shown

(* The button comes back: a request to start a discovery does not keep it,   *)
(* and a task that has ended is not tracked for ever, whatever was asked,    *)
(* lost and loaded meanwhile.                                                *)
ButtonReturns ==
  /\ start # "idle" ~> start = "idle"
  /\ \A t \in Task : polled = t /\ state[t] \in Final ~> polled = NoTask
=============================================================================
