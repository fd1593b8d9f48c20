------------------------- MODULE DiscoveryPanelProofs -------------------------
(***************************************************************************)
(* The safety properties of DiscoveryPanel, for any number of discoveries, *)
(* polls under way and failed requests.  One inductive invariant carries   *)
(* all of them.                                                            *)
(***************************************************************************)
EXTENDS DiscoveryPanel, TLAPS

(* Discoveries are numbered as they are started: Newest is their number. *)
Upto(n)  == \A t \in Task : Exists(t) <=> t <= n
Numbered == \E n \in 0 .. MaxTasks : Upto(n)

(* Whatever the page is about is the latest discovery; while one is being     *)
(* started nothing is tracked, and a page without panel tracks nothing, nor   *)
(* is there a panel, a graph or a request without a page.                     *)
Tracking ==
  /\ polled \in {NoTask, Newest} /\ effect \in {NoTask, Newest}
  /\ line[2] \in {NoTask, Newest} /\ (line[1] = "finished" => line[2] # NoTask)
  /\ start # "idle" => effect = NoTask /\ line[2] = NoTask
  /\ ~panel => polled = NoTask /\ effect = NoTask /\ line = NoLine /\ start = "idle"
  /\ ~page => ~panel /\ shown = NoGraph /\ \A s \in Slot : slots[s].pc = "free"

(* What polls and loads under way know is true for good. *)
Polling == {"asked", "PENDING", "RETRY", "no_answer"} \cup Final
Loads   == {"loading", "loaded"}

Sound(s) ==
  LET t == slots[s].task
  IN  /\ slots[s].pc \in Polling => t \in Task /\ Exists(t)
      /\ slots[s].pc \in Final => state[t] = slots[s].pc
      /\ slots[s].pc \in Loads /\ t # NoTask => state[t] = "SUCCESS"
      /\ slots[s].pc = "loaded" /\ t # NoTask /\ slots[s].got # NoGraph => t \in slots[s].got

Answers ==
  /\ \A s \in Slot : Sound(s)
  /\ \A t \in Task : state[t] = "SUCCESS" => t \in stored
  /\ line[1] = "finished" => line[2] \in stored

(* As long as polls do not crowd, the only one that is live is that of the    *)
(* task which is tracked, and a load that will end the tracking is its.       *)
Uncrowded ==
  ~crowded =>
    /\ \A r, s \in Slot : slots[r].live /\ slots[s].live => r = s
    /\ \A s \in Slot : slots[s].live => polled = effect
    /\ \A s \in Slot : slots[s].pc \in Loads /\ slots[s].task # NoTask =>
         slots[s].live /\ line = <<"finished", slots[s].task>>

IInv == /\ TypeOK /\ Numbered /\ Tracking /\ Answers /\ Uncrowded
        /\ LineLeftBehind /\ GraphShown

-----------------------------------------------------------------------------
(***************************************************************************)
(* The newest task.                                                        *)
(***************************************************************************)
LEMMA Latest ==
  ASSUME NEW st, NEW n \in 0 .. MaxTasks, \A t \in Task : st[t] # "none" <=> t <= n
  PROVE  n = IF \E t \in Task : st[t] # "none"
               THEN CHOOSE t \in Task : st[t] # "none" /\ \A u \in Task : u > t => ~(st[u] # "none")
               ELSE NoTask
<1> DEFINE Last(t) == st[t] # "none" /\ \A u \in Task : u > t => ~(st[u] # "none")
<1> USE DiscoveryPanelAssumption DEF Task, NoTask
<1>1. CASE n = 0
  BY <1>1
<1>2. CASE n # 0
  <2>1. n \in Task /\ Last(n)
    BY <1>2
  <2>2. \A t \in Task : Last(t) => t = n
    BY <2>1
  <2>3. (CHOOSE t \in Task : Last(t)) = n
    BY <2>1, <2>2
  <2> QED
    BY <2>1, <2>3
<1> QED
  BY <1>1, <1>2

LEMMA NewestIs ==
  ASSUME NEW n \in 0 .. MaxTasks
  PROVE  (Upto(n) => Newest = n) /\ (Upto(n)' => Newest' = n)
<1>1. ASSUME Upto(n) PROVE Newest = n
  BY <1>1, Latest DEF Upto, Exists, Newest
<1>2. ASSUME Upto(n)' PROVE Newest' = n
  BY <1>2, Latest DEF Upto, Exists, Newest
<1> QED
  BY <1>1, <1>2

LEMMA NewestExists ==
  ASSUME Numbered PROVE Newest \in Task \cup {NoTask} /\ (Newest # NoTask => Exists(Newest))
<1>1. PICK n \in 0 .. MaxTasks : Upto(n)
  BY DEF Numbered
<1>2. Newest = n
  BY <1>1, NewestIs
<1> QED
  BY <1>1, <1>2, DiscoveryPanelAssumption DEF Task, NoTask, Upto

(* Nothing was queued. *)
LEMMA SameNewest ==
  ASSUME Numbered, \A t \in Task : Exists(t)' <=> Exists(t)
  PROVE  Numbered' /\ Newest' = Newest
<1>1. PICK n \in 0 .. MaxTasks : Upto(n)
  BY DEF Numbered
<1>2. Upto(n)'
  BY <1>1 DEF Upto
<1> QED
  BY <1>1, <1>2, NewestIs DEF Numbered

(* A task was queued: the others stay what they are. *)
LEMMA QueueKeeps ==
  ASSUME TypeOK, Numbered, NEW sent \in BOOLEAN, Queue(sent)
  PROVE  /\ Numbered'
         /\ state' \in [Task -> {"none", "PENDING", "RETRY"} \cup Final]
         /\ \A t \in Task : Exists(t) => state'[t] = state[t]
         /\ \A t \in Task : state'[t] = "SUCCESS" => state[t] = "SUCCESS"
<1>1. CASE UNCHANGED state
  BY <1>1 DEF TypeOK, Numbered, Upto, Exists
<1>2. CASE \E t \in Task : Newest = t - 1 /\ state' = [state EXCEPT ![t] = "PENDING"]
  <2>1. PICK t \in Task : Newest = t - 1 /\ state' = [state EXCEPT ![t] = "PENDING"]
    BY <1>2
  <2>2. PICK n \in 0 .. MaxTasks : Upto(n)
    BY DEF Numbered
  <2>3. t = n + 1
    BY <2>1, <2>2, NewestIs DEF Task
  <2>4. Upto(t)' /\ t \in 0 .. MaxTasks /\ ~Exists(t)
    BY <2>1, <2>2, <2>3, DiscoveryPanelAssumption DEF Upto, Exists, Task, TypeOK
  <2> QED
    BY <2>1, <2>4 DEF Numbered, TypeOK, Exists, Final
<1> QED
  BY <1>1, <1>2 DEF Queue

LEMMA FreeSlot ==
  Free \in [pc : Stages, task : Task \cup {NoTask}, live : BOOLEAN, got : (SUBSET Task) \cup {NoGraph}]
  BY DEF Free, Stages

-----------------------------------------------------------------------------
LEMMA InitIInv == Init => IInv
<1> SUFFICES ASSUME Init PROVE IInv
  OBVIOUS
<1> USE DiscoveryPanelAssumption DEF Init, Free, NoLine, NoGraph, Task, NoTask, Slot, User, Poll
<1>1. TypeOK
  <2>1. slots \in [Slot -> [pc : Stages, task : Task \cup {NoTask}, live : BOOLEAN,
                          got : (SUBSET Task) \cup {NoGraph}]]
    BY DEF Stages
  <2>2. line \in Kinds \X (Task \cup {NoTask})
    BY DEF Kinds
  <2>3. \A s \in Slot : ~slots[s].live
    OBVIOUS
  <2>4. state \in [Task -> {"none", "PENDING", "RETRY"} \cup Final]
    OBVIOUS
  <2>5. shown = NoGraph /\ faults \in 0 .. MaxFaults
    OBVIOUS
  <2> QED
    BY <2>1, <2>2, <2>3, <2>4, <2>5 DEF TypeOK
<1>2. Upto(0)
  BY DEF Upto, Exists
<1>3. Numbered
  BY <1>2 DEF Numbered
<1>4. Tracking
  BY DEF Tracking
<1>5. Answers /\ Uncrowded
  BY DEF Answers, Sound, Polling, Loads, Final, Uncrowded
<1>6. LineLeftBehind /\ GraphShown
  BY DEF LineLeftBehind, GraphShown
<1> QED
  BY <1>1, <1>3, <1>4, <1>5, <1>6 DEF IInv

-----------------------------------------------------------------------------
(***************************************************************************)
(* The workers and the API.                                                *)
(***************************************************************************)
LEMMA StoreStep == ASSUME IInv, NEW t \in Task, Store(t) PROVE IInv'
<1> USE DEF IInv, Store, display, track, history
<1>1. TypeOK'
  BY DEF TypeOK
<1>2. Numbered' /\ Newest' = Newest
  BY SameNewest DEF Exists
<1>3. Tracking'
  BY <1>2 DEF Tracking
<1>4. Answers' /\ Uncrowded'
  BY DEF Answers, Sound, Exists, Uncrowded
<1>5. LineLeftBehind' /\ GraphShown'
  BY DEF LineLeftBehind, GraphShown
<1> QED
  BY <1>1, <1>2, <1>3, <1>4, <1>5

LEMMA BecomesStep ==
  ASSUME IInv, NEW t \in Task, Succeed(t) \/ Retry(t) \/ Fail(t) PROVE IInv'
<1> USE DEF IInv, Succeed, Retry, Fail, Becomes, display, track, history
<1>1. TypeOK'
  BY DEF TypeOK, Final
<1>2. /\ \A u \in Task : Exists(u)' <=> Exists(u)
      /\ \A u \in Task : state[u] \in Final => state'[u] = state[u]
      /\ \A u \in Task : state'[u] = "SUCCESS" => state[u] = "SUCCESS" \/ u \in stored
  BY DEF TypeOK, Exists, Final
<1>3. Numbered' /\ Newest' = Newest
  BY <1>2, SameNewest
<1>4. Tracking'
  BY <1>3 DEF Tracking
<1>5. Answers'
  BY <1>2 DEF Answers, Sound, TypeOK, Final, Polling, Loads, Exists
<1>6. Uncrowded'
  BY DEF Uncrowded
<1>7. LineLeftBehind'
  BY <1>2 DEF LineLeftBehind, TypeOK, Final
<1>8. GraphShown'
  BY DEF GraphShown
<1> QED
  BY <1>1, <1>3, <1>4, <1>5, <1>6, <1>7, <1>8

LEMMA HandleStartStep == IInv /\ HandleStart => IInv'
<1> SUFFICES ASSUME IInv, HandleStart PROVE IInv'
  OBVIOUS
<1> USE DEF IInv, HandleStart, display, history
<1>1. /\ Numbered'
      /\ state' \in [Task -> {"none", "PENDING", "RETRY"} \cup Final]
      /\ \A t \in Task : Exists(t) => state'[t] = state[t]
      /\ \A t \in Task : state'[t] = "SUCCESS" => state[t] = "SUCCESS"
  BY QueueKeeps
<1>2. TypeOK'
  BY <1>1 DEF TypeOK
<1>3. Tracking'
  BY DEF Tracking, TypeOK
<1>4. \A s \in Slot : Sound(s)'
  BY <1>1 DEF Answers, Sound, TypeOK, Final, Polling, Loads, Exists
<1>5. Answers' /\ Uncrowded'
  BY <1>1, <1>4 DEF Answers, Uncrowded
<1>6. LineLeftBehind' /\ GraphShown'
  BY DEF LineLeftBehind, GraphShown, Tracking
<1> QED
  BY <1>1, <1>2, <1>3, <1>5, <1>6

(* What the slots of polls and loads turn into. *)
LEMMA AnswerStep ==
  ASSUME IInv, NEW s \in Slot, AnswerPoll(s) \/ AnswerLoad(s) \/ LoseAnswer(s) PROVE IInv'
<1> USE DEF IInv, AnswerPoll, AnswerLoad, LoseAnswer, Fault, server, display, track, history
<1>1. /\ \A r \in Slot : r # s => slots'[r] = slots[r]
      /\ slots'[s].task = slots[s].task /\ slots'[s].live = slots[s].live
      /\ \/ /\ slots[s].pc = "asked" /\ slots'[s].got = slots[s].got
            /\ slots'[s].pc \in {state[slots[s].task], "no_answer"}
         \/ /\ slots[s].pc = "loading" /\ slots'[s].pc = "loaded"
            /\ slots'[s].got \in {stored, NoGraph}
  BY DEF TypeOK
<1>2. Sound(s)
  BY DEF Answers
<1>3. /\ slots'[s].pc \in Loads <=> slots[s].pc \in Loads
      /\ slots'[s].pc \in Stages
  BY <1>1, <1>2 DEF Sound, Polling, Loads, Exists, TypeOK, Final, Stages
<1>4. slots' \in [Slot -> [pc : Stages, task : Task \cup {NoTask}, live : BOOLEAN,
                          got : (SUBSET Task) \cup {NoGraph}]]
  BY <1>3 DEF TypeOK
<1>5. TypeOK'
  BY <1>1, <1>4, DiscoveryPanelAssumption DEF TypeOK
<1>6. Numbered' /\ Newest' = Newest
  BY SameNewest DEF Exists
<1>7. Tracking'
  BY <1>6 DEF Tracking
<1>8. Sound(s)'
  BY <1>1, <1>2 DEF Answers, Sound, Polling, Loads, Exists, TypeOK, Final
<1>9. Answers'
  BY <1>1, <1>8 DEF Answers, Sound, Exists
<1>10. Uncrowded'
  BY <1>1, <1>3 DEF Uncrowded
<1>11. LineLeftBehind' /\ GraphShown'
  BY <1>1, <1>3 DEF LineLeftBehind, GraphShown, Loads
<1> QED
  BY <1>5, <1>6, <1>7, <1>9, <1>10, <1>11

-----------------------------------------------------------------------------
(***************************************************************************)
(* The panel.                                                              *)
(***************************************************************************)
LEMMA StartStep == IInv /\ (StartDiscovery \/ StartFails) => IInv'
<1> SUFFICES ASSUME IInv, StartDiscovery \/ StartFails PROVE IInv'
  OBVIOUS
<1> USE DEF IInv, StartDiscovery, StartFails, Fault, server, display, history, NoLine
<1>1. Newest' = Newest /\ Numbered'
  BY SameNewest DEF Exists
<1>2. polled = NoTask /\ effect = NoTask
  BY DEF Rendered, Tracking, TypeOK
<1>3. TypeOK'
  BY <1>2, DiscoveryPanelAssumption DEF TypeOK, Kinds
<1>4. Tracking'
  BY <1>1, <1>2 DEF Tracking
<1>5. Answers'
  BY DEF Answers, Sound, Exists
<1>6. \A s \in Slot : ~slots[s].live
  BY <1>2 DEF TypeOK
<1>7. Uncrowded'
  BY <1>6 DEF Uncrowded
<1>8. LineLeftBehind' /\ GraphShown'
  BY DEF LineLeftBehind, GraphShown
<1> QED
  BY <1>1, <1>3, <1>4, <1>5, <1>7, <1>8

LEMMA StartedStep == IInv /\ Started => IInv'
<1> SUFFICES ASSUME IInv, Started PROVE IInv'
  OBVIOUS
<1> USE DEF IInv, Started, server, display, history
<1>1. Newest' = Newest /\ Numbered'
  BY SameNewest DEF Exists
<1>2. Newest \in Task \cup {NoTask}
  BY NewestExists
<1>3. effect = NoTask /\ panel
  BY DEF Tracking
<1>4. TypeOK'
  BY <1>2 DEF TypeOK, Kinds
<1>5. Tracking'
  BY <1>1, <1>3 DEF Tracking
<1>6. Answers'
  BY DEF Answers, Sound, Exists
<1>7. \A s \in Slot : ~slots[s].live
  BY <1>3 DEF TypeOK
<1>8. Uncrowded'
  BY <1>7 DEF Uncrowded
<1>9. LineLeftBehind' /\ GraphShown'
  BY DEF LineLeftBehind, GraphShown
<1> QED
  BY <1>1, <1>4, <1>5, <1>6, <1>8, <1>9

LEMMA TickStep == ASSUME IInv, NEW s \in Poll, Tick(s) PROVE IInv'
<1> USE DEF IInv, Tick, server, display, track
<1>1. Newest' = Newest /\ Numbered'
  BY SameNewest DEF Exists
<1>2. effect \in Task /\ Exists(effect) /\ s \in Slot /\ slots[s].pc = "free"
  BY NewestExists DEF Tracking, TypeOK, NextPoll, Slot
<1>3. slots' = [slots EXCEPT ![s] = Asking(effect)]
  OBVIOUS
<1>4. /\ \A r \in Slot : r # s => slots'[r] = slots[r]
      /\ slots'[s] = Asking(effect)
  BY <1>2, <1>3 DEF TypeOK
<1>5. Asking(effect) \in [pc : Stages, task : Task \cup {NoTask}, live : BOOLEAN,
                          got : (SUBSET Task) \cup {NoGraph}]
  BY <1>2 DEF Asking, Stages
<1>6. TypeOK'
  <2>1. slots' \in [Slot -> [pc : Stages, task : Task \cup {NoTask}, live : BOOLEAN,
                          got : (SUBSET Task) \cup {NoGraph}]]
    BY <1>2, <1>3, <1>5 DEF TypeOK
  <2>2. \A r \in Slot : slots'[r].live => slots'[r].task = effect /\ effect # NoTask
    BY <1>4 DEF Asking, TypeOK
  <2>3. crowded' \in BOOLEAN
    OBVIOUS
  <2> QED
    BY <2>1, <2>2, <2>3 DEF TypeOK
<1>7. Tracking'
  BY <1>1 DEF Tracking
<1>8. Answers'
  BY <1>2, <1>4 DEF Answers, Sound, Exists, Asking, Loads, Final
<1>9. Uncrowded'
  <2> SUFFICES ASSUME ~crowded' PROVE Uncrowded'
    BY DEF Uncrowded
  <2>1. ~crowded /\ polled = effect /\ \A r \in Slot : ~slots[r].live
    OBVIOUS
  <2>2. \A r \in Slot : ~(slots[r].pc \in Loads /\ slots[r].task # NoTask)
    BY <2>1 DEF Uncrowded
  <2> QED
    BY <1>2, <1>4, <2>1, <2>2 DEF Uncrowded, Asking, Loads
<1>10. LineLeftBehind' /\ GraphShown'
  BY <1>2, <1>4 DEF LineLeftBehind, GraphShown, Asking
<1> QED
  BY <1>1, <1>6, <1>7, <1>8, <1>9, <1>10

(* A live poll reacts to its answer: what changes, in all three forms. *)
LEMMA ReactStep == ASSUME IInv, NEW s \in Slot, Receive(s), slots[s].live PROVE IInv'
<1> DEFINE t == slots[s].task
<1> USE DEF IInv, Receive, server, display, history
<1>1. React(s)
  OBVIOUS
<1>2. t \in Task /\ t = effect /\ t = Newest /\ panel
  BY DEF TypeOK, Tracking
<1>3. slots[s].pc \in Final => state[t] = slots[s].pc
  BY DEF Answers, Sound
<1>4. slots[s].pc \notin Loads
  BY DEF Answered, Loads, Final
<1>5. PICK kind \in {"waiting", "running", "finished", "failed", "no_answer"} :
        /\ line' = <<kind, t>>
        /\ \/ kind \in {"waiting", "running"} /\ UNCHANGED polled
              /\ slots' = [slots EXCEPT ![s] = Free]
           \/ /\ (kind = "failed" /\ state[t] = "FAILURE") \/ kind = "no_answer"
              /\ polled' = NoTask /\ slots' = [slots EXCEPT ![s] = Free]
           \/ kind = "finished" /\ state[t] = "SUCCESS" /\ UNCHANGED polled
              /\ slots' = [slots EXCEPT ![s] = Loading(t, TRUE)]
  BY <1>1, <1>3 DEF React, GoOn, Stop, Refresh, Says, Final, TypeOK
<1>6. /\ \A r \in Slot : r # s => slots'[r] = slots[r]
      /\ IF kind = "finished" THEN slots'[s] = Loading(t, TRUE) ELSE slots'[s] = Free
  BY <1>5 DEF TypeOK
<1>7. Newest' = Newest /\ Numbered'
  BY SameNewest DEF Exists
<1>8. TypeOK'
  <2>1. slots' \in [Slot -> [pc : Stages, task : Task \cup {NoTask}, live : BOOLEAN,
                          got : (SUBSET Task) \cup {NoGraph}]]
    <3>1. {Free, Loading(t, TRUE)} \subseteq
            [pc : Stages, task : Task \cup {NoTask}, live : BOOLEAN, got : (SUBSET Task) \cup {NoGraph}]
      BY <1>2 DEF Free, Loading, Stages
    <3> QED
      BY <1>5, <3>1 DEF TypeOK
  <2>2. \A r \in Slot : slots'[r].live => slots'[r].task = effect /\ effect # NoTask
    BY <1>2, <1>6 DEF TypeOK, Free, Loading
  <2>3. line' \in Kinds \X (Task \cup {NoTask})
    BY <1>2, <1>5 DEF Kinds
  <2>4. polled' \in {polled, NoTask}
    BY <1>5
  <2> QED
    BY <2>1, <2>2, <2>3, <2>4 DEF TypeOK
<1>9. Tracking'
  <2>1. effect # NoTask /\ start = "idle" /\ t = Newest'
    BY <1>2, <1>7 DEF TypeOK, Tracking
  <2>2. line'[2] = t /\ t # NoTask /\ polled' \in {polled, NoTask}
    BY <1>2, <1>5, <2>1
  <2> QED
    BY <1>2, <1>7, <2>1, <2>2 DEF Tracking
<1>10. Answers'
  <2>1. line'[1] = "finished" => line'[2] \in stored
    BY <1>2, <1>5 DEF Answers
  <2>2. \A r \in Slot : Sound(r)'
    BY <1>5, <1>6 DEF Answers, Sound, Exists, Free, Loading, Polling, Loads, Final
  <2> QED
    BY <2>1, <2>2 DEF Answers
<1>11. Uncrowded'
  BY <1>2, <1>4, <1>5, <1>6 DEF Uncrowded, Free, Loading, Loads
<1>12. LineLeftBehind'
  <2>1. ~crowded => polled # NoTask
    BY <1>2 DEF Uncrowded, Task, NoTask
  <2> QED
    BY <1>5, <2>1 DEF LineLeftBehind
<1>13. GraphShown'
  BY <1>5, <1>6 DEF GraphShown, Loading
<1> QED
  BY <1>7, <1>8, <1>9, <1>10, <1>11, <1>12, <1>13

(* A cancelled one does nothing. *)
LEMMA IgnoreStep == ASSUME IInv, NEW s \in Slot, Receive(s), ~slots[s].live PROVE IInv'
<1> USE DEF IInv, Receive, server, display, history
<1>1. slots' = [slots EXCEPT ![s] = Free] /\ UNCHANGED <<polled, line>>
  OBVIOUS
<1>2. slots[s].pc \notin Loads
  BY DEF Answered, Loads, Final
<1>3. /\ \A r \in Slot : r # s => slots'[r] = slots[r]
      /\ slots'[s] = Free
  BY <1>1 DEF TypeOK
<1>4. Newest' = Newest /\ Numbered'
  BY SameNewest DEF Exists
<1>5. TypeOK'
  <2>1. Free \in [pc : Stages, task : Task \cup {NoTask}, live : BOOLEAN, got : (SUBSET Task) \cup {NoGraph}]
    BY DEF Free, Stages
  <2>2. slots' \in [Slot -> [pc : Stages, task : Task \cup {NoTask}, live : BOOLEAN,
                          got : (SUBSET Task) \cup {NoGraph}]]
    BY <1>1, <2>1 DEF TypeOK
  <2>3. \A r \in Slot : slots'[r].live => slots'[r].task = effect /\ effect # NoTask
    BY <1>3 DEF TypeOK, Free
  <2> QED
    BY <1>1, <2>2, <2>3 DEF TypeOK
<1>6. Tracking'
  BY <1>1, <1>3, <1>4 DEF Tracking, Free
<1>7. Answers'
  BY <1>3 DEF Answers, Sound, Exists, Free, Polling, Loads, Final
<1>8. Uncrowded'
  BY <1>1, <1>3 DEF Uncrowded, Free, Loads
<1>9. LineLeftBehind' /\ GraphShown'
  BY <1>1, <1>2, <1>3 DEF LineLeftBehind, GraphShown, Loads
<1> QED
  BY <1>4, <1>5, <1>6, <1>7, <1>8, <1>9

-----------------------------------------------------------------------------
(***************************************************************************)
(* The page.                                                               *)
(***************************************************************************)
LEMMA LoadedStep == ASSUME IInv, NEW s \in Slot, Loaded(s) PROVE IInv'
<1> DEFINE t == slots[s].task
<1> USE DEF IInv, Loaded, server
<1>1. /\ \A r \in Slot : r # s => slots'[r] = slots[r]
      /\ slots'[s] = Free
  BY DEF TypeOK
<1>2. Newest' = Newest /\ Numbered'
  BY SameNewest DEF Exists
<1>3. Sound(s)
  BY DEF Answers
<1>4. TypeOK'
  <2>1. Free \in [pc : Stages, task : Task \cup {NoTask}, live : BOOLEAN, got : (SUBSET Task) \cup {NoGraph}]
    BY DEF Free, Stages
  <2>2. slots' \in [Slot -> [pc : Stages, task : Task \cup {NoTask}, live : BOOLEAN,
                          got : (SUBSET Task) \cup {NoGraph}]]
    BY <2>1 DEF TypeOK
  <2>3. \A r \in Slot : slots'[r].live => slots'[r].task = effect /\ effect # NoTask
    BY <1>1 DEF TypeOK, Free
  <2>4. slots[s].got \in (SUBSET Task) \cup {NoGraph}
    BY DEF TypeOK
  <2>6. shown' \subseteq Task \/ shown' = NoGraph
    BY <2>4
  <2>7. polled' \in {polled, NoTask}
    OBVIOUS
  <2>5. overtaken' \in BOOLEAN
    OBVIOUS
  <2> QED
    BY <2>2, <2>3, <2>5, <2>6, <2>7 DEF TypeOK
<1>5. Tracking'
  BY <1>2 DEF Tracking
<1>6. Answers'
  BY <1>1 DEF Answers, Sound, Exists, Free, Polling, Loads, Final
<1>7. Uncrowded'
  <2>1. CASE t = NoTask
    BY <1>1, <2>1 DEF Uncrowded, Free, Loads
  <2>2. CASE t # NoTask
    BY <1>1, <2>2 DEF Uncrowded, Free, Loads
  <2> QED
    BY <2>1, <2>2
<1>8. LineLeftBehind'
  <2>1. CASE t = NoTask
    BY <2>1 DEF LineLeftBehind
  <2>2. CASE t # NoTask
    <3>1. state[t] = "SUCCESS" /\ (~crowded => line = <<"finished", t>>)
      BY <1>3, <2>2 DEF Sound, Uncrowded, Loads
    <3> QED
      BY <3>1 DEF LineLeftBehind
  <2> QED
    BY <2>1, <2>2
<1>9. GraphShown'
  <2> SUFFICES ASSUME line[1] = "finished", ~overtaken', shown' # NoGraph,
                      \A r \in Slot : slots'[r].pc \in {"loading", "loaded"} => slots'[r].task # line[2]
               PROVE  line[2] \in shown'
    BY DEF GraphShown
  <2>1. line[2] # NoTask /\ panel
    BY DEF Tracking, NoLine
  <2>2. CASE t = line[2]
    BY <1>3, <2>1, <2>2 DEF Sound
  <2>4. CASE shown' = stored
    BY <2>4 DEF Answers
  <2>3. CASE t # line[2] /\ shown' # stored
    <3>1. ~overtaken /\ shown \subseteq shown'
      BY <2>1, <2>3
    <3>2. shown # NoGraph
      BY <1>4, <3>1 DEF TypeOK, NoGraph, Task, NoTask
    <3> QED
      BY <1>1, <2>3, <3>1, <3>2 DEF GraphShown
  <2> QED
    BY <2>2, <2>3, <2>4
<1> QED
  BY <1>2, <1>4, <1>5, <1>6, <1>7, <1>8, <1>9

(* The user loads the graph, or opens the page. *)
LEMMA VisitStep == IInv /\ (LoadGraph \/ Enter) => IInv'
<1> SUFFICES ASSUME IInv, LoadGraph \/ Enter PROVE IInv'
  OBVIOUS
<1> USE DEF IInv, LoadGraph, Enter, server, display, track, history
<1>1. /\ User \in Slot /\ slots' = [slots EXCEPT ![User] = Loading(NoTask, FALSE)]
      /\ UNCHANGED <<shown, panel, polled, effect, line, start>>
  BY DEF Slot
<1>2. /\ \A r \in Slot : r # User => slots'[r] = slots[r]
      /\ slots'[User] = Loading(NoTask, FALSE)
  BY <1>1 DEF TypeOK
<1>3. Newest' = Newest /\ Numbered'
  BY SameNewest DEF Exists
<1>4. TypeOK'
  <2>1. Loading(NoTask, FALSE) \in
          [pc : Stages, task : Task \cup {NoTask}, live : BOOLEAN, got : (SUBSET Task) \cup {NoGraph}]
    BY DEF Loading, Stages
  <2>2. slots' \in [Slot -> [pc : Stages, task : Task \cup {NoTask}, live : BOOLEAN,
                          got : (SUBSET Task) \cup {NoGraph}]]
    BY <1>1, <2>1 DEF TypeOK
  <2>3. \A r \in Slot : slots'[r].live => slots'[r].task = effect /\ effect # NoTask
    BY <1>2 DEF TypeOK, Loading
  <2>4. page' \in BOOLEAN
    BY DEF TypeOK
  <2> QED
    BY <1>1, <2>2, <2>3, <2>4 DEF TypeOK
<1>5. Tracking'
  BY <1>1, <1>3 DEF Tracking
<1>6. Answers'
  BY <1>2 DEF Answers, Sound, Exists, Loading, Polling, Loads, Final
<1>7. Uncrowded'
  BY <1>1, <1>2 DEF Uncrowded, Loading, Loads
<1>8. LineLeftBehind'
  BY <1>1 DEF LineLeftBehind
<1>9. GraphShown'
  <2>1. CASE panel
    <3>1. slots[User].pc = "free"
      BY <2>1 DEF Tracking
    <3>2. \A r \in Slot : slots[r].pc \in {"loading", "loaded"} => slots'[r] = slots[r]
      BY <1>2, <3>1
    <3> QED
      BY <1>1, <3>2 DEF GraphShown
  <2>2. CASE ~panel
    BY <1>1, <2>2 DEF GraphShown, Tracking, NoLine
  <2> QED
    BY <2>1, <2>2
<1> QED
  BY <1>3, <1>4, <1>5, <1>6, <1>7, <1>8, <1>9

(* The panel is taken away: loads may go on, for nobody. *)
LEMMA DropStep ==
  ASSUME IInv, Leave \/ RenderError
  PROVE  IInv'
<1> USE DEF IInv, Leave, RenderError, DropPanel, history
<1>1. /\ ~panel' /\ polled' = NoTask /\ effect' = NoTask /\ line' = NoLine /\ start' = "idle"
      /\ UNCHANGED <<stored, crowded, overtaken, faults>>
  OBVIOUS
<1>2. /\ Numbered'
      /\ state' \in [Task -> {"none", "PENDING", "RETRY"} \cup Final]
      /\ \A t \in Task : state'[t] = "SUCCESS" => state[t] = "SUCCESS"
  BY QueueKeeps
<1>3. /\ slots' \in [Slot -> [pc : Stages, task : Task \cup {NoTask}, live : BOOLEAN,
                          got : (SUBSET Task) \cup {NoGraph}]]
      /\ \A s \in Slot : /\ slots'[s].pc \in {"free", "loading", "loaded"}
                         /\ slots'[s].task = NoTask /\ ~slots'[s].live
  <2>1. CASE Leave
    BY <2>1 DEF Free, Stages
  <2>2. CASE RenderError
    <3>1. \A s \in Slot :
            slots'[s] = IF slots[s].pc \notin {"loading", "loaded"} THEN Free
                        ELSE [slots[s] EXCEPT !.task = NoTask, !.live = FALSE]
      BY <2>2
    <3>2. \A s \in Slot : slots'[s] \in [pc : Stages, task : Task \cup {NoTask}, live : BOOLEAN,
                                        got : (SUBSET Task) \cup {NoGraph}]
      <4> TAKE s \in Slot
      <4>1. CASE slots[s].pc \notin {"loading", "loaded"}
        <5>1. slots'[s] = Free
          BY <3>1, <4>1
        <5>2. Free \in [pc : Stages, task : Task \cup {NoTask}, live : BOOLEAN,
                         got : (SUBSET Task) \cup {NoGraph}]
          BY FreeSlot
        <5> QED
          BY <5>1, <5>2
      <4>2. CASE slots[s].pc \in {"loading", "loaded"}
        <5>1. slots[s] \in [pc : Stages, task : Task \cup {NoTask}, live : BOOLEAN,
                            got : (SUBSET Task) \cup {NoGraph}]
          BY DEF TypeOK
        <5>2. slots'[s] = [slots[s] EXCEPT !.task = NoTask, !.live = FALSE]
          BY <3>1, <4>2
        <5>3. [slots[s] EXCEPT !.task = NoTask, !.live = FALSE] \in
                [pc : Stages, task : Task \cup {NoTask}, live : BOOLEAN, got : (SUBSET Task) \cup {NoGraph}]
          BY <5>1
        <5> QED
          BY <5>2, <5>3
      <4> QED
        BY <4>1, <4>2
    <3> QED
      BY <2>2, <3>1, <3>2 DEF Free, TypeOK
  <2> QED
    BY <2>1, <2>2
<1>4. TypeOK'
  <2>1. line' \in Kinds \X (Task \cup {NoTask})
    BY <1>1 DEF NoLine, Kinds
  <2>2. page' \in BOOLEAN /\ (shown' \subseteq Task \/ shown' = NoGraph)
    BY DEF TypeOK
  <2> QED
    BY <1>1, <1>2, <1>3, <2>1, <2>2 DEF TypeOK
<1>5. Tracking'
  <2>1. ~page' => shown' = NoGraph /\ \A s \in Slot : slots'[s].pc = "free"
    <3>1. CASE Leave
      BY <3>1 DEF Free
    <3>2. CASE RenderError
      BY <3>2 DEF Tracking, Free
    <3> QED
      BY <3>1, <3>2
  <2> QED
    BY <1>1, <2>1 DEF Tracking, NoLine
<1>6. Answers'
  BY <1>1, <1>2, <1>3 DEF Answers, Sound, Polling, Loads, Final, NoLine
<1>7. Uncrowded'
  BY <1>3 DEF Uncrowded
<1>8. LineLeftBehind' /\ GraphShown'
  BY <1>1 DEF LineLeftBehind, GraphShown, NoLine
<1> QED
  BY <1>2, <1>4, <1>5, <1>6, <1>7, <1>8

LEMMA RenderStep == IInv /\ Render => IInv'
<1> SUFFICES ASSUME IInv, Render PROVE IInv'
  OBVIOUS
<1> USE DEF IInv, Render, server, history
<1>1. Newest' = Newest /\ Numbered'
  BY SameNewest DEF Exists
<1>2. \A s \in Slot : /\ slots'[s].pc = slots[s].pc /\ slots'[s].task = slots[s].task
                     /\ slots'[s].got = slots[s].got /\ ~slots'[s].live
  BY DEF TypeOK
<1>3. TypeOK'
  <2>1. slots' \in [Slot -> [pc : Stages, task : Task \cup {NoTask}, live : BOOLEAN,
                          got : (SUBSET Task) \cup {NoGraph}]]
    BY DEF TypeOK
  <2> QED
    BY <1>2, <2>1 DEF TypeOK
<1>4. page
  BY DEF TypeOK, Tracking, Rendered
<1>5. Tracking'
  BY <1>1, <1>4 DEF Tracking, TypeOK
<1>6. Answers'
  BY <1>2 DEF Answers, Sound, Exists
<1>7. Uncrowded'
  <2> SUFFICES ASSUME ~crowded PROVE Uncrowded'
    BY DEF Uncrowded
  <2>1. \A s \in Slot : ~slots[s].live
    BY DEF Uncrowded, Tracking, Rendered, TypeOK
  <2> QED
    BY <1>2, <2>1 DEF Uncrowded
<1>8. LineLeftBehind' /\ GraphShown'
  BY <1>2 DEF LineLeftBehind, GraphShown
<1> QED
  BY <1>1, <1>3, <1>5, <1>6, <1>7, <1>8

-----------------------------------------------------------------------------
LEMMA NextIInv == IInv /\ [Next]_vars => IInv'
<1> SUFFICES ASSUME IInv, [Next]_vars PROVE IInv'
  OBVIOUS
<1>1. CASE Workers
  BY <1>1, StoreStep, BecomesStep DEF Workers
<1>2. CASE Browser
  BY <1>2, HandleStartStep, StartedStep, StartStep, RenderStep, DropStep, AnswerStep, ReactStep,
     IgnoreStep, LoadedStep, TickStep DEF Browser
<1>3. CASE Visitor
  BY <1>3, StartStep, VisitStep, DropStep DEF Visitor
<1>4. CASE UNCHANGED vars
  <2> USE <1>4 DEF vars, server, display, track, history, IInv
  <2>1. Numbered' /\ Newest' = Newest
    BY SameNewest DEF Exists
  <2>2. TypeOK' /\ Tracking'
    BY <2>1 DEF TypeOK, Tracking
  <2>3. Answers' /\ Uncrowded' /\ LineLeftBehind' /\ GraphShown'
    BY DEF Answers, Sound, Exists, Uncrowded, LineLeftBehind, GraphShown
  <2> QED
    BY <2>1, <2>2, <2>3
<1> QED
  BY <1>1, <1>2, <1>3, <1>4 DEF Next

-----------------------------------------------------------------------------
(* The invariant holds in every reachable state. *)
THEOREM PanelInvariance == Spec => []IInv
  BY InitIInv, NextIInv, PTL DEF Spec

(* Types; only polls of the effect that is set up are live. *)
THEOREM PanelTypes == Spec => []TypeOK
<1>1. IInv => TypeOK
  BY DEF IInv
<1> QED
  BY <1>1, PanelInvariance, PTL

(* The status line is never about an earlier discovery, however many polls    *)
(* are under way and in whatever order they are answered.                    *)
THEOREM LineIsOfLatest == Spec => []LineOfLatest
<1>1. IInv => LineOfLatest
  BY DEF IInv, Tracking, LineOfLatest
<1> QED
  BY <1>1, PanelInvariance, PTL

(* Without crowding, the line left behind says how the task ended. *)
THEOREM LineLeftIsTrue == Spec => []LineLeftBehind
<1>1. IInv => LineLeftBehind
  BY DEF IInv
<1> QED
  BY <1>1, PanelInvariance, PTL

(* The finds of a discovery said to have finished are in the graph. *)
THEOREM GraphIsShown == Spec => []GraphShown
<1>1. IInv => GraphShown
  BY DEF IInv
<1> QED
  BY <1>1, PanelInvariance, PTL
=============================================================================
