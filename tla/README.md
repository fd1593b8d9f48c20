# TLA+ models of yonnn

yonnn is an attack-surface framework: a FastAPI application takes scan requests
for the assets of a program, Celery workers run the tools, and PostgreSQL keeps
jobs, assets and the relations between them. These modules model the parts
where order, concurrency and failure decide what a user sees: the workflow
router, scan jobs between API, broker and workers, the tool runs of the
discovery task, the concurrent ingestion of what they find and the deletion of
a program beside it, the passes that draw conclusions from it, the tree that is
built from it, and in the web UI the panel that follows a discovery and the
session.

Paths below are relative to the repository (`src/` in `PROJECT.json`). Check a
run with `tlc -config <file>.cfg <module>`, a proof with `tlapm <name>Proofs.tla`.

## The system

| Component | Code | State | Operations |
|---|---|---|---|
| Workflow router | `services/workflow_service.py` | none of its own; the chain travels in task arguments | `validate_sequence`, `validate_sequence_against_target`, `start_workflow`, `start_custom_workflow`, `trigger_next_step` |
| Scan launch and status | `services/scan_service.py`, `api/routes/scans.py` | the request's transaction | `launch_scan`, `get_merged_scan_status` |
| Job rows | `services/job_service.py`, `models/job.py` | row per job: status, times, `celery_task_id` | create, link, mark, in an async and a sync form |
| Worker tasks | `workers/tasks/*.py` | Celery message, retries, result | discovery, DNS batch, stubs, ping |
| Celery app, base task | `workers/celery_app.py`, `workers/base_task.py` | broker and result backend | early acknowledgement, `autoretry_for`, `run_with_session` |
| External tools | `core/base_tool.py` | a subprocess, the raw output file | `run_subprocess`, `run_and_parse`, `save_raw_output` |
| Asset store | `services/asset_service.py`, `models/asset*.py` | `assets`, `asset_relations` | `upsert_asset`, `link_assets`, `add_discovered_asset`; what the loops of `workers/tasks/discovery.py` hand them |
| Asset hierarchy | `services/asset_service.py` | none | `build_hierarchical_graph` |
| Intelligence | `services/intelligence_service.py`, `models/finding.py` | flags in asset metadata, findings | `merge_scan_options_for_job`, `run_intelligence_pass` and its four modules, `create_finding`; no route or task calls a pass yet |
| Programs | `services/program_service.py`, `api/routes/programs.py` | programs and their settings | create, patch, delete with cascades, read |
| Access | `services/auth_service.py`, `api/routes/auth.py`, `api/deps.py` | users; the session is a signed cookie | register, token, logout, who am I |
| Discovery panel | `frontend/src/components/SubdomainDiscoveryPanel.tsx`, `pages/ProgramDetailPage.tsx` | tracked task, status line, graph | start, poll every two seconds, reload the graph |
| Session of the UI | `frontend/src/context/AuthContext.tsx`, login, register and protected pages | user shown, `loading` | look-up at the start, sign in, sign out |

A request runs in one transaction that `get_db` commits when the handler has
returned. A launch inserts a job row, sends a Celery message, and stores the
message's id in the row. A worker takes the message (acknowledged at once),
marks the row in transactions of its own, runs the tool, ingests the rows in
one transaction, and dispatches the next step of a chain, which again means a
row, a message and an id. A status request merges the row with what Celery
reports and writes the row when it lags behind.

What makes this hard:

* a message is sent before the row it belongs to is committed;
* status requests read a row and the result backend at different times and
  write over what a worker stored in between;
* a task is attempted up to four times, and each attempt may have dispatched a
  successor before it failed; a task that dies with its worker is not repeated;
* the tool may hang, ignore its kill, or fail in ways that are not exceptions;
* several ingests look the same asset up and insert it, at READ COMMITTED, and
  the program they belong to may be deleted meanwhile;
* bridging changes a sequence while it is being validated;
* intelligence passes and ingests write whole metadata values over each other,
  and two passes may report the same finding;
* what the user switched on or off passes through four merges of settings;
* the tree is built recursively from a stored graph that need not be a tree;
* the panel polls on a timer whether or not the last poll was answered, and
  polls, reloads and a new discovery overlap;
* looking the session up, signing in and signing out overlap, and each sets the
  same user when its answer arrives.

`PROJECT.json` lists each of these under "hazards" with its line.

## Modules

| Module | Models | Checked by |
|---|---|---|
| `WorkflowSteps` | the registry of steps: kinds, accepted targets, bridges, stop rules, named sequences, the plans the API starts | used by the next two |
| `WorkflowRouter` | a request from validation to the last step of its chain | `MCWorkflowRouter` |
| `StepChain` | what a chain of scan steps promises, without rows and messages | refined by `ScanJobs` |
| `ScanJobs` | launch, worker tasks, retries, crashes, status requests | `MCScanJobs` |
| `ToolRun` | one discovery task and its tool through all attempts | `MCToolRun` |
| `Finds` | which finds a tool's answer becomes, and in which order | used by `MCAssetStore` |
| `GraphStore` | what the asset store promises, without rows, locks and attempts | refined by `AssetStore` |
| `AssetStore` | concurrent ingestion, deletion of the program | `MCAssetStore` |
| `HierarchyTree` | `build_hierarchical_graph` | `MCHierarchyTree` |
| `Intelligence` | concurrent intelligence passes and the settings they obey | `MCIntelligence` |
| `DiscoveryPanel` | the discovery panel and the program page around it | itself |
| `Session` | cookie and user of the web UI | itself |
| `WorkflowRouterProofs`, `ScanJobsProofs`, `ToolRunProofs`, `AssetStoreProofs`, `HierarchyTreeProofs`, `IntelligenceProofs`, `DiscoveryPanelProofs`, `SessionProofs` | theorems | TLAPS |

The operators that begin with "Mutant" in a comment are deliberately wrong
versions of the definition after them: substituted for it, they break the
property they are paired with in `PROJECT.json`.

### WorkflowRouter

`ids` is the normalised sequence (entries are taken after `strip().lower()`;
`Blank` and `Unknown` stand for the entries validation throws out). One action
takes one id, as the loop of `validate_sequence` does, and either appends it,
puts the bridge in front of it, or rejects the pair. `CheckTarget` and
`StartFirst` are the checks of the two `start_*` functions; `RunStep` runs the
step whose turn it is with a nondeterministic result and does what
`trigger_next_step` does: stop, end, or enqueue the next one with `Invocation`.
Failures and job rows are left to `ScanJobs`. A payload is the set of its keys
that a later step reads.

### StepChain

The abstract specification behind `ScanJobs`: a step is issued, attempted at
least once and at most `MaxRetries + 1` times; an attempt delivers a result and
then hands over to at most one next step, which plan and result determine; it
succeeds, is given up or is lost with its worker; and it is shown as completed
only when some attempt delivered. Handing over is allowed to an attempt that
fails afterwards: the chain is at-least-once, and its steps may be doubled.
`ScanJobs!Chain` is the instance: `phase` is computed from a worker's `pc` and
the backend, `completed` from the rows' statuses, all else is mapped by name.
Marks, polls and commits of rows are stutters or `Show` steps there.

### ScanJobs

Per task, launched or dispatched: its plan, its row (`txn`, `status`, `times`,
`linked`), its worker's position (`pc`), what Celery's backend reports, and
whether an attempt has committed its work. Launching is three actions - rows
flushed, message sent, transaction committed - so that a worker can run
between the last two. Each kind of handler follows its own order of marks,
work and dispatch; an exception goes where that handler's `try` sends it, and
then to Celery's retry. A status request is at most three actions: it reads row
and backend, may take the row lock (`RETRY`), and writes at the end what the
later looks at the backend say. Clients know the ids of launched jobs only, so
only those are polled.

Abstractions: the message of a retry and the `RETRY` state are stored
together; the visibility timeout, expired results and an unacknowledged commit
are not modelled; there are always enough workers.

### ToolRun

The same task from inside. The worker's steps are those of `run_subprocess`,
`run_and_parse` and of the handler; the tool is a process of its own that
prints hosts, exits with 0 or not, hangs, dies from a signal or does not. The
timeout may come at any moment. `late`, `signalled` and the processes are kept
per attempt, because an attempt can leave a process behind that outlives it.
`save_raw_output` uses the task id for the file name, which a retry keeps. The
last step, `MarkCompleted`, changes nothing here and is a step because it may
raise when everything is dispatched already; what it does to the job row is in
`ScanJobs`.

### GraphStore

The abstract specification behind `AssetStore`: an ingest appears at once, with
all its assets and relations (`Store`); nothing ever goes away but by the
deletion of the program, which takes everything in one step (`Delete`); after it
an ingest can only be done without having stored anything (`StoreNothing`). A new
asset comes with exactly the metadata keys its ingest found. Of a known asset
the code promises less, and `Rewritten` says how much: whoever writes the
metadata writes all of it, with its own keys and with some of those that
committed ingests have brought. Keys may be lost (`asset_store_meta`) but not
made up. An ingest may be stored again, because a task that fails after its
commit is repeated. `AssetStore!Graph` is the instance: plans, rows, metadata,
relations and committed ingests are mapped by name, `gone` is `ProgramGone`, and
all else - statements, locks, conflicts, victims, attempts - is a stutter.

### AssetStore

Each ingest is a task or a request with a list of finds, and each statement of
`upsert_asset` and `link_assets` is an action. PostgreSQL is modelled from its
use: a query sees what is committed and what its own transaction wrote, a row
stays locked from its first write (`last_seen` is written by every update) to
the end of the transaction, an insert waits for a transaction that wrote the
key and fails on a committed one, and of a cycle of waiting transactions one is
rolled back. Metadata is a set of keys, and a pair of assets has one type of
relation. The finds of a task are computed from tool results by `Finds`: a host
named twice counts once, the root itself not at all.

`delete_program` runs beside the ingests: it loads the program's assets
(`LoadAssets`), deletes them one by one in any order (`DeleteAsset`, which waits
for ingests that wrote or link them), then the program (`DeleteProgram`, which
waits for ingests that inserted under it), whose foreign key cascades over what
was committed meanwhile. An ingest that comes later fails on the missing
program. A deletion can be the victim of a deadlock or fail, and is then rolled
back. The values of `last_seen` are left out.

### HierarchyTree

The recursion of `build_subtree` with an explicit stack, over every graph of
the bounded size; `RecursionLimit` stands for the interpreter's. A root domain
is one that nothing "contains", but other relations may lead from one root to
another, so that which of them get a tree of their own depends on the order in
which the loop takes them; the model takes every order. `rootsOut` is the
sequence of these trees, and `RootsAccounted` holds each against all that came
before it. `Shows(r, a)` says that a tree which starts at r shows a without
following the walk: every set closed under the relations that has r has a.

### Intelligence

A pass has a session and a transaction: `draft` is what it has modified and not
flushed, `own` what it has written, `held`, `touched` and `created` what it has
locked by that. Every query, row update and finding is an action, so that the
other pass, an upsert (in two steps: read, then write the whole value), a new
`resolves_to` relation or a patch of the settings can come between any two.
A flush updates rows in the order of their keys; locks, unique keys and
deadlocks are as in `AssetStore`. Settings are partial functions from switches
to `BOOLEAN`; each of the four merges in the code is an operator of its own,
built from `Over`.

Abstractions: nothing calls `run_intelligence_pass` at this commit, so any
caller may start it with the options that `launch_scan` merged, and commit for
it as `get_db` does. What the modules find by searching texts (a dangling CNAME
with an error page, a vendor's name) is an observation that a row has or has
not. The fingerprint module is not repeated here: it calls `upsert_asset` and
`link_assets` for what it finds and is an ingest of `AssetStore`. A patch of the
settings is atomic, and a block sent as null, or as anything but a dict, is the
empty block it is treated as.

### DiscoveryPanel

One slot per poll and one for the user's load, each with its position, its task
and whether its effect is still set up (`live`, the `cancelled` flag of the
code). Setting state is visible at once to code that sets it again, while the
effect, its clean-up and the page follow with `Render`: between the two, a tick
of the old interval can still start or answer. Answers arrive in any order. A
failed load sets the program to null and takes the panel away.

Two history variables say when the properties make no claim, because the code
gives none; the races they exempt are in the code, and no property covers them.
`crowded`: a poll began while another was live, or in the gap before
a render; then a late "running" can overwrite the final line, or a former poll's
reload can end the tracking. `overtaken`: an answer replaced a newer graph; the
page keeps the last answer, not the answer to the last question, until a load
brings the present one. `LineOfLatest` and `ButtonReturns` hold without either. The choice of a domain is left out.

### Session

A call is the look-up at the start, a sign-in (`POST /auth/token`, then
`GET /auth/me`) or a sign-out. The browser applies `Set-Cookie` when the answer
arrives and sends the cookie it has when a request leaves; `carries` is whose
cookie a `GET /auth/me` left with. `Render` is what React shows after a state
change: the redirects of the protected and of the register page, and the login
page, which returns before its last hook when there is a user and so, if it was
mounted without one, takes the application down (`page = "blank"`). A sign-in
sets the user and navigates before the next render.

`crossed` collects the calls that a sign-in was submitted beside. Without that
condition `OwnName` and `AgreedAtRest` are false: the look-up that was sent
before the sign-in answers "nobody" (or another account) after it and replaces
the user; the answer to a second click on "Sign out" clears the cookie of the
next sign-in. The code has no guard against either; these two races are exempt
from the properties, not covered by them. What is left for `OwnName` is a sign-in
beside late sign-outs, an expiry or failed requests: it may lose its session, but
never shows one account under the cookie of another.

Abstractions: one tab of the browser, where a second would share the cookie and
have a user, a page and calls of its own; a response leaves after the commit; a reload is `Init`, which
starts from every page and every cookie; React's doubled effects in
development, Bearer tokens and the browser's history are left out.

## Runs

| Run | Question | Bounds |
|---|---|---|
| `workflow_router` | Does a request run exactly the chain its pairs allow, and can every step that starts work on its arguments? | all sequences of up to 4 of the 5 ids, blanks and unknown entries; bridging on and off; an accepted and a refused target type |
| `scan_jobs` | Does a job row ever claim more than was done, and is all of it an implementation of `StepChain`? | one launch of five plans with up to 3 steps, 4 tasks beside the launched one, 1 retry, 1 failure or crash, 2 status requests |
| `scan_jobs_live` | Does a polled job end up agreeing with Celery, and does the chain come to rest? | 1 retry, 1 failure |
| `scan_jobs_pending` | Does an unpolled job leave PENDING? (violated) | no failure at all |
| `tool_run` | Is only complete output ingested, at most one tool left running by a crash and none otherwise, and does the task end whatever the tool does? | 3 attempts, 2 hosts, 3 exceptions or crashes |
| `tool_run_retry` | Are tool failures retried? (violated) | no exception at all |
| `asset_store` | Is the graph what the committed ingests found, or empty once the program is deleted, does everyone end, and is all of it an implementation of `GraphStore`? | 2 tasks with up to 2 finds, a request, the deletion of the program, 1 retry, 1 failure or crash; assets stored before or not |
| `asset_store_meta` | Are metadata keys merged? (violated) | no failure at all |
| `hierarchy_tree` | Is every asset in a tree or an orphan, no root both below a tree and after it, and when does the walk fail? | all graphs of 2 domains and 2 other assets with up to 4 relations |
| `intelligence` | Are flags true, signals reported and switches obeyed whatever runs beside a pass, and does every pass end? | 2 passes, 2 SUBDOMAINs and a DOMAIN on 2 addresses, threshold 1, 3 program blocks, one of them empty, 2 requests, 1 change beside the passes |
| `discovery_panel` | Do status line and graph say how the latest discovery ended, and does the button come back once it has? | 2 discoveries, 2 polls and a load at once, 1 failed request; the user may leave and come back at any time |
| `session` | Is whoever the UI shows the one whose cookie is sent, does the login page only give up under a look-up, and does it settle? | 2 accounts, 2 sign-ins, 2 sign-outs, 1 failed request, expiry at any time |

Why these bounds are enough to be interesting: four ids hold two consecutive
bridges and a bridge after a kept pair; one retry and one failure reach every
error path of every handler; two status requests can hold stale reads of the
same row; two finds in two orders form a cycle of two locks, with a third
ingest that waits for one of them or races with it; four relations hold a
diamond, a cycle and a root below a root; two passes over two shared rows and
two dangling names deadlock on rows and on findings, and a threshold of one
separates a hot address from one that a DOMAIN only seems to make hot; two
discoveries and two polls let a poll of the former discovery meet the latter,
and an older graph follow a newer one; two sign-ins and two sign-outs are the
least in which a call of one session meets the next.
`MaxRetries` is 3 in the code; where a run has less, the number of attempts is
what multiplies the states, and the proofs hold for every number of retries and
failures. The threshold is 5 in the code, and the proofs hold for every one.

Deadlock is checked in all runs: a state without a successor other than the
explicit `Terminating` steps would be reported.

### Fairness

* `ScanJobs!FairSpec`: weak fairness of each task's worker, of the launching
  request and of finishing a status request: each queue has a consumer
  (`docker-compose.yml`), and no lock is held across a wait for another.
  `PolledSpec` adds a client that keeps polling, as the UI does; `Reconciled`
  needs it, and `scan_jobs_pending` shows what happens without it.
* `ToolRun!FairSpec`: the worker's event loop and its timers. None of the tool.
* `AssetStore!FairSpec` and `Intelligence!FairSpec`: sessions go on with their
  statements, and the server resolves deadlocks (`deadlock_timeout`). Nothing
  obliges a pass to be started, settings to be changed or a program to be
  deleted. `AssetStore` needs one condition for all of its sessions together:
  every one of their steps is progress.
* `DiscoveryPanel!FairSpec`: requests are answered or fail, an answer is taken by
  the code that awaits it, the interval fires, React renders. Nothing of the user,
  and nothing of the Celery tasks: with early acknowledgement (`celery_app.py:43`)
  the task of a lost worker never ends and is polled for ever, so `ButtonReturns`
  promises the button only once a task has ended.
* `Session!FairSpec`: each call's requests are answered or fail and its code goes
  on. Nothing of the user, and not the cookie's end.

### What the violated runs show

* `scan_jobs_pending`: `launch_scan` sends the message before `get_db` commits.
  A worker that is faster skips both marks with a warning, and the committed
  row stays pending until somebody asks for it.
* `asset_store_meta`: the metadata merge reads before it locks and writes the
  whole value; a concurrent key is lost.
* `tool_run_retry`: a timed-out or failed tool is an empty result, not an
  exception; the job completes and nothing is retried.

`hierarchy_tree` passes, and shows a limit of the code all the same: although
the docstring of `build_hierarchical_graph` promises trees and orphans for any
program, `build_subtree` descends into visited children and `link_assets` only
refuses self-links, so that a stored cycle below a root ends in `RecursionError`.
`OnlyCyclesFail` says that this happens on these graphs and on no others.

## Proofs

All theorems hold for every value of the constants that satisfies the modules'
named assumptions. Two assumptions say more than types. `PlansHaveSteps`: a plan
is not empty, as `start_custom_workflow` refuses an empty sequence and the named
sequences have steps (`workflow_service.py:187`). And the theorems about waits
name theirs where they need it: that there are finitely many ingests
(`IsFiniteSet(Ingest)`) or passes (`IsFiniteSet(Pass)`), since only then must a
chain of waits close.

Liveness as such is out of the prover's reach, but what makes the runs' liveness
properties true is not: that somebody who has to end can always step or is
resolved by the server (`WaitsAreNeverWedged`, `PassesAreNeverWedged`,
`WorkerIsNeverStuck`), and that every step takes from a stock that nothing
refills (`EveryStepIsProgress`, `EveryPassStepIsProgress`, `TasksGoOn`,
`WorkerStepsRunOut`). Both halves are theorems of `AssetStore`, `Intelligence`
and `ToolRun`, the second of `ScanJobs`; what is left to TLC is the last
step, from them and weak fairness to "eventually", for which a proof would have
to know that `Able` and its like are `ENABLED`. On the runs' instances TLC finds
that they are.

* `ScanJobsProofs` proves all safety properties of the run `scan_jobs` from one
  inductive invariant `IInv`. The properties are not inductive: that a
  completed row has committed work needs to know what a worker at each `pc` has
  done already and what a status request that read the backend may still
  write; one child per attempt needs that a task that dispatched is past its
  dispatch in that attempt. `IInv` collects these facts by `pc`.
  It also proves that `ScanJobs` implements `StepChain` (the property
  `ImplementsStepChain` as a whole, not only step by step). Each action is a
  step or a stutter of the abstract chain; that a status request only shows
  what was worked, and that an attempt hands over once, come from `IInv`.
  A second invariant, `Places`, follows the chains: a task carries a step of its
  request's plan and hands over only to the step that follows in it
  (`ChainsFollowTheirPlan`). Since each successor belongs to another attempt of
  its parent, there are at most `MaxRetries + 1` of them, one if the handler does
  not retry (`CopiesAreBounded`): that is how far at-least-once can multiply a
  step. `TasksGoOn` counts a worker's steps over all attempts.
* `ToolRunProofs`: an attempt that has not begun has printed and left nothing
  (`Fresh`); rows after parsing are those of the raw file of that attempt
  (`Parsed`); what is stored was printed by an attempt whose clean end
  is final (`Kept`): no tool prints after the worker has taken its output.
* `AssetStoreProofs`: `Phase` says that an ingest's locks are the assets of the
  finds it has upserted and its links are links of these. With the exclusive
  locks of `TypeOK` this makes a commit add exactly the ingest's finds
  (`IngestExact`), and keeps the relation an ingest is about to insert away
  from all others, because its child is locked (`LinksNeverConflict`).
  `Erasing` follows the deletion: it and the ingests share no row, and once the
  program's row is deleted, what it has deleted and what it has still to delete
  is all there is and no ingest can add to it, so that its commit leaves nothing. `Winner` is the argument
  for `SomeoneWins`: a row can only have become visible to a loser by another's
  commit, and a victim's partner is still active. It assumes that there is an
  ingest at all.
  `WaitsAreNeverWedged` takes a smallest set of waiting parties that no wait
  leads out of; a smallest one cannot be split, so its parties are on a cycle,
  which is what `Deadlocked` asks for. `EveryStepIsProgress` orders attempts,
  finds and statements lexicographically.
  `RefinesGraphStore` shows that `AssetStore` implements `GraphStore` (the
  property `ImplementsGraphStore` as a whole). `IngestExact` gives what becomes
  of rows and relations. Metadata needs an invariant of its own, `DataInv`: what
  a session knows of an asset somebody has brought (`Known` for the rows); what
  it has found so far is in it; and of an asset it has itself inserted it knows
  nothing else. Only commits change what everyone sees (`OnlyCommits`), and each
  is one abstract step.
* `WorkflowRouterProofs`: for requests of any length. The loop invariant on the
  last element gives compatibility; `Built` relates what is resolved to what is
  consumed, one bridge per gap, so that the chain and the verdict are those of
  the pairs; `Walked` says that the steps run are a prefix of the chain.
* `HierarchyTreeProofs`: when the walk returns, the orphans are what no root
  reaches. The invariant says that what a visited asset leads to is visited or
  awaited by a call in progress, so that at the end the visited set is closed,
  and that everything visited is reachable (`Walk`) and hangs below a tree
  (`Shown`). Between two trees no call is in progress, so that the visited set is
  closed then; a root outside it cannot be shown by one inside (`Ordered`). The stack is a path of the graph (`Path`); one that is longer than
  there are assets meets an asset twice, so that with `RecursionLimit` above
  their number only a cycle below a root makes the walk fail. Conversely a call
  that has returned met no cycle (`Settled`). Without the assumption on the
  limit a deep enough tree would fail too (the interpreter's is 1000).
* `DiscoveryPanelProofs`: discoveries are numbered in the order of their start
  (`Numbered`); what is tracked, shown and said is about the latest
  (`Tracking`); what answers under way know stays true (`Answers`); and until
  polls crowd the only live one is that of the tracked task (`Uncrowded`).
* `IntelligenceProofs`: an address once hot stays hot, because relations are
  never deleted, so a flag is true for good if it was true when it was set.
  `Sound` says so of every place a flag can be in: the rows, an upsert that is
  about to write, and each pass's session; `FlagsSound` is its part about the
  rows. `SignalsReported` needs that a finding which a pass saw is still in its
  list, committed, or inserted by its own transaction (`Known`), and
  `SwitchesObeyed` that the options a pass holds are the merge of the layers it
  was launched with.
  That passes are not wedged needs `Settled` (only a started pass has anything
  locked), a circle among passes that all wait, found as a smallest set again,
  and that of the rows a flush has to update there is a lowest one.
* `SessionProofs`: none of the properties is inductive. `IInv` adds where each
  call can be (`Requests`), that only visitors are shown the pages for visitors
  (`Pages`), that a protected page that was opened waits for the look-up
  (`Entering`), that with sign-ins beside sign-outs at most one look-up waits at
  a time, shows nobody meanwhile and carries the browser's cookie or one that is
  gone (`OneAtATime`, which keeps `OwnName` true), and that without crossing, failure
  or expiry it waits alone and UI and browser agree when none does (`Calm`, which
  gives `AgreedAtRest`).

Some theorems state what no run lists because the runs' properties imply it, or
because it takes no interleaving to see it: `ChainsAreCompatible`,
`DispatchIsAfterCommit`, `ChildRowsComeFirst`, `OneDispatchPerAttempt`,
`RawIsOfTheRows` and `LaunchTypes`; or because it is about counts and waits that
the liveness runs show only in their effect: `ChainsFollowTheirPlan`,
`CopiesAreBounded`, and the seven named above.

Only model-checked: liveness itself (`Reconciled`, `ChainComesToRest`, `TaskEnds`,
`EveryoneEnds`, `PassesEnd`, `ButtonReturns`, `SettlesDown`), which takes fairness
and `ENABLED`, out of the prover's reach. Of the last two not even the halves are
proved, and of the first two only the second. Every invariant that a passing run checks is a theorem.

## Not modelled

Registration, the bootstrap account, hashing and token encoding; of programs what
is neither settings nor deletion; the response schemas, most of the migrations,
start-up and deployment; forms and presentation in the web UI: single statements
or data layout. Parsing of Subfinder's lines and the resolver call are pure;
`ToolRun` and `Finds` start from what they return.

Known exposure without a property is in `PROJECT.json`, each with the reason:
among them that a retry after a committed attempt may find nothing and end the
chain, and the races that `crossed` and `overtaken` exempt.
`SomeoneWins` says how far competition can go: one task may lose all its
retries to others, but then one of the others has committed.

## Plan

Done: `WorkflowSteps`, `WorkflowRouter`, `ScanJobs`, `StepChain`, `ToolRun`,
`Finds`, `GraphStore`, `AssetStore` with deletion, `HierarchyTree`,
`Intelligence`, `DiscoveryPanel`, `Session`, their runs, a proof of every safety
property of the runs that pass, of both refinements, and of what their liveness
rests on in `ScanJobs`, `AssetStore`, `Intelligence` and `ToolRun`.

Left: the halves of `ButtonReturns` and `SettlesDown` that are not temporal, and
that a worker or a status request of `ScanJobs` waits for no row in vain. Should the code grow
there: the ownership of jobs whose asset is gone; two registrations of one address, once the route handles the conflict; the
tasks that are stubs today (`httpx`, `nmap`, `nuclei`), whose handlers have
marks and dispatches but no work.
