# Verification of local-llm

TLA+ modules of the concurrent core of local-llm, TLC configurations that
check them on small instances, and TLAPS proofs of their safety properties for
every value of their constants. Paths below are relative to
`src/apps/server/local_llm/` unless they begin with `apps/`.

## The system

local-llm is a workbench for language models on one's own GPU. It consists of

| part | where | what it does |
|---|---|---|
| server | `apps/server/local_llm` | a FastAPI backend on one asyncio event loop |
| web client | `apps/web` | the user interface |
| desktop app | `apps/desktop` | starts and stops the server and the containers |
| infrastructure | `infra` | Postgres, Redis, Jupyter, SearXNG in containers |

The server's parts with state and concurrency of their own:

| component | state | operations | what is hard | what makes it correct |
|---|---|---|---|---|
| Benchmark job interlocks (`routers/benchmarks/{serve,prescreen,tune,tests}.py`, `__init__.py`) | module globals: `_job`, `_sweep`, `_task`, `_starting`, two `_start_lock`s | start, stop, cancel of each of four jobs; teardown | each start checks the other three jobs and awaits in between; a stop takes time; teardown waits are bounded | one job of a kind; jobs that share the GPU exclude each other; every request is answered; teardown stops what it promises |
| Launcher and recorder (`benchmarks/serving/launcher.py`, `telemetry_recorder.py`) | `ServeProcess`: server, telemetry task, recorder handle, log file; the recorder's flag, miss counter and its `benchmark_run` row | start, `_start_telemetry`, `stop`, the recorder's loop and `finish` | `stop` runs concurrently with itself and with a telemetry start; three OS processes; the backend may die | nothing is left behind; the log outlives its reader; the recorder ends |
| Chat timers (`utils/timers.py`) | a chat row's `meta` and `timer_at`, a lock for each timer in each process | claim, recover, execute, requeue, fail, cancel | several processes; crash in the middle; stale claims; lost updates | the prompt is posted at most once, and the timer never hangs |
| Automations (`utils/automations.py`, `models/automations.py`, `routers/automations.py`) | one row for each automation, its run history | create, edit, toggle, delete, run now; the scheduler's claim; a run from its claim to its history row | every backend's scheduler claims from one table; edits read and write the row later; a run waits for a reply that may be stopped, while the backend shuts down | a due time is claimed once, each run has one row, and a success was one |
| Task registry (`tasks.py`) | dictionaries of asyncio tasks, mirrored in Redis | create, stop, list, clean up | pub/sub loses messages; a crash leaves entries | a stopped task stops; no entry outlives its task |
| Run registry (`routers/benchmarks/live.py`, `models/benchmarks/configs.py`) | `benchmark_run` rows with a pid | open, close, kill | rows outlive processes, and an open row blocks every start | a killed run is closed and its recorder gone |
| Pre-screen (`benchmarks/prescreen`) | sweep and point rows, the process on the card, the cancel event | prepare, the search, re-measuring, load checks, reclaim at startup | a death between starting a process and recording it; two backends on one card; a cancel between phases | one process on the card; every point and sweep ends; a point marked as out of memory is |
| Tune (`benchmarks/tuning`) | sweep, candidate, round, visit and pause rows; the task's own memory of them | start, resume, visit, cooldown, eliminate, refine, finish | a stop or a death at any await, and resumes that go by the rows left | rounds tile the items; a round measures a candidate once, and everyone before it decides; attempts do not collide |
| Tests runner and grading (`benchmarks/evaluation`) | result rows | run, grade | subprocesses | scores (computation and I/O) |
| Tool approval, `ask_user` (`utils/tool_approval.py`, `utils/ask_user.py`, parts of `utils/middleware.py`) | the calls in a message's stored output, a set of messages being resolved | resolve, resume, drain, pause, run | every save writes the whole output its writer read; answers race each other and the resumed reply | a tool is run at most once, and never after its rejection |
| Sub-agents (`utils/subagents.py`, `_run_pending_internal_messages` in `main.py`) | slots, a semaphore, a lock for each parent, results posted in the parent chat | delegate, run, post, wake the parent | the parent is busy when the result arrives, or becomes idle just then | each result is answered once, and none is left behind |
| Sockets (`socket/`, `utils/session_pool.py`) | session and usage pools, in memory or Redis | connect, disconnect, usage | crash of a process with sessions | no session leaks |

They interact by shared module state (the four job routers read one another's
`running()`), by the database (a recorder writes the runs that the routers and
the live view read; every process's scheduler claims from the same rows), by
Redis (task stops), by signals (a `ServeProcess` and its recorder), and by
callbacks (`_drain_log` calls `stop()` at the end of the server's output, a reply's
finally block looks for the results of sub-agents).

Each module models one component, with as much of its neighbours as it depends on:
`GpuJobs` sees a run as open or not, which `ServeProcess` follows in detail; the replies
of `Subagents`, `ToolApproval` and `Automations` are the tasks of `Tasks`. `Mailbox` is an
abstract specification, and `Subagents` is shown to implement it.

`PROJECT.json` lists all components with their status, and the hazards, each at
its line.

## GpuJobs: who may use the GPU

`GpuJobs.tla` models the handlers of the four job routers and the teardown of
the lifespan (`main.py` `_shutdown`, `routers/benchmarks/__init__.py`). The
backend is one event loop, so an action is what a handler does between two
awaits. `/serve/start` and `/prescreen/start` await while they hold their
`_start_lock`, so each request has a program counter:

| variable | code |
|---|---|
| `servePc`, `serveHolder`, `serveWaiters` | `start_server` and `serve._start_lock` with its queue |
| `job`, `proc` | `serve._job` and the process of each `ServeProcess` |
| `screenPc`, `screenHolder`, `screenWaiters`, `starting` | `start_prescreen`, `prescreen._start_lock`, `_starting` |
| `sweep`, `sweepTask`, `cancelled` | `prescreen._sweep` with `_task`, and each sweep's cancel event |
| `tune`, `tests` | `tune._task`, `tests._task` |
| `activeRun` | whether `get_any_active_run` finds a row |
| `phase`, `stopJobs`, `timedOut` | the teardown, `LLLM_STOP_JOBS_ON_SHUTDOWN`, the jobs `_stop_job` gave up on |
| `sinceCheck` | history only |

A query is two actions: the database answers (`ServeQuery`, `ScreenQuery`) and
the request is resumed with an answer that may be out of date (`ServeReply`,
`ScreenReply`). `asyncio.Lock` is first come first served, and free between a
release and the moment the first waiter runs; the pre-screen looks at
`locked()` and can see this. `RecorderStep` toggles `activeRun` at any time:
runs are opened and closed by processes of their own. `DrainTimeout` cancels
the open requests when uvicorn's grace is over. Request identities are reused
once nothing mentions them, so the number of requests in a behaviour is not
bounded, only the number at a time.

Runs:

- **gpu_safety** (3 `/serve/start`, 2 `/prescreen/start` at a time, symmetric; 726,992
  states): `JobsExclude` (one served model, one pre-screen, never Tests beside Tune),
  `OverlapOnlySinceCheck`, `TeardownStopsJobs`. Three requests are a holder, the head
  of the queue and one behind it. A pre-screen does not run alone (see *Where code and
  docs disagree*); `OverlapOnlySinceCheck` is the part that does hold: the await between
  its in-memory checks and `_starting` is the only way.
- **gpu_live** (2 `/serve/start`, 1 `/prescreen/start`; 188,016 states): under `FairSpec`
  every start request is answered (`StartsAnswered`: a refusal or failure at any of the
  awaits hands the lock on), and a shutdown ends although a job may ignore its
  cancellation (`ShutdownEnds`). Two requests are enough for one to wait for the other;
  the one pre-screen identity comes back, and would find a lock that its predecessor
  kept.

Fairness: the event loop resumes whatever is ready, the database answers, the
waits of the teardown are bounded by `_JOB_STOP_TIMEOUT`, and a server told to
stop is killed after its grace. No client, job or recorder has to do anything.

## ServeProcess: one served model

`ServeProcess.tla` models one `ServeProcess` with the processes around it.
`start` is the progress of `start()`; `tel` is `_telemetry_task`, with the
moment at which the recorder has been forked but `telemetry_proc` is not
assigned (`spawned`); `stopPc` has a program counter for each concurrent call of
`stop()`: those of `/serve/stop` and `shutdown()` (`Requests`) and the one that
`_drain_log` makes (`Drain`). `rec`, `recStop`, `misses` and `row` are the
recorder. `port` says who listens: the server, somebody else, nobody.
`BackendCrashes` may happen at any time; the server and the recorder live on. `kill` is
a `/live/kill`, which this backend or, after a crash, the next one serves: it finds the
open row, signals the group of the pid on it (the recorder's) up to three times, and
closes the row.

- **serve_stops** (2 requests and the drain, `MISS_LIMIT` 3 as in the code, one
  `/live/kill` for each backend; 213,076 states): `LogOutlivesReader`,
  `StopLeavesNothing`, `KilledIsOver`, and under `FairSpec` `CleanupHappens` and
  `RecorderEnds`. Fairness is for the event loop, its timeouts, and the recorder's own
  loop; nothing makes the server exit or the port free. Three calls of `stop()` at a
  time are one that times out, one that is waiting with it, and one that comes later.

## Timers: a message at a later time

`Timers.tla` follows one timer. `timer` is the chat's `meta` as far as the timer is
concerned and `due` the column `timer_at`. A claim and a recovery hold the row's
lock (`FOR UPDATE SKIP LOCKED`) and are one action each. Every other transaction
reads the row, and later writes the whole `meta` it read with a new status: two
actions, with the value read kept in `read`, so lost updates happen in the model
as they do in the code. `pc` and `proc` say where each run is and in which
process; `_timer_locks` excludes within a process (`LockFree`), the parent's row
lock across processes (`LocksParent`). `Dies` kills a process and all its runs.
`busy` is `has_active_tasks` of the parent chat and changes freely.

Two parameters describe a deployment: `Processes`, and `SlowRuns`, whether a run may
last longer than `STALE_RUNNING_NS`, after which another process takes it for
dead.

- **timers_one_process** (1 process, 3 runs, slow runs allowed): `NeverRefires`, and
  `NeverStuckRunning` under `PollSpec`, which says only that time passes and some
  scheduler polls, not that any run goes on.
- **timers_workers** (2 processes, 2 runs, no slow runs): `PostedOnce`, and `TimerEnds`
  under `TimerFairSpec`, which adds that a run that can go on does. Both safety properties are
  proved for both deployments; each run checks the one its deployment endangers. The
  premise of `TimerEnds` says that the chat is left alone and faults cease: a chat that
  is busy at each poll may requeue its timer for ever.

  With 2 processes *and* slow runs `PostedOnce` fails: the lock is local to a process,
  and the claim is checked only when a run starts. `routers/benchmarks/serve.py`
  describes a single worker, while the scheduler's docstring says it runs on every
  instance; the two runs are the deployments in which the code is right.

Three runs at a time are enough for a stale run, its recovery's run and one
claimed after that; `posts` is counted up to 2.

## Tasks: the replies of a chat

`Tasks.tla` models the task registry for the replies of one chat: `registry` is the
dictionary `tasks`, `hash` and `members` the two Redis keys. `task` is a program
counter through the reply, the finally block of `_process_chat` (its `cleanup_task`,
then `_run_pending_internal_messages`, which may start a follow-up reply), and the
`cleanup_task` of the done callback. Each Redis command is an action of its own and
may fail; the commands of different coroutines interleave freely. `stop` holds the
requests in `stop_item_tasks` or `stop_task`, `inbox` what was published and not yet
handled; a published stop is lost while the `listener` is down. `Round` is one turn of
the loop of `stop_all_tasks`. `Restart` ends the process at any moment and keeps Redis.
A task id is used once, as in the code. `NewReply` is a user's message, a timer or an
automation: the last two start replies without a look at `stopping`, and the scheduler is
cancelled only after `stop_all_tasks`, so it may happen in any phase of the shutdown.

- **tasks_registry** (2 replies, 1 stop request; 1,555,790 states): `ReplyIsListed`, `NoEntryLeft`,
  `StopAllLeavesDeaf`, and under `FairSpec` `StopEndsReply`. Two replies are a reply
  and its follow-up, or two models that answer one message. Fairness: the listener
  handles what it receives, and a cancelled reply unwinds.

`StopAllLeavesDeaf` is what holds of the comment in `stop_all_tasks`, which goes on
"until nothing runs" so that a reply started by an ending one stops too. A reply in its
finally block has left `tasks` before it starts the other; if it had looked at
`stopping` before the shutdown set it, its follow-up is started after `stop_all_tasks`
has returned. And what the scheduler starts once the loop has ended (`late`) is stopped by
nobody; what it starts while the loop goes on is.

## Tune: a sweep over configurations

`Tune.tla` models a tune sweep and what it leaves in the database. `sweep`, `status`,
`elim`, `rounds`, `visits` and `pause` are rows; `pc`, `stage`, `rnd`, `cursor`, `alive`,
`todo`, `now`, `next`, `bad`, `base`, `reason`, `cool` and `cut` are the task's own. The
difference matters: a stop (`CancelledError`) or a death takes the second and leaves the
first, and `resume_sweep` rebuilds the second from the first. The schedule
(`plan_schedule`) is the pure operators `Rounds` and `SliceStart`; the number of rounds
comes from `Budget` (`budget.candidates`), also where the draw has fewer. `Start`,
`Register` and `RecordRejected` are three transactions, and a stop between them leaves a
sweep without a baseline, whose `finish` raises (`FinishFails`). A visit that a stop or a
death cut short counts for its round, as in the code (`counts_toward_round` stays set), so
`Counted` admits it. Throughput is left
out: who is thin, who ranks before whom, whether the baseline drifted are choices, within
what the counted visits allow.

- **tune_sweep** (a baseline and 2 candidates, `eta` 2, 4 items so that 2 explore rounds
  and a refine round fit, all four drift modes, 2 faults; 2,312,942 states):
  `AttemptsUnique`, `MeasuredOnce` (a candidate whose visit counted, or found that it does
  not run, is not visited again in that round, whatever resumes follow), `SlicesTile`,
  `StopClosesRows`, and the action property `ClosedRoundsVisited`. Two faults are a stop or a
  death and a second one during the resume, or a drift and a stop.

## Prescreen: a sweep over the grid

`Prescreen.tla` models sweeps of any number of backends on one card. `rows` are the sweep
rows with their points; `mem` is what each backend knows (where its task is, which sweep
and point, the cancel event); `procs` the `llama-bench` and `llama-server` processes, which
outlive their backend. Starting a process and recording its group are two actions, as are
looking for sweeps to reclaim and opening one's own. `fits` is what the card has the
memory for; it is any set that `Monotone` allows, and a process that runs beside another
may run out of memory although it fits.

An error that ends a measuring, in `run_point` or in a write of the point's row, leaves the
row as it is: `_measure` records only a cancellation, the sweep is closed as failed, and
`reclaim_stale` passes over a closed sweep, so the point is 'running' for good. `unsaved`
names the points this happened to, and those whose row a cancellation interrupted while it
was opened or closed; `PointsEnd` says that no other point is left running. `failed` says
that some call failed, which may keep the sweep itself from being closed.

- **prescreen_sweeps** (1 backend that may die and restart, a grid of 4 points with one
  invalid, both samplers, budget 3, one point measured again, one load check, 2 faults;
  708,405 states): `VerdictSound`, `PointsEnd`, `DoneIsComplete`, and `SweepCloses` under
  `FairSpec` (the event loop goes on, a backend that is down comes back).
- **prescreen_backends** (2 backends, 2 sweeps, 2 faults; 3,456,147 states):
  `CardShared`: two processes share the card only through one of the two windows the code
  leaves.

## ToolApproval: the tool calls of a message

`ToolApproval.tla` follows the calls of one saved reply. `st` is the stored output, `view`
what clients were last sent; each request (`req`) and each reply keeps the output as it
read it, and every save writes the whole of it, so lost updates can happen. `LockFree` is
the set `_resolving`. A resolve checks, saves and resumes; the resumed reply drains what is
approved, pauses for what is not, or goes on streaming and may make further calls. In full
mode the calls of a round are appended (`Appends`), run one by one (`Executes`) and given
their results (`Records`); a stop in between saves them in_progress (`Stored`, 'open').
`Crash` ends everything in memory and leaves the stored output.

`Continues` enters the reply again at any time, as the server takes it
(`drain_approved_tool_calls` pauses only for a queued call); the web client offers it for a
reply that waits once it has loaded the chat anew, since a reply without a task counts as done
(`apps/web/src/routes/chat/useChatSession.ts:215`). Where the reply waits or is under way,
`skips` counts it, and `cut` holds the calls it goes past, together with the next one to be
made if another reply is under way: two replies then write over each other's copies.

- **tool_web** (2 requests, 2 replies, 2 calls, one fault or such a continuation, clients
  that resolve what an event showed as pending, as the web client does; 802,741 states):
  `RunsOnce`, `RejectedNeverRuns`, `PausedAsks`, and `ApprovedRuns` under `FairSpec`
  (requests and drains go on). Two calls are one that is decided and one that waits behind
  it. What a fault or a continuation finds without a result (`cut`), and what comes after it
  (`Hit`), is excepted. `LateSends = FALSE` is a bound: no new resolve is sent after a
  continuation that was not at rest, though those under way go on. With `TRUE` TLC found no
  violation in the first 22 million states, which are too many for a run; the three
  invariants are proved for both values.

## Subagents and Mailbox: delegated work

`Subagents.tla` models the delegations of one parent chat: `call` is `delegate()` in the
reply that called it, `child` the sub-agent's task, `slots` and `permits` the limits, `res`
its result's message in the parent chat, `pp` who is where in
`process_pending_internal_messages`, under `lock`. Replies end, run their finally block and
look for results there; so does each sub-agent after it has posted.

Whether the chat is busy is asked of the task registry, which may be wrong: `_end_chat_task`
swallows a failing `cleanup_task`, so a reply may find its own entry (`stuck`) and leave the
removal to the callback of its task (`left`), which may fail too; and entries in Redis survive
the backend (`Restart`). `stale` is an entry whose reply is gone; only a stop of the chat
removes it. Who asks and finds nothing but such an entry is `Misled`, and the results that wait
then are `lost`: the exception of `NoResultStranded`, beside a way that a stop, an error (also
one of `_post_result`) or a restart cut off.

`Mailbox.tla` says what the chat promises: an item is put once, waits, and is given to one
reader, alone or with others. `Delivers == Mail!Spec`, with the posted results as the
items that wait, is a property of the run and a theorem.

- **subagents_results** (2 background and 1 foreground delegation, 2 replies, one slot of
  each kind, a message of the user, a fault; 237,136 states): `Delivers`,
  `NoResultStranded`, `SlotsBalance`, and `ResultAnswered` under `FairSpec`. Two background
  delegations at one slot are one at work and one refused; their results may be answered
  together or one after the other.

## Automations: a prompt at its times

`Automations.tla` follows one automation. `row` is its row, `edit` the requests that
change it, with what they computed and read before they write; the commit updates the
columns that differ from what was read. `run` follows each run through
`execute_automation` and `finish_automation_run`; `claims` and `raced` are history. A
recurrence rule is its set of times on the wall clock. `Wall` says what the clock of the user's
time zone shows at each time; `NextRun` is the rule's next time on it, and `Epoch` the
conversion back, which takes the first time at which the clock shows it (`fold` is 0). In the
hour that a clock put back shows twice, that is a time which has passed.

`StopBegins`, `LoopEnds` and `Exits` are the shutdown of a backend: the end of the loop
cancels every task, and a run that waits for its reply records the interruption under
`shield`; `Crash` ends it without.

- **automations_runs** (2 backends, a run at a time, an edit, a rule with two times and one
  with one, a clock that is put back once, a fault; 990,270 states): `ClaimedOnce`,
  `RowsOnce`, `SuccessIsReal`, and `RunRecorded` under `FairSpec` (a run that can go on does;
  no reply has to end). The run's identity comes back, so a due time can be claimed again by
  the other backend, and is, where an edit wrote it back or the clock shows it again
  (`Repeats`); at the other times `ClaimedOnce` has no exception but the edit's.

The five models above are of one sweep, message, chat or automation, with bounded faults
and requests, and may come to rest when all of it is over: their configurations do not
check for deadlock. In the others it is checked.

## What is proved

Each `...Proofs.tla` has an inductive invariant `IndInv`, the lemmas that each
group of actions keeps it, and the theorems. All are for any number of requests,
stops, processes, runs, candidates, points or faults. Each proves that the types are kept too.

**GpuJobsProofs** assumes only that `NoReq` is not a request. No property is
inductive alone. That one model is served at a time needs `LocksInv` (the holder of a
lock is exactly the request past its first check), `QueueInv` (a queue holds waiting
requests, each once, so handing the lock on never revives a request) and
`ServeInv` (while a request holds the lock nothing is served, and `_job` stays
what it set). `OverlapOnlySinceCheck` needs `OverlapInv`: a `/serve/start` past its
own look at the pre-screen counts as served already. `TeardownStopsJobs` needs that
no request is open once teardown begins (`TeardownInv`). Theorems:
`JobsAreExclusive`, `OverlapNeedsTheWindow`, `TeardownIsComplete`.

**ServeProcessProofs** assumes that `Drain` is not a request and `MissLimit` is
positive. The heart is `TaskInv`: a live recorder is in the hands of the telemetry
task or in `telemetry_proc`, so a stop that is past the task finds it; `StopInv`:
where a stop is tells what it has waited for; and `KillInv`: a row is there only once
its recorder is past its wait, and a dead recorder stays dead. Theorems: `LogIsSafe`,
`StopIsComplete`, `KillIsComplete`, and `RecorderIsToldLast`, that `stop()` tells the
recorder only after the server has exited.

**TasksProofs** assumes that `NoTask` is not a task id. `RegInv` says that `tasks` holds
every reply until its finally block, so that a turn of `stop_all_tasks` that finds
nothing has missed no reply; `DeafInv` that the tasks which may still start one were
known when the shutdown began; `StopInv` that a stop removes only what it has
published; `LeftInv` that a callback removed its task's entry or is known to have
missed it. A reply that is in no such place was started behind the loop (`late`). Theorems:
`RepliesAreListed`, `EntriesAreRemoved`, `StopAllIsComplete`.

**TuneProofs** assumes what `plan_schedule` does not refuse, among it that the slices of
the schedule increase and end within the tier. `RowsInv` and `PlaceInv` say what a task,
fresh or resumed, may assume of the rows it goes by: explore rounds come first, and it
is in the last one or about to open the next. From them the rounds tile. `AttInv` keeps
`next_attempt` above every attempt of the round; from it and from what a round still has to
do follows that a candidate measured in a round is not visited in it again. `CutInv`,
`ElimHasRow` and `AliveVisited` carry the visits to the step that closes the round; `StopInv`
says which rows may be open at each step, so that `finish` finds them. Theorems:
`AttemptsAreUnique`, `RoundsMeasureOnce`, `SlicesAlwaysTile`, `StopsCloseRows`,
`DecidedWhenVisited`.

**PrescreenProofs** assumes a finite grid of points with natural numbers, and of the card
only `Monotone`. `ProcInv`, `PgidInv` and `OneInv` account for each process on the card:
it is on record, or in the hands of the backend that started it, or was lost in between.
`PairInv` and `ListInv` say which sweeps a backend can have missed when it looked;
`ReclaimInv` and `PointInv` what a reclaim has done so far. `TaskInv` and `OutInv` tie a
task's place to its row. Theorems: `CardIsShared`, `VerdictsSound`, `PointsAreEnded`.
`DoneIsComplete` needs a second invariant on top, `DoneInv`: `Progress` says for each place of
a task how many trials were made, that the leaders left and those measured again add up to
what was asked for, and that those left to load-check, with those checked, include as many
leaders as asked for; and that a point cut short shows in the cancel event, which each loop
of `run()` asks on its way out. Theorem: `DoneSweepsComplete`.
These are the longest proofs, and take tlapm some ten minutes.

**SubagentsProofs** assumes finitely many delegations and at least one permit. Its
invariant says which actor may hold the lock and what it has read: only the holder takes
results, so that what it takes is still waiting. With it every step is a `Put`, a `Take` or a
stutter of `Mailbox`. `SlotsInd` counts the permits. Theorems: `ImplementsMailbox`,
`NeverStranded`, `SlotsBalanced`.

**SchedulerProofs** has what the scheduler starts, automations and timers. Of automations
it assumes that there is a backend and a rule, and that a rule has a time. `ClaimInv`: what
was claimed is past, and `next_run_at` is not one of those times unless an edit put it back;
it rests on what `next_run_ns` does return: none, or a time that the clock shows later than
now, which is a later time unless the clock, put back, shows it again. Of the clock nothing is
assumed. `RunOK` relates
where a run is to the reply it has seen and the rows it has made. Theorems:
`DueTimesClaimedOnce`, `OneRowEach`, `SuccessesAreReal`. Of timers it assumes that
`NoClaim` is not a claim, and the theorems have the premise `OneAtATime`: one process, or
no slow runs. In the first case the process's lock keeps runs apart (`LockInv`), in the
second the row does (`ClaimedInv`). Theorems: `PostsAtMostOnce`, `PostIsFinal`.

**ToolApprovalProofs** has the premise `~AnyCall`: clients resolve the calls they were shown
as pending. Until a call without a result is hit by a fault or a continuation, the turn is
somebody's alone (`TurnInv`): a reply has it, or a request that will resume one, or the user,
who is then shown the one call that is pending (`ViewInv`). Whoever has it holds what is
stored (`OutInv`, `ReqInv`), so that no save undoes another, and a call without a result has
not been run (`FreshInv`). After that two replies may be under way; what was answered before
the calls that were hit stays answered in every copy (`SettledInv`), which is why the
exception of `RunsOnce` and `RejectedNeverRuns` reaches from the call that was hit to those
after it, and no further. An exception for that call alone is too little: with three calls
TLC finds a stop at the first, a client that continues the reply and resolves the call at
once, and a third call that both replies run.

`PausesAsk` has an invariant of its own, since a continuation that was not at rest leaves
several replies with different copies and no fault. `FitInv` says that in every copy a call
waits its turn only where the mode lets it, `CopyOf` that a reply about to pause has a call to
show, and `AskInv` that the reply is done, or in somebody's turn, or asks; `PauseInv` puts them
together. Theorems: `ToolsRunOnce`, `RejectionsHold`, `PausesAsk`.

Only model-checked: liveness under fairness, which the prover does not handle
(`StartsAnswered`, `ShutdownEnds`, `CleanupHappens`, `RecorderEnds`, `NeverStuckRunning`,
`TimerEnds`, `StopEndsReply`, `ResultAnswered`, `ApprovedRuns`, `SweepCloses`,
`RunRecorded`). Every invariant and every action property of the runs is a theorem.

## Where code and docs disagree

While modelling, each of the following sentences was stated as a property, next to the
others in its module. TLC refutes them when they are added to the configuration of the
module's run; what holds in their place is checked, and mostly proved, above.

- `GpuJobs!PrescreenAlone`. "never alongside a served model, a Tune sweep or a Tests
  job" (`routers/benchmarks/prescreen.py:7`; `docs/guides/benchmarks.md:153`). The checks
  of `_gpu_busy` come before its await (`:92`) and `_starting` after it (`:136`); what
  starts in between runs beside the pre-screen.
- `GpuJobs!CancelReachesSweep`. Cancel "stops the point being measured"
  (`docs/guides/benchmarks.md:146`). Sent while a second pre-screen is being prepared it
  sets the event of the first, which is over (`prescreen.py:156`).
- `ServeProcess!ConcurrentStopIsFine`. "ServeProcess.stop() is idempotent, so a concurrent
  /stop is fine" (`routers/benchmarks/serve.py:79`). Two calls wait for the telemetry task
  with `wait_for` (`launcher.py:470`); the first to time out cancels it, and the
  `CancelledError` passes through the other's `suppress(Exception)`. The clean-up happens
  all the same, by the call that timed out (`CleanupHappens`).
- `ServeProcess!NothingAfterExit`. "telemetry from after the server exited is never
  attributed to the run" (`telemetry_recorder.py:480`). The loop asks whether the port is
  open, not whose it is (`:482`).
- `ServeProcess!KillStopsServer`. `/live/kill` is to work "after a backend restart or crash
  orphans the llama-server/recorder pair" (`routers/benchmarks/live.py:43`). The pid on the
  row is the recorder's (`telemetry_recorder.py:470`), and the server has a session of its
  own (`launcher.py:369`): it runs on, with its run closed.
- `Timers!CancelEventHonoured`. `cancel_on` names "events that cancel the timer before it
  fires" (`tools/builtin.py:1730`), and "a real user message cancels the chat's waiting
  timers" (`main.py:1488`). One that arrives while the timer is claimed leaves it alone, and
  the timer goes back to pending if the chat is busy (`timers.py:366`).
- `Tasks!ReplyIsActive`. `has_active_tasks` "check[s] if a chat has any active tasks" and
  `stop_item_tasks` stops them all (`tasks.py:330`, `:304`). `redis_cleanup_task` deletes the
  chat's set if it was empty one command earlier (`:94`); a reply saved in between is lost
  from it. `ReplyIsListed` is what holds.
- `Tasks!StopAllLeavesDeaf` without its exceptions. "Again until nothing runs: a task ending can
  start another [...], which must stop too" (`tasks.py:172`). It misses the follow-up of a reply
  that is past its look at `stopping` (`:175`), and what the scheduler, cancelled later
  (`main.py:516`), starts.
- `ToolApproval!RunsOnce` with `AnyCall = TRUE`. "nothing else is resolved until it has" run
  (`utils/tool_approval.py:103`). The guard looks at the stored output; a client that
  resolves a call no event has shown as pending yet can do so while a reply is about to
  run it.
- `ToolApproval!RunsOnce` with an exception for `faults` alone. Resolving an approved call again
  "would resume the reply a second time and run the tool twice" (`utils/tool_approval.py:94`), and
  is refused. Continue on a reply that waits is not a resolve: the continued
  reply streams on past the call (`utils/middleware.py:3301`), and its `_finish` writes its copy,
  in which the call is pending, over an approval or a rejection made meanwhile (`:5703`). The
  call is then offered again.
- `Tune!ProbedBeforeServing`. "Re-probe before serving" (`tune.py:1930`). The row of a resumed
  sweep keeps the `ended_at` of its first run, so `reclaim_stale_sweeps` passes over it, and
  the pause a second kill leaves open is never seen as abandoned.
- `Tune!CutOnce`. `run_round` is "idempotent by design, not just by intent" (`tune.py:1138`).
  A death between the cut and `close_round` makes the resume cut the survivors again
  (`:1254`); the round is still closed only with everyone visited (`ClosedRoundsVisited`).
- `Automations!ClaimedOnce` without its exceptions. `claim_due` advances `next_run_at` "so the
  row can never be double-claimed" (`models/automations.py:314`). An edit that computed its
  next run before the claim and commits after it puts the due time back (`:260`). And in the
  hour that the end of daylight saving time repeats, `next_run_ns` converts the next time with
  `fold` 0 (`utils/automations.py:237`) to the hour's first pass, which is due at once: a rule of
  minutes or seconds then fires at every poll.
- `Subagents!ResultAnswered` without `stopping`. Results "stay pending for the next start"
  (`utils/subagents.py:83`). Nothing looks for them at the start; they wait for the end of the
  chat's next reply.

## Abstractions

- Profiles, argument lists, models, samples, messages and prompts are left out;
  where code decides on them, the model has both outcomes.
- In `GpuJobs` a tune sweep's and a Tests job's own use of a server is not told
  apart from its task; a job that is cancelled may go on as long as it likes.
- `owns_listener`, which the recorder's `server_ready` uses, is taken to know the
  server's socket; where the system does not tell, the code settles for an open port.
  Pids and process groups are not given to another process, except in `Tune`, where the
  pid of a dead backend may be (`PidReused`).
- In `Tasks` the response streams kept for reconnecting clients are left out, and `hget`
  and `PUBLISH` of a stop are one action.
- In `Timers` the parent's lock and the question whether the chat is busy are apart,
  but the answer and the reading of the timer are one action. The deletion of a chat,
  which deletes its timers, is not modelled; a missing parent is (`Missing`).
- In `Tune` the reason `budget` stands for a cancel between visits too, and the number of
  rounds is the exact logarithm (the code's is a float, which differs at 125 candidates
  with `eta` 5 and 216 with 6). In `Prescreen` Optuna proposes any point.
- In `Subagents` the limits are numbers; -1, which lifts one, is not modelled. The
  posted results that share a message and a model, and are answered together, are any.
- In `Automations` the hour that a clock put forward skips is left out, `dateutil`'s parsing of
  a rule, and the calendar's alerts, which the same scheduler sends.
- In `ToolApproval` writes to the database succeed, and a tool that was started ends.
- Read-only routes, event streams, logging and formatting have no action.

## Mutants

Beside the operators stand variants named for a plausible bug (marked `Mutant:`): a
lock not taken, a flag not set, a wait left out, an off-by-one. No specification uses
them. `PROJECT.json` pairs each property with one that violates it.

## Not modelled, and why

- Database models, migrations, retrieval and storage: data access and document
  processing, which keep no protocol of their own. They are most of the repository.
- The rest of the chat pipeline (`utils/middleware.py`, `tools/builtin.py`, the routers):
  each request reads, transforms and writes; its state is that of the registries above.
- Authentication: exchanges with external providers. The grading of tests and the
  statistics: computation and subprocess I/O. The user interface. The infrastructure:
  configuration of third-party services.

## Plan

1. `Sessions`: the session and usage pools of `socket/` over Redis, with processes that
   die holding sessions. Property: no session outlives its process and its clean-up.
2. `DesktopStack`: the order in which the desktop app starts and stops the rest.
3. Abstract specifications for `GpuJobs` (a card with one owner, but for the pre-screen's
   window) and for `Timers` (a message delivered at most once, under `OneAtATime`).
