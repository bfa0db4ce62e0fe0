------------------------------ MODULE GpuJobs ------------------------------
(***************************************************************************)
(* The interlocks of the four benchmark routers that share one GPU: Serve, *)
(* Pre-screen, Tune and Tests (routers/benchmarks/), and the teardown that *)
(* stops them when the backend exits (routers/benchmarks/__init__.py).     *)
(*                                                                         *)
(* The backend is one asyncio event loop, so an action is what a handler   *)
(* does between two awaits.  POST /serve/start and POST /prescreen/start   *)
(* are processes with a program counter; every other handler runs without  *)
(* an await between its check and its effect and is one action.            *)
(*                                                                         *)
(* A request's identity is also the identity of the ServeProcess or of the *)
(* Prescreen it creates.                                                   *)
(***************************************************************************)
EXTENDS Naturals, Sequences, FiniteSets

CONSTANTS ServeReqs,   \* POST /serve/start requests
          ScreenReqs,  \* POST /prescreen/start requests
          NoReq        \* nobody: a free lock, a handle that is None

ASSUME NoReqAssumption == NoReq \notin ServeReqs \cup ScreenReqs

VARIABLES
  servePc,       \* where each /serve/start request is suspended
  serveHolder,   \* the request holding serve._start_lock
  serveWaiters,  \* the requests queued on serve._start_lock, first come first
  job,           \* serve._job: the request whose ServeProcess it is
  proc,          \* each ServeProcess's llama-server
  activeRun,     \* some benchmark_run row is open: get_any_active_run's answer
  screenPc,      \* where each /prescreen/start request is suspended
  screenHolder,  \* the request holding prescreen._start_lock
  screenWaiters, \* the requests queued on prescreen._start_lock
  starting,      \* prescreen._starting
  sweep,         \* prescreen._sweep (and _task, assigned with it)
  sweepTask,     \* each Prescreen's task
  cancelled,     \* the Prescreens whose cancel event is set
  tune,          \* tune._task
  tests,         \* tests._task
  phase,         \* up, then the steps of the shutdown
  stopJobs,      \* LLLM_STOP_JOBS_ON_SHUTDOWN
  timedOut,      \* the jobs _stop_job gave up waiting for
  sinceCheck     \* history: the jobs that began after the in-memory checks of
                 \* the last pre-screen request to pass them

serveVars  == <<servePc, serveHolder, serveWaiters, job, proc>>
screenVars == <<screenPc, screenHolder, screenWaiters, starting, sweep,
                sweepTask, cancelled>>
shutVars   == <<phase, stopJobs, timedOut>>
vars == <<serveVars, activeRun, screenVars, tune, tests, shutVars, sinceCheck>>

ServePcs  == {"idle", "queued", "query", "run", "none", "profile",
              "port", "spawn"}
ScreenPcs == {"idle", "queued", "query", "run", "none", "prepare"}
TaskStates == {"idle", "running", "stopping"}
Alive == {"up", "stopping"}

\* ServeProcess.running of the handle in _job.
ServeRunning == job # NoReq /\ proc[job] \in Alive

\* prescreen.running(): also true while prepare() is under way.
ScreenRunning == starting \/ (sweep # NoReq /\ sweepTask[sweep] = "running")

\* tune.running() and tests.active(): a task asked to stop is not done yet.
TuneRunning == tune # "idle"
TestsActive == tests # "idle"

\* get_any_active_run as the database answers it.  The request is resumed
\* later, with what was true then.
Answer == IF activeRun THEN "run" ELSE "none"

\* History: a job of kind k begins while a pre-screen request, past its
\* in-memory checks, awaits get_any_active_run.
Began(k) ==
  sinceCheck' = IF \E q \in ScreenReqs : screenPc[q] \in {"query", "run", "none"}
                THEN sinceCheck \cup {k} ELSE sinceCheck

TypeOK ==
  /\ servePc \in [ServeReqs -> ServePcs]
  /\ serveHolder \in ServeReqs \cup {NoReq}
  /\ serveWaiters \in Seq(ServeReqs)
  /\ job \in ServeReqs \cup {NoReq}
  /\ proc \in [ServeReqs -> {"none", "up", "stopping", "exited"}]
  /\ activeRun \in BOOLEAN
  /\ screenPc \in [ScreenReqs -> ScreenPcs]
  /\ screenHolder \in ScreenReqs \cup {NoReq}
  /\ screenWaiters \in Seq(ScreenReqs)
  /\ starting \in BOOLEAN
  /\ sweep \in ScreenReqs \cup {NoReq}
  /\ sweepTask \in [ScreenReqs -> {"none", "running", "done"}]
  /\ cancelled \subseteq ScreenReqs
  /\ tune \in TaskStates
  /\ tests \in TaskStates
  /\ phase \in {"up", "draining", "tests", "tune", "screen", "serve", "down"}
  /\ stopJobs \in BOOLEAN
  /\ timedOut \subseteq {"tests", "tune", "screen"}
  /\ sinceCheck \subseteq {"serve", "tune", "tests"}

Init ==
  /\ servePc = [r \in ServeReqs |-> "idle"]
  /\ serveHolder = NoReq
  /\ serveWaiters = <<>>
  /\ job = NoReq
  /\ proc = [r \in ServeReqs |-> "none"]
  /\ activeRun \in BOOLEAN
  /\ screenPc = [q \in ScreenReqs |-> "idle"]
  /\ screenHolder = NoReq
  /\ screenWaiters = <<>>
  /\ starting = FALSE
  /\ sweep = NoReq
  /\ sweepTask = [q \in ScreenReqs |-> "none"]
  /\ cancelled = {}
  /\ tune = "idle"
  /\ tests = "idle"
  /\ phase = "up"
  /\ stopJobs \in BOOLEAN
  /\ timedOut = {}
  /\ sinceCheck = {}

-----------------------------------------------------------------------------
(* POST /serve/start *)

\* A request's end: it leaves _start_lock.  The lock is free until the first
\* waiter's task is resumed, and locked() is false meanwhile.
ServeAnswer(r) ==
  /\ servePc' = [servePc EXCEPT ![r] = "idle"]
  /\ serveHolder' = NoReq

\* With the lock taken: the check of _job.running, up to the await of
\* get_any_active_run.  A refusal leaves the lock at once.
ServeEnter(r) ==
  \/ /\ ServeRunning
     /\ ServeAnswer(r)
     /\ UNCHANGED sinceCheck
  \/ /\ ~ServeRunning
     /\ servePc' = [servePc EXCEPT ![r] = "query"]
     /\ serveHolder' = r
     /\ Began("serve")

\* Mutant: /start without _start_lock.
ServeStartNoLock(r) ==
  /\ phase = "up"
  /\ servePc[r] = "idle" /\ job # r /\ proc[r] \notin Alive
  /\ proc' = [proc EXCEPT ![r] = "none"]
  /\ ServeEnter(r)
  /\ UNCHANGED <<serveWaiters, job, activeRun, screenVars, tune, tests, shutVars>>

\* The request arrives.  asyncio.Lock is first come first served: a newcomer
\* takes a free lock only when nobody waits for it.  An identity is free for
\* a new request when nothing of its earlier ServeProcess is left.
ServeStart(r) ==
  /\ phase = "up"
  /\ servePc[r] = "idle" /\ job # r /\ proc[r] \notin Alive
  /\ proc' = [proc EXCEPT ![r] = "none"]
  /\ IF serveHolder = NoReq /\ serveWaiters = <<>>
     THEN ServeEnter(r) /\ UNCHANGED serveWaiters
     ELSE /\ servePc' = [servePc EXCEPT ![r] = "queued"]
          /\ serveWaiters' = Append(serveWaiters, r)
          /\ UNCHANGED <<serveHolder, sinceCheck>>
  /\ UNCHANGED <<job, activeRun, screenVars, tune, tests, shutVars>>

\* The first waiter is resumed with the lock.
ServeWake ==
  /\ serveHolder = NoReq /\ serveWaiters # <<>>
  /\ serveWaiters' = Tail(serveWaiters)
  /\ ServeEnter(Head(serveWaiters))
  /\ UNCHANGED <<job, proc, activeRun, screenVars, tune, tests, shutVars>>

\* The database answers get_any_active_run; the request is not resumed yet.
ServeQuery(r) ==
  /\ servePc[r] = "query"
  /\ servePc' = [servePc EXCEPT ![r] = Answer]
  /\ UNCHANGED <<serveHolder, serveWaiters, job, proc, activeRun, screenVars, tune,
                 tests, shutVars, sinceCheck>>

\* Resumed with the answer: refused by a recorded run or by a pre-screen that
\* runs now, else on to the await of the profile.
ServeReply(r) ==
  /\ servePc[r] \in {"run", "none"}
  /\ IF servePc[r] = "run" \/ ScreenRunning
     THEN ServeAnswer(r)
     ELSE /\ servePc' = [servePc EXCEPT ![r] = "profile"]
          /\ UNCHANGED serveHolder
  /\ UNCHANGED <<serveWaiters, job, proc, activeRun, screenVars, tune,
                 tests, shutVars, sinceCheck>>

\* Mutant: a missing profile is answered with the lock still held.
ServeProfileKeepsLock(r) ==
  /\ servePc[r] = "profile"
  /\ \E pc \in {"idle", "port"} : servePc' = [servePc EXCEPT ![r] = pc]
  /\ UNCHANGED <<serveHolder, serveWaiters, job, proc, activeRun, screenVars, tune,
                 tests, shutVars, sinceCheck>>

\* The profile is missing or does not resolve (404, 400), or the request goes
\* on to the await of _port_answers.
ServeProfile(r) ==
  /\ servePc[r] = "profile"
  /\ \/ ServeAnswer(r)
     \/ /\ servePc' = [servePc EXCEPT ![r] = "port"]
        /\ UNCHANGED serveHolder
  /\ UNCHANGED <<serveWaiters, job, proc, activeRun, screenVars, tune,
                 tests, shutVars, sinceCheck>>

\* Something answers on the port, whoever it is (409), or _job is replaced and
\* the request awaits its start().
ServePort(r) ==
  /\ servePc[r] = "port"
  /\ \/ ServeAnswer(r) /\ UNCHANGED job
     \/ /\ job' = r
        /\ servePc' = [servePc EXCEPT ![r] = "spawn"]
        /\ UNCHANGED serveHolder
  /\ UNCHANGED <<serveWaiters, proc, activeRun, screenVars, tune,
                 tests, shutVars, sinceCheck>>

\* start() fails, with a LauncherError (_job is None again) or otherwise (_job
\* keeps a ServeProcess that never ran), or has spawned the server.
ServeSpawn(r) ==
  /\ servePc[r] = "spawn"
  /\ ServeAnswer(r)
  /\ \/ job' = NoReq /\ UNCHANGED proc
     \/ UNCHANGED <<job, proc>>
     \/ proc' = [proc EXCEPT ![r] = "up"] /\ UNCHANGED job
  /\ UNCHANGED <<serveWaiters, activeRun, screenVars, tune, tests,
                 shutVars, sinceCheck>>

-----------------------------------------------------------------------------
(* The served model: /serve/stop, its exit, and its recorded run. *)

\* POST /serve/stop: SIGTERM, then SIGKILL; 404 unless _job is running.
ServeStop ==
  /\ phase = "up"
  /\ ServeRunning
  /\ proc' = [proc EXCEPT ![job] = "stopping"]
  /\ UNCHANGED <<servePc, serveHolder, serveWaiters, job, activeRun,
                 screenVars, tune, tests, shutVars, sinceCheck>>

\* The server exits: told to, or on its own.
ServerExits(r) ==
  /\ proc[r] \in Alive
  /\ proc' = [proc EXCEPT ![r] = "exited"]
  /\ UNCHANGED <<servePc, serveHolder, serveWaiters, job, activeRun,
                 screenVars, tune, tests, shutVars, sinceCheck>>

\* A recorder opens a run or the last open one is closed: this server's, a
\* tune candidate's, a hand-started one's, one an earlier backend left.  None
\* of them runs in this process.
RecorderStep ==
  /\ activeRun' = ~activeRun
  /\ UNCHANGED <<serveVars, screenVars, tune, tests, shutVars, sinceCheck>>

-----------------------------------------------------------------------------
(* POST /prescreen/start *)

ScreenAnswer(q) ==
  /\ screenPc' = [screenPc EXCEPT ![q] = "idle"]
  /\ screenHolder' = NoReq

\* The checks of _gpu_busy made before its await.
BusyInMemory ==
  \/ ServeRunning
  \/ serveHolder # NoReq
  \/ TuneRunning
  \/ TestsActive

\* With the lock taken: running(), then the in-memory checks, up to the await
\* of get_any_active_run.
ScreenEnter(q) ==
  \/ /\ ScreenRunning \/ BusyInMemory
     /\ ScreenAnswer(q)
     /\ UNCHANGED sinceCheck
  \/ /\ ~ScreenRunning /\ ~BusyInMemory
     /\ screenPc' = [screenPc EXCEPT ![q] = "query"]
     /\ screenHolder' = q
     /\ sinceCheck' = {}

\* The request arrives, and takes or queues for _start_lock.
ScreenStart(q) ==
  /\ phase = "up"
  /\ screenPc[q] = "idle" /\ sweep # q /\ sweepTask[q] # "running"
  /\ sweepTask' = [sweepTask EXCEPT ![q] = "none"]
  /\ cancelled' = cancelled \ {q}
  /\ IF screenHolder = NoReq /\ screenWaiters = <<>>
     THEN ScreenEnter(q) /\ UNCHANGED screenWaiters
     ELSE /\ screenPc' = [screenPc EXCEPT ![q] = "queued"]
          /\ screenWaiters' = Append(screenWaiters, q)
          /\ UNCHANGED <<screenHolder, sinceCheck>>
  /\ UNCHANGED <<serveVars, activeRun, starting, sweep, tune, tests, shutVars>>

ScreenWake ==
  /\ screenHolder = NoReq /\ screenWaiters # <<>>
  /\ screenWaiters' = Tail(screenWaiters)
  /\ ScreenEnter(Head(screenWaiters))
  /\ UNCHANGED <<serveVars, activeRun, starting, sweep, sweepTask,
                 cancelled, tune, tests, shutVars>>

ScreenQuery(q) ==
  /\ screenPc[q] = "query"
  /\ screenPc' = [screenPc EXCEPT ![q] = Answer]
  /\ UNCHANGED <<serveVars, activeRun, screenHolder, screenWaiters, starting, sweep,
                 sweepTask, cancelled, tune, tests, shutVars, sinceCheck>>

\* Mutant: _starting is not set, as before it was introduced.
ScreenReplyNoStarting(q) ==
  /\ screenPc[q] \in {"run", "none"}
  /\ IF screenPc[q] = "run"
     THEN ScreenAnswer(q)
     ELSE /\ screenPc' = [screenPc EXCEPT ![q] = "prepare"]
          /\ UNCHANGED screenHolder
  /\ UNCHANGED <<serveVars, activeRun, screenWaiters, starting, sweep,
                 sweepTask, cancelled, tune, tests, shutVars, sinceCheck>>

\* Resumed with the answer: refused, or _starting and on to prepare().
ScreenReply(q) ==
  /\ screenPc[q] \in {"run", "none"}
  /\ IF screenPc[q] = "run"
     THEN ScreenAnswer(q) /\ UNCHANGED starting
     ELSE /\ screenPc' = [screenPc EXCEPT ![q] = "prepare"]
          /\ starting' = TRUE
          /\ UNCHANGED screenHolder
  /\ UNCHANGED <<serveVars, activeRun, screenWaiters, sweep, sweepTask,
                 cancelled, tune, tests, shutVars, sinceCheck>>

\* prepare() refuses (400), or the sweep's task is created; _starting is reset
\* either way.
ScreenPrepared(q) ==
  /\ screenPc[q] = "prepare"
  /\ starting' = FALSE
  /\ ScreenAnswer(q)
  /\ \/ UNCHANGED <<sweep, sweepTask>>
     \/ sweep' = q /\ sweepTask' = [sweepTask EXCEPT ![q] = "running"]
  /\ UNCHANGED <<serveVars, activeRun, screenWaiters, cancelled, tune,
                 tests, shutVars, sinceCheck>>

\* POST /prescreen/cancel: 404 unless there is a handle and running().
ScreenCancel ==
  /\ phase = "up"
  /\ sweep # NoReq /\ ScreenRunning
  /\ cancelled' = cancelled \cup {sweep}
  /\ UNCHANGED <<serveVars, activeRun, screenPc, screenHolder, screenWaiters,
                 starting, sweep, sweepTask, tune, tests, shutVars,
                 sinceCheck>>

\* The sweep's task ends: finished, failed or cancelled.
SweepEnds(q) ==
  /\ sweepTask[q] = "running"
  /\ sweepTask' = [sweepTask EXCEPT ![q] = "done"]
  /\ UNCHANGED <<serveVars, activeRun, screenPc, screenHolder, screenWaiters,
                 starting, sweep, cancelled, tune, tests, shutVars,
                 sinceCheck>>

-----------------------------------------------------------------------------
(* Tune and Tests: check and create_task without an await between. *)

\* POST /tune/start and /tune/resume.
TuneStart ==
  /\ phase = "up"
  /\ ~TuneRunning /\ ~TestsActive /\ ~ScreenRunning
  /\ tune' = "running"
  /\ Began("tune")
  /\ UNCHANGED <<serveVars, activeRun, screenVars, tests, shutVars>>

\* POST /tune/stop cancels the task, which is done only when it has unwound.
TuneStop ==
  /\ phase = "up"
  /\ TuneRunning
  /\ tune' = "stopping"
  /\ UNCHANGED <<serveVars, activeRun, screenVars, tests, shutVars, sinceCheck>>

TuneEnds ==
  /\ TuneRunning
  /\ tune' = "idle"
  /\ UNCHANGED <<serveVars, activeRun, screenVars, tests, shutVars, sinceCheck>>

\* tests._start: a run, a fetch, a selfcheck or one item.
TestsStart ==
  /\ phase = "up"
  /\ ~TestsActive /\ ~TuneRunning /\ ~ScreenRunning
  /\ tests' = "running"
  /\ Began("tests")
  /\ UNCHANGED <<serveVars, activeRun, screenVars, tune, shutVars>>

\* POST /tests/cancel sets the cooperative flag.
TestsCancel ==
  /\ phase = "up"
  /\ TestsActive
  /\ tests' = "stopping"
  /\ UNCHANGED <<serveVars, activeRun, screenVars, tune, shutVars, sinceCheck>>

TestsEnd ==
  /\ TestsActive
  /\ tests' = "idle"
  /\ UNCHANGED <<serveVars, activeRun, screenVars, tune, shutVars, sinceCheck>>

-----------------------------------------------------------------------------
(* Shutdown: uvicorn drains the open requests, then the lifespan teardown   *)
(* stops the jobs in order.                                                 *)

NoRequestOpen ==
  /\ \A r \in ServeReqs : servePc[r] = "idle"
  /\ \A q \in ScreenReqs : screenPc[q] = "idle"

\* uvicorn stops accepting requests.
BeginShutdown ==
  /\ phase = "up"
  /\ phase' = "draining"
  /\ UNCHANGED <<serveVars, activeRun, screenVars, tune, tests, stopJobs, timedOut,
                 sinceCheck>>

\* --timeout-graceful-shutdown: the requests still open are cancelled.  Each
\* leaves its lock; /prescreen/start resets _starting on the way out.
DrainTimeout ==
  /\ phase = "draining" /\ ~NoRequestOpen
  /\ servePc' = [r \in ServeReqs |-> "idle"]
  /\ serveHolder' = NoReq /\ serveWaiters' = <<>>
  /\ screenPc' = [q \in ScreenReqs |-> "idle"]
  /\ screenHolder' = NoReq /\ screenWaiters' = <<>>
  /\ starting' = FALSE
  /\ UNCHANGED <<job, proc, activeRun, sweep, sweepTask,
                 cancelled, tune, tests, shutVars, sinceCheck>>

\* stop_sweep(): the cooperative cancel of the running sweep.
CancelSweep ==
  cancelled' = IF sweep # NoReq /\ sweepTask[sweep] = "running"
               THEN cancelled \cup {sweep} ELSE cancelled

\* The teardown begins: shutdown() with LLLM_STOP_JOBS_ON_SHUTDOWN, else
\* stop_prescreen().
Drained ==
  /\ phase = "draining" /\ NoRequestOpen
  /\ IF stopJobs
     THEN /\ phase' = "tests"
          /\ tests' = IF TestsActive THEN "stopping" ELSE tests
          /\ UNCHANGED cancelled
     ELSE /\ phase' = "screen"
          /\ CancelSweep
          /\ UNCHANGED tests
  /\ UNCHANGED <<serveVars, activeRun, screenPc, screenHolder, screenWaiters,
                 starting, sweep, sweepTask, tune, stopJobs, timedOut,
                 sinceCheck>>

\* _stop_job goes on when the job is done, or after _JOB_STOP_TIMEOUT.
StopJob(k, running) == timedOut' = IF running THEN timedOut \cup {k} ELSE timedOut

TestsStopped ==
  /\ phase = "tests"
  /\ StopJob("tests", TestsActive)
  /\ phase' = "tune"
  /\ tune' = IF TuneRunning THEN "stopping" ELSE tune
  /\ UNCHANGED <<serveVars, activeRun, screenVars, tests, stopJobs, sinceCheck>>

\* Mutant: the sweep is cancelled and not waited for.
TuneStoppedNoWait ==
  /\ phase = "tune"
  /\ phase' = "screen"
  /\ CancelSweep
  /\ UNCHANGED <<serveVars, activeRun, screenPc, screenHolder, screenWaiters,
                 starting, sweep, sweepTask, tune, tests, stopJobs,
                 timedOut, sinceCheck>>

TuneStopped ==
  /\ phase = "tune"
  /\ StopJob("tune", TuneRunning)
  /\ phase' = "screen"
  /\ CancelSweep
  /\ UNCHANGED <<serveVars, activeRun, screenPc, screenHolder, screenWaiters,
                 starting, sweep, sweepTask, tune, tests, stopJobs,
                 sinceCheck>>

\* Mutant: the teardown waits for the pre-screen without a timeout.
ScreenStoppedNoTimeout ==
  /\ phase = "screen" /\ ~ScreenRunning
  /\ phase' = IF stopJobs THEN "serve" ELSE "down"
  /\ proc' = IF stopJobs /\ ServeRunning THEN [proc EXCEPT ![job] = "stopping"] ELSE proc
  /\ UNCHANGED <<servePc, serveHolder, serveWaiters, job, activeRun, screenVars,
                 tune, tests, stopJobs, timedOut, sinceCheck>>

\* After the pre-screen: serve.shutdown() stops a running server, when asked to.
ScreenStopped ==
  /\ phase = "screen"
  /\ StopJob("screen", ScreenRunning)
  /\ IF stopJobs
     THEN /\ phase' = "serve"
          /\ proc' = IF ServeRunning THEN [proc EXCEPT ![job] = "stopping"] ELSE proc
     ELSE phase' = "down" /\ UNCHANGED proc
  /\ UNCHANGED <<servePc, serveHolder, serveWaiters, job, activeRun,
                 screenVars, tune, tests, stopJobs, sinceCheck>>

ServeStopped ==
  /\ phase = "serve" /\ ~ServeRunning
  /\ phase' = "down"
  /\ UNCHANGED <<serveVars, activeRun, screenVars, tune, tests, stopJobs, timedOut,
                 sinceCheck>>

-----------------------------------------------------------------------------
ServeStep(r) == \/ ServeQuery(r) \/ ServeReply(r) \/ ServeProfile(r)
                \/ ServePort(r) \/ ServeSpawn(r)

ScreenStep(q) == ScreenQuery(q) \/ ScreenReply(q) \/ ScreenPrepared(q)

Shutdown == \/ Drained \/ TestsStopped \/ TuneStopped \/ ScreenStopped
            \/ ServeStopped

Next ==
  \/ \E r \in ServeReqs : \/ ServeStart(r) \/ ServeStep(r) \/ ServerExits(r)
  \/ ServeWake \/ ServeStop \/ RecorderStep
  \/ \E q \in ScreenReqs : ScreenStart(q) \/ ScreenStep(q) \/ SweepEnds(q)
  \/ ScreenWake \/ ScreenCancel
  \/ TuneStart \/ TuneStop \/ TuneEnds
  \/ TestsStart \/ TestsCancel \/ TestsEnd
  \/ BeginShutdown \/ DrainTimeout \/ Shutdown

\* The event loop resumes what can be resumed, the database answers, every
\* wait of the teardown is bounded, and a server told to stop is killed in the
\* end.  No request, job or recorder is obliged to do anything.
Fairness ==
  /\ \A r \in ServeReqs : WF_vars(ServeStep(r))
  /\ \A q \in ScreenReqs : WF_vars(ScreenStep(q))
  /\ WF_vars(ServeWake) /\ WF_vars(ScreenWake)
  /\ WF_vars(Shutdown)
  /\ \A r \in ServeReqs : WF_vars(proc[r] = "stopping" /\ ServerExits(r))

Spec == Init /\ [][Next]_vars
FairSpec == Spec /\ Fairness

-----------------------------------------------------------------------------
(* Properties *)

\* Serve is single-flight (serve.py's docstring): a live llama-server started
\* here is always the one _job names, so /stop and the teardown can reach it
\* and there are never two, whatever /start requests interleave at its awaits.
ServeSingleFlight == \A r \in ServeReqs : proc[r] \in Alive => job = r

\* One pre-screen at a time: a sweep's task is the one the router's handle
\* names, and none runs while another request is in prepare().
ScreenSingleFlight ==
  \A q \in ScreenReqs :
     sweepTask[q] = "running" => sweep = q /\ ~starting

\* A Tests job and a tune sweep never run together, a task asked to stop and
\* not yet unwound included (tests._start's docstring).
TestsTuneExclusive == ~(TuneRunning /\ TestsActive)

\* The routers' exclusions that hold without a window: one served model, one
\* pre-screen, and never Tests with Tune, whatever start, stop and cancel
\* requests meet at the awaits of start_serve and start_prescreen.
JobsExclude == ServeSingleFlight /\ ScreenSingleFlight /\ TestsTuneExclusive

\* A pre-screen overlaps another job only if that job began while the
\* pre-screen's own request awaited get_any_active_run, between its in-memory
\* checks and _starting: every other interleaving of the four routers is
\* refused by one side or the other.
OverlapOnlySinceCheck ==
  ScreenRunning => /\ ServeRunning => "serve" \in sinceCheck
                   /\ TuneRunning => "tune" \in sinceCheck
                   /\ TestsActive => "tests" \in sinceCheck

\* prescreen.py's docstring and docs/guides/benchmarks.md: a pre-screen never
\* runs alongside a served model, a tune sweep or a Tests job.
PrescreenAlone == ScreenRunning => ~ServeRunning /\ ~TuneRunning /\ ~TestsActive

\* docs/guides/benchmarks.md: Cancel stops the pre-screen.  An accepted
\* /cancel sets the cancel event of a sweep that has not ended.
CancelReachesSweep ==
  [][\A q \in cancelled' \ cancelled : sweepTask[q] = "running"]_vars

\* The teardown never goes past a job that still runs, unless it waited
\* _JOB_STOP_TIMEOUT for it: the served model is stopped after the jobs that
\* use it, and the backend is down with no pre-screen left and, with
\* LLLM_STOP_JOBS_ON_SHUTDOWN, with nothing left at all.
TeardownStopsJobs ==
  /\ phase \in {"serve", "down"} => (ScreenRunning => "screen" \in timedOut)
  /\ phase \in {"serve", "down"} /\ stopJobs =>
       /\ TestsActive => "tests" \in timedOut
       /\ TuneRunning => "tune" \in timedOut
  /\ phase = "down" /\ stopJobs => \A r \in ServeReqs : proc[r] \notin Alive

\* No /serve/start and no /prescreen/start hangs: whatever refuses or fails on
\* its way, prepare() included, each request is answered and the _start_lock is
\* passed on to the next.
StartsAnswered ==
  /\ \A r \in ServeReqs : servePc[r] # "idle" ~> servePc[r] = "idle"
  /\ \A q \in ScreenReqs : screenPc[q] # "idle" ~> screenPc[q] = "idle"

\* A shutdown once begun ends, even if a job ignores its cancellation.
ShutdownEnds == phase = "draining" ~> phase = "down"
=============================================================================
