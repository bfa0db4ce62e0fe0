---------------------------- MODULE ServeProcess ----------------------------
(***************************************************************************)
(* One ServeProcess (benchmarks/serving/launcher.py): a llama-server, the  *)
(* background task that starts its telemetry recorder, the recorder itself *)
(* (benchmarks/serving/telemetry_recorder.py, a process of its own) and    *)
(* the temporary log the one writes and the other reads.                   *)
(*                                                                         *)
(* stop() runs concurrently with itself: _drain_log calls it when the      *)
(* server's output ends, POST /serve/stop and the backend's shutdown call  *)
(* it while the server is up (routers/benchmarks/serve.py).  An action of  *)
(* the backend is what runs between two awaits.  The server, the recorder  *)
(* and a foreign process that wants the same port run in parallel with it, *)
(* and outlive it when it crashes (start_new_session).  POST /live/kill    *)
(* (routers/benchmarks/live.py), to this backend or to the next one, goes  *)
(* by the run's row, whose pid is the recorder's.                          *)
(***************************************************************************)
EXTENDS Naturals

CONSTANTS Requests,   \* calls of stop() made by /serve/stop and by shutdown()
          Drain,      \* the call of stop() made by _drain_log
          MissLimit   \* telemetry_recorder.MISS_LIMIT

ASSUME ProcessAssumption == Drain \notin Requests /\ MissLimit \in Nat \ {0}

VARIABLES
  backend,   \* the backend process is alive
  start,     \* where start() is
  server,    \* llama-server
  port,      \* who listens on the serving port
  log,       \* the server-log temporary file
  tel,       \* _telemetry_task
  handle,    \* telemetry_proc is assigned
  stopPc,    \* where each call of stop() is suspended
  expired,   \* the calls whose wait for _telemetry_task timed out
  rec,       \* the recorder process
  recStop,   \* the recorder's _stop flag
  misses,    \* the recorder's consecutive failed probes of the port
  row,       \* the run's benchmark_run row
  kill,      \* where /live/kill is
  foreign    \* history: a sample of somebody else's server was stored

Stops == Requests \cup {Drain}
backVars == <<backend, start, log, tel, handle, stopPc, expired>>
recVars  == <<rec, recStop, misses, row, kill, foreign>>
vars == <<backVars, server, port, recVars>>

TelOpen  == {"building", "spawning", "spawned", "cancelling"}
RecAlive == {"booting", "waiting", "ready", "recording", "finishing"}

TypeOK ==
  /\ backend \in BOOLEAN
  /\ start \in {"no", "logged", "yes", "failed"}
  /\ server \in {"none", "up", "exited"}
  /\ port \in {"free", "server", "other"}
  /\ log \in {"none", "open", "gone"}
  /\ tel \in TelOpen \cup {"none", "done", "cancelled"}
  /\ handle \in BOOLEAN
  /\ stopPc \in [Stops -> {"idle", "reading", "server", "tel", "rec",
                           "done", "raised"}]
  /\ expired \subseteq Stops
  /\ rec \in RecAlive \cup {"none", "dead"}
  /\ recStop \in BOOLEAN
  /\ misses \in 0..MissLimit
  /\ row \in {"none", "open", "clean", "killed"}
  /\ kill \in {"idle", "found", "interrupted", "terminated", "closing", "done"}
  /\ foreign \in BOOLEAN

Init ==
  /\ backend = TRUE
  /\ start = "no"
  /\ server = "none"
  /\ port \in {"free", "other"}
  /\ log = "none"
  /\ tel = "none"
  /\ handle = FALSE
  /\ stopPc = [s \in Stops |-> "idle"]
  /\ expired = {}
  /\ rec = "none"
  /\ recStop = FALSE
  /\ misses = 0
  /\ row = "none" /\ kill = "idle"
  /\ foreign = FALSE

-----------------------------------------------------------------------------
(* start() *)

\* The binary, the model, or the port (_port_answers) is not usable.
StartRefused ==
  /\ backend /\ start = "no"
  /\ start' = "failed"
  /\ UNCHANGED <<backend, log, tel, handle, stopPc, expired, server, port, recVars>>

\* _open_server_log, in a thread.
OpenLog ==
  /\ backend /\ start = "no" /\ port = "free"
  /\ start' = "logged"
  /\ log' = "open"
  /\ UNCHANGED <<backend, tel, handle, stopPc, expired, server, port, recVars>>

\* create_subprocess_exec raises OSError.
SpawnFails ==
  /\ backend /\ start = "logged"
  /\ start' = "failed"
  /\ log' = "gone"
  /\ UNCHANGED <<backend, tel, handle, stopPc, expired, server, port, recVars>>

\* The server runs; the telemetry task and _drain_log are created before the
\* next await.
Spawn ==
  /\ backend /\ start = "logged"
  /\ start' = "yes"
  /\ server' = "up"
  /\ tel' = "building"
  /\ stopPc' = [stopPc EXCEPT ![Drain] = "reading"]
  /\ UNCHANGED <<backend, log, handle, expired, port, recVars>>

-----------------------------------------------------------------------------
(* llama-server and the port: external *)

ServerGone ==
  /\ server' = "exited"
  /\ port' = IF port = "server" THEN "free" ELSE port

ServerBinds ==
  /\ server = "up" /\ port = "free"
  /\ port' = "server"
  /\ UNCHANGED <<server, backVars, recVars>>

\* On its own, on SIGTERM, or because the port is taken.
ServerExits ==
  /\ server = "up"
  /\ ServerGone
  /\ UNCHANGED <<backVars, recVars>>

OtherBinds ==
  /\ port = "free"
  /\ port' = "other"
  /\ UNCHANGED <<server, backVars, recVars>>

OtherLeaves ==
  /\ port = "other"
  /\ port' = "free"
  /\ UNCHANGED <<server, backVars, recVars>>

-----------------------------------------------------------------------------
(* _start_telemetry *)

\* No DATABASE_URL, or an exception: reported, never raised.
TelFails ==
  /\ backend /\ tel \in {"building", "spawning"}
  /\ tel' = "done"
  /\ UNCHANGED <<backend, start, log, handle, stopPc, expired, server, port, recVars>>

\* llama_server_build answers: up to 30 seconds.
TelBuilt ==
  /\ backend /\ tel = "building"
  /\ tel' = "spawning"
  /\ UNCHANGED <<backend, start, log, handle, stopPc, expired, server, port, recVars>>

\* The recorder's process exists before create_subprocess_exec returns it.
TelForks ==
  /\ backend /\ tel = "spawning"
  /\ tel' = "spawned"
  /\ rec' = "booting"
  /\ UNCHANGED <<backend, start, log, handle, stopPc, expired, server, port,
                 recStop, misses, row, kill, foreign>>

TelAssigned ==
  /\ backend /\ tel = "spawned"
  /\ tel' = "done"
  /\ handle' = TRUE
  /\ UNCHANGED <<backend, start, log, stopPc, expired, server, port, recVars>>

\* The cancelled task unwinds.  asyncio closes the transport of a process it
\* had not returned yet, which kills it, and waits for it.
TelCancelled ==
  /\ backend /\ tel = "cancelling"
  /\ tel' = "cancelled"
  /\ rec' = IF rec \in RecAlive THEN "dead" ELSE rec
  /\ UNCHANGED <<backend, start, log, handle, stopPc, expired, server, port,
                 recStop, misses, row, kill, foreign>>

-----------------------------------------------------------------------------
(* stop() *)

Goto(s, at) == stopPc' = [stopPc EXCEPT ![s] = at]

\* /serve/stop or shutdown(): only while the server runs.  SIGTERM is sent.
StopBegins(s) ==
  /\ backend /\ s \in Requests /\ stopPc[s] = "idle" /\ server = "up"
  /\ Goto(s, "server")
  /\ UNCHANGED <<backend, start, log, tel, handle, expired, server, port, recVars>>

\* Mutant: _drain_log ends without stop().
DrainEndsNoStop ==
  /\ backend /\ stopPc[Drain] = "reading" /\ server = "exited"
  /\ Goto(Drain, "idle")
  /\ UNCHANGED <<backend, start, log, tel, handle, expired, server, port, recVars>>

\* The server's output ended: _drain_log calls stop().
DrainEnds ==
  /\ backend /\ stopPc[Drain] = "reading" /\ server = "exited"
  /\ Goto(Drain, "server")
  /\ UNCHANGED <<backend, start, log, tel, handle, expired, server, port, recVars>>

\* The grace elapsed: SIGKILL.
ServerGrace(s) ==
  /\ backend /\ stopPc[s] = "server" /\ server = "up"
  /\ ServerGone
  /\ UNCHANGED <<backVars, recVars>>

\* server_proc.wait() returned.
ServerWaited(s) ==
  /\ backend /\ stopPc[s] = "server" /\ server = "exited"
  /\ Goto(s, "tel")
  /\ UNCHANGED <<backend, start, log, tel, handle, expired, server, port, recVars>>

\* wait_for gives up on the telemetry task and cancels it.
TelTimeout(s) ==
  /\ backend /\ stopPc[s] = "tel" /\ s \notin expired /\ tel \in TelOpen
  /\ tel' = "cancelling"
  /\ expired' = expired \cup {s}
  /\ UNCHANGED <<backend, start, log, handle, stopPc, server, port, recVars>>

\* SIGTERM to the recorder: death before main() installs its handler, _stop
\* after that.
SignalRecorder ==
  /\ rec' = IF rec = "booting" THEN "dead" ELSE rec
  /\ recStop' = (rec \in RecAlive \ {"booting"} \/ recStop)

\* Past the telemetry task: stop the recorder if there is one, else clean up.
StopRecorder(s) ==
  \/ /\ handle
     /\ SignalRecorder
     /\ Goto(s, "rec")
     /\ UNCHANGED log
  \/ /\ ~handle
     /\ Goto(s, "done")
     /\ log' = "gone"
     /\ UNCHANGED <<rec, recStop>>

\* Mutant: stop() does not wait for a telemetry start in flight.
TelWaitedNoWait(s) ==
  /\ backend /\ stopPc[s] = "tel"
  /\ StopRecorder(s)
  /\ UNCHANGED <<backend, start, tel, handle, expired, server, port, misses, row, kill, foreign>>

\* Mutant: the log is deleted when the recorder is told to stop.
TelWaitedUnlinks(s) ==
  /\ backend /\ stopPc[s] = "tel" /\ tel \in {"done", "cancelled"}
  /\ IF handle THEN SignalRecorder ELSE UNCHANGED <<rec, recStop>>
  /\ Goto(s, IF handle THEN "rec" ELSE "done")
  /\ log' = "gone"
  /\ UNCHANGED <<backend, start, tel, handle, expired, server, port, misses, row, kill, foreign>>

\* The wait for the telemetry task ends: it finished, or this call's own
\* wait_for cancelled it (a TimeoutError, suppressed).
TelWaited(s) ==
  /\ backend /\ stopPc[s] = "tel"
  /\ tel = "done" \/ (tel = "cancelled" /\ s \in expired)
  /\ StopRecorder(s)
  /\ UNCHANGED <<backend, start, tel, handle, expired, server, port, misses, row, kill, foreign>>

\* Another call's wait_for cancelled it: CancelledError, which
\* suppress(Exception) lets through.
TelRaises(s) ==
  /\ backend /\ stopPc[s] = "tel" /\ tel = "cancelled" /\ s \notin expired
  /\ Goto(s, "raised")
  /\ UNCHANGED <<backend, start, log, tel, handle, expired, server, port, recVars>>

\* The grace elapsed: SIGKILL.
RecGrace(s) ==
  /\ backend /\ stopPc[s] = "rec" /\ rec \in RecAlive
  /\ rec' = "dead"
  /\ UNCHANGED <<backVars, server, port, recStop, misses, row, kill, foreign>>

\* telemetry_proc.wait() returned: _close_log(unlink=True).
RecWaited(s) ==
  /\ backend /\ stopPc[s] = "rec" /\ rec \notin RecAlive
  /\ log' = "gone"
  /\ Goto(s, "done")
  /\ UNCHANGED <<backend, start, tel, handle, expired, server, port, recVars>>

-----------------------------------------------------------------------------
(* The recorder: record() *)

RecGoto(at) ==
  /\ rec' = at
  /\ UNCHANGED <<backVars, server, port, recStop, kill>>

RecBoots ==
  /\ rec = "booting"
  /\ RecGoto("waiting")
  /\ UNCHANGED <<misses, row, foreign>>

\* server_ready: the server itself holds the port.
RecSeesServer ==
  /\ rec = "waiting" /\ port = "server"
  /\ RecGoto("ready")
  /\ UNCHANGED <<misses, row, foreign>>

\* Told to stop, the server gone, or --wait seconds elapsed.
RecGivesUp ==
  /\ rec = "waiting" /\ port # "server"
  /\ RecGoto("dead")
  /\ UNCHANGED <<misses, row, foreign>>

RecOpens ==
  /\ rec = "ready"
  /\ RecGoto("recording")
  /\ row' = "open"
  /\ UNCHANGED <<misses, foreign>>

\* The loop finds the port open, whoever holds it, and stores a sample.
RecSamples ==
  /\ rec = "recording" /\ ~recStop /\ port # "free"
  /\ RecGoto("recording")
  /\ misses' = 0
  /\ foreign' = (foreign \/ port = "other")
  /\ UNCHANGED row

\* Mutant: a failed probe is not counted.
RecMissesUncounted ==
  /\ rec = "recording" /\ ~recStop /\ port = "free"
  /\ misses' = 1
  /\ RecGoto(IF misses' >= MissLimit THEN "finishing" ELSE "recording")
  /\ UNCHANGED <<row, foreign>>

RecMisses ==
  /\ rec = "recording" /\ ~recStop /\ port = "free"
  /\ misses' = misses + 1
  /\ RecGoto(IF misses' >= MissLimit THEN "finishing" ELSE "recording")
  /\ UNCHANGED <<row, foreign>>

RecToldToStop ==
  /\ rec = "recording" /\ recStop
  /\ RecGoto("finishing")
  /\ UNCHANGED <<misses, row, foreign>>

\* finish(): reads the log, closes the run.
RecFinishes ==
  /\ rec = "finishing"
  /\ RecGoto("dead")
  /\ row' = "clean"
  /\ UNCHANGED <<misses, foreign>>

\* An exception, of the database say.  One in the loop still runs finish().
RecFails ==
  /\ rec \in RecAlive
  /\ RecGoto(IF rec = "recording" THEN "finishing" ELSE "dead")
  /\ UNCHANGED <<misses, row, foreign>>

-----------------------------------------------------------------------------
(* POST /live/kill *)

\* get_any_active_run finds the run's row; without one the answer is a 404.
KillFinds ==
  /\ kill = "idle" /\ row = "open"
  /\ kill' = "found"
  /\ UNCHANGED <<backVars, server, port, rec, recStop, misses, row, foreign>>

\* Mutant: kill_pgid ends with the SIGTERM.
KillSignalsTwice ==
  /\ kill \in {"found", "interrupted", "terminated"}
  /\ kill' = IF rec \notin RecAlive \/ kill # "found" THEN "closing" ELSE "interrupted"
  /\ SignalRecorder
  /\ UNCHANGED <<backVars, server, port, misses, row, foreign>>

\* os.getpgid and kill_pgid: SIGINT, SIGTERM and SIGKILL to the recorder's
\* group, with a pause after each, until there is no such group.
KillSignals ==
  /\ kill \in {"found", "interrupted", "terminated"}
  /\ kill' = IF rec \notin RecAlive \/ kill = "terminated" THEN "closing"
             ELSE IF kill = "found" THEN "interrupted" ELSE "terminated"
  /\ IF kill = "terminated" THEN rec' = "dead" /\ UNCHANGED recStop ELSE SignalRecorder
  /\ UNCHANGED <<backVars, server, port, misses, row, foreign>>

\* close_run leaves a row alone that the recorder has closed.
KillCloses ==
  /\ kill = "closing"
  /\ kill' = "done"
  /\ row' = IF row = "open" THEN "killed" ELSE row
  /\ UNCHANGED <<backVars, server, port, rec, recStop, misses, foreign>>

-----------------------------------------------------------------------------
\* A /live/kill under way ends with the backend.
BackendCrashes ==
  /\ backend
  /\ backend' = FALSE
  /\ kill' = IF kill = "done" THEN kill ELSE "idle"
  /\ UNCHANGED <<start, log, tel, handle, stopPc, expired, server, port, rec, recStop, misses, row, foreign>>

\* Nothing is left to do: the process was never started, or is cleaned up.
Done ==
  /\ \/ ~backend \/ start = "failed"
     \/ log = "gone" /\ stopPc[Drain] \in {"done", "raised"}
  /\ rec \notin RecAlive
  /\ UNCHANGED vars

StartNext == StartRefused \/ OpenLog \/ SpawnFails \/ Spawn
PortNext  == ServerBinds \/ ServerExits \/ OtherBinds \/ OtherLeaves
TelNext   == TelFails \/ TelBuilt \/ TelForks \/ TelAssigned \/ TelCancelled
StopNext(s) ==
  \/ ServerGrace(s) \/ ServerWaited(s)
  \/ TelTimeout(s) \/ TelWaited(s) \/ TelRaises(s)
  \/ RecGrace(s) \/ RecWaited(s)
RecNext ==
  \/ RecBoots \/ RecSeesServer \/ RecGivesUp \/ RecOpens \/ RecSamples
  \/ RecMisses \/ RecToldToStop \/ RecFinishes
KillNext == KillFinds \/ KillSignals \/ KillCloses

Next ==
  \/ StartNext \/ PortNext \/ TelNext \/ RecNext \/ RecFails
  \/ KillNext \/ DrainEnds \/ BackendCrashes \/ Done
  \/ \E s \in Requests : StopBegins(s)
  \/ \E s \in Stops : StopNext(s)

Spec == Init /\ [][Next]_vars

\* The event loop resumes what is ready and fires the timeouts; the recorder
\* keeps running.  Nothing makes the server exit or the port free.
FairSpec ==
  /\ Spec
  /\ WF_vars(TelNext) /\ WF_vars(DrainEnds) /\ WF_vars(RecNext)
  /\ \A s \in Stops : WF_vars(StopNext(s))

-----------------------------------------------------------------------------
(* Properties *)

\* The log is never deleted while a recorder that will still read it lives
\* (launcher.py's ServeProcess docstring), whichever of the concurrent stops
\* deletes it and however far the recorder's start has come.
LogOutlivesReader == log = "gone" => rec \notin RecAlive

\* A stop() that returned left nothing behind: no server, no recorder (not
\* even one whose start was in flight when the stop began), no log.
StopLeavesNothing ==
  \A s \in Stops : stopPc[s] = "done" =>
    /\ server = "exited"
    /\ rec \notin RecAlive
    /\ tel \notin TelOpen
    /\ log = "gone"

\* stop() tells the recorder to stop only once the server has exited, so
\* that it has seen the server's last state (stop()'s docstring).
RecorderToldLast == recStop /\ backend /\ kill \in {"idle", "found"} => server = "exited"

\* A /live/kill that has answered left no recorder and no open run, whatever
\* stop(), a crash or the recorder's own end did meanwhile, so that
\* get_any_active_run lets the next start through.
KilledIsOver == kill = "done" => row # "open" /\ rec \notin RecAlive

\* However the server ended, also with stops in each other's way, the log is
\* removed unless the backend itself crashes.
CleanupHappens == server = "exited" ~> (log = "gone" \/ ~backend)

\* A recorder ends once its server and every other listener are gone, also
\* when no backend is left to tell it.
RecorderEnds ==
  <>[](server = "exited" /\ port = "free") => <>[](rec \notin RecAlive)

\* serve.py: "ServeProcess.stop() is idempotent, so a concurrent /stop is
\* fine".  Violated: the first call to time out on the telemetry task cancels
\* it, and the CancelledError reaches the other one.
ConcurrentStopIsFine == \A s \in Stops : stopPc[s] # "raised"

\* telemetry_recorder.py: telemetry from after the server exited is never
\* attributed to the run.  Violated: the loop asks only whether the port is
\* open, so a server that takes the port within the misses is recorded.
NothingAfterExit == ~foreign

\* live.py: /live/kill works when a crash orphans the llama-server/recorder
\* pair.  Violated: the pid on the row is the recorder's, the server has a
\* group of its own, and runs on with its row closed.
KillStopsServer == kill = "done" => server # "up"
=============================================================================
