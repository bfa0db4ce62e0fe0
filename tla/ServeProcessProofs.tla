------------------------- MODULE ServeProcessProofs -------------------------
(***************************************************************************)
(* The safety properties of ServeProcess for any number of concurrent      *)
(* stops.  None is inductive: what a returned stop() leaves behind depends *)
(* on where the telemetry task was when the stop passed it (TaskInv), and  *)
(* on the order of the waits in stop() (StopInv).                          *)
(***************************************************************************)
EXTENDS ServeProcess, TLAPS

\* Before a successful start() nothing exists, and after it the server does.
StartInv ==
  /\ start # "yes" => /\ server = "none" /\ tel = "none"
                      /\ \A s \in Stops : stopPc[s] = "idle"
  /\ start = "yes" => server # "none"
  /\ start \in {"no", "logged"} => log # "gone"

\* The telemetry task and the recorder: a live recorder is either still in
\* the task's hands or in telemetry_proc, so that a stop() past the task
\* finds every recorder through the handle.
TaskInv ==
  /\ handle => tel = "done"
  /\ tel \in {"none", "building", "spawning"} => rec = "none"
  /\ (tel = "done" /\ rec \in RecAlive) => handle
  /\ tel = "cancelled" => rec \notin RecAlive
  /\ RecorderToldLast

\* Where a stop() is tells what it has waited for.
StopInv ==
  \A s \in Stops :
    /\ stopPc[s] \in {"tel", "rec", "done", "raised"} => server = "exited"
    /\ stopPc[s] = "rec" => handle
    /\ stopPc[s] = "done" => log = "gone"

\* The log goes last.
LogInv ==
  log = "gone" => \/ start = "failed"
                  \/ /\ server = "exited" /\ tel \in {"done", "cancelled"}
                     /\ rec \notin RecAlive

\* A recorder still in its loop has not reached the limit.
MissInv == rec \notin {"finishing", "dead"} => misses < MissLimit

\* A run has a row once its recorder is past its wait; /live/kill closes it
\* when the recorder is dead, and a dead recorder stays dead.
KillInv ==
  /\ row # "none" => rec \in {"recording", "finishing", "dead"}
  /\ kill # "idle" => row # "none"
  /\ kill \in {"closing", "done"} => rec = "dead"
  /\ KilledIsOver

IndInv == TypeOK /\ MissInv /\ StartInv /\ TaskInv /\ StopInv /\ LogInv /\ KillInv

\* The invariant holds initially: nothing exists yet.
LEMMA InitInv == Init => IndInv
<1> SUFFICES ASSUME Init PROVE IndInv OBVIOUS
<1>1. backend \in BOOLEAN /\ handle \in BOOLEAN /\ recStop \in BOOLEAN /\ foreign \in BOOLEAN
  BY DEF Init
<1> QED
  BY <1>1, ProcessAssumption DEF Init, IndInv, TypeOK, MissInv, StartInv, TaskInv, StopInv, LogInv, KillInv, RecorderToldLast, KilledIsOver, TelOpen, RecAlive

\* start(), the server and the port, and the crash keep the invariant.
LEMMA OutsideStep ==
  ASSUME IndInv, StartNext \/ PortNext \/ BackendCrashes \/ Done
  PROVE  IndInv'
<1> USE DEF IndInv, TypeOK, MissInv, StartInv, TaskInv, StopInv, LogInv, KillInv, RecorderToldLast, KilledIsOver, TelOpen, RecAlive, backVars, recVars, vars, Stops
<1>1. CASE StartRefused BY <1>1 DEF StartRefused
<1>2. CASE OpenLog BY <1>2 DEF OpenLog
<1>3. CASE SpawnFails BY <1>3 DEF SpawnFails
<1>4. CASE Spawn BY <1>4, ProcessAssumption DEF Spawn
<1>5. CASE ServerBinds BY <1>5 DEF ServerBinds
<1>6. CASE ServerExits BY <1>6 DEF ServerExits, ServerGone
<1>7. CASE OtherBinds BY <1>7 DEF OtherBinds
<1>8. CASE OtherLeaves BY <1>8 DEF OtherLeaves
<1>9. CASE BackendCrashes
  <2>1. backend' \in BOOLEAN BY <1>9 DEF BackendCrashes
  <2> QED BY <1>9, <2>1 DEF BackendCrashes
<1>10. CASE Done BY <1>10 DEF Done
<1> QED BY <1>1, <1>2, <1>3, <1>4, <1>5, <1>6, <1>7, <1>8, <1>9, <1>10
        DEF StartNext, PortNext

\* The telemetry task keeps the invariant: it hands the recorder over to
\* telemetry_proc, or kills it.
LEMMA TelStep ==
  ASSUME IndInv, TelNext
  PROVE  IndInv'
<1> USE DEF IndInv, TypeOK, MissInv, StartInv, TaskInv, StopInv, LogInv, KillInv, RecorderToldLast, KilledIsOver, TelOpen, RecAlive, recVars
<1>1. CASE TelFails BY <1>1 DEF TelFails
<1>2. CASE TelBuilt BY <1>2 DEF TelBuilt
<1>3. CASE TelForks BY <1>3 DEF TelForks
<1>4. CASE TelAssigned
  <2>1. handle' \in BOOLEAN BY <1>4 DEF TelAssigned
  <2> QED BY <1>4, <2>1 DEF TelAssigned
<1>5. CASE TelCancelled BY <1>5 DEF TelCancelled
<1> QED BY <1>1, <1>2, <1>3, <1>4, <1>5 DEF TelNext

\* The recorder keeps the invariant: alive or dead, it changes nothing of the
\* backend's.
LEMMA RecStep ==
  ASSUME IndInv, RecNext \/ RecFails
  PROVE  IndInv'
<1> USE DEF IndInv, TypeOK, MissInv, StartInv, TaskInv, StopInv, LogInv, KillInv, RecorderToldLast, KilledIsOver, TelOpen, RecAlive, backVars, RecGoto
<1>1. CASE RecBoots BY <1>1 DEF RecBoots
<1>2. CASE RecSeesServer BY <1>2 DEF RecSeesServer
<1>3. CASE RecGivesUp BY <1>3 DEF RecGivesUp
<1>4. CASE RecOpens BY <1>4 DEF RecOpens
<1>5. CASE RecSamples
  <2>1. misses' \in 0..MissLimit BY <1>5, ProcessAssumption DEF RecSamples
  <2>2. foreign' \in BOOLEAN BY <1>5 DEF RecSamples
  <2>3. rec' = rec /\ MissInv' BY <1>5, ProcessAssumption DEF RecSamples
  <2> QED BY <1>5, <2>1, <2>2, <2>3 DEF RecSamples
<1>6. CASE RecMisses
  <2>1. misses < MissLimit
    BY <1>6 DEF RecMisses, MissInv
  <2> QED BY <1>6, <2>1, ProcessAssumption DEF RecMisses
<1>7. CASE RecToldToStop BY <1>7 DEF RecToldToStop
<1>8. CASE RecFinishes BY <1>8 DEF RecFinishes
<1>9. CASE RecFails BY <1>9 DEF RecFails
<1> QED BY <1>1, <1>2, <1>3, <1>4, <1>5, <1>6, <1>7, <1>8, <1>9 DEF RecNext

\* A step of a stop() keeps the invariant: it goes on only past what it
\* waited for, and deletes the log only when no recorder is left.
LEMMA StopStep ==
  ASSUME IndInv,
         \/ DrainEnds
         \/ \E s \in Requests : StopBegins(s)
         \/ \E s \in Stops : StopNext(s)
  PROVE  IndInv'
<1> USE DEF IndInv, TypeOK, MissInv, StartInv, TaskInv, StopInv, LogInv, KillInv, RecorderToldLast, KilledIsOver, TelOpen, RecAlive, backVars, recVars, Goto
<1>1. CASE DrainEnds BY <1>1 DEF DrainEnds, Stops
<1>2. ASSUME NEW s \in Requests, StopBegins(s) PROVE IndInv'
  BY <1>2 DEF StopBegins, Stops
<1>3. ASSUME NEW s \in Stops, StopNext(s) PROVE IndInv'
  <2>1. CASE ServerGrace(s) BY <2>1 DEF ServerGrace, ServerGone
  <2>2. CASE ServerWaited(s) BY <2>2 DEF ServerWaited
  <2>3. CASE TelTimeout(s) BY <2>3 DEF TelTimeout
  <2>4. CASE TelWaited(s)
    <3>1. CASE handle
      <4>1. recStop' \in BOOLEAN BY <2>4, <3>1 DEF TelWaited, StopRecorder, SignalRecorder
      <4> QED BY <2>4, <3>1, <4>1 DEF TelWaited, StopRecorder, SignalRecorder
    <3>2. CASE ~handle BY <2>4, <3>2 DEF TelWaited, StopRecorder
    <3> QED BY <3>1, <3>2
  <2>5. CASE TelRaises(s) BY <2>5 DEF TelRaises
  <2>6. CASE RecGrace(s) BY <2>6 DEF RecGrace
  <2>7. CASE RecWaited(s) BY <2>7 DEF RecWaited
  <2> QED BY <1>3, <2>1, <2>2, <2>3, <2>4, <2>5, <2>6, <2>7 DEF StopNext
<1> QED BY <1>1, <1>2, <1>3

\* /live/kill keeps the invariant: its last signal is one no recorder outlives.
LEMMA KillStep ==
  ASSUME IndInv, KillNext
  PROVE  IndInv'
<1> USE DEF IndInv, TypeOK, MissInv, StartInv, TaskInv, StopInv, LogInv, KillInv, RecorderToldLast, KilledIsOver, TelOpen, RecAlive, backVars
<1>1. CASE KillFinds BY <1>1 DEF KillFinds
<1>2. CASE KillSignals
  <2>1. CASE kill = "terminated" BY <1>2, <2>1 DEF KillSignals
  <2>2. CASE kill # "terminated"
    <3>1. recStop' \in BOOLEAN BY <1>2, <2>2 DEF KillSignals, SignalRecorder
    <3> QED BY <1>2, <2>2, <3>1 DEF KillSignals, SignalRecorder
  <2> QED BY <2>1, <2>2
<1>3. CASE KillCloses BY <1>3 DEF KillCloses
<1> QED BY <1>1, <1>2, <1>3 DEF KillNext

\* Every reachable state of ServeProcess satisfies the inductive invariant.
THEOREM Invariance == Spec => []IndInv
<1>1. Init => IndInv BY InitInv
<1>2. IndInv /\ [Next]_vars => IndInv'
  <2> SUFFICES ASSUME IndInv, [Next]_vars PROVE IndInv' OBVIOUS
  <2>1. CASE Next BY <2>1, OutsideStep, TelStep, RecStep, StopStep, KillStep DEF Next
  <2>2. CASE UNCHANGED vars
    BY <2>2 DEF IndInv, TypeOK, MissInv, StartInv, TaskInv, StopInv, LogInv, KillInv, RecorderToldLast, KilledIsOver, RecAlive, vars, backVars, recVars
  <2> QED BY <2>1, <2>2
<1> QED BY <1>1, <1>2, PTL DEF Spec

\* Type correctness of ServeProcess.
THEOREM TypeCorrect == Spec => []TypeOK
<1>1. IndInv => TypeOK BY DEF IndInv
<1> QED BY <1>1, Invariance, PTL

\* No stop() deletes the log under a live recorder.
THEOREM LogIsSafe == Spec => []LogOutlivesReader
<1>1. IndInv => LogOutlivesReader
  BY DEF IndInv, StartInv, TaskInv, LogInv, LogOutlivesReader, RecAlive, TypeOK
<1> QED BY <1>1, Invariance, PTL

\* A stop() that returned left no server, no recorder, no start in flight
\* and no log.
THEOREM StopIsComplete == Spec => []StopLeavesNothing
<1>1. IndInv => StopLeavesNothing
  BY DEF IndInv, StartInv, StopInv, LogInv, StopLeavesNothing, TelOpen, TypeOK
<1> QED BY <1>1, Invariance, PTL

\* A /live/kill that has answered left no recorder and no open run.
THEOREM KillIsComplete == Spec => []KilledIsOver
<1>1. IndInv => KilledIsOver BY DEF IndInv, KillInv
<1> QED BY <1>1, Invariance, PTL

\* The recorder hears of the stop only after the server exited.
THEOREM RecorderIsToldLast == Spec => []RecorderToldLast
<1>1. IndInv => RecorderToldLast BY DEF IndInv, TaskInv
<1> QED BY <1>1, Invariance, PTL
=============================================================================
