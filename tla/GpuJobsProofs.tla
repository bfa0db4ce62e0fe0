--------------------------- MODULE GpuJobsProofs ---------------------------
(***************************************************************************)
(* Proofs, for any sets of requests, of the safety invariants of GpuJobs.  *)
(***************************************************************************)
EXTENDS GpuJobs, TLAPS

ServeLocked  == {"query", "run", "none", "profile", "port", "spawn"}
ScreenLocked == {"query", "run", "none", "prepare"}

\* Each _start_lock is held by exactly the request that is past its first
\* check.
LocksInv ==
  /\ \A r \in ServeReqs : servePc[r] \in ServeLocked <=> serveHolder = r
  /\ \A q \in ScreenReqs : screenPc[q] \in ScreenLocked <=> screenHolder = q

\* While a request holds Serve's lock nothing is served, and from the
\* assignment of _job to the spawn that handle stays in place.
ServeInv ==
  /\ ServeSingleFlight
  /\ serveHolder # NoReq => ~ServeRunning
  /\ \A r \in ServeReqs : servePc[r] = "spawn" => job = r

\* While a request holds the pre-screen's lock no sweep runs, and _starting is
\* set exactly while it is in prepare().
ScreenInv ==
  /\ \A q \in ScreenReqs : sweepTask[q] = "running" => sweep = q
  /\ screenHolder # NoReq => \A q \in ScreenReqs : sweepTask[q] # "running"
  /\ starting <=> \E q \in ScreenReqs : screenPc[q] = "prepare"

\* A pre-screen request is past its in-memory checks and not yet _starting.
Window == \E q \in ScreenReqs : screenPc[q] \in {"query", "run", "none"}

\* OverlapOnlySinceCheck, from the in-memory checks on: a /serve/start past its
\* own look at the pre-screen counts as served already.
OverlapInv ==
  /\ Window /\ serveHolder # NoReq => "serve" \in sinceCheck
  /\ Window \/ ScreenRunning =>
       /\ ServeRunning => "serve" \in sinceCheck
       /\ \A r \in ServeReqs :
             servePc[r] \in {"profile", "port", "spawn"} => "serve" \in sinceCheck
       /\ TuneRunning => "tune" \in sinceCheck
       /\ TestsActive => "tests" \in sinceCheck

\* A lock's queue holds requests that wait for it, each of them once.
Queued(queue, pc) ==
  /\ \A i \in 1..Len(queue) : pc[queue[i]] = "queued"
  /\ \A i, j \in 1..Len(queue) : queue[i] = queue[j] => i = j

QueueInv == Queued(serveWaiters, servePc) /\ Queued(screenWaiters, screenPc)

\* Once the teardown has begun no request is open, and each job behind it has
\* ended or was given up on.
TeardownInv ==
  /\ phase \notin {"up", "draining"} => NoRequestOpen
  /\ stopJobs /\ phase \in {"tune", "screen", "serve", "down"} =>
       (TestsActive => "tests" \in timedOut)
  /\ stopJobs /\ phase \in {"screen", "serve", "down"} =>
       (TuneRunning => "tune" \in timedOut)
  /\ phase \in {"serve", "down"} => (ScreenRunning => "screen" \in timedOut)
  /\ stopJobs /\ phase = "down" => ~ServeRunning

IndInv == TypeOK /\ LocksInv /\ QueueInv /\ ServeInv /\ ScreenInv
          /\ TestsTuneExclusive /\ OverlapInv /\ TeardownInv

\* A request that does not wait may move on without disturbing the queue.
LEMMA QueuedKeep ==
  ASSUME NEW S, NEW P, NEW queue \in Seq(S), NEW pc \in [S -> P], NEW r \in S,
         NEW v, Queued(queue, pc), pc[r] # "queued"
  PROVE  Queued(queue, [pc EXCEPT ![r] = v])
  BY DEF Queued

\* A request that joins the queue is its last element, and its only occurrence.
LEMMA QueuedAppend ==
  ASSUME NEW S, NEW P, NEW queue \in Seq(S), NEW pc \in [S -> P], NEW r \in S,
         Queued(queue, pc), pc[r] # "queued"
  PROVE  Queued(Append(queue, r), [pc EXCEPT ![r] = "queued"])
  <1> DEFINE new == Append(queue, r)
  <1>1. /\ Len(new) = Len(queue) + 1 /\ new[Len(queue) + 1] = r
        /\ \A i \in 1..Len(queue) : new[i] = queue[i] /\ queue[i] \in S
        /\ Len(queue) \in Nat
    OBVIOUS
  <1>2. \A i \in 1..Len(queue) : queue[i] # r
    BY DEF Queued
  <1> HIDE DEF new
  <1>3. QED
    BY <1>1, <1>2 DEF Queued

\* The first of the queue may leave it, whatever it does next.
LEMMA QueuedTail ==
  ASSUME NEW S, NEW P, NEW queue \in Seq(S), NEW pc \in [S -> P], NEW v,
         Queued(queue, pc), queue # <<>>
  PROVE  Queued(Tail(queue), [pc EXCEPT ![Head(queue)] = v])
  <1> DEFINE new == Tail(queue)
  <1>1. /\ Len(new) = Len(queue) - 1 /\ Len(queue) \in Nat \ {0}
        /\ Head(queue) = queue[1] /\ queue[1] \in S
        /\ \A i \in 1..Len(new) : new[i] = queue[i + 1] /\ queue[i + 1] \in S
    OBVIOUS
  <1> HIDE DEF new
  <1>2. \A i \in 1..Len(new) : new[i] # Head(queue)
    BY <1>1 DEF Queued
  <1>3. QED
    BY <1>1, <1>2 DEF Queued

\* What taking Serve's lock does to the variables it touches.
LEMMA ServeEnterType ==
  ASSUME TypeOK, NEW r \in ServeReqs, ServeEnter(r)
  PROVE  /\ servePc' \in [ServeReqs -> ServePcs]
         /\ serveHolder' \in ServeReqs \cup {NoReq}
         /\ sinceCheck' \subseteq {"serve", "tune", "tests"}
  BY DEF TypeOK, ServeEnter, ServeAnswer, Began, ServePcs

\* What taking the pre-screen's lock does to the variables it touches.
LEMMA ScreenEnterType ==
  ASSUME TypeOK, NEW q \in ScreenReqs, ScreenEnter(q)
  PROVE  /\ screenPc' \in [ScreenReqs -> ScreenPcs]
         /\ screenHolder' \in ScreenReqs \cup {NoReq}
         /\ sinceCheck' \subseteq {"serve", "tune", "tests"}
  BY DEF TypeOK, ScreenEnter, ScreenAnswer, ScreenPcs

\* TypeOK is inductive: no action leaves the declared sets of values.
LEMMA TypeStep ==
  ASSUME TypeOK, [Next]_vars
  PROVE  TypeOK'
  <1> USE NoReqAssumption DEF TypeOK, ServePcs, ScreenPcs, TaskStates, Alive,
         serveVars, screenVars, shutVars, ServeRunning, ScreenRunning,
         TuneRunning, TestsActive
  <1>1. ASSUME NEW r \in ServeReqs, ServeStart(r) PROVE TypeOK'
    <2>1. CASE serveHolder = NoReq /\ serveWaiters = <<>>
      <3>1. ServeEnter(r)
        BY <1>1, <2>1 DEF ServeStart
      <3>2. QED
        BY <1>1, <2>1, <3>1, ServeEnterType DEF ServeStart
    <2>2. CASE ~(serveHolder = NoReq /\ serveWaiters = <<>>)
      <3>1. Append(serveWaiters, r) \in Seq(ServeReqs)
        OBVIOUS
      <3>2. QED
        BY <1>1, <2>2, <3>1, ZenonT(60) DEF ServeStart
    <2>3. QED
      BY <2>1, <2>2
  <1>2. ASSUME NEW r \in ServeReqs, ServeQuery(r) PROVE TypeOK'
    BY <1>2 DEF ServeQuery, Answer
  <1>3. ASSUME NEW r \in ServeReqs, ServeReply(r) PROVE TypeOK'
    BY <1>3 DEF ServeReply, ServeAnswer
  <1>4. ASSUME NEW r \in ServeReqs, ServeProfile(r) PROVE TypeOK'
    BY <1>4, SMTT(60) DEF ServeProfile, ServeAnswer
  <1>5. ASSUME NEW r \in ServeReqs, ServePort(r) PROVE TypeOK'
    BY <1>5, SMTT(60) DEF ServePort, ServeAnswer
  <1>6. ASSUME NEW r \in ServeReqs, ServeSpawn(r) PROVE TypeOK'
    BY <1>6 DEF ServeSpawn, ServeAnswer
  <1>7. ASSUME NEW r \in ServeReqs, ServerExits(r) PROVE TypeOK'
    BY <1>7 DEF ServerExits
  <1>8. ASSUME NEW q \in ScreenReqs, ScreenStart(q) PROVE TypeOK'
    <2>1. CASE screenHolder = NoReq /\ screenWaiters = <<>>
      <3>1. ScreenEnter(q)
        BY <1>8, <2>1 DEF ScreenStart
      <3>2. QED
        BY <1>8, <2>1, <3>1, ScreenEnterType DEF ScreenStart
    <2>2. CASE ~(screenHolder = NoReq /\ screenWaiters = <<>>)
      <3>1. Append(screenWaiters, q) \in Seq(ScreenReqs)
        OBVIOUS
      <3>2. QED
        BY <1>8, <2>2, <3>1, ZenonT(60) DEF ScreenStart
    <2>3. QED
      BY <2>1, <2>2
  <1>9. ASSUME NEW q \in ScreenReqs, ScreenQuery(q) PROVE TypeOK'
    BY <1>9 DEF ScreenQuery, Answer
  <1>10. ASSUME NEW q \in ScreenReqs, ScreenReply(q) PROVE TypeOK'
    <2>1. starting' \in BOOLEAN
      BY <1>10 DEF ScreenReply
    <2>2. QED
      BY <1>10, <2>1 DEF ScreenReply, ScreenAnswer
  <1>11. ASSUME NEW q \in ScreenReqs, ScreenPrepared(q) PROVE TypeOK'
    <2>1. starting' \in BOOLEAN
      BY <1>11 DEF ScreenPrepared
    <2>2. QED
      BY <1>11, <2>1 DEF ScreenPrepared, ScreenAnswer
  <1>12. ASSUME NEW q \in ScreenReqs, SweepEnds(q) PROVE TypeOK'
    BY <1>12 DEF SweepEnds
  <1>13. ASSUME ServeWake PROVE TypeOK'
    <2>1. Head(serveWaiters) \in ServeReqs /\ Tail(serveWaiters) \in Seq(ServeReqs)
      BY <1>13 DEF ServeWake
    <2>2. QED
      BY <1>13, <2>1, ServeEnterType DEF ServeWake
  <1>14. ASSUME ServeStop PROVE TypeOK'
    BY <1>14 DEF ServeStop
  <1>15. ASSUME RecorderStep PROVE TypeOK'
    BY <1>15 DEF RecorderStep
  <1>16. ASSUME ScreenWake PROVE TypeOK'
    <2>1. Head(screenWaiters) \in ScreenReqs /\ Tail(screenWaiters) \in Seq(ScreenReqs)
      BY <1>16 DEF ScreenWake
    <2>2. QED
      BY <1>16, <2>1, ScreenEnterType DEF ScreenWake
  <1>17. ASSUME ScreenCancel PROVE TypeOK'
    BY <1>17 DEF ScreenCancel
  <1>18. ASSUME TuneStart PROVE TypeOK'
    BY <1>18 DEF TuneStart, Began
  <1>19. ASSUME TuneStop PROVE TypeOK'
    BY <1>19 DEF TuneStop
  <1>20. ASSUME TuneEnds PROVE TypeOK'
    BY <1>20 DEF TuneEnds
  <1>21. ASSUME TestsStart PROVE TypeOK'
    BY <1>21 DEF TestsStart, Began
  <1>22. ASSUME TestsCancel PROVE TypeOK'
    BY <1>22 DEF TestsCancel
  <1>23. ASSUME TestsEnd PROVE TypeOK'
    BY <1>23 DEF TestsEnd
  <1>24. ASSUME BeginShutdown PROVE TypeOK'
    BY <1>24 DEF BeginShutdown
  <1>25. ASSUME DrainTimeout PROVE TypeOK'
    <2>1. starting' \in BOOLEAN
      BY <1>25 DEF DrainTimeout
    <2>2. QED
      BY <1>25, <2>1 DEF DrainTimeout
  <1>26. ASSUME Drained PROVE TypeOK'
    BY <1>26 DEF Drained, CancelSweep
  <1>27. ASSUME TestsStopped PROVE TypeOK'
    BY <1>27 DEF TestsStopped, StopJob
  <1>28. ASSUME TuneStopped PROVE TypeOK'
    BY <1>28 DEF TuneStopped, StopJob, CancelSweep
  <1>29. ASSUME ScreenStopped PROVE TypeOK'
    BY <1>29 DEF ScreenStopped, StopJob
  <1>30. ASSUME ServeStopped PROVE TypeOK'
    BY <1>30 DEF ServeStopped
  <1>31. ASSUME UNCHANGED <<serveVars, activeRun, screenVars, tune, tests, shutVars, sinceCheck>> PROVE TypeOK'
    BY <1>31
  <1>32. QED
    BY <1>1, <1>2, <1>3, <1>4, <1>5, <1>6, <1>7, <1>8, <1>9, <1>10, <1>11,
       <1>12, <1>13, <1>14, <1>15, <1>16, <1>17, <1>18, <1>19, <1>20, <1>21,
       <1>22, <1>23, <1>24, <1>25, <1>26, <1>27, <1>28, <1>29, <1>30, <1>31
       DEF Next, ServeStep, ScreenStep, Shutdown, vars

\* The locks keep their holders: a request enters ServeLocked or ScreenLocked
\* only with the lock, and leaves it with the lock.
LEMMA LocksStep ==
  ASSUME TypeOK, LocksInv, [Next]_vars
  PROVE  LocksInv'
  <1> USE NoReqAssumption DEF TypeOK, serveVars, screenVars, shutVars,
         LocksInv, ServeLocked, ScreenLocked, ServePcs, ScreenPcs
  <1>1. ASSUME NEW r \in ServeReqs, ServeStart(r) PROVE LocksInv'
    BY <1>1 DEF ServeStart, ServeEnter, ServeAnswer, Began
  <1>2. ASSUME NEW r \in ServeReqs, ServeQuery(r) PROVE LocksInv'
    BY <1>2 DEF ServeQuery, Answer
  <1>3. ASSUME NEW r \in ServeReqs, ServeReply(r) PROVE LocksInv'
    BY <1>3 DEF ServeReply, ServeAnswer
  <1>4. ASSUME NEW r \in ServeReqs, ServeProfile(r) PROVE LocksInv'
    BY <1>4 DEF ServeProfile, ServeAnswer
  <1>5. ASSUME NEW r \in ServeReqs, ServePort(r) PROVE LocksInv'
    BY <1>5 DEF ServePort, ServeAnswer
  <1>6. ASSUME NEW r \in ServeReqs, ServeSpawn(r) PROVE LocksInv'
    BY <1>6 DEF ServeSpawn, ServeAnswer
  <1>7. ASSUME NEW q \in ScreenReqs, ScreenStart(q) PROVE LocksInv'
    BY <1>7 DEF ScreenStart, ScreenEnter, ScreenAnswer
  <1>8. ASSUME NEW q \in ScreenReqs, ScreenQuery(q) PROVE LocksInv'
    BY <1>8 DEF ScreenQuery, Answer
  <1>9. ASSUME NEW q \in ScreenReqs, ScreenReply(q) PROVE LocksInv'
    BY <1>9 DEF ScreenReply, ScreenAnswer
  <1>10. ASSUME NEW q \in ScreenReqs, ScreenPrepared(q) PROVE LocksInv'
    BY <1>10 DEF ScreenPrepared, ScreenAnswer
  <1>11. ASSUME ServeWake PROVE LocksInv'
    BY <1>11 DEF ServeWake, ServeEnter, ServeAnswer, Began
  <1>12. ASSUME ScreenWake PROVE LocksInv'
    BY <1>12 DEF ScreenWake, ScreenEnter, ScreenAnswer
  <1>13. ASSUME DrainTimeout PROVE LocksInv'
    BY <1>13 DEF DrainTimeout
  <1>14. ASSUME UNCHANGED <<servePc, serveHolder, screenPc, screenHolder>> PROVE LocksInv'
    BY <1>14
  <1>15. QED
    BY <1>1, <1>2, <1>3, <1>4, <1>5, <1>6, <1>7, <1>8, <1>9, <1>10, <1>11,
       <1>12, <1>13, <1>14 DEF Next, ServeStep, ScreenStep, Shutdown, vars,
       ServerExits, SweepEnds, ServeStop, RecorderStep, ScreenCancel,
       TuneStart, TuneStop, TuneEnds, TestsStart, TestsCancel, TestsEnd,
       BeginShutdown, Drained, TestsStopped, TuneStopped, ScreenStopped,
       ServeStopped

\* The queues keep to the requests that wait, each once.
LEMMA QueueStep ==
  ASSUME TypeOK, QueueInv, [Next]_vars
  PROVE  QueueInv'
  <1> USE NoReqAssumption DEF serveVars, screenVars, shutVars, QueueInv,
         ServePcs, ScreenPcs
  <1>a. /\ \A r \in ServeReqs, v \in ServePcs : servePc[r] # "queued" =>
             Queued(serveWaiters, [servePc EXCEPT ![r] = v])
        /\ \A r \in ServeReqs : servePc[r] # "queued" =>
             Queued(Append(serveWaiters, r), [servePc EXCEPT ![r] = "queued"])
        /\ serveWaiters # <<>> => \A v \in ServePcs :
             Queued(Tail(serveWaiters), [servePc EXCEPT ![Head(serveWaiters)] = v])
    BY QueuedKeep, QueuedAppend, QueuedTail DEF TypeOK
  <1>b. /\ \A q \in ScreenReqs, v \in ScreenPcs : screenPc[q] # "queued" =>
             Queued(screenWaiters, [screenPc EXCEPT ![q] = v])
        /\ \A q \in ScreenReqs : screenPc[q] # "queued" =>
             Queued(Append(screenWaiters, q), [screenPc EXCEPT ![q] = "queued"])
        /\ screenWaiters # <<>> => \A v \in ScreenPcs :
             Queued(Tail(screenWaiters), [screenPc EXCEPT ![Head(screenWaiters)] = v])
    BY QueuedKeep, QueuedAppend, QueuedTail DEF TypeOK
  <1>1. ASSUME NEW r \in ServeReqs, ServeStart(r) PROVE QueueInv'
    BY <1>1, <1>a DEF ServeStart, ServeEnter, ServeAnswer
  <1>2. ASSUME NEW r \in ServeReqs, ServeQuery(r) PROVE QueueInv'
    BY <1>2, <1>a DEF ServeQuery, Answer
  <1>3. ASSUME NEW r \in ServeReqs, ServeReply(r) PROVE QueueInv'
    BY <1>3, <1>a DEF ServeReply, ServeAnswer
  <1>4. ASSUME NEW r \in ServeReqs, ServeProfile(r) PROVE QueueInv'
    BY <1>4, <1>a DEF ServeProfile, ServeAnswer
  <1>5. ASSUME NEW r \in ServeReqs, ServePort(r) PROVE QueueInv'
    BY <1>5, <1>a DEF ServePort, ServeAnswer
  <1>6. ASSUME NEW r \in ServeReqs, ServeSpawn(r) PROVE QueueInv'
    BY <1>6, <1>a DEF ServeSpawn, ServeAnswer
  <1>7. ASSUME NEW q \in ScreenReqs, ScreenStart(q) PROVE QueueInv'
    BY <1>7, <1>b DEF ScreenStart, ScreenEnter, ScreenAnswer
  <1>8. ASSUME NEW q \in ScreenReqs, ScreenQuery(q) PROVE QueueInv'
    BY <1>8, <1>b DEF ScreenQuery, Answer
  <1>9. ASSUME NEW q \in ScreenReqs, ScreenReply(q) PROVE QueueInv'
    BY <1>9, <1>b DEF ScreenReply, ScreenAnswer
  <1>10. ASSUME NEW q \in ScreenReqs, ScreenPrepared(q) PROVE QueueInv'
    BY <1>10, <1>b DEF ScreenPrepared, ScreenAnswer
  <1>11. ASSUME ServeWake PROVE QueueInv'
    BY <1>11, <1>a DEF ServeWake, ServeEnter, ServeAnswer
  <1>12. ASSUME ScreenWake PROVE QueueInv'
    BY <1>12, <1>b DEF ScreenWake, ScreenEnter, ScreenAnswer
  <1>13. ASSUME DrainTimeout PROVE QueueInv'
    BY <1>13 DEF DrainTimeout, Queued
  <1>14. ASSUME UNCHANGED <<servePc, serveWaiters, screenPc, screenWaiters>> PROVE QueueInv'
    BY <1>14
  <1>15. QED
    BY <1>1, <1>2, <1>3, <1>4, <1>5, <1>6, <1>7, <1>8, <1>9, <1>10, <1>11,
       <1>12, <1>13, <1>14 DEF Next, ServeStep, ScreenStep, Shutdown, vars,
       ServerExits, SweepEnds, ServeStop, RecorderStep, ScreenCancel,
       TuneStart, TuneStop, TuneEnds, TestsStart, TestsCancel, TestsEnd,
       BeginShutdown, Drained, TestsStopped, TuneStopped, ScreenStopped,
       ServeStopped

\* Serve stays single-flight.
LEMMA ServeInvStep ==
  ASSUME TypeOK, LocksInv, ServeInv, [Next]_vars
  PROVE  ServeInv'
  <1> USE NoReqAssumption DEF TypeOK, serveVars, screenVars, shutVars,
         LocksInv, ServeInv, ServeSingleFlight, ServeRunning, Alive, ServeLocked
  <1>1. ASSUME NEW r \in ServeReqs, ServeStart(r) PROVE ServeInv'
    BY <1>1 DEF ServeStart, ServeEnter, ServeAnswer, Began
  <1>2. ASSUME NEW r \in ServeReqs, ServeQuery(r) PROVE ServeInv'
    BY <1>2 DEF ServeQuery, Answer
  <1>3. ASSUME NEW r \in ServeReqs, ServeReply(r) PROVE ServeInv'
    BY <1>3 DEF ServeReply, ServeAnswer
  <1>4. ASSUME NEW r \in ServeReqs, ServeProfile(r) PROVE ServeInv'
    BY <1>4 DEF ServeProfile, ServeAnswer
  <1>5. ASSUME NEW r \in ServeReqs, ServePort(r) PROVE ServeInv'
    BY <1>5 DEF ServePort, ServeAnswer
  <1>6. ASSUME NEW r \in ServeReqs, ServeSpawn(r) PROVE ServeInv'
    BY <1>6 DEF ServeSpawn, ServeAnswer
  <1>7. ASSUME NEW r \in ServeReqs, ServerExits(r) PROVE ServeInv'
    BY <1>7 DEF ServerExits
  <1>8. ASSUME ServeWake PROVE ServeInv'
    BY <1>8 DEF ServeWake, ServeEnter, ServeAnswer, Began
  <1>9. ASSUME ServeStop PROVE ServeInv'
    BY <1>9 DEF ServeStop
  <1>10. ASSUME DrainTimeout PROVE ServeInv'
    BY <1>10 DEF DrainTimeout
  <1>11. ASSUME ScreenStopped PROVE ServeInv'
    BY <1>11 DEF ScreenStopped, StopJob
  <1>12. ASSUME UNCHANGED <<servePc, serveHolder, job, proc>> PROVE ServeInv'
    BY <1>12
  <1>13. QED
    BY <1>1, <1>2, <1>3, <1>4, <1>5, <1>6, <1>7, <1>8, <1>9, <1>10, <1>11,
       <1>12 DEF Next, ServeStep, ScreenStep, Shutdown, vars, ScreenStart,
       ScreenQuery, ScreenReply, ScreenPrepared, SweepEnds, RecorderStep,
       ScreenWake, ScreenCancel, TuneStart, TuneStop, TuneEnds, TestsStart,
       TestsCancel, TestsEnd, BeginShutdown, Drained, TestsStopped,
       TuneStopped, ServeStopped

\* The pre-screen stays single-flight.
LEMMA ScreenInvStep ==
  ASSUME TypeOK, LocksInv, ScreenInv, [Next]_vars
  PROVE  ScreenInv'
  <1> USE NoReqAssumption DEF TypeOK, serveVars, screenVars, shutVars,
         LocksInv, ScreenInv, ScreenRunning, ScreenLocked
  <1>1. ASSUME NEW q \in ScreenReqs, ScreenStart(q) PROVE ScreenInv'
    BY <1>1 DEF ScreenStart, ScreenEnter, ScreenAnswer
  <1>2. ASSUME NEW q \in ScreenReqs, ScreenQuery(q) PROVE ScreenInv'
    BY <1>2 DEF ScreenQuery, Answer
  <1>3. ASSUME NEW q \in ScreenReqs, ScreenReply(q) PROVE ScreenInv'
    BY <1>3 DEF ScreenReply, ScreenAnswer
  <1>4. ASSUME NEW q \in ScreenReqs, ScreenPrepared(q) PROVE ScreenInv'
    BY <1>4 DEF ScreenPrepared, ScreenAnswer
  <1>5. ASSUME NEW q \in ScreenReqs, SweepEnds(q) PROVE ScreenInv'
    BY <1>5 DEF SweepEnds
  <1>6. ASSUME ScreenWake PROVE ScreenInv'
    BY <1>6 DEF ScreenWake, ScreenEnter, ScreenAnswer
  <1>7. ASSUME DrainTimeout PROVE ScreenInv'
    BY <1>7 DEF DrainTimeout
  <1>8. ASSUME UNCHANGED <<screenPc, screenHolder, starting, sweep, sweepTask>> PROVE ScreenInv'
    BY <1>8
  <1>9. QED
    BY <1>1, <1>2, <1>3, <1>4, <1>5, <1>6, <1>7, <1>8 DEF Next, ServeStep,
       ScreenStep, Shutdown, vars, ServeStart, ServeQuery, ServeReply,
       ServeProfile, ServePort, ServeSpawn, ServerExits, ServeWake, ServeStop,
       RecorderStep, ScreenCancel, TuneStart, TuneStop, TuneEnds, TestsStart,
       TestsCancel, TestsEnd, BeginShutdown, Drained, TestsStopped,
       TuneStopped, ScreenStopped, ServeStopped

\* Tests and Tune go on excluding each other.
LEMMA ExclusiveStep ==
  ASSUME TypeOK, TestsTuneExclusive, [Next]_vars
  PROVE  TestsTuneExclusive'
  <1> USE NoReqAssumption DEF TypeOK, serveVars, screenVars, shutVars,
         TestsTuneExclusive, TuneRunning, TestsActive, TaskStates
  <1>1. ASSUME TuneStart PROVE TestsTuneExclusive'
    BY <1>1 DEF TuneStart, Began
  <1>2. ASSUME TuneStop PROVE TestsTuneExclusive'
    BY <1>2 DEF TuneStop
  <1>3. ASSUME TuneEnds PROVE TestsTuneExclusive'
    BY <1>3 DEF TuneEnds
  <1>4. ASSUME TestsStart PROVE TestsTuneExclusive'
    BY <1>4 DEF TestsStart, Began
  <1>5. ASSUME TestsCancel PROVE TestsTuneExclusive'
    BY <1>5 DEF TestsCancel
  <1>6. ASSUME TestsEnd PROVE TestsTuneExclusive'
    BY <1>6 DEF TestsEnd
  <1>7. ASSUME Drained PROVE TestsTuneExclusive'
    BY <1>7 DEF Drained, CancelSweep
  <1>8. ASSUME TestsStopped PROVE TestsTuneExclusive'
    BY <1>8 DEF TestsStopped, StopJob
  <1>9. ASSUME UNCHANGED <<tune, tests>> PROVE TestsTuneExclusive'
    BY <1>9
  <1>10. QED
    BY <1>1, <1>2, <1>3, <1>4, <1>5, <1>6, <1>7, <1>8, <1>9 DEF Next,
       ServeStep, ScreenStep, Shutdown, vars, ServeStart, ServeQuery,
       ServeReply, ServeProfile, ServePort, ServeSpawn, ServerExits,
       ScreenStart, ScreenQuery, ScreenReply, ScreenPrepared, SweepEnds,
       ServeWake, ServeStop, RecorderStep, ScreenWake, ScreenCancel,
       BeginShutdown, DrainTimeout, TuneStopped, ScreenStopped, ServeStopped

\* What a pre-screen overlaps began in its window.
LEMMA OverlapStep ==
  ASSUME TypeOK, LocksInv, ServeInv, ScreenInv, OverlapInv, [Next]_vars
  PROVE  OverlapInv'
  <1> USE NoReqAssumption DEF TypeOK, serveVars, screenVars, shutVars,
         LocksInv, ServeInv, ScreenInv, OverlapInv, Window, ServeRunning,
         ScreenRunning, BusyInMemory, TuneRunning, TestsActive, Alive,
         ServeLocked, ScreenLocked
  <1>1. ASSUME NEW r \in ServeReqs, ServeStart(r) PROVE OverlapInv'
    BY <1>1 DEF ServeStart, ServeEnter, ServeAnswer, Began
  <1>2. ASSUME NEW r \in ServeReqs, ServeQuery(r) PROVE OverlapInv'
    BY <1>2 DEF ServeQuery, Answer
  <1>3. ASSUME NEW r \in ServeReqs, ServeReply(r) PROVE OverlapInv'
    BY <1>3 DEF ServeReply, ServeAnswer
  <1>4. ASSUME NEW r \in ServeReqs, ServeProfile(r) PROVE OverlapInv'
    BY <1>4 DEF ServeProfile, ServeAnswer
  <1>5. ASSUME NEW r \in ServeReqs, ServePort(r) PROVE OverlapInv'
    BY <1>5 DEF ServePort, ServeAnswer
  <1>6. ASSUME NEW r \in ServeReqs, ServeSpawn(r) PROVE OverlapInv'
    BY <1>6 DEF ServeSpawn, ServeAnswer
  <1>7. ASSUME NEW r \in ServeReqs, ServerExits(r) PROVE OverlapInv'
    BY <1>7 DEF ServerExits
  <1>8. ASSUME NEW q \in ScreenReqs, ScreenStart(q) PROVE OverlapInv'
    BY <1>8 DEF ScreenStart, ScreenEnter, ScreenAnswer
  <1>9. ASSUME NEW q \in ScreenReqs, ScreenQuery(q) PROVE OverlapInv'
    BY <1>9 DEF ScreenQuery, Answer
  <1>10. ASSUME NEW q \in ScreenReqs, ScreenReply(q) PROVE OverlapInv'
    BY <1>10 DEF ScreenReply, ScreenAnswer
  <1>11. ASSUME NEW q \in ScreenReqs, ScreenPrepared(q) PROVE OverlapInv'
    BY <1>11 DEF ScreenPrepared, ScreenAnswer
  <1>12. ASSUME NEW q \in ScreenReqs, SweepEnds(q) PROVE OverlapInv'
    BY <1>12 DEF SweepEnds
  <1>13. ASSUME ServeWake PROVE OverlapInv'
    BY <1>13 DEF ServeWake, ServeEnter, ServeAnswer, Began
  <1>14. ASSUME ServeStop PROVE OverlapInv'
    BY <1>14 DEF ServeStop
  <1>15. ASSUME ScreenWake PROVE OverlapInv'
    BY <1>15 DEF ScreenWake, ScreenEnter, ScreenAnswer
  <1>16. ASSUME TuneStart PROVE OverlapInv'
    BY <1>16 DEF TuneStart, Began
  <1>17. ASSUME TuneStop PROVE OverlapInv'
    BY <1>17 DEF TuneStop
  <1>18. ASSUME TuneEnds PROVE OverlapInv'
    BY <1>18 DEF TuneEnds
  <1>19. ASSUME TestsStart PROVE OverlapInv'
    BY <1>19 DEF TestsStart, Began
  <1>20. ASSUME TestsCancel PROVE OverlapInv'
    BY <1>20 DEF TestsCancel
  <1>21. ASSUME TestsEnd PROVE OverlapInv'
    BY <1>21 DEF TestsEnd
  <1>22. ASSUME DrainTimeout PROVE OverlapInv'
    BY <1>22 DEF DrainTimeout
  <1>23. ASSUME Drained PROVE OverlapInv'
    BY <1>23 DEF Drained, CancelSweep
  <1>24. ASSUME TestsStopped PROVE OverlapInv'
    BY <1>24 DEF TestsStopped, StopJob
  <1>25. ASSUME ScreenStopped PROVE OverlapInv'
    BY <1>25 DEF ScreenStopped, StopJob
  <1>26. ASSUME UNCHANGED <<serveVars, screenVars, tune, tests, sinceCheck>> PROVE OverlapInv'
    BY <1>26
  <1>27. QED
    BY <1>1, <1>2, <1>3, <1>4, <1>5, <1>6, <1>7, <1>8, <1>9, <1>10, <1>11,
       <1>12, <1>13, <1>14, <1>15, <1>16, <1>17, <1>18, <1>19, <1>20, <1>21,
       <1>22, <1>23, <1>24, <1>25, <1>26 DEF Next, ServeStep, ScreenStep,
       Shutdown, vars, RecorderStep, ScreenCancel, BeginShutdown, TuneStopped,
       ServeStopped

\* The teardown leaves behind it no job it did not wait for.
LEMMA TeardownStep ==
  ASSUME TypeOK, QueueInv, ServeInv, TeardownInv, [Next]_vars
  PROVE  TeardownInv'
  <1> USE NoReqAssumption DEF TypeOK, serveVars, screenVars, shutVars,
         QueueInv, Queued, ServeInv, ServeSingleFlight, TeardownInv, NoRequestOpen,
         ServeRunning, ScreenRunning, TuneRunning, TestsActive, Alive,
         TaskStates
  <1>1. ASSUME NEW r \in ServeReqs, ServeStart(r) PROVE TeardownInv'
    BY <1>1 DEF ServeStart, ServeEnter, ServeAnswer, Began
  <1>2. ASSUME NEW r \in ServeReqs, ServeQuery(r) PROVE TeardownInv'
    BY <1>2 DEF ServeQuery, Answer
  <1>3. ASSUME NEW r \in ServeReqs, ServeReply(r) PROVE TeardownInv'
    BY <1>3 DEF ServeReply, ServeAnswer
  <1>4. ASSUME NEW r \in ServeReqs, ServeProfile(r) PROVE TeardownInv'
    BY <1>4 DEF ServeProfile, ServeAnswer
  <1>5. ASSUME NEW r \in ServeReqs, ServePort(r) PROVE TeardownInv'
    BY <1>5 DEF ServePort, ServeAnswer
  <1>6. ASSUME NEW r \in ServeReqs, ServeSpawn(r) PROVE TeardownInv'
    BY <1>6 DEF ServeSpawn, ServeAnswer
  <1>7. ASSUME NEW r \in ServeReqs, ServerExits(r) PROVE TeardownInv'
    BY <1>7 DEF ServerExits
  <1>8. ASSUME NEW q \in ScreenReqs, ScreenStart(q) PROVE TeardownInv'
    BY <1>8 DEF ScreenStart, ScreenEnter, ScreenAnswer
  <1>9. ASSUME NEW q \in ScreenReqs, ScreenQuery(q) PROVE TeardownInv'
    BY <1>9 DEF ScreenQuery, Answer
  <1>10. ASSUME NEW q \in ScreenReqs, ScreenReply(q) PROVE TeardownInv'
    BY <1>10 DEF ScreenReply, ScreenAnswer
  <1>11. ASSUME NEW q \in ScreenReqs, ScreenPrepared(q) PROVE TeardownInv'
    BY <1>11 DEF ScreenPrepared, ScreenAnswer
  <1>12. ASSUME NEW q \in ScreenReqs, SweepEnds(q) PROVE TeardownInv'
    BY <1>12 DEF SweepEnds
  <1>13. ASSUME ServeWake PROVE TeardownInv'
    BY <1>13 DEF ServeWake, ServeEnter, ServeAnswer, Began
  <1>14. ASSUME ServeStop PROVE TeardownInv'
    BY <1>14 DEF ServeStop
  <1>15. ASSUME ScreenWake PROVE TeardownInv'
    BY <1>15 DEF ScreenWake, ScreenEnter, ScreenAnswer
  <1>16. ASSUME TuneStart PROVE TeardownInv'
    BY <1>16 DEF TuneStart, Began
  <1>17. ASSUME TuneStop PROVE TeardownInv'
    BY <1>17 DEF TuneStop
  <1>18. ASSUME TuneEnds PROVE TeardownInv'
    BY <1>18 DEF TuneEnds
  <1>19. ASSUME TestsStart PROVE TeardownInv'
    BY <1>19 DEF TestsStart, Began
  <1>20. ASSUME TestsCancel PROVE TeardownInv'
    BY <1>20 DEF TestsCancel
  <1>21. ASSUME TestsEnd PROVE TeardownInv'
    BY <1>21 DEF TestsEnd
  <1>22. ASSUME BeginShutdown PROVE TeardownInv'
    BY <1>22 DEF BeginShutdown
  <1>23. ASSUME DrainTimeout PROVE TeardownInv'
    BY <1>23 DEF DrainTimeout
  <1>24. ASSUME Drained PROVE TeardownInv'
    BY <1>24 DEF Drained, CancelSweep
  <1>25. ASSUME TestsStopped PROVE TeardownInv'
    BY <1>25 DEF TestsStopped, StopJob
  <1>26. ASSUME TuneStopped PROVE TeardownInv'
    BY <1>26 DEF TuneStopped, StopJob, CancelSweep
  <1>27. ASSUME ScreenStopped PROVE TeardownInv'
    BY <1>27 DEF ScreenStopped, StopJob
  <1>28. ASSUME ServeStopped PROVE TeardownInv'
    BY <1>28 DEF ServeStopped
  <1>29. ASSUME UNCHANGED <<serveVars, screenVars, tune, tests, shutVars>> PROVE TeardownInv'
    BY <1>29
  <1>30. QED
    BY <1>1, <1>2, <1>3, <1>4, <1>5, <1>6, <1>7, <1>8, <1>9, <1>10, <1>11,
       <1>12, <1>13, <1>14, <1>15, <1>16, <1>17, <1>18, <1>19, <1>20, <1>21,
       <1>22, <1>23, <1>24, <1>25, <1>26, <1>27, <1>28, <1>29 DEF Next,
       ServeStep, ScreenStep, Shutdown, vars, RecorderStep, ScreenCancel

\* The inductive invariant holds in every reachable state: its parts are
\* preserved by every action, whatever the number of requests.
THEOREM Invariance == Spec => []IndInv
  <1>1. Init => IndInv
    <2> SUFFICES ASSUME Init PROVE IndInv
      OBVIOUS
    <2> USE NoReqAssumption DEF Init
    <2>1. TypeOK
      <3>1. starting \in BOOLEAN
        OBVIOUS
      <3>2. QED
        BY <3>1 DEF TypeOK, ServePcs, ScreenPcs, TaskStates
    <2>2. LocksInv
      BY DEF LocksInv, ServeLocked, ScreenLocked
    <2>3. QueueInv
      BY DEF QueueInv, Queued
    <2>4. ServeInv
      BY DEF ServeInv, ServeSingleFlight, Alive
    <2>5. ScreenInv
      <3>1. ~starting
        OBVIOUS
      <3>2. QED
        BY <3>1 DEF ScreenInv
    <2>6. TestsTuneExclusive
      BY DEF TestsTuneExclusive, TuneRunning, TestsActive
    <2>7. OverlapInv
      BY DEF OverlapInv, Window, ServeRunning, ScreenRunning, TuneRunning,
             TestsActive
    <2>8. TeardownInv
      BY DEF TeardownInv
    <2>9. QED
      BY <2>1, <2>2, <2>3, <2>4, <2>5, <2>6, <2>7, <2>8 DEF IndInv
  <1>2. IndInv /\ [Next]_vars => IndInv'
    <2> SUFFICES ASSUME IndInv, [Next]_vars PROVE IndInv'
      OBVIOUS
    <2>1. /\ TypeOK /\ LocksInv /\ QueueInv /\ ServeInv /\ ScreenInv
          /\ TestsTuneExclusive /\ OverlapInv /\ TeardownInv
      BY DEF IndInv
    <2>2. TypeOK' /\ LocksInv' /\ QueueInv'
      BY <2>1, TypeStep, LocksStep, QueueStep
    <2>3. ServeInv' /\ ScreenInv' /\ TestsTuneExclusive'
      BY <2>1, ServeInvStep, ScreenInvStep, ExclusiveStep
    <2>4. OverlapInv' /\ TeardownInv'
      BY <2>1, OverlapStep, TeardownStep
    <2>5. QED
      BY <2>2, <2>3, <2>4 DEF IndInv
  <1>3. QED
    BY <1>1, <1>2, PTL DEF Spec

\* Every variable keeps to its declared values.
THEOREM TypeCorrect == Spec => []TypeOK
  <1>1. IndInv => TypeOK
    BY DEF IndInv
  <1>2. QED
    BY <1>1, Invariance, PTL

\* The router's handle names the only llama-server this backend runs, for any
\* number of concurrent /serve/start requests.
THEOREM ServeIsSingleFlight == Spec => []ServeSingleFlight
  <1>1. IndInv => ServeSingleFlight
    BY DEF IndInv, ServeInv
  <1>2. QED
    BY <1>1, Invariance, PTL

\* At most one pre-screen runs or starts, for any number of concurrent
\* /prescreen/start requests.
THEOREM ScreenIsSingleFlight == Spec => []ScreenSingleFlight
  <1>1. IndInv => ScreenSingleFlight
    <2> SUFFICES ASSUME IndInv, NEW q \in ScreenReqs, sweepTask[q] = "running"
                 PROVE  sweep = q /\ ~starting
      BY DEF ScreenSingleFlight
    <2>1. sweep = q /\ screenHolder = NoReq
      BY DEF IndInv, ScreenInv
    <2>2. \A p \in ScreenReqs : screenPc[p] # "prepare"
      BY <2>1, NoReqAssumption DEF IndInv, LocksInv, ScreenLocked
    <2>3. QED
      BY <2>1, <2>2 DEF IndInv, ScreenInv
  <1>2. QED
    BY <1>1, Invariance, PTL

\* Tests and Tune never run together.
THEOREM TestsAndTuneExclude == Spec => []TestsTuneExclusive
  <1>1. IndInv => TestsTuneExclusive
    BY DEF IndInv
  <1>2. QED
    BY <1>1, Invariance, PTL

\* The exclusions of the four routers, for any number of concurrent requests.
THEOREM JobsAreExclusive == Spec => []JobsExclude
  BY ServeIsSingleFlight, ScreenIsSingleFlight, TestsAndTuneExclude, PTL
     DEF JobsExclude

\* The await in _gpu_busy is the only way a pre-screen comes to share the GPU
\* with a job that these routers started.
THEOREM OverlapNeedsTheWindow == Spec => []OverlapOnlySinceCheck
  <1>1. IndInv => OverlapOnlySinceCheck
    BY DEF IndInv, OverlapInv, OverlapOnlySinceCheck
  <1>2. QED
    BY <1>1, Invariance, PTL

\* The teardown leaves nothing running that it did not give up waiting for.
THEOREM TeardownIsComplete == Spec => []TeardownStopsJobs
  <1>1. IndInv => TeardownStopsJobs
    BY NoReqAssumption DEF IndInv, TeardownInv, TeardownStopsJobs, ServeInv,
       ServeSingleFlight, ServeRunning
  <1>2. QED
    BY <1>1, Invariance, PTL
=============================================================================
