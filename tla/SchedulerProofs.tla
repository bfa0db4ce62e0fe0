-------------------------- MODULE SchedulerProofs --------------------------
(***************************************************************************)
(* The scheduler's loop claims automations and chat timers.                *)
(*                                                                         *)
(* Automations: what holds of one for any number of backends, runs, edits  *)
(* and rules.  ClaimInv relates the row to the due times already claimed,  *)
(* RunOK where a run is to what it has read and recorded.                  *)
(*                                                                         *)
(* Timers: one posts at most once, for any number of backends and of runs, *)
(* where one of two things holds (OneAtATime): there is a single backend,  *)
(* whose lock keeps the runs of the timer apart even when one outlives its *)
(* recovery (LockInv), or no run outlives it, and then the row itself      *)
(* keeps them apart (ClaimedInv).  With neither, two backends can post.    *)
(***************************************************************************)
EXTENDS Automations, Timers, WellFoundedInduction, TLAPS

\* What was claimed is past, and is not due again unless an edit put it back
\* or the clock repeats it.
ClaimInv ==
  /\ \A t \in 1..MaxTime : claims[t] > 0 => t <= now
  /\ \A t \in 1..MaxTime : claims[t] > 0 /\ t \notin raced /\ ~Repeats(t) => row.next # t
  /\ ClaimedOnce

\* A run has no row before it announces its end, other than a channel's whose
\* announcement failed; what it goes by is what the reply came to.
RunOK(x) ==
  /\ x.rows # "none" => x.pc \in {"emits", "tells", "over"} \/ (x.pc = "caught" /\ x.kind = "channel")
  /\ x.rows = "twice" => x.kind = "channel"
  /\ x.pc = "success" => x.kind = "channel"
  /\ x.pc \in {"waiting", "reads", "looks", "records"} => x.kind = "chat"
  /\ x.pc = "returns" => x.reply \in {"running", "done", "failed", "early"}
  /\ x.pc = "reads" => x.reply \in {"done", "failed", "early"}
  /\ x.pc \in {"looks", "records"} /\ x.reason = "none" => x.reply \in {"done", "early"}
  /\ x.rows = "success" /\ x.kind = "chat" => x.reply \in {"done", "early"}

RunsInv == \A r \in Runs : RunOK(run[r])

IndInv == TypeOK /\ ClaimInv /\ RunsInv

-----------------------------------------------------------------------------
(* Lemmas about the operators *)

\* A set of naturals has a least member.
LEMMA LeastTime ==
  ASSUME NEW T, T \subseteq Nat, T # {}
  PROVE  \E x \in T : \A y \in T : x <= y
<1>1. \E less : IsWellFoundedOn(less, Nat) /\ \A x, y \in Nat : x < y => <<x, y>> \in less
  <2>1. \A x, y \in Nat : x < y => <<x, y>> \in OpToRel(<, Nat) BY DEF OpToRel
  <2> QED BY <2>1, NatLessThanWellFounded
<1>2. PICK less : IsWellFoundedOn(less, Nat) /\ \A x, y \in Nat : x < y => <<x, y>> \in less
  BY <1>1
<1>3. IsWellFoundedOn(less, Nat) BY <1>2
<1>4. PICK x \in T : \A y \in T : ~(<<y, x>> \in less)
  <2> HIDE <1>2
  <2> QED BY <1>3, WFMin, Zenon
<1>5. \A y \in T : ~(y < x) BY <1>2, <1>4, Zenon
<1>6. \A y \in T : x \in Nat /\ y \in Nat BY <1>4
<1> QED BY <1>5, <1>6

\* Min is such a member.
LEMMA MinOf == ASSUME NEW T, T \subseteq Nat, T # {} PROVE Min(T) \in T
<1>1. \E x \in T : \A y \in T : x <= y BY LeastTime
<1>2. Min(T) = CHOOSE x \in T : \A y \in T : x <= y BY DEF Min
<1> QED BY <1>1, <1>2

\* next_run_ns returns None or a time of the rule, which is after now unless
\* the clock repeats it.
LEMMA NextRunAfter ==
  ASSUME NEW rule \in Rules, NEW t \in 0..MaxTime
  PROVE  /\ NextRun(rule, t) \in 0..MaxTime
         /\ NextRun(rule, t) # 0 => NextRun(rule, t) > t \/ Repeats(NextRun(rule, t))
<1> DEFINE later == {o \in rule : o > Wall[t]}
<1>0. /\ MaxTime \in Nat /\ Wall[t] \in Nat
      /\ \A o \in rule : o \in Nat /\ \E u \in 1..MaxTime : Wall[u] = o
  BY AutomationsAssumption
<1>1. CASE later = {}
  <2>1. NextRun(rule, t) = 0 BY <1>1 DEF NextRun
  <2> QED BY <1>0, <2>1
<1>2. CASE later # {}
  <2> DEFINE shown == Min(later)   T == {u \in 1..MaxTime : Wall[u] = shown}   n == Min(T)
  <2>1. later \subseteq Nat BY <1>0
  <2>2. shown \in later
    <3> HIDE DEF later
    <3> QED BY <1>2, <2>1, MinOf
  <2>3. shown > Wall[t] /\ T \subseteq Nat /\ T # {}
    <3> HIDE DEF shown
    <3> QED BY <1>0, <2>2
  <2>4. n \in T
    <3> HIDE DEF T
    <3> QED BY <2>3, MinOf
  <2>5. NextRun(rule, t) = n BY <1>2, Zenon DEF NextRun, Epoch
  <2>6. n \in 1..MaxTime /\ Wall[n] > Wall[t]
    <3> HIDE DEF shown, n
    <3> QED BY <2>3, <2>4
  <2>7. n > t \/ Repeats(n)
    <3> HIDE DEF n
    <3>1. n # t BY <1>0, <2>6
    <3>2. n < t => t \in 1..MaxTime BY <1>0, <2>6
    <3> QED BY <1>0, <2>6, <3>1, <3>2 DEF Repeats
  <2> HIDE DEF n
  <2> QED BY <1>0, <2>5, <2>6, <2>7
<1> QED BY <1>1, <1>2

\* An answered request, and a row that is gone, are of their types.
LEMMA AnsweredType == AnyRule \in Rules /\ NoRow \in RowType /\ Answered \in EditType
<1>1. AnyRule \in Rules BY AutomationsAssumption DEF AnyRule
<1>2. 0 \in 0..MaxTime BY AutomationsAssumption
<1>3. NoRow \in RowType BY <1>1, <1>2 DEF NoRow, RowType
<1> QED BY <1>1, <1>2, <1>3 DEF Answered, EditType

-----------------------------------------------------------------------------
(* The inductive invariant *)

LEMMA InitInv == Init => IndInv
<1> SUFFICES ASSUME Init PROVE IndInv OBVIOUS
<1>1. PICK rule \in Rules : row = [there |-> TRUE, active |-> TRUE, next |-> NextRun(rule, 0), rule |-> rule]
  BY DEF Init
<1>2. NextRun(rule, 0) \in 0..MaxTime BY NextRunAfter, AutomationsAssumption
<1>3. row \in RowType BY <1>1, <1>2 DEF RowType
<1>4. edit \in [Edits -> EditType]
  <2>1. [Answered EXCEPT !.pc = "none"] \in EditType BY AnsweredType DEF EditType
  <2> QED BY <2>1 DEF Init
<1>5. (CHOOSE p \in Procs : TRUE) \in Procs BY AutomationsAssumption
<1>6. \A r \in Runs : run[r] \in RunType /\ RunOK(run[r])
  BY <1>5 DEF Init, Started, RunType, RunOK
<1>7. run \in [Runs -> RunType] BY <1>6 DEF Init
<1>8. TypeOK BY <1>3, <1>4, <1>7, AutomationsAssumption, SMTT(60) DEF Init, TypeOK
<1>9. ClaimInv BY AutomationsAssumption DEF Init, ClaimInv, ClaimedOnce
<1> QED BY <1>6, <1>8, <1>9 DEF IndInv, RunsInv

LEMMA TickInv == IndInv /\ Tick => IndInv'
<1> SUFFICES ASSUME IndInv, Tick PROVE IndInv' OBVIOUS
<1>1. TypeOK' BY AutomationsAssumption DEF IndInv, TypeOK, Tick
<1>2. ClaimInv' BY AutomationsAssumption DEF IndInv, TypeOK, ClaimInv, ClaimedOnce, Tick
<1>3. RunsInv' BY DEF IndInv, RunsInv, Tick
<1> QED BY <1>1, <1>2, <1>3 DEF IndInv

\* Whoever begins a run begins it without a row.
LEMMA BeginsInv ==
  ASSUME TypeOK, RunsInv, NEW r \in Runs, NEW p \in Procs, Begins(r, p)
  PROVE  run' \in [Runs -> RunType] /\ RunsInv'
<1>1. Started(p) \in RunType /\ RunOK(Started(p)) BY DEF Started, RunType, RunOK
<1>2. run' \in [Runs -> RunType] BY <1>1 DEF TypeOK, Begins
<1>3. \A s \in Runs : RunOK(run'[s])
  <2> SUFFICES ASSUME NEW s \in Runs PROVE RunOK(run'[s]) OBVIOUS
  <2>1. run'[s] = Started(p) \/ run'[s] = run[s] BY DEF TypeOK, Begins
  <2> QED BY <1>1, <2>1 DEF RunsInv
<1> QED BY <1>2, <1>3 DEF RunsInv

LEMMA ClaimKeeps == ASSUME IndInv, NEW r \in Runs, NEW p \in Procs, Claim(r, p) PROVE IndInv'
<1> DEFINE time == row.next
<1>1. row \in RowType /\ now \in 0..MaxTime /\ now \in Nat /\ time \in 1..MaxTime /\ time <= now
  BY AutomationsAssumption DEF IndInv, TypeOK, Claim, RowType
<1>2. /\ NextRun(row.rule, now) \in 0..MaxTime
      /\ NextRun(row.rule, now) # 0 => NextRun(row.rule, now) > now \/ Repeats(NextRun(row.rule, now))
  BY <1>1, NextRunAfter DEF RowType
<1>3. row' \in RowType /\ row'.next = NextRun(row.rule, now)
  BY <1>1, <1>2 DEF Claim, RowType
<1>4. claims' \in [1..MaxTime -> 0..2] BY <1>1 DEF IndInv, TypeOK, Claim
<1>5. run' \in [Runs -> RunType] /\ RunsInv' BY BeginsInv DEF IndInv, Claim
<1>6. TypeOK' BY <1>3, <1>4, <1>5 DEF IndInv, TypeOK, Claim
<1>7. \A t \in 1..MaxTime : t # time => claims'[t] = claims[t]
  BY <1>1 DEF IndInv, TypeOK, Claim
<1>8. claims'[time] > 1 => claims[time] > 0
  BY <1>1 DEF IndInv, TypeOK, Claim
<1>9. ClaimInv'
  <2>1. raced' = raced /\ now' = now BY DEF Claim
  <2>2. \A t \in 1..MaxTime : claims'[t] > 0 => t <= now
    BY <1>1, <1>7 DEF IndInv, ClaimInv
  <2>3. \A t \in 1..MaxTime : claims'[t] > 0 /\ ~Repeats(t) => row'.next # t
    BY <1>1, <1>2, <1>3, <2>2
  <2>4. \A t \in 1..MaxTime : claims'[t] > 1 => t \in raced \/ Repeats(t)
    BY <1>1, <1>7, <1>8 DEF IndInv, ClaimInv, ClaimedOnce
  <2> QED BY <2>1, <2>2, <2>3, <2>4 DEF ClaimInv, ClaimedOnce
<1> QED BY <1>5, <1>6, <1>9 DEF IndInv

LEMMA RunNowKeeps == ASSUME IndInv, NEW r \in Runs, NEW p \in Procs, RunNow(r, p) PROVE IndInv'
<1>1. run' \in [Runs -> RunType] /\ RunsInv' BY BeginsInv DEF IndInv, RunNow
<1>2. TypeOK' BY <1>1 DEF IndInv, TypeOK, RunNow
<1>3. ClaimInv' BY DEF IndInv, ClaimInv, ClaimedOnce, RunNow
<1> QED BY <1>1, <1>2, <1>3 DEF IndInv

\* The edits up to their commit leave everything else alone.
LEMMA EditsKeep ==
  ASSUME IndInv, NEW e \in Edits, EditChecks(e) \/ EditComputes(e) \/ EditLoads(e)
  PROVE  IndInv'
<1>1. UNCHANGED <<now, row, up, run, claims, raced, faults>>
  BY DEF EditChecks, EditComputes, EditLoads
<1>2. edit' \in [Edits -> EditType]
  <2>1. edit \in [Edits -> EditType] /\ row \in RowType /\ now \in 0..MaxTime /\ edit[e] \in EditType
    BY AutomationsAssumption DEF IndInv, TypeOK
  <2>2. CASE EditChecks(e)
    <3>1. PICK op \in {"update", "toggle", "delete"}, rule \in Rules, active \in BOOLEAN :
            edit' = [edit EXCEPT ![e] = [@ EXCEPT !.pc = "checked", !.op = op, !.rule = rule, !.active = active]]
      BY <2>2 DEF EditChecks
    <3>2. [edit[e] EXCEPT !.pc = "checked", !.op = op, !.rule = rule, !.active = active] \in EditType
      BY <2>1 DEF EditType
    <3> QED BY <2>1, <3>1, <3>2
  <2>3. CASE EditComputes(e)
    <3>1. NextRun(edit[e].rule, now) \in 0..MaxTime BY <2>1, NextRunAfter DEF EditType
    <3> QED BY <2>1, <2>3, <3>1 DEF EditComputes, EditType
  <2>4. CASE EditLoads(e) BY <2>1, <2>4, AnsweredType DEF EditLoads, EditType
  <2> QED BY <2>2, <2>3, <2>4
<1>3. TypeOK' BY <1>1, <1>2 DEF IndInv, TypeOK
<1>4. ClaimInv' BY <1>1 DEF IndInv, ClaimInv, ClaimedOnce
<1>5. RunsInv' BY <1>1 DEF IndInv, RunsInv
<1> QED BY <1>3, <1>4, <1>5 DEF IndInv

LEMMA CommitKeeps == ASSUME IndInv, NEW e \in Edits, EditCommits(e) PROVE IndInv'
<1>1. edit[e] \in EditType /\ edit[e].seen \in RowType /\ row \in RowType
  BY DEF IndInv, TypeOK, EditType
<1>2. Edited(e) \in RowType
  <2> DEFINE seen == edit[e].seen  next == edit[e].next  on == ~seen.active /\ next # 0
  <2>1. next \in 0..MaxTime /\ 0 \in 0..MaxTime /\ edit[e].rule \in Rules /\ edit[e].active \in BOOLEAN
    BY <1>1, AutomationsAssumption DEF EditType
  <2>2. [seen EXCEPT !.rule = edit[e].rule, !.active = edit[e].active, !.next = next] \in RowType
    BY <1>1, <2>1 DEF RowType
  <2>3. on \in BOOLEAN /\ (IF on THEN next ELSE 0) \in 0..MaxTime BY <2>1
  <2>4. [seen EXCEPT !.active = on, !.next = IF on THEN next ELSE 0] \in RowType
    <3> HIDE DEF on, next
    <3> QED BY <1>1, <2>3 DEF RowType
  <2> QED BY <2>2, <2>4 DEF Edited
<1>3. row' \in RowType
  <2>1. CASE row.there BY <1>1, <1>2, <2>1 DEF EditCommits, RowType
  <2>2. CASE ~row.there BY <1>1, <2>2 DEF EditCommits
  <2> QED BY <2>1, <2>2
<1>4. raced' = raced \cup {t \in 1..MaxTime : row'.next = t /\ row.next # t /\ claims[t] > 0}
  BY DEF EditCommits
<1>5. UNCHANGED <<now, up, run, claims, faults>> BY DEF EditCommits
<1>6. edit' \in [Edits -> EditType] BY AnsweredType DEF IndInv, TypeOK, EditCommits
<1>7. TypeOK' BY <1>3, <1>4, <1>5, <1>6 DEF IndInv, TypeOK
<1>8. ClaimInv' BY <1>4, <1>5 DEF IndInv, ClaimInv, ClaimedOnce
<1>9. RunsInv' BY <1>5 DEF IndInv, RunsInv
<1> QED BY <1>7, <1>8, <1>9 DEF IndInv

LEMMA DeletesKeep == ASSUME IndInv, NEW e \in Edits, Deletes(e) PROVE IndInv'
<1>1. UNCHANGED <<now, up, run, claims, raced, faults>> BY DEF Deletes
<1>2. row' = row \/ row' = NoRow BY DEF Deletes
<1>3. edit' \in [Edits -> EditType]
  <2>1. edit \in [Edits -> EditType] /\ edit[e] \in EditType BY DEF IndInv, TypeOK
  <2>2. [edit[e] EXCEPT !.pc = "emptied"] \in EditType BY <2>1 DEF EditType
  <2>3. edit' = [edit EXCEPT ![e] = [edit[e] EXCEPT !.pc = "emptied"]] \/ edit' = [edit EXCEPT ![e] = Answered]
    BY DEF Deletes
  <2> QED BY <2>1, <2>2, <2>3, AnsweredType
<1>4. TypeOK' BY <1>1, <1>2, <1>3, AnsweredType DEF IndInv, TypeOK
<1>5. ClaimInv' BY <1>1, <1>2, AutomationsAssumption DEF IndInv, ClaimInv, ClaimedOnce, NoRow
<1>6. RunsInv' BY <1>1 DEF IndInv, RunsInv
<1> QED BY <1>4, <1>5, <1>6 DEF IndInv

\* A step that changes one run keeps the invariant if the new record is good.
LEMMA OneRun ==
  ASSUME IndInv, NEW r \in Runs, NEW x \in RunType, RunOK(x), run' = [run EXCEPT ![r] = x],
         UNCHANGED <<now, row, edit, up, claims, raced>>, faults' \in 0..MaxFaults
  PROVE  IndInv'
<1>1. TypeOK' BY DEF IndInv, TypeOK
<1>2. ClaimInv' BY DEF IndInv, ClaimInv, ClaimedOnce
<1>3. RunsInv'
  <2> SUFFICES ASSUME NEW s \in Runs PROVE RunOK(run'[s]) BY DEF RunsInv
  <2>1. run'[s] = x \/ run'[s] = run[s] BY DEF IndInv, TypeOK
  <2> QED BY <2>1 DEF IndInv, RunsInv
<1> QED BY <1>1, <1>2, <1>3 DEF IndInv

\* The steps of a run, each as the record it makes.
LEMMA StepKeeps == ASSUME IndInv, NEW r \in Runs, Step(r) PROVE IndInv'
<1> DEFINE x == run'[r]
<1>1. run[r] \in RunType /\ RunOK(run[r]) /\ run \in [Runs -> RunType] BY DEF IndInv, TypeOK, RunsInv
<1>2. run' = [run EXCEPT ![r] = x] /\ x \in RunType /\ RunOK(x)
  <2>1. CASE Checks(r) BY <1>1, <2>1 DEF Checks, Goes, RunType, RunOK
  <2>2. CASE Posts(r) BY <1>1, <2>2 DEF Posts, Goes, RunType, RunOK
  <2>3. CASE Dispatches(r) BY <1>1, <2>3 DEF Dispatches, RunType, RunOK
  <2>4. CASE Returns(r) BY <1>1, <2>4 DEF Returns, Goes, RunType, RunOK
  <2>5. CASE Waits(r) BY <1>1, <2>5 DEF Waits, Goes, RunType, RunOK
  <2>6. CASE Reads(r) BY <1>1, <2>6 DEF Reads, Goes, RunType, RunOK
  <2>7. CASE Looks(r) BY <1>1, <2>7 DEF Looks, Goes, RunType, RunOK
  <2>8. CASE Records(r) BY <1>1, <2>8 DEF Records, Inserted, RunType, RunOK
  <2>9. CASE Emits(r) BY <1>1, <2>9 DEF Emits, Goes, RunType, RunOK
  <2> QED BY <2>1, <2>2, <2>3, <2>4, <2>5, <2>6, <2>7, <2>8, <2>9 DEF Step
<1>3. UNCHANGED <<now, row, edit, up, claims, raced>> /\ faults' \in 0..MaxFaults
  BY DEF Step, IndInv, TypeOK
<1> QED BY <1>2, <1>3, OneRun

LEMMA CallFailsKeeps == ASSUME IndInv, NEW r \in Runs, CallFails(r) PROVE IndInv'
<1> DEFINE x == run'[r]
<1>1. run[r] \in RunType /\ RunOK(run[r]) /\ run \in [Runs -> RunType] BY DEF IndInv, TypeOK, RunsInv
<1>2. AfterFailure(r) \in {"looks", "records", "emits", "over", "caught"} BY DEF AfterFailure
<1>3. run' = [run EXCEPT ![r] = x]
  BY <1>1 DEF CallFails
<1>4. /\ x.pc = AfterFailure(r) /\ x.reason = IF run[r].pc = "reads" THEN "error" ELSE run[r].reason
      /\ x.lost = (run[r].lost \/ run[r].pc \in {"records", "caught"})
      /\ x.on = run[r].on /\ x.kind = run[r].kind /\ x.reply = run[r].reply /\ x.rows = run[r].rows
  BY <1>1 DEF CallFails, RunType
<1>5. x \in RunType
  <2> DEFINE to == AfterFailure(r)
             reason == IF run[r].pc = "reads" THEN "error" ELSE run[r].reason
             lost == run[r].lost \/ run[r].pc \in {"records", "caught"}
  <2>1. to \in {"looks", "records", "emits", "over", "caught"} /\ reason \in {"none", "error"} /\ lost \in BOOLEAN
    BY <1>2, <1>1 DEF RunType
  <2>2. x = [run[r] EXCEPT !.pc = to, !.reason = reason, !.lost = lost] BY <1>1 DEF CallFails
  <2> HIDE DEF to, reason, lost, x
  <2> QED BY <1>1, <2>1, <2>2, ZenonT(60) DEF RunType
<1>6. RunOK(x)
  <2>1. run[r].pc \notin {"none", "returns", "waiting", "tells", "over"} BY DEF CallFails
  <2>2. run[r].kind \in {"chat", "channel"} BY <1>1 DEF RunType
  <2>3. /\ run[r].pc = "reads" => x.pc = "looks" /\ x.reason = "error"
        /\ run[r].pc = "looks" => x.pc = "records" /\ x.reason = run[r].reason
        /\ run[r].pc = "records" => x.pc = "emits"
        /\ run[r].pc = "emits" => x.pc = "over" \/ (x.pc = "caught" /\ x.kind = "channel")
        /\ run[r].pc \notin {"reads", "looks", "records", "emits"} => x.pc \in {"over", "caught"}
        /\ run[r].pc = "caught" => x.pc = "over"
    BY <1>4, <2>2 DEF AfterFailure
  <2>4. run[r].rows # "none" => run[r].pc = "emits" \/ run[r].pc = "caught"
    BY <1>1, <2>1 DEF RunOK
  <2>5. x.rows # "none" => x.pc \in {"emits", "tells", "over"} \/ (x.pc = "caught" /\ x.kind = "channel")
    BY <1>4, <2>3, <2>4
  <2>6. x.pc \notin {"success", "waiting", "reads", "returns"} BY <1>2, <1>4
  <2>7. x.pc \in {"looks", "records"} =>
          /\ run[r].pc \in {"reads", "looks"} /\ (x.reason = "none" => run[r].pc = "looks" /\ run[r].reason = "none")
    BY <2>3
  <2> HIDE DEF x
  <2> QED BY <1>1, <1>4, <2>5, <2>6, <2>7 DEF RunOK
<1>7. run' = [run EXCEPT ![r] = x] /\ x \in RunType /\ RunOK(x)
  BY <1>3, <1>5, <1>6
<1>8. UNCHANGED <<now, row, edit, up, claims, raced>> /\ faults' \in 0..MaxFaults
  BY AutomationsAssumption DEF CallFails, Fault, IndInv, TypeOK
<1> QED BY <1>7, <1>8, OneRun

LEMMA ReplyEndsKeeps == ASSUME IndInv, NEW r \in Runs, ReplyEnds(r) PROVE IndInv'
<1> DEFINE x == run'[r]
<1>1. run[r] \in RunType /\ RunOK(run[r]) /\ run \in [Runs -> RunType] BY DEF IndInv, TypeOK, RunsInv
<1>2. run' = [run EXCEPT ![r] = x] /\ x \in RunType /\ RunOK(x)
  BY <1>1 DEF ReplyEnds, RunType, RunOK
<1>3. UNCHANGED <<now, row, edit, up, claims, raced>> /\ faults' \in 0..MaxFaults
  BY DEF ReplyEnds, IndInv, TypeOK
<1> QED BY <1>2, <1>3, OneRun

\* Shutdowns, deaths and restarts: each run is as it was, or is cancelled.
LEMMA BackendsKeep ==
  ASSUME IndInv, NEW p \in Procs,
         StopBegins(p) \/ LoopEnds(p) \/ Exits(p) \/ Crash(p) \/ Restart(p)
  PROVE  IndInv'
<1>1. UNCHANGED <<now, row, edit, claims, raced>>
  BY DEF StopBegins, LoopEnds, Exits, Crash, Restart
<1>2. up' \in [Procs -> {"up", "stopping", "closing", "down"}] /\ faults' \in 0..MaxFaults
  <2>1. up' \in [Procs -> {"up", "stopping", "closing", "down"}]
    BY DEF StopBegins, LoopEnds, Exits, Crash, Restart, IndInv, TypeOK
  <2>2. faults' = faults \/ Fault BY DEF StopBegins, LoopEnds, Exits, Crash, Restart
  <2>3. faults' \in 0..MaxFaults BY <2>2, AutomationsAssumption DEF Fault, IndInv, TypeOK
  <2> QED BY <2>1, <2>3
<1>3. run' \in [Runs -> RunType] /\ RunsInv'
  <2>0. \A r \in Runs : run[r] \in RunType /\ RunOK(run[r]) BY DEF IndInv, TypeOK, RunsInv
  <2>1. CASE run' = run BY <2>1 DEF IndInv, TypeOK, RunsInv
  <2>2. CASE LoopEnds(p)
    <3>1. ASSUME NEW r \in Runs PROVE run'[r] \in RunType /\ RunOK(run'[r])
      <4> DEFINE c == Cancelled(run[r])
      <4>1. run[r] \in RunType /\ RunOK(run[r]) BY <2>0
      <4>2. c \in RunType /\ RunOK(c) /\ c.reply = run[r].reply
            /\ (c.pc \in {"none", "over"} \/ (c.pc = "looks" /\ c.reason = "error"))
        <5>1. CASE run[r].pc \in {"none", "over"}
          <6>1. c = run[r] BY <5>1 DEF Cancelled
          <6> HIDE DEF c
          <6> QED BY <4>1, <5>1, <6>1
        <5>2. CASE run[r].pc = "waiting"
          <6>1. c = [run[r] EXCEPT !.pc = "looks", !.reason = "error"] BY <5>2 DEF Cancelled
          <6> HIDE DEF c
          <6> QED BY <4>1, <5>2, <6>1 DEF RunType, RunOK
        <5>3. CASE run[r].pc \notin {"none", "over", "waiting"}
          <6>1. c = [run[r] EXCEPT !.pc = "over", !.lost = TRUE] BY <5>3 DEF Cancelled
          <6> HIDE DEF c
          <6> QED BY <4>1, <5>3, <6>1 DEF RunType, RunOK
        <5> QED BY <5>1, <5>2, <5>3
      <4>3. [c EXCEPT !.reply = "cut"] \in RunType /\ (run[r].reply = "running" => RunOK([c EXCEPT !.reply = "cut"]))
        <5> HIDE DEF c
        <5> QED BY <4>2 DEF RunType, RunOK
      <4>4. run'[r] = run[r] \/ run'[r] = c \/ (run[r].reply = "running" /\ run'[r] = [c EXCEPT !.reply = "cut"])
        BY <2>2 DEF LoopEnds
      <4> HIDE DEF c
      <4> QED BY <4>1, <4>2, <4>3, <4>4
    <3>2. DOMAIN run' = Runs /\ run' = [r \in Runs |-> run'[r]] BY <2>2 DEF LoopEnds
    <3> QED BY <3>1, <3>2 DEF RunsInv
  <2>3. CASE Crash(p)
    <3>1. ASSUME NEW r \in Runs PROVE run'[r] \in RunType /\ RunOK(run'[r])
      <4> DEFINE reply == IF run[r].reply = "running" THEN "cut" ELSE run[r].reply
                 x == [run[r] EXCEPT !.pc = "over", !.lost = TRUE, !.reply = reply]
      <4>1. run[r] \in RunType /\ RunOK(run[r]) BY <2>0
      <4>2. x \in RunType /\ RunOK(x) BY <4>1, ZenonT(60) DEF RunType, RunOK
      <4>3. run'[r] = run[r] \/ run'[r] = x BY <2>3 DEF Crash
      <4> QED BY <4>1, <4>2, <4>3
    <3>2. DOMAIN run' = Runs /\ run' = [r \in Runs |-> run'[r]] BY <2>3 DEF Crash
    <3> QED BY <3>1, <3>2 DEF RunsInv
  <2> QED BY <2>1, <2>2, <2>3 DEF StopBegins, Exits, Restart
<1>4. TypeOK' BY <1>1, <1>2, <1>3 DEF IndInv, TypeOK
<1>5. ClaimInv' BY <1>1 DEF IndInv, ClaimInv, ClaimedOnce
<1> QED BY <1>3, <1>4, <1>5 DEF IndInv

LEMMA NextInv == IndInv /\ [Next]_vars => IndInv'
<1> SUFFICES ASSUME IndInv, [Next]_vars PROVE IndInv' OBVIOUS
<1>1. CASE UNCHANGED vars
  BY <1>1 DEF vars, IndInv, TypeOK, ClaimInv, ClaimedOnce, RunsInv
<1>2. CASE Next
  BY <1>2, TickInv, ClaimKeeps, RunNowKeeps, EditsKeep, CommitKeeps, DeletesKeep, StepKeeps,
     CallFailsKeeps, ReplyEndsKeeps, BackendsKeep DEF Next
<1> QED BY <1>1, <1>2

\* The invariant holds throughout.
LEMMA Invariance == Spec => []IndInv
<1> QED BY InitInv, NextInv, PTL DEF Spec

-----------------------------------------------------------------------------
(* Theorems *)

\* Rows, requests and runs keep their types.
THEOREM TypeCorrect == Spec => []TypeOK
<1>1. IndInv => TypeOK BY DEF IndInv
<1> QED BY <1>1, Invariance, PTL

\* claim_due and the edits: for any number of backends, rules and clocks, a
\* due time is claimed twice only if an edit wrote it back after the first
\* claim, or the clock, put back, shows it again.
THEOREM DueTimesClaimedOnce == Spec => []ClaimedOnce
<1>1. IndInv => ClaimedOnce BY DEF IndInv, ClaimInv
<1> QED BY <1>1, Invariance, PTL

\* execute_automation records a run twice only in a channel.
THEOREM OneRowEach == Spec => []RowsOnce
<1>1. IndInv => RowsOnce BY DEF IndInv, RunsInv, RunOK, RowsOnce
<1> QED BY <1>1, Invariance, PTL

\* finish_automation_run records a success only of a reply that ended well,
\* or that was stopped before the run began to wait.
THEOREM SuccessesAreReal == Spec => []SuccessIsReal
<1>1. IndInv => SuccessIsReal BY DEF IndInv, RunsInv, RunOK, SuccessIsReal
<1> QED BY <1>1, Invariance, PTL

-----------------------------------------------------------------------------
(* The timers, on the same backends *)

\* The deployments the theorems are about.
OneAtATime == SlowRuns => \A p, q \in Processes : p = q

\* A run that has not posted and may still.
BeforePost == {"checked", "parent", "requeue", "post"}
LiveRun    == BeforePost \cup {"queued"}

\* The process-local lock excludes.
LockInv ==
  \A c, d \in Claims :
    (pc[c] \in Held /\ pc[d] \in Held /\ proc[c] = proc[d]) => c = d

\* Without slow runs the row tells which run is live: a claim turns stale
\* only after its run.
ClaimedInv ==
  ~SlowRuns =>
    /\ \A c, d \in Claims : (pc[c] \in LiveRun /\ pc[d] \in LiveRun) => c = d
    /\ \A c \in Claims : pc[c] \in LiveRun =>
         /\ timer.status # "pending"
         /\ timer.status = "running" => timer.claim = c
    /\ \A c \in stale : pc[c] = "idle"

\* After the post the timer is over, and no run that could post is left.
PostedInv ==
  posts > 0 => /\ timer.status \in {"completed", "cancelled", "error"}
               /\ \A c \in Claims : pc[c] \notin BeforePost

TimerInv == TimerTypeOK /\ LockInv /\ ClaimedInv /\ PostedInv /\ PostedOnce

\* A new timer satisfies the invariant.
LEMMA TimerStarts == TimerInit => TimerInv
<1> SUFFICES ASSUME TimerInit PROVE TimerInv OBVIOUS
<1>1. due \in BOOLEAN /\ busy \in BOOLEAN /\ handled \in BOOLEAN BY DEF TimerInit
<1>2. timer \in Metas BY DEF TimerInit, Metas, Statuses
<1>3. TimerTypeOK BY <1>1, <1>2 DEF TimerInit, TimerTypeOK
<1> QED BY <1>3 DEF TimerInit, TimerInv, LockInv, ClaimedInv, PostedInv, PostedOnce, Held, LiveRun, BeforePost

\* The scheduler keeps the invariant: it claims only a timer no live run
\* has, and recovers only one that has posted nothing.
LEMMA SchedulerStep ==
  ASSUME TimerInv,
         \/ \E c \in Claims, p \in Processes : ClaimDue(c, p)
         \/ \E c \in Claims : Ages(c)
         \/ Recover
  PROVE  TimerInv'
<1> USE DEF TimerInv, TimerTypeOK, LockInv, ClaimedInv, PostedInv, PostedOnce, Held, LiveRun, BeforePost, Metas, Statuses
<1>1. ASSUME NEW c \in Claims, NEW p \in Processes, ClaimDue(c, p) PROVE TimerInv'
  <2>1. due' \in BOOLEAN BY <1>1 DEF ClaimDue
  <2>2. TimerTypeOK' BY <1>1, <2>1 DEF ClaimDue
  <2>3. LockInv' BY <1>1 DEF ClaimDue
  <2>4. ClaimedInv' BY <1>1 DEF ClaimDue
  <2>5. PostedInv' /\ PostedOnce' BY <1>1 DEF ClaimDue
  <2> QED BY <2>2, <2>3, <2>4, <2>5
<1>2. ASSUME NEW c \in Claims, Ages(c) PROVE TimerInv' BY <1>2 DEF Ages
<1>3. CASE Recover
  <2>1. due' \in BOOLEAN BY <1>3 DEF Recover
  <2>2. TimerTypeOK' BY <1>3, <2>1 DEF Recover
  <2> QED BY <1>3, <2>2 DEF Recover
<1> QED BY <1>1, <1>2, <1>3

\* A step of a run keeps the invariant.  The post is the case that needs
\* OneAtATime: no other run may be about to post.
LEMMA TimerRunStep ==
  ASSUME TimerInv, OneAtATime, NEW c \in Claims, Steps(c) \/ Raises(c)
  PROVE  TimerInv'
<1> USE DEF TimerInv, TimerTypeOK, LockInv, ClaimedInv, PostedInv, PostedOnce, Held, LiveRun, BeforePost, Metas, Statuses, Goto, ReadsRow, Closes, Writes
<1>1. CASE Starts(c)
  <2>1. TimerTypeOK' BY <1>1 DEF Starts
  <2>2. LockInv' BY <1>1 DEF Starts, LockFree
  <2>3. ClaimedInv' BY <1>1 DEF Starts
  <2>4. PostedInv' BY <1>1 DEF Starts
  <2> QED BY <1>1, <2>1, <2>2, <2>3, <2>4 DEF Starts
<1>2. CASE Missing(c) BY <1>2 DEF Missing
<1>3. CASE LocksParent(c) BY <1>3 DEF LocksParent
<1>4. CASE ChecksBusy(c) BY <1>4 DEF ChecksBusy
<1>5. CASE Requeues(c)
  <2>1. due' \in BOOLEAN BY <1>5 DEF Requeues
  <2>2. TimerTypeOK' BY <1>5, <2>1 DEF Requeues
  <2>3. ClaimedInv' BY <1>5 DEF Requeues
  <2>4. LockInv' /\ PostedInv' /\ PostedOnce' BY <1>5 DEF Requeues
  <2> QED BY <2>2, <2>3, <2>4
<1>6. CASE PostsPrompt(c)
  <2>1. posts = 0 /\ posts' = 1 BY <1>6 DEF PostsPrompt
  <2>2. \A d \in Claims : pc[d] \in BeforePost => d = c
    BY <1>6 DEF PostsPrompt, OneAtATime
  <2>3. TimerTypeOK' BY <1>6, <2>1 DEF PostsPrompt
  <2>4. LockInv' /\ ClaimedInv' BY <1>6 DEF PostsPrompt
  <2>5. PostedInv' /\ PostedOnce' BY <1>6, <2>1, <2>2 DEF PostsPrompt
  <2> QED BY <2>3, <2>4, <2>5
<1>7. CASE Replies(c) BY <1>7 DEF Replies
<1>8. CASE SetsError(c) BY <1>8 DEF SetsError
<1>9. CASE ReadsForError(c) BY <1>9 DEF ReadsForError
<1>10. CASE RecordsError(c) BY <1>10 DEF RecordsError
<1>11. CASE Raises(c) BY <1>11 DEF Raises
<1> QED BY <1>1, <1>2, <1>3, <1>4, <1>5, <1>6, <1>7, <1>8, <1>9, <1>10, <1>11
        DEF Steps

\* The chat's events and a crash keep the invariant.
LEMMA OutsideStep ==
  ASSUME TimerInv,
         \/ CancelReads \/ CancelWrites \/ Busy
         \/ \E p \in Processes : Dies(p)
  PROVE  TimerInv'
<1> USE DEF TimerInv, TimerTypeOK, LockInv, ClaimedInv, PostedInv, PostedOnce, Held, LiveRun, BeforePost, Metas, Statuses
<1>1. CASE CancelReads BY <1>1 DEF CancelReads
<1>2. CASE CancelWrites
  <2>1. due' \in BOOLEAN /\ handled' \in BOOLEAN BY <1>2 DEF CancelWrites
  <2>2. TimerTypeOK' BY <1>2, <2>1 DEF CancelWrites
  <2> QED BY <1>2, <2>2 DEF CancelWrites
<1>3. CASE Busy
  <2>1. busy' \in BOOLEAN BY <1>3 DEF Busy
  <2> QED BY <1>3, <2>1 DEF Busy
<1>4. ASSUME NEW p \in Processes, Dies(p) PROVE TimerInv'
  <2>1. \A c \in Claims : pc'[c] \in {pc[c], "idle"} BY <1>4 DEF Dies
  <2>2. TimerTypeOK' BY <1>4 DEF Dies
  <2>3. LockInv' BY <1>4, <2>1 DEF Dies
  <2>4. ClaimedInv' BY <1>4, <2>1 DEF Dies
  <2>5. PostedInv' /\ PostedOnce' BY <1>4, <2>1 DEF Dies
  <2> QED BY <2>2, <2>3, <2>4, <2>5
<1> QED BY <1>1, <1>2, <1>3, <1>4

\* Every reachable state satisfies the inductive invariant.
THEOREM TimerInvariance == OneAtATime /\ TimerSpec => []TimerInv
<1>1. TimerInit => TimerInv BY TimerStarts
<1>2. OneAtATime /\ TimerInv /\ [TimerNext]_timerVars => TimerInv'
  <2> SUFFICES ASSUME OneAtATime, TimerInv, [TimerNext]_timerVars PROVE TimerInv' OBVIOUS
  <2>1. CASE TimerNext BY <2>1, SchedulerStep, TimerRunStep, OutsideStep DEF TimerNext
  <2>2. CASE UNCHANGED timerVars
    BY <2>2 DEF TimerInv, TimerTypeOK, LockInv, ClaimedInv, PostedInv, PostedOnce, timerVars
  <2> QED BY <2>1, <2>2
<1>3. OneAtATime => OneAtATime' BY DEF OneAtATime
<1> QED BY <1>1, <1>2, <1>3, PTL DEF TimerSpec

\* Type correctness of Timers, and that a pending timer is unclaimed.
THEOREM TimersTypeCorrect == OneAtATime /\ TimerSpec => []TimerTypeOK
<1>1. TimerInv => TimerTypeOK BY DEF TimerInv
<1> QED BY <1>1, TimerInvariance, PTL

\* The prompt is posted at most once.
THEOREM PostsAtMostOnce == OneAtATime /\ TimerSpec => []PostedOnce
<1>1. TimerInv => PostedOnce BY DEF TimerInv
<1> QED BY <1>1, TimerInvariance, PTL

\* A timer that has posted is never given back to the scheduler.
THEOREM PostIsFinal == OneAtATime /\ TimerSpec => []NeverRefires
<1>1. TimerInv => NeverRefires BY DEF TimerInv, PostedInv, NeverRefires
<1> QED BY <1>1, TimerInvariance, PTL
=============================================================================
