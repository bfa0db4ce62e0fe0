----------------------------- MODULE Automations -----------------------------
(***************************************************************************)
(* One automation (utils/automations.py, models/automations.py and         *)
(* routers/automations.py): its row in the database, the schedulers of all *)
(* backends that claim its due runs, the requests that edit it, and each   *)
(* run from its claim to its row in the history.                           *)
(*                                                                         *)
(* A recurrence rule is the set of its times on the wall clock; times are  *)
(* numbers.  Prompts, models and permissions are left out: where the code  *)
(* decides on them the model has both outcomes.                            *)
(***************************************************************************)
EXTENDS Naturals, FiniteSetsExt

CONSTANTS Procs,     \* backends on one database
          Runs,      \* runs at a time; an identity is used again once its run is over
          Edits,     \* /update, /toggle and /delete requests, each made once
          Wall,      \* what the clock of the user's time zone shows at each time
          Rules,     \* the recurrence rules, whose times the clock shows
          MaxTime,   \* bound: the clock
          MaxFaults  \* bound: failing calls, shutdowns and deaths

ASSUME AutomationsAssumption ==
  /\ MaxTime \in Nat /\ MaxFaults \in Nat /\ Procs # {}
  /\ Wall \in [0..MaxTime -> Nat]
  /\ Rules # {} /\ \A rule \in Rules : rule # {} /\ rule \subseteq {Wall[t] : t \in 1..MaxTime}

VARIABLES
  now,     \* the clock
  row,     \* [there, active, next (0 for None), rule]
  edit,    \* each request: where it is, and what it has computed and read
  up,      \* each backend
  run,     \* each run
  claims,  \* history: how often each due time was claimed
  raced,   \* history: due times an edit put back after they were claimed
  faults

vars == <<now, row, edit, up, run, claims, raced, faults>>

RowType == [there : BOOLEAN, active : BOOLEAN, next : 0..MaxTime, rule : Rules]

\* `rule` and `active` are the form's, `seen` is the row as db.get read it.
EditType == [pc : {"none", "checked", "computed", "loaded", "emptied", "over"},
             op : {"update", "toggle", "delete"}, rule : Rules, active : BOOLEAN, next : 0..MaxTime,
             seen : RowType]

\* `reason` is the error finish_automation_run has been given or has found,
\* `rows` what was inserted in the history, `lost` that the run's task was
\* cancelled where nothing catches it, or an insert failed.
RunType == [pc : {"none", "starts", "posts", "dispatches", "returns", "waiting", "reads", "looks",
                  "records", "emits", "refused", "success", "caught", "tells", "over"},
            on : Procs, kind : {"chat", "channel"},
            reply : {"none", "running", "done", "failed", "stopped", "early", "cut"},
            reason : {"none", "error"}, rows : {"none", "success", "error", "twice"}, lost : BOOLEAN]

TypeOK ==
  /\ now \in 0..MaxTime /\ row \in RowType
  /\ edit \in [Edits -> EditType]
  /\ up \in [Procs -> {"up", "stopping", "closing", "down"}]
  /\ run \in [Runs -> RunType]
  /\ claims \in [1..MaxTime -> 0..2] /\ raced \subseteq 1..MaxTime /\ faults \in 0..MaxFaults

\* when.replace(tzinfo=zi).timestamp(): of the times at which the clock shows
\* `shown` it is the first (fold is 0).
Epoch(shown) == Min({t \in 1..MaxTime : Wall[t] = shown})

\* Mutant: the occurrence at this very moment counts as a next one.
NextRunInclusive(rule, t) ==
  LET later == {o \in rule : o >= Wall[t]} IN IF later = {} THEN 0 ELSE Epoch(Min(later))

\* next_run_ns: the rule's first time that is later on the wall clock, if any.
NextRun(rule, t) ==
  LET later == {o \in rule : o > Wall[t]} IN IF later = {} THEN 0 ELSE Epoch(Min(later))

\* A run as execute_automation begins it.
Started(p) == [pc |-> "starts", on |-> p, kind |-> "chat", reply |-> "none", reason |-> "none",
               rows |-> "none", lost |-> FALSE]

\* A request that has been answered remembers nothing.
AnyRule  == CHOOSE rule \in Rules : TRUE
NoRow    == [there |-> FALSE, active |-> FALSE, next |-> 0, rule |-> AnyRule]
Answered == [pc |-> "over", op |-> "update", rule |-> AnyRule, active |-> FALSE, next |-> 0, seen |-> NoRow]

Init ==
  /\ now = 0
  /\ row \in {[there |-> TRUE, active |-> TRUE, next |-> NextRun(rule, 0), rule |-> rule] : rule \in Rules}
  /\ edit = [e \in Edits |-> [Answered EXCEPT !.pc = "none"]]
  /\ up = [p \in Procs |-> "up"]
  /\ run = [r \in Runs |-> [Started(CHOOSE p \in Procs : TRUE) EXCEPT !.pc = "none"]]
  /\ claims = [t \in 1..MaxTime |-> 0] /\ raced = {} /\ faults = 0

Fault == faults < MaxFaults /\ faults' = faults + 1

Tick ==
  /\ now < MaxTime /\ now' = now + 1
  /\ UNCHANGED <<row, edit, up, run, claims, raced, faults>>

-----------------------------------------------------------------------------
(* The scheduler, and POST /run *)

\* run_in_background(execute_automation(..)) in backend p.
Begins(r, p) ==
  /\ run[r].pc \in {"none", "over"} /\ up[p] \in {"up", "stopping"}
  /\ run' = [run EXCEPT ![r] = Started(p)]

\* claim_due holds the row's lock; its commit precedes the run's start.
Claim(r, p) ==
  /\ row.there /\ row.active /\ row.next \in 1..now
  /\ Begins(r, p)
  /\ row' = [row EXCEPT !.next = NextRun(row.rule, now), !.active = NextRun(row.rule, now) # 0]
  /\ claims' = [claims EXCEPT ![row.next] = IF @ < 2 THEN @ + 1 ELSE @]
  /\ UNCHANGED <<now, edit, up, raced, faults>>

\* POST /run.
RunNow(r, p) ==
  /\ row.there /\ Begins(r, p)
  /\ UNCHANGED <<now, row, edit, up, claims, raced, faults>>

-----------------------------------------------------------------------------
(* POST /update, POST /toggle and DELETE /delete *)

\* The request's own read and checks: validate_rrule refuses a rule that has
\* no time left.
EditChecks(e) ==
  /\ edit[e].pc = "none" /\ row.there
  /\ \E op \in {"update", "toggle", "delete"}, rule \in Rules, active \in BOOLEAN :
       /\ op = "update" => NextRun(rule, now) # 0
       /\ op # "update" => rule = row.rule /\ active
       /\ edit' = [edit EXCEPT ![e] = [@ EXCEPT !.pc = "checked", !.op = op, !.rule = rule, !.active = active]]
  /\ UNCHANGED <<now, row, up, run, claims, raced, faults>>

\* next_run_ns, after the limits have been looked up.
EditComputes(e) ==
  /\ edit[e].pc = "checked" /\ edit[e].op # "delete"
  /\ edit' = [edit EXCEPT ![e].pc = "computed", ![e].next = NextRun(edit[e].rule, now)]
  /\ UNCHANGED <<now, row, up, run, claims, raced, faults>>

\* db.get in update_by_id and toggle; without the row nothing is changed.
EditLoads(e) ==
  /\ edit[e].pc = "computed"
  /\ edit' = [edit EXCEPT ![e] = IF row.there THEN [@ EXCEPT !.pc = "loaded", !.seen = row] ELSE Answered]
  /\ UNCHANGED <<now, row, up, run, claims, raced, faults>>

\* What the request makes of the row it has read: toggle does not switch on
\* a rule without a next run.
Edited(e) ==
  LET seen == edit[e].seen  next == edit[e].next  on == ~seen.active /\ next # 0 IN
  IF edit[e].op = "update" THEN [seen EXCEPT !.rule = edit[e].rule, !.active = edit[e].active, !.next = next]
  ELSE [seen EXCEPT !.active = on, !.next = IF on THEN next ELSE 0]

\* The commit: an UPDATE of the columns that differ from what was read.
EditCommits(e) ==
  LET new == Edited(e)  seen == edit[e].seen IN
  /\ edit[e].pc = "loaded"
  /\ row' = IF row.there
            THEN [row EXCEPT !.next = IF new.next # seen.next THEN new.next ELSE @,
                             !.active = IF new.active # seen.active THEN new.active ELSE @,
                             !.rule = IF new.rule # seen.rule THEN new.rule ELSE @]
            ELSE row
  /\ raced' = raced \cup {t \in 1..MaxTime : row'.next = t /\ row.next # t /\ claims[t] > 0}
  /\ edit' = [edit EXCEPT ![e] = Answered]
  /\ UNCHANGED <<now, up, run, claims, faults>>

\* delete_by_automation takes the history, and delete the row.
Deletes(e) ==
  /\ edit[e].op = "delete"
  /\ \/ edit[e].pc = "checked" /\ edit' = [edit EXCEPT ![e].pc = "emptied"] /\ UNCHANGED row
     \/ edit[e].pc = "emptied" /\ edit' = [edit EXCEPT ![e] = Answered] /\ row' = NoRow
  /\ UNCHANGED <<now, up, run, claims, raced, faults>>

-----------------------------------------------------------------------------
(* execute_automation *)

Goes(r, where) == run' = [run EXCEPT ![r].pc = where]

\* A row in the history: a run that has one already has two.
Inserted(r, status, where) ==
  run' = [run EXCEPT ![r].pc = where, ![r].rows = IF @ = "none" THEN status ELSE "twice"]

\* The owner is gone or no longer permitted; or the prompt and the token are
\* made, for a chat or for a channel.
Checks(r) ==
  /\ run[r].pc = "starts"
  /\ \/ Goes(r, "refused")
     \/ \E kind \in {"chat", "channel"} : run' = [run EXCEPT ![r].pc = "posts", ![r].kind = kind]

\* insert_new_chat, which may return None, or new_message_handler.
Posts(r) ==
  /\ run[r].pc = "posts"
  /\ \/ Goes(r, "dispatches")
     \/ run[r].kind = "chat" /\ Goes(r, "refused")

\* CHAT_COMPLETION_HANDLER starts the reply's task, and later returns.
Dispatches(r) ==
  /\ run[r].pc = "dispatches"
  /\ run' = [run EXCEPT ![r].pc = "returns", ![r].reply = "running"]

\* The handler has returned.  A channel's run does not wait; _wait_for_reply
\* finds the task in `tasks`, or takes it to have ended.
Returns(r) ==
  /\ run[r].pc = "returns"
  /\ Goes(r, IF run[r].kind = "channel" THEN "success"
             ELSE IF run[r].reply = "running" THEN "waiting" ELSE "reads")

\* Mutant: the wait does not ask whether the reply's task was cancelled.
WaitsUnasked(r) ==
  /\ run[r].pc = "waiting"
  /\ \/ run[r].reply = "running" /\ run' = [run EXCEPT ![r].pc = "looks", ![r].reason = "error"]
     \/ run[r].reply # "running" /\ Goes(r, "reads")

\* asyncio.wait: the reply outlasts it, was cancelled, or has ended.  A
\* cancellation by the shutdown is recorded under shield.
Waits(r) ==
  /\ run[r].pc = "waiting"
  /\ \/ run[r].reply \in {"running", "stopped"} /\ run' = [run EXCEPT ![r].pc = "looks", ![r].reason = "error"]
     \/ run[r].reply \in {"done", "failed"} /\ Goes(r, "reads")

\* _reply_error: the stored message, which a stopped reply saves as done if
\* it had begun to stream, and which may be gone with its chat.
Reads(r) ==
  /\ run[r].pc = "reads"
  /\ \/ run[r].reply \in {"done", "stopped", "early"} /\ Goes(r, "looks")
     \/ run' = [run EXCEPT ![r].pc = "looks", ![r].reason = "error"]

\* An automation deleted meanwhile gets no row.
Looks(r) ==
  /\ run[r].pc = "looks" /\ Goes(r, IF row.there THEN "records" ELSE "over")

\* _record_run: in finish_automation_run, for a refusal, for a channel, and
\* in the except clause.
Records(r) ==
  \/ run[r].pc = "records" /\ Inserted(r, IF run[r].reason = "none" THEN "success" ELSE "error", "emits")
  \/ run[r].pc = "refused" /\ Inserted(r, "error", "tells")
  \/ run[r].pc = "success" /\ Inserted(r, "success", "emits")
  \/ run[r].pc = "caught" /\ Inserted(r, "error", "tells")

\* automation:result and publish_event, or that event alone.
Emits(r) == run[r].pc \in {"emits", "tells"} /\ Goes(r, "over")

\* Mutant: finish_automation_run lets a failing emit through.
AfterFailureUncaught(r) ==
  IF run[r].pc = "reads" THEN "looks" ELSE IF run[r].pc = "looks" THEN "records"
  ELSE IF run[r].pc = "records" THEN "emits"
  ELSE IF run[r].pc = "caught" THEN "over" ELSE "caught"

\* Where a call that raises leads: finish_automation_run goes on, anything
\* before it, and all of a channel's run, is caught, and what the except
\* clause itself raises ends the task.  publish_event logs what its sinks
\* raise.
AfterFailure(r) ==
  IF run[r].pc = "reads" THEN "looks" ELSE IF run[r].pc = "looks" THEN "records"
  ELSE IF run[r].pc = "records" THEN "emits"
  ELSE IF run[r].pc = "caught" \/ (run[r].pc = "emits" /\ run[r].kind = "chat") THEN "over" ELSE "caught"

CallFails(r) ==
  /\ run[r].pc \notin {"none", "returns", "waiting", "tells", "over"} /\ up[run[r].on] # "down" /\ Fault
  /\ run' = [run EXCEPT ![r].pc = AfterFailure(r),
                        ![r].reason = IF run[r].pc = "reads" THEN "error" ELSE @,
                        ![r].lost = @ \/ run[r].pc \in {"records", "caught"}]
  /\ UNCHANGED <<now, row, edit, up, claims, raced>>

\* The steps of a run, while its backend's loop goes on.
Step(r) ==
  /\ up[run[r].on] # "down"
  /\ \/ Checks(r) \/ Posts(r) \/ Dispatches(r) \/ Returns(r) \/ Waits(r) \/ Reads(r) \/ Looks(r)
     \/ Records(r) \/ Emits(r)
  /\ UNCHANGED <<now, row, edit, up, claims, raced, faults>>

\* The reply saves its message, finished or with its error; or it is stopped,
\* by a user or by stop_all_tasks, maybe ("early") before the handler has
\* returned its id.  An end that no run waits for is left out.
ReplyEnds(r) ==
  /\ run[r].reply = "running" /\ run[r].pc \in {"returns", "waiting"}
  /\ \E end \in {"done", "failed", IF run[r].pc = "waiting" THEN "stopped" ELSE "early"} :
       run' = [run EXCEPT ![r].reply = end]
  /\ UNCHANGED <<now, row, edit, up, claims, raced, faults>>

-----------------------------------------------------------------------------
(* The backends *)

\* _shutdown begins, and stops the replies; the scheduler goes on for a while.
StopBegins(p) ==
  /\ up[p] = "up" /\ Fault
  /\ up' = [up EXCEPT ![p] = "stopping"]
  /\ UNCHANGED <<now, row, edit, run, claims, raced>>

\* Mutant: a run that is cancelled while it waits is not recorded.
CancelledUnrecorded(run0) ==
  IF run0.pc \in {"none", "over"} THEN run0 ELSE [run0 EXCEPT !.pc = "over", !.lost = @ \/ run0.pc # "waiting"]

\* What the end of the loop makes of a run: its wait records the interruption
\* in a new task under shield; a task that exists is cancelled, shielded or
\* not.
Cancelled(run0) ==
  IF run0.pc \in {"none", "over"} THEN run0
  ELSE IF run0.pc = "waiting" THEN [run0 EXCEPT !.pc = "looks", !.reason = "error"]
  ELSE [run0 EXCEPT !.pc = "over", !.lost = TRUE]

\* The lifespan is over and asyncio.run cancels all tasks.
LoopEnds(p) ==
  /\ up[p] = "stopping"
  /\ up' = [up EXCEPT ![p] = "closing"]
  /\ run' = [r \in Runs |-> IF run[r].on # p THEN run[r]
                            ELSE IF run[r].reply = "running" THEN [Cancelled(run[r]) EXCEPT !.reply = "cut"]
                            ELSE Cancelled(run[r])]
  /\ UNCHANGED <<now, row, edit, claims, raced, faults>>

\* The tasks that were cancelled have ended, and the process with them.
Exits(p) ==
  /\ up[p] = "closing" /\ \A r \in Runs : run[r].on = p => run[r].pc \in {"none", "over"}
  /\ up' = [up EXCEPT ![p] = "down"]
  /\ UNCHANGED <<now, row, edit, run, claims, raced, faults>>

\* The backend dies.
Crash(p) ==
  /\ up[p] # "down" /\ Fault
  /\ up' = [up EXCEPT ![p] = "down"]
  /\ run' = [r \in Runs |-> IF run[r].on # p \/ run[r].pc \in {"none", "over"} THEN run[r]
                            ELSE [run[r] EXCEPT !.pc = "over", !.lost = TRUE, !.reply = IF @ = "running" THEN "cut" ELSE @]]
  /\ UNCHANGED <<now, row, edit, claims, raced>>

Restart(p) ==
  /\ up[p] = "down" /\ up' = [up EXCEPT ![p] = "up"]
  /\ UNCHANGED <<now, row, edit, run, claims, raced, faults>>

Next ==
  \/ Tick
  \/ \E r \in Runs, p \in Procs : Claim(r, p) \/ RunNow(r, p)
  \/ \E e \in Edits : EditChecks(e) \/ EditComputes(e) \/ EditLoads(e) \/ EditCommits(e) \/ Deletes(e)
  \/ \E r \in Runs : Step(r) \/ CallFails(r) \/ ReplyEnds(r)
  \/ \E p \in Procs : StopBegins(p) \/ LoopEnds(p) \/ Exits(p) \/ Crash(p) \/ Restart(p)

Spec == Init /\ [][Next]_vars

\* The event loop goes on with every run; no reply has to end.
FairSpec == Spec /\ \A r \in Runs : WF_vars(Step(r))

-----------------------------------------------------------------------------
(* Properties *)

\* The times that the clock, put back, shows again.
Repeats(t) == \E u \in 1..MaxTime : u > t /\ Wall[u] < Wall[t]

\* claim_due: the row can never be double-claimed.  A due time is claimed a
\* second time, by whichever backend, only if an edit that had computed its
\* next run before the claim wrote it back after the claim; or in the hour
\* that the end of daylight saving time repeats, where next_run_ns returns
\* times of the hour's first pass, which are past.
ClaimedOnce == \A t \in 1..MaxTime : claims[t] > 1 => t \in raced \/ Repeats(t)

\* A run has two rows in the history only if it went to a channel, whose
\* success is recorded before its announcement can fail.
RowsOnce == \A r \in Runs : run[r].rows = "twice" => run[r].kind = "channel"

\* #264: a chat's run is a success only if its reply ended well, or was
\* stopped before the run began to wait for it, and never while it runs.
SuccessIsReal == \A r \in Runs : run[r].rows = "success" /\ run[r].kind = "chat" =>
  run[r].reply \in {"done", "early"}

\* A run that began gets its row, also when its backend is told to stop while
\* it waits for the reply, unless the automation was deleted, the backend
\* died or ended its loop at another of the run's steps, or the insert failed.
RunRecorded == \A r \in Runs :
  run[r].pc = "starts" ~> (run[r].pc = "over" /\ (run[r].rows # "none" \/ run[r].lost \/ ~row.there))
=============================================================================
