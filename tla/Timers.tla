------------------------------- MODULE Timers -------------------------------
(***************************************************************************)
(* The life of one chat timer (utils/timers.py): claimed by the scheduler  *)
(* of some backend process (utils/automations.py), run, and either posted  *)
(* into its parent chat, put back because the chat is busy, failed, or     *)
(* cancelled by an event of the chat.                                      *)
(*                                                                         *)
(* The timer is a row: its meta (status and claim, always written as a     *)
(* whole from what the transaction read) and the column timer_at.  A claim *)
(* and a recovery lock the row (FOR UPDATE SKIP LOCKED), so they are one   *)
(* action; every other transaction reads the row first and writes it later *)
(* without a lock, so it is two, with what it read in between.             *)
(*                                                                         *)
(* A run is named by its claim id.  The id is fresh in the code; here it   *)
(* may come back when nothing mentions it any more, which bounds the       *)
(* number of runs at one time and not the number of claims.                *)
(***************************************************************************)
EXTENDS Naturals, FiniteSets

CONSTANTS Processes,      \* backend processes, each with its own _timer_locks
          Claims,     \* claim ids, hence runs
          NoClaim,    \* timer_claim_id is None
          SlowRuns    \* a run may last longer than STALE_RUNNING_NS

ASSUME TimerAssumption ==
  /\ NoClaim \notin Claims
  /\ SlowRuns \in BOOLEAN

VARIABLES
  timer,    \* the timer's meta: its status and its timer_claim_id
  due,      \* the column timer_at is set (and in the past)
  pc,       \* where each run is
  proc,     \* the process of each run
  read,     \* the timer_claim_id each run's open transaction has read
  stale,    \* the claims made more than STALE_RUNNING_NS ago
  cancel,   \* cancel_timers_for_chat: no call, or what the call has read
  busy,     \* has_active_tasks of the parent chat
  posts,    \* history: how often the prompt was posted, up to 2
  handled   \* history: a cancel event of the chat was handled

timerVars == <<timer, due, pc, proc, read, stale, cancel, busy, posts, handled>>

Statuses == {"pending", "running", "completed", "cancelled", "error"}
Metas == [status : Statuses, claim : Claims \cup {NoClaim}]
Held  == {"checked", "parent", "requeue", "post", "reply", "failing"}

TimerTypeOK ==
  /\ timer \in Metas
  /\ timer.status = "pending" => timer.claim = NoClaim
  /\ due \in BOOLEAN
  /\ pc \in [Claims -> {"idle", "queued", "failed", "recording"} \cup Held]
  /\ proc \in [Claims -> Processes]
  /\ read \in [Claims -> Claims \cup {NoClaim}]
  /\ stale \subseteq Claims
  /\ cancel \in {"none", "pending", "other"}
  /\ busy \in BOOLEAN
  /\ posts \in 0..2
  /\ handled \in BOOLEAN

\* create_timer has inserted the row.
TimerInit ==
  /\ timer = [status |-> "pending", claim |-> NoClaim]
  /\ due = TRUE
  /\ pc = [c \in Claims |-> "idle"]
  /\ proc \in [Claims -> Processes]
  /\ read = [c \in Claims |-> NoClaim]
  /\ stale = {}
  /\ cancel = "none"
  /\ busy = FALSE
  /\ posts = 0
  /\ handled = FALSE

Unused(c) ==
  /\ pc[c] = "idle" /\ timer.claim # c
  /\ \A d \in Claims : read[d] # c

-----------------------------------------------------------------------------
(* The scheduler *)

\* claim_due_timers, and the run in the background.
ClaimDue(c, p) ==
  /\ due /\ timer.status = "pending"
  /\ Unused(c)
  /\ timer' = [status |-> "running", claim |-> c]
  /\ due' = FALSE
  /\ pc' = [pc EXCEPT ![c] = "queued"]
  /\ proc' = [proc EXCEPT ![c] = p]
  /\ stale' = stale \ {c}
  /\ UNCHANGED <<read, cancel, busy, posts, handled>>

\* STALE_RUNNING_NS elapse for a claim still on the row.
Ages(c) ==
  /\ timer.status = "running" /\ timer.claim = c /\ c \notin stale
  /\ SlowRuns \/ pc[c] = "idle"
  /\ stale' = stale \cup {c}
  /\ UNCHANGED <<timer, due, pc, proc, read, cancel, busy, posts, handled>>

\* Mutant: every stale timer is recovered, whatever became of it.
RecoverAnyStatus ==
  /\ timer.claim \in stale
  /\ timer' = [status |-> "pending", claim |-> NoClaim]
  /\ due' = TRUE
  /\ UNCHANGED <<pc, proc, read, stale, cancel, busy, posts, handled>>

\* Mutant: recovery resets the status and leaves timer_at empty.
RecoverNotDue ==
  /\ timer.status = "running" /\ timer.claim \in stale
  /\ timer' = [status |-> "pending", claim |-> NoClaim]
  /\ UNCHANGED <<due, pc, proc, read, stale, cancel, busy, posts, handled>>

\* Mutant: recovery finds nothing.
RecoverNothing == FALSE /\ UNCHANGED timerVars

\* recover_stale_timers.
Recover ==
  /\ timer.status = "running" /\ timer.claim \in stale
  /\ timer' = [status |-> "pending", claim |-> NoClaim]
  /\ due' = TRUE
  /\ UNCHANGED <<pc, proc, read, stale, cancel, busy, posts, handled>>

-----------------------------------------------------------------------------
(* execute_due_timer *)

Goto(c, at) == pc' = [pc EXCEPT ![c] = at]

\* The run's transaction reads the row and goes on at "at".
ReadsRow(c, at) ==
  /\ Goto(c, at)
  /\ read' = [read EXCEPT ![c] = timer.claim]

\* The run's transaction ends, and the run goes on at "at".
Closes(c, at) ==
  /\ Goto(c, at)
  /\ read' = [read EXCEPT ![c] = NoClaim]

\* The commit writes the meta that was read, with a new status.
Writes(c, status) == timer' = [status |-> status, claim |-> read[c]]

LockFree(p) == \A d \in Claims : pc[d] \in Held => proc[d] # p

\* The run has the timer's lock and looks at the row: it is still its claim,
\* or the run ends.
Starts(c) ==
  /\ pc[c] = "queued" /\ LockFree(proc[c])
  /\ Goto(c, IF timer = [status |-> "running", claim |-> c] THEN "checked" ELSE "idle")
  /\ UNCHANGED <<timer, due, proc, read, stale, cancel, busy, posts, handled>>

\* The parent, the prompt, the user or the model is gone: _set_timer_state,
\* which does not look at the claim.
Missing(c) ==
  /\ pc[c] \in {"checked", "parent"}
  /\ ReadsRow(c, "failing")
  /\ UNCHANGED <<timer, due, proc, stale, cancel, busy, posts, handled>>

\* The parent's row is locked, across processes.
LocksParent(c) ==
  /\ pc[c] = "checked"
  /\ \A d \in Claims : pc[d] \notin {"parent", "requeue", "post"}
  /\ Goto(c, "parent")
  /\ UNCHANGED <<timer, due, proc, read, stale, cancel, busy, posts, handled>>

\* has_active_tasks answers; the transaction reads the timer.
ChecksBusy(c) ==
  /\ pc[c] = "parent"
  /\ ReadsRow(c, IF busy THEN "requeue" ELSE "post")
  /\ UNCHANGED <<timer, due, proc, stale, cancel, busy, posts, handled>>

\* The chat is busy: back to pending.
Requeues(c) ==
  /\ pc[c] = "requeue"
  /\ timer' = [status |-> "pending", claim |-> NoClaim]
  /\ due' = TRUE
  /\ Closes(c, "idle")
  /\ UNCHANGED <<proc, stale, cancel, busy, posts, handled>>

\* Mutant: the messages are committed and the timer is not completed with
\* them.
PostsAlone(c) ==
  /\ pc[c] = "post"
  /\ posts' = IF posts < 2 THEN posts + 1 ELSE posts
  /\ Closes(c, "reply")
  /\ UNCHANGED <<timer, due, proc, stale, cancel, busy, handled>>

\* One commit writes the messages and completes the timer.
PostsPrompt(c) ==
  /\ pc[c] = "post"
  /\ Writes(c, "completed")
  /\ posts' = IF posts < 2 THEN posts + 1 ELSE posts
  /\ Closes(c, "reply")
  /\ UNCHANGED <<due, proc, stale, cancel, busy, handled>>

\* CHAT_COMPLETION_HANDLER returns, or raises: _set_timer_state.
Replies(c) ==
  /\ pc[c] = "reply"
  /\ \/ Goto(c, "idle") /\ UNCHANGED read
     \/ ReadsRow(c, "failing")
  /\ UNCHANGED <<timer, due, proc, stale, cancel, busy, posts, handled>>

\* The commit of _set_timer_state(..., 'error').
SetsError(c) ==
  /\ pc[c] = "failing"
  /\ Writes(c, "error")
  /\ Closes(c, "idle")
  /\ UNCHANGED <<due, proc, stale, cancel, busy, posts, handled>>

\* An exception leaves _execute_due_timer, and with it the lock.
Raises(c) ==
  /\ pc[c] \in Held
  /\ Closes(c, "failed")
  /\ UNCHANGED <<timer, due, proc, stale, cancel, busy, posts, handled>>

\* _record_timer_error reads the row, and leaves it alone if somebody else
\* has claimed it.  Or the error cannot be recorded.
ReadsForError(c) ==
  /\ pc[c] = "failed"
  /\ \/ timer.claim \in {c, NoClaim} /\ ReadsRow(c, "recording")
     \/ Goto(c, "idle") /\ UNCHANGED read
  /\ UNCHANGED <<timer, due, proc, stale, cancel, busy, posts, handled>>

RecordsError(c) ==
  /\ pc[c] = "recording"
  /\ Writes(c, "error")
  /\ Closes(c, "idle")
  /\ UNCHANGED <<due, proc, stale, cancel, busy, posts, handled>>

-----------------------------------------------------------------------------
(* The chat, and the processes *)

\* cancel_timers_for_chat, on an event in the timer's cancel_on: its SELECT.
CancelReads ==
  /\ cancel = "none"
  /\ cancel' = IF due /\ timer.status = "pending" THEN "pending" ELSE "other"
  /\ UNCHANGED <<timer, due, pc, proc, read, stale, busy, posts, handled>>

\* Its commit.  A pending timer has no claim.
CancelWrites ==
  /\ cancel # "none"
  /\ cancel' = "none"
  /\ handled' = TRUE
  /\ \/ /\ cancel = "pending"
        /\ timer' = [status |-> "cancelled", claim |-> NoClaim]
        /\ due' = FALSE
     \/ cancel = "other" /\ UNCHANGED <<timer, due>>
  /\ UNCHANGED <<pc, proc, read, stale, busy, posts>>

\* A reply of the parent chat starts or ends.
Busy ==
  /\ busy' = ~busy
  /\ UNCHANGED <<timer, due, pc, proc, read, stale, cancel, posts, handled>>

\* A process dies: its runs with their locks and transactions, and perhaps
\* the cancellation.
Dies(p) ==
  /\ pc' = [c \in Claims |-> IF proc[c] = p THEN "idle" ELSE pc[c]]
  /\ read' = [c \in Claims |-> IF proc[c] = p THEN NoClaim ELSE read[c]]
  /\ cancel' \in {cancel, "none"}
  /\ UNCHANGED <<timer, due, proc, stale, busy, posts, handled>>

Steps(c) ==
  \/ Starts(c) \/ Missing(c) \/ LocksParent(c) \/ ChecksBusy(c)
  \/ Requeues(c) \/ PostsPrompt(c) \/ Replies(c) \/ SetsError(c)
  \/ ReadsForError(c) \/ RecordsError(c)

TimerNext ==
  \/ \E c \in Claims, p \in Processes : ClaimDue(c, p)
  \/ \E c \in Claims : Ages(c) \/ Steps(c) \/ Raises(c)
  \/ Recover \/ CancelReads \/ CancelWrites \/ Busy
  \/ \E p \in Processes : Dies(p)

TimerSpec == TimerInit /\ [][TimerNext]_timerVars

\* Time passes and some scheduler polls.  Nothing says that a run goes on.
PollSpec ==
  /\ TimerSpec
  /\ WF_timerVars(\E c \in Claims, p \in Processes : ClaimDue(c, p))
  /\ WF_timerVars(Recover)
  /\ \A c \in Claims : WF_timerVars(Ages(c))

\* And a run that can go on does.
TimerFairSpec == PollSpec /\ \A c \in Claims : WF_timerVars(Steps(c))

-----------------------------------------------------------------------------
(* Properties *)

\* The prompt is posted at most once, whatever crashes, recoveries, errors
\* and cancellations come between the claims.
PostedOnce == posts <= 1

\* A timer that has posted is never waiting or running again: recovery and
\* requeueing only ever give back a timer that has posted nothing
\* (recover_stale_timers' docstring).
NeverRefires == posts > 0 => timer.status \in {"completed", "cancelled", "error"}

\* A timer is never left running for good (issue 270): not by a crash, not
\* by an error that could not be recorded, not by a run that hangs on.
NeverStuckRunning == timer.status = "running" ~> timer.status # "running"

NoFault == ~((\E p \in Processes : Dies(p)) \/ (\E c \in Claims : Raises(c)))

\* A waiting timer comes to an end if its chat is left alone and crashes and
\* exceptions cease: no recovery, requeueing or lost update leaves it pending
\* where no claim finds it.
TimerEnds ==
  (<>[](~busy /\ cancel = "none") /\ <>[][NoFault]_timerVars) =>
  (timer.status = "pending" ~> timer.status \in {"completed", "cancelled", "error"})

\* tools/builtin.py: cancel_on holds events that cancel the timer before it
\* fires.  Violated: an event that comes between the claim and the check of
\* the chat finds the timer running, and the check puts it back to pending.
CancelEventHonoured == handled => timer.status # "pending"
=============================================================================
