------------------------------- MODULE Tasks -------------------------------
(***************************************************************************)
(* The replies of one chat in the task registry (tasks.py): the process's  *)
(* own dictionary, its mirror in Redis, the stops that travel by pub/sub,  *)
(* and stop_all_tasks at shutdown.  Redis is required (main.py's           *)
(* require_redis), so the branches without it are left out, and with them  *)
(* item_tasks, which nothing else reads.                                   *)
(*                                                                         *)
(* A reply is _process_chat (main.py).  Its finally block removes it from  *)
(* the registry and may then start a follow-up reply for the sub-agent     *)
(* results that wait in the chat; when its task is done, a callback cleans *)
(* up once more.  Every Redis command is an await, and commands of         *)
(* different coroutines reach Redis in any order.                          *)
(***************************************************************************)
EXTENDS Naturals, FiniteSets

CONSTANTS Ids,      \* task ids, each used once
          Stops,    \* requests that stop tasks
          NoTask    \* no task: the creator of a reply to a message, a timer or an automation

ASSUME IdsAssumption == NoTask \notin Ids

VARIABLES
  task,      \* where each reply's task is, then where its done callback is
  registry,  \* the dictionary tasks of the process
  creator,   \* who awaits create_task for each task
  save,      \* redis_save_task of each task
  hash,      \* REDIS_TASKS_KEY
  members,   \* REDIS_ITEM_TASKS_KEY of the chat
  stop,      \* the stop requests
  listener,  \* redis_task_command_listener
  inbox,     \* the tasks whose stop is published and not yet handled
  phase,     \* up, then stop_all_tasks
  told,      \* stop_all_tasks' cancelled
  timedOut,  \* stop_all_tasks gave up
  asked,     \* history: the tasks whose stop was published
  deaf,      \* history: the tasks past their look at stopping when it was set
  late,      \* history: the replies started when stop_all_tasks had ended
  missed     \* history: the tasks whose done callback removed nothing, because
             \* redis_save_task was not over yet, or Redis failed

redisVars == <<hash, members>>
stopVars  == <<stop, asked>>
allVars   == <<phase, told, timedOut, deaf, late>>
vars == <<task, registry, creator, save, redisVars, stopVars, listener, inbox,
          allVars, missed>>

Reply == {"running", "unwinding"}
Final == {"rem", "card", "del"}             \* the finally's cleanup_task
Tail  == {"tail", "asked", "pending", "starting", "creating"}
Ended == {"ended", "ecard", "edel", "over"} \* done, and the callback's cleanup
NoStop == [pc |-> "idle", todo |-> {}, cur |-> NoTask, item |-> FALSE]
StopStates == [pc : {"idle", "next", "rem", "card", "del"},
               todo : SUBSET Ids,          \* the task ids still to be stopped
               cur : Ids \cup {NoTask},    \* the one stop_task is at
               item : BOOLEAN]             \* hget found its item

TypeOK ==
  /\ task \in [Ids -> {"none", "gone"} \cup Reply \cup Final \cup Tail \cup Ended]
  /\ registry \subseteq Ids
  /\ creator \in [Ids -> Ids \cup {NoTask}]
  /\ save \in [Ids -> {"none", "pending", "saved", "failed"}]
  /\ hash \subseteq Ids
  /\ members \subseteq Ids
  /\ stop \in [Stops -> StopStates]
  /\ listener \in {"up", "down"}
  /\ inbox \subseteq Ids
  /\ phase \in {"up", "stopping", "stopped"}
  /\ told \subseteq Ids
  /\ timedOut \in BOOLEAN
  /\ asked \subseteq Ids
  /\ deaf \subseteq Ids /\ late \subseteq Ids
  /\ missed \subseteq Ids

Init ==
  /\ task = [t \in Ids |-> "none"]
  /\ registry = {}
  /\ creator = [t \in Ids |-> NoTask]
  /\ save = [t \in Ids |-> "none"]
  /\ hash = {} /\ members = {}
  /\ stop = [s \in Stops |-> NoStop]
  /\ listener = "down" /\ inbox = {}
  /\ phase = "up" /\ told = {} /\ timedOut = FALSE
  /\ asked = {} /\ deaf = {} /\ late = {} /\ missed = {}

-----------------------------------------------------------------------------
(* redis_cleanup_task: a pipeline, then SCARD, then DELETE of an empty set *)

Removes(t, item) ==
  /\ hash' = hash \ {t}
  /\ members' = IF item THEN members \ {t} ELSE members

\* After SCARD: go on to DELETE, or to what follows.
Counted(del, next) == IF members = {} THEN del ELSE next

\* DELETE: the set has members again if a task was saved since SCARD.
Deletes == members' = {}

-----------------------------------------------------------------------------
(* create_task *)

Goto(t, at) == task' = [task EXCEPT ![t] = at]

\* The task runs, is in tasks, and its save is under way.
Creates(t, by) ==
  /\ task[t] = "none"
  /\ registry' = registry \cup {t}
  /\ creator' = [creator EXCEPT ![t] = by]
  /\ save' = [save EXCEPT ![t] = "pending"]

\* A user's message, a timer or an automation starts a reply.  The last two do
\* not look at stopping, and the scheduler is cancelled after stop_all_tasks.
NewReply(t) ==
  /\ Creates(t, NoTask)
  /\ Goto(t, "running")
  /\ late' = IF phase = "stopped" THEN late \cup {t} ELSE late
  /\ UNCHANGED <<redisVars, stopVars, listener, inbox, phase, told, timedOut, deaf, missed>>

\* create_task returns to its creator, whose own task is done with that.
Returns(t) ==
  task' = [p \in Ids |-> IF p = creator[t] /\ task[p] = "creating"
                         THEN "ended" ELSE task[p]]

\* redis_save_task: one pipeline.
Saves(t) ==
  /\ save[t] = "pending"
  /\ save' = [save EXCEPT ![t] = "saved"]
  /\ hash' = hash \cup {t}
  /\ members' = members \cup {t}
  /\ Returns(t)
  /\ UNCHANGED <<registry, creator, stopVars, listener, inbox, allVars, missed>>

\* Redis fails, or the request that creates the task is cancelled.
SaveFails(t) ==
  /\ save[t] = "pending"
  /\ save' = [save EXCEPT ![t] = "failed"]
  /\ Returns(t)
  /\ UNCHANGED <<registry, creator, redisVars, stopVars, listener, inbox, allVars, missed>>

-----------------------------------------------------------------------------
(* A reply, and its finally block *)

\* The reply is complete or failed, or its cancellation has unwound.
Finishes(t) ==
  /\ task[t] \in Reply
  /\ Goto(t, "rem")
  /\ UNCHANGED <<registry, creator, save, redisVars, stopVars, listener, inbox, allVars, missed>>

\* Cancelled before it first ran, or a second time on its way out.
EndsEarly(t) ==
  /\ task[t] = "unwinding"
  /\ Goto(t, "ended")
  /\ UNCHANGED <<registry, creator, save, redisVars, stopVars, listener, inbox, allVars, missed>>

\* cleanup_task in _end_chat_task.
FinalRemoves(t) ==
  /\ task[t] = "rem"
  /\ Removes(t, TRUE)
  /\ Goto(t, "card")
  /\ UNCHANGED <<registry, creator, save, stopVars, listener, inbox, allVars, missed>>

\* The end of cleanup_task: the task leaves tasks.
Pops(t, at) ==
  /\ Goto(t, at)
  /\ registry' = IF at \in {"tail", "over"} THEN registry \ {t} ELSE registry

FinalCounts(t) ==
  /\ task[t] = "card"
  /\ Pops(t, Counted("del", "tail"))
  /\ UNCHANGED <<creator, save, redisVars, stopVars, listener, inbox, allVars, missed>>

FinalDeletes(t) ==
  /\ task[t] = "del"
  /\ Deletes
  /\ Pops(t, "tail")
  /\ UNCHANGED <<creator, save, hash, stopVars, listener, inbox, allVars, missed>>

\* Redis fails: swallowed, and tasks keeps the task.
FinalFails(t) ==
  /\ task[t] \in Final
  /\ Goto(t, "tail")
  /\ UNCHANGED <<registry, creator, save, redisVars, stopVars, listener, inbox, allVars, missed>>

\* _run_pending_internal_messages asks has_active_tasks: an internal request
\* or a busy chat ends here.
TailAsks(t) ==
  /\ task[t] = "tail"
  /\ \/ Goto(t, "ended")
     \/ members = {} /\ Goto(t, "asked")
  /\ UNCHANGED <<registry, creator, save, redisVars, stopVars, listener, inbox, allVars, missed>>

\* Mutant: process_pending_internal_messages does not look at stopping.
TailEntersAlways(t) ==
  /\ task[t] = "asked"
  /\ Goto(t, "pending")
  /\ UNCHANGED <<registry, creator, save, redisVars, stopVars, listener, inbox, allVars, missed>>

\* process_pending_internal_messages begins, with its look at stopping.
TailEnters(t) ==
  /\ task[t] = "asked"
  /\ Goto(t, IF phase = "up" THEN "pending" ELSE "ended")
  /\ UNCHANGED <<registry, creator, save, redisVars, stopVars, listener, inbox, allVars, missed>>

\* It waits until the chat is not busy, takes the parent's lock and asks
\* again: busy by now is a return.
TailLocks(t) ==
  /\ task[t] = "pending"
  /\ \A u \in Ids : task[u] \notin {"starting", "creating"}
  /\ Goto(t, IF members = {} THEN "starting" ELSE "ended")
  /\ UNCHANGED <<registry, creator, save, redisVars, stopVars, listener, inbox, allVars, missed>>

\* Nothing is pending in the chat, the user is gone, or an exception.
TailReturns(t) ==
  /\ task[t] = "starting"
  /\ Goto(t, "ended")
  /\ UNCHANGED <<registry, creator, save, redisVars, stopVars, listener, inbox, allVars, missed>>

\* CHAT_COMPLETION_HANDLER starts the follow-up reply.
FollowUp(t, u) ==
  /\ task[t] = "starting"
  /\ Creates(u, t)
  /\ task' = [task EXCEPT ![t] = "creating", ![u] = "running"]
  /\ UNCHANGED <<redisVars, stopVars, listener, inbox, allVars, missed>>

-----------------------------------------------------------------------------
(* The done callback's cleanup_task *)

\* Mutant: the callback only removes the task from tasks.
CallbackLocal(t) ==
  /\ task[t] = "ended"
  /\ Pops(t, "over")
  /\ missed' = IF save[t] = "pending" THEN missed \cup {t} ELSE missed
  /\ UNCHANGED <<creator, save, redisVars, stopVars, listener, inbox, allVars>>

CallbackRemoves(t) ==
  /\ task[t] = "ended"
  /\ Removes(t, TRUE)
  /\ Goto(t, "ecard")
  /\ missed' = IF save[t] = "pending" THEN missed \cup {t} ELSE missed
  /\ UNCHANGED <<registry, creator, save, stopVars, listener, inbox, allVars>>

CallbackCounts(t) ==
  /\ task[t] = "ecard"
  /\ Pops(t, Counted("edel", "over"))
  /\ UNCHANGED <<creator, save, redisVars, stopVars, listener, inbox, allVars, missed>>

CallbackDeletes(t) ==
  /\ task[t] = "edel"
  /\ Deletes
  /\ Pops(t, "over")
  /\ UNCHANGED <<creator, save, hash, stopVars, listener, inbox, allVars, missed>>

\* Redis fails: tasks keeps the ended task.
CallbackFails(t) ==
  /\ task[t] \in Ended \ {"over"}
  /\ Goto(t, "over")
  /\ missed' = IF task[t] = "ended" THEN missed \cup {t} ELSE missed
  /\ UNCHANGED <<registry, creator, save, redisVars, stopVars, listener, inbox, allVars>>

-----------------------------------------------------------------------------
(* stop_item_tasks and stop_task *)

At(s, next) == stop' = [stop EXCEPT ![s] = next]

\* The chat's task ids are listed, or one id of list_tasks is given.
StopAsked(s) ==
  /\ phase = "up" /\ stop[s].pc = "idle"
  /\ \E ids \in {members} \cup {{t} : t \in hash} :
       /\ ids # {}
       /\ At(s, [NoStop EXCEPT !.pc = "next", !.todo = ids])
  /\ UNCHANGED <<task, registry, creator, save, redisVars, asked, listener, inbox, allVars, missed>>

\* Where stop_item_tasks goes after an id.
NextId(s) == IF stop[s].todo = {} THEN NoStop
             ELSE [stop[s] EXCEPT !.pc = "next", !.cur = NoTask, !.item = FALSE]

\* Mutant: the whole of cleanup_task before the listener can find the task.
StopPublishesPops(s) ==
  /\ stop[s].pc = "next"
  /\ \E t \in stop[s].todo :
       /\ At(s, [pc |-> "rem", todo |-> stop[s].todo \ {t}, cur |-> t, item |-> t \in hash])
       /\ inbox' = IF listener = "up" THEN inbox \cup {t} ELSE inbox
       /\ asked' = asked \cup {t}
       /\ registry' = registry \ {t}
  /\ UNCHANGED <<task, creator, save, redisVars, listener, allVars, missed>>

\* stop_task of the next id: hget of its item, and PUBLISH, which is lost when
\* the process is not subscribed.  What is removed between the two commands
\* might as well be removed after them.
StopPublishes(s) ==
  /\ stop[s].pc = "next"
  /\ \E t \in stop[s].todo :
       /\ At(s, [pc |-> "rem", todo |-> stop[s].todo \ {t}, cur |-> t, item |-> t \in hash])
       /\ inbox' = IF listener = "up" THEN inbox \cup {t} ELSE inbox
       /\ asked' = asked \cup {t}
  /\ UNCHANGED <<task, registry, creator, save, redisVars, listener, allVars, missed>>

StopRemoves(s) ==
  /\ stop[s].pc = "rem"
  /\ Removes(stop[s].cur, stop[s].item)
  /\ At(s, IF stop[s].item THEN [stop[s] EXCEPT !.pc = "card"] ELSE NextId(s))
  /\ UNCHANGED <<task, registry, creator, save, asked, listener, inbox, allVars, missed>>

StopCounts(s) ==
  /\ stop[s].pc = "card"
  /\ At(s, Counted([stop[s] EXCEPT !.pc = "del"], NextId(s)))
  /\ UNCHANGED <<task, registry, creator, save, redisVars, asked, listener, inbox, allVars, missed>>

\* Mutant: DELETE of REDIS_TASKS_KEY with the chat's key.
StopDeletesHash(s) ==
  /\ stop[s].pc = "del"
  /\ hash' = {} /\ members' = {}
  /\ At(s, NextId(s))
  /\ UNCHANGED <<task, registry, creator, save, asked, listener, inbox, allVars, missed>>

StopDeletes(s) ==
  /\ stop[s].pc = "del"
  /\ Deletes
  /\ At(s, NextId(s))
  /\ UNCHANGED <<task, registry, creator, save, hash, asked, listener, inbox, allVars, missed>>

\* Redis fails: on to the next id.
StopFails(s) ==
  /\ \/ stop[s].pc \notin {"idle", "next"} /\ At(s, NextId(s))
     \/ /\ stop[s].pc = "next"
        /\ \E t \in stop[s].todo : At(s, IF stop[s].todo = {t} THEN NoStop
                                       ELSE [stop[s] EXCEPT !.todo = @ \ {t}])
  /\ UNCHANGED <<task, registry, creator, save, redisVars, asked, listener, inbox, allVars, missed>>

-----------------------------------------------------------------------------
(* redis_task_command_listener *)

\* task.cancel(): a reply begins to unwind; past that, the CancelledError
\* leaves the finally block.
Cancelled(at) == IF at \in Reply THEN "unwinding"
                 ELSE IF at \in Final \cup Tail THEN "ended" ELSE at

Subscribes ==
  /\ listener = "down"
  /\ listener' = "up"
  /\ UNCHANGED <<task, registry, creator, save, redisVars, stopVars, inbox, allVars, missed>>

\* The connection breaks, or the teardown cancels the listener: what was
\* published and not read is lost.
Disconnects ==
  /\ listener = "up"
  /\ listener' = "down"
  /\ inbox' = {}
  /\ UNCHANGED <<task, registry, creator, save, redisVars, stopVars, allVars, missed>>

\* A stop command: cancels the task if tasks has it.
Handles(t) ==
  /\ t \in inbox
  /\ inbox' = inbox \ {t}
  /\ IF t \in registry THEN Goto(t, Cancelled(task[t])) ELSE UNCHANGED task
  /\ UNCHANGED <<registry, creator, save, redisVars, stopVars, listener, allVars, missed>>

-----------------------------------------------------------------------------
(* stop_all_tasks *)

Running == {t \in registry : task[t] \notin Ended}

\* One turn of the loop: cancel what runs and was not cancelled before; when
\* nothing runs, the loop is over.
Round ==
  /\ phase' = IF Running = {} THEN "stopped" ELSE "stopping"
  /\ task' = [t \in Ids |-> IF t \in Running \ told THEN Cancelled(task[t]) ELSE task[t]]
  /\ told' = told \cup Running

\* The teardown begins once the open requests are answered or cancelled; the
\* scheduler may be starting a reply.
StopAllBegins ==
  /\ phase = "up"
  /\ \A s \in Stops : stop[s].pc = "idle"
  /\ deaf' = {t \in Ids : task[t] \in {"pending", "starting", "creating"}}
  /\ Round
  /\ UNCHANGED <<registry, creator, save, redisVars, stopVars, listener, inbox, timedOut, late, missed>>

\* A task ended (FIRST_COMPLETED): the next turn.
StopAllRound ==
  /\ phase = "stopping"
  /\ \E t \in told : task[t] \in Ended
  /\ Round
  /\ UNCHANGED <<registry, creator, save, redisVars, stopVars, listener, inbox, timedOut, deaf, late, missed>>

\* wait_seconds are over.
StopAllTimesOut ==
  /\ phase = "stopping" /\ Running # {}
  /\ phase' = "stopped"
  /\ timedOut' = TRUE
  /\ UNCHANGED <<task, registry, creator, save, redisVars, stopVars, listener, inbox, told, deaf, late, missed>>

\* The process dies or exits, and starts again: Redis keeps what it had.  The
\* history of the tasks that are gone is forgotten.
Restart ==
  /\ task' = [t \in Ids |-> IF task[t] = "none" THEN "none" ELSE "gone"]
  /\ registry' = {}
  /\ save' = [t \in Ids |-> IF task[t] = "none" THEN "none" ELSE "failed"]
  /\ creator' = [t \in Ids |-> NoTask]
  /\ stop' = [s \in Stops |-> NoStop]
  /\ listener' = "down" /\ inbox' = {}
  /\ phase' = "up" /\ told' = {} /\ timedOut' = FALSE
  /\ asked' = {} /\ deaf' = {} /\ late' = {} /\ missed' = {}
  /\ UNCHANGED redisVars

-----------------------------------------------------------------------------
CreateNext(t) == NewReply(t) \/ Saves(t) \/ SaveFails(t)
FinallyNext(t) ==
  \/ FinalRemoves(t) \/ FinalCounts(t) \/ FinalDeletes(t) \/ FinalFails(t)
  \/ TailAsks(t) \/ TailEnters(t) \/ TailLocks(t) \/ TailReturns(t)
  \/ \E u \in Ids : FollowUp(t, u)
CallbackNext(t) == \/ CallbackRemoves(t) \/ CallbackCounts(t)
                   \/ CallbackDeletes(t) \/ CallbackFails(t)
StopNext(s) == \/ StopPublishes(s) \/ StopRemoves(s)
               \/ StopCounts(s) \/ StopDeletes(s) \/ StopFails(s)
StopAllNext == StopAllBegins \/ StopAllRound \/ StopAllTimesOut

Next ==
  \/ \E t \in Ids : \/ CreateNext(t) \/ Finishes(t) \/ EndsEarly(t)
                    \/ FinallyNext(t) \/ CallbackNext(t) \/ Handles(t)
  \/ \E s \in Stops : StopAsked(s) \/ StopNext(s)
  \/ Subscribes \/ Disconnects \/ StopAllNext \/ Restart

Spec == Init /\ [][Next]_vars

\* The listener reads what arrives, and a cancelled reply unwinds.
FairSpec ==
  /\ Spec
  /\ \A t \in Ids : WF_vars(Handles(t))
  /\ \A t \in Ids : WF_vars(task[t] = "unwinding" /\ Finishes(t))

-----------------------------------------------------------------------------
(* Properties *)

\* list_tasks never loses a reply: one that runs, whose create_task returned
\* and whom nobody has asked to stop, is in REDIS_TASKS_KEY, whatever other
\* replies of the chat, their callbacks and stops remove at the same time.
ReplyIsListed ==
  \A t \in Ids :
    task[t] \in Reply /\ save[t] = "saved" /\ t \notin asked => t \in hash

\* A task that is over leaves nothing in Redis, unless its own save came after
\* its callback, or Redis failed: otherwise has_active_tasks would hold for
\* the chat for good, and its timers and sub-agent results wait for ever.
NoEntryLeft ==
  \A t \in Ids : task[t] = "over" /\ t \in hash \cup members => t \in missed

\* When stop_all_tasks has ended within its time no reply runs, also none that
\* was started while it was at work, with two exceptions.  A reply that was past
\* its look at stopping when the shutdown began has left tasks already, and the
\* loop that goes on "until nothing runs" does not see that it starts another.
\* And the scheduler, cancelled only later, may start replies after the loop.
StopAllLeavesDeaf ==
  phase = "stopped" /\ ~timedOut =>
    \A t \in Ids : task[t] \in Reply => creator[t] \in deaf \/ t \in late

\* A stop that reached the listener ends the reply, unless the connection
\* breaks first: neither the removal of the entry from Redis nor another
\* stop comes between them.
StopEndsReply ==
  \A t \in Ids : t \in inbox ~> (task[t] \notin Reply \/ listener = "down")

\* has_active_tasks: "Check if a chat has any active tasks".  Violated: the
\* DELETE that follows SCARD removes a task saved in between.
ReplyIsActive ==
  \A t \in Ids :
    task[t] \in Reply /\ save[t] = "saved" /\ t \notin asked => t \in members
=============================================================================
