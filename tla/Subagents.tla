------------------------------ MODULE Subagents ------------------------------
(***************************************************************************)
(* Sub-agents of one parent chat (utils/subagents.py): a reply delegates   *)
(* tasks to sub-agents in the foreground or the background, a background   *)
(* one posts its result into the parent chat, and whoever finds the chat   *)
(* idle starts a reply that answers the posted results.                    *)
(*                                                                         *)
(* An action is what a coroutine does between two awaits.  A result's text *)
(* is left out; which of the posted results share a parent message and a   *)
(* model, and so are answered together, is a choice.                       *)
(***************************************************************************)
EXTENDS Integers, FiniteSets

CONSTANTS Delegs,         \* delegations
          Background,     \* the ones in the background
          Replies,        \* replies of the parent chat, at a time
          NoActor,        \* nobody holds the parent's lock
          MaxConcurrent,  \* subagents.max_concurrent
          MaxAsync,       \* subagents.max_async
          MaxSends,       \* bound: messages the user sends
          MaxFaults       \* bound: stops, errors, deletion, restarts

Actors == Delegs \cup Replies    \* who may run process_pending_internal_messages

ASSUME SubagentsAssumption ==
  /\ IsFiniteSet(Delegs) /\ Background \subseteq Delegs /\ Delegs \cap Replies = {} /\ NoActor \notin Actors
  /\ MaxConcurrent \in Nat \ {0} /\ MaxAsync \in Nat /\ MaxSends \in Nat /\ MaxFaults \in Nat

VARIABLES
  call,     \* delegate(), in the reply that made the call
  owner,    \* that reply, until the call returns
  child,    \* the task of run_background or run_reserved
  slots,    \* _background_active
  permits,  \* the value of _foreground_semaphore
  lock,     \* the holder of _parent_locks[parent]
  res,      \* each result's message in the parent chat
  taken,    \* history: how often it was given to a reply, up to 2
  reply,    \* the replies: at work, in their finally block with their entry in
            \* the task registry gone or stuck there, in the follow-up, or
            \* ended with the entry left to the task's callback
  stale,    \* the registry keeps an entry of a reply that is gone
  pp,       \* each actor's progress in process_pending_internal_messages
  seen,     \* the pending messages it read
  gone,     \* the parent chat was deleted
  stopping, \* tasks.stopping
  leaked,   \* history: delegations whose task or call was cancelled where
            \* nothing releases the slot
  extra,    \* history: delegations whose slot was released twice
  lost,     \* history: results whose follow-up a fault has cut off
  sends, faults

agent == <<call, owner, child, slots, permits, leaked, extra>>
wake  == <<pp, seen, lock>>
world == <<stale, gone, stopping, sends, faults>>
vars  == <<agent, wake, res, taken, reply, lost, world>>

TypeOK ==
  /\ call \in [Delegs -> {"none", "reserve", "create", "save", "wait", "done"}]
  /\ owner \in [Delegs -> Replies \cup {NoActor}]
  /\ child \in [Delegs -> {"none", "ready", "run", "post", "commit", "posted", "wake", "end"}]
  /\ slots \subseteq Background /\ permits \in Int /\ lock \in Actors \cup {NoActor}
  /\ res \in [Delegs -> {"none", "posted", "taken"}] /\ taken \in [Delegs -> 0..2]
  /\ reply \in [Replies -> {"none", "active", "ended", "stuck", "tail", "left"}]
  /\ pp \in [Actors -> {"none", "poll", "want", "crit", "commit", "start"}]
  /\ seen \in [Actors -> SUBSET Delegs]
  /\ stale \in BOOLEAN /\ gone \in BOOLEAN /\ stopping \in BOOLEAN
  /\ leaked \subseteq Delegs /\ extra \subseteq Delegs /\ lost \subseteq Delegs
  /\ sends \in Nat /\ faults \in Nat

Init ==
  /\ call = [i \in Delegs |-> "none"] /\ owner = [i \in Delegs |-> NoActor]
  /\ child = [i \in Delegs |-> "none"] /\ slots = {} /\ permits = MaxConcurrent
  /\ lock = NoActor /\ res = [i \in Delegs |-> "none"] /\ taken = [i \in Delegs |-> 0]
  /\ reply = [k \in Replies |-> "none"]
  /\ pp = [a \in Actors |-> "none"] /\ seen = [a \in Actors |-> {}]
  /\ stale = FALSE /\ gone = FALSE /\ stopping = FALSE /\ leaked = {} /\ extra = {} /\ lost = {}
  /\ sends = 0 /\ faults = 0

Fault == faults < MaxFaults /\ faults' = faults + 1

\* has_active_tasks of the parent chat.
Active == stale \/ \E k \in Replies : reply[k] \in {"active", "stuck", "left"}

\* A reply is at work, which looks for results at its end.
AtWork == \E k \in Replies : reply[k] = "active"

Posted == {i \in Delegs : res[i] = "posted"}

\* has_active_tasks counts only what ended replies left: who asks leaves the
\* results to nobody.
Misled == IF Active /\ ~AtWork THEN lost' = lost \cup Posted ELSE UNCHANGED lost

-----------------------------------------------------------------------------
(* delegate, and the slots *)

Ended(i) == call' = [call EXCEPT ![i] = "done"] /\ owner' = [owner EXCEPT ![i] = NoActor]

\* release.
Release(i) ==
  IF i \in Background THEN slots' = slots \ {i} /\ UNCHANGED permits
                      ELSE permits' = permits + 1 /\ UNCHANGED slots

\* reserve: a background slot, or an error when there is none; or the
\* semaphore is waited for.
Delegates(i) ==
  /\ call[i] = "none"
  /\ \E k \in Replies : reply[k] = "active" /\
       \/ /\ i \in Background /\ Cardinality(slots) >= MaxAsync /\ Ended(i) /\ UNCHANGED slots
       \/ /\ i \in Background /\ Cardinality(slots) < MaxAsync /\ slots' = slots \cup {i}
          /\ call' = [call EXCEPT ![i] = "create"] /\ owner' = [owner EXCEPT ![i] = k]
       \/ /\ i \notin Background /\ UNCHANGED slots
          /\ call' = [call EXCEPT ![i] = "reserve"] /\ owner' = [owner EXCEPT ![i] = k]
  /\ UNCHANGED <<child, permits, leaked, extra, wake, res, taken, reply, lost, world>>

Acquires(i) ==
  /\ call[i] = "reserve" /\ permits > 0
  /\ permits' = permits - 1 /\ call' = [call EXCEPT ![i] = "create"]
  /\ UNCHANGED <<owner, child, slots, leaked, extra, wake, res, taken, reply, lost, world>>

\* create_chat, and create_task up to its save in Redis: the task exists.
Creates(i) ==
  /\ call[i] = "create"
  /\ call' = [call EXCEPT ![i] = "save"] /\ child' = [child EXCEPT ![i] = "ready"]
  /\ UNCHANGED <<owner, slots, permits, leaked, extra, wake, res, taken, reply, lost, world>>

CreateFails(i) ==
  /\ call[i] = "create" /\ Fault /\ Release(i) /\ Ended(i)
  /\ UNCHANGED <<child, leaked, extra, wake, res, taken, reply, lost, stale, gone, stopping, sends>>

\* A background call returns; a foreground one awaits its task.
Saved(i) ==
  /\ call[i] = "save"
  /\ IF i \in Background THEN Ended(i) ELSE call' = [call EXCEPT ![i] = "wait"] /\ UNCHANGED owner
  /\ UNCHANGED <<child, slots, permits, leaked, extra, wake, res, taken, reply, lost, world>>

\* The save raises: the slot is released here, and by the task once more.
SaveFails(i) ==
  /\ call[i] = "save" /\ Fault /\ Release(i) /\ Ended(i) /\ extra' = extra \cup {i}
  /\ UNCHANGED <<child, leaked, wake, res, taken, reply, lost, stale, gone, stopping, sends>>

Returns(i) ==
  /\ call[i] = "wait" /\ child[i] = "end" /\ Ended(i)
  /\ UNCHANGED <<child, slots, permits, leaked, extra, wake, res, taken, reply, lost, world>>

-----------------------------------------------------------------------------
(* run_reserved, run_background, _post_result *)

Starts(i) ==
  /\ child[i] = "ready" /\ child' = [child EXCEPT ![i] = "run"]
  /\ UNCHANGED <<call, owner, slots, permits, leaked, extra, wake, res, taken, reply, lost, world>>

\* Mutant: a sub-agent that was stopped keeps its slot.
AfterRunKeeps(i) ==
  child' = [child EXCEPT ![i] = IF i \in Background THEN "post" ELSE "end"] /\ UNCHANGED <<slots, permits>>

\* The completion ended, in whatever way: the slot is released, and a
\* background one has a result to post.
AfterRun(i) ==
  child' = [child EXCEPT ![i] = IF i \in Background THEN "post" ELSE "end"] /\ Release(i)

Runs(i) ==
  /\ child[i] = "run" /\ AfterRun(i)
  /\ UNCHANGED <<call, owner, leaked, extra, wake, res, taken, reply, lost, world>>

PostLocks(i) ==
  /\ child[i] = "post" /\ lock = NoActor
  /\ IF gone THEN child' = [child EXCEPT ![i] = "end"] /\ UNCHANGED lock
             ELSE child' = [child EXCEPT ![i] = "commit"] /\ lock' = i
  /\ UNCHANGED <<call, owner, slots, permits, leaked, extra, pp, seen, res, taken, reply, lost, world>>

Posts(i) ==
  /\ child[i] = "commit"
  /\ child' = [child EXCEPT ![i] = "posted"] /\ lock' = NoActor
  /\ res' = [res EXCEPT ![i] = "posted"]
  /\ UNCHANGED <<call, owner, slots, permits, leaked, extra, pp, seen, taken, reply, lost, world>>

\* process_pending_internal_messages is entered, unless the backend stops.
Enters(a) == pp' = [pp EXCEPT ![a] = IF stopping THEN "none" ELSE "poll"]

Wakes(i) ==
  /\ child[i] = "posted"
  /\ IF Active THEN UNCHANGED pp ELSE Enters(i)
  /\ child' = [child EXCEPT ![i] = IF Active \/ stopping THEN "end" ELSE "wake"]
  /\ Misled
  /\ UNCHANGED <<call, owner, slots, permits, leaked, extra, seen, lock, res, taken, reply, world>>

-----------------------------------------------------------------------------
(* process_pending_internal_messages *)

Leaves(a) ==
  /\ pp' = [pp EXCEPT ![a] = "none"] /\ seen' = [seen EXCEPT ![a] = {}]
  /\ child' = IF a \in Delegs THEN [child EXCEPT ![a] = "end"] ELSE child

\* The poll loop ends; the actor asks for the lock.
FindsIdle(a) ==
  /\ pp[a] = "poll" /\ ~Active /\ pp' = [pp EXCEPT ![a] = "want"]
  /\ UNCHANGED <<agent, seen, lock, res, taken, reply, lost, world>>

\* Mutant: the parent's lock is not taken.
LockIgnored(a) == TRUE

LockFree(a) == lock = NoActor

Locks(a) ==
  /\ pp[a] = "want" /\ LockFree(a)
  /\ lock' = a /\ pp' = [pp EXCEPT ![a] = "crit"]
  /\ UNCHANGED <<agent, seen, res, taken, reply, lost, world>>

\* The second look at the chat, and the messages without an answer.
Reads(a) ==
  /\ pp[a] = "crit"
  /\ \/ /\ ~Active /\ ~gone /\ Posted # {}
        /\ seen' = [seen EXCEPT ![a] = Posted] /\ pp' = [pp EXCEPT ![a] = "commit"]
        /\ UNCHANGED <<lock, reply, child, lost>>
     \/ /\ Active \/ gone \/ Posted = {}
        /\ Leaves(a) /\ lock' = NoActor /\ Misled
        /\ reply' = IF a \in Replies THEN [reply EXCEPT ![a] = "none"] ELSE reply
  /\ UNCHANGED <<call, owner, slots, permits, leaked, extra, res, taken, world>>

\* The batch gets its answer's message.
Commits(a) ==
  /\ pp[a] = "commit"
  /\ \E batch \in (SUBSET seen[a]) \ {{}} :
       /\ res' = [i \in Delegs |-> IF i \in batch THEN "taken" ELSE res[i]]
       /\ taken' = [i \in Delegs |-> IF i \in batch /\ taken[i] < 2 THEN taken[i] + 1 ELSE taken[i]]
  /\ pp' = [pp EXCEPT ![a] = "start"]
  /\ UNCHANGED <<agent, seen, lock, reply, lost, world>>

\* CHAT_COMPLETION_HANDLER starts the reply, or raises.
Answers(a) ==
  /\ pp[a] = "start" /\ Leaves(a) /\ lock' = NoActor
  /\ LET rest == IF a \in Replies THEN [reply EXCEPT ![a] = "none"] ELSE reply
     IN \/ \E k \in Replies : rest[k] = "none" /\ reply' = [rest EXCEPT ![k] = "active"] /\ UNCHANGED <<faults, lost>>
        \/ Fault /\ reply' = rest /\ lost' = lost \cup Posted
  /\ UNCHANGED <<call, owner, slots, permits, leaked, extra, res, taken, stale, gone, stopping, sends>>

-----------------------------------------------------------------------------
(* The replies of the parent chat *)

Sends(k) ==
  /\ reply[k] = "none" /\ ~gone /\ sends < MaxSends /\ sends' = sends + 1
  /\ reply' = [reply EXCEPT ![k] = "active"]
  /\ UNCHANGED <<agent, wake, res, taken, lost, stale, gone, stopping, faults>>

CallsOf(k, s) == {i \in Delegs : owner[i] = k /\ call[i] \in s}

\* The reply ends, and _end_chat_task takes it out of the registry, or
\* swallows the error of Redis.
Ends(k) ==
  /\ reply[k] = "active" /\ CallsOf(k, {"reserve", "create", "save", "wait"}) = {}
  /\ \/ reply' = [reply EXCEPT ![k] = "ended"] /\ UNCHANGED faults
     \/ reply' = [reply EXCEPT ![k] = "stuck"] /\ Fault
  /\ UNCHANGED <<agent, wake, res, taken, lost, stale, gone, stopping, sends>>

\* Mutant: the chat is asked for other tasks before this one is taken out.
TailsBusy(k) ==
  /\ reply[k] = "ended" /\ reply' = [reply EXCEPT ![k] = "none"]
  /\ UNCHANGED <<agent, wake, res, taken, lost, world>>

\* _run_pending_internal_messages.  A reply whose entry is stuck finds itself.
Tails(k) ==
  /\ reply[k] \in {"ended", "stuck"}
  /\ IF Active THEN UNCHANGED pp ELSE Enters(k)
  /\ reply' = [reply EXCEPT ![k] = IF @ = "stuck" THEN "left"
                                   ELSE IF Active \/ stopping THEN "none" ELSE "tail"]
  /\ Misled
  /\ UNCHANGED <<agent, seen, lock, res, taken, world>>

\* The done callback's cleanup_task, which may fail as well.
Callback(k) ==
  /\ reply[k] = "left" /\ reply' = [reply EXCEPT ![k] = "none"]
  /\ \/ UNCHANGED <<stale, faults>>
     \/ stale' = TRUE /\ Fault
  /\ UNCHANGED <<agent, wake, res, taken, lost, gone, stopping, sends>>

\* The user stops the chat: stop_item_tasks removes the entries it finds.
ClearsStale ==
  /\ stale /\ stale' = FALSE
  /\ UNCHANGED <<agent, wake, res, taken, reply, lost, gone, stopping, sends, faults>>

-----------------------------------------------------------------------------
(* Stops, deletion, shutdown, restart *)

\* The user, or the shutdown.
Stop == IF stopping THEN UNCHANGED faults ELSE Fault

\* A stopped reply: its calls end, a foreground task they await with them.
\* No except clause of create_chat releases the slot for a cancellation.  Its
\* entry is removed, by stop_task or in its finally block, or that fails.
StopsReply(k) ==
  /\ reply[k] = "active" /\ Stop
  /\ LET cutChild == CallsOf(k, {"wait"})
         unborn   == {i \in cutChild : child[i] = "ready"}
         running  == {i \in cutChild : child[i] = "run"}
     IN /\ child' = [i \in Delegs |-> IF i \in unborn \cup running THEN "end" ELSE child[i]]
        /\ leaked' = leaked \cup CallsOf(k, {"create"}) \cup unborn
        /\ permits' = permits + Cardinality(running)
  /\ call' = [i \in Delegs |-> IF owner[i] = k THEN "done" ELSE call[i]]
  /\ owner' = [i \in Delegs |-> IF owner[i] = k THEN NoActor ELSE owner[i]]
  /\ \E at \in {"ended", "stuck"} : reply' = [reply EXCEPT ![k] = at]
  /\ UNCHANGED <<slots, extra, wake, res, taken, lost, stale, gone, stopping, sends>>

\* A reply is stopped in its finally block, or an error ends its follow-up
\* there, which _run_pending_internal_messages logs.
StopsTail(k) ==
  /\ reply[k] \in {"ended", "stuck", "tail"} /\ Stop
  /\ reply' = [reply EXCEPT ![k] = IF @ = "stuck" THEN "left" ELSE "none"] /\ lost' = lost \cup Posted
  /\ pp' = [pp EXCEPT ![k] = "none"] /\ seen' = [seen EXCEPT ![k] = {}]
  /\ lock' = IF lock = k THEN NoActor ELSE lock
  /\ UNCHANGED <<agent, res, taken, stale, gone, stopping, sends>>

\* A sub-agent's task is stopped: before its first step, while it runs, or on
\* the way to the follow-up, where an error of _post_result (before its commit
\* or after it) or of what follows ends it too.
StopsChild(i) ==
  /\ Stop
  /\ \/ /\ child[i] = "ready" /\ child' = [child EXCEPT ![i] = "end"] /\ leaked' = leaked \cup {i}
        /\ UNCHANGED <<slots, permits, wake, lost>>
     \/ child[i] = "run" /\ AfterRun(i) /\ UNCHANGED <<leaked, wake, lost>>
     \/ /\ child[i] \in {"post", "commit", "posted", "wake"} /\ Leaves(i) /\ lost' = lost \cup Posted
        /\ lock' = IF lock = i THEN NoActor ELSE lock
        /\ UNCHANGED <<slots, permits, leaked>>
  /\ UNCHANGED <<call, owner, extra, res, taken, reply, stale, gone, stopping, sends>>

Deletes ==
  /\ ~gone /\ gone' = TRUE /\ Fault
  /\ UNCHANGED <<agent, wake, res, taken, reply, lost, stale, stopping, sends>>

Shutdown ==
  /\ ~stopping /\ stopping' = TRUE /\ Fault
  /\ UNCHANGED <<agent, wake, res, taken, reply, lost, stale, gone, sends>>

\* The backend ends, at any time, and is started again.  With Redis the
\* entries of its replies stay.
Restart ==
  /\ Stop
  /\ call' = [i \in Delegs |-> IF call[i] = "none" THEN "none" ELSE "done"]
  /\ child' = [i \in Delegs |-> IF child[i] = "none" THEN "none" ELSE "end"]
  /\ slots' = {} /\ permits' = MaxConcurrent /\ leaked' = {} /\ extra' = {}
  /\ reply' = [k \in Replies |-> "none"] /\ lock' = NoActor
  /\ pp' = [a \in Actors |-> "none"] /\ seen' = [a \in Actors |-> {}]
  /\ lost' = lost \cup Posted /\ stopping' = FALSE /\ owner' = [i \in Delegs |-> NoActor]
  /\ stale' \in {FALSE, Active}
  /\ UNCHANGED <<res, taken, gone, sends>>

Delegation(i) == Delegates(i) \/ CreateFails(i) \/ SaveFails(i) \/ StopsChild(i)
Agent(i) == Acquires(i) \/ Creates(i) \/ Saved(i) \/ Returns(i) \/ Starts(i) \/ Runs(i)
            \/ PostLocks(i) \/ Posts(i) \/ Wakes(i)
Pending(a) == FindsIdle(a) \/ Locks(a) \/ Reads(a) \/ Commits(a) \/ Answers(a)
Reply(k) == Ends(k) \/ Tails(k) \/ Callback(k)

Next ==
  \/ \E i \in Delegs : Delegation(i) \/ Agent(i)
  \/ \E a \in Actors : Pending(a)
  \/ \E k \in Replies : Sends(k) \/ Reply(k) \/ StopsReply(k) \/ StopsTail(k)
  \/ ClearsStale \/ Deletes \/ Shutdown \/ Restart

Spec == Init /\ [][Next]_vars

\* The event loop goes on with what is ready, and a model's reply ends.
FairSpec ==
  /\ Spec
  /\ \A i \in Delegs : WF_vars(Agent(i) \/ Pending(i))
  /\ \A k \in Replies : WF_vars(Reply(k) \/ Pending(k))

-----------------------------------------------------------------------------
(* Properties *)

Mail == INSTANCE Mailbox WITH Items <- Delegs, waiting <- Posted, given <- taken

\* The parent chat is a mailbox for its sub-agents' results: each is posted
\* once and given to one reply, though every reply's end and every other
\* sub-agent may look for it at the same time, and through any stop, error or
\* restart (process_pending_internal_messages implements Mailbox).
Delivers == Mail!Spec

\* While no reply is at work in the chat and a result waits in it, somebody is
\* on the way to answer it (a reply's finally block, the sub-agent itself): no
\* order of the result's arrival and the reply's end leaves it behind.  The
\* exception is `lost`: a stop, an error or a restart cut that way off, or who
\* was on it found the chat busy with nothing but the entry of an ended reply,
\* which a failing cleanup_task or the backend's end had left in the registry.
NoResultStranded ==
  Posted \ lost # {} /\ ~AtWork /\ ~stopping /\ ~gone =>
    \/ \E a \in Actors : pp[a] # "none"
    \/ \E i \in Delegs : child[i] = "posted"
    \/ \E k \in Replies : reply[k] \in {"ended", "stuck"}

\* The delegations that are at work in their slot.
Held == {i \in Delegs : call[i] = "create" \/ child[i] \in {"ready", "run"}}

\* The slots in use are those of the delegations at work.  A slot is lost
\* only when a stop hits create_chat, or a task before its first step; one is
\* returned twice only when the task's save in Redis fails.
SlotsBalance ==
  /\ (Held \cap Background) \ extra \subseteq slots
  /\ slots \subseteq Held \cup leaked
  /\ LET fg(s) == Cardinality(s \ Background)
     IN permits + fg(Held) + fg(leaked) = MaxConcurrent + fg(extra)

\* A posted result is answered in the end, unless it is lost as above, or an
\* entry that nobody removes keeps the chat busy while it waits.
ResultAnswered ==
  \A i \in Background : res[i] = "posted" ~> res[i] = "taken" \/ i \in lost \/ stale \/ stopping \/ gone
=============================================================================
