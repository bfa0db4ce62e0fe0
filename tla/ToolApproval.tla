---------------------------- MODULE ToolApproval ----------------------------
(***************************************************************************)
(* The tool calls of one saved reply: the model asks for tools, the reply  *)
(* pauses (pause_for_tool_approval), the user approves, rejects or answers *)
(* a call (resolve_tool_call_output), each resolve resumes the reply, and  *)
(* the resumed reply runs what is approved (drain_approved_tool_calls).    *)
(*                                                                         *)
(* Every save writes the whole output that its writer read earlier.  A     *)
(* reply is a task; a resolve is a request, and awaits between its read    *)
(* and its save.  Nothing keeps a client from continuing the reply while   *)
(* it waits or is being written.  Writes to the database succeed.          *)
(***************************************************************************)
EXTENDS Naturals, FiniteSets

CONSTANTS Requests,   \* concurrent resolve requests
          Replies,    \* concurrent replies of the message
          MaxCall,    \* bound: the calls the model makes
          AnyCall,    \* clients resolve any call that waits, or else, as
                      \* the web client does, one that an event showed as
                      \* pending
          LateSends,  \* bound: clients go on resolving once the reply was continued
                      \* while it waited or was under way
          MaxFaults   \* bound: stops, failed resumes, deaths of the backend, and
                      \* continuations of a reply that waits or is under way

Calls == 1..MaxCall    \* in the order of the output

ASSUME ToolApprovalAssumption == MaxCall \in Nat /\ AnyCall \in BOOLEAN /\ LateSends \in BOOLEAN /\ MaxFaults \in Nat

VARIABLES
  st,      \* the stored output: the status of each call.  'approved' is queued
           \* and approved, 'stuck' pending and approved, 'open' in_progress;
           \* 'rejected' and 'done' have their function_call_output
  done,    \* the message is done, as its clients know
  made,    \* the number of calls made so far
  asks,    \* the calls that are ask_user
  view,    \* the output last emitted to the clients
  mode,    \* the chat's tool_approval_mode
  req,     \* each resolve: its progress, call, action and the output it read
  reply,   \* each reply: its progress, mode and its copy of the output
  runs,    \* history: how often each tool was run, up to 2
  refused, \* history: the calls whose rejection was accepted
  cut,     \* history: the calls without a result when a fault hit, or when the
           \* reply was continued or streamed on past them; made + 1 where it
           \* was continued while another of its replies was under way
  changed, \* history: the mode was changed
  skips,   \* history: continuations of a reply that waited or was under way
  faults

stored == <<st, done, view>>
past   == <<runs, refused, cut, changed, skips>>
vars   == <<stored, made, asks, mode, req, reply, past, faults>>

Status  == {"absent", "called", "ran", "open", "pending", "queued", "approved", "stuck", "rejected", "done"}
Outputs == [Calls -> Status]
Nothing == [c \in Calls |-> "absent"]
NoReq   == [pc |-> "idle", call |-> 1, act |-> "approve", seen |-> Nothing]
NoReply == [pc |-> "none", mode |-> "ask", out |-> Nothing]

TypeOK ==
  /\ st \in Outputs /\ view \in Outputs /\ done \in BOOLEAN /\ made \in 0..MaxCall
  /\ asks \subseteq Calls /\ mode \in {"ask", "full"}
  /\ req \in [Requests -> [pc : {"idle", "lock", "read", "resume"}, call : Nat,
                           act : {"approve", "reject", "answer"}, seen : Outputs]]
  /\ reply \in [Replies -> [pc : {"none", "drain", "pause", "run", "save", "again", "load", "stream", "stage", "tools"},
                            mode : {"ask", "full"}, out : Outputs]]
  /\ runs \in [Calls -> 0..2] /\ refused \subseteq Calls /\ cut \subseteq 1..(MaxCall + 1)
  /\ changed \in BOOLEAN /\ skips \in Nat /\ faults \in Nat

\* The reply that makes the first calls is about to be streamed.
Init ==
  /\ st = Nothing /\ view = Nothing /\ done = FALSE /\ made = 0 /\ asks = {}
  /\ mode \in {"ask", "full"}
  /\ req = [r \in Requests |-> NoReq]
  /\ \E k \in Replies :
       reply = [j \in Replies |-> IF j = k THEN [NoReply EXCEPT !.pc = "load", !.mode = mode] ELSE NoReply]
  /\ runs = [c \in Calls |-> 0] /\ refused = {} /\ cut = {} /\ changed = FALSE /\ skips = 0 /\ faults = 0

-----------------------------------------------------------------------------
(* The output *)

With(out, s) == {c \in Calls : out[c] \in s}
Least(s)     == CHOOSE c \in s : \A d \in s : c <= d
Waiting      == {"pending", "queued", "approved", "stuck"}
Unanswered   == Waiting \cup {"called", "ran", "open"}
Shown        == {"pending", "stuck"}    \* the client offers to resolve it

\* What is saved of a reply's output: a call of the round being run, with or
\* without its result at hand, is in_progress until record_results.
Stored(out) == [c \in Calls |-> IF out[c] \in {"called", "ran"} THEN "open" ELSE out[c]]

\* Mutant: the calls wait their turn, and it is nobody's turn.
PausedAllQueued(out, new, ask) == [c \in Calls |-> IF c \in new \/ out[c] = "pending" THEN "queued" ELSE out[c]]

\* pause_for_tool_approval: the first call without a result becomes pending,
\* and the others that are in_progress wait behind it.  An ask_user call was
\* staged pending.
Paused(out, new, ask) ==
  LET first == Least(With(out, Unanswered) \cup new)
  IN [c \in Calls |-> IF c = first THEN IF out[c] \in {"approved", "stuck"} THEN "stuck" ELSE "pending"
                      ELSE IF c \in new /\ ask THEN "pending"
                      ELSE IF c \in new \/ out[c] = "open" THEN "queued" ELSE out[c]]

\* drain_approved_tool_calls: a call waits for its approval.
Waits(out, m) == m = "ask" /\ With(out, {"queued"}) \ asks # {}

AtRest == (\A r \in Requests : req[r].pc = "idle") /\ (\A k \in Replies : reply[k].pc = "none")

\* A reply is under way, or a request will start one.
InTurn == (\E k \in Replies : reply[k].pc # "none") \/ (\E r \in Requests : req[r].pc = "resume")

\* The calls without a result, stored or in the copy of a reply.
Open == With(st, Unanswered) \cup UNION {With(reply[k].out, Unanswered) : k \in Replies}

Fault == faults + skips < MaxFaults /\ faults' = faults + 1 /\ cut' = cut \cup Open

-----------------------------------------------------------------------------
(* The resolve request *)

Sends(r) ==
  /\ req[r].pc = "idle" /\ (skips = 0 \/ LateSends)
  /\ \E c \in With(view, Shown \cup IF AnyCall THEN {"queued"} ELSE {}) :
     \E a \in {"approve", "reject", "answer"} :
       req' = [req EXCEPT ![r] = [pc |-> "lock", call |-> c, act |-> a, seen |-> Nothing]]
  /\ UNCHANGED <<stored, made, asks, mode, reply, past, faults>>

\* Mutant: no lock.
Unlocked == TRUE

\* _resolving_message: one resolve of the message at a time.
LockFree == \A q \in Requests : req[q].pc # "read"

\* The message is read under the lock.
Reads(r) ==
  /\ req[r].pc = "lock" /\ LockFree
  /\ req' = [req EXCEPT ![r].pc = "read", ![r].seen = st]
  /\ UNCHANGED <<stored, made, asks, mode, reply, past, faults>>

\* Mutant: a call is resolved once it has a result.
RefusesAnswered(out, c, a) == out[c] \notin {"pending", "queued", "approved"}

\* 409 for a call that is resolved, or while an approved one has not run;
\* 400 for an action the tool does not take.
Refuses(out, c, a) ==
  \/ out[c] \notin {"pending", "queued"}
  \/ With(out, {"approved", "stuck"}) # {}
  \/ (a = "approve" /\ c \in asks) \/ (a = "answer" /\ c \notin asks)

IsRefused(r) ==
  /\ req[r].pc = "read" /\ Refuses(req[r].seen, req[r].call, req[r].act)
  /\ req' = [req EXCEPT ![r] = NoReq]
  /\ UNCHANGED <<stored, made, asks, mode, reply, past, faults>>

\* The output that was read is saved with the call resolved, and emitted.
Resolves(r) ==
  /\ req[r].pc = "read" /\ ~Refuses(req[r].seen, req[r].call, req[r].act)
  /\ LET c == req[r].call  a == req[r].act
     IN /\ st' = [req[r].seen EXCEPT ![c] = CASE a = "approve" -> "approved"
                                              [] a = "reject" -> "rejected" [] a = "answer" -> "done"]
        /\ refused' = IF a = "reject" THEN refused \cup {c} ELSE refused
  /\ view' = st' /\ done' = FALSE
  /\ req' = [req EXCEPT ![r].pc = "resume", ![r].seen = Nothing]
  /\ UNCHANGED <<made, asks, mode, reply, runs, cut, changed, skips, faults>>

NewReply(k) == /\ reply[k].pc = "none"
               /\ reply' = [reply EXCEPT ![k] = [pc |-> "drain", mode |-> mode, out |-> Nothing]]

\* build_tool_approval_resume_payload with the chat's current mode, and
\* chat_completion, which starts the reply's task.
Resumes(r) ==
  /\ req[r].pc = "resume"
  /\ req' = [req EXCEPT ![r] = NoReq]
  /\ \E k \in Replies : NewReply(k)
  /\ UNCHANGED <<stored, made, asks, mode, past, faults>>

\* Either raises: the parent message or the model is gone.
ResumeFails(r) ==
  /\ req[r].pc = "resume" /\ Fault
  /\ req' = [req EXCEPT ![r] = NoReq]
  /\ UNCHANGED <<stored, made, asks, mode, reply, runs, refused, changed, skips>>

-----------------------------------------------------------------------------
(* drain_approved_tool_calls *)

\* The copy is read anew before the stream.
To(k, pc, out) == reply' = [reply EXCEPT ![k].pc = pc, ![k].out = IF pc = "load" THEN Nothing ELSE out]
Ends(k)        == reply' = [reply EXCEPT ![k] = NoReply]

\* Mutant: a call that waits is asked about before the approved ones run.
DrainAsksFirst(k) ==
  /\ reply[k].pc = "drain"
  /\ To(k, IF Waits(st, reply[k].mode) THEN "pause" ELSE IF With(st, {"approved"}) # {} THEN "run" ELSE "load", st)
  /\ UNCHANGED <<stored, made, asks, mode, req, past, faults>>

DrainReads(k) ==
  /\ reply[k].pc = "drain"
  /\ To(k, IF With(st, {"approved"}) # {} THEN "run" ELSE IF Waits(st, reply[k].mode) THEN "pause" ELSE "load", st)
  /\ UNCHANGED <<stored, made, asks, mode, req, past, faults>>

DrainPauses(k) ==
  /\ reply[k].pc = "pause" /\ Ends(k)
  /\ st' = Paused(reply[k].out, {}, FALSE) /\ view' = st' /\ done' = FALSE
  /\ UNCHANGED <<made, asks, mode, req, past, faults>>

Ran(cs) == runs' = [c \in Calls |-> IF c \in cs /\ runs[c] < 2 THEN runs[c] + 1 ELSE runs[c]]

\* The first of the approved calls is run.
RunsTool(k) ==
  /\ reply[k].pc = "run"
  /\ LET c   == Least(With(reply[k].out, {"approved"}))
         out == [reply[k].out EXCEPT ![c] = "done"]
     IN Ran({c}) /\ To(k, IF With(out, {"approved"}) = {} THEN "save" ELSE "run", out)
  /\ UNCHANGED <<stored, made, asks, mode, req, refused, cut, changed, skips, faults>>

\* Others wait: pause_for_tool_approval saves first, without an event.
DrainSavesPaused(k) ==
  /\ reply[k].pc = "save" /\ Waits(reply[k].out, reply[k].mode)
  /\ st' = Paused(reply[k].out, {}, FALSE) /\ To(k, "again", st')
  /\ UNCHANGED <<done, view, made, asks, mode, req, past, faults>>

\* The save; the reply stays paused, or goes on.
DrainSaves(k) ==
  /\ reply[k].pc = "again" \/ (reply[k].pc = "save" /\ ~Waits(reply[k].out, reply[k].mode))
  /\ st' = reply[k].out /\ view' = st' /\ done' = FALSE
  /\ IF With(st', Waiting) # {} THEN Ends(k) ELSE To(k, "load", st')
  /\ UNCHANGED <<made, asks, mode, req, past, faults>>

-----------------------------------------------------------------------------
(* The streamed reply *)

\* _load_starting_output; calls may wait that the drain did not ask about.
Loads(k) ==
  /\ reply[k].pc = "load" /\ To(k, "stream", st) /\ cut' = cut \cup With(st, Unanswered)
  /\ UNCHANGED <<stored, made, asks, mode, req, runs, refused, changed, skips, faults>>

\* stage: the model made calls; ask_user is on its own.  The reply pauses.
Stages(k) ==
  /\ reply[k].pc = "stream"
  /\ \E n \in 1..(MaxCall - made) : \E ask \in BOOLEAN :
       LET new == (made + 1)..(made + n)
       IN /\ ask => n = 1
          /\ ask \/ reply[k].mode = "ask"
          /\ made' = made + n /\ asks' = IF ask THEN asks \cup new ELSE asks
          /\ To(k, "stage", Paused(reply[k].out, new, ask))
  /\ UNCHANGED <<stored, mode, req, past, faults>>

\* _pause: the save, and the event.
StagePauses(k) ==
  /\ reply[k].pc = "stage" /\ Ends(k)
  /\ st' = reply[k].out /\ view' = st' /\ done' = FALSE
  /\ UNCHANGED <<made, asks, mode, req, past, faults>>

\* stage in full mode: the calls are appended, and shown, before they are run.
Appends(k) ==
  /\ reply[k].pc = "stream" /\ reply[k].mode = "full"
  /\ \E n \in 1..(MaxCall - made) :
       LET out == [c \in Calls |-> IF c \in (made + 1)..(made + n) THEN "called" ELSE reply[k].out[c]]
       IN made' = made + n /\ To(k, "tools", out) /\ view' = Stored(out)
  /\ UNCHANGED <<st, done, asks, mode, req, past, faults>>

\* execute, one call after the other.
Executes(k) ==
  /\ reply[k].pc = "tools" /\ With(reply[k].out, {"called"}) # {}
  /\ LET c == Least(With(reply[k].out, {"called"}))
     IN Ran({c}) /\ To(k, "tools", [reply[k].out EXCEPT ![c] = "ran"])
  /\ UNCHANGED <<stored, made, asks, mode, req, refused, cut, changed, skips, faults>>

\* record_results, and the event.
Records(k) ==
  /\ reply[k].pc = "tools" /\ With(reply[k].out, {"called"}) = {}
  /\ LET out == [c \in Calls |-> IF reply[k].out[c] = "ran" THEN "done" ELSE reply[k].out[c]]
     IN To(k, "stream", out) /\ view' = out
  /\ UNCHANGED <<st, done, made, asks, mode, req, past, faults>>

\* _finish.
Finishes(k) ==
  /\ reply[k].pc = "stream" /\ Ends(k)
  /\ st' = reply[k].out /\ view' = st' /\ done' = TRUE
  /\ UNCHANGED <<made, asks, mode, req, past, faults>>

\* The user stops the reply, or it fails: what was streamed is saved, what
\* the drain did is not.
Stopped(k) ==
  /\ reply[k].pc # "none" /\ Ends(k) /\ Fault
  /\ IF reply[k].pc \in {"stream", "stage", "tools"} THEN st' = Stored(reply[k].out) /\ view' = st'
     ELSE UNCHANGED <<st, view>>
  /\ done' = TRUE
  /\ UNCHANGED <<made, asks, mode, req, runs, refused, changed, skips>>

\* Continue Response: the reply is entered again.  The server takes it at any
\* time; the web client offers it where it has the reply as done, and it has
\* one that waits as done once it has loaded the chat.
Continues(k) ==
  /\ NewReply(k) /\ done' = FALSE
  /\ IF InTurn \/ With(st, Unanswered) # {}
     THEN faults + skips < MaxFaults /\ skips' = skips + 1 /\ cut' = cut \cup Open \cup {made + 1}
     ELSE UNCHANGED <<skips, cut>>
  /\ UNCHANGED <<st, view, made, asks, mode, req, runs, refused, changed, faults>>

SetsMode ==
  /\ mode' \in {"ask", "full"} \ {mode} /\ changed' = TRUE
  /\ UNCHANGED <<stored, made, asks, req, reply, runs, refused, cut, skips, faults>>

Crash ==
  /\ Fault
  /\ req' = [r \in Requests |-> NoReq] /\ reply' = [k \in Replies |-> NoReply]
  /\ UNCHANGED <<stored, made, asks, mode, runs, refused, changed, skips>>

Request(r) == Reads(r) \/ IsRefused(r) \/ Resolves(r) \/ Resumes(r)
Drain(k)   == DrainReads(k) \/ DrainPauses(k) \/ RunsTool(k) \/ DrainSavesPaused(k) \/ DrainSaves(k)
Stream(k)  == Loads(k) \/ Stages(k) \/ StagePauses(k) \/ Appends(k) \/ Executes(k) \/ Records(k) \/ Finishes(k)

Next ==
  \/ \E r \in Requests : Sends(r) \/ Request(r) \/ ResumeFails(r)
  \/ \E k \in Replies : Drain(k) \/ Stream(k) \/ Stopped(k) \/ Continues(k)
  \/ SetsMode \/ Crash

Spec == Init /\ [][Next]_vars

\* The event loop goes on with requests and with the drain; a tool ends.
FairSpec ==
  /\ Spec
  /\ \A r \in Requests : WF_vars(Resumes(r))
  /\ \A k \in Replies : WF_vars(Drain(k))

-----------------------------------------------------------------------------
(* Properties *)

\* The call, or one before it, had no result when a fault hit, or when the
\* reply was continued or streamed on past it.
Hit(c) == \E d \in cut : d <= c

\* No approved tool is run twice (#174: resolving again, or resolving another
\* call meanwhile, must not start a second resume), whatever requests race,
\* unless the call is hit.  Two replies may be under way then, each with a copy
\* of its own, and the later save may undo what the other has saved.
RunsOnce == \A c \in Calls : runs[c] <= 1 \/ Hit(c)

\* A call whose rejection was accepted is never run, also when an approval of
\* it races (test_tool_approval_resolve: both a rejection and a real output).
RejectedNeverRuns == \A c \in refused : runs[c] = 0 \/ Hit(c)

\* A reply at rest that is not done waits for a call the user is asked about,
\* unless a fault hit it.  The exception is a chat whose mode was changed to
\* full while several calls waited: the next one stays queued, and the web
\* client does not offer to resolve it.
PausedAsks ==
  AtRest /\ ~done /\ faults = 0 => With(view, Shown \cup IF changed THEN {"queued"} ELSE {}) # {}

\* An approved call is run and its result saved, unless the call is hit.
ApprovedRuns == \A c \in Calls : st[c] = "approved" ~> st[c] = "done" \/ Hit(c)
=============================================================================
