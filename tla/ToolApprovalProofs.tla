------------------------- MODULE ToolApprovalProofs -------------------------
(***************************************************************************)
(* What holds of the tool calls of a reply for any number of calls, of     *)
(* requests, of replies, of faults and of continuations.                   *)
(*                                                                         *)
(* Where the clients resolve what they are shown (~AnyCall), and until a   *)
(* call is hit, the turn is somebody's alone (TurnInv): a reply has it, or *)
(* a request that will resume one, or the user, who is then shown the one  *)
(* call that is pending (ViewInv).  Whoever has it holds what is stored    *)
(* (OutInv, ReqInv), so that no save undoes another.  Once a call is hit   *)
(* replies may overlap, and what was answered before it stays so           *)
(* (SettledInv).                                                           *)
(*                                                                         *)
(* That a reply at rest asks needs no turn: every reply that ends leaves   *)
(* the user a call, whoever else is at work (PauseInv).                    *)
(***************************************************************************)
EXTENDS ToolApproval, WellFoundedInduction, TLAPS

Busy(k)     == reply[k].pc # "none"
Resuming(r) == req[r].pc = "resume"

\* The reply has a copy of the output that it may save.
Keeps(e)  == e.pc \in {"pause", "run", "save", "again", "stream", "stage", "tools"}
Copies(k) == Keeps(reply[k])

\* The request will save the output it has read.
Accepted(r) == req[r].pc = "read" /\ ~Refuses(req[r].seen, req[r].call, req[r].act)

\* One resolve of the message at a time.
LockInv == \A q, r \in Requests : req[q].pc = "read" /\ req[r].pc = "read" => q = r

\* Nothing is known of a call that was not made.
MadeInv ==
  /\ cut \subseteq 1..(made + 1) /\ asks \subseteq 1..made /\ refused \subseteq 1..made
  /\ \A c \in Calls : c > made =>
       /\ st[c] = "absent" /\ runs[c] = 0
       /\ \A k \in Replies : reply[k].out[c] = "absent"
       /\ \A r \in Requests : req[r].pc = "read" => req[r].seen[c] = "absent"
  /\ \A r \in Requests : req[r].pc \in {"lock", "read"} => req[r].call \in Calls

\* A reply pauses, or runs tools, where there is a call to do so for.
CopyInv == \A k \in Replies :
  /\ reply[k].pc \in {"pause", "again"} => With(reply[k].out, Unanswered) # {}
  /\ reply[k].pc = "run" => With(reply[k].out, {"approved"}) # {}

\* What was answered when a later call was hit stays answered.
SettledInv == cut # {} => \A c \in Calls : ~Hit(c) =>
  /\ st[c] \notin Unanswered
  /\ \A k \in Replies : Copies(k) => reply[k].out[c] \notin Unanswered
  /\ \A r \in Requests : Accepted(r) => req[r].seen[c] \notin Unanswered

\* The turn is one reply's or one request's, or the user's.
TurnInv ==
  /\ \A j, k \in Replies : Busy(j) /\ Busy(k) => j = k
  /\ \A q, r \in Requests : Resuming(q) /\ Resuming(r) => q = r
  /\ \A k \in Replies, r \in Requests : ~(Busy(k) /\ Resuming(r))
  /\ done => ~InTurn

\* The clients see what is stored when it is the user's turn, and are asked
\* about a call only then.
ViewInv ==
  /\ InTurn \/ \A c \in Calls : view[c] \in Shown => st[c] = view[c]
  /\ InTurn \/ done => With(view, Shown) = {}
  /\ \A c \in Calls : st[c] \notin {"stuck", "open", "called", "ran"}
  /\ \A c \in Calls : st[c] = "pending" => ~InTurn \/ \E k \in Replies : reply[k].pc = "again"
  /\ \A c, d \in Calls : st[c] = "pending" /\ st[d] = "pending" => c = d

\* How a reply's copy differs from what is stored.
Differs(p, old, new) ==
  CASE p \in {"pause", "again"} -> new = old
    [] p = "run" -> new = old \/ (old = "approved" /\ new = "done")
    [] p = "save" -> new # "approved" /\ (new = old \/ (old = "approved" /\ new = "done"))
    [] p = "stream" -> new = old \/ (old = "absent" /\ new = "done")
    [] p = "tools" -> new = old \/ (old = "absent" /\ new \in {"done", "called", "ran"})
    [] p = "stage" -> new = old \/ (old = "absent" /\ new \in {"done", "pending", "queued"})
    [] OTHER -> TRUE

\* What a reply's copy may be; it streams only when no call waits.
OutOf(e, old) ==
  /\ \A c \in Calls : Differs(e.pc, old[c], e.out[c])
  /\ e.pc = "again" => \E c \in Calls : old[c] = "pending"
  /\ e.pc = "stage" => \A c, d \in Calls : e.out[c] = "pending" /\ e.out[d] = "pending" => c = d
  /\ e.pc \in {"pause", "again", "load"} => \A c \in Calls : old[c] # "approved"
  /\ e.pc \in {"stream", "stage", "tools"} => \A c \in Calls : old[c] \notin Unanswered

OutInv == \A k \in Replies : OutOf(reply[k], st)

\* A request is about a call the clients were shown; the one that will be
\* accepted has read what is stored.
ReqInv == \A r \in Requests :
  /\ req[r].pc \in {"lock", "read"} =>
       /\ req[r].call \in 1..made /\ st[req[r].call] \notin {"queued", "absent"}
       /\ InTurn => st[req[r].call] # "pending"
  /\ Accepted(r) => ~InTurn /\ req[r].seen = st

\* A call without a result was not run, but for one that the reply is at.
FreshInv == \A c \in Calls :
  /\ st[c] \in {"pending", "queued"} => runs[c] = 0
  /\ st[c] = "approved" =>
       runs[c] = 0 \/ \E k \in Replies : reply[k].pc \in {"run", "save"} /\ reply[k].out[c] = "done"
  /\ \A k \in Replies : Copies(k) /\ reply[k].out[c] \in Unanswered \ {"ran"} => runs[c] = 0
  /\ c \in refused => st[c] \in {"rejected", "done"} /\ runs[c] = 0

Clean == TurnInv /\ ViewInv /\ OutInv /\ ReqInv /\ FreshInv

IndInv ==
  /\ TypeOK /\ LockInv /\ MadeInv /\ CopyInv /\ SettledInv
  /\ cut = {} => Clean
  /\ RunsOnce /\ RejectedNeverRuns

-----------------------------------------------------------------------------
(* The output *)

\* A set of calls has a first one.
LEMMA LeastIn ==
  ASSUME NEW s, s \subseteq Nat, s # {}
  PROVE  Least(s) \in s
<1>1. \E less : IsWellFoundedOn(less, Nat) /\ \A x, y \in Nat : x < y => <<x, y>> \in less
  <2>1. \A x, y \in Nat : x < y => <<x, y>> \in OpToRel(<, Nat) BY DEF OpToRel
  <2> QED BY <2>1, NatLessThanWellFounded
<1>2. PICK less : IsWellFoundedOn(less, Nat) /\ \A x, y \in Nat : x < y => <<x, y>> \in less
  BY <1>1
<1>3. IsWellFoundedOn(less, Nat) BY <1>2
<1>4. PICK x \in s : \A y \in s : ~(<<y, x>> \in less)
  <2> HIDE <1>2
  <2> QED BY <1>3, WFMin, Zenon
<1>5. \A y \in s : ~(y < x) BY <1>2, <1>4, Zenon
<1>6. \A y \in s : x <= y BY <1>5
<1> QED BY <1>6 DEF Least

\* pause_for_tool_approval asks about one call, and queues the others.
PausedAs(out, new, ask, q, first) ==
  /\ q \in Outputs /\ first \in Calls /\ (out[first] \in Unanswered \/ first \in new)
  /\ q[first] = IF out[first] \in {"approved", "stuck"} THEN "stuck" ELSE "pending"
  /\ \A c \in Calls : c # first => q[c] = IF c \in new /\ ask THEN "pending"
                                       ELSE IF c \in new \/ out[c] = "open" THEN "queued" ELSE out[c]

LEMMA PausedFirst ==
  ASSUME NEW out \in Outputs, NEW new \in SUBSET Calls, NEW ask \in BOOLEAN, With(out, Unanswered) \cup new # {}
  PROVE  \E first \in Calls : PausedAs(out, new, ask, Paused(out, new, ask), first)
<1> DEFINE s == With(out, Unanswered) \cup new
<1>0. Calls \subseteq Nat BY ToolApprovalAssumption DEF Calls
<1>1. s \subseteq Nat /\ s \subseteq Calls /\ s # {} BY <1>0 DEF With
<1>2. Least(s) \in s
  <2> HIDE DEF s
  <2> QED BY <1>1, LeastIn
<1>3. Least(s) \in Calls /\ (out[Least(s)] \in Unanswered \/ Least(s) \in new)
  BY <1>1, <1>2 DEF With
<1>4. Paused(out, new, ask) =
        [c \in Calls |-> IF c = Least(s) THEN IF out[c] \in {"approved", "stuck"} THEN "stuck" ELSE "pending"
                         ELSE IF c \in new /\ ask THEN "pending"
                         ELSE IF c \in new \/ out[c] = "open" THEN "queued" ELSE out[c]]
  BY DEF Paused
<1> HIDE DEF s
<1> QED BY <1>3, <1>4 DEF PausedAs, Outputs, Status

ReqRows   == [pc : {"idle", "lock", "read", "resume"}, call : Nat, act : {"approve", "reject", "answer"}, seen : Outputs]
ReplyRows == [pc : {"none", "drain", "pause", "run", "save", "again", "load", "stream", "stage", "tools"},
              mode : {"ask", "full"}, out : Outputs]

\* What a step of a request does to the requests.
SetsReq(r, e) ==
  /\ e \in ReqRows /\ req' \in [Requests -> ReqRows] /\ req'[r] = e
  /\ \A q \in Requests : q # r => req'[q] = req[q]

\* What a step of a reply does to the replies.
SetsReply(k, e) ==
  /\ e \in ReplyRows /\ reply' \in [Replies -> ReplyRows] /\ reply'[k] = e
  /\ \A j \in Replies : j # k => reply'[j] = reply[j]

LEMMA Typed ==
  ASSUME TypeOK
  PROVE  /\ req \in [Requests -> ReqRows] /\ reply \in [Replies -> ReplyRows]
         /\ MaxCall \in Nat /\ Calls \subseteq Nat /\ NoReq \in ReqRows /\ NoReply \in ReplyRows /\ Nothing \in Outputs
BY ToolApprovalAssumption DEF TypeOK, ReqRows, ReplyRows, Calls, NoReq, NoReply, Nothing, Outputs, Status

-----------------------------------------------------------------------------
(* The requests *)

\* A request that does not have the turn, and does not get it.
LEMMA RequestStep ==
  ASSUME IndInv, NEW r \in Requests, NEW e, SetsReq(r, e), req[r].pc # "resume", e.pc # "resume",
         UNCHANGED <<st, done, view, made, asks, mode, reply, runs, refused, cut, changed, skips, faults>>,
         e.pc = "read" => LockFree /\ e.seen = st, e.pc \in {"lock", "read"} => e.call \in Calls,
         cut = {} /\ e.pc \in {"lock", "read"} =>
           e.call \in 1..made /\ st[e.call] \notin {"queued", "absent"} /\ (InTurn => st[e.call] # "pending")
  PROVE  IndInv'
<1>0. TypeOK /\ MaxCall \in Nat /\ Calls \subseteq Nat BY Typed DEF IndInv
<1>5. TypeOK' BY DEF IndInv, TypeOK, SetsReq, ReqRows
<1>6. LockInv' BY DEF IndInv, LockInv, SetsReq, LockFree
<1>7. MadeInv' BY DEF IndInv, MadeInv, SetsReq, Copies
<1>8. CopyInv' BY DEF IndInv, CopyInv, With, Unanswered, Waiting
<1>9. \A q \in Requests : q # r => Accepted(q)' = Accepted(q) BY DEF Accepted, SetsReq, Refuses, With
<1>10. Accepted(r)' => e.pc = "read" /\ e.seen = st /\ ~Refuses(st, e.call, e.act)
  BY DEF Accepted, SetsReq, Refuses, With
<1>11. SettledInv' BY <1>9, <1>10 DEF IndInv, SettledInv, SetsReq, Copies, Hit
<1>12. RunsOnce' /\ RejectedNeverRuns' BY DEF IndInv, RunsOnce, RejectedNeverRuns, Hit
<1>13. ASSUME cut = {} PROVE Clean'
  <2>1. Clean BY <1>13 DEF IndInv
  <2>2. \A q \in Requests : Resuming(q)' = Resuming(q) BY DEF Resuming, SetsReq
  <2>3. \A k \in Replies : Busy(k)' = Busy(k) BY DEF Busy
  <2>4. InTurn' = InTurn BY <2>2, <2>3 DEF InTurn, Busy, Resuming
  <2>5. TurnInv' BY <2>1, <2>2, <2>3, <2>4 DEF Clean, TurnInv
  <2>6. ViewInv' BY <2>1, <2>4 DEF Clean, ViewInv, With
  <2>7. OutInv' BY <2>1 DEF Clean, OutInv
  <2>8. ReqInv'
    <3>1. Accepted(r)' => st[e.call] \in {"pending", "queued"} BY <1>10 DEF Refuses
    <3>2. Accepted(r)' => ~InTurn BY <1>10, <1>13, <3>1
    <3> QED BY <2>1, <2>4, <1>9, <1>10, <1>13, <3>2 DEF Clean, ReqInv, SetsReq
  <2>9. FreshInv' BY <2>1 DEF Clean, FreshInv, Copies
  <2> QED BY <2>5, <2>6, <2>7, <2>8, <2>9 DEF Clean
<1> QED BY <1>5, <1>6, <1>7, <1>8, <1>11, <1>12, <1>13 DEF IndInv

\* A client sends a request about a call it was shown.
LEMMA SendsStep ==
  ASSUME IndInv, ~AnyCall, NEW r \in Requests, Sends(r)
  PROVE  IndInv'
<1>0. TypeOK /\ MaxCall \in Nat /\ Calls \subseteq Nat /\ req \in [Requests -> ReqRows] /\ Nothing \in Outputs BY Typed DEF IndInv
<1>1. PICK c \in With(view, Shown), a \in {"approve", "reject", "answer"} :
        req' = [req EXCEPT ![r] = [pc |-> "lock", call |-> c, act |-> a, seen |-> Nothing]]
  BY DEF Sends, With
<1>2. c \in Calls /\ c \in Nat /\ view[c] \in Shown BY <1>0 DEF With
<1> DEFINE e == [pc |-> "lock", call |-> c, act |-> a, seen |-> Nothing]
<1>3. SetsReq(r, e) /\ e.pc = "lock" /\ e.call = c BY <1>0, <1>1, <1>2 DEF ReqRows, SetsReq
<1> HIDE DEF e
<1>4. req[r].pc = "idle" /\ UNCHANGED <<st, done, view, made, asks, mode, reply, runs, refused, cut, changed, skips, faults>>
  BY DEF Sends, stored, past
<1>5. ASSUME cut = {} PROVE c \in 1..made /\ st[c] = "pending" /\ ~InTurn
  <2>1. ViewInv BY <1>5 DEF IndInv, Clean
  <2>2. ~InTurn BY <1>2, <2>1 DEF ViewInv, With
  <2>4. st[c] \in Shown /\ st[c] # "stuck" BY <1>2, <2>1, <2>2 DEF ViewInv, Shown
  <2> QED BY <1>0, <1>2, <2>2, <2>4 DEF IndInv, MadeInv, Shown, TypeOK, Calls
<1> QED BY <1>2, <1>3, <1>4, <1>5, RequestStep

\* The message is read under the lock.
LEMMA ReadsStep ==
  ASSUME IndInv, NEW r \in Requests, Reads(r)
  PROVE  IndInv'
<1>0. TypeOK /\ req \in [Requests -> ReqRows] /\ st \in Outputs BY Typed DEF IndInv, TypeOK
<1> DEFINE e == [req[r] EXCEPT !.pc = "read", !.seen = st]
<1>1. e \in ReqRows /\ e.pc = "read" /\ e.call = req[r].call /\ e.seen = st BY <1>0 DEF ReqRows
<1>2. req' = [req EXCEPT ![r] = e] BY <1>0 DEF Reads
<1> HIDE DEF e
<1>3. SetsReq(r, e) BY <1>0, <1>1, <1>2 DEF SetsReq
<1>4. req[r].pc = "lock" /\ LockFree /\ UNCHANGED <<st, done, view, made, asks, mode, reply, runs, refused, cut, changed, skips, faults>>
  BY DEF Reads, stored, past
<1>5. cut = {} => e.call \in 1..made /\ st[e.call] \notin {"queued", "absent"} /\ (InTurn => st[e.call] # "pending")
  BY <1>1, <1>4 DEF IndInv, Clean, ReqInv
<1>6. e.call \in Calls BY <1>1, <1>4 DEF IndInv, MadeInv
<1> QED BY <1>1, <1>3, <1>4, <1>5, <1>6, RequestStep

\* A request is refused.
LEMMA IsRefusedStep ==
  ASSUME IndInv, NEW r \in Requests, IsRefused(r)
  PROVE  IndInv'
<1>0. TypeOK /\ req \in [Requests -> ReqRows] /\ NoReq \in ReqRows BY Typed DEF IndInv
<1>1. req' = [req EXCEPT ![r] = NoReq] /\ req[r].pc = "read"
      /\ UNCHANGED <<st, done, view, made, asks, mode, reply, runs, refused, cut, changed, skips, faults>>
  BY DEF IsRefused, stored, past
<1>2. SetsReq(r, NoReq) BY <1>0, <1>1 DEF SetsReq
<1>3. NoReq.pc = "idle" BY DEF NoReq
<1> QED BY <1>1, <1>2, <1>3, RequestStep

\* A call is resolved: the turn goes from the user to the request.
LEMMA ResolvesStep ==
  ASSUME IndInv, NEW r \in Requests, Resolves(r)
  PROVE  IndInv'
<1>0. /\ TypeOK /\ MaxCall \in Nat /\ Calls \subseteq Nat /\ made \in Nat
      /\ req \in [Requests -> ReqRows] /\ Nothing \in Outputs /\ st \in Outputs
  BY Typed DEF IndInv, TypeOK
<1>1. PICK c, a, v, s : /\ c = req[r].call /\ a = req[r].act /\ s = req[r].seen
                        /\ v = CASE a = "approve" -> "approved" [] a = "reject" -> "rejected" [] a = "answer" -> "done"
  OBVIOUS
<1>2. s \in Outputs /\ a \in {"approve", "reject", "answer"} /\ c \in Nat BY <1>0, <1>1 DEF ReqRows
<1>3. /\ v \in {"approved", "rejected", "done"} /\ (a = "reject" => v = "rejected") BY <1>1, <1>2
<1>4. Accepted(r) /\ req[r].pc = "read" BY DEF Accepted, Resolves
<1>5. /\ s[c] \in {"pending", "queued"} /\ \A d \in Calls : s[d] \notin {"approved", "stuck"}
  BY <1>1, <1>4 DEF Accepted, Refuses, With
<1>6. c \in Calls /\ c \in 1..made
  <2>1. c \in Calls BY <1>1, <1>4 DEF IndInv, MadeInv
  <2>2. c > made => s[c] = "absent" BY <1>1, <1>4, <2>1 DEF IndInv, MadeInv
  <2> QED BY <1>0, <1>5, <2>1, <2>2 DEF Calls
<1>7. /\ st' \in Outputs /\ st'[c] = v /\ \A d \in Calls : d # c => st'[d] = s[d]
      /\ refused' = IF a = "reject" THEN refused \cup {c} ELSE refused
  <2>1. st' = [s EXCEPT ![c] = v] /\ refused' = IF a = "reject" THEN refused \cup {c} ELSE refused BY <1>1 DEF Resolves
  <2> QED BY <1>2, <1>3, <1>6, <2>1 DEF Outputs, Status
<1> DEFINE e == [req[r] EXCEPT !.pc = "resume", !.seen = Nothing]
<1>8. e \in ReqRows /\ e.pc = "resume" BY <1>0 DEF ReqRows
<1>9. req' = [req EXCEPT ![r] = e] BY <1>0 DEF Resolves
<1> HIDE DEF e
<1>10. SetsReq(r, e) BY <1>0, <1>8, <1>9 DEF SetsReq
<1>11. view' = st' /\ done' = FALSE /\ UNCHANGED <<made, asks, mode, reply, runs, cut, changed, skips, faults>> BY DEF Resolves
<1>12. \A q \in Requests : Accepted(q)' => Accepted(q) /\ q # r BY <1>8, <1>10, <1>11 DEF Accepted, SetsReq, Refuses, With
<1>13. \A q \in Requests : ~Accepted(q)' BY <1>4, <1>12 DEF IndInv, LockInv, Accepted
<1>14. cut # {} => Hit(c) BY <1>1, <1>4, <1>5, <1>6 DEF IndInv, SettledInv, Unanswered, Waiting
<1>20. TypeOK'
  <2>1. done' \in BOOLEAN BY <1>11
  <2> QED BY <1>6, <1>7, <1>10, <1>11, <2>1 DEF IndInv, TypeOK, SetsReq, ReqRows
<1>21. LockInv' BY <1>8, <1>10 DEF IndInv, LockInv, SetsReq
<1>22. MadeInv'
  <2>2. \A d \in Calls : d > made => s[d] = "absent" BY <1>1, <1>4 DEF IndInv, MadeInv
  <2>3. \A d \in Calls : d > made => d # c BY <1>0, <1>6
  <2>1. \A d \in Calls : d > made => st'[d] = "absent" BY <1>7, <2>2, <2>3
  <2>4. cut' \subseteq 1..(made' + 1) /\ asks' \subseteq 1..made /\ refused' \subseteq 1..made BY <1>6, <1>7, <1>11 DEF IndInv, MadeInv
  <2>5. \A q \in Requests : req'[q].pc \in {"lock", "read"} => req'[q] = req[q] BY <1>8, <1>10 DEF SetsReq
  <2>6. \A k \in Replies : Copies(k)' = Copies(k) BY <1>11 DEF Copies
  <2> QED BY <1>11, <2>1, <2>4, <2>5, <2>6 DEF IndInv, MadeInv
<1>23. CopyInv' BY <1>11 DEF IndInv, CopyInv, With, Unanswered, Waiting
<1>24. SettledInv'
  <2>1. ASSUME cut # {}, NEW d \in Calls, ~Hit(d) PROVE st'[d] \notin Unanswered
    BY <1>1, <1>4, <1>7, <1>14, <2>1 DEF IndInv, SettledInv
  <2> QED BY <1>11, <1>13, <2>1 DEF IndInv, SettledInv, Copies, Hit
<1>25. ASSUME cut = {} PROVE Clean' /\ runs[c] = 0
  <2>1. Clean BY <1>25 DEF IndInv
  <2>2. s = st /\ ~InTurn BY <1>1, <1>4, <2>1 DEF Clean, ReqInv
  <2>3. st[c] = "pending" BY <1>1, <1>4, <1>5, <2>1, <2>2 DEF Clean, ReqInv
  <2>4. \A k \in Replies : reply'[k].pc = "none" /\ ~Busy(k)' BY <1>11, <2>2 DEF InTurn, Busy, Resuming
  <2>5. \A q \in Requests : Resuming(q)' => q = r BY <1>10, <2>2 DEF InTurn, Busy, Resuming, SetsReq
  <2>6. InTurn' BY <1>8, <1>10 DEF InTurn, Busy, Resuming, SetsReq
  <2>7. \A d \in Calls : st'[d] \notin {"pending", "stuck", "open", "called", "ran"}
    <3>1. /\ \A d \in Calls : st[d] \notin {"stuck", "open", "called", "ran"}
          /\ \A d \in Calls : st[d] = "pending" => d = c
      BY <1>6, <2>1, <2>3 DEF Clean, ViewInv
    <3> QED BY <1>3, <1>7, <2>2, <3>1
  <2>8. TurnInv' BY <1>11, <2>4, <2>5 DEF TurnInv
  <2>9. ViewInv' BY <1>11, <2>7 DEF ViewInv, With, Shown
  <2>10. OutInv' BY <2>4 DEF OutInv, OutOf, Differs
  <2>11. ReqInv'
    <3>1. \A d \in 1..made : st[d] \notin {"queued", "absent"} => st'[d] \notin {"queued", "absent"} BY <1>0, <1>3, <1>7, <2>2 DEF Calls, IndInv, TypeOK
    <3>2. \A d \in 1..made : st'[d] # "pending" BY <1>0, <2>7 DEF Calls, IndInv, TypeOK
    <3>3. \A q \in Requests : req'[q].pc \in {"lock", "read"} => req'[q] = req[q] BY <1>8, <1>10 DEF SetsReq
    <3> QED BY <1>11, <1>13, <2>1, <3>1, <3>2, <3>3 DEF Clean, ReqInv
  <2>12. runs[c] = 0 BY <1>6, <2>1, <2>3 DEF Clean, FreshInv
  <2>13. FreshInv'
    <3>1. \A k \in Replies : ~Copies(k)' BY <2>4 DEF Copies, Keeps
    <3>2. \A d \in refused' : d = c \/ d \in refused BY <1>7
    <3>3. a = "reject" => v \notin Unanswered BY <1>3 DEF Unanswered, Waiting
    <3>4. ASSUME NEW d \in Calls, st'[d] \in {"pending", "queued", "approved"} PROVE runs'[d] = 0
      <4>1. CASE d = c BY <1>11, <2>12, <4>1
      <4>2. CASE d # c
        <5>1. st[d] \in {"pending", "queued"} BY <1>5, <1>7, <2>2, <3>4, <4>2
        <5> QED BY <1>11, <2>1, <5>1 DEF Clean, FreshInv
      <4> QED BY <4>1, <4>2
    <3>5. ASSUME NEW d \in Calls, d \in refused' PROVE st'[d] \in {"rejected", "done"} /\ runs'[d] = 0
      <4>1. CASE d = c
        <5>1. c \notin refused BY <1>6, <2>1, <2>3 DEF Clean, FreshInv, Unanswered, Waiting
        <5> QED BY <1>3, <1>7, <1>11, <2>12, <3>3, <3>5, <4>1, <5>1
      <4>2. CASE d # c BY <1>7, <1>11, <2>1, <2>2, <3>2, <3>5, <4>2 DEF Clean, FreshInv
      <4> QED BY <4>1, <4>2
    <3> QED BY <3>1, <3>4, <3>5 DEF FreshInv
  <2> QED BY <2>8, <2>9, <2>10, <2>11, <2>12, <2>13 DEF Clean
<1>26. RunsOnce' BY <1>11 DEF IndInv, RunsOnce, Hit
<1>27. RejectedNeverRuns' BY <1>7, <1>11, <1>14, <1>25 DEF IndInv, RejectedNeverRuns, Hit
<1> QED BY <1>11, <1>20, <1>21, <1>22, <1>23, <1>24, <1>25, <1>26, <1>27 DEF IndInv

-----------------------------------------------------------------------------
(* The replies *)

\* The types of the state.
LEMMA StateTyped ==
  ASSUME IndInv
  PROVE  /\ MaxCall \in Nat /\ Calls \subseteq Nat /\ made \in Nat /\ made \in 0..MaxCall /\ made <= made
         /\ reply \in [Replies -> ReplyRows] /\ req \in [Requests -> ReqRows]
         /\ \A k \in Replies : reply[k] \in ReplyRows /\ reply[k].out \in Outputs
         /\ st \in Outputs /\ view \in Outputs /\ runs \in [Calls -> 0..2] /\ NoReply \in ReplyRows
<1>1. TypeOK BY DEF IndInv
<1> QED BY <1>1, Typed DEF TypeOK, ReplyRows

\* A call made after a fault is hit by it.
LEMMA NewIsHit ==
  ASSUME IndInv, cut # {}, NEW c \in Calls, c > made
  PROVE  Hit(c)
<1>1. Calls \subseteq Nat /\ made \in Nat BY Typed DEF IndInv, TypeOK
<1>2. PICK d \in cut : d \in 1..(made + 1) BY DEF IndInv, MadeInv
<1> QED BY <1>1, <1>2 DEF Hit

\* A reply with the turn, before any fault has hit a call.
LEMMA AloneBusy ==
  ASSUME IndInv, cut = {}, NEW k \in Replies, Busy(k)
  PROVE  /\ \A j \in Replies : j # k => reply[j].pc = "none"
         /\ \A r \in Requests : ~Resuming(r) /\ ~Accepted(r)
         /\ InTurn /\ ~done
         /\ \A c \in Calls : view[c] \notin Shown /\ st[c] \notin {"stuck", "open", "called", "ran"}
         /\ reply[k].pc # "again" => \A c \in Calls : st[c] # "pending"
<1>1. TurnInv /\ ViewInv /\ ReqInv BY DEF IndInv, Clean
<1>2. InTurn BY DEF InTurn, Busy
<1>3. \A j \in Replies : j # k => reply[j].pc = "none" BY <1>1 DEF TurnInv, Busy
<1>4. \A r \in Requests : ~Resuming(r) BY <1>1 DEF TurnInv
<1>5. \A c \in Calls : view[c] \notin Shown BY <1>1, <1>2 DEF ViewInv, With
<1>6. reply[k].pc # "again" => \A c \in Calls : st[c] # "pending" BY <1>1, <1>2, <1>3 DEF ViewInv
<1>7. \A c \in Calls : st[c] \notin {"stuck", "open", "called", "ran"} BY <1>1 DEF ViewInv
<1>8. ~done /\ \A r \in Requests : ~Accepted(r) BY <1>1, <1>2 DEF TurnInv, ReqInv
<1> QED BY <1>2, <1>3, <1>4, <1>5, <1>6, <1>7, <1>8

\* A step of a reply keeps the invariant if what it leaves is as it should
\* be, and, while no call is hit, the rest too.
LEMMA ReplyStep ==
  ASSUME IndInv, NEW k \in Replies, NEW e, SetsReply(k, e), Busy(k),
         UNCHANGED <<req, mode, refused, changed, skips, faults>>,
         st' \in Outputs, view' \in Outputs, done' \in BOOLEAN, runs' \in [Calls -> 0..2],
         made' \in 0..MaxCall, made <= made', asks \subseteq asks', asks' \subseteq asks \cup ((made + 1)..made'),
         cut \subseteq cut', cut' \subseteq 1..(made' + 1),
         e.pc \in {"pause", "again"} => With(e.out, Unanswered) # {},
         e.pc = "run" => With(e.out, {"approved"}) # {},
         \A c \in Calls : c > made' => st'[c] = "absent" /\ runs'[c] = 0 /\ e.out[c] = "absent",
         cut' # {} => \A c \in Calls : ~Hit(c)' =>
           st'[c] \notin Unanswered /\ runs'[c] = runs[c] /\ (Keeps(e) => e.out[c] \notin Unanswered),
         cut' = {} => Clean' /\ \A c \in Calls : runs'[c] <= 1
  PROVE  IndInv'
<1>0. /\ TypeOK /\ MaxCall \in Nat /\ Calls \subseteq Nat /\ made \in Nat /\ made' \in Nat
      /\ reply \in [Replies -> ReplyRows] /\ req \in [Requests -> ReqRows]
  BY Typed DEF IndInv, TypeOK
<1>1. TypeOK'
  <2>1. asks' \subseteq Calls BY <1>0 DEF TypeOK, Calls
  <2>2. cut' \subseteq 1..(MaxCall + 1) BY <1>0
  <2> QED BY <1>0, <2>1, <2>2 DEF TypeOK, SetsReply, ReplyRows
<1>2. LockInv' BY DEF IndInv, LockInv
<1>3. MadeInv'
  <2>1. asks' \subseteq 1..made' /\ refused' \subseteq 1..made'
    <3>1. asks \subseteq 1..made /\ refused \subseteq 1..made BY DEF IndInv, MadeInv
    <3>2. 1..made \subseteq 1..made' /\ (made + 1)..made' \subseteq 1..made' BY <1>0
    <3> QED BY <3>1, <3>2
  <2>2. \A c \in Calls : c > made' => c > made BY <1>0
  <2>3. ASSUME NEW c \in Calls, c > made', NEW j \in Replies PROVE reply'[j].out[c] = "absent"
    BY <2>2, <2>3 DEF IndInv, MadeInv, SetsReply
  <2> QED BY <2>1, <2>2, <2>3 DEF IndInv, MadeInv
<1>4. CopyInv' BY DEF IndInv, CopyInv, SetsReply, With, Unanswered, Waiting
<1>5. \A q \in Requests : Accepted(q)' => Accepted(q)
  <2> SUFFICES ASSUME NEW q \in Requests, Accepted(q)' PROVE Accepted(q) OBVIOUS
  <2>1. req[q].pc = "read" /\ ~Refuses(req[q].seen, req[q].call, req[q].act)' BY DEF Accepted
  <2>2. req[q].seen[req[q].call] \in {"pending", "queued"} BY <2>1 DEF Refuses
  <2>3. req[q].call \in Calls /\ ~(req[q].call > made) BY <2>1, <2>2 DEF IndInv, MadeInv
  <2>4. req[q].call \notin (made + 1)..made' BY <1>0, <2>3
  <2>5. req[q].call \in asks' => req[q].call \in asks BY <2>4
  <2>6. req[q].call \in asks => req[q].call \in asks' OBVIOUS
  <2> QED BY <2>1, <2>5, <2>6 DEF Accepted, Refuses, With
<1>6. \A c \in Calls : Hit(c) => Hit(c)' BY DEF Hit
<1>7. SettledInv'
  <2>1. \A j \in Replies : Copies(j)' => (j = k /\ Keeps(e)) \/ (j # k /\ Copies(j) /\ reply'[j] = reply[j])
    BY DEF Copies, SetsReply
  <2>2. ASSUME cut' # {}, NEW c \in Calls, ~Hit(c)', NEW j \in Replies, Copies(j)' PROVE reply'[j].out[c] \notin Unanswered
    <3>1. CASE j = k BY <2>1, <2>2, <3>1 DEF SetsReply
    <3>2. CASE j # k
      <4>1. Copies(j) /\ reply'[j] = reply[j] BY <2>1, <2>2, <3>2
      <4>2. cut # {} BY <3>2, <4>1, AloneBusy DEF Copies, Keeps
      <4> QED BY <1>6, <2>2, <4>1, <4>2 DEF IndInv, SettledInv
    <3> QED BY <3>1, <3>2
  <2>3. ASSUME cut' # {}, NEW c \in Calls, ~Hit(c)', NEW r \in Requests, Accepted(r)' PROVE req'[r].seen[c] \notin Unanswered
    <3>1. Accepted(r) BY <1>5, <2>3
    <3>2. cut # {} BY <3>1, AloneBusy
    <3> QED BY <1>6, <2>3, <3>1, <3>2 DEF IndInv, SettledInv
  <2> QED BY <2>2, <2>3 DEF SettledInv
<1>8. RunsOnce' BY <1>6 DEF IndInv, RunsOnce
<1>9. RejectedNeverRuns'
  <2>1. refused \subseteq Calls BY <1>0 DEF TypeOK
  <2>2. cut' = {} => \A c \in refused : runs'[c] = 0 BY <2>1 DEF Clean, FreshInv
  <2> QED BY <1>6, <2>1, <2>2 DEF IndInv, RejectedNeverRuns
<1> QED BY <1>1, <1>2, <1>3, <1>4, <1>7, <1>8, <1>9 DEF IndInv

\* While no call is hit, a reply keeps the turn or ends it.
LEMMA CleanStep ==
  ASSUME IndInv, cut = {}, NEW k \in Replies, NEW e, SetsReply(k, e), Busy(k),
         UNCHANGED <<req, refused>>, made' \in 0..MaxCall, made <= made', asks \subseteq asks', asks' \subseteq asks \cup ((made + 1)..made'),
         \A c \in Calls : st[c] \notin {"pending", "queued", "absent"} => st'[c] \notin {"pending", "queued", "absent"},
         \A c \in Calls : c \in refused => st'[c] \in {"rejected", "done"} /\ runs'[c] = 0,
         e.pc # "none" => ~done',
         IF e.pc = "none" /\ ~done' THEN \A c \in Calls : view'[c] \in Shown => st'[c] = view'[c]
         ELSE \A c \in Calls : view'[c] \notin Shown,
         \A c \in Calls : st'[c] \notin {"stuck", "open", "called", "ran"} /\ (st'[c] = "pending" => e.pc \in {"none", "again"}),
         \A c, d \in Calls : st'[c] = "pending" /\ st'[d] = "pending" => c = d,
         \A c \in Calls : /\ st'[c] \in {"pending", "queued"} => runs'[c] = 0
                          /\ st'[c] = "approved" => runs'[c] = 0 \/ (e.pc \in {"run", "save"} /\ e.out[c] = "done")
                          /\ Keeps(e) /\ e.out[c] \in Unanswered \ {"ran"} => runs'[c] = 0,
         OutOf(e, st')
  PROVE  Clean'
<1>0. /\ TypeOK /\ MaxCall \in Nat /\ Calls \subseteq Nat /\ made \in Nat BY Typed DEF IndInv, TypeOK
<1>1. \A j \in Replies : j # k => reply'[j].pc = "none" BY AloneBusy DEF SetsReply
<1>2. reply'[k] = e BY DEF SetsReply
<1>3. \A r \in Requests : ~Resuming(r)' BY AloneBusy DEF Resuming
<1>4. InTurn' <=> e.pc # "none" BY <1>1, <1>2, <1>3 DEF InTurn, Busy, Resuming
<1>5. TurnInv' BY <1>1, <1>3, <1>4 DEF TurnInv, Busy
<1>6. ViewInv'
  <2>1. \A c \in Calls : view'[c] \in Shown => e.pc = "none" /\ ~done' /\ st'[c] = view'[c] OBVIOUS
  <2>2. \A c \in Calls : st'[c] = "pending" => e.pc \in {"none", "again"} OBVIOUS
  <2>3. e.pc = "again" => \E j \in Replies : reply'[j].pc = "again" BY <1>2
  <2> QED BY <1>4, <2>1, <2>2, <2>3 DEF ViewInv, With
<1>7. OutInv'
  <2>1. \A j \in Replies : j # k => OutOf(reply'[j], st') BY <1>1 DEF OutOf, Differs
  <2> QED BY <1>2, <2>1 DEF OutInv
<1>8. ReqInv'
  <2>1. InTurn /\ ReqInv BY AloneBusy DEF IndInv, Clean
  <2>2. \A r \in Requests : ~Accepted(r)'
    <3> SUFFICES ASSUME NEW q \in Requests, Accepted(q)' PROVE Accepted(q) BY AloneBusy
    <3>1. req[q].pc = "read" /\ ~Refuses(req[q].seen, req[q].call, req[q].act)' BY DEF Accepted
    <3>2. req[q].call \in 1..made BY <2>1, <3>1 DEF ReqInv
    <3>3. req[q].call \in asks' => req[q].call \in asks BY <1>0, <3>2
    <3> QED BY <3>1, <3>3 DEF Accepted, Refuses, With
  <2>3. ASSUME NEW r \in Requests, req[r].pc \in {"lock", "read"}
        PROVE  req[r].call \in 1..made' /\ st'[req[r].call] \notin {"pending", "queued", "absent"}
    <3>1. req[r].call \in 1..made /\ st[req[r].call] \notin {"pending", "queued", "absent"} BY <2>1, <2>3 DEF ReqInv
    <3>2. req[r].call \in Calls /\ req[r].call <= made BY <1>0, <3>1 DEF Calls, TypeOK
    <3> QED BY <1>0, <3>1, <3>2
  <2> QED BY <2>2, <2>3 DEF ReqInv
<1>9. FreshInv'
  <2>1. \A j \in Replies : Copies(j)' => j = k /\ Keeps(e) BY <1>1, <1>2 DEF Copies, Keeps
  <2> QED BY <1>2, <2>1 DEF FreshInv
<1> QED BY <1>5, <1>6, <1>7, <1>8, <1>9 DEF Clean

\* The drain reads the message, and runs, pauses or goes on.
LEMMA DrainReadsStep ==
  ASSUME IndInv, NEW k \in Replies, DrainReads(k)
  PROVE  IndInv'
<1>0. /\ MaxCall \in Nat /\ Calls \subseteq Nat /\ made \in Nat /\ made \in 0..MaxCall /\ made <= made /\ reply \in [Replies -> ReplyRows]
      /\ st \in Outputs /\ view \in Outputs /\ runs \in [Calls -> 0..2] /\ Nothing \in Outputs /\ cut \subseteq 1..(made + 1)
  BY StateTyped, Typed DEF IndInv, MadeInv
<1>1. PICK p, o : /\ p = IF With(st, {"approved"}) # {} THEN "run" ELSE IF Waits(st, reply[k].mode) THEN "pause" ELSE "load"
                  /\ o = IF p = "load" THEN Nothing ELSE st
  OBVIOUS
<1>2. UNCHANGED <<st, done, view, made, asks, mode, req, runs, refused, cut, changed, skips, faults>> BY DEF DrainReads, stored, past
<1> DEFINE e == [reply[k] EXCEPT !.pc = p, !.out = o]
<1>3. e \in ReplyRows /\ e.pc = p /\ e.out = o BY <1>0, <1>1 DEF ReplyRows
<1>4. reply' = [reply EXCEPT ![k] = e] BY <1>0, <1>1 DEF DrainReads, To
<1> HIDE DEF e
<1>5. SetsReply(k, e) BY <1>0, <1>3, <1>4 DEF SetsReply
<1>6. reply[k].pc = "drain" /\ Busy(k) BY DEF DrainReads, Busy
<1>7. /\ p \in {"pause", "run"} => o = st
      /\ p = "pause" => With(o, Unanswered) # {}
      /\ p = "run" => With(o, {"approved"}) # {}
      /\ p # "run" => \A c \in Calls : st[c] # "approved"
      /\ p \in {"pause", "run", "load"}
  BY <1>1 DEF Waits, With, Unanswered, Waiting
<1>8. ASSUME cut = {} PROVE Clean' /\ \A c \in Calls : runs[c] <= 1
  <2>1. Clean BY <1>8 DEF IndInv
  <2>2. \A j \in Replies : j # k => reply[j].pc = "none" BY <1>6, <1>8, AloneBusy
  <2>3. ~done /\ \A c \in Calls : view[c] \notin Shown /\ st[c] \notin {"pending", "stuck", "open", "called", "ran"}
    BY <1>6, <1>8, AloneBusy
  <2>4. \A c \in Calls : st[c] \in Unanswered => runs[c] = 0
    BY <1>6, <2>1, <2>2, <2>3 DEF Clean, FreshInv, Unanswered, Waiting
  <2>5. \A c \in Calls : c \in refused => st[c] \in {"rejected", "done"} /\ runs[c] = 0 BY <2>1 DEF Clean, FreshInv
  <2>6. OutOf(e, st)
    <3>1. \A c \in Calls : Differs(p, st[c], o[c]) BY <1>7 DEF Differs
    <3> QED BY <1>3, <1>7, <3>1 DEF OutOf
  <2>7. \A c \in Calls : /\ st[c] \in {"pending", "queued", "approved"} => runs[c] = 0
                         /\ Keeps(e) /\ e.out[c] \in Unanswered \ {"ran"} => runs[c] = 0
    BY <1>3, <1>7, <2>4 DEF Keeps, Unanswered, Waiting
  <2>8. Clean' BY <1>0, <1>2, <1>3, <1>5, <1>6, <1>7, <1>8, <2>3, <2>5, <2>6, <2>7, CleanStep
  <2> QED BY <1>0, <1>8, <2>8 DEF IndInv, RunsOnce, Hit
<1>9. \A c \in Calls : c > made => st[c] = "absent" /\ runs[c] = 0 /\ e.out[c] = "absent"
  BY <1>1, <1>3 DEF IndInv, MadeInv, Nothing
<1>10. cut # {} => \A c \in Calls : ~Hit(c)' => st[c] \notin Unanswered /\ (Keeps(e) => e.out[c] \notin Unanswered)
  BY <1>2, <1>3, <1>7 DEF IndInv, SettledInv, Hit, Keeps
<1>11. done' \in BOOLEAN BY <1>2 DEF IndInv, TypeOK
<1> QED BY <1>0, <1>2, <1>3, <1>5, <1>6, <1>7, <1>8, <1>9, <1>10, <1>11, ReplyStep

\* Nothing approved is left: the next call is asked about.
LEMMA DrainPausesStep ==
  ASSUME IndInv, NEW k \in Replies, DrainPauses(k)
  PROVE  IndInv'
<1>0. /\ MaxCall \in Nat /\ Calls \subseteq Nat /\ made \in 0..MaxCall /\ made <= made /\ reply \in [Replies -> ReplyRows]
      /\ runs \in [Calls -> 0..2] /\ NoReply \in ReplyRows /\ reply[k].out \in Outputs /\ cut \subseteq 1..(made + 1)
  BY StateTyped DEF IndInv, MadeInv
<1>1. PICK out : out = reply[k].out OBVIOUS
<1>2. /\ reply[k].pc = "pause" /\ st' = Paused(out, {}, FALSE) /\ view' = st' /\ done' = FALSE /\ reply' = [reply EXCEPT ![k] = NoReply]
      /\ UNCHANGED <<made, asks, mode, req, runs, refused, cut, changed, skips, faults>>
  BY <1>1 DEF DrainPauses, Ends, past
<1>3. PICK first \in Calls : PausedAs(out, {}, FALSE, st', first)
  <2>1. With(out, Unanswered) \cup {} # {} /\ {} \in SUBSET Calls /\ out \in Outputs BY <1>0, <1>1, <1>2 DEF IndInv, CopyInv
  <2> QED BY <1>2, <2>1, PausedFirst
<1>4. SetsReply(k, NoReply) /\ NoReply.pc = "none" /\ NoReply.out = Nothing BY <1>0, <1>2 DEF SetsReply, NoReply
<1>5. Copies(k) /\ Busy(k) /\ ~Keeps(NoReply) BY <1>2, <1>4 DEF Copies, Keeps, Busy
<1>6. /\ out[first] \in Unanswered
      /\ \A c \in Calls : c # first => st'[c] = out[c] \/ (out[c] = "open" /\ st'[c] = "queued")
  BY <1>3 DEF PausedAs
<1>7. \A c \in Calls : c > made => st'[c] = "absent" /\ runs[c] = 0 /\ NoReply.out[c] = "absent"
  BY <1>1, <1>4, <1>6 DEF IndInv, MadeInv, Unanswered, Waiting, Nothing
<1>8. cut # {} => \A c \in Calls : ~Hit(c)' => st'[c] \notin Unanswered
  BY <1>1, <1>2, <1>5, <1>6 DEF IndInv, SettledInv, Hit, Unanswered, Waiting
<1>9. ASSUME cut = {} PROVE Clean' /\ \A c \in Calls : runs[c] <= 1
  <2>1. Clean BY <1>9 DEF IndInv
  <2>2. \A c \in Calls : out[c] = st[c] /\ st[c] # "approved" BY <1>1, <1>2, <2>1 DEF Clean, OutInv, OutOf, Differs
  <2>3. \A c \in Calls : st[c] \notin {"pending", "stuck", "open", "called", "ran"} BY <1>2, <1>5, <1>9, AloneBusy
  <2>4. st[first] = "queued" /\ st'[first] = "pending" BY <1>3, <2>2, <2>3 DEF PausedAs, Unanswered, Waiting
  <2>5. \A c \in Calls : c # first => st'[c] = st[c] BY <1>6, <2>2, <2>3
  <2>6. /\ \A c \in Calls : st'[c] \in {"pending", "queued"} => st[c] = "queued" /\ runs[c] = 0
        /\ \A c \in Calls : st'[c] = "absent" => st[c] = "absent"
    BY <2>1, <2>3, <2>4, <2>5 DEF Clean, FreshInv
  <2>7. \A c \in Calls : st'[c] \notin {"approved", "stuck", "open", "called", "ran"} /\ (st'[c] = "pending" => c = first)
    BY <2>2, <2>3, <2>4, <2>5
  <2>8. \A c \in Calls : c \in refused => st'[c] \in {"rejected", "done"} /\ runs[c] = 0
    BY <2>1, <2>4, <2>5 DEF Clean, FreshInv, Unanswered, Waiting
  <2>9. OutOf(NoReply, st') BY <1>4 DEF OutOf, Differs
  <2>10. Clean' BY <1>0, <1>2, <1>4, <1>5, <1>9, <2>6, <2>7, <2>8, <2>9, CleanStep
  <2> QED BY <1>9, <2>10 DEF IndInv, RunsOnce, Hit
<1>10. st' \in Outputs /\ view' \in Outputs /\ done' \in BOOLEAN BY <1>2, <1>3 DEF PausedAs
<1> QED BY <1>0, <1>2, <1>4, <1>5, <1>7, <1>8, <1>9, <1>10, ReplyStep

\* The first of the approved calls is run.
LEMMA RunsToolStep ==
  ASSUME IndInv, NEW k \in Replies, RunsTool(k)
  PROVE  IndInv'
<1>0. /\ MaxCall \in Nat /\ Calls \subseteq Nat /\ made \in Nat /\ made \in 0..MaxCall /\ made <= made /\ reply \in [Replies -> ReplyRows]
      /\ runs \in [Calls -> 0..2] /\ reply[k] \in ReplyRows /\ reply[k].out \in Outputs /\ st \in Outputs /\ view \in Outputs
      /\ cut \subseteq 1..(made + 1)
  BY StateTyped DEF IndInv, MadeInv
<1>1. PICK out, c : out = reply[k].out /\ c = Least(With(out, {"approved"})) OBVIOUS
<1>2. PICK q, p : q = [out EXCEPT ![c] = "done"] /\ p = IF With(q, {"approved"}) = {} THEN "save" ELSE "run" OBVIOUS
<1>3. /\ reply[k].pc = "run" /\ runs' = [d \in Calls |-> IF d \in {c} /\ runs[d] < 2 THEN runs[d] + 1 ELSE runs[d]]
      /\ reply' = [reply EXCEPT ![k].pc = p, ![k].out = q]
      /\ UNCHANGED <<st, done, view, made, asks, mode, req, refused, cut, changed, skips, faults>>
  BY <1>1, <1>2 DEF RunsTool, Ran, To, stored
<1>4. c \in Calls /\ out[c] = "approved"
  <2>1. With(out, {"approved"}) # {} BY <1>1, <1>3 DEF IndInv, CopyInv
  <2>2. With(out, {"approved"}) \subseteq Nat BY <1>0 DEF With
  <2>3. c \in With(out, {"approved"}) BY <1>1, <2>1, <2>2, LeastIn
  <2> QED BY <2>3 DEF With
<1>5. q \in Outputs /\ q[c] = "done" /\ \A d \in Calls : d # c => q[d] = out[d] BY <1>0, <1>1, <1>2, <1>4 DEF Outputs, Status
<1> DEFINE e == [reply[k] EXCEPT !.pc = p, !.out = q]
<1>6. e \in ReplyRows /\ e.pc = p /\ e.out = q BY <1>0, <1>2, <1>5 DEF ReplyRows
<1>7. reply' = [reply EXCEPT ![k] = e] BY <1>0, <1>3
<1> HIDE DEF e
<1>8. SetsReply(k, e) BY <1>0, <1>6, <1>7 DEF SetsReply
<1>9. Copies(k) /\ Busy(k) BY <1>3 DEF Copies, Keeps, Busy
<1>10. /\ p \in {"save", "run"} /\ (p = "run" => With(q, {"approved"}) # {})
       /\ p = "save" => \A d \in Calls : q[d] # "approved"
  BY <1>2 DEF With
<1>11. /\ runs' \in [Calls -> 0..2] /\ \A d \in Calls : d # c => runs'[d] = runs[d]
       /\ runs[c] = 0 => runs'[c] = 1
  BY <1>0, <1>3, <1>4
<1>12. \A d \in Calls : d > made => d # c /\ st[d] = "absent" /\ runs'[d] = 0 /\ q[d] = "absent"
  BY <1>1, <1>4, <1>5, <1>11 DEF IndInv, MadeInv
<1>13. cut # {} => \A d \in Calls : ~Hit(d)' => d # c /\ st[d] \notin Unanswered /\ runs'[d] = runs[d] /\ q[d] \notin Unanswered
  BY <1>1, <1>3, <1>4, <1>5, <1>9, <1>11 DEF IndInv, SettledInv, Hit, Unanswered, Waiting
<1>14. ASSUME cut = {} PROVE Clean' /\ \A d \in Calls : runs'[d] <= 1
  <2>1. Clean BY <1>14 DEF IndInv
  <2>2. runs[c] = 0 /\ runs'[c] = 1 BY <1>1, <1>4, <1>9, <1>11, <2>1 DEF Clean, FreshInv, Unanswered, Waiting
  <2>3. \A d \in Calls : out[d] = st[d] \/ (st[d] = "approved" /\ out[d] = "done")
    BY <1>1, <1>3, <2>1 DEF Clean, OutInv, OutOf, Differs
  <2>4. st[c] = "approved" BY <1>4, <2>3
  <2>5. ~done /\ \A d \in Calls : view[d] \notin Shown /\ st[d] \notin {"pending", "stuck", "open", "called", "ran"}
    BY <1>3, <1>9, <1>14, AloneBusy
  <2>6. \A d \in Calls : d \in refused => d # c /\ st[d] \in {"rejected", "done"} /\ runs'[d] = 0
    BY <1>11, <2>1, <2>4 DEF Clean, FreshInv, Unanswered, Waiting
  <2>7. \A d \in Calls : q[d] = st[d] \/ (st[d] = "approved" /\ q[d] = "done") BY <1>5, <2>3, <2>4
  <2>8. \A d \in Calls : q[d] \in Unanswered \ {"ran"} => runs'[d] = 0
    BY <1>1, <1>5, <1>9, <1>11, <2>1 DEF Clean, FreshInv, Unanswered, Waiting
  <2>9. \A d \in Calls : st[d] \in {"pending", "queued"} => runs'[d] = 0
    BY <1>11, <2>1, <2>4 DEF Clean, FreshInv
  <2>10. \A d \in Calls : st[d] = "approved" => runs'[d] = 0 \/ q[d] = "done" BY <2>7, <2>8 DEF Unanswered, Waiting
  <2>11. OutOf(e, st)
    <3>1. \A d \in Calls : Differs(p, st[d], q[d]) BY <1>10, <2>7 DEF Differs
    <3> QED BY <1>6, <1>10, <3>1 DEF OutOf
  <2>12. \A d \in Calls : /\ st[d] \in {"pending", "queued"} => runs'[d] = 0
                          /\ st[d] = "approved" => runs'[d] = 0 \/ (e.pc \in {"run", "save"} /\ e.out[d] = "done")
                          /\ Keeps(e) /\ e.out[d] \in Unanswered \ {"ran"} => runs'[d] = 0
    BY <1>6, <1>10, <2>8, <2>9, <2>10
  <2>13. Clean' BY <1>0, <1>3, <1>6, <1>8, <1>9, <1>10, <1>14, <2>5, <2>6, <2>11, <2>12, CleanStep
  <2>15. \A d \in Calls : runs'[d] <= 1 BY <1>11, <1>14, <2>2 DEF IndInv, RunsOnce, Hit
  <2> QED BY <2>13, <2>15
<1>15. st' \in Outputs /\ view' \in Outputs /\ done' \in BOOLEAN /\ asks' = asks /\ made' = made
  BY <1>0, <1>3 DEF IndInv, TypeOK
<1> QED BY <1>0, <1>3, <1>6, <1>8, <1>9, <1>10, <1>11, <1>12, <1>13, <1>14, <1>15, ReplyStep

\* The approved calls have run and others wait: the output is saved, and the
\* event is still to come.
LEMMA DrainSavesPausedStep ==
  ASSUME IndInv, NEW k \in Replies, DrainSavesPaused(k)
  PROVE  IndInv'
<1>0. /\ MaxCall \in Nat /\ Calls \subseteq Nat /\ made \in 0..MaxCall /\ made <= made /\ reply \in [Replies -> ReplyRows]
      /\ runs \in [Calls -> 0..2] /\ reply[k] \in ReplyRows /\ reply[k].out \in Outputs /\ view \in Outputs
      /\ cut \subseteq 1..(made + 1)
  BY StateTyped DEF IndInv, MadeInv
<1>1. PICK out : out = reply[k].out OBVIOUS
<1>2. /\ reply[k].pc = "save" /\ Waits(out, reply[k].mode) /\ st' = Paused(out, {}, FALSE)
      /\ reply' = [reply EXCEPT ![k].pc = "again", ![k].out = st']
      /\ UNCHANGED <<done, view, made, asks, mode, req, runs, refused, cut, changed, skips, faults>>
  BY <1>1 DEF DrainSavesPaused, To, past
<1>3. PICK first \in Calls : PausedAs(out, {}, FALSE, st', first)
  <2>1. With(out, Unanswered) \cup {} # {} /\ {} \in SUBSET Calls /\ out \in Outputs BY <1>0, <1>1, <1>2 DEF Waits, With, Unanswered, Waiting
  <2> QED BY <1>2, <2>1, PausedFirst
<1>4. PICK e : e = [reply[k] EXCEPT !.pc = "again", !.out = st'] OBVIOUS
<1>5. st' \in Outputs BY <1>3 DEF PausedAs
<1>6. e \in ReplyRows /\ e.pc = "again" /\ e.out = st' BY <1>0, <1>4, <1>5 DEF ReplyRows
<1>7. SetsReply(k, e)
  <2>1. reply' = [reply EXCEPT ![k] = e] BY <1>0, <1>2, <1>4
  <2> QED BY <1>0, <1>6, <2>1 DEF SetsReply
<1>8. Copies(k) /\ Busy(k) BY <1>2 DEF Copies, Keeps, Busy
<1>9. /\ out[first] \in Unanswered /\ st'[first] \in Unanswered
      /\ \A c \in Calls : c # first => st'[c] = out[c] \/ (out[c] = "open" /\ st'[c] = "queued")
  BY <1>3 DEF PausedAs, Unanswered, Waiting
<1>10. With(e.out, Unanswered) # {} BY <1>6, <1>9 DEF With
<1>11. \A c \in Calls : c > made => st'[c] = "absent" /\ runs[c] = 0 /\ e.out[c] = "absent"
  BY <1>1, <1>6, <1>9 DEF IndInv, MadeInv, Unanswered, Waiting
<1>12. cut # {} => \A c \in Calls : ~Hit(c)' => st'[c] \notin Unanswered /\ e.out[c] \notin Unanswered
  BY <1>1, <1>2, <1>6, <1>8, <1>9 DEF IndInv, SettledInv, Hit, Unanswered, Waiting
<1>13. ASSUME cut = {} PROVE Clean' /\ \A c \in Calls : runs[c] <= 1
  <2>1. Clean BY <1>13 DEF IndInv
  <2>2. \A c \in Calls : out[c] # "approved" /\ (out[c] = st[c] \/ (st[c] = "approved" /\ out[c] = "done"))
    BY <1>1, <1>2, <2>1 DEF Clean, OutInv, OutOf, Differs
  <2>3. ~done /\ \A c \in Calls : st[c] \notin {"pending", "stuck", "open", "called", "ran"} /\ view[c] \notin Shown
    BY <1>2, <1>8, <1>13, AloneBusy
  <2>4. \A c \in Calls : out[c] \in Unanswered => out[c] = "queued" /\ st[c] = "queued" /\ runs[c] = 0
    BY <1>1, <1>8, <2>1, <2>2, <2>3 DEF Clean, FreshInv, Unanswered, Waiting
  <2>5. st'[first] = "pending" /\ \A c \in Calls : c # first => st'[c] = out[c]
    <3>1. \A c \in Calls : out[c] \notin {"open", "approved", "stuck"} BY <2>4 DEF Unanswered, Waiting
    <3> QED BY <1>3, <3>1 DEF PausedAs
  <2>6. \A c \in Calls : st'[c] \in Unanswered => st[c] = "queued" /\ runs[c] = 0 BY <1>9, <2>4, <2>5
  <2>7. \A c \in Calls : st'[c] \notin {"approved", "stuck", "open", "called", "ran"} /\ (st'[c] = "pending" => c = first)
    BY <2>4, <2>5 DEF Unanswered, Waiting
  <2>8. \A c \in Calls : c \in refused => st'[c] \in {"rejected", "done"} /\ runs[c] = 0
    <3>1. FreshInv BY <2>1 DEF Clean
    <3>2. \A c \in Calls : st[c] \in {"rejected", "done"} => c # first /\ out[c] = st[c]
      BY <1>9, <2>2, <2>4
    <3> QED BY <2>5, <3>1, <3>2 DEF FreshInv
  <2>9. OutOf(e, st')
    <3>1. \A c \in Calls : Differs("again", st'[c], st'[c]) BY DEF Differs
    <3> QED BY <1>6, <2>5, <2>7, <3>1 DEF OutOf
  <2>10. /\ \A c \in Calls : st'[c] \in {"pending", "queued"} => st[c] = "queued" /\ runs[c] = 0
         /\ \A c \in Calls : st'[c] = "absent" => st[c] = "absent"
    BY <2>2, <2>5, <2>6 DEF Unanswered, Waiting
  <2>11. Clean'
    BY <1>0, <1>2, <1>6, <1>7, <1>8, <1>13, <2>3, <2>6, <2>7, <2>8, <2>9, <2>10, CleanStep
  <2> QED BY <1>13, <2>11 DEF IndInv, RunsOnce, Hit
<1>14. view' \in Outputs /\ done' \in BOOLEAN BY <1>0, <1>2 DEF IndInv, TypeOK
<1> QED BY <1>0, <1>2, <1>5, <1>6, <1>7, <1>8, <1>10, <1>11, <1>12, <1>13, <1>14, ReplyStep

\* The output is saved; the reply stays paused, or goes on.
LEMMA DrainSavesStep ==
  ASSUME IndInv, NEW k \in Replies, DrainSaves(k)
  PROVE  IndInv'
<1>0. /\ MaxCall \in Nat /\ Calls \subseteq Nat /\ made \in 0..MaxCall /\ made <= made /\ reply \in [Replies -> ReplyRows]
      /\ runs \in [Calls -> 0..2] /\ reply[k] \in ReplyRows /\ reply[k].out \in Outputs /\ NoReply \in ReplyRows
      /\ cut \subseteq 1..(made + 1) /\ Nothing \in Outputs
  BY StateTyped, Typed DEF IndInv, MadeInv
<1>1. PICK out : out = reply[k].out OBVIOUS
<1>2. /\ reply[k].pc = "again" \/ (reply[k].pc = "save" /\ ~Waits(out, reply[k].mode))
      /\ st' = out /\ view' = out /\ done' = FALSE
      /\ UNCHANGED <<made, asks, mode, req, runs, refused, cut, changed, skips, faults>>
  BY <1>1 DEF DrainSaves, past
<1>3. PICK e : e = IF With(out, Waiting) # {} THEN NoReply ELSE [reply[k] EXCEPT !.pc = "load", !.out = Nothing] OBVIOUS
<1>4. /\ e \in ReplyRows /\ e.out = Nothing /\ e.pc \in {"none", "load"}
      /\ e.pc = "load" => With(out, Waiting) = {}
  BY <1>0, <1>1, <1>3 DEF ReplyRows, NoReply
<1>5. SetsReply(k, e)
  <2>1. reply' = [reply EXCEPT ![k] = e]
    <3>1. CASE With(out, Waiting) # {} BY <1>0, <1>1, <1>2, <1>3, <3>1 DEF DrainSaves, Ends
    <3>2. CASE With(out, Waiting) = {} BY <1>0, <1>1, <1>2, <1>3, <3>2 DEF DrainSaves, To
    <3> QED BY <3>1, <3>2
  <2> QED BY <1>0, <1>4, <2>1 DEF SetsReply
<1>6. Copies(k) /\ Busy(k) /\ ~Keeps(e) BY <1>2, <1>4 DEF Copies, Keeps, Busy
<1>7. \A c \in Calls : c > made => out[c] = "absent" /\ runs[c] = 0 /\ e.out[c] = "absent"
  BY <1>1, <1>4 DEF IndInv, MadeInv, Nothing
<1>8. cut # {} => \A c \in Calls : ~Hit(c)' => out[c] \notin Unanswered BY <1>1, <1>2, <1>6 DEF IndInv, SettledInv, Hit
<1>9. ASSUME cut = {} PROVE Clean' /\ \A c \in Calls : runs[c] <= 1
  <2>1. Clean BY <1>9 DEF IndInv
  <2>2. \A c \in Calls : out[c] # "approved" /\ (out[c] = st[c] \/ (st[c] = "approved" /\ out[c] = "done"))
    BY <1>1, <1>2, <2>1 DEF Clean, OutInv, OutOf, Differs
  <2>3. \A c \in Calls : out[c] \notin {"approved", "stuck", "open", "called", "ran"} BY <1>6, <1>9, <2>2, AloneBusy
  <2>4. \A c, d \in Calls : out[c] = "pending" /\ out[d] = "pending" => c = d BY <2>1, <2>2 DEF Clean, ViewInv
  <2>5. \A c \in Calls : out[c] \in {"pending", "queued"} => st[c] = out[c] /\ runs[c] = 0 BY <2>1, <2>2 DEF Clean, FreshInv
  <2>6. \A c \in Calls : c \in refused => out[c] \in {"rejected", "done"} /\ runs[c] = 0
    BY <2>1, <2>2 DEF Clean, FreshInv, Unanswered, Waiting
  <2>7. \A c \in Calls : out[c] = "pending" => e.pc = "none" BY <1>4 DEF With, Waiting
  <2>8. IF e.pc = "none" /\ ~done' THEN \A c \in Calls : view'[c] \in Shown => st'[c] = view'[c]
        ELSE \A c \in Calls : view'[c] \notin Shown
    BY <1>2, <1>4, <2>3, <2>7 DEF Shown
  <2>9. OutOf(e, st')
    <3>1. \A c \in Calls : Differs(e.pc, st'[c], e.out[c]) BY <1>4 DEF Differs
    <3> QED BY <1>2, <1>4, <2>3, <3>1 DEF OutOf
  <2>10. \A c \in Calls : st[c] \notin {"pending", "queued", "absent"} => st'[c] \notin {"pending", "queued", "absent"}
    BY <1>2, <2>2, <2>5
  <2>11. Clean'
    BY <1>0, <1>2, <1>4, <1>5, <1>6, <1>9, <2>3, <2>4, <2>5, <2>6, <2>7, <2>8, <2>9, <2>10, CleanStep
  <2> QED BY <1>9, <2>11 DEF IndInv, RunsOnce, Hit
<1>10. st' \in Outputs /\ view' \in Outputs /\ done' \in BOOLEAN BY <1>0, <1>1, <1>2
<1> QED BY <1>0, <1>2, <1>4, <1>5, <1>6, <1>7, <1>8, <1>9, <1>10, ReplyStep

\* The reply loads what is stored, and streams on past what waits.
LEMMA LoadsStep ==
  ASSUME IndInv, NEW k \in Replies, Loads(k)
  PROVE  IndInv'
<1>0. /\ MaxCall \in Nat /\ Calls \subseteq Nat /\ made \in 0..MaxCall /\ made \in Nat /\ made <= made /\ reply \in [Replies -> ReplyRows]
      /\ runs \in [Calls -> 0..2] /\ reply[k] \in ReplyRows /\ st \in Outputs /\ view \in Outputs
  BY StateTyped
<1>1. /\ reply[k].pc = "load" /\ reply' = [reply EXCEPT ![k].pc = "stream", ![k].out = st]
      /\ cut' = cut \cup With(st, Unanswered)
      /\ UNCHANGED <<st, done, view, made, asks, mode, req, runs, refused, changed, skips, faults>>
  BY DEF Loads, To, stored
<1>2. PICK e : e = [reply[k] EXCEPT !.pc = "stream", !.out = st] OBVIOUS
<1>3. e \in ReplyRows /\ e.pc = "stream" /\ e.out = st BY <1>0, <1>2 DEF ReplyRows
<1>4. SetsReply(k, e)
  <2>1. reply' = [reply EXCEPT ![k] = e] BY <1>0, <1>1, <1>2
  <2> QED BY <1>0, <1>3, <2>1 DEF SetsReply
<1>5. Busy(k) BY <1>1 DEF Busy
<1>6. \A c \in Calls : c > made => st[c] = "absent" /\ runs[c] = 0 BY DEF IndInv, MadeInv
<1>7. cut \subseteq cut' /\ cut' \subseteq 1..(made + 1)
  <2>1. With(st, Unanswered) \subseteq 1..(made + 1) BY <1>0, <1>6 DEF With, Calls, Unanswered, Waiting
  <2> QED BY <1>1, <2>1 DEF IndInv, MadeInv
<1>8. \A c \in Calls : ~Hit(c)' => st[c] \notin Unanswered
  <2>1. \A c \in Calls : c <= c BY <1>0
  <2> QED BY <1>1, <2>1 DEF Hit, With
<1>9. ASSUME cut' = {} PROVE Clean' /\ \A c \in Calls : runs[c] <= 1
  <2>1. cut = {} /\ \A c \in Calls : st[c] \notin Unanswered BY <1>1, <1>9 DEF With
  <2>2. Clean BY <2>1 DEF IndInv
  <2>3. ~done /\ \A c \in Calls : view[c] \notin Shown BY <1>5, <2>1, AloneBusy
  <2>4. \A c \in Calls : c \in refused => st[c] \in {"rejected", "done"} /\ runs[c] = 0 BY <2>2 DEF Clean, FreshInv
  <2>5. OutOf(e, st)
    <3>1. \A c \in Calls : Differs("stream", st[c], st[c]) BY DEF Differs
    <3> QED BY <1>3, <2>1, <3>1 DEF OutOf
  <2>6. \A c \in Calls : st[c] \notin {"pending", "queued", "approved", "stuck", "open", "called", "ran"}
    BY <2>1 DEF Unanswered, Waiting
  <2>7. Clean'
    BY <1>0, <1>1, <1>3, <1>4, <1>5, <2>1, <2>3, <2>4, <2>5, <2>6, CleanStep
  <2> QED BY <2>1, <2>7 DEF IndInv, RunsOnce, Hit
<1>10. st' \in Outputs /\ view' \in Outputs /\ done' \in BOOLEAN BY <1>0, <1>1 DEF IndInv, TypeOK
<1> QED BY <1>0, <1>1, <1>3, <1>4, <1>5, <1>6, <1>7, <1>8, <1>9, <1>10, ReplyStep

\* The calls that the model makes next.
LEMMA NewCalls ==
  ASSUME MaxCall \in Nat, NEW m \in 0..MaxCall, NEW n \in 1..(MaxCall - m)
  PROVE  /\ (m + 1)..(m + n) \in SUBSET Calls /\ (m + 1)..(m + n) # {} /\ m + n \in 0..MaxCall /\ m <= m + n
         /\ \A c \in Calls : (c > m + n => c \notin (m + 1)..(m + n) /\ c > m) /\ (c \in (m + 1)..(m + n) => c > m)
<1>1. m \in Nat /\ n \in Nat /\ 1 <= n /\ m + n <= MaxCall OBVIOUS
<1>2. m + 1 \in (m + 1)..(m + n) BY <1>1
<1>3. (m + 1)..(m + n) \in SUBSET Calls BY <1>1 DEF Calls
<1>4. m + n \in 0..MaxCall /\ m <= m + n BY <1>1
<1>5. ASSUME NEW c \in Calls
      PROVE  (c > m + n => c \notin (m + 1)..(m + n) /\ c > m) /\ (c \in (m + 1)..(m + n) => c > m)
  BY <1>1 DEF Calls
<1> QED BY <1>2, <1>3, <1>4, <1>5

\* The model made calls: the reply is about to ask about the first.
LEMMA StagesStep ==
  ASSUME IndInv, NEW k \in Replies, Stages(k)
  PROVE  IndInv'
<1>0. /\ MaxCall \in Nat /\ Calls \subseteq Nat /\ made \in Nat /\ made \in 0..MaxCall /\ reply \in [Replies -> ReplyRows]
      /\ runs \in [Calls -> 0..2] /\ reply[k] \in ReplyRows /\ reply[k].out \in Outputs /\ st \in Outputs /\ view \in Outputs
  BY StateTyped
<1>1. PICK out : out = reply[k].out OBVIOUS
<1>2. PICK n \in 1..(MaxCall - made), ask \in BOOLEAN :
        /\ ask => n = 1
        /\ ask \/ reply[k].mode = "ask"
        /\ made' = made + n /\ asks' = IF ask THEN asks \cup ((made + 1)..(made + n)) ELSE asks
        /\ To(k, "stage", Paused(out, (made + 1)..(made + n), ask))
  BY <1>1 DEF Stages
<1>3. PICK new, q : new = (made + 1)..(made + n) /\ q = Paused(out, new, ask) OBVIOUS
<1>4. /\ new \in SUBSET Calls /\ new # {} /\ made' \in 0..MaxCall /\ made <= made' /\ new = (made + 1)..made'
      /\ \A c \in Calls : (c > made' => c \notin new /\ c > made) /\ (c \in new => c > made)
  BY <1>0, <1>2, <1>3, NewCalls
<1>5. /\ reply[k].pc = "stream" /\ reply' = [reply EXCEPT ![k].pc = "stage", ![k].out = q]
      /\ UNCHANGED <<st, done, view, mode, req, runs, refused, cut, changed, skips, faults>>
  BY <1>2, <1>3 DEF Stages, To, stored, past
<1>6. PICK first \in Calls : PausedAs(out, new, ask, q, first)
  BY <1>0, <1>1, <1>3, <1>4, PausedFirst
<1>7. PICK e : e = [reply[k] EXCEPT !.pc = "stage", !.out = q] OBVIOUS
<1>8. e \in ReplyRows /\ e.pc = "stage" /\ e.out = q BY <1>0, <1>6, <1>7 DEF ReplyRows, PausedAs
<1>9. SetsReply(k, e)
  <2>1. reply' = [reply EXCEPT ![k] = e] BY <1>0, <1>5, <1>7
  <2> QED BY <1>0, <1>8, <2>1 DEF SetsReply
<1>10. Copies(k) /\ Busy(k) BY <1>5 DEF Copies, Keeps, Busy
<1>11. \A c \in Calls : c > made => out[c] = "absent" /\ st[c] = "absent" /\ runs[c] = 0 BY <1>1 DEF IndInv, MadeInv
<1>12. /\ out[first] \in Unanswered \/ first \in new
       /\ \A c \in Calls : c # first => q[c] = out[c] \/ (c \in new /\ q[c] \in {"pending", "queued"}) \/ (out[c] = "open" /\ q[c] = "queued")
  BY <1>6 DEF PausedAs
<1>13. \A c \in Calls : c > made' => st[c] = "absent" /\ runs[c] = 0 /\ q[c] = "absent"
  BY <1>4, <1>11, <1>12 DEF Unanswered, Waiting
<1>14. ASSUME cut # {}, NEW c \in Calls, ~Hit(c)' PROVE st[c] \notin Unanswered /\ q[c] \notin Unanswered
  <2>0. ~Hit(c) BY <1>5, <1>14 DEF Hit
  <2>1. ~(c > made) BY <1>14, <2>0, NewIsHit
  <2>2. c \notin new BY <1>4, <2>1
  <2>3. st[c] \notin Unanswered /\ out[c] \notin Unanswered BY <1>1, <1>10, <1>14, <2>0 DEF IndInv, SettledInv
  <2> QED BY <1>12, <2>2, <2>3 DEF Unanswered, Waiting
<1>15. ASSUME cut = {} PROVE Clean' /\ \A c \in Calls : runs[c] <= 1
  <2>1. Clean BY <1>15 DEF IndInv
  <2>2. \A c \in Calls : st[c] \notin Unanswered /\ (out[c] = st[c] \/ (st[c] = "absent" /\ out[c] = "done"))
    BY <1>1, <1>5, <2>1 DEF Clean, OutInv, OutOf, Differs
  <2>3. \A c \in Calls : out[c] \notin Unanswered BY <2>2 DEF Unanswered, Waiting
  <2>4. first \in new /\ q[first] = "pending" BY <1>4, <1>6, <1>11, <1>12, <2>3 DEF PausedAs
  <2>5. \A c \in Calls : c \notin new => q[c] = out[c] BY <1>12, <2>3, <2>4 DEF Unanswered, Waiting
  <2>6. \A c \in new : q[c] \in {"pending", "queued"} /\ (q[c] = "pending" => c = first)
    <3>1. ASSUME NEW c \in new, c # first PROVE q[c] = "queued"
      <4>1. ~ask BY <1>0, <1>2, <1>3, <2>4, <3>1
      <4>2. c \in Calls BY <1>4
      <4> QED BY <1>6, <3>1, <4>1, <4>2 DEF PausedAs
    <3> QED BY <2>4, <3>1
  <2>7. OutOf(e, st)
    <3>1. \A c \in Calls : Differs("stage", st[c], q[c])
      <4>1. \A c \in new : Differs("stage", st[c], q[c]) BY <1>4, <1>11, <2>6 DEF Differs
      <4>2. \A c \in Calls : c \notin new => Differs("stage", st[c], q[c]) BY <2>2, <2>5 DEF Differs
      <4> QED BY <4>1, <4>2
    <3>2. \A c, d \in Calls : q[c] = "pending" /\ q[d] = "pending" => c = d
      BY <2>3, <2>5, <2>6 DEF Unanswered, Waiting
    <3> QED BY <1>8, <2>2, <3>1, <3>2 DEF OutOf
  <2>8. ~done /\ \A c \in Calls : view[c] \notin Shown BY <1>10, <1>15, AloneBusy
  <2>9. \A c \in Calls : st[c] \notin {"pending", "queued", "approved", "stuck", "open", "called", "ran"}
    BY <2>2 DEF Unanswered, Waiting
  <2>10. \A c \in Calls : q[c] \in Unanswered => runs[c] = 0 BY <1>4, <1>11, <2>3, <2>5
  <2>11. \A c \in Calls : c \in refused => st[c] \in {"rejected", "done"} /\ runs[c] = 0 BY <2>1 DEF Clean, FreshInv
  <2>12. asks \subseteq asks' /\ asks' \subseteq asks \cup ((made + 1)..made') BY <1>2
  <2>13. Clean' BY <1>4, <1>5, <1>8, <1>9, <1>10, <1>15, <2>7, <2>8, <2>9, <2>10, <2>11, <2>12, CleanStep
  <2> QED BY <1>15, <2>13 DEF IndInv, RunsOnce, Hit
<1>16. st' \in Outputs /\ view' \in Outputs /\ done' \in BOOLEAN BY <1>0, <1>5 DEF IndInv, TypeOK
<1>17. asks \subseteq asks' /\ asks' \subseteq asks \cup ((made + 1)..made') BY <1>2
<1>18. cut \subseteq cut' /\ cut' \subseteq 1..(made' + 1)
  <2>1. cut \subseteq 1..(made + 1) /\ made' \in Nat BY <1>4 DEF IndInv, MadeInv
  <2> QED BY <1>0, <1>4, <1>5, <2>1
<1> QED BY <1>0, <1>4, <1>5, <1>8, <1>9, <1>10, <1>13, <1>14, <1>15, <1>16, <1>17, <1>18, ReplyStep

\* A reply that streamed saves its copy, and ends.
LEMMA EndsStep ==
  ASSUME IndInv, NEW k \in Replies, reply[k].pc \in {"stream", "stage"}, Ends(k), st' = reply[k].out, view' = st',
         done' = (reply[k].pc = "stream"), UNCHANGED <<made, asks, mode, req, runs, refused, cut, changed, skips, faults>>
  PROVE  IndInv'
<1>0. /\ MaxCall \in Nat /\ Calls \subseteq Nat /\ made \in 0..MaxCall /\ made <= made /\ reply \in [Replies -> ReplyRows]
      /\ runs \in [Calls -> 0..2] /\ NoReply \in ReplyRows /\ reply[k].out \in Outputs /\ cut \subseteq 1..(made + 1)
  BY StateTyped DEF IndInv, MadeInv
<1>1. PICK out : out = reply[k].out OBVIOUS
<1>2. /\ st' = out /\ view' = out /\ reply' = [reply EXCEPT ![k] = NoReply]
  BY <1>1 DEF Ends
<1>3. SetsReply(k, NoReply) /\ NoReply.pc = "none" /\ NoReply.out = Nothing BY <1>0, <1>2 DEF SetsReply, NoReply
<1>4. Copies(k) /\ Busy(k) /\ ~Keeps(NoReply) BY <1>3 DEF Copies, Keeps, Busy
<1>5. \A c \in Calls : c > made => out[c] = "absent" /\ runs[c] = 0 /\ NoReply.out[c] = "absent"
  BY <1>1, <1>3 DEF IndInv, MadeInv, Nothing
<1>6. cut # {} => \A c \in Calls : ~Hit(c)' => out[c] \notin Unanswered BY <1>1, <1>4 DEF IndInv, SettledInv, Hit
<1>7. ASSUME cut = {} PROVE Clean' /\ \A c \in Calls : runs[c] <= 1
  <2>1. Clean BY <1>7 DEF IndInv
  <2>2. /\ \A c \in Calls : st[c] \notin Unanswered
        /\ \A c \in Calls : out[c] = st[c] \/ (st[c] = "absent" /\ out[c] \in {"done", "pending", "queued"})
        /\ done' => \A c \in Calls : out[c] \notin {"pending", "queued"}
        /\ \A c, d \in Calls : out[c] = "pending" /\ out[d] = "pending" => c = d
    <3>1. CASE reply[k].pc = "stream" BY <1>1, <2>1, <3>1 DEF Clean, OutInv, OutOf, Differs, Unanswered, Waiting
    <3>2. CASE reply[k].pc = "stage" BY <1>1, <2>1, <3>2 DEF Clean, OutInv, OutOf, Differs
    <3> QED BY <3>1, <3>2
  <2>3. \A c \in Calls : out[c] \notin {"approved", "stuck", "open", "called", "ran"} BY <2>2 DEF Unanswered, Waiting
  <2>4. \A c \in Calls : out[c] \in {"pending", "queued"} => st[c] = "absent" /\ runs[c] = 0
    <3>1. FreshInv BY <2>1 DEF Clean
    <3> QED BY <1>1, <1>4, <2>2, <3>1 DEF FreshInv, Unanswered, Waiting
  <2>5. \A c \in Calls : c \in refused => out[c] \in {"rejected", "done"} /\ runs[c] = 0
    BY <2>1, <2>2, <2>4 DEF Clean, FreshInv
  <2>6. OutOf(NoReply, st') BY <1>3 DEF OutOf, Differs
  <2>7. \A c \in Calls : out[c] \in Shown => out[c] = "pending" BY <2>3 DEF Shown
  <2>8. Clean' BY <1>0, <1>2, <1>3, <1>4, <1>7, <2>2, <2>3, <2>4, <2>5, <2>6, <2>7, CleanStep
  <2> QED BY <1>7, <2>8 DEF IndInv, RunsOnce, Hit
<1>8. st' \in Outputs /\ view' \in Outputs /\ done' \in BOOLEAN BY <1>0, <1>1, <1>2
<1> QED BY <1>0, <1>2, <1>3, <1>4, <1>5, <1>6, <1>7, <1>8, ReplyStep

\* _pause, and _finish.
LEMMA StagePausesStep ==
  ASSUME IndInv, NEW k \in Replies, StagePauses(k) \/ Finishes(k)
  PROVE  IndInv'
<1>1. /\ reply[k].pc \in {"stream", "stage"} /\ Ends(k) /\ st' = reply[k].out /\ view' = st'
      /\ UNCHANGED <<made, asks, mode, req, runs, refused, cut, changed, skips, faults>>
      /\ done' = (reply[k].pc = "stream")
  BY DEF StagePauses, Finishes, past
<1> QED BY <1>1, EndsStep

\* In full mode the calls are shown before they are run.
LEMMA AppendsStep ==
  ASSUME IndInv, NEW k \in Replies, Appends(k)
  PROVE  IndInv'
<1>0. /\ MaxCall \in Nat /\ Calls \subseteq Nat /\ made \in Nat /\ made \in 0..MaxCall /\ reply \in [Replies -> ReplyRows]
      /\ runs \in [Calls -> 0..2] /\ reply[k] \in ReplyRows /\ reply[k].out \in Outputs /\ st \in Outputs
  BY StateTyped
<1>1. PICK out : out = reply[k].out OBVIOUS
<1>2. PICK n \in 1..(MaxCall - made) :
        LET q == [c \in Calls |-> IF c \in (made + 1)..(made + n) THEN "called" ELSE out[c]]
        IN made' = made + n /\ To(k, "tools", q) /\ view' = Stored(q)
  BY <1>1 DEF Appends
<1>3. PICK new, q : new = (made + 1)..(made + n) /\ q = [c \in Calls |-> IF c \in new THEN "called" ELSE out[c]] OBVIOUS
<1>4. /\ made' \in 0..MaxCall /\ made <= made'
      /\ \A c \in Calls : (c > made' => c \notin new /\ c > made) /\ (c \in new => c > made)
  BY <1>0, <1>2, <1>3, NewCalls
<1>5. /\ reply[k].pc = "stream" /\ reply' = [reply EXCEPT ![k].pc = "tools", ![k].out = q] /\ view' = Stored(q)
      /\ UNCHANGED <<st, done, asks, mode, req, runs, refused, cut, changed, skips, faults>>
  BY <1>2, <1>3 DEF Appends, To, past
<1>6. q \in Outputs /\ \A c \in Calls : q[c] = IF c \in new THEN "called" ELSE out[c] BY <1>0, <1>1, <1>3 DEF Outputs, Status
<1>7. view' \in Outputs /\ \A c \in Calls : view'[c] = IF q[c] \in {"called", "ran"} THEN "open" ELSE q[c]
  BY <1>5, <1>6 DEF Stored, Outputs, Status
<1>8. PICK e : e = [reply[k] EXCEPT !.pc = "tools", !.out = q] OBVIOUS
<1>9. e \in ReplyRows /\ e.pc = "tools" /\ e.out = q BY <1>0, <1>6, <1>8 DEF ReplyRows
<1>10. SetsReply(k, e)
  <2>1. reply' = [reply EXCEPT ![k] = e] BY <1>0, <1>5, <1>8
  <2> QED BY <1>0, <1>9, <2>1 DEF SetsReply
<1>11. Copies(k) /\ Busy(k) BY <1>5 DEF Copies, Keeps, Busy
<1>12. \A c \in Calls : c > made => out[c] = "absent" /\ st[c] = "absent" /\ runs[c] = 0 BY <1>1 DEF IndInv, MadeInv
<1>13. \A c \in Calls : c > made' => st[c] = "absent" /\ runs[c] = 0 /\ q[c] = "absent" BY <1>4, <1>6, <1>12
<1>14. ASSUME cut # {}, NEW c \in Calls, ~Hit(c)' PROVE st[c] \notin Unanswered /\ q[c] \notin Unanswered
  <2>0. ~Hit(c) BY <1>5, <1>14 DEF Hit
  <2>1. ~(c > made) BY <1>14, <2>0, NewIsHit
  <2>2. c \notin new BY <1>4, <2>1
  <2>3. st[c] \notin Unanswered /\ out[c] \notin Unanswered BY <1>1, <1>11, <1>14, <2>0 DEF IndInv, SettledInv
  <2> QED BY <1>6, <2>2, <2>3
<1>15. ASSUME cut = {} PROVE Clean' /\ \A c \in Calls : runs[c] <= 1
  <2>1. Clean BY <1>15 DEF IndInv
  <2>2. \A c \in Calls : st[c] \notin Unanswered /\ (out[c] = st[c] \/ (st[c] = "absent" /\ out[c] = "done"))
    BY <1>1, <1>5, <2>1 DEF Clean, OutInv, OutOf, Differs
  <2>3. \A c \in Calls : q[c] = st[c] \/ (st[c] = "absent" /\ q[c] \in {"done", "called"}) BY <1>4, <1>6, <1>12, <2>2
  <2>4. \A c \in Calls : st[c] \notin {"pending", "queued", "approved", "stuck", "open", "called", "ran"}
    BY <2>2 DEF Unanswered, Waiting
  <2>5. ~done /\ \A c \in Calls : view'[c] \notin Shown BY <1>7, <1>11, <1>15, <2>3, <2>4, AloneBusy DEF Shown
  <2>6. OutOf(e, st)
    <3>1. \A c \in Calls : Differs("tools", st[c], q[c]) BY <2>3 DEF Differs
    <3> QED BY <1>9, <2>2, <3>1 DEF OutOf
  <2>7. \A c \in Calls : q[c] \in Unanswered => runs[c] = 0
    <3>1. \A c \in Calls : q[c] \in Unanswered => c \in new BY <1>6, <2>2 DEF Unanswered, Waiting
    <3> QED BY <1>4, <1>12, <3>1
  <2>8. \A c \in Calls : c \in refused => st[c] \in {"rejected", "done"} /\ runs[c] = 0 BY <2>1 DEF Clean, FreshInv
  <2>9. Clean' BY <1>4, <1>5, <1>9, <1>10, <1>11, <1>15, <2>4, <2>5, <2>6, <2>7, <2>8, CleanStep
  <2> QED BY <1>15, <2>9 DEF IndInv, RunsOnce, Hit
<1>16. st' \in Outputs /\ done' \in BOOLEAN BY <1>0, <1>5 DEF IndInv, TypeOK
<1>17. cut \subseteq cut' /\ cut' \subseteq 1..(made' + 1)
  <2>1. cut \subseteq 1..(made + 1) /\ made' \in Nat BY <1>4 DEF IndInv, MadeInv
  <2> QED BY <1>0, <1>4, <1>5, <2>1
<1> QED BY <1>0, <1>4, <1>5, <1>7, <1>9, <1>10, <1>11, <1>13, <1>14, <1>15, <1>16, <1>17, ReplyStep

\* The first of the calls made is run.
LEMMA ExecutesStep ==
  ASSUME IndInv, NEW k \in Replies, Executes(k)
  PROVE  IndInv'
<1>0. /\ MaxCall \in Nat /\ Calls \subseteq Nat /\ made \in Nat /\ made \in 0..MaxCall /\ made <= made /\ reply \in [Replies -> ReplyRows]
      /\ runs \in [Calls -> 0..2] /\ reply[k] \in ReplyRows /\ reply[k].out \in Outputs /\ st \in Outputs /\ view \in Outputs
      /\ cut \subseteq 1..(made + 1)
  BY StateTyped DEF IndInv, MadeInv
<1>1. PICK out, c : out = reply[k].out /\ c = Least(With(out, {"called"})) OBVIOUS
<1>2. PICK q : q = [out EXCEPT ![c] = "ran"] OBVIOUS
<1>3. /\ reply[k].pc = "tools" /\ With(out, {"called"}) # {}
      /\ runs' = [d \in Calls |-> IF d \in {c} /\ runs[d] < 2 THEN runs[d] + 1 ELSE runs[d]]
      /\ reply' = [reply EXCEPT ![k].pc = "tools", ![k].out = q]
      /\ UNCHANGED <<st, done, view, made, asks, mode, req, refused, cut, changed, skips, faults>>
  BY <1>1, <1>2 DEF Executes, Ran, To, stored
<1>4. c \in Calls /\ out[c] = "called"
  <2>1. With(out, {"called"}) \subseteq Nat BY <1>0 DEF With
  <2>2. c \in With(out, {"called"}) BY <1>1, <1>3, <2>1, LeastIn
  <2> QED BY <2>2 DEF With
<1>5. q \in Outputs /\ q[c] = "ran" /\ \A d \in Calls : d # c => q[d] = out[d] BY <1>0, <1>1, <1>2, <1>4 DEF Outputs, Status
<1> DEFINE e == [reply[k] EXCEPT !.pc = "tools", !.out = q]
<1>6. e \in ReplyRows /\ e.pc = "tools" /\ e.out = q BY <1>0, <1>5 DEF ReplyRows
<1>7. reply' = [reply EXCEPT ![k] = e] BY <1>0, <1>3
<1> HIDE DEF e
<1>8. SetsReply(k, e) BY <1>0, <1>6, <1>7 DEF SetsReply
<1>9. Copies(k) /\ Busy(k) BY <1>3 DEF Copies, Keeps, Busy
<1>10. /\ runs' \in [Calls -> 0..2] /\ \A d \in Calls : d # c => runs'[d] = runs[d]
       /\ runs[c] = 0 => runs'[c] = 1
  BY <1>0, <1>3, <1>4
<1>11. \A d \in Calls : d > made => d # c /\ st[d] = "absent" /\ runs'[d] = 0 /\ q[d] = "absent"
  BY <1>1, <1>4, <1>5, <1>10 DEF IndInv, MadeInv
<1>12. cut # {} => \A d \in Calls : ~Hit(d)' => d # c /\ st[d] \notin Unanswered /\ runs'[d] = runs[d] /\ q[d] \notin Unanswered
  BY <1>1, <1>3, <1>4, <1>5, <1>9, <1>10 DEF IndInv, SettledInv, Hit, Unanswered, Waiting
<1>13. ASSUME cut = {} PROVE Clean' /\ \A d \in Calls : runs'[d] <= 1
  <2>1. Clean BY <1>13 DEF IndInv
  <2>2. runs[c] = 0 /\ runs'[c] = 1 BY <1>1, <1>4, <1>9, <1>10, <2>1 DEF Clean, FreshInv, Unanswered, Waiting
  <2>3. \A d \in Calls : st[d] \notin Unanswered /\ (out[d] = st[d] \/ (st[d] = "absent" /\ out[d] \in {"done", "called", "ran"}))
    BY <1>1, <1>3, <2>1 DEF Clean, OutInv, OutOf, Differs
  <2>4. \A d \in Calls : st[d] \notin {"pending", "queued", "approved", "stuck", "open", "called", "ran"}
    BY <2>3 DEF Unanswered, Waiting
  <2>5. st[c] = "absent" BY <1>4, <2>3, <2>4
  <2>6. ~done /\ \A d \in Calls : view[d] \notin Shown BY <1>9, <1>13, AloneBusy
  <2>7. \A d \in Calls : d \in refused => st[d] \in {"rejected", "done"} /\ runs'[d] = 0
    BY <1>10, <2>1, <2>5 DEF Clean, FreshInv
  <2>8. \A d \in Calls : q[d] \in Unanswered \ {"ran"} => runs'[d] = 0
    BY <1>1, <1>5, <1>9, <1>10, <2>1 DEF Clean, FreshInv
  <2>9. OutOf(e, st)
    <3>1. \A d \in Calls : Differs("tools", st[d], q[d]) BY <1>5, <2>3, <2>5 DEF Differs
    <3> QED BY <1>6, <2>3, <3>1 DEF OutOf
  <2>10. Clean' BY <1>0, <1>3, <1>6, <1>8, <1>9, <1>13, <2>4, <2>6, <2>7, <2>8, <2>9, CleanStep
  <2>11. \A d \in Calls : runs'[d] <= 1 BY <1>10, <1>13, <2>2 DEF IndInv, RunsOnce, Hit
  <2> QED BY <2>10, <2>11
<1>14. st' \in Outputs /\ view' \in Outputs /\ done' \in BOOLEAN /\ asks' = asks /\ made' = made
  BY <1>0, <1>3 DEF IndInv, TypeOK
<1> QED BY <1>0, <1>3, <1>6, <1>8, <1>9, <1>10, <1>11, <1>12, <1>13, <1>14, ReplyStep

\* The results of the calls that were run are recorded, and shown.
LEMMA RecordsStep ==
  ASSUME IndInv, NEW k \in Replies, Records(k)
  PROVE  IndInv'
<1>0. /\ MaxCall \in Nat /\ Calls \subseteq Nat /\ made \in Nat /\ made \in 0..MaxCall /\ made <= made /\ reply \in [Replies -> ReplyRows]
      /\ runs \in [Calls -> 0..2] /\ reply[k] \in ReplyRows /\ reply[k].out \in Outputs /\ st \in Outputs
      /\ cut \subseteq 1..(made + 1)
  BY StateTyped DEF IndInv, MadeInv
<1>1. PICK out : out = reply[k].out OBVIOUS
<1>2. PICK q : q = [c \in Calls |-> IF out[c] = "ran" THEN "done" ELSE out[c]] OBVIOUS
<1>3. /\ reply[k].pc = "tools" /\ reply' = [reply EXCEPT ![k].pc = "stream", ![k].out = q] /\ view' = q
      /\ UNCHANGED <<st, done, made, asks, mode, req, runs, refused, cut, changed, skips, faults>>
      /\ \A c \in Calls : out[c] # "called"
  BY <1>1, <1>2 DEF Records, To, past, With
<1>4. q \in Outputs /\ \A c \in Calls : q[c] = IF out[c] = "ran" THEN "done" ELSE out[c] BY <1>0, <1>1, <1>2 DEF Outputs, Status
<1>5. PICK e : e = [reply[k] EXCEPT !.pc = "stream", !.out = q] OBVIOUS
<1>6. e \in ReplyRows /\ e.pc = "stream" /\ e.out = q BY <1>0, <1>4, <1>5 DEF ReplyRows
<1>7. SetsReply(k, e)
  <2>1. reply' = [reply EXCEPT ![k] = e] BY <1>0, <1>3, <1>5
  <2> QED BY <1>0, <1>6, <2>1 DEF SetsReply
<1>8. Copies(k) /\ Busy(k) BY <1>3 DEF Copies, Keeps, Busy
<1>9. \A c \in Calls : c > made => st[c] = "absent" /\ runs[c] = 0 /\ q[c] = "absent" BY <1>1, <1>4 DEF IndInv, MadeInv
<1>10. cut # {} => \A c \in Calls : ~Hit(c)' => st[c] \notin Unanswered /\ q[c] \notin Unanswered
  BY <1>1, <1>3, <1>4, <1>8 DEF IndInv, SettledInv, Hit, Unanswered, Waiting
<1>11. ASSUME cut = {} PROVE Clean' /\ \A c \in Calls : runs[c] <= 1
  <2>1. Clean BY <1>11 DEF IndInv
  <2>2. \A c \in Calls : st[c] \notin Unanswered /\ (out[c] = st[c] \/ (st[c] = "absent" /\ out[c] \in {"done", "called", "ran"}))
    BY <1>1, <1>3, <2>1 DEF Clean, OutInv, OutOf, Differs
  <2>3. \A c \in Calls : st[c] \notin {"pending", "queued", "approved", "stuck", "open", "called", "ran"}
    BY <2>2 DEF Unanswered, Waiting
  <2>4. \A c \in Calls : q[c] = st[c] \/ (st[c] = "absent" /\ q[c] = "done") BY <1>3, <1>4, <2>2, <2>3
  <2>5. ~done /\ \A c \in Calls : q[c] \notin Unanswered /\ q[c] \notin Shown
    BY <1>8, <1>11, <2>3, <2>4, AloneBusy DEF Unanswered, Waiting, Shown
  <2>6. OutOf(e, st)
    <3>1. \A c \in Calls : Differs("stream", st[c], q[c]) BY <2>4 DEF Differs
    <3> QED BY <1>6, <2>2, <3>1 DEF OutOf
  <2>7. \A c \in Calls : c \in refused => st[c] \in {"rejected", "done"} /\ runs[c] = 0 BY <2>1 DEF Clean, FreshInv
  <2>8. Clean' BY <1>0, <1>3, <1>6, <1>7, <1>8, <1>11, <2>3, <2>5, <2>6, <2>7, CleanStep
  <2> QED BY <1>11, <2>8 DEF IndInv, RunsOnce, Hit
<1>12. st' \in Outputs /\ view' \in Outputs /\ done' \in BOOLEAN BY <1>0, <1>3, <1>4 DEF IndInv, TypeOK
<1> QED BY <1>0, <1>3, <1>6, <1>7, <1>8, <1>9, <1>10, <1>11, <1>12, ReplyStep

-----------------------------------------------------------------------------
(* The faults *)

\* Whatever anybody holds without a result is hit.
LEMMA OpenHits ==
  ASSUME IndInv, cut \subseteq cut', Open \subseteq cut'
  PROVE  /\ \A c \in Calls : Hit(c) => Hit(c)'
         /\ \A c \in Calls : ~Hit(c)' => /\ ~Hit(c) /\ st[c] \notin Unanswered
                                         /\ \A k \in Replies : reply[k].out[c] \notin Unanswered
                                         /\ \A r \in Requests : Accepted(r) => req[r].seen[c] \notin Unanswered
<1>0. Calls \subseteq Nat BY StateTyped
<1>1. \A c \in Calls : Hit(c) => Hit(c)' BY DEF Hit
<1>2. ASSUME NEW c \in Calls, ~Hit(c)'
      PROVE  /\ ~Hit(c) /\ st[c] \notin Unanswered
             /\ \A k \in Replies : reply[k].out[c] \notin Unanswered
             /\ \A r \in Requests : Accepted(r) => req[r].seen[c] \notin Unanswered
  <2>1. ~Hit(c) BY <1>1, <1>2
  <2>2. c \notin cut' BY <1>0, <1>2 DEF Hit
  <2>3. c \notin Open BY <2>2
  <2>4. st[c] \notin Unanswered BY <2>3 DEF Open, With
  <2>5. ASSUME NEW k \in Replies PROVE reply[k].out[c] \notin Unanswered
    <3>1. c \notin With(reply[k].out, Unanswered) BY <2>3 DEF Open
    <3> QED BY <3>1 DEF With
  <2>6. CASE cut # {} BY <2>1, <2>4, <2>5, <2>6 DEF IndInv, SettledInv
  <2>7. CASE cut = {}
    <3>1. \A r \in Requests : Accepted(r) => req[r].seen = st BY <2>7 DEF IndInv, Clean, ReqInv
    <3> QED BY <2>1, <2>4, <2>5, <3>1
  <2> QED BY <2>6, <2>7
<1> QED BY <1>1, <1>2

\* Only calls that were made are open.
LEMMA OpenMade ==
  ASSUME IndInv
  PROVE  Open \subseteq 1..(made + 1)
<1>0. Calls \subseteq Nat /\ made \in Nat /\ \A c \in Calls : c >= 1 BY StateTyped DEF Calls
<1>1. \A c \in Calls : c > made => st[c] \notin Unanswered /\ \A k \in Replies : reply[k].out[c] \notin Unanswered
  BY DEF IndInv, MadeInv, Unanswered, Waiting
<1>2. \A c \in Open : c \in Calls /\ ~(c > made)
  <2>1. \A c \in Open : c \in Calls /\ (st[c] \in Unanswered \/ \E k \in Replies : reply[k].out[c] \in Unanswered)
    BY DEF Open, With
  <2> QED BY <1>1, <2>1
<1>3. ASSUME NEW c \in Open PROVE c \in 1..(made + 1)
  <2>1. c \in Calls /\ ~(c > made) BY <1>2, <1>3
  <2>2. c \in Nat /\ c >= 1 BY <1>0, <2>1
  <2> QED BY <1>0, <2>1, <2>2
<1> QED BY <1>3

\* A fault ends some requests and some replies, one of which may save what it
\* streamed.
LEMMA FaultStep ==
  ASSUME IndInv, Fault, UNCHANGED <<made, asks, mode, runs, refused, changed, skips>>,
         req' \in [Requests -> ReqRows], \A r \in Requests : req'[r] = req[r] \/ req'[r] = NoReq,
         reply' \in [Replies -> ReplyRows], \A k \in Replies : reply'[k] = reply[k] \/ reply'[k] = NoReply,
         \/ st' = st /\ view' = view
         \/ \E k \in Replies : reply[k].pc \in {"stream", "stage", "tools"} /\ st' = Stored(reply[k].out) /\ view' = st',
         done' \in BOOLEAN, cut = {} => (st' = st \/ ~InTurn') /\ (done' => done \/ ~InTurn')
  PROVE  IndInv'
<1>0. /\ MaxCall \in Nat /\ Calls \subseteq Nat /\ made \in Nat /\ made \in 0..MaxCall /\ TypeOK
      /\ \A k \in Replies : reply[k].out \in Outputs
      /\ st \in Outputs /\ view \in Outputs
  BY StateTyped DEF IndInv
<1>1. NoReq.pc = "idle" /\ NoReply.pc = "none" /\ NoReply.out = Nothing BY DEF NoReq, NoReply
<1>2. \A r \in Requests : req'[r].pc # "idle" => req'[r] = req[r] BY <1>1
<1>3. \A k \in Replies : reply'[k].pc # "none" => reply'[k] = reply[k] BY <1>1
<1>4. \A k \in Replies : Copies(k)' => Copies(k) /\ reply'[k] = reply[k] BY <1>3 DEF Copies, Keeps
<1>5. \A r \in Requests : Accepted(r)' => Accepted(r) /\ req'[r] = req[r] BY <1>2 DEF Accepted, Refuses, With
<1>6. /\ cut' = cut \cup Open /\ cut \subseteq cut' /\ Open \subseteq cut' /\ faults' \in Nat /\ (cut' = {} => cut = {})
      /\ cut' \subseteq 1..(made + 1) /\ cut' \subseteq 1..(MaxCall + 1)
  <2>1. cut' = cut \cup Open /\ faults' \in Nat BY <1>0 DEF Fault, TypeOK
  <2>2. cut' \subseteq 1..(made + 1) BY <2>1, OpenMade DEF IndInv, MadeInv
  <2> QED BY <1>0, <2>1, <2>2
<1>7. /\ \A c \in Calls : Hit(c) => Hit(c)'
      /\ \A c \in Calls : ~Hit(c)' => /\ st[c] \notin Unanswered
                                      /\ \A k \in Replies : reply[k].out[c] \notin Unanswered
                                      /\ \A r \in Requests : Accepted(r) => req[r].seen[c] \notin Unanswered
  BY <1>6, OpenHits
<1>8. \A k \in Replies, c \in Calls : Stored(reply[k].out)[c] = IF reply[k].out[c] \in {"called", "ran"} THEN "open" ELSE reply[k].out[c]
  BY DEF Stored
<1>9. \A c \in Calls : ~Hit(c)' => st'[c] \notin Unanswered BY <1>7, <1>8 DEF Unanswered, Waiting
<1>10. TypeOK'
  <2>1. \A k \in Replies : Stored(reply[k].out) \in Outputs BY <1>0 DEF Stored, Outputs, Status
  <2>2. st' \in Outputs /\ view' \in Outputs BY <1>0, <2>1
  <2> QED BY <1>0, <1>6, <2>2 DEF TypeOK, ReqRows, ReplyRows
<1>11. LockInv' BY <1>2 DEF IndInv, LockInv
<1>12. MadeInv'
  <2>1. \A c \in Calls : c > made => st'[c] = "absent" BY <1>8 DEF IndInv, MadeInv
  <2>2. \A c \in Calls : c > made => \A k \in Replies : reply'[k].out[c] = "absent" BY <1>1 DEF IndInv, MadeInv, Nothing
  <2> QED BY <1>2, <1>6, <2>1, <2>2 DEF IndInv, MadeInv
<1>13. CopyInv' BY <1>3 DEF IndInv, CopyInv, With, Unanswered, Waiting
<1>14. SettledInv' BY <1>4, <1>5, <1>7, <1>9 DEF SettledInv
<1>15. RunsOnce' /\ RejectedNeverRuns'
  <2>1. refused \subseteq Calls BY <1>0 DEF TypeOK
  <2> QED BY <1>7, <2>1 DEF IndInv, RunsOnce, RejectedNeverRuns
<1>16. ASSUME cut' = {} PROVE Clean'
  <2>1. cut = {} /\ Clean BY <1>6, <1>16 DEF IndInv
  <2>2. \A c \in Calls : ~Hit(c)' BY <1>16 DEF Hit
  <2>3. \A c \in Calls : st[c] \notin Unanswered /\ st'[c] \notin Unanswered BY <1>7, <1>9, <2>2
  <2>4. \A k \in Replies : Busy(k)' => Busy(k) BY <1>3 DEF Busy
  <2>5. \A r \in Requests : Resuming(r)' => Resuming(r) BY <1>2 DEF Resuming
  <2>6. InTurn' => InTurn BY <2>4, <2>5 DEF InTurn, Busy, Resuming
  <2>7. \A c \in Calls : st[c] # "absent" => st'[c] = st[c]
    <3>1. \A k \in Replies : reply[k].pc \in {"stream", "stage", "tools"} =>
            \A c \in Calls : st[c] # "absent" => reply[k].out[c] = st[c]
      BY <2>1 DEF Clean, OutInv, OutOf, Differs
    <3>2. \A k \in Replies, c \in Calls : reply[k].out[c] \notin Unanswered BY <1>7, <2>2
    <3> QED BY <1>8, <3>1, <3>2 DEF Unanswered, Waiting
  <2>8. TurnInv' BY <2>1, <2>4, <2>5, <2>6 DEF Clean, TurnInv
  <2>9. ViewInv'
    <3>1. \A c \in Calls : view[c] \notin Shown
      BY <2>1, <2>3 DEF Clean, ViewInv, With, Shown, Unanswered, Waiting
    <3>2. \A c \in Calls : view'[c] \notin Shown BY <2>3, <3>1 DEF Shown, Unanswered, Waiting
    <3> QED BY <2>3, <3>2 DEF ViewInv, With, Unanswered, Waiting
  <2>10. OutInv'
    <3>1. CASE st' = st
      <4>1. \A k \in Replies : reply'[k].pc = "none" => OutOf(reply'[k], st) BY DEF OutOf, Differs
      <4> QED BY <1>3, <2>1, <3>1, <4>1 DEF Clean, OutInv
    <3>2. CASE ~InTurn'
      <4>1. \A k \in Replies : reply'[k].pc = "none" BY <3>2 DEF InTurn, Busy, Resuming
      <4> QED BY <4>1 DEF OutInv, OutOf, Differs
    <3> QED BY <2>1, <3>1, <3>2
  <2>11. ReqInv'
    <3>1. ASSUME NEW r \in Requests, Accepted(r) PROVE FALSE
      <4>1. req[r].pc = "read" /\ req[r].seen = st /\ ~Refuses(st, req[r].call, req[r].act) BY <2>1, <3>1 DEF Clean, ReqInv, Accepted
      <4>2. req[r].call \in Calls BY <4>1 DEF IndInv, MadeInv
      <4> QED BY <2>3, <4>1, <4>2 DEF Refuses, Unanswered, Waiting
    <3>2. ASSUME NEW r \in Requests, req'[r].pc \in {"lock", "read"}
          PROVE  req'[r].call \in 1..made /\ st'[req'[r].call] \notin {"pending", "queued", "absent"}
      <4>1. req'[r] = req[r] BY <1>2, <3>2
      <4>2. req[r].call \in 1..made /\ st[req[r].call] # "absent" BY <2>1, <3>2, <4>1 DEF Clean, ReqInv
      <4>3. req[r].call \in Calls BY <3>2, <4>1 DEF IndInv, MadeInv
      <4> QED BY <2>3, <2>7, <4>1, <4>2, <4>3 DEF Unanswered, Waiting
    <3> QED BY <1>5, <3>1, <3>2 DEF ReqInv
  <2>12. FreshInv'
    <3>1. \A c \in Calls : c \in refused => st'[c] \in {"rejected", "done"} /\ runs[c] = 0 BY <2>1, <2>7 DEF Clean, FreshInv
    <3>2. ASSUME NEW c \in Calls, NEW k \in Replies, Copies(k)' PROVE reply'[k].out[c] \notin Unanswered
      BY <1>4, <1>7, <2>2, <3>2
    <3> QED BY <2>3, <3>1, <3>2 DEF FreshInv, Unanswered, Waiting
  <2> QED BY <2>8, <2>9, <2>10, <2>11, <2>12 DEF Clean
<1> QED BY <1>6, <1>10, <1>11, <1>12, <1>13, <1>14, <1>15, <1>16 DEF IndInv

\* The resume of a reply fails.
LEMMA ResumeFailsStep ==
  ASSUME IndInv, NEW r \in Requests, ResumeFails(r)
  PROVE  IndInv'
<1>0. /\ reply \in [Replies -> ReplyRows] /\ req \in [Requests -> ReqRows] /\ NoReq \in ReqRows /\ done \in BOOLEAN
  BY Typed DEF IndInv, TypeOK
<1>1. /\ Fault /\ req' = [req EXCEPT ![r] = NoReq]
      /\ UNCHANGED <<st, done, view, made, asks, mode, reply, runs, refused, changed, skips>>
  BY DEF ResumeFails, stored
<1>2. req' \in [Requests -> ReqRows] /\ \A q \in Requests : req'[q] = req[q] \/ req'[q] = NoReq BY <1>0, <1>1
<1> QED BY <1>0, <1>1, <1>2, FaultStep

\* The backend dies.
LEMMA CrashStep ==
  ASSUME IndInv, Crash
  PROVE  IndInv'
<1>0. NoReq \in ReqRows /\ NoReply \in ReplyRows /\ done \in BOOLEAN BY Typed DEF IndInv, TypeOK
<1>1. /\ Fault /\ req' = [r \in Requests |-> NoReq] /\ reply' = [k \in Replies |-> NoReply]
      /\ UNCHANGED <<st, done, view, made, asks, mode, runs, refused, changed, skips>>
  BY DEF Crash, stored
<1>2. req' \in [Requests -> ReqRows] /\ \A q \in Requests : req'[q] = NoReq BY <1>0, <1>1
<1>3. reply' \in [Replies -> ReplyRows] /\ \A k \in Replies : reply'[k] = NoReply BY <1>0, <1>1
<1> QED BY <1>0, <1>1, <1>2, <1>3, FaultStep

\* A reply is stopped, or fails.
LEMMA StoppedStep ==
  ASSUME IndInv, NEW k \in Replies, Stopped(k)
  PROVE  IndInv'
<1>0. /\ reply \in [Replies -> ReplyRows] /\ req \in [Requests -> ReqRows] /\ NoReply \in ReplyRows
  BY Typed DEF IndInv
<1>1. /\ Fault /\ reply[k].pc # "none" /\ reply' = [reply EXCEPT ![k] = NoReply] /\ done' = TRUE
      /\ \/ st' = st /\ view' = view
         \/ reply[k].pc \in {"stream", "stage", "tools"} /\ st' = Stored(reply[k].out) /\ view' = st'
      /\ UNCHANGED <<made, asks, mode, req, runs, refused, changed, skips>>
  BY DEF Stopped, Ends
<1>2. /\ reply' \in [Replies -> ReplyRows] /\ reply'[k] = NoReply
      /\ \A j \in Replies : reply'[j] = reply[j] \/ reply'[j] = NoReply
      /\ \A j \in Replies : j # k => reply'[j] = reply[j]
  BY <1>0, <1>1
<1>3. ASSUME cut = {} PROVE ~InTurn'
  <2>1. Busy(k) BY <1>1 DEF Busy
  <2>2. \A j \in Replies : reply'[j].pc = "none" BY <1>2, <1>3, <2>1, AloneBusy DEF NoReply
  <2>3. \A r \in Requests : ~Resuming(r)' BY <1>1, <1>3, <2>1, AloneBusy DEF Resuming
  <2> QED BY <2>2, <2>3 DEF InTurn, Busy, Resuming
<1>4. done' \in BOOLEAN BY <1>1
<1> QED BY <1>0, <1>1, <1>2, <1>3, <1>4, FaultStep

-----------------------------------------------------------------------------
(* A reply is started *)

\* The turn goes to a new reply; while no call is hit, nobody else has it.
LEMMA StartStep ==
  ASSUME IndInv, NEW k \in Replies, NewReply(k), UNCHANGED <<st, view, made, asks, mode, runs, refused, changed, faults>>,
         req' \in [Requests -> ReqRows], \A r \in Requests : req'[r] = req[r] \/ req'[r] = NoReq,
         done' \in BOOLEAN, skips' \in Nat, cut' \subseteq 1..(made + 1),
         cut' = cut \/ (cut \subseteq cut' /\ Open \subseteq cut'),
         cut' = {} => /\ cut = {} /\ ~done' /\ (\A j \in Replies : ~Busy(j)) /\ (\A r \in Requests : ~Resuming(r)')
                      /\ InTurn \/ \A c \in Calls : st[c] \notin Unanswered
  PROVE  IndInv'
<1>0. /\ MaxCall \in Nat /\ Calls \subseteq Nat /\ made \in Nat /\ made \in 0..MaxCall /\ TypeOK /\ Nothing \in Outputs /\ mode \in {"ask", "full"}
      /\ reply \in [Replies -> ReplyRows]
  BY Typed DEF IndInv, TypeOK
<1>1. PICK e : e = [pc |-> "drain", mode |-> mode, out |-> Nothing] OBVIOUS
<1>2. e \in ReplyRows /\ e.pc = "drain" /\ e.out = Nothing BY <1>0, <1>1 DEF ReplyRows
<1>3. reply[k].pc = "none" /\ SetsReply(k, e) BY <1>0, <1>1, <1>2 DEF NewReply, SetsReply
<1>4. reply'[k] = e /\ \A j \in Replies : j # k => reply'[j] = reply[j] BY <1>3 DEF SetsReply
<1>5. \A j \in Replies : Copies(j)' => Copies(j) /\ reply'[j] = reply[j] BY <1>2, <1>4 DEF Copies, Keeps
<1>6. NoReq.pc = "idle" BY DEF NoReq
<1>7. \A r \in Requests : req'[r].pc # "idle" => req'[r] = req[r] BY <1>6
<1>8. \A r \in Requests : Accepted(r)' => Accepted(r) /\ req'[r] = req[r] BY <1>7 DEF Accepted, Refuses, With
<1>9. TypeOK'
  <2>1. cut' \subseteq 1..(MaxCall + 1) BY <1>0
  <2> QED BY <1>0, <1>3, <2>1 DEF TypeOK, SetsReply, ReqRows, ReplyRows
<1>10. LockInv' BY <1>7 DEF IndInv, LockInv
<1>11. MadeInv'
  <2>1. \A c \in Calls : c > made => \A j \in Replies : reply'[j].out[c] = "absent" BY <1>2, <1>4 DEF IndInv, MadeInv, Nothing
  <2> QED BY <1>7, <2>1 DEF IndInv, MadeInv
<1>12. CopyInv' BY <1>2, <1>4 DEF IndInv, CopyInv, With, Unanswered, Waiting
<1>13. SettledInv' /\ \A c \in Calls : Hit(c) => Hit(c)'
  <2>1. CASE cut' = cut BY <1>5, <1>8, <2>1 DEF IndInv, SettledInv, Hit
  <2>2. CASE cut \subseteq cut' /\ Open \subseteq cut'
    <3>1. /\ \A c \in Calls : Hit(c) => Hit(c)'
          /\ \A c \in Calls : ~Hit(c)' => /\ st[c] \notin Unanswered
                                          /\ \A j \in Replies : reply[j].out[c] \notin Unanswered
                                          /\ \A r \in Requests : Accepted(r) => req[r].seen[c] \notin Unanswered
      BY <2>2, OpenHits
    <3> QED BY <1>5, <1>8, <3>1 DEF SettledInv
  <2> QED BY <2>1, <2>2
<1>14. RunsOnce' /\ RejectedNeverRuns'
  <2>1. refused \subseteq Calls BY <1>0 DEF TypeOK
  <2> QED BY <1>13, <2>1 DEF IndInv, RunsOnce, RejectedNeverRuns
<1>15. ASSUME cut' = {} PROVE Clean'
  <2>1. Clean BY <1>15 DEF IndInv
  <2>2. \A j \in Replies : reply[j].pc = "none" /\ (j # k => reply'[j].pc = "none") BY <1>4, <1>15 DEF Busy
  <2>3. \A c \in Calls : st[c] # "pending" /\ view[c] \notin Shown /\ st[c] \notin {"stuck", "open", "called", "ran"}
    <3>1. CASE InTurn BY <2>1, <2>2, <3>1 DEF Clean, ViewInv, With
    <3>2. CASE ~InTurn
      <4>1. \A c \in Calls : st[c] \notin Unanswered BY <1>15, <3>2
      <4>2. \A c \in Calls : view[c] \in Shown => st[c] = view[c] BY <2>1, <3>2 DEF Clean, ViewInv
      <4> QED BY <4>1, <4>2 DEF Shown, Unanswered, Waiting
    <3> QED BY <3>1, <3>2
  <2>4. InTurn' BY <1>2, <1>4 DEF InTurn, Busy, Resuming
  <2>5. TurnInv' BY <1>15, <2>2, <2>4 DEF TurnInv, Busy
  <2>6. ViewInv' BY <2>3 DEF ViewInv, With
  <2>7. OutInv' BY <1>2, <1>4, <2>2 DEF OutInv, OutOf, Differs
  <2>8. ReqInv'
    <3>1. \A r \in Requests : ~Accepted(r)
      <4>1. CASE InTurn BY <2>1, <4>1 DEF Clean, ReqInv
      <4>2. CASE ~InTurn
        <5> SUFFICES ASSUME NEW r \in Requests, Accepted(r) PROVE FALSE OBVIOUS
        <5>1. req[r].pc = "read" /\ ~Refuses(st, req[r].call, req[r].act) BY <2>1 DEF Clean, ReqInv, Accepted
        <5>2. req[r].call \in Calls BY <5>1 DEF IndInv, MadeInv
        <5> QED BY <1>15, <4>2, <5>1, <5>2 DEF Refuses, Unanswered, Waiting
      <4> QED BY <4>1, <4>2
    <3>2. ASSUME NEW r \in Requests, req'[r].pc \in {"lock", "read"}
          PROVE  req'[r].call \in 1..made /\ st[req'[r].call] \notin {"pending", "queued", "absent"}
      <4>1. req'[r] = req[r] BY <1>7, <3>2
      <4>2. req[r].call \in Calls BY <3>2, <4>1 DEF IndInv, MadeInv
      <4> QED BY <2>1, <2>3, <3>2, <4>1, <4>2 DEF Clean, ReqInv
    <3> QED BY <1>8, <3>1, <3>2 DEF ReqInv
  <2>9. FreshInv'
    <3>1. \A j \in Replies : ~Copies(j)' BY <1>2, <1>4, <2>2 DEF Copies, Keeps
    <3>2. \A c \in Calls : st[c] = "approved" => runs[c] = 0 BY <2>1, <2>2 DEF Clean, FreshInv
    <3> QED BY <2>1, <3>1, <3>2 DEF Clean, FreshInv
  <2> QED BY <2>5, <2>6, <2>7, <2>8, <2>9 DEF Clean
<1> QED BY <1>9, <1>10, <1>11, <1>12, <1>13, <1>14, <1>15 DEF IndInv

\* The resolve starts the reply: the turn is the reply's.
LEMMA ResumesStep ==
  ASSUME IndInv, NEW r \in Requests, Resumes(r)
  PROVE  IndInv'
<1>0. req \in [Requests -> ReqRows] /\ NoReq \in ReqRows /\ done \in BOOLEAN /\ skips \in Nat BY Typed DEF IndInv, TypeOK
<1>1. PICK k \in Replies : NewReply(k) BY DEF Resumes
<1>2. /\ req[r].pc = "resume" /\ req' = [req EXCEPT ![r] = NoReq]
      /\ UNCHANGED <<st, done, view, made, asks, mode, runs, refused, cut, changed, skips, faults>>
  BY DEF Resumes, stored, past
<1>3. /\ req' \in [Requests -> ReqRows] /\ req'[r] = NoReq
      /\ \A q \in Requests : q # r => req'[q] = req[q]
      /\ \A q \in Requests : req'[q] = req[q] \/ req'[q] = NoReq
  BY <1>0, <1>2
<1>4. ASSUME cut = {}
      PROVE  InTurn /\ ~done /\ (\A j \in Replies : ~Busy(j)) /\ (\A q \in Requests : ~Resuming(q)')
  <2>1. TurnInv /\ Resuming(r) BY <1>2, <1>4 DEF IndInv, Clean, Resuming
  <2>2. InTurn BY <2>1 DEF InTurn, Busy, Resuming
  <2>3. \A q \in Requests : Resuming(q)' => q # r /\ Resuming(q) BY <1>3 DEF Resuming, NoReq
  <2> QED BY <2>1, <2>2, <2>3 DEF TurnInv
<1>5. cut' = cut /\ cut' \subseteq 1..(made + 1) BY <1>2 DEF IndInv, MadeInv
<1> QED BY <1>0, <1>1, <1>2, <1>3, <1>4, <1>5, StartStep

\* The user continues the reply, whatever it is at.
LEMMA ContinuesStep ==
  ASSUME IndInv, NEW k \in Replies, Continues(k)
  PROVE  IndInv'
<1>0. req \in [Requests -> ReqRows] /\ skips \in Nat /\ made \in Nat BY Typed DEF IndInv, TypeOK
<1>1. /\ NewReply(k) /\ done' = FALSE
      /\ UNCHANGED <<st, view, made, asks, mode, req, runs, refused, changed, faults>>
  BY DEF Continues
<1>2. done' \in BOOLEAN /\ req' \in [Requests -> ReqRows] BY <1>0, <1>1
<1>3. CASE InTurn \/ With(st, Unanswered) # {}
  <2>1. skips' = skips + 1 /\ cut' = cut \cup Open \cup {made + 1} BY <1>3 DEF Continues
  <2>2. made + 1 \in 1..(made + 1) BY <1>0
  <2>3. cut' \subseteq 1..(made + 1) BY <2>1, <2>2, OpenMade DEF IndInv, MadeInv
  <2>4. skips' \in Nat /\ cut \subseteq cut' /\ Open \subseteq cut' /\ cut' # {} BY <1>0, <2>1
  <2> QED BY <1>1, <1>2, <2>3, <2>4, StartStep
<1>4. CASE ~(InTurn \/ With(st, Unanswered) # {})
  <2>1. skips' = skips /\ cut' = cut BY <1>4 DEF Continues
  <2>2. /\ \A j \in Replies : ~Busy(j)
        /\ \A r \in Requests : ~Resuming(r)'
        /\ \A c \in Calls : st[c] \notin Unanswered
    BY <1>1, <1>4 DEF InTurn, Busy, Resuming, With
  <2>3. skips' \in Nat /\ cut' \subseteq 1..(made + 1) BY <1>0, <2>1 DEF IndInv, MadeInv
  <2> QED BY <1>1, <1>2, <2>1, <2>2, <2>3, StartStep
<1> QED BY <1>3, <1>4

-----------------------------------------------------------------------------
(* The whole system *)

\* The user changes the chat's mode.
LEMMA SetsModeStep ==
  ASSUME IndInv, SetsMode
  PROVE  IndInv'
<1>1. /\ mode' \in {"ask", "full"} /\ changed' = TRUE
      /\ UNCHANGED <<st, done, view, made, asks, req, reply, runs, refused, cut, skips, faults>>
  BY DEF SetsMode, stored
<1>2. TypeOK' BY <1>1 DEF IndInv, TypeOK
<1>3. LockInv' /\ MadeInv' /\ CopyInv' BY <1>1 DEF IndInv, LockInv, MadeInv, CopyInv, Copies, With, Unanswered, Waiting
<1>4. \A r \in Requests : Accepted(r)' = Accepted(r) BY <1>1 DEF Accepted, Refuses, With
<1>5. SettledInv' BY <1>1, <1>4 DEF IndInv, SettledInv, Copies, Hit
<1>6. RunsOnce' /\ RejectedNeverRuns' BY <1>1 DEF IndInv, RunsOnce, RejectedNeverRuns, Hit
<1>7. ASSUME cut = {} PROVE Clean'
  <2>1. Clean BY <1>7 DEF IndInv
  <2>2. InTurn' = InTurn BY <1>1 DEF InTurn, Busy, Resuming
  <2>3. TurnInv' BY <1>1, <2>1, <2>2 DEF Clean, TurnInv, Busy, Resuming
  <2>4. ViewInv' BY <1>1, <2>1, <2>2 DEF Clean, ViewInv, With
  <2>5. OutInv' BY <1>1, <2>1 DEF Clean, OutInv
  <2>6. ReqInv' BY <1>1, <1>4, <2>1, <2>2 DEF Clean, ReqInv
  <2>7. FreshInv' BY <1>1, <2>1 DEF Clean, FreshInv, Copies
  <2> QED BY <2>3, <2>4, <2>5, <2>6, <2>7 DEF Clean
<1> QED BY <1>1, <1>2, <1>3, <1>5, <1>6, <1>7 DEF IndInv

\* The first reply is about to be streamed.
LEMMA InitInv == Init => IndInv
<1> SUFFICES ASSUME Init PROVE IndInv OBVIOUS
<1>0. MaxCall \in Nat /\ Nothing \in Outputs /\ NoReply \in ReplyRows /\ NoReq \in ReqRows
  BY ToolApprovalAssumption DEF ReqRows, ReplyRows, Calls, NoReq, NoReply, Nothing, Outputs, Status
<1>1. /\ st = Nothing /\ view = Nothing /\ done = FALSE /\ made = 0 /\ asks = {} /\ mode \in {"ask", "full"}
      /\ req = [r \in Requests |-> NoReq]
      /\ runs = [c \in Calls |-> 0] /\ refused = {} /\ cut = {} /\ changed = FALSE /\ skips = 0 /\ faults = 0
  BY DEF Init
<1>2. PICK k \in Replies :
        reply = [j \in Replies |-> IF j = k THEN [NoReply EXCEPT !.pc = "load", !.mode = mode] ELSE NoReply]
  BY DEF Init
<1>3. /\ reply \in [Replies -> ReplyRows] /\ reply[k].pc = "load" /\ reply[k].mode = mode
      /\ \A j \in Replies : j # k => reply[j].pc = "none"
  BY <1>0, <1>1, <1>2 DEF ReplyRows, NoReply
<1>4. /\ req \in [Requests -> ReqRows] /\ \A r \in Requests : req[r].pc = "idle" BY <1>0, <1>1 DEF NoReq
<1>5. \A c \in Calls : st[c] = "absent" /\ view[c] = "absent" /\ runs[c] = 0 BY <1>1 DEF Nothing
<1>6. TypeOK
  <2>1. runs \in [Calls -> 0..2] /\ made \in 0..MaxCall /\ faults \in Nat /\ skips \in Nat BY <1>0, <1>1
  <2>2. done \in BOOLEAN /\ changed \in BOOLEAN BY <1>1
  <2> QED BY <1>0, <1>1, <1>3, <1>4, <2>1, <2>2 DEF TypeOK, ReqRows, ReplyRows
<1>7. LockInv BY <1>4 DEF LockInv
<1>8. \A j \in Replies : ~Copies(j) BY <1>3 DEF Copies, Keeps
<1>9. MadeInv
  <2>1. \A j \in Replies, c \in Calls : reply[j].out[c] = "absent" BY <1>2 DEF NoReply, Nothing
  <2> QED BY <1>1, <1>4, <1>5, <2>1 DEF MadeInv
<1>10. CopyInv BY <1>3 DEF CopyInv
<1>11. SettledInv BY <1>1 DEF SettledInv
<1>12. InTurn BY <1>3 DEF InTurn, Busy, Resuming
<1>13. TurnInv BY <1>1, <1>3, <1>4 DEF TurnInv, Busy, Resuming
<1>14. ViewInv BY <1>1, <1>5 DEF ViewInv, With, Shown
<1>15. OutInv BY <1>3, <1>5 DEF OutInv, OutOf, Differs
<1>16. ReqInv BY <1>4 DEF ReqInv, Accepted
<1>17. FreshInv BY <1>1, <1>5, <1>8 DEF FreshInv
<1>18. RunsOnce /\ RejectedNeverRuns BY <1>1, <1>5 DEF RunsOnce, RejectedNeverRuns
<1> QED BY <1>1, <1>6, <1>7, <1>9, <1>10, <1>11, <1>13, <1>14, <1>15, <1>16, <1>17, <1>18 DEF IndInv, Clean

\* The invariant is kept by every step of clients that resolve what they are
\* shown.
LEMMA NextInv == IndInv /\ ~AnyCall /\ [Next]_vars => IndInv'
<1> SUFFICES ASSUME IndInv, ~AnyCall, [Next]_vars PROVE IndInv' OBVIOUS
<1>1. ASSUME NEW r \in Requests, Sends(r) \/ Request(r) \/ ResumeFails(r) PROVE IndInv'
  BY <1>1, SendsStep, ReadsStep, IsRefusedStep, ResolvesStep, ResumesStep, ResumeFailsStep DEF Request
<1>2. ASSUME NEW k \in Replies, Drain(k) PROVE IndInv'
  BY <1>2, DrainReadsStep, DrainPausesStep, RunsToolStep, DrainSavesPausedStep, DrainSavesStep DEF Drain
<1>3. ASSUME NEW k \in Replies,
             Stream(k) \/ Stopped(k) \/ Continues(k)
      PROVE  IndInv'
  BY <1>3, LoadsStep, StagesStep, StagePausesStep, AppendsStep, ExecutesStep, RecordsStep, StoppedStep, ContinuesStep DEF Stream
<1>4. CASE SetsMode BY <1>4, SetsModeStep
<1>5. CASE Crash BY <1>5, CrashStep
<1>6. CASE UNCHANGED vars
  <2>1. UNCHANGED <<st, done, view, made, asks, mode, req, reply, runs, refused, cut, changed, skips, faults>>
    BY <1>6 DEF vars, stored, past
  <2>2. TypeOK' BY <2>1 DEF IndInv, TypeOK
  <2>3. LockInv' /\ MadeInv' /\ CopyInv' BY <2>1 DEF IndInv, LockInv, MadeInv, CopyInv, Copies, With, Unanswered, Waiting
  <2>4. \A r \in Requests : Accepted(r)' = Accepted(r) BY <2>1 DEF Accepted, Refuses, With
  <2>5. SettledInv' BY <2>1, <2>4 DEF IndInv, SettledInv, Copies, Hit
  <2>6. RunsOnce' /\ RejectedNeverRuns' BY <2>1 DEF IndInv, RunsOnce, RejectedNeverRuns, Hit
  <2>7. InTurn' = InTurn BY <2>1 DEF InTurn, Busy, Resuming
  <2>8. TurnInv' = TurnInv BY <2>1, <2>7 DEF TurnInv, Busy, Resuming
  <2>9. ViewInv' = ViewInv BY <2>1, <2>7 DEF ViewInv, With
  <2>10. OutInv' = OutInv BY <2>1 DEF OutInv
  <2>11. ReqInv' = ReqInv BY <2>1, <2>4, <2>7 DEF ReqInv
  <2>12. FreshInv' = FreshInv BY <2>1 DEF FreshInv, Copies
  <2> QED BY <2>1, <2>2, <2>3, <2>5, <2>6, <2>8, <2>9, <2>10, <2>11, <2>12 DEF IndInv, Clean
<1> QED BY <1>1, <1>2, <1>3, <1>4, <1>5, <1>6 DEF Next

\* Where clients resolve only what they are shown, the turn is somebody's
\* alone until a fault hits a call, and the calls answered before those that
\* a fault hit stay answered.
THEOREM ApprovalInvariance == ~AnyCall /\ Spec => []IndInv
<1>1. ~AnyCall /\ IndInv /\ [Next]_vars => IndInv' BY NextInv
<1>2. ~AnyCall => (~AnyCall)' OBVIOUS
<1> QED BY <1>1, <1>2, InitInv, PTL DEF Spec

\* Type correctness of the message, the requests and the replies.
THEOREM ApprovalTypeCorrect == ~AnyCall /\ Spec => []TypeOK
BY ApprovalInvariance, PTL DEF IndInv

\* No approved tool is run twice, unless a fault found it, or a call before
\* it, without a result, or the reply was continued or streamed on past it.
THEOREM ToolsRunOnce == ~AnyCall /\ Spec => []RunsOnce
BY ApprovalInvariance, PTL DEF IndInv

\* A tool whose rejection was accepted is not run, with the same exception.
THEOREM RejectionsHold == ~AnyCall /\ Spec => []RejectedNeverRuns
BY ApprovalInvariance, PTL DEF IndInv

-----------------------------------------------------------------------------
(* A reply at rest asks *)

\* A copy in which a call waits its turn only where the mode lets it.
Fits(out) == \A c \in Calls :
  out[c] # "open" /\ (~changed /\ out[c] = "queued" => c \notin asks /\ mode = "ask")

\* A reply that is about to pause has a call to show.
CopyOf(e) ==
  /\ e.pc \in {"again", "stage"} => With(e.out, Shown) # {}
  /\ e.pc \in {"save", "again"} => With(e.out, {"approved"}) = {}

FitInv == faults = 0 =>
  /\ Fits(st)
  /\ \A k \in Replies : Fits(reply[k].out) /\ (~changed /\ Busy(k) => reply[k].mode = mode)
  /\ \A r \in Requests : req[r].pc = "read" => Fits(req[r].seen)

Asked  == With(view, Shown \cup IF changed THEN {"queued"} ELSE {}) # {}
AskInv == faults = 0 /\ ~done => InTurn \/ Asked

PauseInv == (\A k \in Replies : CopyOf(reply[k])) /\ FitInv /\ AskInv

\* Calls that the model makes are new to everybody.
LEMMA FitsStays ==
  ASSUME IndInv, NEW out \in Outputs, Fits(out), \A c \in Calls : c > made => out[c] = "absent",
         UNCHANGED <<mode, changed>>, made' \in 0..MaxCall, asks' \subseteq asks \cup ((made + 1)..made')
  PROVE  Fits(out)'
<1>0. Calls \subseteq Nat /\ made \in Nat BY StateTyped
<1>1. ASSUME NEW c \in Calls, out[c] = "queued", c \notin asks PROVE c \notin asks'
  <2>1. ~(c > made) BY <1>1
  <2> QED BY <1>0, <1>1, <2>1
<1> QED BY <1>1 DEF Fits

\* A step of a reply.
LEMMA ReplyPauses ==
  ASSUME IndInv, PauseInv, NEW k \in Replies, NEW e, SetsReply(k, e), UNCHANGED <<req, mode, changed, faults>>,
         made' \in 0..MaxCall, asks' \subseteq asks \cup ((made + 1)..made'),
         e.pc = "none" \/ (Busy(k) /\ e.mode = reply[k].mode), CopyOf(e),
         faults = 0 => Fits(st)' /\ Fits(e.out)' /\ (~done' => e.pc # "none" \/ Asked')
  PROVE  PauseInv'
<1>1. \A j \in Replies : CopyOf(reply[j])' BY DEF PauseInv, SetsReply, CopyOf, With
<1>2. ASSUME faults = 0 PROVE FitInv'
  <2>1. FitInv BY DEF PauseInv
  <2>2. ASSUME NEW j \in Replies PROVE Fits(reply[j].out)' /\ (~changed' /\ Busy(j)' => reply'[j].mode = mode')
    <3>1. CASE j = k
      <4>1. reply'[j] = e BY <3>1 DEF SetsReply
      <4>2. Fits(reply[j].out)' BY <1>2, <4>1 DEF Fits
      <4> QED BY <1>2, <2>1, <3>1, <4>1, <4>2 DEF FitInv, Busy
    <3>2. CASE j # k
      <4>1. reply'[j] = reply[j] BY <3>2 DEF SetsReply
      <4>2. Fits(reply[j].out) /\ reply[j].out \in Outputs /\ \A c \in Calls : c > made => reply[j].out[c] = "absent"
        BY <1>2, <2>1, StateTyped DEF FitInv, IndInv, MadeInv
      <4>3. PICK o : o = reply[j].out OBVIOUS
      <4>4. Fits(o)'
        <5>1. o \in Outputs /\ Fits(o) /\ \A c \in Calls : c > made => o[c] = "absent" BY <4>2, <4>3
        <5> QED BY <5>1, FitsStays
      <4>5. Fits(reply[j].out)' BY <4>1, <4>3, <4>4 DEF Fits
      <4> QED BY <1>2, <2>1, <4>1, <4>5 DEF FitInv, Busy
    <3> QED BY <3>1, <3>2
  <2>3. ASSUME NEW r \in Requests, req'[r].pc = "read" PROVE Fits(req[r].seen)'
    <3>1. PICK o : o = req[r].seen OBVIOUS
    <3>2. o \in Outputs /\ Fits(o) /\ \A c \in Calls : c > made => o[c] = "absent"
      BY <1>2, <2>1, <2>3, <3>1, StateTyped DEF FitInv, IndInv, MadeInv, ReqRows
    <3>3. Fits(o)' BY <3>2, FitsStays
    <3> QED BY <3>1, <3>3 DEF Fits
  <2> QED BY <1>2, <2>2, <2>3 DEF FitInv
<1>3. AskInv' BY DEF AskInv, InTurn, SetsReply
<1> QED BY <1>1, <1>2, <1>3 DEF PauseInv, FitInv

\* What pause_for_tool_approval leaves shows a call.
ShownIn(out, queued, q) ==
  /\ q \in Outputs /\ With(q, Shown) # {}
  /\ \A c \in Calls : /\ q[c] = "open" => out[c] = "open"
                      /\ q[c] = "queued" => out[c] \in {"queued", "open"} \/ c \in queued
                      /\ q[c] = "approved" => out[c] = "approved"

LEMMA PausedShows ==
  ASSUME NEW out \in Outputs, NEW new \in SUBSET Calls, NEW ask \in BOOLEAN, With(out, Unanswered) \cup new # {}
  PROVE  ShownIn(out, IF ask THEN {} ELSE new, Paused(out, new, ask))
<1>1. PICK q : q = Paused(out, new, ask) OBVIOUS
<1>2. PICK first \in Calls : PausedAs(out, new, ask, q, first) BY <1>1, PausedFirst
<1>3. q[first] \in Shown BY <1>2 DEF PausedAs, Shown
<1>4. With(q, Shown) # {} BY <1>3 DEF With
<1>5. \A c \in Calls : /\ q[c] = "open" => out[c] = "open"
                       /\ q[c] = "queued" => out[c] \in {"queued", "open"} \/ (c \in new /\ ~ask)
                       /\ q[c] = "approved" => out[c] = "approved"
  BY <1>2 DEF PausedAs
<1>6. ShownIn(out, IF ask THEN {} ELSE new, q) BY <1>2, <1>4, <1>5 DEF PausedAs, ShownIn
<1> QED BY <1>1, <1>6

\* The drain.
LEMMA DrainPausesInv ==
  ASSUME IndInv, PauseInv, NEW k \in Replies, Drain(k)
  PROVE  PauseInv'
<1>0. /\ reply \in [Replies -> ReplyRows] /\ reply[k] \in ReplyRows /\ reply[k].out \in Outputs /\ st \in Outputs
      /\ Nothing \in Outputs /\ NoReply \in ReplyRows /\ made \in 0..MaxCall
  BY StateTyped, Typed DEF IndInv
<1>1. PICK out : out = reply[k].out OBVIOUS
<1>2. CopyOf(reply[k]) /\ FitInv BY DEF PauseInv
<1>3. faults = 0 => Fits(st) /\ Fits(out) /\ (~changed /\ Busy(k) => reply[k].mode = mode) BY <1>1, <1>2 DEF FitInv
<1>4. NoReply.pc = "none" /\ NoReply.out = Nothing /\ CopyOf(NoReply) /\ Fits(Nothing) BY DEF NoReply, CopyOf, Fits, Nothing
<1>5. CASE DrainReads(k)
  <2>1. PICK p, o : /\ p = IF With(st, {"approved"}) # {} THEN "run" ELSE IF Waits(st, reply[k].mode) THEN "pause" ELSE "load"
                    /\ o = IF p = "load" THEN Nothing ELSE st
    OBVIOUS
  <2>2. PICK e : e = [reply[k] EXCEPT !.pc = p, !.out = o] OBVIOUS
  <2>3. /\ e \in ReplyRows /\ e.pc \in {"run", "pause", "load"} /\ e.out = o /\ e.mode = reply[k].mode
    BY <1>0, <2>1, <2>2 DEF ReplyRows
  <2>4. SetsReply(k, e)
    <3>1. reply' = [reply EXCEPT ![k] = e] BY <1>0, <1>5, <2>1, <2>2 DEF DrainReads, To
    <3> QED BY <1>0, <2>3, <3>1 DEF SetsReply
  <2>5. Busy(k) /\ UNCHANGED <<st, made, asks, req, mode, changed, faults>> BY <1>5 DEF DrainReads, Busy, stored, past
  <2>6. faults = 0 => Fits(st)' /\ Fits(e.out)' BY <1>3, <1>4, <2>1, <2>3, <2>5 DEF Fits
  <2>7. CopyOf(e) BY <2>3 DEF CopyOf
  <2> QED BY <1>0, <2>3, <2>4, <2>5, <2>6, <2>7, ReplyPauses
<1>6. CASE DrainPauses(k)
  <2>1. With(out, Unanswered) \cup {} # {} /\ {} \in SUBSET Calls /\ out \in Outputs BY <1>0, <1>1, <1>6 DEF IndInv, CopyInv, DrainPauses
  <2>2. st' = Paused(out, {}, FALSE) /\ view' = st' /\ UNCHANGED <<made, asks, req, mode, changed, faults>> /\ Busy(k)
    BY <1>1, <1>6 DEF DrainPauses, past, Busy
  <2>3. With(st', Shown) # {} /\ \A c \in Calls : (st'[c] = "open" => out[c] = "open") /\ (st'[c] = "queued" => out[c] \in {"queued", "open"})
    <3>1. ShownIn(out, IF FALSE THEN {} ELSE {}, st') BY <2>1, <2>2, PausedShows
    <3> QED BY <3>1 DEF ShownIn
  <2>4. SetsReply(k, NoReply) BY <1>0, <1>6 DEF SetsReply, DrainPauses, Ends
  <2>5. faults = 0 => Fits(st)' /\ Fits(NoReply.out)' BY <1>3, <1>4, <2>2, <2>3 DEF Fits
  <2>6. Asked' BY <2>2, <2>3 DEF Asked, With
  <2> QED BY <1>0, <1>4, <2>2, <2>4, <2>5, <2>6, ReplyPauses
<1>7. CASE RunsTool(k)
  <2>1. PICK c : c = Least(With(out, {"approved"})) OBVIOUS
  <2>2. PICK q, p : q = [out EXCEPT ![c] = "done"] /\ p = IF With(q, {"approved"}) = {} THEN "save" ELSE "run" OBVIOUS
  <2>3. PICK e : e = [reply[k] EXCEPT !.pc = p, !.out = q] OBVIOUS
  <2>4. q \in Outputs /\ \A d \in Calls : q[d] = out[d] \/ q[d] = "done" BY <1>0, <1>1, <2>2 DEF Outputs, Status
  <2>5. e \in ReplyRows /\ e.pc \in {"save", "run"} /\ e.pc = p /\ e.out = q /\ e.mode = reply[k].mode
    BY <1>0, <2>2, <2>3, <2>4 DEF ReplyRows
  <2>6. SetsReply(k, e)
    <3>1. reply' = [reply EXCEPT ![k] = e] BY <1>0, <1>1, <1>7, <2>1, <2>2, <2>3, <2>5 DEF RunsTool, To
    <3> QED BY <1>0, <2>5, <3>1 DEF SetsReply
  <2>7. Busy(k) /\ UNCHANGED <<st, made, asks, req, mode, changed, faults>> BY <1>7 DEF RunsTool, Busy, stored
  <2>8. faults = 0 => Fits(st)' /\ Fits(e.out)' BY <1>3, <2>4, <2>5, <2>7 DEF Fits
  <2>9. CopyOf(e) BY <2>2, <2>5 DEF CopyOf
  <2> QED BY <1>0, <2>5, <2>6, <2>7, <2>8, <2>9, ReplyPauses
<1>8. CASE DrainSavesPaused(k)
  <2>1. With(out, Unanswered) \cup {} # {} /\ {} \in SUBSET Calls /\ out \in Outputs
    BY <1>0, <1>1, <1>8 DEF DrainSavesPaused, Waits, With, Unanswered, Waiting
  <2>2. st' = Paused(out, {}, FALSE) /\ UNCHANGED <<view, done, made, asks, req, mode, changed, faults>> /\ Busy(k) /\ reply[k].pc = "save"
    BY <1>1, <1>8 DEF DrainSavesPaused, past, Busy
  <2>3. /\ st' \in Outputs /\ With(st', Shown) # {}
        /\ \A c \in Calls : /\ st'[c] = "open" => out[c] = "open"
                            /\ st'[c] = "queued" => out[c] \in {"queued", "open"}
                            /\ st'[c] = "approved" => out[c] = "approved"
    <3>1. ShownIn(out, IF FALSE THEN {} ELSE {}, st') BY <2>1, <2>2, PausedShows
    <3> QED BY <3>1 DEF ShownIn
  <2>4. PICK e : e = [reply[k] EXCEPT !.pc = "again", !.out = st'] OBVIOUS
  <2>5. e \in ReplyRows /\ e.pc = "again" /\ e.out = st' /\ e.mode = reply[k].mode BY <1>0, <2>3, <2>4 DEF ReplyRows
  <2>6. SetsReply(k, e)
    <3>1. reply' = [reply EXCEPT ![k] = e] BY <1>0, <1>8, <2>4 DEF DrainSavesPaused, To
    <3> QED BY <1>0, <2>5, <3>1 DEF SetsReply
  <2>7. faults = 0 => Fits(st)' /\ Fits(e.out)' BY <1>3, <2>2, <2>3, <2>5 DEF Fits
  <2>8. CopyOf(e)
    <3>1. \A c \in Calls : out[c] # "approved" BY <1>1, <1>2, <2>2 DEF CopyOf, With
    <3> QED BY <2>3, <2>5, <3>1 DEF CopyOf, With
  <2> QED BY <1>0, <2>2, <2>5, <2>6, <2>7, <2>8, ReplyPauses
<1>9. CASE DrainSaves(k)
  <2>1. /\ reply[k].pc = "again" \/ (reply[k].pc = "save" /\ ~Waits(out, reply[k].mode))
        /\ st' = out /\ view' = out /\ UNCHANGED <<made, asks, req, mode, changed, faults>> /\ Busy(k)
    BY <1>1, <1>9 DEF DrainSaves, past, Busy
  <2>2. PICK e : e = IF With(out, Waiting) # {} THEN NoReply ELSE [reply[k] EXCEPT !.pc = "load", !.out = Nothing] OBVIOUS
  <2>3. e \in ReplyRows /\ e.pc \in {"none", "load"} /\ (e.pc = "none" => With(out, Waiting) # {}) /\ e.out = Nothing
        /\ (e.pc = "none" \/ e.mode = reply[k].mode)
    BY <1>0, <1>4, <2>2 DEF ReplyRows
  <2>4. SetsReply(k, e)
    <3>1. reply' = [reply EXCEPT ![k] = e]
      <4>1. CASE With(out, Waiting) # {} BY <1>0, <1>1, <1>9, <2>1, <2>2, <4>1 DEF DrainSaves, Ends
      <4>2. CASE With(out, Waiting) = {} BY <1>0, <1>1, <1>9, <2>1, <2>2, <4>2 DEF DrainSaves, To
      <4> QED BY <4>1, <4>2
    <3> QED BY <1>0, <2>3, <3>1 DEF SetsReply
  <2>5. faults = 0 => Fits(st)' /\ Fits(e.out)' BY <1>3, <1>4, <2>1, <2>3 DEF Fits
  <2>6. CopyOf(e) BY <2>3 DEF CopyOf
  <2>7. ASSUME faults = 0, e.pc = "none" PROVE Asked'
    <3>1. CASE With(out, Shown) # {} BY <2>1, <3>1 DEF Asked, With
    <3>2. CASE With(out, Shown) = {}
      <4>1. reply[k].pc = "save" /\ ~Waits(out, reply[k].mode) BY <1>1, <1>2, <2>1, <3>2 DEF CopyOf
      <4>2. \A c \in Calls : out[c] # "approved" BY <1>1, <1>2, <4>1 DEF CopyOf, With
      <4>3. PICK c \in Calls : out[c] = "queued" BY <2>3, <2>7, <3>2, <4>2 DEF With, Waiting, Shown
      <4>4. changed BY <1>3, <2>1, <2>7, <4>1, <4>3 DEF Fits, Waits, With
      <4> QED BY <2>1, <4>3, <4>4 DEF Asked, With
    <3> QED BY <3>1, <3>2
  <2> QED BY <1>0, <2>1, <2>3, <2>4, <2>5, <2>6, <2>7, ReplyPauses
<1> QED BY <1>5, <1>6, <1>7, <1>8, <1>9 DEF Drain

\* The streamed reply.
LEMMA StreamPausesInv ==
  ASSUME IndInv, PauseInv, NEW k \in Replies, Stream(k)
  PROVE  PauseInv'
<1>0. /\ reply \in [Replies -> ReplyRows] /\ reply[k] \in ReplyRows /\ reply[k].out \in Outputs /\ st \in Outputs
      /\ Nothing \in Outputs /\ NoReply \in ReplyRows /\ made \in 0..MaxCall /\ made \in Nat /\ MaxCall \in Nat /\ Calls \subseteq Nat
  BY StateTyped, Typed DEF IndInv
<1>1. PICK out : out = reply[k].out OBVIOUS
<1>2. CopyOf(reply[k]) /\ FitInv BY DEF PauseInv
<1>3. faults = 0 => Fits(st) /\ Fits(out) /\ (~changed /\ Busy(k) => reply[k].mode = mode) BY <1>1, <1>2 DEF FitInv
<1>4. NoReply.pc = "none" /\ NoReply.out = Nothing /\ CopyOf(NoReply) /\ Fits(Nothing) BY DEF NoReply, CopyOf, Fits, Nothing
<1>5. \A c \in Calls : c > made => out[c] = "absent" /\ st[c] = "absent" BY <1>1 DEF IndInv, MadeInv
<1>6. CASE Loads(k)
  <2>1. PICK e : e = [reply[k] EXCEPT !.pc = "stream", !.out = st] OBVIOUS
  <2>2. e \in ReplyRows /\ e.pc = "stream" /\ e.out = st /\ e.mode = reply[k].mode BY <1>0, <2>1 DEF ReplyRows
  <2>3. SetsReply(k, e)
    <3>1. reply' = [reply EXCEPT ![k] = e] BY <1>0, <1>6, <2>1 DEF Loads, To
    <3> QED BY <1>0, <2>2, <3>1 DEF SetsReply
  <2>4. Busy(k) /\ UNCHANGED <<st, made, asks, req, mode, changed, faults>> BY <1>6 DEF Loads, Busy, stored
  <2>5. faults = 0 => Fits(st)' /\ Fits(e.out)' BY <1>3, <2>2, <2>4 DEF Fits
  <2>6. CopyOf(e) BY <2>2 DEF CopyOf
  <2> QED BY <1>0, <2>2, <2>3, <2>4, <2>5, <2>6, ReplyPauses
<1>7. CASE Stages(k)
  <2>1. PICK n \in 1..(MaxCall - made), ask \in BOOLEAN :
          /\ ask \/ reply[k].mode = "ask"
          /\ made' = made + n /\ asks' = IF ask THEN asks \cup ((made + 1)..(made + n)) ELSE asks
          /\ To(k, "stage", Paused(out, (made + 1)..(made + n), ask))
    BY <1>1, <1>7 DEF Stages
  <2>2. PICK new, q : new = (made + 1)..(made + n) /\ q = Paused(out, new, ask) OBVIOUS
  <2>3. /\ new \in SUBSET Calls /\ new # {} /\ made' \in 0..MaxCall /\ new = (made + 1)..made'
        /\ \A c \in Calls : c \in new => c > made
    BY <1>0, <2>1, <2>2, NewCalls
  <2>4. ShownIn(out, IF ask THEN {} ELSE new, q)
    <3>1. With(out, Unanswered) \cup new # {} /\ out \in Outputs BY <1>0, <1>1, <2>3
    <3> QED BY <2>2, <2>3, <3>1, PausedShows
  <2>5. UNCHANGED <<st, req, mode, changed, faults>> /\ Busy(k) BY <1>7 DEF Stages, Busy, stored, past
  <2>6. PICK e : e = [reply[k] EXCEPT !.pc = "stage", !.out = q] OBVIOUS
  <2>7. e \in ReplyRows /\ e.pc = "stage" /\ e.out = q /\ e.mode = reply[k].mode BY <1>0, <2>4, <2>6 DEF ReplyRows, ShownIn
  <2>8. SetsReply(k, e)
    <3>1. reply' = [reply EXCEPT ![k] = e] BY <1>0, <2>1, <2>2, <2>6 DEF To
    <3> QED BY <1>0, <2>7, <3>1 DEF SetsReply
  <2>9. asks' \subseteq asks \cup ((made + 1)..made') BY <2>1
  <2>10. ASSUME faults = 0 PROVE Fits(st)' /\ Fits(e.out)'
    <3>1. Fits(st)'
      <4>1. PICK o : o = st OBVIOUS
      <4>2. o \in Outputs /\ Fits(o) /\ \A c \in Calls : c > made => o[c] = "absent" BY <1>0, <1>3, <1>5, <2>10, <4>1
      <4>3. Fits(o)' BY <2>3, <2>5, <2>9, <4>2, FitsStays
      <4> QED BY <2>5, <4>1, <4>3 DEF Fits
    <3>2. Fits(out)'
      <4>1. out \in Outputs /\ Fits(out) BY <1>0, <1>1, <1>3, <2>10
      <4> QED BY <1>5, <2>3, <2>5, <2>9, <4>1, FitsStays
    <3>3. ASSUME NEW c \in Calls, ~changed, q[c] = "queued", ~(out[c] \in {"queued", "open"}) PROVE c \notin asks' /\ mode' = "ask"
      <4>1. c \in new /\ ~ask BY <2>4, <3>3 DEF ShownIn
      <4>2. reply[k].mode = "ask" /\ mode' = "ask" BY <1>3, <2>1, <2>5, <2>10, <3>3, <4>1
      <4>3. asks' = asks /\ asks \subseteq 1..made BY <2>1, <4>1 DEF IndInv, MadeInv
      <4>4. c > made BY <2>3, <4>1
      <4>5. c \notin 1..made BY <1>0, <4>4
      <4> QED BY <4>2, <4>3, <4>5
    <3>4. \A c \in Calls : q[c] # "open" BY <1>3, <2>4, <2>10 DEF ShownIn, Fits
    <3>5. \A c \in Calls : out[c] # "open" BY <1>3, <2>10 DEF Fits
    <3>6. \A c \in Calls : ~changed' /\ q[c] = "queued" => c \notin asks' /\ mode' = "ask"
      BY <2>5, <3>2, <3>3, <3>5 DEF Fits
    <3> QED BY <2>7, <3>1, <3>4, <3>6 DEF Fits
  <2>11. CopyOf(e) BY <2>4, <2>7 DEF CopyOf, ShownIn
  <2> QED BY <2>3, <2>5, <2>7, <2>8, <2>9, <2>10, <2>11, ReplyPauses
<1>8. CASE StagePauses(k)
  <2>1. /\ st' = out /\ view' = out /\ UNCHANGED <<made, asks, req, mode, changed, faults>> /\ Busy(k) /\ reply[k].pc = "stage"
    BY <1>1, <1>8 DEF StagePauses, past, Busy
  <2>2. SetsReply(k, NoReply) BY <1>0, <1>8 DEF SetsReply, StagePauses, Ends
  <2>3. faults = 0 => Fits(st)' /\ Fits(NoReply.out)' BY <1>3, <1>4, <2>1 DEF Fits
  <2>4. With(out, Shown) # {} BY <1>1, <1>2, <2>1 DEF CopyOf
  <2>5. Asked' BY <2>1, <2>4 DEF Asked, With
  <2> QED BY <1>0, <1>4, <2>1, <2>2, <2>3, <2>5, ReplyPauses
<1>9. CASE Appends(k)
  <2>0. PICK n \in 1..(MaxCall - made) :
          /\ made' = made + n
          /\ To(k, "tools", [c \in Calls |-> IF c \in (made + 1)..(made + n) THEN "called" ELSE out[c]])
    BY <1>1, <1>9 DEF Appends
  <2>1. PICK q : q = [c \in Calls |-> IF c \in (made + 1)..(made + n) THEN "called" ELSE out[c]] OBVIOUS
  <2>2. q \in Outputs /\ \A c \in Calls : q[c] = "called" \/ q[c] = out[c] BY <1>0, <1>1, <2>1 DEF Outputs, Status
  <2>3. made' \in 0..MaxCall /\ asks' = asks /\ UNCHANGED <<st, req, mode, changed, faults>> /\ Busy(k)
    BY <1>0, <1>9, <2>0, NewCalls DEF Appends, past, Busy
  <2>4. PICK e : e = [reply[k] EXCEPT !.pc = "tools", !.out = q] OBVIOUS
  <2>5. e \in ReplyRows /\ e.pc = "tools" /\ e.out = q /\ e.mode = reply[k].mode BY <1>0, <2>2, <2>4 DEF ReplyRows
  <2>6. SetsReply(k, e)
    <3>1. reply' = [reply EXCEPT ![k] = e] BY <1>0, <2>0, <2>1, <2>4 DEF To
    <3> QED BY <1>0, <2>5, <3>1 DEF SetsReply
  <2>7. faults = 0 => Fits(st)' /\ Fits(e.out)' BY <1>3, <2>2, <2>3, <2>5 DEF Fits
  <2>8. CopyOf(e) BY <2>5 DEF CopyOf
  <2> QED BY <2>3, <2>5, <2>6, <2>7, <2>8, ReplyPauses
<1>10. CASE Executes(k) \/ Records(k)
  <2>1. PICK p, q : /\ p \in {"tools", "stream"} /\ q \in Outputs /\ reply' = [reply EXCEPT ![k].pc = p, ![k].out = q]
                    /\ \A c \in Calls : q[c] \in {"ran", "done"} \/ q[c] = out[c]
    <3>1. CASE Executes(k)
      <4>1. PICK c : c = Least(With(out, {"called"})) OBVIOUS
      <4>2. PICK q : q = [out EXCEPT ![c] = "ran"] OBVIOUS
      <4>3. q \in Outputs /\ \A d \in Calls : q[d] \in {"ran", "done"} \/ q[d] = out[d] BY <1>0, <1>1, <4>2 DEF Outputs, Status
      <4>4. reply' = [reply EXCEPT ![k].pc = "tools", ![k].out = q] BY <1>1, <3>1, <4>1, <4>2 DEF Executes, To
      <4> QED BY <4>3, <4>4
    <3>2. CASE Records(k)
      <4>1. PICK q : q = [c \in Calls |-> IF out[c] = "ran" THEN "done" ELSE out[c]] OBVIOUS
      <4>2. q \in Outputs /\ \A d \in Calls : q[d] \in {"ran", "done"} \/ q[d] = out[d] BY <1>0, <1>1, <4>1 DEF Outputs, Status
      <4>3. reply' = [reply EXCEPT ![k].pc = "stream", ![k].out = q] BY <1>1, <3>2, <4>1 DEF Records, To
      <4> QED BY <4>2, <4>3
    <3> QED BY <1>10, <3>1, <3>2
  <2>2. PICK e : e = [reply[k] EXCEPT !.pc = p, !.out = q] OBVIOUS
  <2>3. e \in ReplyRows /\ e.pc \in {"tools", "stream"} /\ e.out = q /\ e.mode = reply[k].mode BY <1>0, <2>1, <2>2 DEF ReplyRows
  <2>4. SetsReply(k, e)
    <3>1. reply' = [reply EXCEPT ![k] = e] BY <1>0, <2>1, <2>2
    <3> QED BY <1>0, <2>3, <3>1 DEF SetsReply
  <2>5. Busy(k) /\ UNCHANGED <<st, made, asks, req, mode, changed, faults>> BY <1>10 DEF Executes, Records, Busy, stored, past
  <2>6. faults = 0 => Fits(st)' /\ Fits(e.out)' BY <1>3, <2>1, <2>3, <2>5 DEF Fits
  <2>7. CopyOf(e) BY <2>3 DEF CopyOf
  <2> QED BY <1>0, <2>3, <2>4, <2>5, <2>6, <2>7, ReplyPauses
<1>11. CASE Finishes(k)
  <2>1. /\ st' = out /\ done' /\ UNCHANGED <<made, asks, req, mode, changed, faults>> /\ Busy(k)
    BY <1>1, <1>11 DEF Finishes, past, Busy
  <2>2. SetsReply(k, NoReply) BY <1>0, <1>11 DEF SetsReply, Finishes, Ends
  <2>3. faults = 0 => Fits(st)' /\ Fits(NoReply.out)' BY <1>3, <1>4, <2>1 DEF Fits
  <2> QED BY <1>0, <1>4, <2>1, <2>2, <2>3, ReplyPauses
<1> QED BY <1>6, <1>7, <1>8, <1>9, <1>10, <1>11 DEF Stream

\* A reply is started, by a resolve or by the user.
LEMMA StartPausesInv ==
  ASSUME IndInv, PauseInv, NEW k \in Replies, NewReply(k), UNCHANGED <<st, made, asks, mode, changed, faults>>,
         \A r \in Requests : req'[r] = req[r] \/ req'[r] = NoReq
  PROVE  PauseInv'
<1>0. reply \in [Replies -> ReplyRows] BY Typed DEF IndInv
<1>1. (\A j \in Replies : CopyOf(reply[j])) /\ FitInv BY DEF PauseInv
<1>2. PICK e : e = [pc |-> "drain", mode |-> mode, out |-> Nothing] OBVIOUS
<1>3. reply'[k] = e /\ \A j \in Replies : j # k => reply'[j] = reply[j] BY <1>0, <1>2 DEF NewReply
<1>4. e.pc = "drain" /\ e.mode = mode /\ e.out = Nothing /\ NoReq.pc = "idle" BY <1>2 DEF NoReq
<1>5. \A c \in Calls : e.out[c] = "absent" BY <1>4 DEF Nothing
<1>6. \A j \in Replies : CopyOf(reply[j])' BY <1>1, <1>3, <1>4 DEF CopyOf, With
<1>7. FitInv'
  <2> SUFFICES ASSUME faults = 0 PROVE FitInv' BY DEF FitInv
  <2>1. ASSUME NEW j \in Replies PROVE Fits(reply[j].out)' /\ (~changed' /\ Busy(j)' => reply'[j].mode = mode')
    <3>1. CASE j = k BY <1>3, <1>4, <1>5, <3>1 DEF Fits
    <3>2. CASE j # k BY <1>1, <1>3, <3>2 DEF FitInv, Fits, Busy
    <3> QED BY <3>1, <3>2
  <2>2. ASSUME NEW r \in Requests, req'[r].pc = "read" PROVE Fits(req[r].seen)'
    <3>1. req'[r] = req[r] BY <1>4, <2>2
    <3> QED BY <1>1, <2>2, <3>1 DEF FitInv, Fits
  <2> QED BY <1>1, <2>1, <2>2 DEF FitInv, Fits
<1>8. InTurn' BY <1>3, <1>4 DEF InTurn
<1> QED BY <1>6, <1>7, <1>8 DEF PauseInv, AskInv

\* A request, or a client that sends one.
LEMMA RequestPausesInv ==
  ASSUME IndInv, PauseInv, NEW r \in Requests, Sends(r) \/ Request(r)
  PROVE  PauseInv'
<1>0. /\ reply \in [Replies -> ReplyRows] /\ req \in [Requests -> ReqRows] /\ st \in Outputs /\ Nothing \in Outputs /\ mode \in {"ask", "full"}
  BY StateTyped, Typed DEF IndInv, TypeOK
<1>1. /\ \A k \in Replies : CopyOf(reply[k])
      /\ FitInv /\ AskInv
  BY DEF PauseInv
<1>2. NoReq.pc = "idle" BY DEF NoReq
<1>3. CASE Sends(r) \/ Reads(r) \/ IsRefused(r)
  <2>1. /\ UNCHANGED <<st, done, view, made, asks, mode, reply, changed, faults>>
        /\ req[r].pc # "resume" /\ \A q \in Requests : q # r => req'[q] = req[q]
    BY <1>0, <1>3 DEF Sends, Reads, IsRefused, stored, past
  <2>2. req'[r].pc # "resume" /\ (req'[r].pc = "read" => req'[r].seen = st)
    BY <1>0, <1>2, <1>3 DEF Sends, Reads, IsRefused, ReqRows
  <2>3. \A k \in Replies : CopyOf(reply[k])' BY <1>1, <2>1 DEF CopyOf, With
  <2>4. FitInv' BY <1>1, <2>1, <2>2 DEF FitInv, Fits, Busy
  <2>5. AskInv' BY <1>1, <2>1, <2>2 DEF AskInv, InTurn, Asked, With
  <2> QED BY <2>3, <2>4, <2>5 DEF PauseInv
<1>4. CASE Resolves(r)
  <2>1. PICK v : v = CASE req[r].act = "approve" -> "approved" [] req[r].act = "reject" -> "rejected" [] req[r].act = "answer" -> "done"
    OBVIOUS
  <2>2. v \in {"approved", "rejected", "done"} BY <1>0, <2>1 DEF ReqRows
  <2>3. PICK s, c : s = req[r].seen /\ c = req[r].call OBVIOUS
  <2>4. st' = [s EXCEPT ![c] = v] /\ s \in Outputs BY <1>0, <1>4, <2>1, <2>3 DEF Resolves, ReqRows
  <2>5. \A d \in Calls : st'[d] = s[d] \/ st'[d] \in {"approved", "rejected", "done"} BY <2>2, <2>4 DEF Outputs
  <2>6. req[r].pc = "read" /\ UNCHANGED <<made, asks, mode, reply, changed, faults>> BY <1>4 DEF Resolves
  <2>7. req'[r].pc = "resume" /\ \A q \in Requests : q # r => req'[q] = req[q] BY <1>0, <1>4 DEF Resolves, ReqRows
  <2>8. \A k \in Replies : CopyOf(reply[k])' BY <1>1, <2>6 DEF CopyOf, With
  <2>9. ASSUME faults = 0 PROVE Fits(st)'
    <3>1. Fits(s) BY <1>1, <2>3, <2>6, <2>9 DEF FitInv
    <3> QED BY <2>5, <2>6, <3>1 DEF Fits
  <2>10. FitInv' BY <1>1, <2>6, <2>7, <2>9 DEF FitInv, Fits, Busy
  <2>11. InTurn' BY <2>7 DEF InTurn
  <2> QED BY <2>8, <2>10, <2>11 DEF PauseInv, AskInv
<1>5. CASE Resumes(r)
  <2>1. PICK k \in Replies : NewReply(k) BY <1>5 DEF Resumes
  <2>2. UNCHANGED <<st, made, asks, mode, changed, faults>> /\ \A q \in Requests : req'[q] = req[q] \/ req'[q] = NoReq
    BY <1>0, <1>5 DEF Resumes, stored, past
  <2> QED BY <2>1, <2>2, StartPausesInv
<1> QED BY <1>3, <1>4, <1>5 DEF Request

\* A fault: nothing is said of the reply any more.
LEMMA FaultPausesInv ==
  ASSUME IndInv, PauseInv, Fault, \A k \in Replies : reply'[k] = reply[k] \/ reply'[k] = NoReply
  PROVE  PauseInv'
<1>1. faults \in Nat /\ faults' = faults + 1 BY DEF IndInv, TypeOK, Fault
<1>2. faults' # 0 BY <1>1
<1>3. \A k \in Replies : CopyOf(reply[k])' BY DEF PauseInv, CopyOf, With, NoReply
<1> QED BY <1>2, <1>3 DEF PauseInv, FitInv, AskInv

\* Every step leaves the user a call, or somebody the turn.
LEMMA PauseNext == IndInv /\ PauseInv /\ [Next]_vars => PauseInv'
<1> SUFFICES ASSUME IndInv, PauseInv, [Next]_vars PROVE PauseInv' OBVIOUS
<1>0. reply \in [Replies -> ReplyRows] /\ mode \in {"ask", "full"} BY StateTyped DEF IndInv, TypeOK
<1>1. ASSUME NEW r \in Requests, Sends(r) \/ Request(r) PROVE PauseInv' BY <1>1, RequestPausesInv
<1>2. ASSUME NEW r \in Requests, ResumeFails(r) PROVE PauseInv'
  <2>1. Fault /\ reply' = reply BY <1>2 DEF ResumeFails
  <2> QED BY <2>1, FaultPausesInv
<1>3. ASSUME NEW k \in Replies, Drain(k) \/ Stream(k) PROVE PauseInv' BY <1>3, DrainPausesInv, StreamPausesInv
<1>4. ASSUME NEW k \in Replies, Stopped(k) PROVE PauseInv'
  <2>1. Fault /\ \A j \in Replies : reply'[j] = reply[j] \/ reply'[j] = NoReply BY <1>0, <1>4 DEF Stopped, Ends
  <2> QED BY <2>1, FaultPausesInv
<1>5. ASSUME NEW k \in Replies, Continues(k) PROVE PauseInv'
  <2>1. NewReply(k) /\ UNCHANGED <<st, made, asks, mode, changed, faults, req>> BY <1>5 DEF Continues
  <2> QED BY <2>1, StartPausesInv
<1>6. CASE SetsMode
  <2>1. changed' = TRUE /\ UNCHANGED <<st, done, view, made, asks, req, reply, faults>> BY <1>6 DEF SetsMode, stored
  <2>2. \A k \in Replies : CopyOf(reply[k])' BY <2>1 DEF PauseInv, CopyOf, With
  <2>3. FitInv' BY <2>1 DEF PauseInv, FitInv, Fits
  <2>4. AskInv' BY <2>1 DEF PauseInv, AskInv, InTurn, Asked, With
  <2> QED BY <2>2, <2>3, <2>4 DEF PauseInv
<1>7. CASE Crash
  <2>1. Fault /\ \A k \in Replies : reply'[k] = NoReply BY <1>7 DEF Crash
  <2> QED BY <2>1, FaultPausesInv
<1>8. CASE UNCHANGED vars
  <2>1. UNCHANGED <<st, done, view, made, asks, mode, req, reply, changed, faults>> BY <1>8 DEF vars, stored, past
  <2>2. \A k \in Replies : CopyOf(reply[k])' BY <2>1 DEF PauseInv, CopyOf, With
  <2>3. FitInv' BY <2>1 DEF PauseInv, FitInv, Fits, Busy
  <2>4. AskInv' BY <2>1 DEF PauseInv, AskInv, InTurn, Asked, With
  <2> QED BY <2>2, <2>3, <2>4 DEF PauseInv
<1> QED BY <1>1, <1>2, <1>3, <1>4, <1>5, <1>6, <1>7, <1>8 DEF Next

\* The first reply has the turn.
LEMMA PauseInit == Init => PauseInv
<1> SUFFICES ASSUME Init PROVE PauseInv OBVIOUS
<1>1. /\ st = Nothing /\ changed = FALSE /\ \A r \in Requests : req[r].pc = "idle" BY DEF Init, NoReq
<1>2. PICK k \in Replies :
        reply = [j \in Replies |-> IF j = k THEN [NoReply EXCEPT !.pc = "load", !.mode = mode] ELSE NoReply]
  BY DEF Init
<1>3. reply[k].pc = "load" /\ reply[k].mode = mode BY <1>2 DEF NoReply
<1>4. /\ \A j \in Replies : reply[j].pc \in {"none", "load"} /\ reply[j].out = Nothing
      /\ \A j \in Replies : j # k => reply[j].pc = "none"
  BY <1>2 DEF NoReply
<1>5. \A j \in Replies : CopyOf(reply[j]) BY <1>4 DEF CopyOf
<1>6. Fits(Nothing) BY DEF Fits, Nothing
<1>7. FitInv BY <1>1, <1>3, <1>4, <1>6 DEF FitInv, Busy
<1>8. InTurn BY <1>3 DEF InTurn
<1> QED BY <1>5, <1>7, <1>8 DEF PauseInv, AskInv

\* A reply at rest asks the user about a call, unless it is done or a fault
\* hit it, also when it was continued while it waited.
THEOREM PausesAsk == ~AnyCall /\ Spec => []PausedAsks
<1>1. AtRest => ~InTurn BY DEF AtRest, InTurn
<1>2. AskInv => PausedAsks BY <1>1 DEF AskInv, PausedAsks, Asked
<1>3. PauseInv => PausedAsks BY <1>2 DEF PauseInv
<1> QED BY <1>3, ApprovalInvariance, PauseInit, PauseNext, PTL DEF Spec

=============================================================================
