---------------------------- MODULE TasksProofs ----------------------------
(***************************************************************************)
(* The safety properties of Tasks for any number of replies and of stops.  *)
(* ReplyIsListed rests on who may remove an entry (StopInv), NoEntryLeft   *)
(* on the order of a task's save and its callback (LeftInv), and           *)
(* StopAllLeavesDeaf on tasks holding every reply (RegInv) and on the      *)
(* tasks past their look at stopping being known (DeafInv).                *)
(***************************************************************************)
EXTENDS Tasks, TLAPS

\* tasks holds every reply, so the listener and stop_all_tasks find it.
RegInv == \A t \in Ids : task[t] \in Reply => t \in registry

\* stop_task removes an entry only after its stop was published.
StopInv ==
  \A s \in Stops : stop[s].pc \in {"rem", "card", "del"} => stop[s].cur \in asked

\* A task's callback has removed its entry, or is known to have missed it.
LeftInv ==
  \A t \in Ids : task[t] \in {"ecard", "edel", "over"} =>
    t \in missed \/ (t \notin hash \cup members /\ save[t] # "pending")

\* After the shutdown began, only tasks known then start replies.
DeafInv ==
  phase # "up" =>
    \A t \in Ids : task[t] \in {"pending", "starting", "creating"} => t \in deaf

IndInv == /\ TypeOK /\ RegInv /\ StopInv /\ LeftInv /\ DeafInv
          /\ ReplyIsListed /\ StopAllLeavesDeaf

\* Initially there is nothing.
LEMMA InitInv == Init => IndInv
<1> SUFFICES ASSUME Init PROVE IndInv OBVIOUS
<1>1. timedOut \in BOOLEAN BY DEF Init
<1>2. NoStop \in StopStates BY DEF NoStop, StopStates
<1>3. TypeOK BY <1>1, <1>2 DEF Init, TypeOK
<1> QED
  BY <1>3 DEF Init, IndInv, RegInv, StopInv, LeftInv, DeafInv, ReplyIsListed,
     StopAllLeavesDeaf, Reply, NoStop

\* create_task, the reply, and its finally block keep the invariant.
LEMMA ReplyStep ==
  ASSUME IndInv, NEW t \in Ids,
         \/ CreateNext(t) \/ Finishes(t) \/ EndsEarly(t)
         \/ FinallyNext(t) \/ CallbackNext(t) \/ Handles(t)
  PROVE  IndInv'
<1> USE IdsAssumption DEF IndInv, TypeOK, RegInv, StopInv, LeftInv, DeafInv, ReplyIsListed,
      StopAllLeavesDeaf, Reply, Final, Tail, Ended, redisVars, stopVars, allVars
<1>1. CASE NewReply(t) BY <1>1 DEF NewReply, Creates, Goto
<1>2. CASE Saves(t) BY <1>2 DEF Saves, Returns
<1>3. CASE SaveFails(t) BY <1>3 DEF SaveFails, Returns
<1>4. CASE Finishes(t) BY <1>4 DEF Finishes, Goto
<1>5. CASE EndsEarly(t) BY <1>5 DEF EndsEarly, Goto
<1>6. CASE FinalRemoves(t) BY <1>6 DEF FinalRemoves, Removes, Goto
<1>7. CASE FinalCounts(t) BY <1>7 DEF FinalCounts, Pops, Counted, Goto
<1>8. CASE FinalDeletes(t) BY <1>8 DEF FinalDeletes, Deletes, Pops, Goto
<1>9. CASE FinalFails(t) BY <1>9 DEF FinalFails, Goto
<1>10. CASE TailAsks(t) BY <1>10 DEF TailAsks, Goto
<1>11. CASE TailEnters(t) BY <1>11 DEF TailEnters, Goto
<1>12. CASE TailLocks(t) BY <1>12 DEF TailLocks, Goto
<1>13. CASE TailReturns(t) BY <1>13 DEF TailReturns, Goto
<1>14. ASSUME NEW u \in Ids, FollowUp(t, u) PROVE IndInv'
  BY <1>14 DEF FollowUp, Creates
<1>15. CASE CallbackRemoves(t) BY <1>15 DEF CallbackRemoves, Removes, Goto
<1>16. CASE CallbackCounts(t) BY <1>16 DEF CallbackCounts, Pops, Counted, Goto
<1>17. CASE CallbackDeletes(t) BY <1>17 DEF CallbackDeletes, Deletes, Pops, Goto
<1>18. CASE CallbackFails(t) BY <1>18 DEF CallbackFails, Goto
<1>19. CASE Handles(t) BY <1>19 DEF Handles, Cancelled, Goto
<1> QED
  BY <1>1, <1>2, <1>3, <1>4, <1>5, <1>6, <1>7, <1>8, <1>9, <1>10, <1>11, <1>12, <1>13,
     <1>14, <1>15, <1>16, <1>17, <1>18, <1>19 DEF CreateNext, FinallyNext, CallbackNext

\* Between two ids, a stop request holds none.
LEMMA NextIdTyped ==
  ASSUME TypeOK, NEW s \in Stops
  PROVE  NextId(s) \in StopStates /\ NextId(s).pc \notin {"rem", "card", "del"}
<1>1. stop[s] \in StopStates BY DEF TypeOK
<1>2. NoStop \in StopStates /\ NoStop.pc = "idle" BY DEF NoStop, StopStates
<1>3. LET n == [stop[s] EXCEPT !.pc = "next", !.cur = NoTask, !.item = FALSE]
      IN  n \in StopStates /\ n.pc = "next"
  BY <1>1 DEF StopStates
<1> QED BY <1>2, <1>3 DEF NextId

\* The stop requests stay well-formed when one of them moves on to a
\* well-formed state whose task was asked.
LEMMA StopMoves ==
  ASSUME TypeOK, StopInv, NEW s \in Stops, NEW next \in StopStates, At(s, next),
         asked \subseteq asked',
         next.pc \in {"rem", "card", "del"} => next.cur \in asked'
  PROVE  stop' \in [Stops -> StopStates] /\ StopInv'
BY DEF TypeOK, StopInv, At

\* A stop request keeps the invariant: it removes only what it has published.
LEMMA StopStep ==
  ASSUME IndInv, NEW s \in Stops, StopAsked(s) \/ StopNext(s)
  PROVE  IndInv'
<1> USE IdsAssumption
<1>0. /\ TypeOK /\ StopInv /\ stop[s] \in StopStates
      /\ NoStop \in StopStates /\ NoStop.pc = "idle"
      /\ NextId(s) \in StopStates /\ NextId(s).pc \notin {"rem", "card", "del"}
  BY NextIdTyped DEF IndInv, TypeOK, NoStop, StopStates
<1>1. CASE StopAsked(s)
  <2>1. PICK ids \in {members} \cup {{t} : t \in hash} :
          At(s, [NoStop EXCEPT !.pc = "next", !.todo = ids])
    BY <1>1 DEF StopAsked
  <2>2. ids \in SUBSET Ids BY <1>0 DEF TypeOK
  <2>3. [NoStop EXCEPT !.pc = "next", !.todo = ids] \in StopStates
    BY <1>0, <2>2 DEF StopStates
  <2>4. [NoStop EXCEPT !.pc = "next", !.todo = ids].pc = "next"
    BY <1>0 DEF StopStates
  <2>5. stop' \in [Stops -> StopStates] /\ StopInv'
    BY <1>0, <1>1, <2>1, <2>3, <2>4, StopMoves DEF StopAsked
  <2> QED BY <1>1, <2>5 DEF StopAsked, IndInv, TypeOK, RegInv, LeftInv, DeafInv,
             ReplyIsListed, StopAllLeavesDeaf, redisVars, allVars
<1>2. CASE StopPublishes(s)
  <2>1. PICK t \in Ids : /\ At(s, [pc |-> "rem", todo |-> stop[s].todo \ {t}, cur |-> t,
                                   item |-> t \in hash])
                         /\ asked' = asked \cup {t}
                         /\ inbox' \subseteq inbox \cup {t}
    BY <1>0, <1>2 DEF StopPublishes, StopStates
  <2>2. [pc |-> "rem", todo |-> stop[s].todo \ {t}, cur |-> t, item |-> t \in hash]
          \in StopStates
    BY <1>0 DEF StopStates
  <2>3. stop' \in [Stops -> StopStates] /\ StopInv'
    BY <1>0, <2>1, <2>2, StopMoves
  <2> QED BY <1>2, <2>1, <2>3 DEF StopPublishes, IndInv, TypeOK, RegInv, LeftInv, DeafInv,
             ReplyIsListed, StopAllLeavesDeaf, redisVars, allVars
<1>3. CASE StopRemoves(s)
  <2>1. stop[s].cur \in asked BY <1>0, <1>3 DEF StopRemoves, StopInv
  <2>2. LET n == [stop[s] EXCEPT !.pc = "card"]
        IN  n \in StopStates /\ n.pc = "card" /\ n.cur = stop[s].cur
    BY <1>0 DEF StopStates
  <2>3. PICK next \in StopStates :
          /\ At(s, next)
          /\ next.pc \in {"rem", "card", "del"} => next.cur \in asked
    BY <1>0, <1>3, <2>1, <2>2 DEF StopRemoves, At
  <2>4. stop' \in [Stops -> StopStates] /\ StopInv'
    BY <1>0, <1>3, <2>3, StopMoves DEF StopRemoves
  <2> QED BY <1>3, <2>1, <2>4 DEF StopRemoves, Removes, IndInv, TypeOK, RegInv, LeftInv,
             DeafInv, ReplyIsListed, StopAllLeavesDeaf, allVars
<1>4. CASE StopCounts(s)
  <2>1. stop[s].cur \in asked BY <1>0, <1>4 DEF StopCounts, StopInv
  <2>2. LET n == [stop[s] EXCEPT !.pc = "del"]
        IN  n \in StopStates /\ n.pc = "del" /\ n.cur = stop[s].cur
    BY <1>0 DEF StopStates
  <2>3. PICK next \in StopStates :
          /\ At(s, next)
          /\ next.pc \in {"rem", "card", "del"} => next.cur \in asked
    BY <1>0, <1>4, <2>1, <2>2 DEF StopCounts, At, Counted
  <2>4. stop' \in [Stops -> StopStates] /\ StopInv'
    BY <1>0, <1>4, <2>3, StopMoves DEF StopCounts
  <2> QED BY <1>4, <2>4 DEF StopCounts, IndInv, TypeOK, RegInv, LeftInv, DeafInv,
             ReplyIsListed, StopAllLeavesDeaf, redisVars, allVars
<1>5. CASE StopDeletes(s)
  <2>1. stop' \in [Stops -> StopStates] /\ StopInv'
    BY <1>0, <1>5, StopMoves DEF StopDeletes
  <2> QED BY <1>5, <2>1 DEF StopDeletes, Deletes, IndInv, TypeOK, RegInv, LeftInv, DeafInv,
             ReplyIsListed, StopAllLeavesDeaf, allVars
<1>6. CASE StopFails(s)
  <2>1. ASSUME NEW t \in stop[s].todo, stop[s].pc = "next"
        PROVE  LET n == [stop[s] EXCEPT !.todo = @ \ {t}]
               IN  n \in StopStates /\ n.pc = "next"
    BY <1>0, <2>1 DEF StopStates
  <2>2. PICK next \in StopStates :
          At(s, next) /\ next.pc \notin {"rem", "card", "del"}
    BY <1>0, <1>6, <2>1 DEF StopFails
  <2>3. stop' \in [Stops -> StopStates] /\ StopInv'
    BY <1>0, <1>6, <2>2, StopMoves DEF StopFails
  <2> QED BY <1>6, <2>3 DEF StopFails, IndInv, TypeOK, RegInv, LeftInv, DeafInv,
             ReplyIsListed, StopAllLeavesDeaf, redisVars, allVars
<1> QED BY <1>1, <1>2, <1>3, <1>4, <1>5, <1>6 DEF StopNext

\* The listener's connection, stop_all_tasks and a restart keep the invariant.
LEMMA ProcessStep ==
  ASSUME IndInv, Subscribes \/ Disconnects \/ StopAllNext \/ Restart
  PROVE  IndInv'
<1> USE IdsAssumption DEF IndInv, TypeOK, RegInv, StopInv, LeftInv, DeafInv, ReplyIsListed,
      StopAllLeavesDeaf, Reply, Final, Tail, Ended, redisVars, stopVars, allVars
<1>1. CASE Subscribes BY <1>1 DEF Subscribes
<1>2. CASE Disconnects BY <1>2 DEF Disconnects
<1>3. CASE StopAllBegins BY <1>3 DEF StopAllBegins, Round, Running, Cancelled
<1>4. CASE StopAllRound BY <1>4 DEF StopAllRound, Round, Running, Cancelled
<1>5. CASE StopAllTimesOut BY <1>5 DEF StopAllTimesOut
<1>6. CASE Restart
  <2>1. NoStop \in StopStates BY DEF NoStop, StopStates
  <2> QED BY <1>6, <2>1 DEF Restart, NoStop
<1> QED BY <1>1, <1>2, <1>3, <1>4, <1>5, <1>6 DEF StopAllNext

\* The invariant of the registry, for any number of replies and of stops.
THEOREM Invariance == Spec => []IndInv
<1>1. ASSUME IndInv, [Next]_vars PROVE IndInv'
  <2>1. CASE Next BY <1>1, <2>1, ReplyStep, StopStep, ProcessStep DEF Next
  <2>2. CASE UNCHANGED vars
    BY <1>1, <2>2 DEF vars, redisVars, stopVars, allVars, IndInv, TypeOK, RegInv, StopInv,
       LeftInv, DeafInv, ReplyIsListed, StopAllLeavesDeaf
  <2> QED BY <1>1, <2>1, <2>2
<1> QED BY <1>1, InitInv, PTL DEF Spec

\* Every variable keeps its type.
THEOREM TypeCorrect == Spec => []TypeOK
BY Invariance, PTL DEF IndInv

\* A running reply that nobody asked to stop is in REDIS_TASKS_KEY.
THEOREM RepliesAreListed == Spec => []ReplyIsListed
BY Invariance, PTL DEF IndInv

\* Only a late save or a failure of Redis leaves an entry of a task that is over.
THEOREM EntriesAreRemoved == Spec => []NoEntryLeft
<1>1. IndInv => NoEntryLeft BY DEF IndInv, LeftInv, NoEntryLeft
<1> QED BY <1>1, Invariance, PTL

\* stop_all_tasks misses only the follow-ups of replies past their look at
\* stopping, and the replies started behind it.
THEOREM StopAllIsComplete == Spec => []StopAllLeavesDeaf
BY Invariance, PTL DEF IndInv
=============================================================================
