--------------------------- MODULE SubagentsProofs ---------------------------
(***************************************************************************)
(* Subagents for any number of delegations, replies and faults: its types, *)
(* NoResultStranded, the slots of background sub-agents, and that it       *)
(* implements Mailbox.  The refinement rests on who is inside the parent's *)
(* lock (LockInv), on what was read there being still pending (SeenInv)    *)
(* and on the order of a delegation's life (LifeInv).                      *)
(***************************************************************************)
EXTENDS Subagents, FiniteSetTheorems, TLAPS

\* Who is past the lock holds it; a sub-agent looks for results after it has
\* posted its own, and a reply after it has left the registry.
LockInv ==
  /\ \A a \in Actors : pp[a] \in {"crit", "commit", "start"} => lock = a
  /\ \A i \in Delegs : child[i] = "commit" => lock = i
  /\ \A i \in Delegs : pp[i] # "none" => child[i] = "wake"
  /\ \A k \in Replies : pp[k] # "none" => reply[k] = "tail"

\* Nobody answers what an actor has read, until it lets go of the lock.
SeenInv == \A a \in Actors : pp[a] = "commit" => seen[a] \subseteq Posted

\* A delegation's task is made once, and posts its result once.
LifeInv ==
  /\ \A i \in Delegs : call[i] \in {"none", "reserve", "create"} => child[i] = "none"
  /\ \A i \in Delegs : child[i] \in {"none", "ready", "run", "post", "commit"} => res[i] = "none"
  /\ \A i \in Delegs : taken[i] = IF res[i] = "taken" THEN 1 ELSE 0

IndInv == TypeOK /\ LockInv /\ SeenInv /\ LifeInv /\ NoResultStranded

\* Before the first message nothing is posted.
LEMMA InitInv == Init => IndInv
<1> SUFFICES ASSUME Init PROVE IndInv OBVIOUS
<1> USE SubagentsAssumption DEF Init
<1>0. stale \in BOOLEAN /\ gone \in BOOLEAN /\ stopping \in BOOLEAN OBVIOUS
<1>1. TypeOK BY <1>0 DEF TypeOK, Actors
<1>2. Posted = {} BY DEF Posted
<1> QED BY <1>1, <1>2 DEF IndInv, LockInv, SeenInv, LifeInv, NoResultStranded, Actors

\* The calls of delegate keep the invariant.
LEMMA CallStep ==
  ASSUME IndInv, NEW i \in Delegs,
         \/ Delegates(i) \/ Acquires(i) \/ Creates(i) \/ CreateFails(i)
         \/ Saved(i) \/ SaveFails(i) \/ Returns(i)
  PROVE  IndInv'
<1> USE SubagentsAssumption
    DEF IndInv, TypeOK, LockInv, SeenInv, LifeInv, NoResultStranded, Posted, Active, AtWork, Misled, Actors,
        wake, world, Ended, Release, Fault
<1>1. CASE Delegates(i) BY <1>1 DEF Delegates
<1>2. CASE Acquires(i) BY <1>2 DEF Acquires
<1>3. CASE Creates(i) BY <1>3 DEF Creates
<1>4. CASE CreateFails(i) BY <1>4 DEF CreateFails
<1>5. CASE Saved(i) BY <1>5 DEF Saved
<1>6. CASE SaveFails(i) BY <1>6 DEF SaveFails
<1>7. CASE Returns(i) BY <1>7 DEF Returns
<1> QED BY <1>1, <1>2, <1>3, <1>4, <1>5, <1>6, <1>7

\* A sub-agent's own task keeps it: it posts under the parent's lock.
LEMMA ChildStep ==
  ASSUME IndInv, NEW i \in Delegs,
         Starts(i) \/ Runs(i) \/ PostLocks(i) \/ Posts(i) \/ Wakes(i) \/ StopsChild(i)
  PROVE  IndInv'
<1> USE SubagentsAssumption
    DEF IndInv, TypeOK, LockInv, SeenInv, LifeInv, NoResultStranded, Posted, Active, AtWork, Misled, Actors,
        wake, world, Release, Fault, AfterRun, Enters, Leaves, Stop
<1>1. CASE Starts(i) BY <1>1 DEF Starts
<1>2. CASE Runs(i) BY <1>2 DEF Runs
<1>3. CASE PostLocks(i) BY <1>3 DEF PostLocks
<1>4. CASE Posts(i) BY <1>4 DEF Posts
<1>5. CASE Wakes(i) BY <1>5 DEF Wakes
<1>6. CASE StopsChild(i) BY <1>6 DEF StopsChild
<1> QED BY <1>1, <1>2, <1>3, <1>4, <1>5, <1>6

\* process_pending_internal_messages keeps it, whoever runs it.
LEMMA PendingStep ==
  ASSUME IndInv, NEW a \in Actors, Pending(a)
  PROVE  IndInv'
<1> USE SubagentsAssumption
    DEF IndInv, TypeOK, LockInv, SeenInv, LifeInv, NoResultStranded, Posted, Active, AtWork, Misled, Actors,
        agent, wake, world, Fault, Leaves
<1>1. CASE FindsIdle(a) BY <1>1 DEF FindsIdle
<1>2. CASE Locks(a) BY <1>2 DEF Locks, LockFree
<1>3. CASE Reads(a)
  <2>1. CASE ~Active /\ ~gone /\ Posted # {} BY <1>3, <2>1, SMTT(60) DEF Reads
  <2>2. CASE Active \/ gone \/ Posted = {}
    <3>1. TypeOK' BY <1>3, <2>2 DEF Reads
    <3>2. LockInv' /\ SeenInv' BY <1>3, <2>2 DEF Reads
    <3>3. LifeInv' BY <1>3, <2>2 DEF Reads
    <3>4. \A k \in Replies : reply[k] = "active" => reply'[k] = "active" BY <1>3, <2>2 DEF Reads
    <3>5. res' = res /\ gone' = gone BY <1>3 DEF Reads
    <3>6. ~AtWork /\ Active => lost' = lost \cup Posted BY <1>3, <2>2 DEF Reads
    <3>7. NoResultStranded' BY <2>2, <3>4, <3>5, <3>6
    <3> QED BY <3>1, <3>2, <3>3, <3>7
  <2> QED BY <2>1, <2>2
<1>4. CASE Commits(a) BY <1>4 DEF Commits
<1>5. CASE Answers(a)
  <2>1. TypeOK'
    <3>1. PICK rest : rest = IF a \in Replies THEN [reply EXCEPT ![a] = "none"] ELSE reply OBVIOUS
    <3>2. \/ \E k \in Replies : reply' = [rest EXCEPT ![k] = "active"] /\ UNCHANGED <<faults, lost>>
          \/ faults' = faults + 1 /\ reply' = rest /\ lost' = lost \cup Posted
      BY <1>5, <3>1 DEF Answers
    <3>3. rest \in [Replies -> {"none", "active", "stuck", "left", "ended", "tail"}] BY <3>1
    <3>4. reply' \in [Replies -> {"none", "active", "stuck", "left", "ended", "tail"}] /\ faults' \in Nat /\ lost' \subseteq Delegs
      BY <3>2, <3>3
    <3>5. /\ pp' = [pp EXCEPT ![a] = "none"] /\ seen' = [seen EXCEPT ![a] = {}] /\ lock' = NoActor
          /\ child' = IF a \in Delegs THEN [child EXCEPT ![a] = "end"] ELSE child
          /\ UNCHANGED <<call, owner, slots, permits, leaked, extra, res, taken, stale, gone, stopping, sends>>
      BY <1>5 DEF Answers
    <3> QED BY <3>4, <3>5
  <2>2. LockInv' /\ SeenInv' BY <1>5 DEF Answers
  <2>3. LifeInv' BY <1>5 DEF Answers
  <2>4. (\E k \in Replies : reply'[k] = "active") \/ lost' = lost \cup Posted BY <1>5 DEF Answers
  <2>5. NoResultStranded'
    <3>1. res' = res BY <1>5 DEF Answers
    <3> QED BY <2>4, <3>1
  <2> QED BY <2>1, <2>2, <2>3, <2>5
<1> QED BY <1>1, <1>2, <1>3, <1>4, <1>5 DEF Pending

\* So do the replies, the user and the backend.
LEMMA ReplyStep ==
  ASSUME IndInv, NEW k \in Replies,
         Sends(k) \/ Ends(k) \/ Tails(k) \/ Callback(k) \/ StopsReply(k) \/ StopsTail(k)
  PROVE  IndInv'
<1> USE SubagentsAssumption
    DEF IndInv, TypeOK, LockInv, SeenInv, LifeInv, NoResultStranded, Posted, Active, AtWork, Misled, Actors,
        agent, wake, world, Fault, Enters, Stop
<1>1. CASE Sends(k) BY <1>1 DEF Sends
<1>2. CASE Ends(k) BY <1>2 DEF Ends
<1>3. CASE Tails(k) BY <1>3 DEF Tails
<1>4. CASE StopsReply(k) BY <1>4 DEF StopsReply, CallsOf
<1>5. CASE StopsTail(k) BY <1>5 DEF StopsTail
<1>6. CASE Callback(k)
  <2>1. stale' \in BOOLEAN BY <1>6, Zenon DEF Callback
  <2> QED BY <1>6, <2>1 DEF Callback
<1> QED BY <1>1, <1>2, <1>3, <1>4, <1>5, <1>6

\* A stop that clears the registry, the chat's deletion, a shutdown and a
\* restart keep the invariant.
LEMMA WorldStep == ASSUME IndInv, ClearsStale \/ Deletes \/ Shutdown \/ Restart PROVE IndInv'
<1> USE SubagentsAssumption
    DEF IndInv, TypeOK, LockInv, SeenInv, LifeInv, NoResultStranded, Posted, Active, AtWork, Misled, Actors,
        agent, wake, world, Fault, Stop
<1>1. CASE Deletes BY <1>1 DEF Deletes
<1>2. CASE Shutdown BY <1>2 DEF Shutdown
<1>3. CASE Restart
  <2>1. stopping' \in BOOLEAN /\ stale' \in BOOLEAN BY <1>3 DEF Restart
  <2>2. TypeOK' BY <1>3, <2>1 DEF Restart
  <2>3. lost' = lost \cup Posted' BY <1>3 DEF Restart
  <2>4. NoResultStranded' BY <2>3
  <2> QED BY <1>3, <2>2, <2>4 DEF Restart
<1>4. CASE ClearsStale
  <2>1. stale' \in BOOLEAN BY <1>4 DEF ClearsStale
  <2> QED BY <1>4, <2>1 DEF ClearsStale
<1> QED BY <1>1, <1>2, <1>3, <1>4

\* The inductive step.
LEMMA Step == IndInv /\ [Next]_vars => IndInv'
<1> SUFFICES ASSUME IndInv, [Next]_vars PROVE IndInv' OBVIOUS
<1>1. CASE \E i \in Delegs : Delegation(i) \/ Agent(i)
  BY <1>1, CallStep, ChildStep DEF Delegation, Agent
<1>2. CASE \E a \in Actors : Pending(a) BY <1>2, PendingStep
<1>3. CASE \E k \in Replies : Sends(k) \/ Reply(k) \/ StopsReply(k) \/ StopsTail(k)
  BY <1>3, ReplyStep DEF Reply
<1>4. CASE ClearsStale \/ Deletes \/ Shutdown \/ Restart BY <1>4, WorldStep
<1>5. CASE UNCHANGED vars
  BY <1>5 DEF vars, agent, wake, world, IndInv, TypeOK, LockInv, SeenInv, LifeInv,
     NoResultStranded, Posted, Active, AtWork
<1> QED BY <1>1, <1>2, <1>3, <1>4, <1>5 DEF Next

\* The invariant holds of every behaviour.
LEMMA Invariance == Spec => []IndInv
BY InitInv, Step, PTL DEF Spec

\* The state of a delegation, its result and its parent's replies is as typed.
THEOREM TypeCorrect == Spec => []TypeOK
<1>1. IndInv => TypeOK BY DEF IndInv
<1> QED BY <1>1, Invariance, PTL

\* While no reply is at work, a posted result has somebody on the way to
\* answer it, unless a stop, an error or a restart cut that off, or who was on
\* the way found only an ended reply's entry in the registry.
THEOREM NeverStranded == Spec => []NoResultStranded
<1>1. IndInv => NoResultStranded BY DEF IndInv
<1> QED BY <1>1, Invariance, PTL
\* The mailbox sees a result's post, a batch's commit, and nothing else.
LEMMA MailStep == IndInv /\ [Next]_vars => [Mail!Next]_<<Posted, taken>>
<1> SUFFICES ASSUME IndInv, [Next]_vars PROVE [Mail!Next]_<<Posted, taken>> OBVIOUS
<1> USE DEF agent, wake, world, vars, Posted
<1>1. ASSUME NEW i \in Delegs, Posts(i) PROVE Mail!Put(i)
  BY <1>1 DEF Posts, Mail!Put, IndInv, LifeInv, TypeOK
<1>2. ASSUME NEW a \in Actors, Commits(a) PROVE Mail!Next
  <2>1. PICK batch \in (SUBSET seen[a]) \ {{}} :
          /\ res' = [i \in Delegs |-> IF i \in batch THEN "taken" ELSE res[i]]
          /\ taken' = [i \in Delegs |-> IF i \in batch /\ taken[i] < 2 THEN taken[i] + 1 ELSE taken[i]]
    BY <1>2 DEF Commits
  <2>2. batch \subseteq Posted BY <1>2 DEF Commits, IndInv, SeenInv
  <2>3. \A i \in batch : taken[i] = 0 BY <2>2 DEF IndInv, LifeInv
  <2>4. taken' = [i \in Delegs |-> IF i \in batch THEN taken[i] + 1 ELSE taken[i]]
    BY <2>1, <2>2, <2>3
  <2>5. Posted' = Posted \ batch BY <2>1, <2>2 DEF IndInv, TypeOK
  <2>6. Mail!Take(batch) BY <2>1, <2>2, <2>4, <2>5 DEF Mail!Take
  <2> QED BY <2>2, <2>6 DEF Mail!Next
<1>3. ASSUME NEW i \in Delegs, Delegation(i) \/ Agent(i), ~Posts(i) PROVE UNCHANGED <<Posted, taken>>
  BY <1>3 DEF Delegation, Agent, Delegates, Acquires, Creates, CreateFails, Saved, SaveFails, Returns,
     Starts, Runs, PostLocks, Wakes, StopsChild
<1>4. ASSUME NEW a \in Actors, Pending(a), ~Commits(a) PROVE UNCHANGED <<Posted, taken>>
  BY <1>4 DEF Pending, FindsIdle, Locks, Reads, Answers
<1>5. ASSUME NEW k \in Replies, Sends(k) \/ Reply(k) \/ StopsReply(k) \/ StopsTail(k)
      PROVE UNCHANGED <<Posted, taken>>
  BY <1>5 DEF Sends, Reply, Ends, Tails, Callback, StopsReply, StopsTail
<1>6. CASE ClearsStale \/ Deletes \/ Shutdown \/ Restart \/ UNCHANGED vars
  BY <1>6 DEF ClearsStale, Deletes, Shutdown, Restart
<1> QED BY <1>1, <1>2, <1>3, <1>4, <1>5, <1>6 DEF Next, Mail!Next

\* Subagents implements Mailbox: a result is posted once and given to one
\* reply, whoever looks for it and whatever fails.
THEOREM ImplementsMailbox == Spec => Delivers
<1>1. Init => Mail!Init BY DEF Init, Mail!Init, Posted
<1> QED BY <1>1, MailStep, Invariance, PTL DEF Spec, Delivers, Mail!Spec

-----------------------------------------------------------------------------
\* Where the histories of lost and doubly returned slots come from.
SlotInv ==
  /\ \A i \in leaked : /\ call[i] \notin {"none", "reserve", "create"}
                       /\ child[i] \notin {"ready", "run"}
  /\ \A i \in extra : call[i] = "done"
  /\ \A i \in Delegs : call[i] \in {"reserve", "wait"} => i \notin Background

SlotsInd == IndInv /\ SlotInv /\ SlotsBalance

\* The size of the union of two sets that share nothing.
LEMMA DisjointUnion ==
  ASSUME NEW S, NEW T, IsFiniteSet(S), IsFiniteSet(T), S \cap T = {}
  PROVE  /\ IsFiniteSet(S \cup T) /\ Cardinality(S) \in Nat /\ Cardinality(T) \in Nat
         /\ Cardinality(S \cup T) = Cardinality(S) + Cardinality(T)
<1>1. Cardinality(S) \in Nat /\ Cardinality(T) \in Nat BY FS_CardinalityType
<1>2. Cardinality(S \cap T) = 0 BY FS_EmptySet
<1>3. /\ IsFiniteSet(S \cup T)
      /\ Cardinality(S \cup T) = Cardinality(S) + Cardinality(T) - Cardinality(S \cap T)
  BY FS_Union
<1> QED BY <1>1, <1>2, <1>3

\* Of the foreground delegations at work some give their permit back and
\* others lose it: the sum stays.
LEMMA PermitsMove ==
  ASSUME NEW H, NEW L, NEW R, NEW O, NEW e \in Int, NEW p \in Int,
         IsFiniteSet(H), IsFiniteSet(L), R \subseteq H, O \subseteq H,
         R \cap O = {}, L \cap H = {}, p + Cardinality(H) + Cardinality(L) = e
  PROVE  p + Cardinality(R) + Cardinality(H \ (R \cup O)) + Cardinality(L \cup O) = e
<1> DEFINE K == H \ (R \cup O)
<1>1. IsFiniteSet(R) /\ IsFiniteSet(O) /\ IsFiniteSet(K) BY FS_Subset
<1>2. IsFiniteSet(R \cup O) /\ Cardinality(R \cup O) = Cardinality(R) + Cardinality(O)
  BY <1>1, DisjointUnion
<1>3. Cardinality(H) = Cardinality(K) + Cardinality(R \cup O)
  <2>1. H = K \cup (R \cup O) /\ K \cap (R \cup O) = {} OBVIOUS
  <2> QED BY <1>1, <1>2, <2>1, DisjointUnion
<1>4. Cardinality(L \cup O) = Cardinality(L) + Cardinality(O)
  <2>1. L \cap O = {} OBVIOUS
  <2> QED BY <1>1, <2>1, DisjointUnion
<1> HIDE DEF K
<1>5. p + Cardinality(R) + Cardinality(K) + Cardinality(L \cup O) = e
  <2>1. /\ Cardinality(R) \in Nat /\ Cardinality(O) \in Nat /\ Cardinality(K) \in Nat
        /\ Cardinality(L) \in Nat
    BY <1>1, FS_CardinalityType
  <2> QED BY <1>2, <1>3, <1>4, <2>1
<1> QED BY <1>5 DEF K

\* The sets that count permits are finite, and what was lost is not at work.
LEMMA SlotFacts ==
  ASSUME SlotsInd
  PROVE  /\ IsFiniteSet(Held \ Background) /\ Cardinality(Held \ Background) \in Nat
         /\ IsFiniteSet(leaked \ Background) /\ Cardinality(leaked \ Background) \in Nat
         /\ IsFiniteSet(extra \ Background) /\ Cardinality(extra \ Background) \in Nat
         /\ Held \cap leaked = {}
<1>1. /\ Held \ Background \in SUBSET Delegs /\ leaked \ Background \in SUBSET Delegs
      /\ extra \ Background \in SUBSET Delegs
  BY DEF SlotsInd, IndInv, TypeOK, Held
<1>2. Held \cap leaked = {} BY DEF SlotsInd, SlotInv, Held
<1> QED BY <1>1, <1>2, FS_Subset, FS_CardinalityType, SubagentsAssumption
\* A step that moves no delegation into or out of work keeps the balance.
LEMMA SlotsStay ==
  ASSUME SlotsInd, Held' = Held, UNCHANGED <<slots, permits, leaked, extra>>
  PROVE  SlotsBalance'
BY DEF SlotsInd, SlotsBalance

\* One delegation leaves its work and releases its slot.
LEMMA SlotsReleased ==
  ASSUME SlotsInd, NEW i \in Held, Release(i), Held' = Held \ {i}, UNCHANGED <<leaked, extra>>
  PROVE  SlotsBalance'
<1>1. CASE i \in Background
  <2>1. Held' \ Background = Held \ Background BY <1>1
  <2> QED BY <1>1, <2>1 DEF SlotsBalance, SlotsInd, Release
<1>2. CASE i \notin Background
  <2>1. Held' \ Background = (Held \ Background) \ {i} /\ i \in Held \ Background BY <1>2
  <2>2. Cardinality(Held' \ Background) = Cardinality(Held \ Background) - 1
    BY <2>1, FS_RemoveElement, SlotFacts
  <2> QED BY <1>2, <2>2, SlotFacts, SubagentsAssumption
          DEF SlotsBalance, SlotsInd, IndInv, TypeOK, Release
<1> QED BY <1>1, <1>2

\* Several leave their work: R release their permits, O lose their slots.
LEMMA SlotsCut ==
  ASSUME SlotsInd, NEW R \in SUBSET (Held \ Background), NEW O \in SUBSET Held, R \cap O = {},
         Held' = Held \ (R \cup O), leaked' = leaked \cup O,
         permits' = permits + Cardinality(R), UNCHANGED <<slots, extra>>
  PROVE  SlotsBalance'
<1> USE SubagentsAssumption
<1> DEFINE H == Held \ Background   L == leaked \ Background   P == O \ Background
           e == MaxConcurrent + Cardinality(extra \ Background)
<1>1. /\ Held' \ Background = H \ (R \cup P) /\ leaked' \ Background = L \cup P
      /\ R \subseteq H /\ P \subseteq H /\ R \cap P = {}
  OBVIOUS
<1>2. /\ IsFiniteSet(H) /\ IsFiniteSet(L) /\ L \cap H = {} /\ e \in Int /\ permits \in Int
      /\ permits + Cardinality(H) + Cardinality(L) = e
  BY SlotFacts DEF SlotsInd, IndInv, TypeOK, SlotsBalance
<1>3. permits + Cardinality(R) + Cardinality(H \ (R \cup P)) + Cardinality(L \cup P) = e
  <2> HIDE DEF H, L, P, e
  <2> QED BY <1>1, <1>2, PermitsMove
<1>4. permits' + Cardinality(Held' \ Background) + Cardinality(leaked' \ Background) = e
  BY <1>1, <1>3
<1>5. /\ (Held' \cap Background) \ extra' \subseteq slots' /\ slots' \subseteq Held' \cup leaked'
  BY DEF SlotsInd, SlotsBalance, IndInv, TypeOK
<1> QED BY <1>4, <1>5 DEF SlotsBalance

\* Every step keeps the slots balanced.
LEMMA SlotsStep == SlotsInd /\ [Next]_vars => SlotsInd'
<1> SUFFICES ASSUME SlotsInd, [Next]_vars PROVE SlotsInd' OBVIOUS
<1>0. IndInv' BY Step DEF SlotsInd
<1> USE SubagentsAssumption DEF agent, wake, world, vars
<1>1. ASSUME NEW i \in Delegs, Delegation(i) \/ Agent(i) PROVE SlotInv' /\ SlotsBalance'
  <2> USE DEF SlotInv, SlotsInd, IndInv, TypeOK, LifeInv, Held, Ended
  <2>1. CASE Delegates(i)
    <3>1. SlotInv' BY <2>1 DEF Delegates
    <3>2. CASE i \in Background /\ Cardinality(slots) < MaxAsync
      <4>0. /\ call' = [call EXCEPT ![i] = "create"] /\ slots' = slots \cup {i}
            /\ UNCHANGED <<child, permits, leaked, extra>>
        <5>1. slots \in SUBSET Delegs OBVIOUS
        <5>2. Cardinality(slots) \in Nat BY <5>1, FS_Subset, FS_CardinalityType
        <5> QED BY <2>1, <3>2, <5>2 DEF Delegates
      <4>1. Held' = Held \cup {i} BY <4>0
      <4>2. Held' \ Background = Held \ Background BY <3>2, <4>1
      <4> HIDE DEF Held
      <4> QED BY <3>1, <3>2, <4>0, <4>1, <4>2 DEF SlotsBalance
    <3>3. CASE ~(i \in Background /\ Cardinality(slots) < MaxAsync)
      <4>1. Held' = Held /\ UNCHANGED slots BY <2>1, <3>3 DEF Delegates
      <4> QED BY <2>1, <3>1, <4>1, SlotsStay DEF Delegates
    <3> QED BY <3>2, <3>3
  <2>2. CASE Acquires(i)
    <3>1. SlotInv' BY <2>2 DEF Acquires
    <3>2. Held' = Held \cup {i} /\ i \notin Held BY <2>2 DEF Acquires
    <3>3. i \notin Background BY <2>2 DEF Acquires
    <3>4. Held' \ Background = (Held \ Background) \cup {i} /\ i \notin Held \ Background BY <3>2, <3>3
    <3> HIDE DEF Held
    <3>5. Cardinality(Held' \ Background) = Cardinality(Held \ Background) + 1
      BY <3>4, SlotFacts, FS_AddElement
    <3> QED BY <2>2, <3>1, <3>2, <3>3, <3>5, SlotFacts DEF Acquires, SlotsBalance
  <2>3. CASE Creates(i)
    <3>1. Held' = Held BY <2>3 DEF Creates
    <3>2. SlotInv' BY <2>3 DEF Creates
    <3> QED BY <2>3, <3>1, <3>2, SlotsStay DEF Creates
  <2>4. CASE CreateFails(i)
    <3>1. i \in Held /\ Held' = Held \ {i} BY <2>4 DEF CreateFails
    <3>2. SlotInv' BY <2>4 DEF CreateFails
    <3> QED BY <2>4, <3>1, <3>2, SlotsReleased DEF CreateFails
  <2>5. CASE Saved(i) \/ Returns(i)
    <3>1. Held' = Held BY <2>5 DEF Saved, Returns
    <3>2. SlotInv' BY <2>5 DEF Saved, Returns
    <3> QED BY <2>5, <3>1, <3>2, SlotsStay DEF Saved, Returns
  <2>6. CASE SaveFails(i)
    <3>1. Held' = Held /\ i \notin extra BY <2>6 DEF SaveFails
    <3>2. SlotInv' BY <2>6 DEF SaveFails
    <3>3. CASE i \in Background
      <4>1. extra' \ Background = extra \ Background BY <2>6, <3>3 DEF SaveFails
      <4>2. /\ slots' = slots \ {i} /\ extra' = extra \cup {i} /\ UNCHANGED <<permits, leaked>>
        BY <2>6, <3>3 DEF SaveFails, Release
      <4> HIDE DEF Held
      <4> QED BY <3>1, <3>2, <3>3, <4>1, <4>2 DEF SlotsBalance
    <3>4. CASE i \notin Background
      <4>1. extra' \ Background = (extra \ Background) \cup {i} BY <2>6, <3>4 DEF SaveFails
      <4>2. Cardinality(extra' \ Background) = Cardinality(extra \ Background) + 1
        BY <3>1, <4>1, SlotFacts, FS_AddElement
      <4> HIDE DEF Held
      <4> QED BY <2>6, <3>1, <3>2, <3>4, <4>2, SlotFacts DEF SaveFails, Release, SlotsBalance
    <3> QED BY <3>3, <3>4
  <2>7. CASE Starts(i) \/ PostLocks(i) \/ Posts(i) \/ Wakes(i)
    <3>1. Held' = Held BY <2>7 DEF Starts, PostLocks, Posts, Wakes
    <3>2. SlotInv' BY <2>7 DEF Starts, PostLocks, Posts, Wakes
    <3> QED BY <2>7, <3>1, <3>2, SlotsStay DEF Starts, PostLocks, Posts, Wakes
  <2>8. ASSUME child[i] = "run", AfterRun(i), UNCHANGED <<call, leaked, extra>>
        PROVE SlotInv' /\ SlotsBalance'
    <3>1. i \in Held /\ Held' = Held \ {i} BY <2>8 DEF AfterRun
    <3>2. SlotInv' BY <2>8 DEF AfterRun
    <3> QED BY <2>8, <3>1, <3>2, SlotsReleased DEF AfterRun
  <2>9. CASE StopsChild(i) /\ child[i] = "ready"
    <3>1. i \in Held /\ Held' = Held \ {i} BY <2>9 DEF StopsChild
    <3>2. SlotInv' BY <2>9 DEF StopsChild
    <3>3. permits' = permits + Cardinality({}) BY <2>9, FS_EmptySet DEF StopsChild
    <3>4. leaked' = leaked \cup {i} /\ UNCHANGED <<slots, extra>> BY <2>9 DEF StopsChild
    <3> HIDE DEF Held, SlotsInd
    <3>5. /\ {} \in SUBSET (Held \ Background) /\ {i} \in SUBSET Held /\ {} \cap {i} = {}
          /\ Held' = Held \ ({} \cup {i})
      BY <3>1
    <3>6. SlotsBalance' BY <3>3, <3>4, <3>5, SlotsCut
    <3> QED BY <3>2, <3>6
  <2>10. CASE StopsChild(i) /\ child[i] \in {"post", "commit", "posted", "wake"}
    <3>1. Held' = Held BY <2>10 DEF StopsChild, Leaves
    <3>2. SlotInv' BY <2>10 DEF StopsChild, Leaves
    <3> QED BY <2>10, <3>1, <3>2, SlotsStay DEF StopsChild, Leaves
  <2> QED
    BY <1>1, <2>1, <2>2, <2>3, <2>4, <2>5, <2>6, <2>7, <2>8, <2>9, <2>10
    DEF Delegation, Agent, Runs, StopsChild
<1>2. ASSUME NEW a \in Actors, Pending(a) PROVE SlotInv' /\ SlotsBalance'
  <2>1. Held' = Held /\ UNCHANGED <<slots, permits, leaked, extra>>
    BY <1>2 DEF Pending, FindsIdle, Locks, Reads, Commits, Answers, Leaves, Held, SlotsInd, IndInv, TypeOK,
       LockInv, Actors
  <2>2. SlotInv'
    BY <1>2 DEF Pending, FindsIdle, Locks, Reads, Commits, Answers, Leaves, SlotInv, SlotsInd, IndInv, TypeOK,
       Actors
  <2> QED BY <2>1, <2>2, SlotsStay
<1>3. ASSUME NEW k \in Replies, Sends(k) \/ Reply(k) \/ StopsTail(k) PROVE SlotInv' /\ SlotsBalance'
  BY <1>3, SlotsStay DEF Sends, Reply, Ends, Tails, Callback, StopsTail, SlotInv, SlotsInd, Held
<1>4. ASSUME NEW k \in Replies, StopsReply(k) PROVE SlotInv' /\ SlotsBalance'
  <2> USE DEF SlotInv, SlotsInd, IndInv, TypeOK, LifeInv, CallsOf
  <2> DEFINE R == {i \in CallsOf(k, {"wait"}) : child[i] = "run"}
             U == {i \in CallsOf(k, {"wait"}) : child[i] = "ready"}
             O == CallsOf(k, {"create"}) \cup U
  <2>1. /\ child' = [i \in Delegs |-> IF i \in U \cup R THEN "end" ELSE child[i]]
        /\ leaked' = leaked \cup O /\ permits' = permits + Cardinality(R)
        /\ call' = [i \in Delegs |-> IF owner[i] = k THEN "done" ELSE call[i]]
        /\ UNCHANGED <<slots, extra>>
    BY <1>4 DEF StopsReply
  <2>2. SlotInv' BY <2>1
  <2>3. /\ R \subseteq Held \ Background /\ O \subseteq Held /\ R \cap O = {}
    BY DEF Held
  <2>4. Held' = Held \ (R \cup O) BY <2>1 DEF Held
  <2> HIDE DEF R, O
  <2> QED BY <2>1, <2>2, <2>3, <2>4, SlotsCut
<1>5. CASE Restart
  <2>1. SlotInv' BY <1>5 DEF Restart, SlotInv
  <2>2. Held' = {} BY <1>5 DEF Restart, Held
  <2>3. /\ Held' \ Background = {} /\ leaked' \ Background = {} /\ extra' \ Background = {}
    BY <1>5, <2>2 DEF Restart
  <2> QED BY <1>0, <1>5, <2>1, <2>2, <2>3, FS_EmptySet DEF Restart, SlotsBalance, SlotsInd
<1>6. CASE ClearsStale \/ Deletes \/ Shutdown \/ UNCHANGED vars
  BY <1>0, <1>6, SlotsStay DEF ClearsStale, Deletes, Shutdown, SlotInv, SlotsInd, Held
<1> QED BY <1>0, <1>1, <1>2, <1>3, <1>4, <1>5, <1>6 DEF Next, SlotsInd

\* The slots of sub-agents stay balanced, but for the delegations that a stop
\* hit in create_chat or before their first step, and those whose save failed.
THEOREM SlotsBalanced == Spec => []SlotsBalance
<1>1. Init => SlotsInd
  <2> SUFFICES ASSUME Init PROVE SlotInv /\ SlotsBalance BY InitInv DEF SlotsInd
  <2>1. SlotInv BY DEF Init, SlotInv
  <2>2. Held = {} BY DEF Init, Held
  <2>3. /\ Held \ Background = {} /\ leaked \ Background = {} /\ extra \ Background = {}
    BY <2>2 DEF Init
  <2> QED BY <2>1, <2>2, <2>3, FS_EmptySet, SubagentsAssumption DEF Init, SlotsBalance
<1>2. SlotsInd => SlotsBalance BY DEF SlotsInd
<1> QED BY <1>1, <1>2, SlotsStep, PTL DEF Spec
=============================================================================
