----------------------------- MODULE TuneProofs -----------------------------
(***************************************************************************)
(* The properties of a tune sweep for any number of candidates, rounds and *)
(* faults.  What the task may assume of the rows it finds is PlaceInv; the *)
(* attempts above those of the round are AttInv, the survivors with a row  *)
(* AliveVisited and ElimHasRow, the rows a stop leaves StopInv.            *)
(***************************************************************************)
EXTENDS Tune, SequenceTheorems, WellFoundedInduction, TLAPS

\* The task is in a round; or between two, with the next one open or not.
AtRound == pc \in {"round", "retry", "visit", "bad", "score", "elim", "cut", "close"}
           \/ (pc = "cool" /\ cool # "resume")
Between == pc \in {"register", "reject", "next", "guard", "refine"} \/ (pc = "cool" /\ cool = "resume")
Visiting == pc \in {"round", "retry", "visit", "bad"} \/ (pc = "cool" /\ cool = "cliff")

\* Explore rounds come first and have the schedule's slices.
RowsInv ==
  /\ \A i \in 1..Len(rounds) : rounds[i].stage = "explore" => i <= R /\ rounds[i].to = SliceStart[i]
  /\ \A i, j \in 1..Len(rounds) : i < j /\ rounds[j].stage = "explore" => rounds[i].stage = "explore"

\* Where the task is among the rows.
PlaceInv ==
  /\ AtRound => rnd = Len(rounds) /\ rnd > 0
  /\ Between => \/ rnd = Len(rounds) /\ (rnd > 0 => ~rounds[rnd].open)
                \/ rnd + 1 = Len(rounds) /\ rounds[rnd + 1].open
  /\ (AtRound \/ Between) /\ stage = "explore" /\ Len(rounds) > 0 => rounds[Len(rounds)].stage = "explore"
  /\ Between /\ stage = "refine" /\ rnd = Len(rounds) => rnd > 0 /\ cursor = rounds[rnd].to
  /\ pc = "refine" => stage = "explore" /\ rnd >= R
  /\ sweep.verdict = "absent" => rounds = <<>> /\ pc = "idle" /\ rnd = 0 /\ stage = "explore"

\* The attempts are bounded, and next is above those of the round.
AttInv ==
  /\ \E n \in Nat : \A v \in visits : v.att <= n
  /\ Visiting => \A v \in visits : v.rnd = rnd => v.att < next[v.cand]

\* What is about to be eliminated has its evidence.
CutInv == pc = "cut" => \A c \in cut : c # Base /\ Counted(c, rnd) /\ Counted(Base, rnd)

\* Whoever is still to be visited in the round, or to be tried again, has no
\* outcome in it, and the visit under way is the latest of its candidate.
MeasuredInv ==
  /\ MeasuredOnce
  /\ Visiting => \A c \in todo : ~Handled(c, rnd)
  /\ pc \in {"visit", "retry"} \/ (pc = "cool" /\ cool = "cliff")
       => now.cand \notin todo /\ ~Handled(now.cand, rnd)
  /\ pc = "visit" => next[now.cand] = now.att + 1

\* The survivors of a round that are not still to be visited have a row.
AliveVisited ==
  /\ Visiting /\ ~Unusable => \A c \in alive \ {Base} : c \in todo \/ Of(c, rnd) # {}
  /\ pc = "score" /\ ~Unusable => \A c \in alive \ {Base} : Of(c, rnd) # {}
  /\ pc \in {"elim", "cut", "close"} \/ (pc = "cool" /\ cool = "drift")
       => \A c \in alive \ {Base} : Of(c, rnd) # {}

\* Who was eliminated in the open round has a row in it.
ElimHasRow ==
  \A c \in Cands : /\ elim[c] <= Len(rounds)
                   /\ Len(rounds) > 0 /\ rounds[Len(rounds)].open /\ elim[c] = Len(rounds)
                        => Of(c, Len(rounds)) # {}

\* The rows that are open are those of the step under way.
StopInv ==
  ~lost =>
    /\ pc = "visit" => Running \subseteq Mine
    /\ pc # "visit" /\ ~(pc = "finish" /\ reason = "interrupted") => Running = {}
    /\ pause = "open" => pc = "cool" \/ (pc = "finish" /\ reason = "interrupted")

Rows == [stage : {"explore", "refine"}, from : Nat, to : Nat, open : BOOLEAN, base : BOOLEAN]
VisitRows == [cand : Cands, rnd : Nat, att : Nat, st : VisitSt]

-----------------------------------------------------------------------------
(* Lemmas about the operators *)

\* A set of naturals has a least member.
LEMMA LeastNat ==
  ASSUME NEW T, T \subseteq Nat, T # {}
  PROVE  \E x \in T : \A y \in T : x <= y
<1>1. \E less : IsWellFoundedOn(less, Nat) /\ \A x, y \in Nat : x < y => <<x, y>> \in less
  <2>1. \A x, y \in Nat : x < y => <<x, y>> \in OpToRel(<, Nat) BY DEF OpToRel
  <2> QED BY <2>1, NatLessThanWellFounded
<1>2. PICK less : IsWellFoundedOn(less, Nat) /\ \A x, y \in Nat : x < y => <<x, y>> \in less
  BY <1>1
<1>3. IsWellFoundedOn(less, Nat) BY <1>2
<1>4. PICK x \in T : \A y \in T : ~(<<y, x>> \in less)
  <2> HIDE <1>2
  <2> QED BY <1>3, WFMin, Zenon
<1>5. \A y \in T : ~(y < x) BY <1>2, <1>4, Zenon
<1>6. \A y \in T : x \in Nat /\ y \in Nat BY <1>4
<1> QED BY <1>5, <1>6

\* next_attempt is above every attempt of the candidate in the round.
LEMMA NextAttemptAbove ==
  ASSUME NEW c \in Cands, NEW r \in Nat, visits \subseteq VisitRows,
         NEW n \in Nat, \A v \in visits : v.att <= n
  PROVE  /\ NextAttempt(c, r) \in Nat
         /\ \A v \in visits : v.cand = c /\ v.rnd = r => v.att < NextAttempt(c, r)
<1> DEFINE atts == {v.att : v \in Of(c, r)}
<1>1. atts \subseteq Nat /\ \A a \in atts : a <= n BY DEF Of, VisitRows
<1>2. \A v \in visits : v.cand = c /\ v.rnd = r => v.att \in atts BY DEF Of
<1>3. CASE atts = {} BY <1>2, <1>3 DEF NextAttempt
<1>4. CASE atts # {}
  <2> DEFINE T == {m \in Nat : \A a \in atts : a <= m}
  <2>1. PICK m \in T : \A y \in T : m <= y
    <3>1. n \in T BY <1>1
    <3> HIDE DEF T
    <3>2. T \subseteq Nat BY DEF T
    <3> QED BY <3>1, <3>2, LeastNat
  <2>2. m \in atts
    <3> SUFFICES ASSUME m \notin atts PROVE FALSE OBVIOUS
    <3>1. \A a \in atts : a < m BY <1>1, <2>1
    <3>2. m # 0
      <4>1. PICK a \in atts : TRUE BY <1>4
      <4>2. a \in Nat /\ a < m
        <5> HIDE DEF atts
        <5> QED BY <1>1, <3>1
      <4> HIDE DEF atts, T
      <4> QED BY <4>2
    <3>3. m \in Nat /\ m - 1 \in Nat BY <3>2
    <3>4. \A a \in atts : a <= m - 1
      <4> SUFFICES ASSUME NEW a \in atts PROVE a <= m - 1 OBVIOUS
      <4>1. a \in Nat BY <1>1
      <4>2. a < m BY <3>1
      <4> HIDE DEF atts, T
      <4> QED BY <3>3, <4>1, <4>2
    <3>5. m - 1 \in T BY <3>3, <3>4
    <3> QED BY <2>1, <3>3, <3>5
  <2>3. \E a \in atts : \A b \in atts : b <= a BY <2>1, <2>2
  <2> DEFINE top == CHOOSE a \in atts : \A b \in atts : b <= a
  <2>4. top \in atts /\ \A b \in atts : b <= top BY <2>3
  <2>5. NextAttempt(c, r) = 1 + top BY <1>4 DEF NextAttempt
  <2> HIDE DEF top, atts, T
  <2>6. top \in Nat BY <1>1, <2>4
  <2>7. \A a \in atts : a < 1 + top BY <1>1, <2>4, <2>6
  <2> QED BY <1>2, <2>5, <2>6, <2>7
<1> QED BY <1>3, <1>4

\* close_visit keeps every row's key, and the other rows.
LEMMA ClosedKeeps ==
  ASSUME NEW vs \in SUBSET visits, NEW s \in VisitSt, visits \subseteq VisitRows
  PROVE  /\ Closed(vs, s) \subseteq VisitRows
         /\ \A v \in Closed(vs, s) : \E u \in visits : v.cand = u.cand /\ v.rnd = u.rnd /\ v.att = u.att
         /\ \A u \in visits : \E v \in Closed(vs, s) : v.cand = u.cand /\ v.rnd = u.rnd /\ v.att = u.att
         /\ \A v \in Closed(vs, s) : v \in visits \ vs \/ v.st = s
<1>1. \A u \in vs : /\ [u EXCEPT !.st = s] \in VisitRows /\ [u EXCEPT !.st = s].st = s
                    /\ [u EXCEPT !.st = s].cand = u.cand /\ [u EXCEPT !.st = s].rnd = u.rnd
                    /\ [u EXCEPT !.st = s].att = u.att
  BY DEF VisitRows
<1>2. \A v \in Closed(vs, s) : v \in visits \ vs \/ \E u \in vs : v = [u EXCEPT !.st = s] BY DEF Closed
<1>3. \A u \in visits : u \in Closed(vs, s) \/ (u \in vs /\ [u EXCEPT !.st = s] \in Closed(vs, s))
  BY DEF Closed
<1>4. \A u \in visits : \E v \in Closed(vs, s) : v.cand = u.cand /\ v.rnd = u.rnd /\ v.att = u.att
  BY <1>1, <1>3
<1>5. Closed(vs, s) \subseteq VisitRows BY <1>1, <1>2
<1>6. \A v \in Closed(vs, s) : v \in visits \ vs \/ v.st = s BY <1>1, <1>2
<1>7. \A v \in Closed(vs, s) : \E u \in visits : v.cand = u.cand /\ v.rnd = u.rnd /\ v.att = u.att
  <2> TAKE v \in Closed(vs, s)
  <2>1. CASE v \in visits \ vs BY <2>1
  <2>2. CASE \E u \in vs : v = [u EXCEPT !.st = s] BY <1>1, <2>2
  <2> QED BY <1>2, <2>1, <2>2
<1> QED BY <1>4, <1>5, <1>6, <1>7
-----------------------------------------------------------------------------
(* Types *)

RowsOK == TypeOK /\ SlicesTile /\ RowsInv /\ PlaceInv /\ AttInv

\* The row a round is opened with.
LEMMA NewRowTyped ==
  ASSUME RowsOK, pc = "next", More, rnd = Len(rounds)
  PROVE  /\ NewRow(rnd + 1) \in Rows
         /\ NewRow(rnd + 1).stage = stage /\ NewRow(rnd + 1).open = TRUE
         /\ NewRow(rnd + 1).from = IF rnd = 0 THEN 0 ELSE rounds[rnd].to
         /\ NewRow(rnd + 1).from < NewRow(rnd + 1).to /\ NewRow(rnd + 1).to <= Tier
         /\ stage = "explore" => rnd + 1 <= R /\ NewRow(rnd + 1).to = SliceStart[rnd + 1]
<1>0. /\ rnd \in Nat /\ cursor \in Nat /\ stage \in {"explore", "refine"} /\ Len(rounds) \in Nat
      /\ R \in Nat \ {0} /\ Tier \in Nat /\ RoundItems \in Nat \ {0}
  BY TuneAssumption DEF RowsOK, TypeOK
<1>1. CASE stage = "explore"
  <2>1. rnd + 1 \in 1..R /\ rnd \in 0..R /\ (rnd + 1) - 1 = rnd BY <1>0, <1>1 DEF More
  <2>2. /\ SliceStart[rnd] \in Nat /\ SliceStart[rnd + 1] \in Nat /\ SliceStart[rnd + 1] <= Tier
        /\ SliceStart[rnd] < SliceStart[rnd + 1]
    BY <1>0, <2>1, TuneAssumption
  <2>3. Slice(rnd + 1)[1] = SliceStart[rnd] /\ Slice(rnd + 1)[2] = SliceStart[rnd + 1]
    BY <1>1, <2>1 DEF Slice
  <2>4. SliceStart[rnd] = IF rnd = 0 THEN 0 ELSE rounds[rnd].to
    <3>1. CASE rnd = 0 BY <3>1, TuneAssumption
    <3>2. CASE rnd # 0
      <4>1. rnd \in 1..Len(rounds) BY <1>0, <3>2
      <4>2. rounds[rnd].stage = "explore" BY <1>1, <4>1 DEF RowsOK, PlaceInv, Between
      <4> QED BY <3>2, <4>1, <4>2 DEF RowsOK, RowsInv
    <3> QED BY <3>1, <3>2
  <2>5. NewRow(rnd + 1) = [stage |-> stage, from |-> SliceStart[rnd], to |-> SliceStart[rnd + 1],
                           open |-> TRUE, base |-> FALSE]
    BY <2>3, Zenon DEF NewRow
  <2>6. rnd + 1 <= R BY <1>0, <2>1
  <2> HIDE DEF R
  <2>7. [stage |-> stage, from |-> SliceStart[rnd], to |-> SliceStart[rnd + 1], open |-> TRUE, base |-> FALSE]
          \in Rows
    BY <1>0, <2>2 DEF Rows
  <2> QED BY <1>1, <2>2, <2>4, <2>5, <2>6, <2>7
<1>2. CASE stage = "refine"
  <2>1. rnd > 0 /\ cursor = rounds[rnd].to BY <1>2 DEF RowsOK, PlaceInv, Between
  <2>2. cursor + RoundItems <= Tier /\ cursor + RoundItems \in Nat /\ cursor < cursor + RoundItems
    BY <1>0, <1>2 DEF More
  <2>3. Slice(rnd + 1)[1] = cursor /\ Slice(rnd + 1)[2] = cursor + RoundItems BY <1>2 DEF Slice
  <2>4. NewRow(rnd + 1) = [stage |-> stage, from |-> cursor, to |-> cursor + RoundItems,
                           open |-> TRUE, base |-> FALSE]
    BY <2>3, Zenon DEF NewRow
  <2>5. [stage |-> stage, from |-> cursor, to |-> cursor + RoundItems, open |-> TRUE, base |-> FALSE] \in Rows
    BY <1>0, <2>2 DEF Rows
  <2>6. rnd # 0 BY <1>0, <2>1
  <2> QED BY <1>2, <2>1, <2>2, <2>4, <2>5, <2>6
<1> QED BY <1>0, <1>1, <1>2

\* What a step does to the round rows: nothing, a new row, or a change of the
\* last row's open and base.
LEMMA RowsMove ==
  ASSUME RowsOK, [Next]_vars
  PROVE  \/ UNCHANGED rounds
         \/ /\ pc = "next" /\ More /\ rnd = Len(rounds)
            /\ \E e \in Rows : /\ rounds' = Append(rounds, e) /\ e.stage = stage
                              /\ e.from = NewRow(rnd + 1).from /\ e.to = NewRow(rnd + 1).to
         \/ /\ Len(rounds) > 0
            /\ \E e \in Rows : /\ rounds' = [rounds EXCEPT ![Len(rounds)] = e] /\ ~e.open
                              /\ e.stage = rounds[Len(rounds)].stage
                              /\ e.from = rounds[Len(rounds)].from /\ e.to = rounds[Len(rounds)].to
<1> USE DEF RowsOK, TypeOK, PlaceInv, Between, AtRound
<1>0. rounds \in Seq(Rows) /\ Len(rounds) \in Nat BY DEF Rows
<1>1. CASE OpenRound
  <2>1. rnd' = rnd + 1 /\ (rnd = Len(rounds) \/ rnd + 1 = Len(rounds)) BY <1>1 DEF OpenRound
  <2>2. CASE rnd = Len(rounds)
    <3>1. rounds' = Append(rounds, NewRow(rnd + 1)) BY <1>0, <1>1, <2>1, <2>2 DEF OpenRound
    <3>2. NewRow(rnd + 1) \in Rows /\ NewRow(rnd + 1).stage = stage BY <1>1, <2>2, NewRowTyped DEF OpenRound
    <3> QED BY <1>1, <2>2, <3>1, <3>2 DEF OpenRound
  <2>3. CASE rnd + 1 = Len(rounds) BY <1>0, <1>1, <2>1, <2>3 DEF OpenRound
  <2> QED BY <2>1, <2>2, <2>3
<1>2. CASE EndForBaseline
  <2> DEFINE r == IF pc = "next" THEN rnd + 1 ELSE rnd
  <2>0. rounds' = IF r > Len(rounds) THEN Append(rounds, [NewRow(r) EXCEPT !.open = FALSE])
                                     ELSE [rounds EXCEPT ![r].open = FALSE]
    BY <1>2 DEF EndForBaseline
  <2>1. CASE pc = "next" /\ rnd = Len(rounds)
    <3>1. More /\ r = rnd + 1 /\ r > Len(rounds) BY <1>0, <1>2, <2>1 DEF EndForBaseline
    <3>2. NewRow(rnd + 1) \in Rows /\ NewRow(rnd + 1).stage = stage BY <2>1, <3>1, NewRowTyped
    <3> DEFINE e == [NewRow(rnd + 1) EXCEPT !.open = FALSE]
    <3>3. rounds' = Append(rounds, e) BY <2>0, <3>1
    <3>4. e \in Rows /\ e.stage = stage /\ e.from = NewRow(rnd + 1).from /\ e.to = NewRow(rnd + 1).to
      BY <3>2 DEF Rows
    <3> QED BY <2>1, <3>1, <3>3, <3>4
  <2>2. CASE ~(pc = "next" /\ rnd = Len(rounds))
    <3>1. r = Len(rounds) /\ Len(rounds) > 0 BY <1>0, <1>2, <2>2, SMTT(60) DEF EndForBaseline
    <3> DEFINE e == [rounds[Len(rounds)] EXCEPT !.open = FALSE]
    <3>2. rounds' = [rounds EXCEPT ![Len(rounds)] = e]
      <4>1. ~(r > Len(rounds)) BY <1>0, <3>1
      <4> HIDE DEF r
      <4>2. rounds' = [rounds EXCEPT ![r].open = FALSE] BY <2>0, <4>1
      <4> QED BY <3>1, <4>2
    <3>3. rounds[Len(rounds)] \in Rows BY <1>0, <3>1
    <3>4. /\ e \in Rows /\ ~e.open /\ e.stage = rounds[Len(rounds)].stage
          /\ e.from = rounds[Len(rounds)].from /\ e.to = rounds[Len(rounds)].to
      BY <3>3 DEF Rows
    <3> QED BY <3>1, <3>2, <3>4
  <2> QED BY <2>1, <2>2
<1>3. CASE Close
  <2> DEFINE e == [[rounds[Len(rounds)] EXCEPT !.open = FALSE] EXCEPT !.base = base]
  <2>1. rnd = Len(rounds) /\ Len(rounds) > 0 BY <1>3 DEF Close
  <2>2. rounds' = [rounds EXCEPT ![Len(rounds)] = e] BY <1>0, <1>3, <2>1 DEF Close
  <2>3. rounds[Len(rounds)] \in Rows /\ base \in BOOLEAN BY <1>0, <2>1
  <2>4. /\ e \in Rows /\ ~e.open /\ e.stage = rounds[Len(rounds)].stage
        /\ e.from = rounds[Len(rounds)].from /\ e.to = rounds[Len(rounds)].to
    BY <2>3 DEF Rows
  <2> QED BY <2>1, <2>2, <2>4
<1>4. CASE ~(OpenRound \/ EndForBaseline \/ Close)
  <2> SUFFICES UNCHANGED rounds OBVIOUS
  <2> QED BY <1>4 DEF Next, Step, Start, Register, RecordRejected, FinishFails, Resume, GuardPort, EndLoop, Refine, Visit, EndVisits, VisitEnds,
     VisitBad, VisitDrifts, Cooled, Score, Eliminate, Cut, Finish, EndSweep, Stop, StopUncaught, Crash, db, vars
<1> QED BY <1>1, <1>2, <1>3, <1>4
\* The rows stay well-formed and keep tiling the tier.
LEMMA TileStep ==
  ASSUME RowsOK, [Next]_vars
  PROVE  /\ rounds' \in Seq(Rows) /\ SlicesTile'
         /\ \A i \in 1..Len(rounds') : rounds'[i].stage = "explore" => i <= R /\ rounds'[i].to = SliceStart[i]
         /\ \A i, j \in 1..Len(rounds') : i < j /\ rounds'[j].stage = "explore" => rounds'[i].stage = "explore"
<1> USE DEF RowsOK, RowsInv, SlicesTile
<1>0. rounds \in Seq(Rows) /\ Len(rounds) \in Nat BY DEF TypeOK, Rows
<1>1. CASE UNCHANGED rounds BY <1>0, <1>1
<1>2. ASSUME pc = "next", More, rnd = Len(rounds), NEW e \in Rows, rounds' = Append(rounds, e), e.stage = stage,
             e.from = NewRow(rnd + 1).from, e.to = NewRow(rnd + 1).to
      PROVE  /\ rounds' \in Seq(Rows) /\ SlicesTile'
             /\ \A i \in 1..Len(rounds') : rounds'[i].stage = "explore" => i <= R /\ rounds'[i].to = SliceStart[i]
             /\ \A i, j \in 1..Len(rounds') : i < j /\ rounds'[j].stage = "explore" => rounds'[i].stage = "explore"
  <2>1. /\ e.from = IF Len(rounds) = 0 THEN 0 ELSE rounds[Len(rounds)].to
        /\ e.from < e.to /\ e.to <= Tier
        /\ stage = "explore" => Len(rounds) + 1 <= R /\ e.to = SliceStart[Len(rounds) + 1]
    BY <1>2, NewRowTyped
  <2>2. /\ rounds' \in Seq(Rows) /\ Len(rounds') = Len(rounds) + 1 /\ rounds'[Len(rounds) + 1] = e
        /\ \A i \in 1..Len(rounds) : rounds'[i] = rounds[i]
    BY <1>0, <1>2
  <2>3. Len(rounds) > 0 => ~rounds[Len(rounds)].open
    BY <1>0, <1>2 DEF PlaceInv, Between
  <2>4. stage = "explore" => \A i \in 1..Len(rounds) : rounds[i].stage = "explore"
    BY <1>0, <1>2 DEF PlaceInv, Between
  <2>5. SlicesTile'
    <3> SUFFICES ASSUME NEW i \in 1..(Len(rounds) + 1)
                 PROVE  /\ rounds'[i].from = IF i = 1 THEN 0 ELSE rounds'[i - 1].to
                        /\ rounds'[i].from < rounds'[i].to /\ rounds'[i].to <= Tier
                        /\ rounds'[i].open => i = Len(rounds')
      BY <2>2
    <3>1. CASE i = Len(rounds) + 1 BY <1>0, <2>1, <2>2, <3>1
    <3>2. CASE i # Len(rounds) + 1
      <4>1. i \in 1..Len(rounds) /\ (i # 1 => i - 1 \in 1..Len(rounds)) BY <1>0, <3>2
      <4>2. rounds'[i] = rounds[i] /\ (i # 1 => rounds'[i - 1] = rounds[i - 1]) BY <2>2, <4>1
      <4>3. ~rounds[i].open BY <1>0, <2>3, <4>1
      <4> QED BY <4>1, <4>2, <4>3
    <3> QED BY <3>1, <3>2
  <2>6. \A i \in 1..Len(rounds') : rounds'[i].stage = "explore" => i <= R /\ rounds'[i].to = SliceStart[i]
    <3> SUFFICES ASSUME NEW i \in 1..(Len(rounds) + 1), rounds'[i].stage = "explore"
                 PROVE  i <= R /\ rounds'[i].to = SliceStart[i]
      BY <2>2
    <3>1. CASE i = Len(rounds) + 1 BY <1>2, <2>1, <2>2, <3>1
    <3>2. CASE i \in 1..Len(rounds) BY <2>2, <3>2
    <3> QED BY <1>0, <3>1, <3>2
  <2>7. ASSUME NEW i \in 1..Len(rounds'), NEW j \in 1..Len(rounds'), i < j, rounds'[j].stage = "explore"
        PROVE  rounds'[i].stage = "explore"
    <3>1. i \in 1..Len(rounds) BY <1>0, <2>2, <2>7
    <3>2. CASE j = Len(rounds) + 1 BY <1>2, <2>2, <2>4, <2>7, <3>1, <3>2
    <3>3. CASE j \in 1..Len(rounds) BY <2>2, <2>7, <3>1, <3>3
    <3> QED BY <1>0, <2>2, <3>2, <3>3
  <2> QED BY <2>2, <2>5, <2>6, <2>7
<1>3. ASSUME Len(rounds) > 0, NEW e \in Rows, rounds' = [rounds EXCEPT ![Len(rounds)] = e], ~e.open,
             e.stage = rounds[Len(rounds)].stage,
             e.from = rounds[Len(rounds)].from, e.to = rounds[Len(rounds)].to
      PROVE  /\ rounds' \in Seq(Rows) /\ SlicesTile'
             /\ \A i \in 1..Len(rounds') : rounds'[i].stage = "explore" => i <= R /\ rounds'[i].to = SliceStart[i]
             /\ \A i, j \in 1..Len(rounds') : i < j /\ rounds'[j].stage = "explore" => rounds'[i].stage = "explore"
  <2>1. Len(rounds) \in 1..Len(rounds) BY <1>0, <1>3
  <2>2. /\ rounds' \in Seq(Rows) /\ Len(rounds') = Len(rounds)
        /\ \A i \in 1..Len(rounds) : rounds'[i] = IF i = Len(rounds) THEN e ELSE rounds[i]
    BY <1>0, <1>3, <2>1, ExceptSeq
  <2>3. \A i \in 1..Len(rounds) : /\ rounds'[i].from = rounds[i].from /\ rounds'[i].to = rounds[i].to
                                 /\ rounds'[i].stage = rounds[i].stage /\ (rounds'[i].open => rounds[i].open)
    <3> TAKE i \in 1..Len(rounds)
    <3>1. CASE i = Len(rounds)
      <4>1. rounds'[i] = e BY <2>2, <3>1
      <4> QED BY <1>3, <3>1, <4>1
    <3>2. CASE i # Len(rounds) BY <2>2, <3>2
    <3> QED BY <3>1, <3>2
  <2>4. \A i \in 1..Len(rounds) : i # 1 => i - 1 \in 1..Len(rounds) BY <1>0
  <2> QED BY <2>2, <2>3, <2>4
<1> QED BY <1>1, <1>2, <1>3, RowsMove

\* TypeOK in parts, which take different provers.
PlainOK ==
  /\ pc \in Ended \cup {"register", "reject", "guard", "next", "refine", "round", "retry",
             "visit", "bad", "cool", "score", "elim", "cut", "close", "finish", "end"}
  /\ stage \in {"explore", "refine"} /\ rnd \in Nat /\ cursor \in Nat /\ drift \in OnDrift /\ faults \in Nat
  /\ reason \in {"complete", "budget", "drift", "baseline", "interrupted"}
  /\ cool \in {"cliff", "drift", "resume"}
  /\ pause \in {"none", "open", "abandoned", "recovered", "timeout"}
SetsOK ==
  /\ alive \subseteq Cands /\ todo \subseteq Cands /\ bad \subseteq Cands /\ cut \subseteq Cands
  /\ status \in [Cands -> {"absent", "pending", "eliminated", "infeasible", "rejected", "winner"}]
  /\ elim \in [Cands -> Nat] /\ next \in [Cands -> Nat]
NowOK    == now \in [cand : Cands, att : Nat, retry : BOOLEAN]
VisitsOK == visits \subseteq VisitRows
BoolsOK  == /\ sweep \in [ended : BOOLEAN, verdict : Verdicts]
            /\ base \in BOOLEAN /\ pid \in BOOLEAN /\ lost \in BOOLEAN

\* The parts in which the type invariant is proved.
LEMMA TypeParts ==
  TypeOK <=> PlainOK /\ SetsOK /\ NowOK /\ VisitsOK /\ BoolsOK /\ rounds \in Seq(Rows)
BY DEF TypeOK, PlainOK, SetsOK, NowOK, VisitsOK, BoolsOK, VisitRows, Rows

\* The task keeps its place, and the rows of rounds and pauses their states.
LEMMA PlainStep == ASSUME PlainOK, SetsOK, NowOK, rounds \in Seq(Rows), PlaceInv, [Next]_vars PROVE PlainOK'
<1>0. /\ MaxFaults \in Nat /\ SliceStart[R] \in Nat BY TuneAssumption
<1>a. /\ Len(rounds) \in Nat /\ \A i \in 1..Len(rounds) : rounds[i] \in Rows OBVIOUS
<1> USE <1>0, <1>a DEF PlainOK, Fault, Ended, db, mem, env
<1>1. CASE Start \/ Register \/ RecordRejected \/ FinishFails
  BY <1>1 DEF Start, Register, RecordRejected, FinishFails
<1>2. CASE Resume
  <2> DEFINE n == Len(rounds)
  <2>1. n > 0 => /\ rounds[n].stage \in {"explore", "refine"} /\ rounds[n].from \in Nat /\ rounds[n].to \in Nat
    BY DEF Rows
  <2>2. /\ rnd' \in {n, n - 1} /\ (rnd' = n - 1 => n > 0)
        /\ stage' = IF n > 0 THEN rounds[n].stage ELSE "explore"
        /\ cursor' \in IF n = 0 THEN {0} ELSE {rounds[n].from, rounds[n].to}
    BY <1>2 DEF Resume
  <2>3. rnd' \in Nat /\ stage' \in {"explore", "refine"} /\ cursor' \in Nat BY <2>1, <2>2
  <2>4. /\ reason' = "complete" /\ cool' = "resume" /\ faults' \in Nat /\ UNCHANGED drift
        /\ pc' \in {"cool", "guard"} /\ pause' \in {"open", pause}
    BY <1>2 DEF Resume
  <2> QED BY <2>3, <2>4
<1>3. CASE GuardPort BY <1>3 DEF GuardPort, Forgets
<1>4. CASE OpenRound BY <1>4 DEF OpenRound
<1>5. CASE EndForBaseline BY <1>5 DEF EndForBaseline
<1>6. CASE EndLoop BY <1>6 DEF EndLoop
<1>7. CASE Refine BY <1>7 DEF Refine
<1>8. CASE Visit BY <1>8 DEF Visit, OpenVisit
<1>9. CASE EndVisits BY <1>9 DEF EndVisits
<1>10. CASE VisitEnds BY <1>10 DEF VisitEnds
<1>11. CASE VisitBad BY <1>11 DEF VisitBad
<1>12. CASE VisitDrifts BY <1>12 DEF VisitDrifts, FallBack
<1>13. CASE Cooled BY <1>13 DEF Cooled, FallBack
<1>14. CASE Score BY <1>14 DEF Score, FallBack
<1>15. CASE Eliminate BY <1>15 DEF Eliminate
<1>16. CASE Cut BY <1>16 DEF Cut
<1>17. CASE Close
  <2>1. rnd \in 1..Len(rounds) BY <1>17 DEF Close, PlaceInv, AtRound
  <2>2. rounds[rnd].to \in Nat BY <2>1 DEF Rows
  <2> QED BY <1>17, <2>2 DEF Close
<1>18. CASE Finish BY <1>18 DEF Finish
<1>19. CASE EndSweep BY <1>19 DEF EndSweep, Forgets
<1>20. CASE Stop BY <1>20 DEF Stop
<1>21. CASE StopUncaught BY <1>21 DEF StopUncaught, Forgets
<1>22. CASE Crash BY <1>22 DEF Crash, Forgets
<1>23. CASE UNCHANGED vars BY <1>23 DEF vars
<1> QED
  BY <1>1, <1>2, <1>3, <1>4, <1>5, <1>6, <1>7, <1>8, <1>9, <1>10, <1>11, <1>12, <1>13, <1>14, <1>15,
     <1>16, <1>17, <1>18, <1>19, <1>20, <1>21, <1>22, <1>23 DEF Next, Step

\* Sets of candidates stay sets of candidates.
LEMMA SetsStep == ASSUME PlainOK, SetsOK, NowOK, VisitsOK, AttInv, [Next]_vars PROVE SetsOK'
<1>0. Base \in Cands /\ Draw \subseteq Cands BY TuneAssumption
<1> USE <1>0 DEF SetsOK, NowOK, PlainOK, db, mem, env
<1>1. CASE Start \/ Register \/ RecordRejected \/ FinishFails
  BY <1>1 DEF Start, Register, RecordRejected, FinishFails
<1>2. CASE Resume BY <1>2 DEF Resume
<1>3. CASE GuardPort BY <1>3 DEF GuardPort, Forgets
<1>4. CASE OpenRound
  <2>1. PICK n \in Nat : \A v \in visits : v.att <= n BY DEF AttInv
  <2>2. rnd' \in Nat BY <1>4 DEF OpenRound
  <2>3. \A c \in Cands : NextAttempt(c, rnd') \in Nat BY <2>1, <2>2, NextAttemptAbove DEF VisitsOK
  <2> QED BY <1>4, <2>3 DEF OpenRound
<1>5. CASE EndForBaseline BY <1>5 DEF EndForBaseline
<1>6. CASE EndLoop BY <1>6 DEF EndLoop
<1>7. CASE Refine BY <1>7 DEF Refine
<1>8. CASE Visit BY <1>8 DEF Visit, OpenVisit
<1>9. CASE EndVisits BY <1>9 DEF EndVisits
<1>10. CASE VisitEnds BY <1>10 DEF VisitEnds
<1>11. CASE VisitBad BY <1>11 DEF VisitBad
<1>12. CASE VisitDrifts BY <1>12 DEF VisitDrifts, FallBack
<1>13. CASE Cooled BY <1>13 DEF Cooled, FallBack
<1>14. CASE Score BY <1>14 DEF Score, FallBack
<1>15. CASE Eliminate BY <1>15 DEF Eliminate
<1>16. CASE Cut BY <1>16 DEF Cut
<1>17. CASE Close BY <1>17 DEF Close
<1>18. CASE Finish BY <1>18 DEF Finish
<1>19. CASE EndSweep BY <1>19 DEF EndSweep, Forgets
<1>20. CASE Stop BY <1>20 DEF Stop
<1>21. CASE StopUncaught BY <1>21 DEF StopUncaught, Forgets
<1>22. CASE Crash BY <1>22 DEF Crash, Forgets
<1>23. CASE UNCHANGED vars BY <1>23 DEF vars
<1> QED
  BY <1>1, <1>2, <1>3, <1>4, <1>5, <1>6, <1>7, <1>8, <1>9, <1>10, <1>11, <1>12, <1>13, <1>14, <1>15,
     <1>16, <1>17, <1>18, <1>19, <1>20, <1>21, <1>22, <1>23 DEF Next, Step

\* The visit under way is one of a candidate.
LEMMA NowStep == ASSUME NowOK, SetsOK, [Next]_vars PROVE NowOK'
<1>0. Base \in Cands BY TuneAssumption
<1>a. Idle \in [cand : Cands, att : Nat, retry : BOOLEAN] BY <1>0 DEF Idle
<1>b. \A c \in Cands, a \in Nat, b \in BOOLEAN :
        [cand |-> c, att |-> a, retry |-> b] \in [cand : Cands, att : Nat, retry : BOOLEAN]
  OBVIOUS
<1> USE <1>0, <1>a DEF NowOK, SetsOK, db, mem, env
<1>1. CASE Start \/ Register \/ RecordRejected \/ FinishFails
  BY <1>1 DEF Start, Register, RecordRejected, FinishFails
<1>2. CASE Resume BY <1>2 DEF Resume
<1>3. CASE GuardPort BY <1>3 DEF GuardPort, Forgets
<1>4. CASE OpenRound BY <1>4 DEF OpenRound
<1>5. CASE EndForBaseline BY <1>5 DEF EndForBaseline
<1>6. CASE EndLoop BY <1>6 DEF EndLoop
<1>7. CASE Refine BY <1>7 DEF Refine
<1>8. CASE Visit
  <2>1. \E c \in Cands, b \in BOOLEAN : OpenVisit(c, b)
    <3>1. CASE pc = "retry" /\ OpenVisit(now.cand, TRUE) BY <3>1
    <3>2. CASE \E c \in todo : OpenVisit(c, FALSE) BY <3>2
    <3> QED BY <1>8, <3>1, <3>2 DEF Visit
  <2>2. PICK c \in Cands, b \in BOOLEAN : OpenVisit(c, b) BY <2>1
  <2>3. now' = [cand |-> c, att |-> next[c], retry |-> b] BY <2>2 DEF OpenVisit
  <2>4. next[c] \in Nat OBVIOUS
  <2> QED BY <1>b, <2>3, <2>4
<1>9. CASE EndVisits BY <1>9 DEF EndVisits
<1>10. CASE VisitEnds BY <1>10 DEF VisitEnds
<1>11. CASE VisitBad BY <1>11 DEF VisitBad
<1>12. CASE VisitDrifts BY <1>12 DEF VisitDrifts, FallBack
<1>13. CASE Cooled BY <1>13 DEF Cooled, FallBack
<1>14. CASE Score BY <1>14 DEF Score, FallBack
<1>15. CASE Eliminate BY <1>15 DEF Eliminate
<1>16. CASE Cut BY <1>16 DEF Cut
<1>17. CASE Close BY <1>17 DEF Close
<1>18. CASE Finish BY <1>18 DEF Finish
<1>19. CASE EndSweep BY <1>19 DEF EndSweep, Forgets
<1>20. CASE Stop BY <1>20 DEF Stop
<1>21. CASE StopUncaught BY <1>21 DEF StopUncaught, Forgets
<1>22. CASE Crash BY <1>22 DEF Crash, Forgets
<1>23. CASE UNCHANGED vars BY <1>23 DEF vars
<1> QED
  BY <1>1, <1>2, <1>3, <1>4, <1>5, <1>6, <1>7, <1>8, <1>9, <1>10, <1>11, <1>12, <1>13, <1>14, <1>15,
     <1>16, <1>17, <1>18, <1>19, <1>20, <1>21, <1>22, <1>23 DEF Next, Step

\* The visit rows stay well-formed.
LEMMA VisitsStep == ASSUME VisitsOK, SetsOK, NowOK, PlainOK, [Next]_vars PROVE VisitsOK'
<1>0. \A x \in SUBSET visits, st \in VisitSt : Closed(x, st) \subseteq VisitRows BY ClosedKeeps DEF VisitsOK
<1>a. Running \subseteq visits /\ Mine \subseteq visits BY DEF Running, Mine
<1>b. {"lost", "counted", "aborted", "infeasible", "drifted"} \subseteq VisitSt BY DEF VisitSt
<1> USE <1>0, <1>a, <1>b DEF VisitsOK, db, mem, env
<1>1. CASE Start \/ Register \/ RecordRejected \/ FinishFails
  BY <1>1 DEF Start, Register, RecordRejected, FinishFails
<1>2. CASE Resume BY <1>2 DEF Resume
<1>3. CASE GuardPort BY <1>3 DEF GuardPort
<1>4. CASE OpenRound BY <1>4 DEF OpenRound
<1>5. CASE EndForBaseline BY <1>5 DEF EndForBaseline
<1>6. CASE EndLoop BY <1>6 DEF EndLoop
<1>7. CASE Refine BY <1>7 DEF Refine
<1>8. CASE Visit
  <2>1. \E c \in Cands, b \in BOOLEAN : OpenVisit(c, b)
    <3>1. CASE pc = "retry" /\ OpenVisit(now.cand, TRUE) BY <3>1 DEF NowOK
    <3>2. CASE \E c \in todo : OpenVisit(c, FALSE) BY <3>2 DEF SetsOK
    <3> QED BY <1>8, <3>1, <3>2 DEF Visit
  <2>2. PICK c \in Cands, b \in BOOLEAN : OpenVisit(c, b) BY <2>1
  <2>3. [cand |-> c, rnd |-> rnd, att |-> next[c], st |-> "running"] \in VisitRows
    BY DEF VisitRows, VisitSt, SetsOK, PlainOK
  <2> QED BY <2>2, <2>3 DEF OpenVisit
<1>9. CASE EndVisits BY <1>9 DEF EndVisits
<1>10. CASE VisitEnds BY <1>10 DEF VisitEnds
<1>11. CASE VisitBad BY <1>11 DEF VisitBad
<1>12. CASE VisitDrifts BY <1>12 DEF VisitDrifts
<1>13. CASE Cooled BY <1>13 DEF Cooled
<1>14. CASE Score BY <1>14 DEF Score
<1>15. CASE Eliminate BY <1>15 DEF Eliminate
<1>16. CASE Cut BY <1>16 DEF Cut
<1>17. CASE Close BY <1>17 DEF Close
<1>18. CASE Finish BY <1>18 DEF Finish
<1>19. CASE EndSweep BY <1>19 DEF EndSweep
<1>20. CASE Stop BY <1>20 DEF Stop
<1>21. CASE StopUncaught BY <1>21 DEF StopUncaught
<1>22. CASE Crash BY <1>22 DEF Crash
<1>23. CASE UNCHANGED vars BY <1>23 DEF vars
<1> QED
  BY <1>1, <1>2, <1>3, <1>4, <1>5, <1>6, <1>7, <1>8, <1>9, <1>10, <1>11, <1>12, <1>13, <1>14, <1>15,
     <1>16, <1>17, <1>18, <1>19, <1>20, <1>21, <1>22, <1>23 DEF Next, Step

\* The sweep keeps a verdict, and the flags stay flags.
LEMMA BoolsStep == ASSUME BoolsOK, rounds \in Seq(Rows), PlainOK, [Next]_vars PROVE BoolsOK'
<1>0. /\ sweep.ended \in BOOLEAN /\ sweep.verdict \in Verdicts
      /\ \A e \in BOOLEAN, v \in Verdicts : [ended |-> e, verdict |-> v] \in [ended : BOOLEAN, verdict : Verdicts]
  BY DEF BoolsOK
<1>a. {"none", "indeterminate", "incomplete", "rejected", "adopted"} \subseteq Verdicts BY DEF Verdicts
<1> USE <1>0, <1>a DEF BoolsOK, db, mem, env
<1>1. CASE Start \/ Register \/ RecordRejected \/ FinishFails
  BY <1>1 DEF Start, Register, RecordRejected, FinishFails
<1>2. CASE Resume BY <1>2, ZenonT(60) DEF Resume
<1>3. CASE GuardPort BY <1>3 DEF GuardPort, Forgets
<1>4. CASE OpenRound BY <1>4 DEF OpenRound
<1>5. CASE EndForBaseline BY <1>5 DEF EndForBaseline
<1>6. CASE EndLoop BY <1>6 DEF EndLoop
<1>7. CASE Refine BY <1>7 DEF Refine
<1>8. CASE Visit BY <1>8 DEF Visit, OpenVisit
<1>9. CASE EndVisits BY <1>9 DEF EndVisits
<1>10. CASE VisitEnds BY <1>10 DEF VisitEnds
<1>11. CASE VisitBad BY <1>11 DEF VisitBad
<1>12. CASE VisitDrifts BY <1>12 DEF VisitDrifts, FallBack
<1>13. CASE Cooled BY <1>13 DEF Cooled, FallBack
<1>14. CASE Score BY <1>14 DEF Score, FallBack
<1>15. CASE Eliminate BY <1>15 DEF Eliminate
<1>16. CASE Cut BY <1>16 DEF Cut
<1>17. CASE Close BY <1>17 DEF Close
<1>18. CASE Finish BY <1>18 DEF Finish
<1>19. CASE EndSweep
  <2> DEFINE vs == CASE reason = "baseline" -> {"indeterminate"}
                     [] reason \in {"budget", "drift", "interrupted"} -> {"incomplete"}
                     [] reason = "complete" -> IF cut = {} THEN {"rejected", "indeterminate"} ELSE {"adopted"}
  <2>1. vs \subseteq Verdicts BY DEF PlainOK
  <2>2. sweep' = sweep \/ \E v \in vs : sweep' = [ended |-> TRUE, verdict |-> v] BY <1>19 DEF EndSweep
  <2> HIDE DEF vs
  <2>3. sweep' \in [ended : BOOLEAN, verdict : Verdicts] BY <2>1, <2>2
  <2> QED BY <1>19, <2>3 DEF EndSweep, Forgets
<1>20. CASE Stop BY <1>20 DEF Stop
<1>21. CASE StopUncaught BY <1>21 DEF StopUncaught, Forgets
<1>22. CASE Crash BY <1>22 DEF Crash, Forgets
<1>23. CASE UNCHANGED vars BY <1>23 DEF vars
<1> QED
  BY <1>1, <1>2, <1>3, <1>4, <1>5, <1>6, <1>7, <1>8, <1>9, <1>10, <1>11, <1>12, <1>13, <1>14, <1>15,
     <1>16, <1>17, <1>18, <1>19, <1>20, <1>21, <1>22, <1>23 DEF Next, Step

\* Every step keeps the types.
LEMMA TypeStep == ASSUME RowsOK, [Next]_vars PROVE TypeOK'
<1>1. PlainOK /\ SetsOK /\ NowOK /\ VisitsOK /\ BoolsOK /\ rounds \in Seq(Rows) BY TypeParts DEF RowsOK
<1>2. rounds' \in Seq(Rows) BY TileStep
<1>3. PlainOK' /\ SetsOK' /\ NowOK' /\ VisitsOK' /\ BoolsOK'
  BY <1>1, PlainStep, SetsStep, NowStep, VisitsStep, BoolsStep DEF RowsOK
<1> QED BY <1>2, <1>3, TypeParts DEF TypeOK, PlainOK, SetsOK, NowOK, VisitsOK, BoolsOK, VisitRows, Rows

-----------------------------------------------------------------------------
(* Places, attempts *)

\* The task keeps its place among the rows.
LEMMA PlaceStep == ASSUME RowsOK, [Next]_vars PROVE PlaceInv'
<1>1a. /\ rounds \in Seq(Rows) /\ Len(rounds) \in Nat /\ rnd \in Nat /\ R \in Nat \ {0}
       /\ \A i \in 1..Len(rounds) : rounds[i] \in Rows
  <2>1. rounds \in Seq(Rows) /\ rnd \in Nat BY DEF RowsOK, TypeOK, Rows
  <2> QED BY <2>1, TuneAssumption
<1>1b. RowsInv /\ PlaceInv /\ stage \in {"explore", "refine"} /\ cool \in {"cliff", "drift", "resume"}
  BY DEF RowsOK, TypeOK
<1> USE <1>1a, <1>1b DEF RowsInv, PlaceInv, AtRound, Between, Ended, db, mem, env
<1>1. CASE Start \/ Register \/ RecordRejected \/ FinishFails
  BY <1>1 DEF Start, Register, RecordRejected, FinishFails
<1>2. CASE Resume
  <2>1. sweep.verdict # "absent" /\ sweep' \in {sweep, [sweep EXCEPT !.ended = TRUE]} BY <1>2 DEF Resume
  <2>2. sweep'.verdict # "absent" BY <2>1 DEF RowsOK, TypeOK
  <2>3. pc' \in {"cool", "guard"} /\ cool' = "resume" /\ UNCHANGED rounds BY <1>2 DEF Resume
  <2>4. /\ rnd' = IF Len(rounds) > 0 /\ rounds[Len(rounds)].open THEN Len(rounds) - 1 ELSE Len(rounds)
        /\ stage' = IF Len(rounds) > 0 THEN rounds[Len(rounds)].stage ELSE "explore"
        /\ cursor' = IF Len(rounds) = 0 THEN 0
                     ELSE IF Len(rounds) > 0 /\ rounds[Len(rounds)].open
                            THEN rounds[Len(rounds)].from ELSE rounds[Len(rounds)].to
    BY <1>2 DEF Resume
  <2> QED BY <2>2, <2>3, <2>4
<1>3. CASE GuardPort BY <1>3 DEF GuardPort, Forgets
<1>4. CASE OpenRound
  <2>1. rnd' = rnd + 1 /\ (rnd = Len(rounds) \/ rnd + 1 = Len(rounds)) BY <1>4 DEF OpenRound
  <2>2. CASE rnd = Len(rounds)
    <3>1. rounds' = Append(rounds, NewRow(rnd + 1)) BY <1>4, <2>1, <2>2 DEF OpenRound
    <3>2. NewRow(rnd + 1) \in Rows /\ NewRow(rnd + 1).stage = stage BY <1>4, <2>2, NewRowTyped DEF OpenRound
    <3>3. Len(rounds') = Len(rounds) + 1 /\ rounds'[Len(rounds')].stage = stage BY <3>1, <3>2
    <3> QED BY <1>4, <2>1, <2>2, <3>3 DEF OpenRound
  <2>3. CASE rnd + 1 = Len(rounds)
    <3>1. UNCHANGED rounds BY <1>4, <2>1, <2>3 DEF OpenRound
    <3> QED BY <1>4, <2>1, <2>3, <3>1 DEF OpenRound
  <2> QED BY <2>1, <2>2, <2>3
<1>5. CASE EndForBaseline BY <1>5 DEF EndForBaseline
<1>6. CASE EndLoop BY <1>6 DEF EndLoop, More
<1>7. CASE Refine BY <1>7 DEF Refine
<1>8. CASE Visit BY <1>8 DEF Visit, OpenVisit
<1>9. CASE EndVisits BY <1>9 DEF EndVisits
<1>10. CASE VisitEnds BY <1>10 DEF VisitEnds
<1>11. CASE VisitBad BY <1>11 DEF VisitBad
<1>12. CASE VisitDrifts BY <1>12 DEF VisitDrifts, FallBack
<1>13. CASE Cooled BY <1>13 DEF Cooled, FallBack
<1>14. CASE Score BY <1>14 DEF Score, FallBack
<1>15. CASE Eliminate BY <1>15 DEF Eliminate
<1>16. CASE Cut BY <1>16 DEF Cut
<1>17. CASE Close
  <2> DEFINE e == [[rounds[rnd] EXCEPT !.open = FALSE] EXCEPT !.base = base]
  <2>1. rnd = Len(rounds) /\ rnd \in 1..Len(rounds) BY <1>17 DEF Close
  <2>2. rounds' = [rounds EXCEPT ![rnd] = e] /\ UNCHANGED <<rnd, stage>> BY <1>17, <2>1 DEF Close
  <2>3. rounds[rnd] \in Rows /\ base \in BOOLEAN BY <2>1 DEF RowsOK, TypeOK
  <2>4. e \in Rows /\ ~e.open /\ e.stage = rounds[rnd].stage /\ e.to = rounds[rnd].to BY <2>3 DEF Rows
  <2> HIDE DEF e
  <2>5. Len(rounds') = Len(rounds) /\ rounds'[rnd] = e BY <2>1, <2>2, <2>4, ExceptSeq
  <2>6. pc' \in {"finish", "next"} /\ cursor' = rounds[rnd].to BY <1>17 DEF Close
  <2> QED BY <1>17, <2>1, <2>2, <2>4, <2>5, <2>6 DEF Close
<1>18. CASE Finish BY <1>18 DEF Finish
<1>19. CASE EndSweep
  <2>1. sweep'.verdict # "absent"
    <3>1. CASE UNCHANGED sweep BY <1>19, <3>1 DEF EndSweep
    <3>2. CASE sweep.verdict \notin Terminal
      <4>1. reason \in {"complete", "budget", "drift", "baseline", "interrupted"} BY DEF RowsOK, TypeOK
      <4>2. PICK v \in {"indeterminate", "incomplete", "rejected", "adopted"} :
              sweep' = [ended |-> TRUE, verdict |-> v]
        BY <1>19, <3>2, <4>1 DEF EndSweep
      <4> QED BY <4>2
    <3> QED BY <1>19, <3>1, <3>2 DEF EndSweep
  <2> QED BY <1>19, <2>1 DEF EndSweep, Forgets
<1>20. CASE Stop BY <1>20 DEF Stop, Caught
<1>21. CASE StopUncaught BY <1>21 DEF StopUncaught, Forgets
<1>22. CASE Crash BY <1>22 DEF Crash, Forgets
<1>23. CASE UNCHANGED vars BY <1>23 DEF vars
<1> QED
  BY <1>1, <1>2, <1>3, <1>4, <1>5, <1>6, <1>7, <1>8, <1>9, <1>10, <1>11, <1>12, <1>13, <1>14, <1>15,
     <1>16, <1>17, <1>18, <1>19, <1>20, <1>21, <1>22, <1>23 DEF Next, Step

\* But for Visit, a step keeps or drops rows and changes their states only.
LEMMA KeysStay ==
  ASSUME TypeOK, [Next]_vars, ~Visit
  PROVE  \A v \in visits' : \E u \in visits : v.cand = u.cand /\ v.rnd = u.rnd /\ v.att = u.att
<1>0. visits \subseteq VisitRows /\ Running \subseteq visits /\ Mine \subseteq visits
  BY DEF TypeOK, VisitRows, Running, Mine
<1>1. {"lost", "counted", "aborted", "infeasible", "drifted"} \subseteq VisitSt BY DEF VisitSt
<1>2. \/ visits' \subseteq visits
      \/ \E x \in {Running, Mine}, st \in {"lost", "counted", "aborted", "infeasible", "drifted"} :
           visits' = Closed(x, st)
  <2> USE <1>0 DEF db, mem, env
  <2>1. CASE Start \/ Register \/ RecordRejected \/ FinishFails \/ OpenRound \/ EndLoop \/ Refine \/ EndVisits \/ VisitBad \/ Cooled \/ Score
    BY <2>1 DEF Start, Register, RecordRejected, FinishFails, OpenRound, EndLoop, Refine, EndVisits, VisitBad, Cooled, Score
  <2>2. CASE Eliminate \/ Cut \/ EndSweep \/ StopUncaught \/ Crash \/ UNCHANGED vars
    BY <2>2 DEF Eliminate, Cut, EndSweep, StopUncaught, Crash, vars
  <2>3. CASE EndForBaseline \/ Close BY <2>3 DEF EndForBaseline, Close
  <2>4. CASE Resume \/ GuardPort BY <2>4 DEF Resume, GuardPort
  <2>5. CASE VisitEnds BY <2>5 DEF VisitEnds
  <2>6. CASE VisitDrifts BY <2>6 DEF VisitDrifts
  <2>7. CASE Finish \/ Stop BY <2>7 DEF Finish, Stop
  <2> QED BY <2>1, <2>2, <2>3, <2>4, <2>5, <2>6, <2>7 DEF Next, Step
<1> QED BY <1>0, <1>1, <1>2, ClosedKeeps

\* No step makes an attempt twice, and next stays above the round's attempts.
LEMMA AttStep == ASSUME RowsOK, [Next]_vars PROVE AttInv' /\ (AttemptsUnique => AttemptsUnique')
<1> USE DEF db, mem, env, Visiting
<1>0. /\ next \in [Cands -> Nat] /\ visits \subseteq VisitRows /\ visits' \subseteq VisitRows /\ rnd \in Nat
      /\ alive \subseteq Cands /\ todo \subseteq Cands /\ now.cand \in Cands
  BY TypeStep DEF RowsOK, TypeOK, VisitRows
<1>1. PICK n \in Nat : \A v \in visits : v.att <= n BY DEF RowsOK, AttInv
<1>2. CASE Visit
  <2>1. PICK c \in Cands, b \in BOOLEAN : OpenVisit(c, b)
    <3>1. CASE pc = "retry" /\ OpenVisit(now.cand, TRUE) BY <1>0, <3>1
    <3>2. CASE \E c \in todo : OpenVisit(c, FALSE) BY <1>0, <3>2
    <3> QED BY <1>2, <3>1, <3>2 DEF Visit
  <2>2. \A v \in visits : v.rnd = rnd => v.att < next[v.cand] BY <1>2 DEF Visit, RowsOK, AttInv
  <2>3. \A v \in Of(c, rnd) : v.att # next[c] BY <1>0, <2>2 DEF Of, VisitRows
  <2> DEFINE row == [cand |-> c, rnd |-> rnd, att |-> next[c], st |-> "running"]
  <2>4. /\ next' = [next EXCEPT ![c] = @ + 1] /\ pc' # "collided" /\ UNCHANGED rnd
        /\ visits' \subseteq visits \cup {row}
    BY <1>2, <2>1, <2>3 DEF OpenVisit, Visit
  <2>5. row.cand = c /\ row.rnd = rnd /\ row.att = next[c] OBVIOUS
  <2> HIDE DEF row
  <2>6. \A v \in visits' : v.rnd = rnd => v.att < next'[v.cand]
    <3> TAKE v \in visits'
    <3>1. v.cand \in Cands /\ v.att \in Nat BY <1>0 DEF VisitRows
    <3>2. CASE v \in visits BY <1>0, <2>2, <2>4, <3>1, <3>2
    <3>3. CASE v = row BY <1>0, <2>4, <2>5, <3>1, <3>3
    <3> QED BY <2>4, <3>2, <3>3
  <2>7. \E m \in Nat : \A v \in visits' : v.att <= m
    <3> DEFINE m == n + next[c]
    <3>1. m \in Nat /\ m >= n /\ m >= next[c] BY <1>0
    <3> HIDE DEF m
    <3>2. \A v \in visits' : v.att \in Nat BY <1>0 DEF VisitRows
    <3>3. \A v \in visits' : v.att <= m BY <1>0, <1>1, <2>4, <2>5, <3>1, <3>2
    <3> QED BY <3>1, <3>3
  <2> QED BY <2>4, <2>6, <2>7 DEF AttInv, AttemptsUnique
<1>3. CASE ~Visit
  <2>1. \A v \in visits' : \E u \in visits : v.cand = u.cand /\ v.rnd = u.rnd /\ v.att = u.att
    BY <1>3, KeysStay DEF RowsOK
  <2>2. \A v \in visits' : v.att <= n BY <1>1, <2>1
  <2>3. CASE OpenRound
    <3>1. rnd' \in Nat /\ next' = [c \in Cands |-> NextAttempt(c, rnd')] /\ UNCHANGED visits
      BY <1>0, <2>3 DEF OpenRound
    <3>2. \A c \in Cands : \A v \in visits : v.cand = c /\ v.rnd = rnd' => v.att < NextAttempt(c, rnd')
      BY <1>0, <1>1, <3>1, NextAttemptAbove
    <3>3. \A v \in visits : v.cand \in Cands BY <1>0 DEF VisitRows
    <3>4. \A v \in visits' : v.rnd = rnd' => v.att < next'[v.cand] BY <3>1, <3>2, <3>3
    <3>5. pc' # "collided" BY <2>3 DEF OpenRound
    <3> QED BY <2>2, <3>4, <3>5 DEF AttInv, AttemptsUnique
  <2>4. CASE ~OpenRound
    <3> USE <1>3, <2>4 DEF Next, Step
    <3>1. Visiting' => Visiting /\ UNCHANGED <<rnd, next>>
      <4> USE DEF Forgets
      <4>1. CASE Start \/ Register \/ RecordRejected \/ FinishFails \/ Resume \/ GuardPort BY <4>1 DEF Start, Register, RecordRejected, FinishFails, Resume, GuardPort
      <4>2. CASE EndForBaseline \/ EndLoop \/ Refine \/ EndVisits \/ VisitEnds
        BY <4>2 DEF EndForBaseline, EndLoop, Refine, EndVisits, VisitEnds
      <4>3. CASE VisitBad \/ VisitDrifts \/ Cooled BY <4>3 DEF VisitBad, VisitDrifts, Cooled
      <4>4. CASE Score \/ Eliminate \/ Cut \/ Close BY <4>4 DEF Score, Eliminate, Cut, Close
      <4>5. CASE Finish \/ EndSweep \/ Stop \/ StopUncaught \/ Crash \/ UNCHANGED vars
        BY <4>5 DEF Finish, EndSweep, Stop, StopUncaught, Crash, vars
      <4> QED BY <4>1, <4>2, <4>3, <4>4, <4>5
    <3>2. pc' = "collided" => pc = "collided"
      BY DEF Start, Register, RecordRejected, FinishFails, Resume, GuardPort, EndForBaseline, EndLoop, Refine, EndVisits, VisitEnds, VisitBad,
         VisitDrifts, Cooled, Score, Eliminate, Cut, Close, Finish, EndSweep, Stop, StopUncaught, Crash, vars,
         Forgets
    <3>3. Visiting => \A v \in visits : v.rnd = rnd => v.att < next[v.cand] BY DEF RowsOK, AttInv
    <3> HIDE DEF Visiting
    <3>4. Visiting' => \A v \in visits' : v.rnd = rnd' => v.att < next'[v.cand] BY <2>1, <3>1, <3>3
    <3> QED BY <2>2, <3>2, <3>4 DEF AttInv, AttemptsUnique
  <2> QED BY <2>3, <2>4
<1> QED BY <1>2, <1>3

-----------------------------------------------------------------------------
(* Outcomes *)

\* What closing rows does to the outcomes of a round: only the rows closed
\* get one, and it must be their candidate's latest visit.
LEMMA ClosedMeasures ==
  ASSUME TypeOK, MeasuredOnce, NEW vs \in SUBSET visits, NEW s \in VisitSt, visits' = Closed(vs, s),
         s \in {"counted", "infeasible"} =>
           \A u \in vs, v \in visits : u.cand = v.cand /\ u.rnd = v.rnd => v.att <= u.att
  PROVE  /\ MeasuredOnce'
         /\ \A c, q : (\E v \in visits' : v.cand = c /\ v.rnd = q /\ v.st \in {"counted", "infeasible"})
              => Handled(c, q) \/ (s \in {"counted", "infeasible"} /\ \E u \in vs : u.cand = c)
<1>1. \A v \in visits' : \E u \in visits : /\ v.cand = u.cand /\ v.rnd = u.rnd /\ v.att = u.att
                                         /\ (v = u \/ (u \in vs /\ v.st = s))
  <2> TAKE v \in visits'
  <2>1. CASE v \in visits \ vs BY <2>1
  <2>2. ASSUME NEW u \in vs, v = [u EXCEPT !.st = s]
        PROVE  v.cand = u.cand /\ v.rnd = u.rnd /\ v.att = u.att /\ v.st = s
    BY <2>2 DEF TypeOK
  <2> QED BY <2>1, <2>2 DEF Closed
<1>2. ASSUME NEW x \in visits', NEW y \in visits', x.cand = y.cand, x.rnd = y.rnd, x.st \in {"counted", "infeasible"}
      PROVE  y.att <= x.att
  <2>1. PICK u \in visits : x.cand = u.cand /\ x.rnd = u.rnd /\ x.att = u.att /\ (x = u \/ (u \in vs /\ x.st = s)) BY <1>1
  <2>2. PICK v \in visits : y.cand = v.cand /\ y.rnd = v.rnd /\ y.att = v.att BY <1>1
  <2>3. v.att <= u.att BY <1>2, <2>1, <2>2 DEF MeasuredOnce
  <2> QED BY <2>1, <2>2, <2>3
<1> QED BY <1>1, <1>2 DEF MeasuredOnce, Handled, Of

\* A step gives an outcome only to the visit under way.
LEMMA MeasureStep == ASSUME RowsOK, MeasuredInv, [Next]_vars PROVE MeasuredInv'
<1> USE DEF db, mem, env
<1>0. /\ TypeOK /\ visits \subseteq VisitRows /\ next \in [Cands -> Nat] /\ todo \subseteq Cands /\ now.cand \in Cands
      /\ now.att \in Nat /\ rnd \in Nat /\ Running \subseteq visits /\ Mine \subseteq visits
      /\ cool \in {"cliff", "drift", "resume"}
      /\ {"lost", "counted", "aborted", "infeasible", "drifted"} \subseteq VisitSt
  BY DEF RowsOK, TypeOK, VisitRows, Running, Mine, VisitSt
<1>1. /\ MeasuredOnce
      /\ Visiting => \A c \in todo : ~Handled(c, rnd)
      /\ pc \in {"visit", "retry"} \/ (pc = "cool" /\ cool = "cliff")
           => now.cand \notin todo /\ ~Handled(now.cand, rnd)
      /\ pc = "visit" => next[now.cand] = now.att + 1
  BY DEF MeasuredInv
<1>2. Visiting => \A v \in visits : v.rnd = rnd => v.att < next[v.cand] BY DEF RowsOK, AttInv
<1>3. pc = "visit" => \A u \in Mine, v \in visits : u.cand = v.cand /\ u.rnd = v.rnd => v.att <= u.att
  <2> SUFFICES ASSUME pc = "visit", NEW u \in Mine, NEW v \in visits, u.cand = v.cand, u.rnd = v.rnd
               PROVE  v.att <= u.att
    OBVIOUS
  <2>1. u.cand = now.cand /\ u.rnd = rnd /\ u.att = now.att BY DEF Mine
  <2>2. v.att < now.att + 1 BY <1>1, <1>2, <2>1 DEF Visiting
  <2>3. v.att \in Nat BY <1>0 DEF VisitRows
  <2> QED BY <1>0, <2>1, <2>2, <2>3
<1>4. \A c, q : Handled(c, q)' <=> \E v \in visits' : v.cand = c /\ v.rnd = q /\ v.st \in {"counted", "infeasible"}
  BY DEF Handled, Of
<1>5. \A s \in {"lost", "aborted", "drifted"}, vs \in SUBSET visits :
        visits' = Closed(vs, s) => MeasuredOnce' /\ \A c, q : Handled(c, q)' => Handled(c, q)
  BY <1>0, <1>1, <1>4, ClosedMeasures
<1>6. \A s \in {"counted", "infeasible"} : pc = "visit" /\ visits' = Closed(Mine, s)
        => MeasuredOnce' /\ \A c, q : Handled(c, q)' => Handled(c, q) \/ c = now.cand
  <2>1. \A u \in Mine : u.cand = now.cand BY DEF Mine
  <2> QED BY <1>0, <1>1, <1>3, <1>4, <2>1, ClosedMeasures
<1>7. UNCHANGED visits => MeasuredOnce' /\ \A c, q : Handled(c, q)' <=> Handled(c, q)
  BY <1>1 DEF MeasuredOnce, Handled, Of
<1>8. CASE OpenRound
  <2>1. /\ UNCHANGED visits /\ pc' \in {"round", "empty"} /\ todo' = {c \in alive : ~Handled(c, rnd')}
    BY <1>8 DEF OpenRound
  <2> QED BY <1>7, <2>1 DEF MeasuredInv, Visiting
<1>9. CASE Visit
  <2>1. PICK c \in Cands, b \in BOOLEAN :
          /\ OpenVisit(c, b) /\ ~Handled(c, rnd) /\ c \notin todo' /\ todo' \subseteq todo
    <3>1. CASE pc = "retry" /\ OpenVisit(now.cand, TRUE) /\ UNCHANGED todo BY <1>0, <1>1, <3>1
    <3>2. CASE pc = "round" /\ \E c \in todo : OpenVisit(c, FALSE) /\ todo' = todo \ {c}
      BY <1>0, <1>1, <3>2 DEF Visiting
    <3> QED BY <1>9, <3>1, <3>2 DEF Visit
  <2> DEFINE row == [cand |-> c, rnd |-> rnd, att |-> next[c], st |-> "running"]
  <2>2. /\ now' = [cand |-> c, att |-> next[c], retry |-> b] /\ next' = [next EXCEPT ![c] = @ + 1]
        /\ pc' \in {"round", "visit", "collided"} /\ UNCHANGED rnd
        /\ visits' \subseteq visits \cup {row} /\ pc \in {"retry", "round"}
    BY <1>9, <2>1 DEF OpenVisit, Visit
  <2>3. row.st = "running" /\ row.cand = c /\ row.rnd = rnd OBVIOUS
  <2> HIDE DEF row
  <2>4. \A d, q : Handled(d, q)' => Handled(d, q) BY <1>4, <2>2, <2>3 DEF Handled, Of
  <2>5. MeasuredOnce'
    <3> SUFFICES ASSUME NEW u \in visits', NEW v \in visits', u.cand = v.cand, u.rnd = v.rnd,
                        u.st \in {"counted", "infeasible"}
                 PROVE  v.att <= u.att
      BY DEF MeasuredOnce
    <3>1. u \in visits BY <2>2, <2>3
    <3>2. v # row
      <4> SUFFICES ASSUME v = row PROVE FALSE OBVIOUS
      <4>1. Handled(c, rnd) BY <2>3, <3>1 DEF Handled, Of
      <4> QED BY <2>1, <4>1
    <3> QED BY <1>1, <2>2, <3>1, <3>2 DEF MeasuredOnce
  <2>6. now'.cand = c /\ now'.att = next[c] /\ next'[c] = next[c] + 1 BY <1>0, <2>2
  <2>7. \A d \in todo' : ~Handled(d, rnd') BY <1>1, <2>1, <2>2 DEF Visiting
  <2> QED BY <2>1, <2>2, <2>4, <2>5, <2>6, <2>7 DEF MeasuredInv
<1>10. CASE VisitEnds
  <2>1. /\ pc = "visit" /\ pc' \in {"round", "bad"} /\ UNCHANGED <<todo, rnd>>
        /\ \E s \in {"counted", "aborted", "infeasible"} : visits' = Closed(Mine, s)
    BY <1>10 DEF VisitEnds
  <2>2. MeasuredOnce' /\ \A c, q : Handled(c, q)' => Handled(c, q) \/ c = now.cand BY <1>0, <1>5, <1>6, <2>1
  <2> QED BY <1>1, <2>1, <2>2 DEF MeasuredInv, Visiting
<1>11. CASE VisitDrifts
  <2>1. /\ pc = "visit" /\ pc' \in {"round", "cool", "finish"} /\ UNCHANGED <<todo, rnd, now>>
        /\ visits' = Closed(Mine, "drifted")
    BY <1>11 DEF VisitDrifts
  <2>2. MeasuredOnce' /\ \A c, q : Handled(c, q)' => Handled(c, q) BY <1>0, <1>5, <2>1
  <2> QED BY <1>1, <2>1, <2>2 DEF MeasuredInv, Visiting
<1>12. CASE VisitBad \/ Cooled
  <2>1. /\ UNCHANGED <<visits, rnd, now>> /\ todo' \subseteq todo /\ pc' \notin {"visit", "cool"}
        /\ Visiting' => Visiting
        /\ pc' = "retry" => pc = "cool" /\ cool = "cliff"
    BY <1>12 DEF VisitBad, Cooled, Visiting
  <2> QED BY <1>1, <1>7, <2>1 DEF MeasuredInv
<1>13. CASE Resume \/ GuardPort
  <2>1. /\ UNCHANGED visits \/ visits' = Closed(Running, "lost")
        /\ pc' \in {"idle", "guard", "next"} \/ (pc' = "cool" /\ cool' = "resume")
    BY <1>13 DEF Resume, GuardPort, Forgets
  <2>2. MeasuredOnce' BY <1>0, <1>5, <1>7, <2>1
  <2> QED BY <2>1, <2>2 DEF MeasuredInv, Visiting
<1>14. CASE Finish
  <2>1. (UNCHANGED visits \/ visits' = Closed(Running, "lost")) /\ pc' = "end" BY <1>14 DEF Finish
  <2>2. MeasuredOnce' BY <1>0, <1>5, <1>7, <2>1
  <2> QED BY <2>1, <2>2 DEF MeasuredInv, Visiting
<1>15. CASE Stop
  <2>1. /\ pc' = "finish"
        /\ \/ UNCHANGED visits
           \/ pc = "visit" /\ \E s \in {"aborted", "counted", "drifted"} : visits' = Closed(Mine, s)
    BY <1>15 DEF Stop
  <2>2. MeasuredOnce' BY <1>0, <1>5, <1>6, <1>7, <2>1
  <2> QED BY <2>1, <2>2 DEF MeasuredInv, Visiting
<1>16. CASE EndForBaseline \/ Close
  <2>1. visits' = Running /\ pc' \in {"next", "finish"} BY <1>16 DEF EndForBaseline, Close
  <2>2. MeasuredOnce' BY <1>0, <1>1, <2>1 DEF MeasuredOnce
  <2> QED BY <2>1, <2>2 DEF MeasuredInv, Visiting
<1>17. CASE Score
  <2>1. UNCHANGED visits /\ (pc' = "elim" \/ (pc' = "cool" /\ cool' = "drift")) BY <1>17 DEF Score
  <2> QED BY <1>7, <2>1 DEF MeasuredInv, Visiting
<1>18. CASE EndVisits \/ EndLoop \/ Refine \/ Eliminate \/ Cut \/ EndSweep \/ StopUncaught \/ Crash
            \/ Start \/ Register \/ RecordRejected \/ FinishFails
  <2>1. /\ UNCHANGED visits
        /\ pc' \in {"score", "finish", "refine", "next", "cut", "close", "idle", "register", "reject", "empty"}
    BY <1>18 DEF EndVisits, EndLoop, Refine, Eliminate, Cut, EndSweep, StopUncaught, Crash, Start, Register,
       RecordRejected, FinishFails, Forgets
  <2> QED BY <1>7, <2>1 DEF MeasuredInv, Visiting
<1>19. CASE UNCHANGED vars
  <2>1. UNCHANGED <<visits, pc, cool, todo, rnd, now, next>> BY <1>19 DEF vars
  <2> QED BY <1>1, <1>7, <2>1 DEF MeasuredInv, Visiting
<1> QED
  BY <1>8, <1>9, <1>10, <1>11, <1>12, <1>13, <1>14, <1>15, <1>16, <1>17, <1>18, <1>19 DEF Next, Step

-----------------------------------------------------------------------------
(* Eliminations *)

\* A candidate enters the cut on its evidence, which stays until it is cut.
LEMMA CutStep == ASSUME RowsOK, CutInv, [Next]_vars PROVE CutInv'
<1> USE DEF db, mem, env
<1>1. CASE Eliminate
  <2>1. pc' = "cut" => \A c \in cut' : c # Base /\ ~MustBeThin(c) BY <1>1 DEF Eliminate
  <2> QED BY <1>1, <2>1 DEF Eliminate, MustBeThin, CutInv, Counted, Of
<1>2. CASE Cut BY <1>2 DEF Cut, CutInv, Counted, Of
<1>3. CASE UNCHANGED vars BY <1>3 DEF vars, CutInv, Counted, Of
<1>4. CASE ~(Eliminate \/ Cut \/ UNCHANGED vars)
  <2>1. pc' # "cut"
    BY <1>4 DEF Next, Step, GuardPort, OpenRound, EndForBaseline, EndLoop, Refine, Visit, OpenVisit, EndVisits, VisitEnds, VisitBad,
       VisitDrifts, Cooled, Score, Close, Finish, EndSweep, Stop, StopUncaught, Crash, Start, Register, RecordRejected, FinishFails, Resume, vars, Forgets
  <2> QED BY <2>1 DEF CutInv
<1> QED BY <1>1, <1>2, <1>3, <1>4

\* Only Cut changes eliminated_round, of a member of the cut.
LEMMA ElimMoves ==
  ASSUME RowsOK, [Next]_vars
  PROVE  \/ UNCHANGED elim
         \/ pc = "cut" /\ \E c \in cut : elim' = [elim EXCEPT ![c] = rnd] /\ UNCHANGED <<rounds, visits>>
<1> USE DEF db, mem, env
<1>1. CASE Cut BY <1>1 DEF Cut
<1>2. CASE ~Cut
  BY <1>2 DEF Next, Step, Eliminate, GuardPort, OpenRound, EndForBaseline, EndLoop, Refine, Visit, OpenVisit, EndVisits, VisitEnds, VisitBad,
     VisitDrifts, Cooled, Score, Close, Finish, EndSweep, Stop, StopUncaught, Crash, Start, Register, RecordRejected, FinishFails, Resume, vars, Forgets
<1> QED BY <1>1, <1>2

-----------------------------------------------------------------------------
(* Visits *)

\* But for the end of a round, no step drops a row.
LEMMA RowsStay ==
  ASSUME TypeOK, [Next]_vars, ~Close, ~EndForBaseline, NEW c, NEW r, Of(c, r) # {}
  PROVE  Of(c, r)' # {}
<1>0. visits \subseteq VisitRows /\ Running \subseteq visits /\ Mine \subseteq visits
  BY DEF TypeOK, VisitRows, Running, Mine
<1>1. {"lost", "counted", "aborted", "infeasible", "drifted"} \subseteq VisitSt BY DEF VisitSt
<1>2. \/ visits \subseteq visits'
      \/ \E x \in {Running, Mine}, st \in {"lost", "counted", "aborted", "infeasible", "drifted"} :
           visits' = Closed(x, st)
  <2> USE <1>0 DEF db, mem, env
  <2>1. CASE Start \/ Register \/ RecordRejected \/ FinishFails \/ OpenRound \/ EndLoop \/ Refine \/ EndVisits \/ VisitBad \/ Cooled \/ Score
    BY <2>1 DEF Start, Register, RecordRejected, FinishFails, OpenRound, EndLoop, Refine, EndVisits, VisitBad, Cooled, Score
  <2>2. CASE Eliminate \/ Cut \/ EndSweep \/ StopUncaught \/ Crash \/ UNCHANGED vars
    BY <2>2 DEF Eliminate, Cut, EndSweep, StopUncaught, Crash, vars
  <2>3. CASE Visit BY <2>3 DEF Visit, OpenVisit
  <2>4. CASE Resume \/ GuardPort BY <2>4 DEF Resume, GuardPort
  <2>5. CASE VisitEnds BY <2>5 DEF VisitEnds
  <2>6. CASE VisitDrifts BY <2>6 DEF VisitDrifts
  <2>7. CASE Finish \/ Stop BY <2>7 DEF Finish, Stop
  <2> QED BY <2>1, <2>2, <2>3, <2>4, <2>5, <2>6, <2>7 DEF Next, Step
<1>3. \A u \in visits : \E v \in visits' : v.cand = u.cand /\ v.rnd = u.rnd
  <2>1. CASE visits \subseteq visits' BY <2>1
  <2>2. ASSUME NEW x \in {Running, Mine}, NEW st \in {"lost", "counted", "aborted", "infeasible", "drifted"},
               visits' = Closed(x, st)
        PROVE  \A u \in visits : \E v \in visits' : v.cand = u.cand /\ v.rnd = u.rnd
    <3>1. x \in SUBSET visits /\ st \in VisitSt BY <1>0, <1>1
    <3> QED BY <1>0, <2>2, <3>1, ClosedKeeps
  <2> QED BY <1>2, <2>1, <2>2
<1> QED BY <1>3 DEF Of

\* The end of a round leaves its row closed.
LEMMA RoundEnds ==
  ASSUME RowsOK, Close \/ EndForBaseline
  PROVE  /\ Len(rounds') \in Nat /\ Len(rounds') >= Len(rounds) /\ ~rounds'[Len(rounds')].open
         /\ UNCHANGED elim /\ pc' \in {"finish", "next"}
         /\ EndForBaseline => reason' = "baseline"
         /\ Close => Len(rounds') = Len(rounds) /\ \A i \in 1..Len(rounds) : rounds'[i] # rounds[i] => i = rnd
<1>0. rounds \in Seq(Rows) /\ Len(rounds) \in Nat /\ rnd \in Nat /\ base \in BOOLEAN
  BY DEF RowsOK, TypeOK, Rows
<1>1. CASE Close
  <2> DEFINE e == [[rounds[rnd] EXCEPT !.open = FALSE] EXCEPT !.base = base]
  <2>1. rnd = Len(rounds) /\ rnd \in 1..Len(rounds) BY <1>0, <1>1 DEF Close, RowsOK, PlaceInv, AtRound
  <2>2. rounds' = [rounds EXCEPT ![rnd] = e] BY <1>0, <1>1, <2>1 DEF Close
  <2>3. rounds[rnd] \in Rows BY <1>0, <2>1
  <2>4. e \in Rows /\ ~e.open BY <1>0, <2>3 DEF Rows
  <2> HIDE DEF e
  <2>5. /\ Len(rounds') = Len(rounds)
        /\ \A i \in 1..Len(rounds) : rounds'[i] = IF i = rnd THEN e ELSE rounds[i]
    BY <1>0, <2>1, <2>2, <2>4, ExceptSeq
  <2>6. pc = "close" BY <1>1 DEF Close
  <2>7. ~EndForBaseline BY <2>6 DEF EndForBaseline
  <2>8. UNCHANGED elim /\ pc' \in {"finish", "next"} BY <1>1 DEF Close
  <2> QED BY <1>0, <2>1, <2>4, <2>5, <2>7, <2>8
<1>2. CASE EndForBaseline
  <2> DEFINE r == IF pc = "next" THEN rnd + 1 ELSE rnd
  <2>0. rounds' = IF r > Len(rounds) THEN Append(rounds, [NewRow(r) EXCEPT !.open = FALSE])
                                     ELSE [rounds EXCEPT ![r].open = FALSE]
    BY <1>2 DEF EndForBaseline
  <2>1. pc # "close" BY <1>2 DEF EndForBaseline
  <2>2. ~Close BY <2>1 DEF Close
  <2>5. UNCHANGED elim /\ pc' = "finish" /\ reason' = "baseline" BY <1>2 DEF EndForBaseline
  <2>3. CASE pc = "next" /\ rnd = Len(rounds)
    <3>1. More /\ r = rnd + 1 /\ r > Len(rounds) BY <1>0, <1>2, <2>3 DEF EndForBaseline
    <3>2. NewRow(rnd + 1) \in Rows BY <2>3, <3>1, NewRowTyped
    <3> DEFINE e == [NewRow(rnd + 1) EXCEPT !.open = FALSE]
    <3>3. rounds' = Append(rounds, e) BY <2>0, <3>1
    <3>4. e \in Rows /\ ~e.open BY <3>2 DEF Rows
    <3> HIDE DEF e
    <3>5. Len(rounds') = Len(rounds) + 1 /\ rounds'[Len(rounds')] = e BY <1>0, <3>3, <3>4
    <3> QED BY <1>0, <2>2, <2>5, <3>4, <3>5
  <2>4. CASE ~(pc = "next" /\ rnd = Len(rounds))
    <3>1. r = Len(rounds) /\ r \in 1..Len(rounds)
      BY <1>0, <1>2, <2>4 DEF EndForBaseline, RowsOK, PlaceInv, AtRound, Between
    <3> DEFINE e == [rounds[r] EXCEPT !.open = FALSE]
    <3>2. rounds' = [rounds EXCEPT ![r] = e]
      <4>1. ~(r > Len(rounds)) BY <1>0, <3>1
      <4> HIDE DEF r
      <4> QED BY <2>0, <4>1
    <3>3. rounds[r] \in Rows BY <1>0, <3>1
    <3> HIDE DEF r
    <3>4. e \in Rows /\ ~e.open BY <3>3 DEF Rows
    <3> HIDE DEF e
    <3>5. Len(rounds') = Len(rounds) /\ rounds'[r] = e BY <1>0, <3>1, <3>2, <3>4, ExceptSeq
    <3> QED BY <1>0, <2>2, <2>5, <3>1, <3>4, <3>5
  <2> QED BY <2>3, <2>4
<1> QED BY <1>1, <1>2

\* Every step keeps the visits of those eliminated in the open round.
LEMMA ElimVisited == ASSUME RowsOK, CutInv, ElimHasRow, [Next]_vars PROVE ElimHasRow'
<1> USE DEF ElimHasRow
<1>0. /\ rounds \in Seq(Rows) /\ Len(rounds) \in Nat /\ elim \in [Cands -> Nat] /\ cut \subseteq Cands
      /\ rounds' \in Seq(Rows) /\ Len(rounds') \in Nat
  BY TileStep DEF RowsOK, TypeOK, Rows
<1>1. \A c \in Cands : elim[c] <= Len(rounds) OBVIOUS
<1>2. CASE Close \/ EndForBaseline BY <1>0, <1>1, <1>2, RoundEnds
<1>3. CASE OpenRound /\ ~UNCHANGED rounds
  <2>1. Len(rounds') = Len(rounds) + 1
    <3>1. rounds' = Append(rounds, NewRow(rnd + 1)) /\ rnd = Len(rounds) /\ pc = "next" /\ More
      BY <1>0, <1>3 DEF OpenRound, RowsOK, PlaceInv, Between
    <3>2. NewRow(rnd + 1) \in Rows BY <3>1, NewRowTyped
    <3> QED BY <1>0, <3>1, <3>2
  <2>2. UNCHANGED elim BY <1>3 DEF OpenRound
  <2> QED BY <1>0, <1>1, <2>1, <2>2
<1>4. CASE ~(Close \/ EndForBaseline) /\ UNCHANGED rounds
  <2>1. \A c \in Cands : Len(rounds) > 0 /\ rounds[Len(rounds)].open /\ elim[c] = Len(rounds)
                           => Of(c, Len(rounds))' # {}
    BY <1>4, RowsStay DEF RowsOK
  <2>2. CASE UNCHANGED elim BY <1>0, <1>1, <1>4, <2>1, <2>2
  <2>3. ASSUME pc = "cut", NEW d \in cut, elim' = [elim EXCEPT ![d] = rnd], UNCHANGED visits
        PROVE  \A c \in Cands : /\ elim'[c] <= Len(rounds)
                                /\ Len(rounds) > 0 /\ rounds[Len(rounds)].open /\ elim'[c] = Len(rounds)
                                     => Of(c, Len(rounds))' # {}
    <3>1. rnd = Len(rounds) BY <2>3 DEF RowsOK, PlaceInv, AtRound
    <3>2. Of(d, rnd) # {} BY <2>3 DEF CutInv, Counted
    <3>3. Of(d, Len(rounds))' # {} BY <1>4, <2>3, <3>1, <3>2 DEF Of
    <3> QED BY <1>0, <1>1, <1>4, <2>1, <2>3, <3>1, <3>3
  <2> QED BY <1>4, <2>2, <2>3, ElimMoves
<1>5. CASE ~(Close \/ EndForBaseline \/ OpenRound)
  <2>1. UNCHANGED rounds
    BY <1>5 DEF Next, Step, Start, Register, RecordRejected, FinishFails, Resume, GuardPort, EndLoop, Refine, Visit, EndVisits, VisitEnds,
       VisitBad, VisitDrifts, Cooled, Score, Eliminate, Cut, Finish, EndSweep, Stop, StopUncaught, Crash, db, vars
  <2> QED BY <1>4, <1>5, <2>1
<1> QED BY <1>2, <1>3, <1>4, <1>5

\* Every step of a round keeps that so.
LEMMA AliveStep == ASSUME RowsOK, AliveVisited, [Next]_vars PROVE AliveVisited'
<1>0. \A c, r : Of(c, r) # {} /\ ~Close /\ ~EndForBaseline => Of(c, r)' # {} BY RowsStay DEF RowsOK
<1>a. /\ cool \in {"cliff", "drift", "resume"} /\ rnd \in Nat BY DEF RowsOK, TypeOK
<1> USE DEF AliveVisited, Visiting, db, mem, env
<1>1. CASE OpenRound
  <2>1. \A c \in Cands : Handled(c, rnd') => Of(c, rnd') # {} BY DEF Handled
  <2>2. /\ pc' \in {"round", "empty"} /\ UNCHANGED <<alive, visits>> /\ todo' = {c \in alive : ~Handled(c, rnd')}
    BY <1>1 DEF OpenRound
  <2>3. \A c \in alive' : c \in todo' \/ Of(c, rnd)' # {} BY <2>1, <2>2 DEF Of, Handled, RowsOK, TypeOK
  <2> QED BY <2>2, <2>3
<1>2. CASE Visit
  <2>1. /\ UNCHANGED <<alive, rnd, bad, base, cool>> /\ pc \in {"retry", "round"}
        /\ pc' \in {"round", "visit", "collided"} /\ ~Close /\ ~EndForBaseline
    BY <1>2 DEF Visit, OpenVisit, Close, EndForBaseline
  <2>2. \A c \in todo \ todo' : Of(c, rnd)' # {}
    <3>1. CASE UNCHANGED todo BY <3>1
    <3>2. ASSUME NEW c \in todo, OpenVisit(c, FALSE), todo' = todo \ {c} PROVE \A d \in todo \ todo' : Of(d, rnd)' # {}
      <4>1. CASE Of(c, rnd) # {} BY <1>0, <2>1, <3>2, <4>1
      <4>2. CASE Of(c, rnd) = {}
        <5>1. [cand |-> c, rnd |-> rnd, att |-> next[c], st |-> "running"] \in visits'
          BY <3>2, <4>2 DEF OpenVisit
        <5>2. Of(c, rnd)' # {} BY <2>1, <5>1 DEF Of
        <5> QED BY <3>2, <5>2
      <4> QED BY <4>1, <4>2
    <3> QED BY <1>2, <3>1, <3>2 DEF Visit
  <2>3. ~Unusable' => ~Unusable BY <2>1 DEF Unusable
  <2>4. ~Unusable => \A c \in alive \ {Base} : c \in todo \/ Of(c, rnd)' # {} BY <1>0, <2>1
  <2>6. ~Unusable => \A c \in alive \ {Base} : c \in todo' \/ Of(c, rnd)' # {} BY <2>2, <2>4
  <2> QED BY <2>1, <2>3, <2>6
<1>3. CASE VisitBad
  <2>1. ~Unusable' => UNCHANGED todo /\ ~Unusable BY <1>3 DEF VisitBad, Unusable
  <2>2. /\ pc = "bad" /\ pc' = "round" /\ UNCHANGED <<alive, rnd, visits>> BY <1>3 DEF VisitBad
  <2> QED BY <2>1, <2>2 DEF Of
<1>4. CASE EndVisits
  <2>1. /\ pc = "round" /\ pc' \in {"score", "finish"} /\ (pc' = "score" => todo = {})
        /\ UNCHANGED <<alive, rnd, visits, bad, base>>
    BY <1>4 DEF EndVisits
  <2> QED BY <2>1 DEF Of, Unusable
<1>5. CASE VisitEnds \/ VisitDrifts
  <2>1. /\ pc = "visit" /\ UNCHANGED <<alive, todo, rnd, bad, base>> /\ ~Close /\ ~EndForBaseline
        /\ pc' \in {"round", "bad", "cool", "finish"} /\ (pc' = "cool" => cool' = "cliff")
    BY <1>5 DEF VisitEnds, VisitDrifts, Close, EndForBaseline
  <2>2. ~Unusable => \A c \in alive \ {Base} : c \in todo \/ Of(c, rnd)' # {} BY <1>0, <2>1
  <2>3. ~Unusable' => ~Unusable BY <2>1 DEF Unusable
  <2> QED BY <2>1, <2>2, <2>3
<1>6. CASE Cooled
  <2>1. /\ pc = "cool" /\ UNCHANGED <<alive, todo, rnd, visits, bad, base>>
        /\ pc' \in {"retry", "round", "finish", "elim", "guard"}
        /\ (pc' = "elim" => cool = "drift") /\ (pc' \in {"retry", "round"} => cool = "cliff")
    BY <1>6 DEF Cooled
  <2> QED BY <2>1 DEF Of, Unusable
<1>7. CASE Score
  <2>1. /\ pc = "score" /\ ~Unusable /\ alive' \subseteq alive /\ UNCHANGED <<rnd, visits>>
        /\ (pc' = "elim" \/ (pc' = "cool" /\ cool' = "drift"))
    BY <1>7 DEF Score
  <2> QED BY <2>1 DEF Of
<1>8. CASE Eliminate
  <2>1. /\ pc = "elim" /\ alive' \subseteq alive \cup {Base} /\ UNCHANGED <<rnd, visits>> /\ pc' \in {"cut", "close"}
    BY <1>8 DEF Eliminate
  <2> QED BY <2>1 DEF Of
<1>9. CASE Cut
  <2>1. pc = "cut" /\ pc' \in {"cut", "close"} /\ UNCHANGED <<rnd, visits, alive>> BY <1>9 DEF Cut
  <2> QED BY <2>1 DEF Of
<1>10. CASE UNCHANGED vars BY <1>10 DEF vars, Of, Unusable
<1>11. CASE Start \/ Register \/ RecordRejected \/ FinishFails \/ Resume \/ GuardPort \/ EndForBaseline \/ EndLoop \/ Refine \/ Close \/ Finish
            \/ EndSweep \/ Stop \/ StopUncaught \/ Crash
  <2>1. pc' \in {"register", "reject", "next", "idle", "empty", "guard", "finish", "refine", "end"} \/ (pc' = "cool" /\ cool' = "resume")
    BY <1>11 DEF Start, Register, RecordRejected, FinishFails, Resume, GuardPort, EndForBaseline, EndLoop, Refine, Close, Finish, EndSweep, Stop,
       StopUncaught, Crash, Forgets
  <2> QED BY <2>1
<1> QED BY <1>1, <1>2, <1>3, <1>4, <1>5, <1>6, <1>7, <1>8, <1>9, <1>10, <1>11 DEF Next, Step

-----------------------------------------------------------------------------
(* Stops *)

\* What closing rows leaves running.
LEMMA ClosedRuns ==
  ASSUME TypeOK, NEW vs \in SUBSET visits, NEW s \in VisitSt \ {"running"}, visits' = Closed(vs, s)
  PROVE  Running' \subseteq Running \ vs
BY DEF Running, Closed, TypeOK

\* A step opens a row or a pause only as its own.
LEMMA StopStep == ASSUME RowsOK, StopInv, [Next]_vars PROVE StopInv'
<1> SUFFICES ASSUME ~lost' PROVE StopInv' BY DEF StopInv
<1> USE DEF db, mem, env
<1>0. /\ TypeOK /\ lost \in BOOLEAN /\ Running \subseteq visits /\ Mine \subseteq Running
      /\ cool \in {"cliff", "drift", "resume"}
  BY DEF RowsOK, TypeOK, Running, Mine
<1>1. ~lost
  BY <1>0 DEF Next, Step, Start, Register, RecordRejected, FinishFails, Resume, GuardPort, OpenRound, EndForBaseline, EndLoop, Refine, Visit, OpenVisit,
     EndVisits, VisitEnds, VisitBad, VisitDrifts, Cooled, Score, Eliminate, Cut, Close, Finish, EndSweep, Stop,
     StopUncaught, Crash, vars
<1>2. /\ pc = "visit" => Running \subseteq Mine
      /\ pc # "visit" /\ ~(pc = "finish" /\ reason = "interrupted") => Running = {}
      /\ pause = "open" => pc = "cool" \/ (pc = "finish" /\ reason = "interrupted")
  BY <1>1 DEF StopInv
<1>3. \A vs \in SUBSET visits, s \in {"lost", "counted", "aborted", "infeasible", "drifted"} :
        visits' = Closed(vs, s) => Running' \subseteq Running \ vs
  BY <1>0, ClosedRuns DEF VisitSt
<1>4. UNCHANGED visits => Running' = Running BY DEF Running
<1>5. CASE Visit
  <2>1. PICK c, b : OpenVisit(c, b) BY <1>5 DEF Visit
  <2>2. Running = {} /\ pause # "open" /\ UNCHANGED <<pause, rnd>> BY <1>2, <1>5 DEF Visit
  <2> DEFINE row == [cand |-> c, rnd |-> rnd, att |-> next[c], st |-> "running"]
  <2>3. now' = [cand |-> c, att |-> next[c], retry |-> b] /\ pc' \in {"round", "visit", "collided"}
    BY <2>1 DEF OpenVisit
  <2>4. CASE visits' = visits /\ pc' # "visit" BY <1>4, <2>2, <2>3, <2>4 DEF StopInv
  <2>5. CASE visits' = visits \cup {row} /\ pc' = "visit"
    <3>1. Running' \subseteq {row} BY <2>2, <2>5 DEF Running
    <3>2. row.cand = c /\ row.rnd = rnd /\ row.att = next[c] /\ now'.cand = c /\ now'.att = next[c] BY <2>3
    <3>3. Running' \subseteq Mine' BY <2>2, <3>1, <3>2 DEF Mine
    <3> QED BY <2>2, <2>5, <3>3 DEF StopInv
  <2>6. (visits' = visits /\ pc' # "visit") \/ (visits' = visits \cup {row} /\ pc' = "visit")
    BY <1>0, <2>1 DEF OpenVisit
  <2> QED BY <2>4, <2>5, <2>6
<1>6. CASE VisitEnds \/ VisitDrifts
  <2>1. /\ pc = "visit" /\ pc' # "visit" /\ (pause' = "open" => pause = "open" \/ pc' = "cool")
        /\ \E s \in {"lost", "counted", "aborted", "infeasible", "drifted"} : visits' = Closed(Mine, s)
    BY <1>6 DEF VisitEnds, VisitDrifts
  <2>2. Running' = {} BY <1>0, <1>2, <1>3, <2>1
  <2> QED BY <1>2, <2>1, <2>2 DEF StopInv
<1>7. CASE Resume \/ GuardPort
  <2>1. /\ pc \in Ended \cup {"guard"} /\ pc' # "visit" /\ pc' # "finish"
        /\ pause' = "open" => pause = "open" \/ pc' = "cool"
        /\ UNCHANGED visits \/ visits' = Closed(Running, "lost")
    BY <1>7 DEF Resume, GuardPort, Forgets
  <2>2. Running' = {} BY <1>0, <1>2, <1>3, <1>4, <2>1 DEF Ended
  <2> QED BY <1>2, <2>1, <2>2 DEF StopInv, Ended
<1>8. CASE Finish
  <2>1. CASE reason = "interrupted"
    <3>1. visits' = Closed(Running, "lost") /\ pause' # "open" /\ pc' = "end" BY <1>8, <2>1 DEF Finish
    <3>2. Running' = {} BY <1>0, <1>3, <3>1
    <3> QED BY <3>1, <3>2 DEF StopInv
  <2>2. CASE reason # "interrupted"
    <3>1. pc = "finish" /\ UNCHANGED <<visits, pause>> /\ pc' = "end" BY <1>8, <2>2 DEF Finish
    <3> QED BY <1>2, <1>4, <2>2, <3>1 DEF StopInv
  <2> QED BY <2>1, <2>2
<1>9. CASE Stop
  <2>1. pc' = "finish" /\ reason' = "interrupted" BY <1>9 DEF Stop
  <2> QED BY <2>1 DEF StopInv
<1>10. CASE EndForBaseline \/ Close
  <2>1. /\ pc \in {"next", "score", "close"} /\ pc' \in {"next", "finish"} /\ visits' = Running /\ UNCHANGED pause
    BY <1>10 DEF EndForBaseline, Close
  <2>2. Running' = {} BY <1>2, <2>1 DEF Running
  <2> QED BY <1>2, <2>1, <2>2 DEF StopInv
<1>11. CASE StopUncaught
  <2>1. lost' = TRUE BY <1>11 DEF StopUncaught
  <2> QED BY <2>1
<1>12. CASE Crash
  <2>1. pc \in Ended /\ pc' = "idle" /\ UNCHANGED <<visits, pause>> BY <1>12 DEF Crash, Forgets
  <2> QED BY <1>2, <1>4, <2>1 DEF StopInv, Ended
<1>13. CASE UNCHANGED vars
  <2>1. UNCHANGED <<visits, pause, pc, reason, now, rnd>> BY <1>13 DEF vars
  <2> QED BY <1>2, <2>1 DEF StopInv, Running, Mine
<1>14. CASE \/ Start \/ Register \/ RecordRejected \/ FinishFails \/ OpenRound \/ EndLoop \/ Refine \/ EndVisits \/ VisitBad \/ Score
            \/ Cooled \/ Eliminate \/ Cut \/ EndSweep
  <2>1. /\ pc \notin {"visit", "finish"} /\ pc' # "visit" /\ UNCHANGED visits
        /\ pause' = "open" => pc' = "cool" \/ pause = "open"
        /\ pause = "open" /\ pc = "cool" => pause' # "open"
    BY <1>14 DEF Start, Register, RecordRejected, FinishFails, OpenRound, EndLoop, Refine, EndVisits, VisitBad, Score, Cooled, Eliminate, Cut, EndSweep,
       Forgets, Ended
  <2> QED BY <1>2, <1>4, <2>1 DEF StopInv
<1> QED
  BY <1>5, <1>6, <1>7, <1>8, <1>9, <1>10, <1>11, <1>12, <1>13, <1>14 DEF Next, Step

-----------------------------------------------------------------------------
(* Theorems *)

IndInv == RowsOK /\ AttemptsUnique /\ MeasuredInv /\ CutInv /\ ElimHasRow /\ AliveVisited /\ StopInv

\* A sweep starts with no rows.
LEMMA InitInv == Init => IndInv
<1> SUFFICES ASSUME Init PROVE IndInv OBVIOUS
<1>1. Base \in Cands BY TuneAssumption
<1>2. PlainOK BY DEF Init, PlainOK, Ended
<1>3. SetsOK BY DEF Init, SetsOK
<1>4. NowOK BY <1>1 DEF Init, NowOK, Idle
<1>5. VisitsOK BY DEF Init, VisitsOK
<1>6. BoolsOK BY DEF Init, BoolsOK, Verdicts
<1>7. rounds \in Seq(Rows) BY DEF Init
<1>8. TypeOK BY <1>2, <1>3, <1>4, <1>5, <1>6, <1>7, TypeParts
<1>9. SlicesTile /\ RowsInv /\ PlaceInv BY DEF Init, SlicesTile, RowsInv, PlaceInv, AtRound, Between
<1>10. AttInv BY DEF Init, AttInv, Visiting
<1> QED BY <1>8, <1>9, <1>10
        DEF Init, IndInv, RowsOK, AttemptsUnique, MeasuredInv, MeasuredOnce, CutInv, ElimHasRow, AliveVisited,
            Visiting, StopInv, Running

\* The inductive step.
LEMMA IndStep == IndInv /\ [Next]_vars => IndInv'
<1> SUFFICES ASSUME IndInv, [Next]_vars PROVE IndInv' OBVIOUS
<1>1. RowsOK' BY TypeStep, TileStep, PlaceStep, AttStep DEF IndInv, RowsOK, RowsInv
<1> QED BY <1>1, AttStep, MeasureStep, CutStep, ElimVisited, AliveStep, StopStep DEF IndInv

\* The invariant holds of every sweep.
LEMMA Invariance == Spec => []IndInv
BY InitInv, IndStep, PTL DEF Spec

\* The rows and the task's state are as typed.
THEOREM TypeCorrect == Spec => []TypeOK
<1>1. IndInv => TypeOK BY DEF IndInv, RowsOK
<1> QED BY <1>1, Invariance, PTL

\* No visit meets the UNIQUE index, however often the sweep was stopped, died
\* and was resumed.
THEOREM AttemptsAreUnique == Spec => []AttemptsUnique
<1>1. IndInv => AttemptsUnique BY DEF IndInv
<1> QED BY <1>1, Invariance, PTL

\* The rounds' slices tile the tier.
THEOREM SlicesAlwaysTile == Spec => []SlicesTile
<1>1. IndInv => SlicesTile BY DEF IndInv, RowsOK
<1> QED BY <1>1, Invariance, PTL

\* A sweep that was stopped leaves no row open, unless its catch was missed.
THEOREM StopsCloseRows == Spec => []StopClosesRows
<1>1. IndInv => StopClosesRows BY DEF IndInv, StopInv, StopClosesRows
<1> QED BY <1>1, Invariance, PTL

\* No round measures a candidate again once it has its outcome.
THEOREM RoundsMeasureOnce == Spec => []MeasuredOnce
<1>1. IndInv => MeasuredOnce BY DEF IndInv, MeasuredInv
<1> QED BY <1>1, Invariance, PTL

\* A round is decided only when every survivor has been visited in it.
THEOREM DecidedWhenVisited == Spec => ClosedRoundsVisited
<1>1. ASSUME IndInv, [Next]_vars, NEW i \in 1..Len(rounds), rounds[i].open, ~rounds'[i].open, reason' # "baseline",
             NEW c \in Cands \ {Base}, c \in alive \/ elim[c] = i
      PROVE  Of(c, i) # {}
  <2>0. RowsOK /\ rounds \in Seq(Rows) /\ Len(rounds) \in Nat BY <1>1, SMTT(60) DEF IndInv, RowsOK, TypeOK, Rows
  <2>1. i = Len(rounds) BY <1>1 DEF IndInv, RowsOK, SlicesTile
  <2>2. ~EndForBaseline BY <1>1, <2>0, RoundEnds
  <2>3. ~OpenRound
    <3> SUFFICES ASSUME OpenRound PROVE FALSE OBVIOUS
    <3>1. \/ UNCHANGED rounds
          \/ pc = "next" /\ rnd = Len(rounds)
      BY <2>0 DEF OpenRound, RowsOK, PlaceInv, Between
    <3>2. rnd = Len(rounds) /\ pc = "next" BY <1>1, <3>1
    <3> QED BY <1>1, <2>0, <2>1, <3>2 DEF RowsOK, PlaceInv, Between
  <2>4. Close
    <3> SUFFICES ASSUME ~Close PROVE UNCHANGED rounds BY <1>1
    <3> QED BY <1>1, <2>2, <2>3 DEF Next, Step, Start, Register, RecordRejected, FinishFails, Resume, GuardPort, EndLoop, Refine, Visit, EndVisits,
       VisitEnds, VisitBad, VisitDrifts, Cooled, Score, Eliminate, Cut, Finish, EndSweep, Stop, StopUncaught,
       Crash, db, vars
  <2>5. pc = "close" /\ rnd = i BY <2>0, <2>1, <2>4 DEF Close, RowsOK, PlaceInv, AtRound
  <2>6. CASE c \in alive BY <1>1, <2>5, <2>6 DEF IndInv, AliveVisited
  <2>7. CASE elim[c] = i BY <1>1, <2>0, <2>1, <2>7 DEF IndInv, ElimHasRow
  <2> QED BY <1>1, <2>6, <2>7
<1>2. IndInv /\ [Next]_vars =>
        [\A i \in 1..Len(rounds) : rounds[i].open /\ ~rounds'[i].open /\ reason' # "baseline" =>
           \A c \in Cands \ {Base} : c \in alive \/ elim[c] = i => Of(c, i) # {}]_vars
  BY <1>1
<1> QED BY <1>2, Invariance, PTL DEF Spec, ClosedRoundsVisited
=============================================================================
