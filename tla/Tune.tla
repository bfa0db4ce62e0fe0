-------------------------------- MODULE Tune --------------------------------
(***************************************************************************)
(* A tune sweep (benchmarks/tuning/tune.py): candidates are visited round  *)
(* by round on slices of the tier's items, the slow ones are eliminated,   *)
(* the leader's neighbours are tried in refine rounds, and a verdict is    *)
(* recorded.  The sweep's task may be stopped (CancelledError) or die with *)
(* the backend between any two awaits, and a later resume goes on from the *)
(* rows the database holds.                                                *)
(*                                                                         *)
(* Throughput is abstracted: which candidates are thin, how the others     *)
(* rank, whether the baseline drifted and who beats it are choices, within *)
(* what the counted visits allow.  The rotation of a round's order is any  *)
(* order.  Whether the budget is spent is a choice wherever the code asks. *)
(***************************************************************************)
EXTENDS Integers, Sequences, FiniteSets

CONSTANTS Cands,       \* candidates, the explore draw and the refine ones
          Draw,        \* the explore draw: sample_candidates
          Base,        \* the baseline: the profile's own defaults
          Budget,      \* budget.candidates; the draw may have fewer
          Eta, RoundItems, Tier,  \* eta, round_items, len(items)
          OnDrift,     \* the values of on_drift, 'cooldown' with the mode its
                       \* budget falls back to
          PidReused,   \* a dead backend's pid may be another process's
          MaxFaults    \* bound: visits and cooldowns that fail, drifts, stops,
                       \* deaths, refusals, budgets, and resumes of a sweep
                       \* with a verdict, of all runs together

\* ceil(log_eta n), at least 1: the number of explore rounds.  The code's
\* logarithm is a float, and rounds up at n = 125, eta = 5 and at n = 216,
\* eta = 6, far from the budgets in use.
Rounds(n) == CHOOSE k \in 1..n : Eta^k >= n /\ \A j \in 1..(k - 1) : Eta^j < n

R == Rounds(Budget)

\* Where the slice of explore round r + 1 begins: widths grow by eta.
SliceStart[r \in 0..R] == IF r = 0 THEN 0 ELSE SliceStart[r - 1] + RoundItems * Eta^(r - 1)

\* plan_schedule refuses everything else.
ASSUME TuneAssumption ==
  /\ IsFiniteSet(Cands) /\ Base \in Draw /\ Draw \subseteq Cands
  /\ Budget \in Nat /\ Budget >= 2
  /\ Eta \in Nat /\ Eta >= 2 /\ RoundItems \in Nat \ {0} /\ Tier \in Nat
  /\ R \in Nat \ {0} /\ SliceStart \in [0..R -> 0..Tier] /\ SliceStart[0] = 0
  /\ \A r \in 1..R : SliceStart[r - 1] < SliceStart[r]
  /\ OnDrift \subseteq {"cooldown_halt", "cooldown_segment", "halt", "segment"}
  /\ PidReused \in BOOLEAN /\ MaxFaults \in Nat

VARIABLES
  \* the database
  sweep,    \* the sweep's row: ended_at is set, its verdict
  status,   \* each candidate's row: its status
  elim,     \* each candidate's eliminated_round, or 0
  rounds,   \* the round rows, by number
  visits,   \* the visit rows of the open round, and those still running
  pause,    \* the latest pause row: its resolution
  \* the task
  pc, stage, rnd, cursor, alive,
  todo,     \* the candidates of the round still to visit
  now,      \* the visit under way: its candidate and attempt, and whether
            \* it is the retry after a cooldown
  next,     \* next_attempt
  bad,      \* the candidates whose status in memory is 'infeasible'
  base,     \* baseline_tps is known
  reason,   \* ended_reason
  cool,     \* why Cooldown.run was called
  cut,      \* the candidates still to be marked eliminated
  \* the world
  drift,    \* the sweep's on_drift
  pid,      \* the pid of the row is alive
  faults,   \* the faults so far
  lost      \* history: a task died, or was stopped, outside the catch

db   == <<sweep, status, elim, rounds, visits, pause>>
mem  == <<stage, rnd, cursor, alive, todo, now, next, bad, base, reason, cool, cut>>
env  == <<drift, pid, faults, lost>>
vars == <<db, pc, mem, env>>

Verdicts == {"absent", "none", "incomplete", "adopted", "rejected", "indeterminate"}
Terminal == {"adopted", "rejected", "indeterminate"}
VisitSt  == {"running", "counted", "drifted", "aborted", "lost", "infeasible"}
\* No task, or one that an error ended: an attempt that exists already, or
\* a sweep without candidates (an empty rotation, or no baseline to score with).
Ended    == {"idle", "collided", "empty"}
Idle     == [cand |-> Base, att |-> 0, retry |-> FALSE]

TypeOK ==
  /\ sweep \in [ended : BOOLEAN, verdict : Verdicts]
  /\ status \in [Cands -> {"absent", "pending", "eliminated", "infeasible", "rejected", "winner"}]
  /\ elim \in [Cands -> Nat]
  /\ rounds \in Seq([stage : {"explore", "refine"}, from : Nat, to : Nat, open : BOOLEAN, base : BOOLEAN])
  /\ visits \subseteq [cand : Cands, rnd : Nat, att : Nat, st : VisitSt]
  /\ pause \in {"none", "open", "abandoned", "recovered", "timeout"}
  /\ pc \in Ended \cup {"register", "reject", "guard", "next", "refine", "round", "retry",
             "visit", "bad", "cool", "score", "elim", "cut", "close", "finish", "end"}
  /\ stage \in {"explore", "refine"} /\ rnd \in Nat /\ cursor \in Nat
  /\ alive \subseteq Cands /\ todo \subseteq Cands /\ bad \subseteq Cands /\ cut \subseteq Cands
  /\ now \in [cand : Cands, att : Nat, retry : BOOLEAN]
  /\ next \in [Cands -> Nat]
  /\ reason \in {"complete", "budget", "drift", "baseline", "interrupted"}
  /\ cool \in {"cliff", "drift", "resume"}
  /\ drift \in OnDrift /\ faults \in Nat /\ base \in BOOLEAN /\ pid \in BOOLEAN /\ lost \in BOOLEAN

Fault == faults < MaxFaults /\ faults' = faults + 1

\* The task ends and its state with it.
Forgets ==
  /\ pc' = "idle" /\ stage' = "explore" /\ rnd' = 0 /\ cursor' = 0
  /\ alive' = {} /\ todo' = {} /\ now' = Idle /\ next' = [c \in Cands |-> 1]
  /\ bad' = {} /\ base' = FALSE /\ reason' = "complete"
  /\ cool' = "cliff" /\ cut' = {}

Init ==
  /\ sweep = [ended |-> FALSE, verdict |-> "absent"]
  /\ status = [c \in Cands |-> "absent"] /\ elim = [c \in Cands |-> 0]
  /\ rounds = <<>> /\ visits = {} /\ pause = "none"
  /\ pc = "idle" /\ stage = "explore" /\ rnd = 0 /\ cursor = 0
  /\ alive = {} /\ todo = {} /\ now = Idle /\ next = [c \in Cands |-> 1]
  /\ bad = {} /\ base = FALSE /\ reason = "complete"
  /\ cool = "cliff" /\ cut = {}
  /\ drift \in OnDrift /\ pid = TRUE /\ faults = 0 /\ lost = FALSE

-----------------------------------------------------------------------------
(* Rows *)

Of(c, r)      == {v \in visits : v.cand = c /\ v.rnd = r}
\* counts_toward_round: by default, unless the visit's closing clears it.
Counted(c, r) == \E v \in Of(c, r) : v.st \in {"counted", "lost", "running"}
Handled(c, r) == \E v \in Of(c, r) : v.st \in {"counted", "infeasible"}

\* close_visit, on every row of a set.
Closed(vs, st) == (visits \ vs) \cup {[v EXCEPT !.st = st] : v \in vs}
Running        == {v \in visits : v.st = "running"}
Mine           == {v \in Running : v.cand = now.cand /\ v.rnd = rnd /\ v.att = now.att}

Cools == drift \in {"cooldown_halt", "cooldown_segment"}
Halts == drift \in {"cooldown_halt", "halt"}   \* fall_back ends the sweep

Unusable == Base \in bad /\ ~base

-----------------------------------------------------------------------------
(* start_sweep and resume_sweep *)

\* start_sweep up to open.
Start ==
  /\ pc \in Ended /\ sweep.verdict = "absent"
  /\ sweep' = [ended |-> FALSE, verdict |-> "none"] /\ pc' = "register"
  /\ UNCHANGED <<status, elim, rounds, visits, pause, mem, env>>

\* sample_candidates and register.
Register ==
  /\ pc = "register"
  /\ status' = [c \in Cands |-> IF c \in Draw THEN "pending" ELSE "absent"]
  /\ alive' = Draw /\ pc' = "reject"
  /\ UNCHANGED <<sweep, elim, rounds, visits, pause, stage, rnd, cursor, todo, now, next,
                 bad, base, reason, cool, cut, env>>

\* record_rejected: those the grid ruled out.
RecordRejected ==
  /\ pc = "reject" /\ pc' = "next"
  /\ \E rej \in SUBSET (Cands \ Draw) :
       status' = [c \in Cands |-> IF c \in rej THEN "infeasible" ELSE status[c]]
  /\ UNCHANGED <<sweep, elim, rounds, visits, pause, mem, env>>

\* What reclaim_stale_sweeps takes for a sweep whose tuner is gone.
Stale == ~sweep.ended /\ ~pid

\* latest_pause_abandoned, after reclaim_stale_sweeps.
Abandoned == pause = "abandoned" \/ (pause = "open" /\ Stale)

\* reclaim_stale_sweeps, as far as this sweep goes, and the state a resume
\* reads back.  The row is not opened again: ended_at and pid stay.  After an
\* abandoned pause the card is probed first.
Resume ==
  /\ pc \in Ended /\ sweep.verdict # "absent"
  /\ IF sweep.verdict \in Terminal THEN Fault ELSE UNCHANGED faults
  /\ IF Stale THEN visits' = Closed(Running, "lost") /\ sweep' = [sweep EXCEPT !.ended = TRUE]
              ELSE UNCHANGED <<visits, sweep>>
  /\ bad' = {c \in Cands : status[c] = "infeasible"}
  /\ base' = (rounds # <<>> /\ rounds[1].base)
  /\ alive' = {c \in Cands : status[c] \in {"pending", "winner"}}
  /\ LET n    == Len(rounds)
         open == n > 0 /\ rounds[n].open
     IN /\ rnd' = IF open THEN n - 1 ELSE n
        /\ stage' = IF n > 0 THEN rounds[n].stage ELSE "explore"
        /\ cursor' = IF n = 0 THEN 0 ELSE IF open THEN rounds[n].from ELSE rounds[n].to
  /\ reason' = "complete"
  /\ cool' = "resume"
  /\ \/ Abandoned /\ pause' = "open" /\ pc' = "cool"
     \/ ~Abandoned /\ UNCHANGED pause /\ pc' = "guard"
  /\ todo' = {} /\ cut' = {} /\ now' = Idle
  /\ UNCHANGED <<status, elim, rounds, next, drift, pid, lost>>

\* guard_port: the port is free; or an orphan of this sweep is killed and
\* the rows still running are closed; or the resume is refused.
GuardPort ==
  /\ pc = "guard"
  /\ visits' \in {visits, Closed(Running, "lost")}
  /\ \/ pc' = "next" /\ UNCHANGED <<mem, faults>>
     \/ Forgets /\ Fault
  /\ UNCHANGED <<sweep, status, elim, rounds, pause, drift, pid, lost>>

-----------------------------------------------------------------------------
(* The round loops of execute, resume_sweep and run_refine_rounds *)

\* Mutant: a refine round needs items left, not a full round of them.
MoreThanNone == IF stage = "explore" THEN rnd < R ELSE alive # {} /\ Tier - cursor >= 0

\* There is another round of this stage to run.
More == IF stage = "explore" THEN rnd < R ELSE alive # {} /\ Tier - cursor >= RoundItems
Slice(r) == IF stage = "explore" THEN <<SliceStart[r - 1], SliceStart[r]>>
                                 ELSE <<cursor, cursor + RoundItems>>

NewRow(r) == [stage |-> stage, from |-> Slice(r)[1], to |-> Slice(r)[2], open |-> TRUE, base |-> FALSE]

\* Mutant: the next attempt is one more than the number of visits that count.
AttemptOfCounted(c, r) == Cardinality({v \in Of(c, r) : v.st = "counted"}) + 1

\* run_round's next_attempt: above every attempt of the round's rows.
NextAttempt(c, r) ==
  LET atts == {v.att : v \in Of(c, r)}
  IN IF atts = {} THEN 1 ELSE 1 + (CHOOSE a \in atts : \A b \in atts : b <= a)

\* Mutant: a resumed round visits everyone again.
OpenRoundForAll ==
  /\ pc = "next" /\ More /\ ~Unusable
  /\ rnd' = rnd + 1
  /\ rounds' = IF rnd' > Len(rounds) THEN Append(rounds, NewRow(rnd')) ELSE rounds
  /\ todo' = alive
  /\ next' = [c \in Cands |-> NextAttempt(c, rnd')]
  /\ pc' = IF alive = {} THEN "empty" ELSE "round"
  /\ lost' = (lost \/ alive = {})
  /\ UNCHANGED <<sweep, status, elim, visits, pause, stage, cursor, alive, now, bad, base, reason,
                 cool, cut, drift, pid, faults>>

\* run_round up to its first visit: open_round, already, next_attempt.  If a
\* resume found nobody alive, the rotation of the empty order raises.
OpenRound ==
  /\ pc = "next" /\ More /\ ~Unusable
  /\ rnd' = rnd + 1
  /\ rounds' = IF rnd' > Len(rounds) THEN Append(rounds, NewRow(rnd')) ELSE rounds
  /\ todo' = {c \in alive : ~Handled(c, rnd')}
  /\ next' = [c \in Cands |-> NextAttempt(c, rnd')]
  /\ pc' = IF alive = {} THEN "empty" ELSE "round"
  /\ lost' = (lost \/ alive = {})
  /\ UNCHANGED <<sweep, status, elim, visits, pause, stage, cursor, alive, now, bad, base, reason,
                 cool, cut, drift, pid, faults>>

\* end_for_baseline at the start of a round, or after its visits.
EndForBaseline ==
  /\ Unusable /\ ((pc = "next" /\ More) \/ pc = "score")
  /\ LET r == IF pc = "next" THEN rnd + 1 ELSE rnd
     IN /\ rnd' = r
        /\ rounds' = IF r > Len(rounds) THEN Append(rounds, [NewRow(r) EXCEPT !.open = FALSE])
                                        ELSE [rounds EXCEPT ![r].open = FALSE]
  /\ reason' = "baseline" /\ alive' = {} /\ pc' = "finish" /\ visits' = Running
  /\ UNCHANGED <<sweep, status, elim, pause, stage, cursor, todo, now, next, bad, base,
                 cool, cut, env>>

\* The loop ends: there is no further round, or the budget is spent, which
\* only explore notes as the reason.
EndLoop ==
  /\ pc = "next"
  /\ \/ /\ ~More /\ UNCHANGED <<reason, faults>>
        /\ pc' = IF stage = "explore" THEN "refine" ELSE "finish"
     \/ /\ Fault /\ pc' = "finish"
        /\ reason' = IF stage = "explore" /\ More THEN "budget" ELSE reason
  /\ UNCHANGED <<db, stage, rnd, cursor, alive, todo, now, next, bad, base, cool, cut, drift, pid, lost>>

\* refine: nobody beat the defaults, or no items are left; or candidates
\* near the leader are registered, among them shas already known, whose
\* rows stay as they are, and record_rejected marks the ones ruled out.
Refine ==
  /\ pc = "refine"
  /\ \/ pc' = "finish" /\ UNCHANGED <<status, stage, cursor, alive, bad>>
     \/ /\ alive \ {Base} # {} /\ Tier - SliceStart[R] >= RoundItems
        /\ \E new \in SUBSET (Cands \ (alive \cup {Base})) :
             /\ alive' = alive \cup new /\ bad' = bad \ new
             /\ \E rej \in SUBSET (Cands \ alive') :
                 status' = [c \in Cands |-> IF c \in rej \ {Base} THEN "infeasible"
                                            ELSE IF c \in new /\ status[c] = "absent" THEN "pending"
                                            ELSE status[c]]
        /\ stage' = "refine" /\ cursor' = SliceStart[R] /\ pc' = "next"
  /\ UNCHANGED <<sweep, elim, rounds, visits, pause, rnd, todo, now, next, base, 
                 reason, cool, cut, env>>
-----------------------------------------------------------------------------
(* run_round *)

\* fall_back: the sweep ends, or goes on under a changed machine state.
FallBack == reason' = IF Halts THEN "drift" ELSE reason

\* visit up to its server: rows_for finds nothing left to ask, or open_visit
\* inserts the row, unless the UNIQUE index refuses it, which ends the task.
OpenVisit(c, retry) ==
  LET row   == [cand |-> c, rnd |-> rnd, att |-> next[c], st |-> "running"]
      clash == \E v \in Of(c, rnd) : v.att = next[c]
  IN /\ now' = [cand |-> c, att |-> next[c], retry |-> retry]
     /\ next' = [next EXCEPT ![c] = @ + 1]
     /\ \/ Of(c, rnd) # {} /\ pc' = "round" /\ UNCHANGED <<visits, lost>>
        \/ /\ visits' = IF clash THEN visits ELSE visits \cup {row}
           /\ pc' = IF clash THEN "collided" ELSE "visit"
           /\ lost' = (lost \/ clash)

\* The loop over the order, and the retry after a cooldown.
Visit ==
  /\ \/ pc = "retry" /\ OpenVisit(now.cand, TRUE) /\ UNCHANGED todo
     \/ pc = "round" /\ \E c \in todo : OpenVisit(c, FALSE) /\ todo' = todo \ {c}
  /\ UNCHANGED <<sweep, status, elim, rounds, pause, stage, rnd, cursor, alive, bad, base, reason,
                 cool, cut, drift, pid, faults>>

\* Mutant: a budget that runs out mid-round closes the round on what it has.
EndVisitsEarly ==
  /\ pc = "round" /\ pc' = "score" /\ now' = Idle
  /\ UNCHANGED <<db, stage, rnd, cursor, alive, todo, next, bad, base, reason, cool, cut, env>>

\* The loop ends: everyone has been visited, or the budget is spent, which
\* leaves the round open.
EndVisits ==
  /\ pc = "round"
  /\ \/ todo = {} /\ pc' = "score" /\ UNCHANGED <<reason, faults>>
     \/ todo # {} /\ pc' = "finish" /\ reason' = "budget" /\ Fault
  /\ now' = Idle
  /\ UNCHANGED <<db, stage, rnd, cursor, alive, todo, next, bad, base, cool, cut, drift, pid, lost>>

\* The visit ends: measured to its end or to the end of the budget; the
\* server died; or the configuration does not run.
VisitEnds ==
  /\ pc = "visit"
  /\ \/ visits' = Closed(Mine, "counted") /\ pc' = "round" /\ UNCHANGED faults
     \/ visits' = Closed(Mine, "aborted") /\ pc' = "round" /\ Fault
     \/ visits' = Closed(Mine, "infeasible") /\ pc' = "bad" /\ Fault
  /\ UNCHANGED <<sweep, status, elim, rounds, pause, mem, drift, pid, lost>>

\* The candidate's row after the visit's, and the loop: a baseline that does
\* not run ends it, unless this was the retry, whose outcome is not read.
VisitBad ==
  /\ pc = "bad"
  /\ status' = [status EXCEPT ![now.cand] = "infeasible"]
  /\ bad' = bad \cup {now.cand}
  /\ todo' = IF now.cand = Base /\ ~base /\ ~now.retry THEN {} ELSE todo
  /\ pc' = "round"
  /\ UNCHANGED <<sweep, elim, rounds, visits, pause, stage, rnd, cursor, alive, now, next, base,
                 reason, cool, cut, env>>

\* Throughput collapsed mid-visit: the visit does not count, and the card
\* cools, once per candidate and round.
VisitDrifts ==
  /\ pc = "visit" /\ Fault
  /\ visits' = Closed(Mine, "drifted")
  /\ \/ now.retry /\ pc' = "round" /\ UNCHANGED <<pause, cool, reason>>
     \/ /\ ~now.retry /\ Cools
        /\ pause' = "open" /\ cool' = "cliff" /\ pc' = "cool" /\ UNCHANGED reason
     \/ /\ ~now.retry /\ ~Cools /\ FallBack
        /\ pc' = IF Halts THEN "finish" ELSE "round"
        /\ UNCHANGED <<pause, cool>>
  /\ UNCHANGED <<sweep, status, elim, rounds, stage, rnd, cursor, alive, todo, now, next, bad,
                 base, cut, drift, pid, lost>>

\* Cooldown.run ends: the baseline probed clean, or the attempts or the
\* cooling share are used up.  A cliff's visit is then retried.
Cooled ==
  /\ pc = "cool"
  /\ \/ pause' = "recovered" /\ UNCHANGED faults
     \/ pause' = "timeout" /\ Fault
  /\ \/ /\ cool = "cliff" /\ pause' = "recovered"
        /\ pc' = "retry" /\ UNCHANGED reason
     \/ /\ cool = "cliff" /\ pause' = "timeout" /\ FallBack
        /\ pc' = IF Halts THEN "finish" ELSE "round"
     \/ /\ cool = "drift" /\ pc' = "elim"
        /\ IF pause' = "timeout" THEN FallBack ELSE UNCHANGED reason
     \/ cool = "resume" /\ pc' = "guard" /\ UNCHANGED reason
  /\ UNCHANGED <<sweep, status, elim, rounds, visits, stage, rnd, cursor, alive, todo, now, next, bad,
                 base, cool, cut, drift, pid, lost>>

\* Every survivor has been visited: the baseline's throughput, and its drift
\* against round 1.
Score ==
  /\ pc = "score" /\ ~Unusable
  /\ alive' = alive \ bad
  /\ base' \in {base, base \/ (rnd = 1 /\ Counted(Base, rnd))}
  /\ \/ pc' = "elim" /\ UNCHANGED <<pause, cool, reason, faults>>
     \/ /\ base' /\ rnd > 1 /\ Counted(Base, rnd) /\ Fault
        /\ \/ Cools /\ pause' = "open" /\ cool' = "drift" /\ pc' = "cool" /\ UNCHANGED reason
           \/ ~Cools /\ FallBack /\ pc' = "elim" /\ UNCHANGED <<pause, cool>>
  /\ UNCHANGED <<sweep, status, elim, rounds, visits, stage, rnd, cursor, todo, now, next, bad,
                 cut, drift, pid, lost>>

\* A candidate without pairs in the round is thin; others may be.
MustBeThin(c) == ~(Counted(c, rnd) /\ Counted(Base, rnd))

\* ceil(n / eta), at least 2: keep_n, which counts the baseline.
KeepN(n) == LET k == (n + Eta - 1) \div Eta IN IF k < 2 THEN 2 ELSE k

\* eliminate: at the floor everyone stays; else the baseline, the best
\* ranked and the thin ones stay.
Eliminate ==
  /\ pc = "elim"
  /\ \/ /\ Cardinality(alive) <= 2
        /\ pc' = "close" /\ UNCHANGED <<alive, cut>>
     \/ /\ Cardinality(alive) > 2
        /\ \E thin \in SUBSET (alive \ {Base}) :
             /\ \A c \in alive \ {Base} : MustBeThin(c) => c \in thin
             /\ LET ranked == (alive \ {Base}) \ thin
                IN \E best \in SUBSET ranked :
                     /\ \/ best = ranked /\ Cardinality(ranked) <= KeepN(Cardinality(alive)) - 1
                        \/ /\ Cardinality(best) = KeepN(Cardinality(alive)) - 1
                     /\ alive' = {Base} \cup best \cup thin
                     /\ cut' = ranked \ best
        /\ pc' = "cut"
  /\ UNCHANGED <<db, stage, rnd, cursor, todo, now, next, bad, base, reason, cool, env>>

\* One set_candidate(status='eliminated') of the cut.
Cut ==
  /\ pc = "cut"
  /\ \/ \E c \in cut :
        /\ status' = [status EXCEPT ![c] = "eliminated"]
        /\ elim' = [elim EXCEPT ![c] = rnd]
        /\ cut' = cut \ {c} /\ UNCHANGED pc
     \/ cut = {} /\ pc' = "close" /\ UNCHANGED <<status, elim, cut>>
  /\ UNCHANGED <<sweep, rounds, visits, pause, stage, rnd, cursor, alive, todo, now, next, bad,
                 base, reason, cool, env>>

\* close_round, and the loop's test after it.  The visits of a closed round
\* are not read again, but for the final scores.
Close ==
  /\ pc = "close"
  /\ rounds' = [rounds EXCEPT ![rnd].open = FALSE, ![rnd].base = base]
  /\ visits' = Running
  /\ cursor' = rounds[rnd].to /\ next' = [c \in Cands |-> 1]
  /\ pc' = IF reason # "complete" \/ alive = {} \/ (stage = "refine" /\ Cardinality(alive) <= 2)
             THEN "finish" ELSE "next"
  /\ UNCHANGED <<sweep, status, elim, pause, stage, rnd, alive, todo, now, bad, base,
                 reason, cool, cut, env>>

-----------------------------------------------------------------------------
(* finish *)

\* Mutant: an interrupted sweep is closed with its rows as they are.
FinishLeavesRows ==
  /\ pc = "finish" /\ pc' = "end" /\ cut' = {}
  /\ UNCHANGED <<db, stage, rnd, cursor, alive, todo, now, next, bad, base, reason, cool, env>>

\* close_open_rows for an interrupted sweep, the verdict before the guard,
\* and what the guard writes about the candidates.
Finish ==
  /\ pc = "finish" /\ status[Base] # "absent"
  /\ IF reason = "interrupted"
       THEN visits' = Closed(Running, "lost") /\ pause' = IF pause = "open" THEN "abandoned" ELSE pause
       ELSE UNCHANGED <<visits, pause>>
  /\ \/ reason # "complete" /\ UNCHANGED status /\ cut' = {}
     \/ /\ reason = "complete"
        /\ \E winner \in {{}} \cup {{c} : c \in alive \ {Base}} :
           \E regressed \in SUBSET ((alive \ {Base}) \ winner) :
             /\ status' = [c \in Cands |-> IF c \in winner THEN "winner"
                                           ELSE IF c \in regressed THEN "rejected" ELSE status[c]]
             /\ cut' = winner
  /\ pc' = "end"
  /\ UNCHANGED <<sweep, elim, rounds, stage, rnd, cursor, alive, todo, now, next, bad, base, 
                 reason, cool, env>>

\* A sweep stopped before register has no baseline, and scores raises.
FinishFails ==
  /\ pc = "finish" /\ status[Base] = "absent" /\ pc' = "empty" /\ lost' = TRUE
  /\ UNCHANGED <<db, mem, drift, pid, faults>>

\* verdict_for, and close_sweep: a terminal verdict is never overwritten.
EndSweep ==
  /\ pc = "end" /\ Forgets
  /\ \/ sweep.verdict \in Terminal /\ UNCHANGED sweep
     \/ /\ sweep.verdict \notin Terminal
        /\ \E v \in CASE reason = "baseline" -> {"indeterminate"}
                     [] reason \in {"budget", "drift", "interrupted"} -> {"incomplete"}
                     [] reason = "complete" -> IF cut = {} THEN {"rejected", "indeterminate"} ELSE {"adopted"} :
             sweep' = [ended |-> TRUE, verdict |-> v]
  /\ UNCHANGED <<status, elim, rounds, visits, pause, env>>

-----------------------------------------------------------------------------
(* Stops and deaths *)

Caught == {"next", "refine", "round", "retry", "visit", "bad", "cool", "score", "elim", "cut", "close"}

\* /stop or shutdown cancels the task: the visit or the pause closes its row
\* (or finish will), and the catch of execute or resume_sweep goes to finish.
Stop ==
  /\ pc \in Caught /\ ~(pc = "cool" /\ cool = "resume") /\ Fault
  /\ \/ pc = "visit" /\ visits' \in {Closed(Mine, "aborted"), Closed(Mine, "counted"), Closed(Mine, "drifted"), visits}
     \/ pc # "visit" /\ UNCHANGED visits
  /\ pause' = IF pc = "cool" THEN "abandoned" ELSE pause
  /\ reason' = "interrupted" /\ pc' = "finish"
  /\ todo' = {} /\ cut' = {} /\ now' = Idle /\ next' = [c \in Cands |-> 1]
  /\ UNCHANGED <<sweep, status, elim, rounds, stage, rnd, cursor, alive, bad, base, cool, drift, pid, lost>>

\* A stop before the try of execute or resume_sweep, or in finish, ends the
\* task there.
StopUncaught ==
  /\ pc \in {"register", "reject", "guard", "finish", "end"} \/ (pc = "cool" /\ cool = "resume")
  /\ pause' \in IF pc = "cool" THEN {"abandoned", "open"} ELSE {pause}
  /\ Forgets /\ lost' = TRUE /\ Fault
  /\ UNCHANGED <<sweep, status, elim, rounds, visits, drift, pid>>

\* The backend dies.
Crash ==
  /\ Forgets /\ lost' = (lost \/ pc \notin Ended) /\ Fault
  /\ pid' \in IF PidReused THEN BOOLEAN ELSE {FALSE}
  /\ UNCHANGED <<db, drift>>

Step ==
  \/ Register \/ RecordRejected \/ GuardPort \/ OpenRound \/ EndForBaseline \/ EndLoop \/ Refine \/ Visit \/ EndVisits
  \/ VisitEnds \/ VisitBad \/ VisitDrifts \/ Cooled \/ Score \/ Eliminate \/ Cut \/ Close
  \/ Finish \/ FinishFails \/ EndSweep

Next == Start \/ Resume \/ Step \/ Stop \/ StopUncaught \/ Crash

Spec == Init /\ [][Next]_vars

-----------------------------------------------------------------------------
(* Properties *)

\* A visit never meets the UNIQUE index over sweep, candidate, round and
\* attempt, whatever stops, deaths, drifts and resumes left behind in the
\* round (run_round's next_attempt).
AttemptsUnique == pc # "collided"

\* Once a visit of a candidate counts in a round, or has found that it does not
\* run, the round does not visit it again (run_round's already), whatever
\* cooldown, spent budget, stop, death and resume lies between: a second visit
\* would add to its slice under conditions that the others were not measured
\* in, or bring back what was found not to run.
MeasuredOnce ==
  \A u, v \in visits :
    u.cand = v.cand /\ u.rnd = v.rnd /\ u.st \in {"counted", "infeasible"} => v.att <= u.att

\* The rounds' slices tile the tier from its first item on, only the last
\* round is open, and no resume moves the cursor: no item is measured in two
\* rounds or left out between them.
SlicesTile ==
  \A i \in 1..Len(rounds) :
    /\ rounds[i].from = IF i = 1 THEN 0 ELSE rounds[i - 1].to
    /\ rounds[i].from < rounds[i].to /\ rounds[i].to <= Tier
    /\ rounds[i].open => i = Len(rounds)

\* A round is decided only when every survivor has been visited in it
\* (run_round's docstring): a budget that runs out, or a card that does not
\* recover, mid-round leaves it open, and the resume visits the rest.
ClosedRoundsVisited ==
  [][\A i \in 1..Len(rounds) : rounds[i].open /\ ~rounds'[i].open /\ reason' # "baseline" =>
       \A c \in Cands \ {Base} : c \in alive \/ elim[c] = i => Of(c, i) # {}]_vars

\* A sweep that was stopped, however the stop landed, leaves no visit running
\* and no pause open (#138).  The exception is `lost`, which stays: a task of
\* the sweep died, met an error, or was stopped outside the catch, in finish or
\* in front of it, and a row it left may be passed over ever after.
StopClosesRows == pc = "idle" /\ ~lost => Running = {} /\ pause # "open"

\* resume_sweep: re-probe before serving, since a kill during a cooldown
\* leaves an open pause and no evidence about the card.  Violated: the row of
\* a resumed sweep keeps the ended_at of its first run, so that
\* reclaim_stale_sweeps passes over it, and the pause that a second kill or
\* stop leaves open is never abandoned.
ProbedBeforeServing == pc = "visit" => pause # "open"

\* run_round: idempotent by design, not just by intent.  Violated: a death
\* between the cut and close_round makes the resume cut the survivors again.
CutOnce ==
  \A i \in 1..Len(rounds) :
    LET in == {c \in Draw : elim[c] = 0 \/ elim[c] >= i}
    IN i = 1 => Cardinality({c \in in : elim[c] > i \/ elim[c] = 0}) >= KeepN(Cardinality(in))
=============================================================================
