------------------------------ MODULE Prescreen ------------------------------
(***************************************************************************)
(* Pre-screen sweeps (benchmarks/prescreen/sweep.py, bench.py, grid.py):   *)
(* llama-bench measures the points of a grid one after the other, the      *)
(* leaders again, and loads them in llama-server.  A backend may die at    *)
(* any await with a process on the GPU; the next one that starts, or that  *)
(* prepares a sweep, closes the dead one's sweep and stops what it left.   *)
(*                                                                         *)
(* Throughput is left out: any of the points measured may lead.  A process *)
(* is named by its sweep, its point and what it is; its group id is not    *)
(* given to another.  `moe` is a number, the profiles being of one kind.   *)
(***************************************************************************)
EXTENDS Naturals, Sequences, FiniteSets

CONSTANTS Backends,   \* backends on one database and one GPU
          Nobody,     \* no backend
          Grid,       \* the points: [key |-> vram_key, ngl |-> .., moe |-> ..]
          Base,       \* the profile's own configuration
          Invalid,    \* the points that break a constraint of the grid
          Samplers,   \* "grid", "tpe"
          TrialBudget, CtxChecks,  \* opts.trials, opts.ctx_checks
          REMEASURE,
          MaxSweeps,  \* bound: sweeps
          MaxFaults   \* bound: deaths of a backend and failing calls

ASSUME PrescreenAssumption ==
  /\ Nobody \notin Backends /\ IsFiniteSet(Grid) /\ Base \in Grid
  /\ \A p \in Grid : p.key \in Nat /\ p.ngl \in Nat /\ p.moe \in Nat
  /\ Samplers \subseteq {"grid", "tpe"} /\ TrialBudget \in Nat \ {0}
  /\ CtxChecks \in Nat /\ REMEASURE \in Nat /\ MaxSweeps \in Nat /\ MaxFaults \in Nat

VARIABLES
  rows,    \* the sweeps in the order of their start: [status, owner (the pid,
           \* Nobody once that process is gone), sampler, points]
  mem,     \* what each backend knows
  procs,   \* the processes on the GPU: <<sweep, point, "bench" or "check">>
  fits,    \* the points the card has the memory for
  beside,  \* history: pairs of sweeps of which one was opened after the
           \* other's backend had looked for running sweeps
  spoiled, \* history: sweeps with a point that fits and ran out of memory,
           \* since another process was on the card
  unsaved, \* history: points <<sweep, point>> whose measuring an error ended, or
           \* a cancellation while the row was being opened or closed
  failed,  \* history: a call failed
  faults

vars == <<rows, mem, procs, fits, beside, spoiled, unsaved, failed, faults>>

Sweeps == 1..Len(rows)
Points(s) == 1..Len(rows[s].points)
Search(s) == {i \in Points(s) : rows[s].points[i].phase = "search"}
Oks(s) == {i \in Search(s) : rows[s].points[i].status = "ok"}

Idle == [pc |-> "idle", boot |-> FALSE, stale |-> {}, since |-> {}, sweep |-> 0,
         at |-> 0, todo |-> {}, out |-> "none", end |-> "none", cancel |-> FALSE]

\* Where the sweep's task is.
TaskPcs == {"search", "spawn", "record", "wait", "save", "rank", "again", "rank2",
            "check", "loaded", "loading", "checked", "close"}

PointRows == [p : Grid, phase : {"search", "remeasure"},
              status : {"running", "ok", "oom", "error", "pruned", "invalid", "repeat", "cancelled"},
              pgid : {"none", "bench", "check"}, ctx_check : BOOLEAN]

SweepRows == [status : {"running", "done", "cancelled", "failed", "stale"},
              owner : Backends \cup {Nobody}, sampler : Samplers, points : Seq(PointRows)]

Memory == [pc : {"down", "idle", "list", "reclaim", "open", "study"} \cup TaskPcs,
           boot : BOOLEAN, stale : SUBSET Nat, since : SUBSET Nat, sweep : Nat, at : Nat,
           todo : SUBSET Nat, out : {"none", "ok", "oom", "error", "cancelled"},
           end : {"none", "done", "cancelled", "failed", "stopped"}, cancel : BOOLEAN]

TypeOK ==
  /\ rows \in Seq(SweepRows) /\ mem \in [Backends -> Memory]
  /\ procs \subseteq Nat \X Nat \X {"bench", "check"}
  /\ fits \subseteq Grid /\ spoiled \subseteq Nat /\ beside \subseteq SUBSET Nat
  /\ unsaved \subseteq Nat \X Nat /\ failed \in BOOLEAN /\ faults \in 0..MaxFaults

-----------------------------------------------------------------------------
(* grid.py *)

\* Mutant: more experts in system RAM taken for more VRAM.
NeedsMoreMoe(p, q) == p.key = q.key /\ p.ngl >= q.ngl /\ p.moe >= q.moe

\* needs_more_vram: more layers on the card, fewer experts left in RAM.
NeedsMore(p, q) == p.key = q.key /\ p.ngl >= q.ngl /\ p.moe <= q.moe

\* pruning_order: within a VRAM group, the least memory first.
Before(p, q) ==
  \/ p.key < q.key
  \/ p.key = q.key /\ p.ngl < q.ngl
  \/ p.key = q.key /\ p.ngl = q.ngl /\ p.moe > q.moe

\* What the card has the memory for: with a point, also one of the same group
\* with no more layers on the card and no fewer experts in RAM.
Monotone(F) == \A p \in F, q \in Grid : p.key = q.key /\ q.ngl <= p.ngl /\ q.moe >= p.moe => q \in F

Init ==
  /\ rows = <<>> /\ mem = [b \in Backends |-> [Idle EXCEPT !.pc = "down"]]
  /\ fits \in {F \in SUBSET Grid : Monotone(F)}
  /\ procs = {} /\ beside = {} /\ spoiled = {} /\ unsaved = {} /\ failed = FALSE /\ faults = 0

-----------------------------------------------------------------------------
(* Crash recovery *)

Goes(b, where) == mem' = [mem EXCEPT ![b].pc = where]

\* Mutant: startup() leaves what a dead backend left.
BootOnly(b) ==
  /\ mem[b].pc = "down"
  /\ mem' = [mem EXCEPT ![b] = Idle]
  /\ UNCHANGED <<rows, procs, fits, beside, spoiled, unsaved, failed, faults>>

\* routers/benchmarks/__init__.py startup().
Boot(b) ==
  /\ mem[b].pc = "down"
  /\ mem' = [mem EXCEPT ![b] = [Idle EXCEPT !.pc = "list", !.boot = TRUE]]
  /\ UNCHANGED <<rows, procs, fits, beside, spoiled, unsaved, failed, faults>>

\* start_prescreen, once its checks have passed, up to reclaim_stale().
StartPrescreen(b) ==
  /\ mem[b].pc = "idle" /\ Len(rows) < MaxSweeps
  /\ mem' = [mem EXCEPT ![b] = [Idle EXCEPT !.pc = "list"]]
  /\ UNCHANGED <<rows, procs, fits, beside, spoiled, unsaved, failed, faults>>

\* list_sweeps(running_only=True).
Lists(b) ==
  /\ mem[b].pc = "list"
  /\ mem' = [mem EXCEPT ![b].pc = "reclaim", ![b].since = {},
                        ![b].stale = {s \in Sweeps : rows[s].status = "running"}]
  /\ UNCHANGED <<rows, procs, fits, beside, spoiled, unsaved, failed, faults>>

\* The row the loop is at: the latest of those left.
Row(b) == CHOOSE s \in mem[b].stale : \A t \in mem[b].stale : t <= s

\* row.pid is another process that was there when the sweep started.
LiveElsewhere(b, s) == rows[s].owner \notin {Nobody, b}

\* A sweep of another live backend ends the loop (PrescreenRefused), which
\* startup() logs and /start answers; with a dead one's the loop goes on.
Judges(b) ==
  /\ mem[b].pc = "reclaim" /\ mem[b].stale # {} /\ mem[b].at = 0
  /\ mem' = [mem EXCEPT ![b] = IF LiveElsewhere(b, Row(b)) THEN Idle ELSE [@ EXCEPT !.at = 1]]
  /\ UNCHANGED <<rows, procs, fits, beside, spoiled, unsaved, failed, faults>>

\* Mutant: only a point that was being measured has a process.
ReclaimsRunning(b) ==
  LET s == Row(b)  i == mem[b].at  p == rows[s].points[i] IN
  /\ mem[b].pc = "reclaim" /\ mem[b].stale # {} /\ i \in Points(s)
  /\ procs' = IF p.status = "running" THEN procs \ {<<s, i, p.pgid>>} ELSE procs
  /\ rows' = [rows EXCEPT ![s].points[i].status = IF @ = "running" THEN "cancelled" ELSE @]
  /\ mem' = [mem EXCEPT ![b].at = i + 1]
  /\ UNCHANGED <<fits, beside, spoiled, unsaved, failed, faults>>

\* kill_orphan of the point's recorded group, and its row closed.
ReclaimsPoint(b) ==
  LET s == Row(b)  i == mem[b].at  p == rows[s].points[i] IN
  /\ mem[b].pc = "reclaim" /\ mem[b].stale # {} /\ i \in Points(s)
  /\ procs' = procs \ {<<s, i, p.pgid>>}
  /\ rows' = [rows EXCEPT ![s].points[i].status = IF @ = "running" THEN "cancelled" ELSE @]
  /\ mem' = [mem EXCEPT ![b].at = i + 1]
  /\ UNCHANGED <<fits, beside, spoiled, unsaved, failed, faults>>

\* close_sweep closes only a sweep that is running.
Closed(s, status) ==
  [rows EXCEPT ![s].status = IF @ = "running" THEN status ELSE @]

ReclaimsRow(b) ==
  LET s == Row(b) IN
  /\ mem[b].pc = "reclaim" /\ mem[b].stale # {} /\ mem[b].at = Len(rows[s].points) + 1
  /\ rows' = Closed(s, "stale")
  /\ mem' = [mem EXCEPT ![b].at = 0, ![b].stale = @ \ {s}]
  /\ UNCHANGED <<procs, fits, beside, spoiled, unsaved, failed, faults>>

Reclaimed(b) ==
  /\ mem[b].pc = "reclaim" /\ mem[b].stale = {}
  /\ Goes(b, IF mem[b].boot THEN "idle" ELSE "open")
  /\ UNCHANGED <<rows, procs, fits, beside, spoiled, unsaved, failed, faults>>

-----------------------------------------------------------------------------
(* prepare() *)

OpensSweep(b) ==
  /\ mem[b].pc = "open" /\ Len(rows) < MaxSweeps
  /\ \E sampler \in Samplers :
       rows' = Append(rows, [status |-> "running", owner |-> b, sampler |-> sampler, points |-> <<>>])
  /\ mem' = [c \in Backends |->
       IF c = b THEN [mem[b] EXCEPT !.pc = "study", !.sweep = Len(rows) + 1]
                ELSE [mem[c] EXCEPT !.since = @ \cup {Len(rows) + 1}]]
  /\ beside' = beside \cup {{s, Len(rows) + 1} : s \in mem[b].since}
  /\ UNCHANGED <<procs, fits, spoiled, unsaved, failed, faults>>

\* The study exists, and start_prescreen starts the sweep's task.
CreatesStudy(b) ==
  /\ mem[b].pc = "study" /\ Goes(b, "search")
  /\ UNCHANGED <<rows, procs, fits, beside, spoiled, unsaved, failed, faults>>

\* cancel_prescreen and stop_sweep.
CancelPrescreen(b) ==
  /\ mem[b].pc \in TaskPcs /\ ~mem[b].cancel
  /\ mem' = [mem EXCEPT ![b].cancel = TRUE]
  /\ UNCHANGED <<rows, procs, fits, beside, spoiled, unsaved, failed, faults>>

-----------------------------------------------------------------------------
(* run() *)

Mine(b) == rows[mem[b].sweep].points
Point(p, phase, status) ==
  [p |-> p, phase |-> phase, status |-> status, pgid |-> "none", ctx_check |-> FALSE]
Adds(b, point) == rows' = [rows EXCEPT ![mem[b].sweep].points = Append(@, point)]

\* The grid's feasible points but the baseline: _grid_plan.
Plan == Grid \ (Invalid \cup {Base})

Budget(s) == IF rows[s].sampler = "grid" THEN Cardinality(Plan) + 1 ELSE TrialBudget

\* The points trial n may be: the baseline, then the plan in pruning order,
\* or whatever TPE proposes.
Proposals(b) ==
  LET left == Plan \ {Mine(b)[i].p : i \in 2..Len(Mine(b))} IN
  IF Mine(b) = <<>> THEN {Base}
  ELSE IF rows[mem[b].sweep].sampler = "tpe" THEN Grid
  ELSE {p \in left : \A q \in left : ~Before(q, p)}

\* The points measured so far, and those of them that ran out of memory.
Measured(b) == {i \in 1..Len(Mine(b)) : Mine(b)[i].status \in {"ok", "oom", "error", "cancelled"}}
Ooms(b) == {i \in 1..Len(Mine(b)) : Mine(b)[i].status = "oom"}

\* What _trial makes of a proposal without measuring it, or "running".
Verdict(b, p) ==
  IF p \in Invalid /\ Mine(b) # <<>> THEN "invalid"
  ELSE IF \E i \in Measured(b) : Mine(b)[i].p = p THEN "repeat"
  ELSE IF \E i \in Ooms(b) : NeedsMore(p, Mine(b)[i].p) THEN "pruned"
  ELSE "running"

\* One trial of _search: _record_skip, or the point opened by _measure.
Trial(b) ==
  /\ mem[b].pc = "search" /\ ~mem[b].cancel /\ Len(Mine(b)) < Budget(mem[b].sweep)
  /\ \E p \in Proposals(b) :
       /\ Adds(b, Point(p, "search", Verdict(b, p)))
       /\ mem' = IF Verdict(b, p) = "running"
                 THEN [mem EXCEPT ![b].pc = "spawn", ![b].at = Len(Mine(b)) + 1]
                 ELSE mem
  /\ UNCHANGED <<procs, fits, beside, spoiled, unsaved, failed, faults>>

\* Which phase follows once a loop has nothing left; a cancelled sweep skips
\* the rest.
After == [search |-> "rank", again |-> "rank2", check |-> "close"]

\* Mutant: run() does not ask again whether it was cancelled.
LeavesUncancelled(b) ==
  /\ mem[b].pc \in DOMAIN After
  /\ \/ mem[b].cancel
     \/ IF mem[b].pc = "search" THEN Len(Mine(b)) = Budget(mem[b].sweep) ELSE mem[b].todo = {}
  /\ mem' = [mem EXCEPT ![b].pc = IF mem[b].cancel THEN "close" ELSE After[@],
                        ![b].end = "done"]
  /\ UNCHANGED <<rows, procs, fits, beside, spoiled, unsaved, failed, faults>>

\* A loop of run() ends: nothing is left, or the event is set.
Leaves(b) ==
  /\ mem[b].pc \in DOMAIN After
  /\ \/ mem[b].cancel
     \/ IF mem[b].pc = "search" THEN Len(Mine(b)) = Budget(mem[b].sweep) ELSE mem[b].todo = {}
  /\ mem' = [mem EXCEPT ![b].pc = IF mem[b].cancel THEN "close" ELSE After[@],
                        ![b].end = IF mem[b].cancel THEN "cancelled" ELSE "done"]
  /\ UNCHANGED <<rows, procs, fits, beside, spoiled, unsaved, failed, faults>>

\* _ranked: the leaders are among the points measured, as many as asked for.
Leaders(b, n) ==
  LET ok == Oks(mem[b].sweep) IN
  {T \in SUBSET ok : Cardinality(T) = IF n < Cardinality(ok) THEN n ELSE Cardinality(ok)}

Ranks(b) ==
  /\ \/ /\ mem[b].pc = "rank"
        /\ \E T \in Leaders(b, REMEASURE) : mem' = [mem EXCEPT ![b].pc = "again", ![b].todo = T]
     \/ /\ mem[b].pc = "rank2"
        /\ \E T \in Leaders(b, CtxChecks) : mem' = [mem EXCEPT ![b].pc = "check", ![b].todo = T]
  /\ UNCHANGED <<rows, procs, fits, beside, spoiled, unsaved, failed, faults>>

\* _remeasure: a leader's second row.
Remeasures(b) ==
  /\ mem[b].pc = "again" /\ ~mem[b].cancel
  /\ \E i \in mem[b].todo :
       /\ Adds(b, Point(Mine(b)[i].p, "remeasure", "running"))
       /\ mem' = [mem EXCEPT ![b].pc = "spawn", ![b].todo = @ \ {i}, ![b].at = Len(Mine(b)) + 1]
  /\ UNCHANGED <<procs, fits, beside, spoiled, unsaved, failed, faults>>

-----------------------------------------------------------------------------
(* bench.run_point, _measure and _load_check *)

Child(b, kind) == <<mem[b].sweep, mem[b].at, kind>>

SpawnsBench(b) ==
  /\ mem[b].pc = "spawn" /\ Goes(b, "record")
  /\ procs' = procs \cup {Child(b, "bench")}
  /\ UNCHANGED <<rows, fits, beside, spoiled, unsaved, failed, faults>>

SavesPgid(b, kind) == rows' = [rows EXCEPT ![mem[b].sweep].points[mem[b].at].pgid = kind]

\* on_spawn.
RecordsGroup(b) ==
  /\ mem[b].pc = "record" /\ Goes(b, "wait") /\ SavesPgid(b, "bench")
  /\ UNCHANGED <<procs, fits, beside, spoiled, unsaved, failed, faults>>

\* How llama-bench may end: one that fits runs out only beside another.
Outcomes(x, p) ==
  {"error"} \cup (IF p \in fits THEN {"ok"} ELSE {"oom"})
            \cup (IF procs # {x} THEN {"oom"} ELSE {})

\* A process ends by itself, its backend alive or not.
Exits(x) ==
  LET p == rows[x[1]].points[x[2]].p IN
  /\ x \in procs /\ procs' = procs \ {x}
  /\ \/ /\ \E b \in Backends, o \in Outcomes(x, p) :
             /\ mem[b].pc \in {"record", "wait"} /\ x = Child(b, "bench")
             /\ mem' = [mem EXCEPT ![b].out = o]
             /\ spoiled' = IF o = "oom" /\ p \in fits THEN spoiled \cup {x[1]} ELSE spoiled
     \/ /\ \A b \in Backends : mem[b].pc \in {"record", "wait"} => x # Child(b, "bench")
        /\ UNCHANGED <<mem, spoiled>>
  /\ UNCHANGED <<rows, fits, beside, unsaved, failed, faults>>

\* asyncio.wait: its end, or the event or the timeout, whereupon _stop kills it.
Waits(b) ==
  /\ mem[b].pc = "wait"
  /\ \E o \in {"ok", "oom", "error", "cancelled"} :
       /\ \/ mem[b].out = o
          \/ mem[b].out = "none" /\ mem[b].cancel /\ o = "cancelled"
          \/ mem[b].out = "none" /\ ~mem[b].cancel /\ o = "error"
       /\ mem' = [mem EXCEPT ![b].pc = "save", ![b].out = o]
  /\ procs' = procs \ {Child(b, "bench")}
  /\ UNCHANGED <<rows, fits, beside, spoiled, unsaved, failed, faults>>

\* The outcome is recorded, and told to the study.
SavesPoint(b) ==
  LET i == mem[b].at IN
  /\ mem[b].pc = "save"
  /\ rows' = [rows EXCEPT ![mem[b].sweep].points[i].status = mem[b].out]
  /\ mem' = [mem EXCEPT ![b].pc = IF Mine(b)[i].phase = "search" THEN "search" ELSE "again",
                        ![b].out = "none"]
  /\ UNCHANGED <<procs, fits, beside, spoiled, unsaved, failed, faults>>

\* A leader's load check: the server is started, or not (the port is taken,
\* or LauncherError).
LoadCheck(b) ==
  /\ mem[b].pc = "check" /\ ~mem[b].cancel
  /\ \E i \in mem[b].todo, where \in {"loaded", "checked"} :
       /\ mem' = [mem EXCEPT ![b].pc = where, ![b].at = i, ![b].todo = @ \ {i}]
       /\ procs' = IF where = "loaded" THEN procs \cup {<<mem[b].sweep, i, "check">>} ELSE procs
  /\ UNCHANGED <<rows, fits, beside, spoiled, unsaved, failed, faults>>

RecordsServer(b) ==
  /\ mem[b].pc = "loaded" /\ Goes(b, "loading") /\ SavesPgid(b, "check")
  /\ UNCHANGED <<procs, fits, beside, spoiled, unsaved, failed, faults>>

\* Healthy, gone, cancelled or timed out: job.stop().
StopsServer(b) ==
  /\ mem[b].pc = "loading" /\ Goes(b, "checked")
  /\ procs' = procs \ {Child(b, "check")}
  /\ UNCHANGED <<rows, fits, beside, spoiled, unsaved, failed, faults>>

SavesCheck(b) ==
  /\ mem[b].pc = "checked" /\ Goes(b, "check")
  /\ rows' = [rows EXCEPT ![mem[b].sweep].points[mem[b].at].ctx_check = TRUE]
  /\ UNCHANGED <<procs, fits, beside, spoiled, unsaved, failed, faults>>

\* The process is gone: no row's pid names it.
Orphaned(b, r) == [s \in DOMAIN r |-> IF r[s].owner = b THEN [r[s] EXCEPT !.owner = Nobody] ELSE r[s]]

\* _close; a backend that was stopping exits.
Closes(b) ==
  LET stopped == mem[b].end = "stopped"
      r == Closed(mem[b].sweep, IF stopped THEN "cancelled" ELSE mem[b].end) IN
  /\ mem[b].pc = "close"
  /\ rows' = IF stopped THEN Orphaned(b, r) ELSE r
  /\ mem' = [mem EXCEPT ![b] = [Idle EXCEPT !.pc = IF stopped THEN "down" ELSE "idle"]]
  /\ UNCHANGED <<procs, fits, beside, spoiled, unsaved, failed, faults>>

-----------------------------------------------------------------------------
(* Faults *)

\* run_point kills its group on every way out; _load_check stops its server
\* only once the group id is recorded.
KillsChild(b) ==
  procs' = procs \ {Child(b, k) : k \in IF mem[b].pc = "loading" THEN {"check"}
                                        ELSE IF mem[b].pc = "loaded" THEN {} ELSE {"bench"}}

\* From the point's row to its outcome.
Measuring == {"spawn", "record", "wait", "save"}

\* The point being measured.
AtPoint(b) == <<mem[b].sweep, mem[b].at>>

\* Mutant: _measure does not catch CancelledError.
TaskCancelledUncaught(b) ==
  /\ mem[b].pc \in TaskPcs \ {"close"} /\ mem[b].cancel
  /\ KillsChild(b)
  /\ unsaved' = unsaved \cup IF mem[b].pc \in {"spawn", "save"} THEN {AtPoint(b)} ELSE {}
  /\ mem' = [mem EXCEPT ![b].pc = "close", ![b].end = "stopped"]
  /\ UNCHANGED <<rows, fits, beside, spoiled, failed, faults>>

\* The teardown waited in vain: CancelledError in the sweep's task.  _measure
\* records it for the point being measured; a point whose row is just being
\* opened or closed is missed.
TaskCancelled(b) ==
  /\ mem[b].pc \in TaskPcs \ {"close"} /\ mem[b].cancel
  /\ KillsChild(b)
  /\ \/ /\ mem[b].pc \in {"spawn", "record", "wait"}
        /\ rows' = [rows EXCEPT ![mem[b].sweep].points[mem[b].at].status = "cancelled"]
        /\ UNCHANGED unsaved
     \/ /\ mem[b].pc \notin {"record", "wait"}
        /\ unsaved' = unsaved \cup IF mem[b].pc \in {"spawn", "save"} THEN {AtPoint(b)} ELSE {}
        /\ UNCHANGED rows
  /\ mem' = [mem EXCEPT ![b].pc = "close", ![b].end = "stopped"]
  /\ UNCHANGED <<fits, beside, spoiled, failed, faults>>

\* A call to the database, to Optuna, to start or run llama-bench or to ask
\* the server raises: a sweep is closed as failed, the point being measured
\* keeps its row as it is, since _measure catches only CancelledError, and
\* what comes before a sweep has a row, or its own close, is given up.
CallFails(b) ==
  /\ mem[b].pc \notin {"down", "idle"} /\ faults < MaxFaults
  /\ faults' = faults + 1 /\ failed' = TRUE
  /\ unsaved' = unsaved \cup IF mem[b].pc \in Measuring THEN {AtPoint(b)} ELSE {}
  /\ KillsChild(b)
  /\ mem' = [mem EXCEPT ![b] = IF mem[b].pc \in {"list", "reclaim", "open", "close"} THEN Idle
                               ELSE [@ EXCEPT !.pc = "close", !.end = "failed"]]
  /\ UNCHANGED <<rows, fits, beside, spoiled>>

\* The backend dies; what it started lives on.
Crash(b) ==
  /\ mem[b].pc # "down" /\ faults < MaxFaults
  /\ faults' = faults + 1
  /\ rows' = Orphaned(b, rows)
  /\ mem' = [mem EXCEPT ![b] = [Idle EXCEPT !.pc = "down"]]
  /\ UNCHANGED <<procs, fits, beside, spoiled, unsaved, failed>>

Steps(b) ==
  \/ Lists(b) \/ Judges(b) \/ ReclaimsPoint(b) \/ ReclaimsRow(b) \/ Reclaimed(b)
  \/ OpensSweep(b) \/ CreatesStudy(b)
  \/ Trial(b) \/ Leaves(b) \/ Ranks(b) \/ Remeasures(b)
  \/ SpawnsBench(b) \/ RecordsGroup(b) \/ Waits(b) \/ SavesPoint(b)
  \/ LoadCheck(b) \/ RecordsServer(b) \/ StopsServer(b) \/ SavesCheck(b) \/ Closes(b)

Next ==
  \/ \E b \in Backends :
       \/ Boot(b) \/ StartPrescreen(b) \/ CancelPrescreen(b) \/ Steps(b)
       \/ TaskCancelled(b) \/ CallFails(b) \/ Crash(b)
  \/ \E x \in procs : Exits(x)

Spec == Init /\ [][Next]_vars

\* A backend's coroutines go on, and a dead backend is started again.
FairSpec == Spec /\ \A b \in Backends : WF_vars(Steps(b)) /\ WF_vars(Boot(b))

-----------------------------------------------------------------------------
(* Properties *)

\* The row names the process, so that a later backend finds it.
Recorded(x) == rows[x[1]].points[x[2]].pgid = x[3]

\* Two processes share the card only if one of them is not on record (its
\* backend died or failed between starting and recording it), or if their
\* sweeps were both opened after each had looked for running ones
\* (reclaim_stale and open_sweep in prepare).
CardShared == \A x, y \in procs :
  x = y \/ ~Recorded(x) \/ ~Recorded(y) \/ {x[1], y[1]} \in beside

\* A point taken to need more memory than there is (measured, or pruned by
\* needs_more_vram) does so, unless a process that should not have been there
\* took the memory.
VerdictSound == \A s \in Sweeps : \A i \in Points(s) :
  rows[s].points[i].status \in {"oom", "pruned"} /\ rows[s].points[i].p \in fits => s \in spoiled

\* However a sweep was closed, by its task or, after any number of deaths, by
\* a later backend, a point of it is left running only if an error ended its
\* measuring, in run_point or in a write of its row (_measure records only a
\* cancellation, and reclaim_stale passes over a closed sweep), or if the
\* cancellation came while its row was being opened or closed.
PointsEnd == \A s \in Sweeps : rows[s].status # "running" =>
  \A i \in Points(s) : rows[s].points[i].status = "running" => <<s, i>> \in unsaved

\* A sweep is done only if every trial was made, none of them cut short, and
\* the leaders were measured again and load-checked: a cancel that comes at
\* any moment before shows.
DoneIsComplete == \A s \in Sweeps : rows[s].status = "done" =>
  LET least(n) == IF n < Cardinality(Oks(s)) THEN n ELSE Cardinality(Oks(s)) IN
  /\ Cardinality(Search(s)) = Budget(s)
  /\ \A i \in Points(s) : rows[s].points[i].status \notin {"running", "cancelled"}
  /\ Cardinality(Points(s) \ Search(s)) = least(REMEASURE)
  /\ Cardinality({i \in Points(s) : rows[s].points[i].ctx_check}) >= least(CtxChecks)

\* Every sweep is closed in the end, if need be by a later backend, unless a
\* call failed or two sweeps were opened beside each other (startup()'s loop
\* ends at the live one).
SweepCloses == \A s \in 1..MaxSweeps :
  (s \in Sweeps /\ rows[s].status = "running")
    ~> ((s \in Sweeps => rows[s].status # "running") \/ failed \/ beside # {})
=============================================================================
