-------------------------- MODULE PrescreenProofs --------------------------
(***************************************************************************)
(* The properties of pre-screen sweeps for any number of backends, sweeps, *)
(* points and faults.                                                      *)
(***************************************************************************)
EXTENDS Prescreen, SequenceTheorems, FiniteSetTheorems, WellFoundedInduction, TLAPS

Running == {s \in Sweeps : rows[s].status = "running"}

\* A sweep's task works on a row of its own that is running.
TaskInv == \A b \in Backends :
  /\ mem[b].pc \in TaskPcs \cup {"study"} =>
       /\ mem[b].sweep \in Running /\ rows[mem[b].sweep].owner = b
       /\ mem[b].todo \subseteq Points(mem[b].sweep)
  /\ mem[b].pc \in Measuring \cup {"loaded", "loading", "checked"} => mem[b].at \in Points(mem[b].sweep)
  /\ mem[b].pc = "list" => mem[b].at = 0
  /\ mem[b].pc \in {"list", "reclaim", "open"} => mem[b].todo = {}
  /\ mem[b].pc = "save" => mem[b].out # "none"
  /\ mem[b].pc = "close" => mem[b].end # "none"
  /\ mem[b].pc \notin {"record", "wait", "save", "close"} => mem[b].out = "none"

\* A process on record belongs to a running sweep; while that sweep's backend
\* lives, the task is waiting for the process.
ProcInv == \A x \in procs :
  /\ x[1] \in Sweeps /\ x[2] \in Points(x[1])
  /\ Recorded(x) =>
       /\ x[1] \in Running
       /\ \A b \in Backends : rows[x[1]].owner = b =>
            mem[b].pc = (IF x[3] = "bench" THEN "wait" ELSE "loading") /\ x = Child(b, x[3])

\* A sweep has one process on record.
OneInv == \A x, y \in procs : Recorded(x) /\ Recorded(y) /\ x[1] = y[1] => x = y

\* Two sweeps are running only if neither saw the other.
PairInv == \A s, t \in Running : s # t => {s, t} \in beside

\* What a backend may not have seen is in since.
ListInv == \A b \in Backends :
  /\ mem[b].pc = "reclaim" => mem[b].stale \subseteq Sweeps /\ Running \subseteq mem[b].since \cup mem[b].stale
  /\ mem[b].pc = "open" => Running \subseteq mem[b].since

\* The row being reclaimed is nobody else's, and done up to the point.
ReclaimOf(b) ==
  mem[b].pc = "reclaim" /\ mem[b].stale # {} /\ mem[b].at # 0 =>
    /\ rows[Row(b)].owner \in {Nobody, b} /\ mem[b].at <= Len(rows[Row(b)].points) + 1
    /\ \A i \in Points(Row(b)) : i < mem[b].at =>
         /\ rows[Row(b)].points[i].status # "running"
         /\ \A x \in procs : x[1] = Row(b) /\ x[2] = i => ~Recorded(x)
ReclaimInv == \A b \in Backends : ReclaimOf(b)

\* A point that is running is being measured, or its backend is gone, unless
\* its measuring was cut off.
PointInv == \A s \in Sweeps : \A i \in Points(s) :
  rows[s].points[i].status = "running" /\ <<s, i>> \notin unsaved =>
    /\ s \in Running
    /\ \A b \in Backends : rows[s].owner = b =>
         mem[b].pc \in Measuring /\ mem[b].sweep = s /\ mem[b].at = i

\* A process is not on record before it was started.
PgidOf(b) ==
  LET points == rows[mem[b].sweep].points IN
  /\ mem[b].pc \in {"study", "search", "rank", "again", "rank2"} \cup Measuring =>
       \A i \in Points(mem[b].sweep) : points[i].pgid # "check"
  /\ mem[b].pc \in {"spawn", "record"} => points[mem[b].at].pgid = "none"
  /\ mem[b].pc \in {"check", "loaded", "loading", "checked"} => \A i \in mem[b].todo : points[i].pgid # "check"
  /\ mem[b].pc \in {"loaded", "loading", "checked"} => mem[b].at \notin mem[b].todo
  /\ mem[b].pc = "loaded" => points[mem[b].at].pgid # "check"
PgidInv == \A b \in Backends : PgidOf(b)

\* Memory runs out where it must, or the sweep is spoiled.
OutInv == \A b \in Backends :
  /\ mem[b].pc \in Measuring /\ mem[b].out = "oom" /\ rows[mem[b].sweep].points[mem[b].at].p \in fits
  => mem[b].sweep \in spoiled

IndInv == /\ TypeOK /\ Monotone(fits) /\ TaskInv /\ ProcInv /\ OneInv /\ PairInv /\ ListInv
          /\ ReclaimInv /\ PointInv /\ PgidInv /\ OutInv /\ VerdictSound

-----------------------------------------------------------------------------
(* What an update of the rows leaves as it was *)

\* q differs from r at most in what its points hold and in new points.
Extends(q, r) ==
  /\ q \in Seq(SweepRows) /\ Len(q) = Len(r)
  /\ \A t \in 1..Len(r) : q[t].status = r[t].status /\ q[t].owner = r[t].owner

\* A point's row keeps its number and its configuration.
SamePoints(q, r) == \A t \in 1..Len(r) :
  /\ Len(q[t].points) = Len(r[t].points)
  /\ \A j \in 1..Len(r[t].points) : q[t].points[j].p = r[t].points[j].p

PointSt == {"running", "ok", "oom", "error", "pruned", "invalid", "repeat", "cancelled"}

\* set_point of a status, of a group id and of a load check.
SetStatus(r, s, i, v) == [r EXCEPT ![s].points[i].status = v]
SetPgid(r, s, i, v) == [r EXCEPT ![s].points[i].pgid = v]
SetCheck(r, s, i, v) == [r EXCEPT ![s].points[i].ctx_check = v]

\* What is left of the status, and of the group id, of the other points.
StatusSet(q, r, s, i, v) == \A t \in 1..Len(r) : \A j \in 1..Len(r[t].points) :
  q[t].points[j].status = IF t = s /\ j = i THEN v ELSE r[t].points[j].status
PgidSet(q, r, s, i, v) == \A t \in 1..Len(r) : \A j \in 1..Len(r[t].points) :
  q[t].points[j].pgid = IF t = s /\ j = i THEN v ELSE r[t].points[j].pgid
SameStatus(q, r) == \A t \in 1..Len(r) : \A j \in 1..Len(r[t].points) : q[t].points[j].status = r[t].points[j].status
SamePgid(q, r) == \A t \in 1..Len(r) : \A j \in 1..Len(r[t].points) : q[t].points[j].pgid = r[t].points[j].pgid

\* The types of what is in the rows.
LEMMA RowTyped ==
  ASSUME NEW r \in Seq(SweepRows), NEW s \in 1..Len(r)
  PROVE  /\ r[s] \in SweepRows /\ r[s].points \in Seq(PointRows) /\ Len(r[s].points) \in Nat
         /\ \A i \in 1..Len(r[s].points) : r[s].points[i] \in PointRows
<1>1. r[s] \in SweepRows BY ElementOfSeq
<1>2. r[s].points \in Seq(PointRows) BY <1>1 DEF SweepRows
<1> QED BY <1>1, <1>2, ElementOfSeq

\* set_point of a status.
LEMMA PutStatus ==
  ASSUME NEW r \in Seq(SweepRows), NEW s \in 1..Len(r), NEW i \in 1..Len(r[s].points), NEW v \in PointSt,
         NEW q, q = SetStatus(r, s, i, v)
  PROVE  Extends(q, r) /\ SamePoints(q, r) /\ StatusSet(q, r, s, i, v) /\ SamePgid(q, r)
<1> DEFINE u == [r[s].points[i] EXCEPT !.status = v]
           w == [r[s].points EXCEPT ![i] = u]
           z == [r[s] EXCEPT !.points = w]
<1>1. r[s] \in SweepRows /\ r[s].points \in Seq(PointRows) /\ r[s].points[i] \in PointRows
  BY RowTyped
<1>2. u \in PointRows /\ u.p = r[s].points[i].p
      /\ u.status = v
      /\ u.pgid = r[s].points[i].pgid
  BY <1>1 DEF PointRows, PointSt
<1>3. w \in Seq(PointRows) /\ Len(w) = Len(r[s].points) /\ w[i] = u
      /\ \A j \in 1..Len(r[s].points) : j # i => w[j] = r[s].points[j]
  <2> HIDE DEF u
  <2> QED BY <1>1, <1>2, ExceptSeq
<1>4. z \in SweepRows /\ z.points = w /\ z.status = r[s].status /\ z.owner = r[s].owner
  <2> HIDE DEF w
  <2> QED BY <1>1, <1>3 DEF SweepRows
<1>5. q = [r EXCEPT ![s] = z] BY DEF SetStatus
<1> HIDE DEF u, w, z
<1>6. q \in Seq(SweepRows) /\ Len(q) = Len(r) /\ \A t \in 1..Len(r) : q[t] = IF t = s THEN z ELSE r[t]
  <2>1. /\ [r EXCEPT ![s] = z] \in Seq(SweepRows) /\ Len([r EXCEPT ![s] = z]) = Len(r)
        /\ \A t \in 1..Len(r) : [r EXCEPT ![s] = z][t] = IF t = s THEN z ELSE r[t]
    BY <1>4, ExceptSeq
  <2> QED BY <1>5, <2>1
<1> QED BY <1>1, <1>2, <1>3, <1>4, <1>6, ZenonT(60) DEF Extends, SamePoints, StatusSet, PgidSet, SameStatus, SamePgid

\* set_point of a group id.
LEMMA PutPgid ==
  ASSUME NEW r \in Seq(SweepRows), NEW s \in 1..Len(r), NEW i \in 1..Len(r[s].points), NEW v \in {"none", "bench", "check"},
         NEW q, q = SetPgid(r, s, i, v)
  PROVE  Extends(q, r) /\ SamePoints(q, r) /\ SameStatus(q, r) /\ PgidSet(q, r, s, i, v)
<1> DEFINE u == [r[s].points[i] EXCEPT !.pgid = v]
           w == [r[s].points EXCEPT ![i] = u]
           z == [r[s] EXCEPT !.points = w]
<1>1. r[s] \in SweepRows /\ r[s].points \in Seq(PointRows) /\ r[s].points[i] \in PointRows
  BY RowTyped
<1>2. u \in PointRows /\ u.p = r[s].points[i].p
      /\ u.status = r[s].points[i].status
      /\ u.pgid = v
  BY <1>1 DEF PointRows, PointSt
<1>3. w \in Seq(PointRows) /\ Len(w) = Len(r[s].points) /\ w[i] = u
      /\ \A j \in 1..Len(r[s].points) : j # i => w[j] = r[s].points[j]
  <2> HIDE DEF u
  <2> QED BY <1>1, <1>2, ExceptSeq
<1>4. z \in SweepRows /\ z.points = w /\ z.status = r[s].status /\ z.owner = r[s].owner
  <2> HIDE DEF w
  <2> QED BY <1>1, <1>3 DEF SweepRows
<1>5. q = [r EXCEPT ![s] = z] BY DEF SetPgid
<1> HIDE DEF u, w, z
<1>6. q \in Seq(SweepRows) /\ Len(q) = Len(r) /\ \A t \in 1..Len(r) : q[t] = IF t = s THEN z ELSE r[t]
  <2>1. /\ [r EXCEPT ![s] = z] \in Seq(SweepRows) /\ Len([r EXCEPT ![s] = z]) = Len(r)
        /\ \A t \in 1..Len(r) : [r EXCEPT ![s] = z][t] = IF t = s THEN z ELSE r[t]
    BY <1>4, ExceptSeq
  <2> QED BY <1>5, <2>1
<1>7. ASSUME NEW t \in 1..Len(r) PROVE q[t].status = r[t].status /\ q[t].owner = r[t].owner /\ Len(q[t].points) = Len(r[t].points)
  BY <1>3, <1>4, <1>6
<1>8. ASSUME NEW t \in 1..Len(r), NEW j \in 1..Len(r[t].points)
      PROVE  q[t].points[j] = IF t = s /\ j = i THEN u ELSE r[t].points[j]
  BY <1>3, <1>4, <1>6
<1> QED BY <1>2, <1>6, <1>7, <1>8 DEF Extends, SamePoints, PgidSet, SameStatus

\* set_point of a load check.
LEMMA PutCheck ==
  ASSUME NEW r \in Seq(SweepRows), NEW s \in 1..Len(r), NEW i \in 1..Len(r[s].points), NEW v \in BOOLEAN,
         NEW q, q = SetCheck(r, s, i, v)
  PROVE  Extends(q, r) /\ SamePoints(q, r) /\ SameStatus(q, r) /\ SamePgid(q, r)
<1> DEFINE u == [r[s].points[i] EXCEPT !.ctx_check = v]
           w == [r[s].points EXCEPT ![i] = u]
           z == [r[s] EXCEPT !.points = w]
<1>1. r[s] \in SweepRows /\ r[s].points \in Seq(PointRows) /\ r[s].points[i] \in PointRows
  BY RowTyped
<1>2. u \in PointRows /\ u.p = r[s].points[i].p
      /\ u.status = r[s].points[i].status
      /\ u.pgid = r[s].points[i].pgid
  BY <1>1 DEF PointRows, PointSt
<1>3. w \in Seq(PointRows) /\ Len(w) = Len(r[s].points) /\ w[i] = u
      /\ \A j \in 1..Len(r[s].points) : j # i => w[j] = r[s].points[j]
  <2> HIDE DEF u
  <2> QED BY <1>1, <1>2, ExceptSeq
<1>4. z \in SweepRows /\ z.points = w /\ z.status = r[s].status /\ z.owner = r[s].owner
  <2> HIDE DEF w
  <2> QED BY <1>1, <1>3 DEF SweepRows
<1>5. q = [r EXCEPT ![s] = z] BY DEF SetCheck
<1> HIDE DEF u, w, z
<1>6. q \in Seq(SweepRows) /\ Len(q) = Len(r) /\ \A t \in 1..Len(r) : q[t] = IF t = s THEN z ELSE r[t]
  <2>1. /\ [r EXCEPT ![s] = z] \in Seq(SweepRows) /\ Len([r EXCEPT ![s] = z]) = Len(r)
        /\ \A t \in 1..Len(r) : [r EXCEPT ![s] = z][t] = IF t = s THEN z ELSE r[t]
    BY <1>4, ExceptSeq
  <2> QED BY <1>5, <2>1
<1> QED BY <1>1, <1>2, <1>3, <1>4, <1>6 DEF Extends, SamePoints, StatusSet, PgidSet, SameStatus, SamePgid

\* open_point.
PutPoint(r, s, e) == [r EXCEPT ![s].points = Append(@, e)]

PointAdded(q, r, s, e) ==
  /\ Extends(q, r)
  /\ \A t \in 1..Len(r) : t # s => q[t] = r[t]
  /\ Len(q[s].points) = Len(r[s].points) + 1
  /\ \A j \in 1..Len(r[s].points) : q[s].points[j] = r[s].points[j]
  /\ q[s].points[Len(r[s].points) + 1] = e

\* A point added to a sweep's rows changes no other point and no other sweep.
LEMMA AddPoint ==
  ASSUME NEW r \in Seq(SweepRows), NEW s \in 1..Len(r), NEW e \in PointRows, NEW q, q = PutPoint(r, s, e)
  PROVE  PointAdded(q, r, s, e)
<1> DEFINE w == Append(r[s].points, e)
           z == [r[s] EXCEPT !.points = w]
<1>1. r[s] \in SweepRows /\ r[s].points \in Seq(PointRows) BY RowTyped
<1>2. /\ w \in Seq(PointRows) /\ Len(w) = Len(r[s].points) + 1 /\ w[Len(r[s].points) + 1] = e
      /\ \A j \in 1..Len(r[s].points) : w[j] = r[s].points[j]
  BY <1>1, AppendProperties
<1>3. z \in SweepRows /\ z.points = w /\ z.status = r[s].status /\ z.owner = r[s].owner
  <2> HIDE DEF w
  <2> QED BY <1>1, <1>2 DEF SweepRows
<1>4. q = [r EXCEPT ![s] = z] BY DEF PutPoint
<1> HIDE DEF w, z
<1>5. q \in Seq(SweepRows) /\ Len(q) = Len(r) /\ \A t \in 1..Len(r) : q[t] = IF t = s THEN z ELSE r[t]
  <2>1. /\ [r EXCEPT ![s] = z] \in Seq(SweepRows) /\ Len([r EXCEPT ![s] = z]) = Len(r)
        /\ \A t \in 1..Len(r) : [r EXCEPT ![s] = z][t] = IF t = s THEN z ELSE r[t]
    BY <1>3, ExceptSeq
  <2> QED BY <1>4, <2>1
<1> QED BY <1>2, <1>3, <1>5 DEF Extends, PointAdded

\* The row of a sweep that is closed, if it was running.
CloseIn(r, s, v) == [r EXCEPT ![s].status = IF @ = "running" THEN v ELSE @]

\* Only that row's status differs.
RowClosed(q, r, s) ==
  /\ q \in Seq(SweepRows) /\ Len(q) = Len(r) /\ q[s].status # "running"
  /\ \A t \in 1..Len(r) : q[t].points = r[t].points /\ q[t].owner = r[t].owner
  /\ \A t \in 1..Len(r) : t # s => q[t].status = r[t].status

\* close_sweep.
LEMMA CloseRow ==
  ASSUME NEW r \in Seq(SweepRows), NEW s \in 1..Len(r), NEW v \in {"done", "cancelled", "failed", "stale"},
         NEW q, q = CloseIn(r, s, v)
  PROVE  RowClosed(q, r, s)
<1> DEFINE z == [r[s] EXCEPT !.status = IF @ = "running" THEN v ELSE @]
<1>1. r[s] \in SweepRows BY RowTyped
<1>2. z \in SweepRows /\ z.points = r[s].points /\ z.status # "running" /\ z.owner = r[s].owner
  BY <1>1 DEF SweepRows
<1>3. q = [r EXCEPT ![s] = z] BY DEF CloseIn
<1> HIDE DEF z
<1>4. /\ [r EXCEPT ![s] = z] \in Seq(SweepRows) /\ Len([r EXCEPT ![s] = z]) = Len(r)
      /\ \A t \in 1..Len(r) : [r EXCEPT ![s] = z][t] = IF t = s THEN z ELSE r[t]
  BY <1>2, ExceptSeq
<1> QED BY <1>2, <1>3, <1>4 DEF RowClosed

\* The rows of a backend that is gone.
LEMMA OrphanRows ==
  ASSUME NEW r \in Seq(SweepRows), NEW b \in Backends, NEW q, q = Orphaned(b, r)
  PROVE  /\ q \in Seq(SweepRows) /\ Len(q) = Len(r)
         /\ \A t \in 1..Len(r) : /\ q[t].points = r[t].points /\ q[t].status = r[t].status
                                 /\ q[t].owner = IF r[t].owner = b THEN Nobody ELSE r[t].owner
<1>1. \A t \in 1..Len(r) : r[t] \in SweepRows BY RowTyped
<1>2. DOMAIN r = 1..Len(r) /\ Len(r) \in Nat OBVIOUS
<1> DEFINE f(t) == IF r[t].owner = b THEN [r[t] EXCEPT !.owner = Nobody] ELSE r[t]
<1>3. \A t \in 1..Len(r) : /\ f(t) \in SweepRows /\ f(t).points = r[t].points /\ f(t).status = r[t].status
                           /\ f(t).owner = IF r[t].owner = b THEN Nobody ELSE r[t].owner
  BY <1>1 DEF SweepRows
<1>4. q = [t \in 1..Len(r) |-> f(t)] BY <1>2 DEF Orphaned
<1> HIDE DEF f
<1>5. \A t \in 1..Len(r) : q[t] = f(t) BY <1>4
<1>6. q \in Seq(SweepRows) /\ Len(q) = Len(r) BY <1>2, <1>3, <1>4
<1> QED BY <1>3, <1>5, <1>6

-----------------------------------------------------------------------------
(* Steps *)

\* The loop of reclaim_stale has a row while some are left.
LEMMA RowIn ==
  ASSUME NEW n \in Nat, NEW T \in SUBSET (1..n), T # {}
  PROVE  LET r == CHOOSE s \in T : \A t \in T : t <= s IN r \in T /\ \A t \in T : t <= r
<1> DEFINE U == {n - t : t \in T}
<1>1. U \subseteq Nat /\ U # {}
  <2>1. \A t \in T : t \in Nat /\ n - t \in Nat OBVIOUS
  <2> QED BY <2>1
<1>2. \E less : IsWellFoundedOn(less, Nat) /\ \A x, y \in Nat : x < y => <<x, y>> \in less
  <2>1. \A x, y \in Nat : x < y => <<x, y>> \in OpToRel(<, Nat) BY DEF OpToRel
  <2> QED BY <2>1, NatLessThanWellFounded
<1>3. PICK less : IsWellFoundedOn(less, Nat) /\ \A x, y \in Nat : x < y => <<x, y>> \in less
  BY <1>2
<1>4. IsWellFoundedOn(less, Nat) BY <1>3
<1>5. PICK x \in U : \A y \in U : ~(<<y, x>> \in less)
  <2> HIDE <1>3
  <2> HIDE DEF U
  <2> QED BY <1>1, <1>4, WFMin, Zenon
<1>6. \A y \in U : ~(y < x) BY <1>1, <1>3, <1>5
<1>7. PICK s \in T : x = n - s BY <1>5
<1>8. \A t \in T : n - t \in U BY DEF U
<1> HIDE DEF U
<1>9. \A t \in T : t <= s BY <1>1, <1>6, <1>7, <1>8
<1> QED BY <1>9

\* The row reclaim_stale is at.
LEMMA RowOf ==
  ASSUME IndInv, NEW b \in Backends, mem[b].pc = "reclaim", mem[b].stale # {}
  PROVE  Row(b) \in mem[b].stale /\ Row(b) \in Sweeps
<1>1. mem[b].stale \in SUBSET (1..Len(rows)) /\ Len(rows) \in Nat
  BY DEF IndInv, TypeOK, ListInv, Sweeps
<1> DEFINE T == mem[b].stale
<1>2. T \in SUBSET (1..Len(rows)) /\ T # {} BY <1>1
<1>3. Row(b) = CHOOSE s \in T : \A u \in T : u <= s BY DEF Row
<1> HIDE DEF T
<1>4. Row(b) \in T BY <1>1, <1>2, <1>3, RowIn
<1> QED BY <1>1, <1>2, <1>4 DEF T, Sweeps

\* Where a backend's task is, is in the rows.
Placed == \A c \in Backends :
  /\ mem[c].pc \in {"study", "search", "rank", "again", "rank2"} \cup Measuring => mem[c].sweep \in Sweeps
  /\ mem[c].pc \in Measuring \cup {"loaded"} => mem[c].sweep \in Sweeps /\ mem[c].at \in Points(mem[c].sweep)
  /\ mem[c].pc \in {"spawn", "record"} => mem[c].sweep \in Sweeps /\ mem[c].at \in Points(mem[c].sweep)
  /\ mem[c].pc \in {"check", "loaded", "loading", "checked"} =>
       mem[c].sweep \in Sweeps /\ mem[c].todo \subseteq Points(mem[c].sweep)

\* A measuring or checking task is at a point of its own sweep.
LEMMA TaskAt == IndInv => Placed
BY DEF IndInv, TaskInv, TaskPcs, Measuring, Running, Placed

\* The step leaves row t as it was: it has the same points, none of them
\* is started, and no process is put on record.
Kept(t) ==
  /\ Points(t)' = Points(t) /\ Len(rows'[t].points) = Len(rows[t].points)
  /\ rows'[t].owner \in {rows[t].owner, Nobody}
  /\ \A j \in Points(t) :
       /\ rows'[t].points[j].pgid = rows[t].points[j].pgid
       /\ rows'[t].points[j].status = "running" => rows[t].points[j].status = "running"

\* Then what is known of a backend that works on the row is still so.
LEMMA PgidKept ==
  ASSUME IndInv, NEW c \in Backends, mem'[c] = mem[c],
         \A t \in Sweeps : t = mem[c].sweep /\ mem[c].pc \in TaskPcs \cup {"study"} => Kept(t)
  PROVE  PgidOf(c)'
<1>1. Placed /\ PgidOf(c) BY TaskAt DEF IndInv, PgidInv
<1>2. PICK s : s = mem[c].sweep OBVIOUS
<1>9. s \in Sweeps /\ mem[c].pc \in TaskPcs \cup {"study"} => Kept(s) BY <1>2
<1>0. CASE mem[c].pc \notin TaskPcs \cup {"study"} BY <1>0 DEF PgidOf, TaskPcs, Measuring
<1> SUFFICES ASSUME mem[c].pc \in TaskPcs \cup {"study"} PROVE PgidOf(c)' BY <1>0
<1>3. ASSUME s \in Sweeps, NEW i \in Points(s) PROVE rows'[s].points[i].pgid = rows[s].points[i].pgid
  <2>1. Kept(s) BY <1>3, <1>9
  <2> QED BY <2>1 DEF Kept
<1>4. s \in Sweeps => Points(s)' = Points(s) BY <1>9 DEF Kept
<1>5. mem[c].pc \in {"study", "search", "rank", "again", "rank2"} \cup Measuring =>
        \A i \in Points(s)' : rows'[s].points[i].pgid # "check"
  BY <1>1, <1>2, <1>3, <1>4 DEF PgidOf, Placed
<1>6. mem[c].pc \in {"spawn", "record"} => rows'[s].points[mem[c].at].pgid = "none"
  BY <1>1, <1>2, <1>3 DEF PgidOf, Placed
<1>7. mem[c].pc \in {"check", "loaded", "loading", "checked"} => \A i \in mem[c].todo : rows'[s].points[i].pgid # "check"
  BY <1>1, <1>2, <1>3 DEF PgidOf, Placed
<1>8. mem[c].pc = "loaded" => rows'[s].points[mem[c].at].pgid # "check" BY <1>1, <1>2, <1>3 DEF PgidOf, Placed
<1> QED BY <1>1, <1>2, <1>5, <1>6, <1>7, <1>8 DEF PgidOf

\* A step of another backend that closes no row in a reclaim's list leaves
\* that reclaim where it was.
LEMMA ReclaimKept ==
  ASSUME IndInv, NEW c \in Backends, mem'[c] = mem[c],
         mem[c].pc = "reclaim" /\ mem[c].stale # {} /\ mem[c].at # 0 => \A t \in Sweeps : t = Row(c) => Kept(t),
         mem[c].pc = "reclaim" /\ mem[c].stale # {} /\ mem[c].at # 0 =>
           \A x \in procs' : Recorded(x)' /\ x[1] = Row(c) => x \in procs /\ Recorded(x)
  PROVE  ReclaimOf(c)'
<1>1. SUFFICES ASSUME mem[c].pc = "reclaim", mem[c].stale # {}, mem[c].at # 0
               PROVE  ReclaimOf(c)'
  BY DEF ReclaimOf
<1>2. PICK s : s = Row(c) OBVIOUS
<1>3. s \in Sweeps /\ Kept(s) /\ Row(c)' = s
  <2>1. Row(c)' = Row(c) BY DEF Row
  <2> QED BY <1>1, <1>2, <2>1, RowOf
<1>4. /\ rows[s].owner \in {Nobody, c} /\ mem[c].at <= Len(rows[s].points) + 1
      /\ \A i \in Points(s) : i < mem[c].at =>
           /\ rows[s].points[i].status # "running"
           /\ \A x \in procs : x[1] = s /\ x[2] = i => ~Recorded(x)
  BY <1>1, <1>2 DEF IndInv, ReclaimInv, ReclaimOf
<1>5. rows'[s].owner \in {Nobody, c} /\ mem'[c].at <= Len(rows'[s].points) + 1 BY <1>3, <1>4 DEF Kept
<1>6. ASSUME NEW i \in Points(s)', i < mem'[c].at PROVE rows'[s].points[i].status # "running"
  <2>1. i \in Points(s) /\ i < mem[c].at BY <1>3, <1>6 DEF Kept
  <2>2. rows[s].points[i].status # "running" BY <1>4, <2>1
  <2>3. Kept(s) BY <1>3
  <2> QED BY <2>1, <2>2, <2>3 DEF Kept
<1>7. ASSUME NEW i \in Points(s)', i < mem'[c].at, NEW x \in procs', x[1] = s, x[2] = i PROVE ~Recorded(x)'
  BY <1>1, <1>2, <1>3, <1>4, <1>7 DEF Kept
<1> QED BY <1>3, <1>5, <1>6, <1>7 DEF ReclaimOf

\* A step that leaves the rows and what is being measured as they are.
LEMMA PointKept ==
  ASSUME PointInv, rows' = rows, unsaved' = unsaved,
         \A c \in Backends : mem[c].pc \in Measuring =>
           mem'[c].pc \in Measuring /\ mem'[c].sweep = mem[c].sweep /\ mem'[c].at = mem[c].at
  PROVE  PointInv'
<1>1. Sweeps' = Sweeps /\ Running' = Running /\ \A t : Points(t)' = Points(t) BY DEF Sweeps, Running, Points
<1> QED BY <1>1 DEF PointInv

\* startup()
LEMMA BootStep == ASSUME IndInv, NEW b \in Backends, Boot(b) PROVE IndInv'
<1> DEFINE e == [Idle EXCEPT !.pc = "list", !.boot = TRUE]
<1>1. mem[b] \in Memory /\ mem \in [Backends -> Memory] /\ rows \in Seq(SweepRows) /\ mem[b].pc = "down" BY DEF IndInv, TypeOK, Boot
<1>2. /\ e \in Memory /\ e.pc = "list" /\ e.boot = TRUE /\ e.stale = {} /\ e.since = {} /\ e.sweep = 0 /\ e.at = 0
      /\ e.todo = {} /\ e.out = "none" /\ e.end = "none" /\ e.cancel = FALSE
  BY <1>1 DEF Memory, TaskPcs, Idle
<1>3. mem' = [mem EXCEPT ![b] = e] BY DEF Boot, Goes
<1> HIDE DEF e
<1>4. mem' \in [Backends -> Memory] /\ mem'[b] = e /\ \A c \in Backends : c # b => mem'[c] = mem[c] BY <1>1, <1>2, <1>3
<1>5. \A c \in Backends : mem'[c].stale = mem[c].stale => Row(c)' = Row(c) BY DEF Row
<1>6. /\ rows' = rows /\ procs' = procs /\ unsaved' = unsaved /\ failed' = failed
      /\ fits' = fits /\ spoiled' = spoiled /\ beside' = beside
  BY DEF Boot
<1>10. TypeOK' BY <1>1, <1>2, <1>4, <1>5, <1>6 DEF IndInv, TypeOK, Boot
<1>11. TaskInv' BY <1>1, <1>2, <1>4, <1>5, <1>6 DEF IndInv, TaskInv, TaskPcs, Running, Sweeps, Points, Measuring
<1>12. ProcInv' BY <1>1, <1>2, <1>4, <1>5, <1>6, SMTT(60) DEF IndInv, ProcInv, Running, Sweeps, Points, Recorded, Child
<1>13. OneInv' BY <1>1, <1>2, <1>4, <1>5, <1>6 DEF IndInv, OneInv, Recorded
<1>14. PairInv' BY <1>1, <1>2, <1>4, <1>5, <1>6 DEF IndInv, PairInv, Running, Sweeps
<1>15. ListInv' BY <1>1, <1>2, <1>4, <1>5, <1>6 DEF IndInv, ListInv, Running, Sweeps
<1>16. ReclaimInv' BY <1>1, <1>2, <1>4, <1>5, <1>6 DEF IndInv, ReclaimInv, ReclaimOf, Recorded, Points
<1>17. PointInv'
  <2>1. \A c \in Backends : mem[c].pc \in Measuring =>
          mem'[c].pc \in Measuring /\ mem'[c].sweep = mem[c].sweep /\ mem'[c].at = mem[c].at
    BY <1>1, <1>2, <1>4 DEF Measuring
  <2> QED BY <1>6, <2>1, PointKept DEF IndInv
<1>18. OutInv' BY <1>1, <1>2, <1>4, <1>5, <1>6 DEF IndInv, OutInv, TaskInv, Measuring, TaskPcs, Running, Sweeps, Points
<1>19. PgidInv' 
  <2>1. PgidOf(b)' BY <1>1, <1>2, <1>4, <1>5, <1>6 DEF IndInv, PgidInv, PgidOf, Points, Measuring, TaskPcs
  <2>2. ASSUME NEW c \in Backends, c # b PROVE PgidOf(c)'
    <3>1. mem'[c] = mem[c] /\ rows' = rows BY <1>4, <1>6, <2>2
    <3>2. PgidOf(c) BY DEF IndInv, PgidInv
    <3> QED BY <3>1, <3>2 DEF PgidOf, Points
  <2> QED BY <2>1, <2>2 DEF PgidInv
<1>20. VerdictSound' BY <1>1, <1>2, <1>4, <1>5, <1>6 DEF IndInv, VerdictSound, Sweeps, Points
<1>21. Monotone(fits)' BY DEF IndInv, Monotone, Boot
<1> QED BY <1>10, <1>11, <1>12, <1>13, <1>14, <1>15, <1>16, <1>17, <1>18, <1>19, <1>20, <1>21 DEF IndInv

\* /start
LEMMA StartPrescreenStep == ASSUME IndInv, NEW b \in Backends, StartPrescreen(b) PROVE IndInv'
<1> DEFINE e == [Idle EXCEPT !.pc = "list"]
<1>1. mem[b] \in Memory /\ mem \in [Backends -> Memory] /\ rows \in Seq(SweepRows) /\ mem[b].pc = "idle" BY DEF IndInv, TypeOK, StartPrescreen
<1>2. /\ e \in Memory /\ e.pc = "list" /\ e.boot = FALSE /\ e.stale = {} /\ e.since = {} /\ e.sweep = 0 /\ e.at = 0
      /\ e.todo = {} /\ e.out = "none" /\ e.end = "none" /\ e.cancel = FALSE
  BY <1>1 DEF Memory, TaskPcs, Idle
<1>3. mem' = [mem EXCEPT ![b] = e] BY DEF StartPrescreen, Goes
<1> HIDE DEF e
<1>4. mem' \in [Backends -> Memory] /\ mem'[b] = e /\ \A c \in Backends : c # b => mem'[c] = mem[c] BY <1>1, <1>2, <1>3
<1>5. \A c \in Backends : mem'[c].stale = mem[c].stale => Row(c)' = Row(c) BY DEF Row
<1>6. /\ rows' = rows /\ procs' = procs /\ unsaved' = unsaved /\ failed' = failed
      /\ fits' = fits /\ spoiled' = spoiled /\ beside' = beside
  BY DEF StartPrescreen
<1>10. TypeOK' BY <1>1, <1>2, <1>4, <1>5, <1>6 DEF IndInv, TypeOK, StartPrescreen
<1>11. TaskInv' BY <1>1, <1>2, <1>4, <1>5, <1>6 DEF IndInv, TaskInv, TaskPcs, Running, Sweeps, Points, Measuring
<1>12. ProcInv' BY <1>1, <1>2, <1>4, <1>5, <1>6, SMTT(60) DEF IndInv, ProcInv, Running, Sweeps, Points, Recorded, Child
<1>13. OneInv' BY <1>1, <1>2, <1>4, <1>5, <1>6 DEF IndInv, OneInv, Recorded
<1>14. PairInv' BY <1>1, <1>2, <1>4, <1>5, <1>6 DEF IndInv, PairInv, Running, Sweeps
<1>15. ListInv' BY <1>1, <1>2, <1>4, <1>5, <1>6 DEF IndInv, ListInv, Running, Sweeps
<1>16. ReclaimInv' BY <1>1, <1>2, <1>4, <1>5, <1>6 DEF IndInv, ReclaimInv, ReclaimOf, Recorded, Points
<1>17. PointInv'
  <2>1. \A c \in Backends : mem[c].pc \in Measuring =>
          mem'[c].pc \in Measuring /\ mem'[c].sweep = mem[c].sweep /\ mem'[c].at = mem[c].at
    BY <1>1, <1>2, <1>4 DEF Measuring
  <2> QED BY <1>6, <2>1, PointKept DEF IndInv
<1>18. OutInv' BY <1>1, <1>2, <1>4, <1>5, <1>6 DEF IndInv, OutInv, TaskInv, Measuring, TaskPcs, Running, Sweeps, Points
<1>19. PgidInv' 
  <2>1. PgidOf(b)' BY <1>1, <1>2, <1>4, <1>5, <1>6 DEF IndInv, PgidInv, PgidOf, Points, Measuring, TaskPcs
  <2>2. ASSUME NEW c \in Backends, c # b PROVE PgidOf(c)'
    <3>1. mem'[c] = mem[c] /\ rows' = rows BY <1>4, <1>6, <2>2
    <3>2. PgidOf(c) BY DEF IndInv, PgidInv
    <3> QED BY <3>1, <3>2 DEF PgidOf, Points
  <2> QED BY <2>1, <2>2 DEF PgidInv
<1>20. VerdictSound' BY <1>1, <1>2, <1>4, <1>5, <1>6 DEF IndInv, VerdictSound, Sweeps, Points
<1>21. Monotone(fits)' BY DEF IndInv, Monotone, StartPrescreen
<1> QED BY <1>10, <1>11, <1>12, <1>13, <1>14, <1>15, <1>16, <1>17, <1>18, <1>19, <1>20, <1>21 DEF IndInv

\* The list of the running sweeps
LEMMA ListsStep == ASSUME IndInv, NEW b \in Backends, Lists(b) PROVE IndInv'
<1> DEFINE e == [mem[b] EXCEPT !.pc = "reclaim", !.since = {}, !.stale = Running]
<1>1. mem[b] \in Memory /\ mem \in [Backends -> Memory] /\ rows \in Seq(SweepRows) /\ mem[b].pc = "list" /\ mem[b].at = 0 BY DEF IndInv, TypeOK, TaskInv, Lists
<1>2. /\ e \in Memory /\ e.pc = "reclaim" /\ e.boot = mem[b].boot /\ e.stale = Running /\ e.since = {}
      /\ e.sweep = mem[b].sweep /\ e.at = 0 /\ e.todo = mem[b].todo /\ e.out = mem[b].out
      /\ e.end = mem[b].end /\ e.cancel = mem[b].cancel
  <2>1. Running \in SUBSET Nat BY DEF Running, Sweeps
  <2> HIDE DEF Running
  <2> QED BY <1>1, <2>1 DEF Memory, TaskPcs
<1>3. mem' = [mem EXCEPT ![b] = e] BY DEF Lists, Running
<1> HIDE DEF e
<1>4. mem' \in [Backends -> Memory] /\ mem'[b] = e /\ \A c \in Backends : c # b => mem'[c] = mem[c] BY <1>1, <1>2, <1>3
<1>5. \A c \in Backends : mem'[c].stale = mem[c].stale => Row(c)' = Row(c) BY DEF Row
<1>6. /\ rows' = rows /\ procs' = procs /\ unsaved' = unsaved /\ failed' = failed
      /\ fits' = fits /\ spoiled' = spoiled /\ beside' = beside
  BY DEF Lists
<1>10. TypeOK' BY <1>1, <1>2, <1>4, <1>5, <1>6 DEF IndInv, TypeOK, Lists
<1>11. TaskInv' BY <1>1, <1>2, <1>4, <1>5, <1>6 DEF IndInv, TaskInv, TaskPcs, Running, Sweeps, Points, Measuring
<1>12. ProcInv' BY <1>1, <1>2, <1>4, <1>5, <1>6, SMTT(60) DEF IndInv, ProcInv, Running, Sweeps, Points, Recorded, Child
<1>13. OneInv' BY <1>1, <1>2, <1>4, <1>5, <1>6 DEF IndInv, OneInv, Recorded
<1>14. PairInv' BY <1>1, <1>2, <1>4, <1>5, <1>6 DEF IndInv, PairInv, Running, Sweeps
<1>15. ListInv' BY <1>1, <1>2, <1>4, <1>5, <1>6 DEF IndInv, ListInv, Running, Sweeps
<1>16. ReclaimInv' BY <1>1, <1>2, <1>4, <1>5, <1>6 DEF IndInv, ReclaimInv, ReclaimOf, Recorded, Points
<1>17. PointInv'
  <2>1. \A c \in Backends : mem[c].pc \in Measuring =>
          mem'[c].pc \in Measuring /\ mem'[c].sweep = mem[c].sweep /\ mem'[c].at = mem[c].at
    BY <1>1, <1>2, <1>4 DEF Measuring
  <2> QED BY <1>6, <2>1, PointKept DEF IndInv
<1>18. OutInv' BY <1>1, <1>2, <1>4, <1>5, <1>6 DEF IndInv, OutInv, TaskInv, Measuring, TaskPcs, Running, Sweeps, Points
<1>19. PgidInv' 
  <2>1. PgidOf(b)' BY <1>1, <1>2, <1>4, <1>5, <1>6 DEF IndInv, PgidInv, PgidOf, Points, Measuring, TaskPcs
  <2>2. ASSUME NEW c \in Backends, c # b PROVE PgidOf(c)'
    <3>1. mem'[c] = mem[c] /\ rows' = rows BY <1>4, <1>6, <2>2
    <3>2. PgidOf(c) BY DEF IndInv, PgidInv
    <3> QED BY <3>1, <3>2 DEF PgidOf, Points
  <2> QED BY <2>1, <2>2 DEF PgidInv
<1>20. VerdictSound' BY <1>1, <1>2, <1>4, <1>5, <1>6 DEF IndInv, VerdictSound, Sweeps, Points
<1>21. Monotone(fits)' BY DEF IndInv, Monotone, Lists
<1> QED BY <1>10, <1>11, <1>12, <1>13, <1>14, <1>15, <1>16, <1>17, <1>18, <1>19, <1>20, <1>21 DEF IndInv

\* startup() or prepare() has nothing left to reclaim
LEMMA ReclaimedStep == ASSUME IndInv, NEW b \in Backends, Reclaimed(b) PROVE IndInv'
<1> DEFINE e == [mem[b] EXCEPT !.pc = IF mem[b].boot THEN "idle" ELSE "open"]
<1>1. mem[b] \in Memory /\ mem \in [Backends -> Memory] /\ rows \in Seq(SweepRows) /\ mem[b].pc = "reclaim" /\ mem[b].stale = {} BY DEF IndInv, TypeOK, Reclaimed
<1>2. /\ e \in Memory /\ e.pc \in {"idle", "open"} /\ e.boot = mem[b].boot /\ e.stale = mem[b].stale
      /\ e.since = mem[b].since /\ e.sweep = mem[b].sweep /\ e.at = mem[b].at /\ e.todo = mem[b].todo
      /\ e.out = mem[b].out /\ e.end = mem[b].end /\ e.cancel = mem[b].cancel
  BY <1>1 DEF Memory, TaskPcs, Idle
<1>3. mem' = [mem EXCEPT ![b] = e] BY DEF Reclaimed, Goes
<1> HIDE DEF e
<1>4. mem' \in [Backends -> Memory] /\ mem'[b] = e /\ \A c \in Backends : c # b => mem'[c] = mem[c] BY <1>1, <1>2, <1>3
<1>5. \A c \in Backends : mem'[c].stale = mem[c].stale => Row(c)' = Row(c) BY DEF Row
<1>6. /\ rows' = rows /\ procs' = procs /\ unsaved' = unsaved /\ failed' = failed
      /\ fits' = fits /\ spoiled' = spoiled /\ beside' = beside
  BY DEF Reclaimed
<1>10. TypeOK' BY <1>1, <1>2, <1>4, <1>5, <1>6 DEF IndInv, TypeOK, Reclaimed
<1>11. TaskInv' BY <1>1, <1>2, <1>4, <1>5, <1>6 DEF IndInv, TaskInv, TaskPcs, Running, Sweeps, Points, Measuring
<1>12. ProcInv' BY <1>1, <1>2, <1>4, <1>5, <1>6 DEF IndInv, ProcInv, Running, Sweeps, Points, Recorded, Child
<1>13. OneInv' BY <1>1, <1>2, <1>4, <1>5, <1>6 DEF IndInv, OneInv, Recorded
<1>14. PairInv' BY <1>1, <1>2, <1>4, <1>5, <1>6 DEF IndInv, PairInv, Running, Sweeps
<1>15. ListInv' BY <1>1, <1>2, <1>4, <1>5, <1>6 DEF IndInv, ListInv, Running, Sweeps
<1>16. ReclaimInv' BY <1>1, <1>2, <1>4, <1>5, <1>6 DEF IndInv, ReclaimInv, ReclaimOf, Recorded, Points
<1>17. PointInv'
  <2>1. \A c \in Backends : mem[c].pc \in Measuring =>
          mem'[c].pc \in Measuring /\ mem'[c].sweep = mem[c].sweep /\ mem'[c].at = mem[c].at
    BY <1>1, <1>2, <1>4 DEF Measuring
  <2> QED BY <1>6, <2>1, PointKept DEF IndInv
<1>18. OutInv' BY <1>1, <1>2, <1>4, <1>5, <1>6 DEF IndInv, OutInv, TaskInv, Measuring, TaskPcs, Running, Sweeps, Points
<1>19. PgidInv' 
  <2>1. PgidOf(b)' BY <1>1, <1>2, <1>4, <1>5, <1>6 DEF IndInv, PgidInv, PgidOf, Points, Measuring, TaskPcs
  <2>2. ASSUME NEW c \in Backends, c # b PROVE PgidOf(c)'
    <3>1. mem'[c] = mem[c] /\ rows' = rows BY <1>4, <1>6, <2>2
    <3>2. PgidOf(c) BY DEF IndInv, PgidInv
    <3> QED BY <3>1, <3>2 DEF PgidOf, Points
  <2> QED BY <2>1, <2>2 DEF PgidInv
<1>20. VerdictSound' BY <1>1, <1>2, <1>4, <1>5, <1>6 DEF IndInv, VerdictSound, Sweeps, Points
<1>21. Monotone(fits)' BY DEF IndInv, Monotone, Reclaimed
<1> QED BY <1>10, <1>11, <1>12, <1>13, <1>14, <1>15, <1>16, <1>17, <1>18, <1>19, <1>20, <1>21 DEF IndInv

\* The task begins
LEMMA CreatesStudyStep == ASSUME IndInv, NEW b \in Backends, CreatesStudy(b) PROVE IndInv'
<1> DEFINE e == [mem[b] EXCEPT !.pc = "search"]
<1>1. mem[b] \in Memory /\ mem \in [Backends -> Memory] /\ rows \in Seq(SweepRows) /\ mem[b].pc = "study" BY DEF IndInv, TypeOK, CreatesStudy
<1>2. /\ e \in Memory /\ e.pc = "search" /\ e.boot = mem[b].boot /\ e.stale = mem[b].stale /\ e.since = mem[b].since
      /\ e.sweep = mem[b].sweep /\ e.at = mem[b].at /\ e.todo = mem[b].todo /\ e.out = mem[b].out
      /\ e.end = mem[b].end /\ e.cancel = mem[b].cancel
  BY <1>1 DEF Memory, TaskPcs, Idle
<1>3. mem' = [mem EXCEPT ![b] = e] BY DEF CreatesStudy, Goes
<1> HIDE DEF e
<1>4. mem' \in [Backends -> Memory] /\ mem'[b] = e /\ \A c \in Backends : c # b => mem'[c] = mem[c] BY <1>1, <1>2, <1>3
<1>5. \A c \in Backends : mem'[c].stale = mem[c].stale => Row(c)' = Row(c) BY DEF Row
<1>6. /\ rows' = rows /\ procs' = procs /\ unsaved' = unsaved /\ failed' = failed
      /\ fits' = fits /\ spoiled' = spoiled /\ beside' = beside
  BY DEF CreatesStudy
<1>10. TypeOK' BY <1>1, <1>2, <1>4, <1>5, <1>6 DEF IndInv, TypeOK, CreatesStudy
<1>11. TaskInv' BY <1>1, <1>2, <1>4, <1>5, <1>6 DEF IndInv, TaskInv, TaskPcs, Running, Sweeps, Points, Measuring
<1>12. ProcInv' BY <1>1, <1>2, <1>4, <1>5, <1>6 DEF IndInv, ProcInv, Running, Sweeps, Points, Recorded, Child
<1>13. OneInv' BY <1>1, <1>2, <1>4, <1>5, <1>6 DEF IndInv, OneInv, Recorded
<1>14. PairInv' BY <1>1, <1>2, <1>4, <1>5, <1>6 DEF IndInv, PairInv, Running, Sweeps
<1>15. ListInv' BY <1>1, <1>2, <1>4, <1>5, <1>6 DEF IndInv, ListInv, Running, Sweeps
<1>16. ReclaimInv' BY <1>1, <1>2, <1>4, <1>5, <1>6 DEF IndInv, ReclaimInv, ReclaimOf, Recorded, Points
<1>17. PointInv'
  <2>1. \A c \in Backends : mem[c].pc \in Measuring =>
          mem'[c].pc \in Measuring /\ mem'[c].sweep = mem[c].sweep /\ mem'[c].at = mem[c].at
    BY <1>1, <1>2, <1>4 DEF Measuring
  <2> QED BY <1>6, <2>1, PointKept DEF IndInv
<1>18. OutInv' BY <1>1, <1>2, <1>4, <1>5, <1>6 DEF IndInv, OutInv, TaskInv, Measuring, TaskPcs, Running, Sweeps, Points
<1>19. PgidInv' 
  <2>1. PgidOf(b)' BY <1>1, <1>2, <1>4, <1>5, <1>6 DEF IndInv, PgidInv, PgidOf, Points, Measuring, TaskPcs
  <2>2. ASSUME NEW c \in Backends, c # b PROVE PgidOf(c)'
    <3>1. mem'[c] = mem[c] /\ rows' = rows BY <1>4, <1>6, <2>2
    <3>2. PgidOf(c) BY DEF IndInv, PgidInv
    <3> QED BY <3>1, <3>2 DEF PgidOf, Points
  <2> QED BY <2>1, <2>2 DEF PgidInv
<1>20. VerdictSound' BY <1>1, <1>2, <1>4, <1>5, <1>6 DEF IndInv, VerdictSound, Sweeps, Points
<1>21. Monotone(fits)' BY DEF IndInv, Monotone, CreatesStudy
<1> QED BY <1>10, <1>11, <1>12, <1>13, <1>14, <1>15, <1>16, <1>17, <1>18, <1>19, <1>20, <1>21 DEF IndInv

\* /cancel
LEMMA CancelPrescreenStep == ASSUME IndInv, NEW b \in Backends, CancelPrescreen(b) PROVE IndInv'
<1> DEFINE e == [mem[b] EXCEPT !.cancel = TRUE]
<1>1. mem[b] \in Memory /\ mem \in [Backends -> Memory] /\ rows \in Seq(SweepRows) /\ mem[b].pc \in TaskPcs BY DEF IndInv, TypeOK, CancelPrescreen
<1>2. /\ e \in Memory /\ e.pc = mem[b].pc /\ e.boot = mem[b].boot /\ e.stale = mem[b].stale /\ e.since = mem[b].since
      /\ e.sweep = mem[b].sweep /\ e.at = mem[b].at /\ e.todo = mem[b].todo /\ e.out = mem[b].out
      /\ e.end = mem[b].end /\ e.cancel = TRUE
  BY <1>1 DEF Memory, TaskPcs, Idle
<1>3. mem' = [mem EXCEPT ![b] = e] BY DEF CancelPrescreen, Goes
<1> HIDE DEF e
<1>4. mem' \in [Backends -> Memory] /\ mem'[b] = e /\ \A c \in Backends : c # b => mem'[c] = mem[c] BY <1>1, <1>2, <1>3
<1>5. \A c \in Backends : mem'[c].stale = mem[c].stale => Row(c)' = Row(c) BY DEF Row
<1>6. /\ rows' = rows /\ procs' = procs /\ unsaved' = unsaved /\ failed' = failed
      /\ fits' = fits /\ spoiled' = spoiled /\ beside' = beside
  BY DEF CancelPrescreen
<1>10. TypeOK' BY <1>1, <1>2, <1>4, <1>5, <1>6 DEF IndInv, TypeOK, CancelPrescreen
<1>11. TaskInv' BY <1>1, <1>2, <1>4, <1>5, <1>6 DEF IndInv, TaskInv, TaskPcs, Running, Sweeps, Points, Measuring
<1>12. ProcInv' BY <1>1, <1>2, <1>4, <1>5, <1>6 DEF IndInv, ProcInv, Running, Sweeps, Points, Recorded, Child
<1>13. OneInv' BY <1>1, <1>2, <1>4, <1>5, <1>6 DEF IndInv, OneInv, Recorded
<1>14. PairInv' BY <1>1, <1>2, <1>4, <1>5, <1>6 DEF IndInv, PairInv, Running, Sweeps
<1>15. ListInv' BY <1>1, <1>2, <1>4, <1>5, <1>6 DEF IndInv, ListInv, Running, Sweeps
<1>16. ReclaimInv' BY <1>1, <1>2, <1>4, <1>5, <1>6, SMTT(60) DEF IndInv, ReclaimInv, ReclaimOf, Recorded, Points
<1>17. PointInv'
  <2>1. \A c \in Backends : mem[c].pc \in Measuring =>
          mem'[c].pc \in Measuring /\ mem'[c].sweep = mem[c].sweep /\ mem'[c].at = mem[c].at
    BY <1>1, <1>2, <1>4 DEF Measuring
  <2> QED BY <1>6, <2>1, PointKept DEF IndInv
<1>18. OutInv' BY <1>1, <1>2, <1>4, <1>5, <1>6, SMTT(60) DEF IndInv, OutInv, TaskInv, Measuring, TaskPcs, Running, Sweeps, Points
<1>19. PgidInv' 
  <2>1. PgidOf(b)' BY <1>1, <1>2, <1>4, <1>5, <1>6 DEF IndInv, PgidInv, PgidOf, Points, Measuring, TaskPcs
  <2>2. ASSUME NEW c \in Backends, c # b PROVE PgidOf(c)'
    <3>1. mem'[c] = mem[c] /\ rows' = rows BY <1>4, <1>6, <2>2
    <3>2. PgidOf(c) BY DEF IndInv, PgidInv
    <3> QED BY <3>1, <3>2 DEF PgidOf, Points
  <2> QED BY <2>1, <2>2 DEF PgidInv
<1>20. VerdictSound' BY <1>1, <1>2, <1>4, <1>5, <1>6 DEF IndInv, VerdictSound, Sweeps, Points
<1>21. Monotone(fits)' BY DEF IndInv, Monotone, CancelPrescreen
<1> QED BY <1>10, <1>11, <1>12, <1>13, <1>14, <1>15, <1>16, <1>17, <1>18, <1>19, <1>20, <1>21 DEF IndInv

\* The end of a loop of run()
LEMMA LeavesStep == ASSUME IndInv, NEW b \in Backends, Leaves(b) PROVE IndInv'
<1> DEFINE to == IF mem[b].cancel THEN "close" ELSE After[mem[b].pc]
           how == IF mem[b].cancel THEN "cancelled" ELSE "done"
<1>0. to \in {"close", "rank", "rank2"} /\ how \in {"cancelled", "done"} /\ (mem[b].pc = "check" => to = "close")
  BY DEF Leaves, After
<1>7. mem' = [mem EXCEPT ![b].pc = to, ![b].end = how] BY DEF Leaves
<1> HIDE DEF to, how
<1> DEFINE e == [mem[b] EXCEPT !.pc = to, !.end = how]
<1>1. mem[b] \in Memory /\ mem \in [Backends -> Memory] /\ rows \in Seq(SweepRows) /\ mem[b].pc \in {"search", "again", "check"} BY DEF IndInv, TypeOK, Leaves, After
<1>2. /\ e \in Memory /\ e.pc = to /\ e.boot = mem[b].boot /\ e.stale = mem[b].stale /\ e.since = mem[b].since
      /\ e.sweep = mem[b].sweep /\ e.at = mem[b].at /\ e.todo = mem[b].todo /\ e.out = mem[b].out
      /\ e.end = how /\ e.cancel = mem[b].cancel
  BY <1>1, <1>0 DEF Memory, TaskPcs, Idle
<1>3. mem' = [mem EXCEPT ![b] = e] BY <1>7
<1> HIDE DEF e
<1>4. mem' \in [Backends -> Memory] /\ mem'[b] = e /\ \A c \in Backends : c # b => mem'[c] = mem[c] BY <1>1, <1>2, <1>3
<1>5. \A c \in Backends : mem'[c].stale = mem[c].stale => Row(c)' = Row(c) BY DEF Row
<1>6. /\ rows' = rows /\ procs' = procs /\ unsaved' = unsaved /\ failed' = failed
      /\ fits' = fits /\ spoiled' = spoiled /\ beside' = beside
  BY DEF Leaves
<1>10. TypeOK' BY <1>1, <1>0, <1>2, <1>4, <1>5, <1>6 DEF IndInv, TypeOK, Leaves
<1>11. TaskInv' BY <1>1, <1>0, <1>2, <1>4, <1>5, <1>6 DEF IndInv, TaskInv, TaskPcs, Running, Sweeps, Points, Measuring
<1>12. ProcInv' BY <1>1, <1>0, <1>2, <1>4, <1>5, <1>6 DEF IndInv, ProcInv, Running, Sweeps, Points, Recorded, Child
<1>13. OneInv' BY <1>1, <1>0, <1>2, <1>4, <1>5, <1>6 DEF IndInv, OneInv, Recorded
<1>14. PairInv' BY <1>1, <1>0, <1>2, <1>4, <1>5, <1>6 DEF IndInv, PairInv, Running, Sweeps
<1>15. ListInv' BY <1>1, <1>0, <1>2, <1>4, <1>5, <1>6 DEF IndInv, ListInv, Running, Sweeps
<1>16. ReclaimInv' BY <1>1, <1>0, <1>2, <1>4, <1>5, <1>6, SMTT(60) DEF IndInv, ReclaimInv, ReclaimOf, Recorded, Points
<1>17. PointInv'
  <2>1. \A c \in Backends : mem[c].pc \in Measuring =>
          mem'[c].pc \in Measuring /\ mem'[c].sweep = mem[c].sweep /\ mem'[c].at = mem[c].at
    BY <1>1, <1>2, <1>4 DEF Measuring
  <2> QED BY <1>6, <2>1, PointKept DEF IndInv
<1>18. OutInv' BY <1>1, <1>0, <1>2, <1>4, <1>5, <1>6 DEF IndInv, OutInv, TaskInv, Measuring, TaskPcs, Running, Sweeps, Points
<1>19. PgidInv' 
  <2>1. PgidOf(b)' BY <1>1, <1>0, <1>2, <1>4, <1>5, <1>6 DEF IndInv, PgidInv, PgidOf, Points, Measuring, TaskPcs
  <2>2. ASSUME NEW c \in Backends, c # b PROVE PgidOf(c)'
    <3>1. mem'[c] = mem[c] /\ rows' = rows BY <1>4, <1>6, <2>2
    <3>2. PgidOf(c) BY DEF IndInv, PgidInv
    <3> QED BY <3>1, <3>2 DEF PgidOf, Points
  <2> QED BY <2>1, <2>2 DEF PgidInv
<1>20. VerdictSound' BY <1>1, <1>0, <1>2, <1>4, <1>5, <1>6 DEF IndInv, VerdictSound, Sweeps, Points
<1>21. Monotone(fits)' BY DEF IndInv, Monotone, Leaves
<1> QED BY <1>10, <1>11, <1>12, <1>13, <1>14, <1>15, <1>16, <1>17, <1>18, <1>19, <1>20, <1>21 DEF IndInv

\* The leaders are chosen
LEMMA RanksStep == ASSUME IndInv, NEW b \in Backends, Ranks(b) PROVE IndInv'
<1>0. PICK to \in {"again", "check"}, T \in SUBSET Oks(mem[b].sweep) : mem' = [mem EXCEPT ![b].pc = to, ![b].todo = T]
  BY DEF Ranks, Leaders
<1>7. T \subseteq Points(mem[b].sweep) /\ T \subseteq Nat BY <1>0 DEF Oks, Search, Points
<1> DEFINE e == [mem[b] EXCEPT !.pc = to, !.todo = T]
<1>1. mem[b] \in Memory /\ mem \in [Backends -> Memory] /\ rows \in Seq(SweepRows) /\ mem[b].pc \in {"rank", "rank2"} BY DEF IndInv, TypeOK, Ranks
<1>2. /\ e \in Memory /\ e.pc = to /\ e.boot = mem[b].boot /\ e.stale = mem[b].stale /\ e.since = mem[b].since
      /\ e.sweep = mem[b].sweep /\ e.at = mem[b].at /\ e.todo = T /\ e.out = mem[b].out
      /\ e.end = mem[b].end /\ e.cancel = mem[b].cancel
  BY <1>1, <1>0, <1>7 DEF Memory, TaskPcs, Idle
<1>3. mem' = [mem EXCEPT ![b] = e] BY <1>0
<1> HIDE DEF e
<1>4. mem' \in [Backends -> Memory] /\ mem'[b] = e /\ \A c \in Backends : c # b => mem'[c] = mem[c] BY <1>1, <1>2, <1>3
<1>5. \A c \in Backends : mem'[c].stale = mem[c].stale => Row(c)' = Row(c) BY DEF Row
<1>6. /\ rows' = rows /\ procs' = procs /\ unsaved' = unsaved /\ failed' = failed
      /\ fits' = fits /\ spoiled' = spoiled /\ beside' = beside
  BY DEF Ranks
<1>10. TypeOK' BY <1>1, <1>2, <1>4, <1>5, <1>6 DEF IndInv, TypeOK, Ranks
<1>11. TaskInv' BY <1>1, <1>2, <1>4, <1>5, <1>6, <1>0, <1>7 DEF IndInv, TaskInv, TaskPcs, Running, Sweeps, Points, Measuring
<1>12. ProcInv' BY <1>1, <1>2, <1>4, <1>5, <1>6, <1>0 DEF IndInv, ProcInv, Running, Sweeps, Points, Recorded, Child
<1>13. OneInv' BY <1>1, <1>2, <1>4, <1>5, <1>6 DEF IndInv, OneInv, Recorded
<1>14. PairInv' BY <1>1, <1>2, <1>4, <1>5, <1>6 DEF IndInv, PairInv, Running, Sweeps
<1>15. ListInv' BY <1>1, <1>2, <1>4, <1>5, <1>6, <1>0 DEF IndInv, ListInv, Running, Sweeps
<1>16. ReclaimInv' BY <1>1, <1>2, <1>4, <1>5, <1>6, <1>0 DEF IndInv, ReclaimInv, ReclaimOf, Recorded, Points
<1>17. PointInv'
  <2>1. \A c \in Backends : mem[c].pc \in Measuring =>
          mem'[c].pc \in Measuring /\ mem'[c].sweep = mem[c].sweep /\ mem'[c].at = mem[c].at
    BY <1>1, <1>2, <1>4 DEF Measuring
  <2> QED BY <1>6, <2>1, PointKept DEF IndInv
<1>18. OutInv' BY <1>1, <1>2, <1>4, <1>5, <1>6, <1>0 DEF IndInv, OutInv, TaskInv, Measuring, TaskPcs, Running, Sweeps, Points
<1>19. PgidInv' 
  <2>1. /\ mem'[b].pc \in {"again", "check"} /\ mem'[b].sweep = mem[b].sweep /\ mem'[b].todo = T /\ rows' = rows
    BY <1>2, <1>4, <1>6
  <2>3. \A i \in Points(mem[b].sweep) : rows[mem[b].sweep].points[i].pgid # "check" BY <1>1 DEF IndInv, PgidInv, PgidOf
  <2>4. PgidOf(b)' BY <1>7, <2>1, <2>3 DEF PgidOf, Points, Measuring
  <2>2. ASSUME NEW c \in Backends, c # b PROVE PgidOf(c)'
    <3>1. mem'[c] = mem[c] /\ rows' = rows BY <1>4, <1>6, <2>2
    <3>2. PgidOf(c) BY DEF IndInv, PgidInv
    <3> QED BY <3>1, <3>2 DEF PgidOf, Points
  <2> QED BY <2>4, <2>2 DEF PgidInv
<1>20. VerdictSound' BY <1>1, <1>2, <1>4, <1>5, <1>6 DEF IndInv, VerdictSound, Sweeps, Points
<1>21. Monotone(fits)' BY DEF IndInv, Monotone, Ranks
<1> QED BY <1>10, <1>11, <1>12, <1>13, <1>14, <1>15, <1>16, <1>17, <1>18, <1>19, <1>20, <1>21 DEF IndInv

\* reclaim_stale at a row
LEMMA JudgesStep ==
  ASSUME IndInv, NEW b \in Backends, Judges(b)
  PROVE  IndInv'
<1> DEFINE e == IF LiveElsewhere(b, Row(b)) THEN Idle ELSE [mem[b] EXCEPT !.at = 1]
<1>1. mem[b] \in Memory /\ mem \in [Backends -> Memory] /\ rows \in Seq(SweepRows) /\ mem[b].pc = "reclaim" /\ mem[b].stale # {} /\ mem[b].out = "none" /\ mem[b].todo = {} BY DEF IndInv, TypeOK, TaskInv, Judges
<1>2. /\ e \in Memory /\ e.pc \in {"idle", "reclaim"} /\ e.out = "none" /\ e.todo = {}
      /\ (e.pc = "reclaim" => e.at = 1 /\ ~LiveElsewhere(b, Row(b)))
      /\ (e.pc = "reclaim" => e.stale = mem[b].stale /\ e.since = mem[b].since)
  BY <1>1 DEF Memory, TaskPcs, Idle
<1>3. mem' = [mem EXCEPT ![b] = e] BY <1>1 DEF Judges, Goes
<1> HIDE DEF e
<1>4. mem' \in [Backends -> Memory] /\ mem'[b] = e /\ \A c \in Backends : c # b => mem'[c] = mem[c] BY <1>1, <1>2, <1>3
<1>5. \A c \in Backends : mem'[c].stale = mem[c].stale => Row(c)' = Row(c) BY DEF Row
<1>6. /\ rows' = rows /\ Sweeps' = Sweeps /\ Running' = Running /\ \A t : Points(t)' = Points(t) /\ procs' = procs /\ unsaved' = unsaved /\ failed' = failed /\ fits' = fits /\ spoiled' = spoiled /\ beside' = beside
  BY DEF Judges, Sweeps, Running, Points
<1>10. \A x : Recorded(x)' = Recorded(x) BY <1>6 DEF Recorded
<1>7. Row(b) \in Sweeps BY <1>1, RowOf
<1>8. Len(rows[Row(b)].points) \in Nat BY <1>1, <1>7, RowTyped DEF Sweeps
<1>30. TypeOK' BY <1>1, <1>2, <1>4, <1>5, <1>6, <1>10 DEF IndInv, TypeOK, Judges
<1>31. TaskInv' BY <1>1, <1>2, <1>4, <1>5, <1>6, <1>10 DEF IndInv, TaskInv, TaskPcs, Measuring
<1>32. ProcInv' BY <1>1, <1>2, <1>4, <1>5, <1>6, <1>10 DEF IndInv, ProcInv, Child
<1>33. OneInv' BY <1>1, <1>2, <1>4, <1>5, <1>6, <1>10 DEF IndInv, OneInv
<1>34. PairInv' BY <1>1, <1>2, <1>4, <1>5, <1>6, <1>10 DEF IndInv, PairInv
<1>35. ListInv' BY <1>1, <1>2, <1>4, <1>5, <1>6, <1>10 DEF IndInv, ListInv
<1>36. ReclaimInv' BY <1>1, <1>2, <1>4, <1>5, <1>6, <1>10, <1>7, <1>8 DEF IndInv, ReclaimInv, ReclaimOf, LiveElsewhere, Points
<1>37. PointInv' BY <1>1, <1>2, <1>4, <1>5, <1>6, <1>10 DEF IndInv, PointInv, Measuring
<1>38. OutInv' BY <1>1, <1>2, <1>4, <1>5, <1>6, <1>10 DEF IndInv, OutInv, TaskInv, Measuring, TaskPcs
<1>39. PgidInv' 
  <2>1. PgidOf(b)' BY <1>1, <1>2, <1>4, <1>6 DEF IndInv, PgidInv, PgidOf, Points, TaskPcs, Measuring
  <2>2. ASSUME NEW c \in Backends, c # b PROVE PgidOf(c)'
    <3>1. mem'[c] = mem[c] /\ rows' = rows BY <1>4, <1>6, <2>2
    <3>2. PgidOf(c) BY DEF IndInv, PgidInv
    <3> QED BY <3>1, <3>2 DEF PgidOf, Points
  <2> QED BY <2>1, <2>2 DEF PgidInv
<1>40. VerdictSound' BY <1>1, <1>2, <1>4, <1>5, <1>6, <1>10 DEF IndInv, VerdictSound
<1>41. Monotone(fits)' BY DEF IndInv, Monotone, Judges
<1> QED BY <1>30, <1>31, <1>32, <1>33, <1>34, <1>35, <1>36, <1>37, <1>38, <1>39, <1>40, <1>41 DEF IndInv

\* llama-bench is started
LEMMA SpawnsBenchStep ==
  ASSUME IndInv, NEW b \in Backends, SpawnsBench(b)
  PROVE  IndInv'
<1> DEFINE e == [mem[b] EXCEPT !.pc = "record"]
<1>1. mem[b] \in Memory /\ mem \in [Backends -> Memory] /\ rows \in Seq(SweepRows) /\ mem[b].pc = "spawn" BY DEF IndInv, TypeOK, TaskInv, SpawnsBench
<1>2. /\ e \in Memory /\ e.pc = "record" /\ e.boot = mem[b].boot /\ e.stale = mem[b].stale /\ e.since = mem[b].since
      /\ e.sweep = mem[b].sweep /\ e.at = mem[b].at /\ e.todo = mem[b].todo /\ e.out = mem[b].out
      /\ e.end = mem[b].end /\ e.cancel = mem[b].cancel
  BY <1>1 DEF Memory, TaskPcs, Idle
<1>3. mem' = [mem EXCEPT ![b] = e] BY <1>1 DEF SpawnsBench, Goes
<1> HIDE DEF e
<1>4. mem' \in [Backends -> Memory] /\ mem'[b] = e /\ \A c \in Backends : c # b => mem'[c] = mem[c] BY <1>1, <1>2, <1>3
<1>5. \A c \in Backends : mem'[c].stale = mem[c].stale => Row(c)' = Row(c) BY DEF Row
<1>6. /\ rows' = rows /\ Sweeps' = Sweeps /\ Running' = Running /\ \A t : Points(t)' = Points(t) /\ unsaved' = unsaved /\ failed' = failed /\ fits' = fits /\ spoiled' = spoiled /\ beside' = beside
  BY DEF SpawnsBench, Sweeps, Running, Points
<1>10. \A x : Recorded(x)' = Recorded(x) BY <1>6 DEF Recorded
<1>7. procs' = procs \cup {Child(b, "bench")} /\ mem[b].sweep \in Sweeps /\ mem[b].at \in Points(mem[b].sweep)
  BY <1>1 DEF SpawnsBench, IndInv, TaskInv, TaskPcs, Measuring, Running
<1>8. ~Recorded(Child(b, "bench")) BY <1>1 DEF IndInv, PgidInv, PgidOf, Recorded, Child
<1>30. TypeOK' BY <1>1, <1>2, <1>4, <1>5, <1>6, <1>10, <1>7 DEF IndInv, TypeOK, SpawnsBench, Child, Sweeps, Points
<1>31. TaskInv' BY <1>1, <1>2, <1>4, <1>5, <1>6, <1>10 DEF IndInv, TaskInv, TaskPcs, Measuring
<1>32. ProcInv' 
  <2>1. ASSUME NEW x \in procs' PROVE x \in procs \/ x = Child(b, "bench") BY <1>7
  <2>2. \A x \in procs' : x[1] \in Sweeps' /\ x[2] \in Points(x[1])' BY <1>6, <1>7, <2>1 DEF IndInv, ProcInv, Child
  <2>3. \A x \in procs' : Recorded(x) => x \in procs BY <1>8, <2>1
  <2>4. \A x \in procs : Recorded(x) => rows[x[1]].owner # b BY <1>1 DEF IndInv, ProcInv, TypeOK
  <2> QED BY <1>4, <1>6, <1>10, <2>2, <2>3, <2>4 DEF IndInv, ProcInv, Child
<1>33. OneInv' BY <1>1, <1>2, <1>4, <1>5, <1>6, <1>10, <1>7, <1>8 DEF IndInv, OneInv
<1>34. PairInv' BY <1>1, <1>2, <1>4, <1>5, <1>6, <1>10 DEF IndInv, PairInv
<1>35. ListInv' BY <1>1, <1>2, <1>4, <1>5, <1>6, <1>10 DEF IndInv, ListInv
<1>36. ReclaimInv' BY <1>1, <1>2, <1>4, <1>5, <1>6, <1>10, <1>7, <1>8 DEF IndInv, ReclaimInv, ReclaimOf
<1>37. PointInv' BY <1>1, <1>2, <1>4, <1>5, <1>6, <1>10 DEF IndInv, PointInv, Measuring
<1>38. OutInv' BY <1>1, <1>2, <1>4, <1>5, <1>6, <1>10 DEF IndInv, OutInv, TaskInv, Measuring, TaskPcs
<1>39. PgidInv' 
  <2>1. PgidOf(b)' BY <1>1, <1>2, <1>4, <1>6 DEF IndInv, PgidInv, PgidOf, Points, TaskPcs, Measuring
  <2>2. ASSUME NEW c \in Backends, c # b PROVE PgidOf(c)'
    <3>1. mem'[c] = mem[c] /\ rows' = rows BY <1>4, <1>6, <2>2
    <3>2. PgidOf(c) BY DEF IndInv, PgidInv
    <3> QED BY <3>1, <3>2 DEF PgidOf, Points
  <2> QED BY <2>1, <2>2 DEF PgidInv
<1>40. VerdictSound' BY <1>1, <1>2, <1>4, <1>5, <1>6, <1>10 DEF IndInv, VerdictSound
<1>41. Monotone(fits)' BY DEF IndInv, Monotone, SpawnsBench
<1> QED BY <1>30, <1>31, <1>32, <1>33, <1>34, <1>35, <1>36, <1>37, <1>38, <1>39, <1>40, <1>41 DEF IndInv

\* run_point ends
LEMMA WaitsStep ==
  ASSUME IndInv, NEW b \in Backends, Waits(b)
  PROVE  IndInv'
<1>0. PICK o \in {"ok", "oom", "error", "cancelled"} :
        (mem[b].out = o \/ o \in {"error", "cancelled"}) /\ mem' = [mem EXCEPT ![b].pc = "save", ![b].out = o]
  BY DEF Waits
<1> DEFINE e == [mem[b] EXCEPT !.pc = "save", !.out = o]
<1>1. mem[b] \in Memory /\ mem \in [Backends -> Memory] /\ rows \in Seq(SweepRows) /\ mem[b].pc = "wait" BY DEF IndInv, TypeOK, TaskInv, Waits
<1>2. /\ e \in Memory /\ e.pc = "save" /\ e.out = o /\ e.boot = mem[b].boot /\ e.stale = mem[b].stale
      /\ e.since = mem[b].since /\ e.sweep = mem[b].sweep /\ e.at = mem[b].at /\ e.todo = mem[b].todo
      /\ e.end = mem[b].end /\ e.cancel = mem[b].cancel
  BY <1>1, <1>0 DEF Memory, TaskPcs, Idle
<1>3. mem' = [mem EXCEPT ![b] = e] BY <1>1, <1>0 DEF Waits, Goes
<1> HIDE DEF e
<1>4. mem' \in [Backends -> Memory] /\ mem'[b] = e /\ \A c \in Backends : c # b => mem'[c] = mem[c] BY <1>1, <1>2, <1>3
<1>5. \A c \in Backends : mem'[c].stale = mem[c].stale => Row(c)' = Row(c) BY DEF Row
<1>6. /\ rows' = rows /\ Sweeps' = Sweeps /\ Running' = Running /\ \A t : Points(t)' = Points(t) /\ unsaved' = unsaved /\ failed' = failed /\ fits' = fits /\ spoiled' = spoiled /\ beside' = beside
  BY DEF Waits, Sweeps, Running, Points
<1>10. \A x : Recorded(x)' = Recorded(x) BY <1>6 DEF Recorded
<1>7. procs' = procs \ {Child(b, "bench")} BY DEF Waits
<1>8. \A x \in procs' : Recorded(x) => rows[x[1]].owner # b
  BY <1>1, <1>7 DEF IndInv, TypeOK, ProcInv
<1>30. TypeOK' BY <1>1, <1>2, <1>4, <1>5, <1>6, <1>10, <1>0, <1>7 DEF IndInv, TypeOK, Waits
<1>31. TaskInv' BY <1>1, <1>2, <1>4, <1>5, <1>6, <1>10, <1>0, <1>7 DEF IndInv, TaskInv, TaskPcs, Measuring
<1>32. ProcInv' BY <1>1, <1>2, <1>4, <1>5, <1>6, <1>10, <1>0, <1>7, <1>8 DEF IndInv, ProcInv, Child
<1>33. OneInv' BY <1>1, <1>2, <1>4, <1>5, <1>6, <1>10, <1>0, <1>7 DEF IndInv, OneInv
<1>34. PairInv' BY <1>1, <1>2, <1>4, <1>5, <1>6, <1>10, <1>0, <1>7 DEF IndInv, PairInv
<1>35. ListInv' BY <1>1, <1>2, <1>4, <1>5, <1>6, <1>10, <1>0, <1>7 DEF IndInv, ListInv
<1>36. ReclaimInv' BY <1>1, <1>2, <1>4, <1>5, <1>6, <1>10, <1>0, <1>7 DEF IndInv, ReclaimInv, ReclaimOf
<1>37. PointInv' BY <1>1, <1>2, <1>4, <1>5, <1>6, <1>10, <1>0, <1>7 DEF IndInv, PointInv, Measuring
<1>38. OutInv' BY <1>1, <1>2, <1>4, <1>5, <1>6, <1>10, <1>0, <1>7 DEF IndInv, OutInv, TaskInv, Measuring, TaskPcs
<1>39. PgidInv' 
  <2>1. mem'[b].pc = "save" /\ mem'[b].sweep = mem[b].sweep /\ rows' = rows BY <1>2, <1>4, <1>6
  <2>3. \A i \in Points(mem[b].sweep) : rows[mem[b].sweep].points[i].pgid # "check" BY <1>1 DEF IndInv, PgidInv, PgidOf, Measuring
  <2>4. PgidOf(b)' BY <1>6, <2>1, <2>3 DEF PgidOf
  <2>2. ASSUME NEW c \in Backends, c # b PROVE PgidOf(c)'
    <3>1. mem'[c] = mem[c] /\ rows' = rows BY <1>4, <1>6, <2>2
    <3>2. PgidOf(c) BY DEF IndInv, PgidInv
    <3> QED BY <3>1, <3>2 DEF PgidOf, Points
  <2> QED BY <2>4, <2>2 DEF PgidInv
<1>40. VerdictSound' BY <1>1, <1>2, <1>4, <1>5, <1>6, <1>10, <1>0, <1>7 DEF IndInv, VerdictSound
<1>41. Monotone(fits)' BY DEF IndInv, Monotone, Waits
<1> QED BY <1>30, <1>31, <1>32, <1>33, <1>34, <1>35, <1>36, <1>37, <1>38, <1>39, <1>40, <1>41 DEF IndInv

\* The load check stops its server
LEMMA StopsServerStep ==
  ASSUME IndInv, NEW b \in Backends, StopsServer(b)
  PROVE  IndInv'
<1> DEFINE e == [mem[b] EXCEPT !.pc = "checked"]
<1>1. mem[b] \in Memory /\ mem \in [Backends -> Memory] /\ rows \in Seq(SweepRows) /\ mem[b].pc = "loading" BY DEF IndInv, TypeOK, TaskInv, StopsServer
<1>2. /\ e \in Memory /\ e.pc = "checked" /\ e.boot = mem[b].boot /\ e.stale = mem[b].stale /\ e.since = mem[b].since
      /\ e.sweep = mem[b].sweep /\ e.at = mem[b].at /\ e.todo = mem[b].todo /\ e.out = mem[b].out
      /\ e.end = mem[b].end /\ e.cancel = mem[b].cancel
  BY <1>1 DEF Memory, TaskPcs, Idle
<1>3. mem' = [mem EXCEPT ![b] = e] BY <1>1 DEF StopsServer, Goes
<1> HIDE DEF e
<1>4. mem' \in [Backends -> Memory] /\ mem'[b] = e /\ \A c \in Backends : c # b => mem'[c] = mem[c] BY <1>1, <1>2, <1>3
<1>5. \A c \in Backends : mem'[c].stale = mem[c].stale => Row(c)' = Row(c) BY DEF Row
<1>6. /\ rows' = rows /\ Sweeps' = Sweeps /\ Running' = Running /\ \A t : Points(t)' = Points(t) /\ unsaved' = unsaved /\ failed' = failed /\ fits' = fits /\ spoiled' = spoiled /\ beside' = beside
  BY DEF StopsServer, Sweeps, Running, Points
<1>10. \A x : Recorded(x)' = Recorded(x) BY <1>6 DEF Recorded
<1>7. procs' = procs \ {Child(b, "check")} BY DEF StopsServer
<1>8. \A x \in procs' : Recorded(x) => rows[x[1]].owner # b
  BY <1>1, <1>7 DEF IndInv, TypeOK, ProcInv
<1>30. TypeOK' BY <1>1, <1>2, <1>4, <1>5, <1>6, <1>10, <1>7 DEF IndInv, TypeOK, StopsServer
<1>31. TaskInv' BY <1>1, <1>2, <1>4, <1>5, <1>6, <1>10, <1>7 DEF IndInv, TaskInv, TaskPcs, Measuring
<1>32. ProcInv' BY <1>1, <1>2, <1>4, <1>5, <1>6, <1>10, <1>7, <1>8 DEF IndInv, ProcInv, Child
<1>33. OneInv' BY <1>1, <1>2, <1>4, <1>5, <1>6, <1>10, <1>7 DEF IndInv, OneInv
<1>34. PairInv' BY <1>1, <1>2, <1>4, <1>5, <1>6, <1>10, <1>7 DEF IndInv, PairInv
<1>35. ListInv' BY <1>1, <1>2, <1>4, <1>5, <1>6, <1>10, <1>7 DEF IndInv, ListInv
<1>36. ReclaimInv' BY <1>1, <1>2, <1>4, <1>5, <1>6, <1>10, <1>7 DEF IndInv, ReclaimInv, ReclaimOf
<1>37. PointInv' BY <1>1, <1>2, <1>4, <1>5, <1>6, <1>10, <1>7 DEF IndInv, PointInv, Measuring
<1>38. OutInv' BY <1>1, <1>2, <1>4, <1>5, <1>6, <1>10, <1>7 DEF IndInv, OutInv, TaskInv, Measuring, TaskPcs
<1>39. PgidInv' 
  <2>1. PgidOf(b)' BY <1>1, <1>2, <1>4, <1>6 DEF IndInv, PgidInv, PgidOf, Points, TaskPcs, Measuring
  <2>2. ASSUME NEW c \in Backends, c # b PROVE PgidOf(c)'
    <3>1. mem'[c] = mem[c] /\ rows' = rows BY <1>4, <1>6, <2>2
    <3>2. PgidOf(c) BY DEF IndInv, PgidInv
    <3> QED BY <3>1, <3>2 DEF PgidOf, Points
  <2> QED BY <2>1, <2>2 DEF PgidInv
<1>40. VerdictSound' BY <1>1, <1>2, <1>4, <1>5, <1>6, <1>10, <1>7 DEF IndInv, VerdictSound
<1>41. Monotone(fits)' BY DEF IndInv, Monotone, StopsServer
<1> QED BY <1>30, <1>31, <1>32, <1>33, <1>34, <1>35, <1>36, <1>37, <1>38, <1>39, <1>40, <1>41 DEF IndInv

\* A load check is made
LEMMA LoadCheckStep ==
  ASSUME IndInv, NEW b \in Backends, LoadCheck(b)
  PROVE  IndInv'
<1>0. PICK i \in mem[b].todo, where \in {"loaded", "checked"} :
        /\ mem' = [mem EXCEPT ![b].pc = where, ![b].at = i, ![b].todo = @ \ {i}]
        /\ procs' = IF where = "loaded" THEN procs \cup {<<mem[b].sweep, i, "check">>} ELSE procs
  BY DEF LoadCheck
<1>7. i \in Nat /\ mem[b].sweep \in Sweeps /\ i \in Points(mem[b].sweep) /\ mem[b].todo \subseteq Points(mem[b].sweep)
  <2>1. mem[b].todo \subseteq Points(mem[b].sweep) /\ mem[b].sweep \in Sweeps
    BY DEF LoadCheck, IndInv, TaskInv, TaskPcs, Running
  <2> QED BY <2>1 DEF Points
<1> DEFINE e == [mem[b] EXCEPT !.pc = where, !.at = i, !.todo = @ \ {i}]
<1>1. mem[b] \in Memory /\ mem \in [Backends -> Memory] /\ rows \in Seq(SweepRows) /\ mem[b].pc = "check" BY DEF IndInv, TypeOK, TaskInv, LoadCheck
<1>2. /\ e \in Memory /\ e.pc = where /\ e.at = i /\ e.todo = mem[b].todo \ {i} /\ e.boot = mem[b].boot
      /\ e.stale = mem[b].stale /\ e.since = mem[b].since /\ e.sweep = mem[b].sweep
      /\ e.out = mem[b].out /\ e.end = mem[b].end /\ e.cancel = mem[b].cancel
  BY <1>1, <1>0, <1>7 DEF Memory, TaskPcs, Idle
<1>3. mem' = [mem EXCEPT ![b] = e] BY <1>1, <1>0, <1>7 DEF LoadCheck, Goes
<1> HIDE DEF e
<1>4. mem' \in [Backends -> Memory] /\ mem'[b] = e /\ \A c \in Backends : c # b => mem'[c] = mem[c] BY <1>1, <1>2, <1>3
<1>5. \A c \in Backends : mem'[c].stale = mem[c].stale => Row(c)' = Row(c) BY DEF Row
<1>6. /\ rows' = rows /\ Sweeps' = Sweeps /\ Running' = Running /\ \A t : Points(t)' = Points(t) /\ unsaved' = unsaved /\ failed' = failed /\ fits' = fits /\ spoiled' = spoiled /\ beside' = beside
  BY DEF LoadCheck, Sweeps, Running, Points
<1>10. \A x : Recorded(x)' = Recorded(x) BY <1>6 DEF Recorded
<1>8. ~Recorded(<<mem[b].sweep, i, "check">>) BY <1>1, <1>0 DEF IndInv, PgidInv, PgidOf, Recorded
<1>30. TypeOK' BY <1>1, <1>2, <1>4, <1>5, <1>6, <1>10, <1>0, <1>7 DEF IndInv, TypeOK, LoadCheck, Sweeps, Points
<1>31. TaskInv' BY <1>1, <1>2, <1>4, <1>5, <1>6, <1>10, <1>0, <1>7 DEF IndInv, TaskInv, TaskPcs, Measuring
<1>32. ProcInv' 
  <2>1. ASSUME NEW x \in procs' PROVE x \in procs \/ x = <<mem[b].sweep, i, "check">> BY <1>0
  <2>2. \A x \in procs' : x[1] \in Sweeps' /\ x[2] \in Points(x[1])' BY <1>6, <1>7, <2>1 DEF IndInv, ProcInv, Child
  <2>3. \A x \in procs' : Recorded(x) => x \in procs BY <1>8, <2>1
  <2>4. \A x \in procs : Recorded(x) => rows[x[1]].owner # b BY <1>1 DEF IndInv, ProcInv, TypeOK
  <2> QED BY <1>4, <1>6, <1>10, <2>2, <2>3, <2>4 DEF IndInv, ProcInv, Child
<1>33. OneInv' BY <1>1, <1>2, <1>4, <1>5, <1>6, <1>10, <1>0, <1>7, <1>8 DEF IndInv, OneInv
<1>34. PairInv' BY <1>1, <1>2, <1>4, <1>5, <1>6, <1>10, <1>0, <1>7 DEF IndInv, PairInv
<1>35. ListInv' BY <1>1, <1>2, <1>4, <1>5, <1>6, <1>10, <1>0, <1>7 DEF IndInv, ListInv
<1>36. ReclaimInv' 
  <2>1. \A x \in procs' : Recorded(x) => x \in procs BY <1>0, <1>8
  <2> QED BY <1>1, <1>2, <1>4, <1>5, <1>6, <1>10, <1>0, <2>1 DEF IndInv, ReclaimInv, ReclaimOf
<1>37. PointInv' BY <1>1, <1>2, <1>4, <1>5, <1>6, <1>10, <1>0, <1>7 DEF IndInv, PointInv, Measuring
<1>38. OutInv' 
  <2>1. mem'[b].pc \notin Measuring BY <1>2, <1>4 DEF Measuring
  <2>2. ASSUME NEW c \in Backends, c # b PROVE mem'[c] = mem[c] BY <1>4, <2>2
  <2> QED BY <1>6, <2>1, <2>2 DEF IndInv, OutInv
<1>39. PgidInv' 
  <2>1. /\ mem'[b].pc \in {"loaded", "checked"} /\ mem'[b].sweep = mem[b].sweep /\ mem'[b].at = i
        /\ mem'[b].todo = mem[b].todo \ {i} /\ rows' = rows
    BY <1>2, <1>4, <1>6
  <2>3. \A j \in mem[b].todo : rows[mem[b].sweep].points[j].pgid # "check" BY <1>1 DEF IndInv, PgidInv, PgidOf
  <2>4. PgidOf(b)' BY <2>1, <2>3 DEF PgidOf, Measuring
  <2>2. ASSUME NEW c \in Backends, c # b PROVE PgidOf(c)'
    <3>1. mem'[c] = mem[c] /\ rows' = rows BY <1>4, <1>6, <2>2
    <3>2. PgidOf(c) BY DEF IndInv, PgidInv
    <3> QED BY <3>1, <3>2 DEF PgidOf, Points
  <2> QED BY <2>4, <2>2 DEF PgidInv
<1>40. VerdictSound' BY <1>1, <1>2, <1>4, <1>5, <1>6, <1>10, <1>0, <1>7 DEF IndInv, VerdictSound
<1>41. Monotone(fits)' BY DEF IndInv, Monotone, LoadCheck
<1> QED BY <1>30, <1>31, <1>32, <1>33, <1>34, <1>35, <1>36, <1>37, <1>38, <1>39, <1>40, <1>41 DEF IndInv

\* A call raises
LEMMA CallFailsStep ==
  ASSUME IndInv, NEW b \in Backends, CallFails(b)
  PROVE  IndInv'
<1> DEFINE e == IF mem[b].pc \in {"list", "reclaim", "open", "close"} THEN Idle ELSE [mem[b] EXCEPT !.pc = "close", !.end = "failed"]
<1>1. mem[b] \in Memory /\ mem \in [Backends -> Memory] /\ rows \in Seq(SweepRows) /\ mem[b].pc \notin {"down", "idle"} BY DEF IndInv, TypeOK, TaskInv, CallFails
<1>2. /\ e \in Memory /\ e.pc \in {"idle", "close"} /\ (e.pc = "idle" => e.out = "none")
      /\ (e.pc = "close" => mem[b].pc \in TaskPcs \cup {"study"})
      /\ (e.pc = "close" => e.sweep = mem[b].sweep /\ e.todo = mem[b].todo /\ e.end = "failed")
  BY <1>1, ZenonT(60) DEF Memory, TaskPcs, Idle
<1>3. mem' = [mem EXCEPT ![b] = e] BY <1>1 DEF CallFails, Goes
<1> HIDE DEF e
<1>4. mem' \in [Backends -> Memory] /\ mem'[b] = e /\ \A c \in Backends : c # b => mem'[c] = mem[c] BY <1>1, <1>2, <1>3
<1>5. \A c \in Backends : mem'[c].stale = mem[c].stale => Row(c)' = Row(c) BY DEF Row
<1>6. /\ rows' = rows /\ Sweeps' = Sweeps /\ Running' = Running /\ \A t : Points(t)' = Points(t) /\ fits' = fits /\ spoiled' = spoiled /\ beside' = beside
  BY DEF CallFails, Sweeps, Running, Points
<1>10. \A x : Recorded(x)' = Recorded(x) BY <1>6 DEF Recorded
<1>7. /\ procs' \subseteq procs /\ failed' = TRUE /\ faults' \in 0..MaxFaults
      /\ unsaved \subseteq unsaved' /\ unsaved' \subseteq Nat \X Nat
      /\ mem[b].pc \in Measuring => <<mem[b].sweep, mem[b].at>> \in unsaved'
  <2>1. procs' \subseteq procs /\ failed' = TRUE /\ faults' \in 0..MaxFaults
    BY PrescreenAssumption DEF CallFails, KillsChild, IndInv, TypeOK
  <2>2. <<mem[b].sweep, mem[b].at>> \in Nat \X Nat /\ unsaved \subseteq Nat \X Nat BY <1>1 DEF Memory, IndInv, TypeOK
  <2>3. unsaved' = unsaved \cup IF mem[b].pc \in Measuring THEN {<<mem[b].sweep, mem[b].at>>} ELSE {} BY DEF CallFails, AtPoint
  <2> QED BY <2>1, <2>2, <2>3
<1>8. \A x \in procs' : Recorded(x) => rows[x[1]].owner # b \/ mem[b].pc \notin {"wait", "loading"}
  <2>1. ASSUME NEW x \in procs', Recorded(x), rows[x[1]].owner = b PROVE FALSE
    <3>1. x \in procs /\ mem[b].pc = (IF x[3] = "bench" THEN "wait" ELSE "loading") /\ x = Child(b, x[3]) /\ x[3] \in {"bench", "check"}
      BY <1>7, <2>1 DEF IndInv, ProcInv, TypeOK
    <3>2. CASE x[3] = "bench" BY <2>1, <3>1, <3>2 DEF CallFails, KillsChild
    <3>3. CASE x[3] = "check" BY <2>1, <3>1, <3>3 DEF CallFails, KillsChild
    <3> QED BY <3>1, <3>2, <3>3
  <2> QED BY <2>1
<1>30. TypeOK' BY <1>1, <1>2, <1>4, <1>5, <1>6, <1>10, <1>7 DEF IndInv, TypeOK
<1>31. TaskInv' BY <1>1, <1>2, <1>4, <1>5, <1>6, <1>10, <1>7 DEF IndInv, TaskInv, TaskPcs, Measuring
<1>32. ProcInv' BY <1>1, <1>2, <1>4, <1>5, <1>6, <1>10, <1>7, <1>8 DEF IndInv, ProcInv, Child
<1>33. OneInv' BY <1>1, <1>2, <1>4, <1>5, <1>6, <1>10, <1>7 DEF IndInv, OneInv
<1>34. PairInv' BY <1>1, <1>2, <1>4, <1>5, <1>6, <1>10, <1>7 DEF IndInv, PairInv
<1>35. ListInv' BY <1>1, <1>2, <1>4, <1>5, <1>6, <1>10, <1>7 DEF IndInv, ListInv
<1>36. ReclaimInv' BY <1>1, <1>2, <1>4, <1>5, <1>6, <1>10, <1>7 DEF IndInv, ReclaimInv, ReclaimOf
<1>37. PointInv'
  <2>1. SUFFICES ASSUME NEW t \in Sweeps, NEW i \in Points(t), rows[t].points[i].status = "running", <<t, i>> \notin unsaved'
                 PROVE  /\ t \in Running
                        /\ \A c \in Backends : rows[t].owner = c => mem'[c].pc \in Measuring /\ mem'[c].sweep = t /\ mem'[c].at = i
    BY <1>6 DEF PointInv
  <2>2. t \in Running /\ \A c \in Backends : rows[t].owner = c => mem[c].pc \in Measuring /\ mem[c].sweep = t /\ mem[c].at = i
    BY <1>7, <2>1 DEF IndInv, PointInv
  <2>3. rows[t].owner # b BY <1>7, <2>1, <2>2
  <2> QED BY <1>4, <2>2, <2>3
<1>38. OutInv' BY <1>1, <1>2, <1>4, <1>5, <1>6, <1>10, <1>7 DEF IndInv, OutInv, TaskInv, Measuring, TaskPcs
<1>39. PgidInv' 
  <2>1. PgidOf(b)' BY <1>1, <1>2, <1>4, <1>6 DEF IndInv, PgidInv, PgidOf, Points, TaskPcs, Measuring
  <2>2. ASSUME NEW c \in Backends, c # b PROVE PgidOf(c)'
    <3>1. mem'[c] = mem[c] /\ rows' = rows BY <1>4, <1>6, <2>2
    <3>2. PgidOf(c) BY DEF IndInv, PgidInv
    <3> QED BY <3>1, <3>2 DEF PgidOf, Points
  <2> QED BY <2>1, <2>2 DEF PgidInv
<1>40. VerdictSound' BY <1>1, <1>2, <1>4, <1>5, <1>6, <1>10, <1>7 DEF IndInv, VerdictSound
<1>41. Monotone(fits)' BY DEF IndInv, Monotone, CallFails
<1> QED BY <1>30, <1>31, <1>32, <1>33, <1>34, <1>35, <1>36, <1>37, <1>38, <1>39, <1>40, <1>41 DEF IndInv

\* A point of a dead sweep
LEMMA ReclaimsPointStep ==
  ASSUME IndInv, NEW b \in Backends, ReclaimsPoint(b)
  PROVE  IndInv'
<1>20. mem[b].at \in Nat BY DEF IndInv, TypeOK, Memory
<1>21. PICK s, i : s = Row(b) /\ i = mem[b].at OBVIOUS
<1>22. PICK v, n : v = (IF rows[s].points[i].status = "running" THEN "cancelled" ELSE rows[s].points[i].status) /\ n = i + 1 OBVIOUS
<1>0. /\ s = Row(b) /\ i = mem[b].at /\ n = i + 1 /\ mem' = [mem EXCEPT ![b].at = n] /\ i \in Nat /\ n \in Nat
      /\ v = IF rows[s].points[i].status = "running" THEN "cancelled" ELSE rows[s].points[i].status
  BY <1>20, <1>21, <1>22 DEF ReclaimsPoint
<1> DEFINE e == [mem[b] EXCEPT !.at = n]
<1>1. mem[b] \in Memory /\ mem \in [Backends -> Memory] /\ rows \in Seq(SweepRows) /\ mem[b].pc = "reclaim" /\ mem[b].stale # {} 
  BY DEF IndInv, TypeOK, ReclaimsPoint, Memory
<1>2. /\ e \in Memory /\ e.at = n /\ e.pc = mem[b].pc /\ e.boot = mem[b].boot /\ e.stale = mem[b].stale
      /\ e.since = mem[b].since /\ e.sweep = mem[b].sweep /\ e.todo = mem[b].todo /\ e.out = mem[b].out
      /\ e.end = mem[b].end /\ e.cancel = mem[b].cancel
  BY <1>1, <1>0 DEF Memory, TaskPcs, Idle
<1>3. mem' = [mem EXCEPT ![b] = e] BY <1>1, <1>0 DEF ReclaimsPoint, Goes
<1> HIDE DEF e
<1>4. mem' \in [Backends -> Memory] /\ mem'[b] = e /\ \A c \in Backends : c # b => mem'[c] = mem[c] BY <1>1, <1>2, <1>3
<1>5. \A c \in Backends : mem'[c].stale = mem[c].stale => Row(c)' = Row(c) BY DEF Row
<1>6. unsaved' = unsaved /\ failed' = failed /\ fits' = fits /\ spoiled' = spoiled /\ beside' = beside BY DEF ReclaimsPoint
<1>7. /\ s \in Sweeps /\ i \in Points(s) /\ i # 0 /\ rows[s].owner \in {Nobody, b} /\ v \in PointSt /\ v # "running"
      /\ v \in {"cancelled", rows[s].points[i].status} /\ Len(rows[s].points) \in Nat /\ procs' = procs \ {<<s, i, rows[s].points[i].pgid>>}
  <2>1. s \in Sweeps /\ i \in Points(s) /\ i # 0 BY <1>0, <1>1, RowOf DEF ReclaimsPoint, Points
  <2>2. rows[s].points[i] \in PointRows /\ Len(rows[s].points) \in Nat BY <1>1, <2>1, RowTyped DEF Sweeps, Points
  <2>3. v \in PointSt /\ v # "running" /\ v \in {"cancelled", rows[s].points[i].status} BY <1>0, <2>2 DEF PointRows, PointSt
  <2>4. rows[s].owner \in {Nobody, b} BY <1>0, <1>1, <2>1 DEF IndInv, ReclaimInv, ReclaimOf
  <2> QED BY <1>0, <2>1, <2>2, <2>3, <2>4 DEF ReclaimsPoint
<1>11. rows' = [rows EXCEPT ![s].points[i].status = v] BY <1>0 DEF ReclaimsPoint
<1>8. Extends(rows', rows) /\ SamePoints(rows', rows) /\ StatusSet(rows', rows, s, i, v) /\ SamePgid(rows', rows)
  <2>1. rows' = SetStatus(rows, s, i, v) BY <1>11 DEF SetStatus
  <2>2. s \in 1..Len(rows) /\ i \in 1..Len(rows[s].points) BY <1>7 DEF Sweeps, Points
  <2> QED BY <1>1, <1>7, <2>1, <2>2, PutStatus
<1>13. /\ rows' \in Seq(SweepRows) /\ Sweeps' = Sweeps /\ Running' = Running /\ Running \subseteq Sweeps
       /\ \A t \in Sweeps : Points(t)' = Points(t) /\ rows'[t].owner = rows[t].owner
  BY <1>1, <1>8 DEF Extends, SamePoints, Sweeps, Running, Points
<1>14. \A t \in Sweeps : \A j \in Points(t) : rows'[t].points[j].p = rows[t].points[j].p
  BY <1>8 DEF SamePoints, Sweeps, Points
<1>15. \A t \in Sweeps : \A j \in Points(t) : 
         rows'[t].points[j].pgid = rows[t].points[j].pgid
  BY <1>7, <1>8 DEF Sweeps, Points, SamePgid, PgidSet
<1>16. \A t \in Sweeps : \A j \in Points(t) : 
         rows'[t].points[j].status \in {rows[t].points[j].status, "cancelled"} /\ (t = s /\ j = i => rows'[t].points[j].status # "running")
  BY <1>7, <1>8 DEF Sweeps, Points, SameStatus, StatusSet
<1>17. \A t \in Sweeps : Len(rows'[t].points) = Len(rows[t].points) BY <1>8 DEF SamePoints, Sweeps
<1>19. \A t \in Sweeps : Kept(t)
  BY <1>13, <1>14, <1>15, <1>16, <1>17 DEF Kept
<1>18. Placed BY TaskAt
<1>10. \A x \in procs : Recorded(x)' = Recorded(x)
  BY <1>15 DEF Recorded, IndInv, ProcInv
<1>9. \A c \in Backends : mem[c].pc = "reclaim" /\ mem[c].stale # {} => Row(c) \in Sweeps BY RowOf
<1>12. Row(b)' = s /\ \A x \in procs' : x[1] = s /\ x[2] = i => ~Recorded(x)
  <2>1. Row(b)' = s BY <1>0, <1>2, <1>4, <1>5
  <2>2. \A x \in procs : x = <<x[1], x[2], x[3]>> BY DEF IndInv, TypeOK
  <2> QED BY <1>7, <2>1, <2>2 DEF Recorded
<1>30. TypeOK' BY <1>1, <1>2, <1>4, <1>6, <1>7, <1>13 DEF IndInv, TypeOK, ReclaimsPoint
<1>31. TaskInv' BY <1>1, <1>2, <1>4, <1>7, <1>13 DEF IndInv, TaskInv, TaskPcs, Measuring
<1>32. ProcInv' BY <1>1, <1>2, <1>4, <1>6, <1>7, <1>10, <1>13, SMTT(60) DEF IndInv, ProcInv, Child
<1>33. OneInv' BY <1>6, <1>7, <1>10 DEF IndInv, OneInv
<1>34. PairInv' BY <1>6, <1>13 DEF IndInv, PairInv
<1>35. ListInv' BY <1>1, <1>2, <1>4, <1>13 DEF IndInv, ListInv
<1>36. ReclaimInv' 
  <2>1. ASSUME NEW c \in Backends, c # b PROVE ReclaimOf(c)'
    <3>1. mem'[c] = mem[c] BY <1>4, <2>1
    <3>2. mem[c].pc = "reclaim" /\ mem[c].stale # {} /\ mem[c].at # 0 => \A t \in Sweeps : t = Row(c) => Kept(t) BY <1>9, <1>19
    <3>3. mem[c].pc = "reclaim" /\ mem[c].stale # {} /\ mem[c].at # 0 =>
            \A x \in procs' : Recorded(x)' /\ x[1] = Row(c) => x \in procs /\ Recorded(x)
      BY <1>6, <1>7, <1>9, <1>10
    <3> QED BY <3>1, <3>2, <3>3, ReclaimKept
  <2>2. /\ rows'[s].owner \in {Nobody, b} /\ n <= Len(rows'[s].points) + 1
        /\ \A j \in Points(s)' : j < n =>
             /\ rows'[s].points[j].status # "running"
             /\ \A x \in procs' : x[1] = s /\ x[2] = j => ~Recorded(x)'
    <3>1. i <= Len(rows[s].points) BY <1>7 DEF Points
    <3>2. \A j \in Points(s) : j < n => j < i \/ j = i BY <1>0, <1>7 DEF Points
    <3>3. \A j \in Points(s) : j < i =>
             /\ rows[s].points[j].status # "running"
             /\ \A x \in procs : x[1] = s /\ x[2] = j => ~Recorded(x)
      BY <1>0, <1>1, <1>7 DEF IndInv, ReclaimInv, ReclaimOf
    <3>4. rows'[s].owner \in {Nobody, b} /\ n <= Len(rows'[s].points) + 1 BY <1>0, <1>7, <1>13, <1>17, <3>1, SMTT(60)
    <3>7. s \in Sweeps /\ Points(s)' = Points(s) BY <1>7, <1>13
    <3>5. ASSUME NEW j \in Points(s)', j < n PROVE rows'[s].points[j].status # "running"
      BY <1>16, <3>2, <3>3, <3>5, <3>7
    <3>6. ASSUME NEW j \in Points(s)', j < n, NEW x \in procs', x[1] = s, x[2] = j PROVE ~Recorded(x)'
      <4>1. x \in procs /\ (j < i \/ j = i) BY <1>7, <3>2, <3>6, <3>7
      <4> QED BY <1>10, <1>12, <3>3, <3>6, <3>7, <4>1
    <3> QED BY <3>4, <3>5, <3>6
  <2>3. ReclaimOf(b)' BY <1>2, <1>4, <1>12, <2>2 DEF ReclaimOf
  <2> QED BY <2>1, <2>3 DEF ReclaimInv
<1>37. PointInv' 
  <2>1. \A t \in Sweeps : \A j \in Points(t) : rows'[t].points[j].status = "running" => rows[t].points[j].status = "running"
    BY <1>16
  <2>2. mem[b].pc \notin Measuring BY <1>1 DEF Measuring
  <2> QED BY <1>4, <1>6, <1>13, <2>1, <2>2 DEF IndInv, PointInv
<1>38. OutInv' 
  <2>1. ASSUME NEW c \in Backends, mem'[c].pc \in Measuring, mem'[c].out = "oom", rows'[mem'[c].sweep].points[mem'[c].at].p \in fits'
        PROVE  mem'[c].sweep \in spoiled'
    <3>1. mem[c].pc \in Measuring /\ mem'[c].sweep = mem[c].sweep /\ mem'[c].at = mem[c].at /\ mem'[c].out = mem[c].out
      BY <1>1, <1>2, <1>4, <2>1 DEF Measuring
    <3>2. mem[c].sweep \in Sweeps /\ mem[c].at \in Points(mem[c].sweep) BY <1>18, <3>1 DEF Placed
    <3>3. rows[mem[c].sweep].points[mem[c].at].p \in fits BY <1>6, <1>14, <2>1, <3>1, <3>2
    <3> QED BY <1>6, <2>1, <3>1, <3>3 DEF IndInv, OutInv
  <2> QED BY <2>1 DEF OutInv
<1>39. PgidInv' 
  <2>1. PgidOf(b)' BY <1>1, <1>2, <1>4, <1>9, <1>13, <1>15, <1>18 DEF IndInv, PgidInv, PgidOf, Placed, Measuring
  <2>2. ASSUME NEW c \in Backends, c # b PROVE PgidOf(c)'
    <3>1. mem'[c] = mem[c] /\ \A t \in Sweeps : t = mem[c].sweep /\ mem[c].pc \in TaskPcs \cup {"study"} => Kept(t) BY <1>4, <1>9, <1>19, <2>2
    <3> QED BY <3>1, PgidKept
  <2> QED BY <2>1, <2>2 DEF PgidInv
<1>40. VerdictSound' BY <1>6, <1>13, <1>14, <1>16 DEF IndInv, VerdictSound
<1>41. Monotone(fits)' BY <1>6 DEF IndInv, Monotone
<1> QED BY <1>30, <1>31, <1>32, <1>33, <1>34, <1>35, <1>36, <1>37, <1>38, <1>39, <1>40, <1>41 DEF IndInv

\* The load check is recorded
LEMMA SavesCheckStep ==
  ASSUME IndInv, NEW b \in Backends, SavesCheck(b)
  PROVE  IndInv'
<1>0. PICK s, i : s = mem[b].sweep /\ i = mem[b].at OBVIOUS
<1> DEFINE e == [mem[b] EXCEPT !.pc = "check"]
<1>1. mem[b] \in Memory /\ mem \in [Backends -> Memory] /\ rows \in Seq(SweepRows) /\ mem[b].pc = "checked" BY DEF IndInv, TypeOK, TaskInv, SavesCheck
<1>2. /\ e \in Memory /\ e.pc = "check" /\ e.boot = mem[b].boot /\ e.stale = mem[b].stale /\ e.since = mem[b].since
      /\ e.sweep = mem[b].sweep /\ e.at = mem[b].at /\ e.todo = mem[b].todo /\ e.out = mem[b].out
      /\ e.end = mem[b].end /\ e.cancel = mem[b].cancel
  BY <1>1 DEF Memory, TaskPcs, Idle
<1>3. mem' = [mem EXCEPT ![b] = e] BY <1>1 DEF SavesCheck, Goes
<1> HIDE DEF e
<1>4. mem' \in [Backends -> Memory] /\ mem'[b] = e /\ \A c \in Backends : c # b => mem'[c] = mem[c] BY <1>1, <1>2, <1>3
<1>5. \A c \in Backends : mem'[c].stale = mem[c].stale => Row(c)' = Row(c) BY DEF Row
<1>6. procs' = procs /\ unsaved' = unsaved /\ failed' = failed /\ fits' = fits /\ spoiled' = spoiled /\ beside' = beside BY DEF SavesCheck
<1>7. /\ s = mem[b].sweep /\ i = mem[b].at /\ s \in Sweeps /\ s \in Running /\ i \in Points(s) /\ rows[s].owner = b
  BY <1>0, <1>1 DEF IndInv, TaskInv, TaskPcs, Measuring, Running
<1>8. Extends(rows', rows) /\ SamePoints(rows', rows) /\ SameStatus(rows', rows) /\ SamePgid(rows', rows)
  <2>1. rows' = SetCheck(rows, s, i, TRUE) BY <1>0 DEF SavesCheck, SavesPgid, SetCheck
  <2>2. s \in 1..Len(rows) /\ i \in 1..Len(rows[s].points) BY <1>7 DEF Sweeps, Points
  <2> QED BY <1>1, <1>7, <2>1, <2>2, PutCheck
<1>13. /\ rows' \in Seq(SweepRows) /\ Sweeps' = Sweeps /\ Running' = Running /\ Running \subseteq Sweeps
       /\ \A t \in Sweeps : Points(t)' = Points(t) /\ rows'[t].owner = rows[t].owner
  BY <1>1, <1>8 DEF Extends, SamePoints, Sweeps, Running, Points
<1>14. \A t \in Sweeps : \A j \in Points(t) : rows'[t].points[j].p = rows[t].points[j].p
  BY <1>8 DEF SamePoints, Sweeps, Points
<1>15. \A t \in Sweeps : \A j \in Points(t) : 
         rows'[t].points[j].pgid = rows[t].points[j].pgid
  BY <1>7, <1>8 DEF Sweeps, Points, SamePgid, PgidSet
<1>16. \A t \in Sweeps : \A j \in Points(t) : 
         rows'[t].points[j].status = rows[t].points[j].status
  BY <1>7, <1>8 DEF Sweeps, Points, SameStatus, StatusSet
<1>17. \A t \in Sweeps : Len(rows'[t].points) = Len(rows[t].points) BY <1>8 DEF SamePoints, Sweeps
<1>19. \A t \in Sweeps : Kept(t)
  BY <1>13, <1>14, <1>15, <1>16, <1>17 DEF Kept
<1>18. Placed BY TaskAt
<1>9. /\ \A c \in Backends : c # b /\ mem[c].pc \in TaskPcs \cup {"study"} => mem[c].sweep # s
      /\ \A c \in Backends : mem[c].pc = "reclaim" /\ mem[c].stale # {} /\ mem[c].at # 0 => Row(c) # s
  <2>1. \A c \in Backends : c # Nobody BY PrescreenAssumption
  <2> QED BY <1>1, <1>7, <2>1 DEF IndInv, TaskInv, ReclaimInv, ReclaimOf
<1>10. \A x \in procs : Recorded(x)' = Recorded(x)
  BY <1>15 DEF Recorded, IndInv, ProcInv
<1>30. TypeOK' BY <1>1, <1>2, <1>4, <1>6, <1>7, <1>13 DEF IndInv, TypeOK, SavesCheck
<1>31. TaskInv' BY <1>1, <1>2, <1>4, <1>7, <1>13 DEF IndInv, TaskInv, TaskPcs, Measuring
<1>32. ProcInv' BY <1>1, <1>2, <1>4, <1>6, <1>7, <1>10, <1>13, SMTT(60) DEF IndInv, ProcInv, Child
<1>33. OneInv' BY <1>6, <1>7, <1>10 DEF IndInv, OneInv
<1>34. PairInv' BY <1>6, <1>13 DEF IndInv, PairInv
<1>35. ListInv' BY <1>1, <1>2, <1>4, <1>13 DEF IndInv, ListInv
<1>36. ReclaimInv' 
  <2>1. ASSUME NEW c \in Backends, c # b PROVE ReclaimOf(c)'
    <3>1. mem'[c] = mem[c] BY <1>4, <2>1
    <3>2. mem[c].pc = "reclaim" /\ mem[c].stale # {} /\ mem[c].at # 0 => \A t \in Sweeps : t = Row(c) => Kept(t) BY <1>9, <1>19
    <3>3. mem[c].pc = "reclaim" /\ mem[c].stale # {} /\ mem[c].at # 0 =>
            \A x \in procs' : Recorded(x)' /\ x[1] = Row(c) => x \in procs /\ Recorded(x)
      BY <1>6, <1>7, <1>9, <1>10
    <3> QED BY <3>1, <3>2, <3>3, ReclaimKept
  <2>2. ReclaimOf(b)' BY <1>1, <1>2, <1>4 DEF ReclaimOf
  <2> QED BY <2>1, <2>2 DEF ReclaimInv
<1>37. PointInv' BY <1>1, <1>2, <1>4, <1>6, <1>7, <1>13, <1>16, SMTT(60) DEF IndInv, PointInv, Measuring
<1>38. OutInv' 
  <2>1. ASSUME NEW c \in Backends, mem'[c].pc \in Measuring, mem'[c].out = "oom", rows'[mem'[c].sweep].points[mem'[c].at].p \in fits'
        PROVE  mem'[c].sweep \in spoiled'
    <3>1. mem[c].pc \in Measuring /\ mem'[c].sweep = mem[c].sweep /\ mem'[c].at = mem[c].at /\ mem'[c].out = mem[c].out
      BY <1>1, <1>2, <1>4, <2>1 DEF Measuring
    <3>2. mem[c].sweep \in Sweeps /\ mem[c].at \in Points(mem[c].sweep) BY <1>18, <3>1 DEF Placed
    <3>3. rows[mem[c].sweep].points[mem[c].at].p \in fits BY <1>6, <1>14, <2>1, <3>1, <3>2
    <3> QED BY <1>6, <2>1, <3>1, <3>3 DEF IndInv, OutInv
  <2> QED BY <2>1 DEF OutInv
<1>39. PgidInv' 
  <2>1. PgidOf(b)' BY <1>1, <1>2, <1>4, <1>9, <1>13, <1>15, <1>18, SMTT(60) DEF IndInv, PgidInv, PgidOf, Placed, Measuring
  <2>2. ASSUME NEW c \in Backends, c # b PROVE PgidOf(c)'
    <3>1. mem'[c] = mem[c] /\ \A t \in Sweeps : t = mem[c].sweep /\ mem[c].pc \in TaskPcs \cup {"study"} => Kept(t) BY <1>4, <1>9, <1>19, <2>2
    <3> QED BY <3>1, PgidKept
  <2> QED BY <2>1, <2>2 DEF PgidInv
<1>40. VerdictSound' BY <1>6, <1>13, <1>14, <1>16 DEF IndInv, VerdictSound
<1>41. Monotone(fits)' BY <1>6 DEF IndInv, Monotone
<1> QED BY <1>30, <1>31, <1>32, <1>33, <1>34, <1>35, <1>36, <1>37, <1>38, <1>39, <1>40, <1>41 DEF IndInv

\* on_spawn
LEMMA RecordsGroupStep ==
  ASSUME IndInv, NEW b \in Backends, RecordsGroup(b)
  PROVE  IndInv'
<1>0. PICK s, i : s = mem[b].sweep /\ i = mem[b].at OBVIOUS
<1> DEFINE e == [mem[b] EXCEPT !.pc = "wait"]
<1>1. mem[b] \in Memory /\ mem \in [Backends -> Memory] /\ rows \in Seq(SweepRows) /\ mem[b].pc = "record" BY DEF IndInv, TypeOK, TaskInv, RecordsGroup
<1>2. /\ e \in Memory /\ e.pc = "wait" /\ e.boot = mem[b].boot /\ e.stale = mem[b].stale /\ e.since = mem[b].since
      /\ e.sweep = mem[b].sweep /\ e.at = mem[b].at /\ e.todo = mem[b].todo /\ e.out = mem[b].out
      /\ e.end = mem[b].end /\ e.cancel = mem[b].cancel
  BY <1>1 DEF Memory, TaskPcs, Idle
<1>3. mem' = [mem EXCEPT ![b] = e] BY <1>1 DEF RecordsGroup, Goes
<1> HIDE DEF e
<1>4. mem' \in [Backends -> Memory] /\ mem'[b] = e /\ \A c \in Backends : c # b => mem'[c] = mem[c] BY <1>1, <1>2, <1>3
<1>5. \A c \in Backends : mem'[c].stale = mem[c].stale => Row(c)' = Row(c) BY DEF Row
<1>6. procs' = procs /\ unsaved' = unsaved /\ failed' = failed /\ fits' = fits /\ spoiled' = spoiled /\ beside' = beside BY DEF RecordsGroup
<1>7. /\ s = mem[b].sweep /\ i = mem[b].at /\ s \in Sweeps /\ s \in Running /\ i \in Points(s) /\ rows[s].owner = b
  BY <1>0, <1>1 DEF IndInv, TaskInv, TaskPcs, Measuring, Running
<1>8. Extends(rows', rows) /\ SamePoints(rows', rows) /\ SameStatus(rows', rows) /\ PgidSet(rows', rows, s, i, "bench")
  <2>1. rows' = SetPgid(rows, s, i, "bench") BY <1>0 DEF RecordsGroup, SavesPgid, SetPgid
  <2>2. s \in 1..Len(rows) /\ i \in 1..Len(rows[s].points) BY <1>7 DEF Sweeps, Points
  <2> QED BY <1>1, <1>7, <2>1, <2>2, PutPgid
<1>13. /\ rows' \in Seq(SweepRows) /\ Sweeps' = Sweeps /\ Running' = Running /\ Running \subseteq Sweeps
       /\ \A t \in Sweeps : Points(t)' = Points(t) /\ rows'[t].owner = rows[t].owner
  BY <1>1, <1>8 DEF Extends, SamePoints, Sweeps, Running, Points
<1>14. \A t \in Sweeps : \A j \in Points(t) : rows'[t].points[j].p = rows[t].points[j].p
  BY <1>8 DEF SamePoints, Sweeps, Points
<1>15. \A t \in Sweeps : \A j \in Points(t) : 
         rows'[t].points[j].pgid = (IF t = s /\ j = i THEN "bench" ELSE rows[t].points[j].pgid)
  BY <1>7, <1>8 DEF Sweeps, Points, SamePgid, PgidSet
<1>16. \A t \in Sweeps : \A j \in Points(t) : 
         rows'[t].points[j].status = rows[t].points[j].status
  BY <1>7, <1>8 DEF Sweeps, Points, SameStatus, StatusSet
<1>17. \A t \in Sweeps : Len(rows'[t].points) = Len(rows[t].points) BY <1>8 DEF SamePoints, Sweeps
<1>19. \A t \in Sweeps : t # s => Kept(t)
  BY <1>13, <1>14, <1>15, <1>16, <1>17 DEF Kept
<1>18. Placed BY TaskAt
<1>9. /\ \A c \in Backends : c # b /\ mem[c].pc \in TaskPcs \cup {"study"} => mem[c].sweep # s
      /\ \A c \in Backends : mem[c].pc = "reclaim" /\ mem[c].stale # {} /\ mem[c].at # 0 => Row(c) # s
  <2>1. \A c \in Backends : c # Nobody BY PrescreenAssumption
  <2> QED BY <1>1, <1>7, <2>1 DEF IndInv, TaskInv, ReclaimInv, ReclaimOf
<1>10. \A x \in procs : Recorded(x)' => Recorded(x) \/ x = <<s, i, "bench">>
  <2>1. \A x \in procs : x[1] \in Sweeps /\ x[2] \in Points(x[1]) /\ x = <<x[1], x[2], x[3]>> BY DEF IndInv, ProcInv, TypeOK
  <2> QED BY <1>15, <2>1 DEF Recorded
<1>11. \A x \in procs : Recorded(x) => x[1] # s
  BY <1>1, <1>7 DEF IndInv, ProcInv, TypeOK
<1>12. \A x \in procs : Recorded(x)' => (Recorded(x) /\ x[1] # s) \/ x = <<s, i, "bench">> BY <1>10, <1>11
<1>30. TypeOK' BY <1>1, <1>2, <1>4, <1>6, <1>7, <1>13 DEF IndInv, TypeOK, RecordsGroup
<1>31. TaskInv' BY <1>1, <1>2, <1>4, <1>7, <1>13 DEF IndInv, TaskInv, TaskPcs, Measuring
<1>32. ProcInv' BY <1>1, <1>2, <1>4, <1>6, <1>7, <1>11, <1>12, <1>13 DEF IndInv, ProcInv, Child
<1>33. OneInv' BY <1>6, <1>7, <1>12 DEF IndInv, OneInv
<1>34. PairInv' BY <1>6, <1>13 DEF IndInv, PairInv
<1>35. ListInv' BY <1>1, <1>2, <1>4, <1>13 DEF IndInv, ListInv
<1>36. ReclaimInv' 
  <2>1. ASSUME NEW c \in Backends, c # b PROVE ReclaimOf(c)'
    <3>1. mem'[c] = mem[c] BY <1>4, <2>1
    <3>2. mem[c].pc = "reclaim" /\ mem[c].stale # {} /\ mem[c].at # 0 => \A t \in Sweeps : t = Row(c) => Kept(t) BY <1>9, <1>19
    <3>3. mem[c].pc = "reclaim" /\ mem[c].stale # {} /\ mem[c].at # 0 =>
            \A x \in procs' : Recorded(x)' /\ x[1] = Row(c) => x \in procs /\ Recorded(x)
      BY <1>6, <1>7, <1>9, <1>10, <1>12
    <3> QED BY <3>1, <3>2, <3>3, ReclaimKept
  <2>2. ReclaimOf(b)' BY <1>1, <1>2, <1>4 DEF ReclaimOf
  <2> QED BY <2>1, <2>2 DEF ReclaimInv
<1>37. PointInv' 
  <2>1. \A t \in Sweeps : \A j \in Points(t) : rows'[t].points[j].status = rows[t].points[j].status BY <1>16
  <2>2. mem[b].pc \in Measuring => e.pc \in Measuring BY <1>1, <1>2 DEF Measuring
  <2> QED BY <1>2, <1>4, <1>6, <1>13, <2>1, <2>2 DEF IndInv, PointInv
<1>38. OutInv' 
  <2>1. ASSUME NEW c \in Backends, mem'[c].pc \in Measuring, mem'[c].out = "oom", rows'[mem'[c].sweep].points[mem'[c].at].p \in fits'
        PROVE  mem'[c].sweep \in spoiled'
    <3>1. mem[c].pc \in Measuring /\ mem'[c].sweep = mem[c].sweep /\ mem'[c].at = mem[c].at /\ mem'[c].out = mem[c].out
      BY <1>1, <1>2, <1>4, <2>1 DEF Measuring
    <3>2. mem[c].sweep \in Sweeps /\ mem[c].at \in Points(mem[c].sweep) BY <1>18, <3>1 DEF Placed
    <3>3. rows[mem[c].sweep].points[mem[c].at].p \in fits BY <1>6, <1>14, <2>1, <3>1, <3>2
    <3> QED BY <1>6, <2>1, <3>1, <3>3 DEF IndInv, OutInv
  <2> QED BY <2>1 DEF OutInv
<1>39. PgidInv' 
  <2>1. PgidOf(b)'
    <3>1. \A j \in Points(s) : rows[s].points[j].pgid # "check" BY <1>1, <1>7 DEF IndInv, PgidInv, PgidOf, Measuring
    <3>2. \A j \in Points(s)' : rows'[s].points[j].pgid # "check" BY <1>7, <1>13, <1>15, <3>1
    <3> QED BY <1>2, <1>4, <1>7, <3>2 DEF PgidOf, Measuring
  <2>2. ASSUME NEW c \in Backends, c # b PROVE PgidOf(c)'
    <3>1. mem'[c] = mem[c] /\ \A t \in Sweeps : t = mem[c].sweep /\ mem[c].pc \in TaskPcs \cup {"study"} => Kept(t) BY <1>4, <1>9, <1>19, <2>2
    <3> QED BY <3>1, PgidKept
  <2> QED BY <2>1, <2>2 DEF PgidInv
<1>40. VerdictSound' BY <1>6, <1>13, <1>14, <1>16 DEF IndInv, VerdictSound
<1>41. Monotone(fits)' BY <1>6 DEF IndInv, Monotone
<1> QED BY <1>30, <1>31, <1>32, <1>33, <1>34, <1>35, <1>36, <1>37, <1>38, <1>39, <1>40, <1>41 DEF IndInv

\* The server is on record
LEMMA RecordsServerStep ==
  ASSUME IndInv, NEW b \in Backends, RecordsServer(b)
  PROVE  IndInv'
<1>0. PICK s, i : s = mem[b].sweep /\ i = mem[b].at OBVIOUS
<1> DEFINE e == [mem[b] EXCEPT !.pc = "loading"]
<1>1. mem[b] \in Memory /\ mem \in [Backends -> Memory] /\ rows \in Seq(SweepRows) /\ mem[b].pc = "loaded" BY DEF IndInv, TypeOK, TaskInv, RecordsServer
<1>2. /\ e \in Memory /\ e.pc = "loading" /\ e.boot = mem[b].boot /\ e.stale = mem[b].stale /\ e.since = mem[b].since
      /\ e.sweep = mem[b].sweep /\ e.at = mem[b].at /\ e.todo = mem[b].todo /\ e.out = mem[b].out
      /\ e.end = mem[b].end /\ e.cancel = mem[b].cancel
  BY <1>1 DEF Memory, TaskPcs, Idle
<1>3. mem' = [mem EXCEPT ![b] = e] BY <1>1 DEF RecordsServer, Goes
<1> HIDE DEF e
<1>4. mem' \in [Backends -> Memory] /\ mem'[b] = e /\ \A c \in Backends : c # b => mem'[c] = mem[c] BY <1>1, <1>2, <1>3
<1>5. \A c \in Backends : mem'[c].stale = mem[c].stale => Row(c)' = Row(c) BY DEF Row
<1>6. procs' = procs /\ unsaved' = unsaved /\ failed' = failed /\ fits' = fits /\ spoiled' = spoiled /\ beside' = beside BY DEF RecordsServer
<1>7. /\ s = mem[b].sweep /\ i = mem[b].at /\ s \in Sweeps /\ s \in Running /\ i \in Points(s) /\ rows[s].owner = b
  BY <1>0, <1>1 DEF IndInv, TaskInv, TaskPcs, Measuring, Running
<1>8. Extends(rows', rows) /\ SamePoints(rows', rows) /\ SameStatus(rows', rows) /\ PgidSet(rows', rows, s, i, "check")
  <2>1. rows' = SetPgid(rows, s, i, "check") BY <1>0 DEF RecordsServer, SavesPgid, SetPgid
  <2>2. s \in 1..Len(rows) /\ i \in 1..Len(rows[s].points) BY <1>7 DEF Sweeps, Points
  <2> QED BY <1>1, <1>7, <2>1, <2>2, PutPgid
<1>13. /\ rows' \in Seq(SweepRows) /\ Sweeps' = Sweeps /\ Running' = Running /\ Running \subseteq Sweeps
       /\ \A t \in Sweeps : Points(t)' = Points(t) /\ rows'[t].owner = rows[t].owner
  BY <1>1, <1>8 DEF Extends, SamePoints, Sweeps, Running, Points
<1>14. \A t \in Sweeps : \A j \in Points(t) : rows'[t].points[j].p = rows[t].points[j].p
  BY <1>8 DEF SamePoints, Sweeps, Points
<1>15. \A t \in Sweeps : \A j \in Points(t) : 
         rows'[t].points[j].pgid = (IF t = s /\ j = i THEN "check" ELSE rows[t].points[j].pgid)
  BY <1>7, <1>8 DEF Sweeps, Points, SamePgid, PgidSet
<1>16. \A t \in Sweeps : \A j \in Points(t) : 
         rows'[t].points[j].status = rows[t].points[j].status
  BY <1>7, <1>8 DEF Sweeps, Points, SameStatus, StatusSet
<1>17. \A t \in Sweeps : Len(rows'[t].points) = Len(rows[t].points) BY <1>8 DEF SamePoints, Sweeps
<1>19. \A t \in Sweeps : t # s => Kept(t)
  BY <1>13, <1>14, <1>15, <1>16, <1>17 DEF Kept
<1>18. Placed BY TaskAt
<1>9. /\ \A c \in Backends : c # b /\ mem[c].pc \in TaskPcs \cup {"study"} => mem[c].sweep # s
      /\ \A c \in Backends : mem[c].pc = "reclaim" /\ mem[c].stale # {} /\ mem[c].at # 0 => Row(c) # s
  <2>1. \A c \in Backends : c # Nobody BY PrescreenAssumption
  <2> QED BY <1>1, <1>7, <2>1 DEF IndInv, TaskInv, ReclaimInv, ReclaimOf
<1>10. \A x \in procs : Recorded(x)' => Recorded(x) \/ x = <<s, i, "check">>
  <2>1. \A x \in procs : x[1] \in Sweeps /\ x[2] \in Points(x[1]) /\ x = <<x[1], x[2], x[3]>> BY DEF IndInv, ProcInv, TypeOK
  <2> QED BY <1>15, <2>1 DEF Recorded
<1>11. \A x \in procs : Recorded(x) => x[1] # s
  BY <1>1, <1>7 DEF IndInv, ProcInv, TypeOK
<1>12. \A x \in procs : Recorded(x)' => (Recorded(x) /\ x[1] # s) \/ x = <<s, i, "check">> BY <1>10, <1>11
<1>30. TypeOK' BY <1>1, <1>2, <1>4, <1>6, <1>7, <1>13 DEF IndInv, TypeOK, RecordsServer
<1>31. TaskInv' BY <1>1, <1>2, <1>4, <1>7, <1>13 DEF IndInv, TaskInv, TaskPcs, Measuring
<1>32. ProcInv' BY <1>1, <1>2, <1>4, <1>6, <1>7, <1>11, <1>12, <1>13 DEF IndInv, ProcInv, Child
<1>33. OneInv' BY <1>6, <1>7, <1>12 DEF IndInv, OneInv
<1>34. PairInv' BY <1>6, <1>13 DEF IndInv, PairInv
<1>35. ListInv' BY <1>1, <1>2, <1>4, <1>13 DEF IndInv, ListInv
<1>36. ReclaimInv' 
  <2>1. ASSUME NEW c \in Backends, c # b PROVE ReclaimOf(c)'
    <3>1. mem'[c] = mem[c] BY <1>4, <2>1
    <3>2. mem[c].pc = "reclaim" /\ mem[c].stale # {} /\ mem[c].at # 0 => \A t \in Sweeps : t = Row(c) => Kept(t) BY <1>9, <1>19
    <3>3. mem[c].pc = "reclaim" /\ mem[c].stale # {} /\ mem[c].at # 0 =>
            \A x \in procs' : Recorded(x)' /\ x[1] = Row(c) => x \in procs /\ Recorded(x)
      BY <1>6, <1>7, <1>9, <1>10, <1>12
    <3> QED BY <3>1, <3>2, <3>3, ReclaimKept
  <2>2. ReclaimOf(b)' BY <1>1, <1>2, <1>4 DEF ReclaimOf
  <2> QED BY <2>1, <2>2 DEF ReclaimInv
<1>37. PointInv' 
  <2>1. \A t \in Sweeps : \A j \in Points(t) : rows'[t].points[j].status = rows[t].points[j].status BY <1>16
  <2>2. mem[b].pc \in Measuring => e.pc \in Measuring BY <1>1, <1>2 DEF Measuring
  <2> QED BY <1>2, <1>4, <1>6, <1>13, <2>1, <2>2 DEF IndInv, PointInv
<1>38. OutInv' 
  <2>1. ASSUME NEW c \in Backends, mem'[c].pc \in Measuring, mem'[c].out = "oom", rows'[mem'[c].sweep].points[mem'[c].at].p \in fits'
        PROVE  mem'[c].sweep \in spoiled'
    <3>1. mem[c].pc \in Measuring /\ mem'[c].sweep = mem[c].sweep /\ mem'[c].at = mem[c].at /\ mem'[c].out = mem[c].out
      BY <1>1, <1>2, <1>4, <2>1 DEF Measuring
    <3>2. mem[c].sweep \in Sweeps /\ mem[c].at \in Points(mem[c].sweep) BY <1>18, <3>1 DEF Placed
    <3>3. rows[mem[c].sweep].points[mem[c].at].p \in fits BY <1>6, <1>14, <2>1, <3>1, <3>2
    <3> QED BY <1>6, <2>1, <3>1, <3>3 DEF IndInv, OutInv
  <2> QED BY <2>1 DEF OutInv
<1>39. PgidInv' 
  <2>1. PgidOf(b)'
    <3>1. i \notin mem[b].todo /\ \A j \in mem[b].todo : j \in Points(s) /\ rows[s].points[j].pgid # "check"
      BY <1>1, <1>7, <1>18 DEF IndInv, PgidInv, PgidOf, Placed
    <3>2. \A j \in mem[b].todo : rows'[s].points[j].pgid # "check" BY <1>7, <1>15, <3>1
    <3> QED BY <1>2, <1>4, <1>7, <3>1, <3>2 DEF PgidOf, Measuring
  <2>2. ASSUME NEW c \in Backends, c # b PROVE PgidOf(c)'
    <3>1. mem'[c] = mem[c] /\ \A t \in Sweeps : t = mem[c].sweep /\ mem[c].pc \in TaskPcs \cup {"study"} => Kept(t) BY <1>4, <1>9, <1>19, <2>2
    <3> QED BY <3>1, PgidKept
  <2> QED BY <2>1, <2>2 DEF PgidInv
<1>40. VerdictSound' BY <1>6, <1>13, <1>14, <1>16 DEF IndInv, VerdictSound
<1>41. Monotone(fits)' BY <1>6 DEF IndInv, Monotone
<1> QED BY <1>30, <1>31, <1>32, <1>33, <1>34, <1>35, <1>36, <1>37, <1>38, <1>39, <1>40, <1>41 DEF IndInv

\* The outcome is recorded
LEMMA SavesPointStep ==
  ASSUME IndInv, NEW b \in Backends, SavesPoint(b)
  PROVE  IndInv'
<1>0. PICK s, i : s = mem[b].sweep /\ i = mem[b].at OBVIOUS
<1>20. PICK v, to : v = mem[b].out /\ to = (IF Mine(b)[mem[b].at].phase = "search" THEN "search" ELSE "again") OBVIOUS
<1>21. v \in {"ok", "oom", "error", "cancelled"} /\ v \in PointSt BY <1>20 DEF IndInv, TypeOK, Memory, TaskInv, PointSt, SavesPoint
<1> DEFINE e == [mem[b] EXCEPT !.pc = to, !.out = "none"]
<1>1. mem[b] \in Memory /\ mem \in [Backends -> Memory] /\ rows \in Seq(SweepRows) /\ mem[b].pc = "save" BY DEF IndInv, TypeOK, TaskInv, SavesPoint
<1>2. /\ e \in Memory /\ e.pc = to /\ e.pc \in {"search", "again"} /\ e.out = "none" /\ e.boot = mem[b].boot
      /\ e.stale = mem[b].stale /\ e.since = mem[b].since /\ e.sweep = mem[b].sweep /\ e.at = mem[b].at
      /\ e.todo = mem[b].todo /\ e.end = mem[b].end /\ e.cancel = mem[b].cancel
  BY <1>1, <1>20 DEF Memory, TaskPcs, Idle
<1>3. mem' = [mem EXCEPT ![b] = e] BY <1>1, <1>20 DEF SavesPoint, Goes
<1> HIDE DEF e
<1>4. mem' \in [Backends -> Memory] /\ mem'[b] = e /\ \A c \in Backends : c # b => mem'[c] = mem[c] BY <1>1, <1>2, <1>3
<1>5. \A c \in Backends : mem'[c].stale = mem[c].stale => Row(c)' = Row(c) BY DEF Row
<1>6. procs' = procs /\ unsaved' = unsaved /\ failed' = failed /\ fits' = fits /\ spoiled' = spoiled /\ beside' = beside BY DEF SavesPoint
<1>7. /\ s = mem[b].sweep /\ i = mem[b].at /\ s \in Sweeps /\ s \in Running /\ i \in Points(s) /\ rows[s].owner = b
      /\ v = mem[b].out /\ v \in PointSt /\ v # "running"
  BY <1>0, <1>1, <1>20, <1>21 DEF IndInv, TaskInv, TaskPcs, Measuring, Running
<1>8. Extends(rows', rows) /\ SamePoints(rows', rows) /\ StatusSet(rows', rows, s, i, v) /\ SamePgid(rows', rows)
  <2>1. rows' = SetStatus(rows, s, i, v) BY <1>0, <1>20 DEF SavesPoint, SavesPgid, SetStatus
  <2>2. s \in 1..Len(rows) /\ i \in 1..Len(rows[s].points) BY <1>7 DEF Sweeps, Points
  <2> QED BY <1>1, <1>7, <2>1, <2>2, PutStatus
<1>13. /\ rows' \in Seq(SweepRows) /\ Sweeps' = Sweeps /\ Running' = Running /\ Running \subseteq Sweeps
       /\ \A t \in Sweeps : Points(t)' = Points(t) /\ rows'[t].owner = rows[t].owner
  BY <1>1, <1>8 DEF Extends, SamePoints, Sweeps, Running, Points
<1>14. \A t \in Sweeps : \A j \in Points(t) : rows'[t].points[j].p = rows[t].points[j].p
  BY <1>8 DEF SamePoints, Sweeps, Points
<1>15. \A t \in Sweeps : \A j \in Points(t) : 
         rows'[t].points[j].pgid = rows[t].points[j].pgid
  BY <1>7, <1>8 DEF Sweeps, Points, SamePgid, PgidSet
<1>16. \A t \in Sweeps : \A j \in Points(t) : 
         rows'[t].points[j].status = (IF t = s /\ j = i THEN v ELSE rows[t].points[j].status)
  BY <1>7, <1>8 DEF Sweeps, Points, SameStatus, StatusSet
<1>17. \A t \in Sweeps : Len(rows'[t].points) = Len(rows[t].points) BY <1>8 DEF SamePoints, Sweeps
<1>19. \A t \in Sweeps : Kept(t)
  BY <1>7, <1>13, <1>14, <1>15, <1>16, <1>17 DEF Kept
<1>18. Placed BY TaskAt
<1>9. /\ \A c \in Backends : c # b /\ mem[c].pc \in TaskPcs \cup {"study"} => mem[c].sweep # s
      /\ \A c \in Backends : mem[c].pc = "reclaim" /\ mem[c].stale # {} /\ mem[c].at # 0 => Row(c) # s
  <2>1. \A c \in Backends : c # Nobody BY PrescreenAssumption
  <2> QED BY <1>1, <1>7, <2>1 DEF IndInv, TaskInv, ReclaimInv, ReclaimOf
<1>10. \A x \in procs : Recorded(x)' = Recorded(x)
  BY <1>15 DEF Recorded, IndInv, ProcInv
<1>30. TypeOK' BY <1>1, <1>2, <1>4, <1>6, <1>7, <1>13 DEF IndInv, TypeOK, SavesPoint
<1>31. TaskInv' BY <1>1, <1>2, <1>4, <1>7, <1>13 DEF IndInv, TaskInv, TaskPcs, Measuring
<1>32. ProcInv' BY <1>1, <1>2, <1>4, <1>6, <1>7, <1>10, <1>13 DEF IndInv, ProcInv, Child
<1>33. OneInv' BY <1>6, <1>7, <1>10 DEF IndInv, OneInv
<1>34. PairInv' BY <1>6, <1>13 DEF IndInv, PairInv
<1>35. ListInv' BY <1>1, <1>2, <1>4, <1>13 DEF IndInv, ListInv
<1>36. ReclaimInv' 
  <2>1. ASSUME NEW c \in Backends, c # b PROVE ReclaimOf(c)'
    <3>1. mem'[c] = mem[c] BY <1>4, <2>1
    <3>2. mem[c].pc = "reclaim" /\ mem[c].stale # {} /\ mem[c].at # 0 => \A t \in Sweeps : t = Row(c) => Kept(t) BY <1>9, <1>19
    <3>3. mem[c].pc = "reclaim" /\ mem[c].stale # {} /\ mem[c].at # 0 =>
            \A x \in procs' : Recorded(x)' /\ x[1] = Row(c) => x \in procs /\ Recorded(x)
      BY <1>6, <1>7, <1>9, <1>10
    <3> QED BY <3>1, <3>2, <3>3, ReclaimKept
  <2>2. ReclaimOf(b)' BY <1>1, <1>2, <1>4 DEF ReclaimOf
  <2> QED BY <2>1, <2>2 DEF ReclaimInv
<1>37. PointInv' BY <1>1, <1>2, <1>4, <1>6, <1>7, <1>13, <1>16, SMTT(60) DEF IndInv, PointInv, Measuring
<1>38. OutInv' 
  <2>1. ASSUME NEW c \in Backends, mem'[c].pc \in Measuring, mem'[c].out = "oom", rows'[mem'[c].sweep].points[mem'[c].at].p \in fits'
        PROVE  mem'[c].sweep \in spoiled'
    <3>1. mem[c].pc \in Measuring /\ mem'[c].sweep = mem[c].sweep /\ mem'[c].at = mem[c].at /\ mem'[c].out = mem[c].out
      BY <1>1, <1>2, <1>4, <2>1 DEF Measuring
    <3>2. mem[c].sweep \in Sweeps /\ mem[c].at \in Points(mem[c].sweep) BY <1>18, <3>1 DEF Placed
    <3>3. rows[mem[c].sweep].points[mem[c].at].p \in fits BY <1>6, <1>14, <2>1, <3>1, <3>2
    <3> QED BY <1>6, <2>1, <3>1, <3>3 DEF IndInv, OutInv
  <2> QED BY <2>1 DEF OutInv
<1>39. PgidInv' 
  <2>1. PgidOf(b)'
    <3>1. \A j \in Points(s) : rows[s].points[j].pgid # "check" BY <1>1, <1>7 DEF IndInv, PgidInv, PgidOf, Measuring
    <3>2. \A j \in Points(s)' : rows'[s].points[j].pgid # "check" BY <1>7, <1>13, <1>15, <3>1
    <3> QED BY <1>2, <1>4, <1>7, <3>2 DEF PgidOf, Measuring
  <2>2. ASSUME NEW c \in Backends, c # b PROVE PgidOf(c)'
    <3>1. mem'[c] = mem[c] /\ \A t \in Sweeps : t = mem[c].sweep /\ mem[c].pc \in TaskPcs \cup {"study"} => Kept(t) BY <1>4, <1>9, <1>19, <2>2
    <3> QED BY <3>1, PgidKept
  <2> QED BY <2>1, <2>2 DEF PgidInv
<1>40. VerdictSound' 
  <2>1. v = "oom" /\ rows[s].points[i].p \in fits => s \in spoiled BY <1>1, <1>7 DEF IndInv, OutInv, Measuring
  <2>2. v # "pruned" BY <1>21
  <2> QED BY <1>6, <1>13, <1>14, <1>16, <2>1, <2>2 DEF IndInv, VerdictSound
<1>41. Monotone(fits)' BY <1>6 DEF IndInv, Monotone
<1> QED BY <1>30, <1>31, <1>32, <1>33, <1>34, <1>35, <1>36, <1>37, <1>38, <1>39, <1>40, <1>41 DEF IndInv

\* Rows are closed, or lose their owner: reclaim_stale, _close and a death.
Closing(b, e, C) ==
  /\ mem' = [mem EXCEPT ![b] = e] /\ rows' \in Seq(SweepRows) /\ Sweeps' = Sweeps /\ Running' = Running \ C
  /\ \A t \in Sweeps : rows'[t].points = rows[t].points
  /\ \A t \in Sweeps : rows'[t].owner = rows[t].owner \/ (rows[t].owner = b /\ rows'[t].owner = Nobody)
  /\ procs' = procs /\ fits' = fits /\ beside' = beside /\ spoiled' = spoiled /\ unsaved' = unsaved /\ failed' = failed
  /\ faults' \in 0..MaxFaults
  /\ e.pc \in {"idle", "down", "reclaim"} /\ e.out = "none" /\ e.todo = {}
  /\ e.pc = "reclaim" => e.at = 0 /\ e.stale \subseteq Sweeps /\ Running' \subseteq e.since \cup e.stale
  /\ mem[b].pc \in {"close", "reclaim"} \/ \A t \in Sweeps : rows'[t].owner # b
  /\ \A t \in C : \A x \in procs : x[1] = t => ~Recorded(x)
  /\ \A t \in C : \A i \in Points(t) : rows[t].points[i].status = "running" => <<t, i>> \in unsaved
  /\ \A c \in Backends : c # b /\ mem[c].pc \in TaskPcs \cup {"study"} => mem[c].sweep \notin C

\* A step that closes sweeps keeps the invariant: the steps of _close, the
\* reclaim of a row, and a backend's end are of this kind.
LEMMA CloseStep ==
  ASSUME IndInv, NEW b \in Backends, NEW e \in Memory, NEW C \in SUBSET Running, Closing(b, e, C)
  PROVE  IndInv'
<1> USE DEF Closing
<1>1. mem \in [Backends -> Memory] /\ rows \in Seq(SweepRows) /\ Running \subseteq Sweeps /\ \A c \in Backends : c # Nobody
  BY PrescreenAssumption DEF IndInv, TypeOK, Running
<1>2. mem' \in [Backends -> Memory] /\ mem'[b] = e /\ \A c \in Backends : c # b => mem'[c] = mem[c] BY <1>1
<1>3. /\ \A t \in Sweeps : Points(t)' = Points(t) /\ Kept(t)
      /\ \A t \in Sweeps : \A j \in Points(t) : rows'[t].points[j] = rows[t].points[j]
  BY DEF Kept, Points
<1>4. \A x \in procs : Recorded(x)' = Recorded(x) BY <1>3 DEF IndInv, ProcInv, Recorded
<1>5. \A c \in Backends : \A t \in Sweeps : rows'[t].owner = c => rows[t].owner = c BY <1>1
<1>6. \A c \in Backends : c # b /\ mem[c].pc \in TaskPcs \cup {"study"} =>
        mem[c].sweep \in Running' /\ mem[c].sweep \in Sweeps /\ rows'[mem[c].sweep].owner = c
  <2>1. \A c \in Backends : mem[c].pc \in TaskPcs \cup {"study"} => mem[c].sweep \in Running /\ rows[mem[c].sweep].owner = c
    BY DEF IndInv, TaskInv
  <2> QED BY <1>1, <2>1
<1>30. TypeOK' BY <1>2 DEF IndInv, TypeOK
<1>31. TaskInv'
  <2>1. ASSUME NEW c \in Backends, c # b, mem[c].pc \in TaskPcs \cup {"study"} PROVE mem[c].todo \subseteq Points(mem[c].sweep)'
    BY <1>2, <1>3, <1>6, <2>1 DEF IndInv, TaskInv
  <2>2. ASSUME NEW c \in Backends, c # b, mem[c].pc \in Measuring \cup {"loaded", "loading", "checked"} PROVE mem[c].at \in Points(mem[c].sweep)'
    <3>1. mem[c].pc \in TaskPcs BY <2>2 DEF TaskPcs, Measuring
    <3> QED BY <1>2, <1>3, <1>6, <2>2, <3>1 DEF IndInv, TaskInv
  <2>3. e.pc \notin TaskPcs \cup {"study", "list", "open", "save", "close"} \cup Measuring BY DEF TaskPcs, Measuring
  <2>4. ASSUME NEW c \in Backends, c = b PROVE /\ mem'[c].pc \notin TaskPcs \cup {"study", "list", "open", "save", "close"} \cup Measuring
                                             /\ mem'[c].out = "none" /\ mem'[c].todo = {} /\ mem'[c].pc \notin {"loaded", "loading", "checked"}
    BY <1>2, <2>3, <2>4
  <2> QED BY <1>2, <1>6, <2>1, <2>2, <2>4 DEF IndInv, TaskInv
<1>32. ProcInv'
  <2>1. \A x \in procs : x[1] \in Sweeps /\ x[2] \in Points(x[1]) BY DEF IndInv, ProcInv
  <2>2. \A x \in procs : Recorded(x) => x[1] \in Running \ C BY DEF IndInv, ProcInv
  <2>3. ASSUME NEW x \in procs, Recorded(x), NEW c \in Backends, rows'[x[1]].owner = c
        PROVE  mem'[c].pc = (IF x[3] = "bench" THEN "wait" ELSE "loading") /\ x = Child(c, x[3])'
    <3>1. rows[x[1]].owner = c BY <1>5, <2>1, <2>3
    <3>2. mem[c].pc = (IF x[3] = "bench" THEN "wait" ELSE "loading") /\ x = Child(c, x[3]) BY <2>3, <3>1 DEF IndInv, ProcInv
    <3>3. c # b BY <2>1, <2>3, <3>2
    <3> QED BY <1>2, <3>2, <3>3 DEF Child
  <2> QED BY <1>3, <1>4, <2>1, <2>2, <2>3 DEF ProcInv
<1>33. OneInv' BY <1>4 DEF IndInv, OneInv
<1>34. PairInv' BY DEF IndInv, PairInv
<1>35. ListInv' BY <1>2 DEF IndInv, ListInv
<1>36. ReclaimInv'
  <2>1. ASSUME NEW c \in Backends, c # b PROVE ReclaimOf(c)'
    <3>1. mem'[c] = mem[c] BY <1>2, <2>1
    <3>2. \A t \in Sweeps : t = Row(c) => Kept(t) BY <1>3
    <3>3. \A x \in procs' : Recorded(x)' /\ x[1] = Row(c) => x \in procs /\ Recorded(x) BY <1>4
    <3> QED BY <3>1, <3>2, <3>3, ReclaimKept
  <2>2. ReclaimOf(b)' BY <1>2 DEF ReclaimOf
  <2> QED BY <2>1, <2>2 DEF ReclaimInv
<1>37. PointInv'
  <2>1. SUFFICES ASSUME NEW t \in Sweeps, NEW i \in Points(t), rows[t].points[i].status = "running", <<t, i>> \notin unsaved
                 PROVE  /\ t \in Running'
                        /\ \A c \in Backends : rows'[t].owner = c => mem'[c].pc \in Measuring /\ mem'[c].sweep = t /\ mem'[c].at = i
    BY <1>3 DEF PointInv
  <2>2. t \in Running \ C /\ \A c \in Backends : rows[t].owner = c => mem[c].pc \in Measuring /\ mem[c].sweep = t /\ mem[c].at = i
    BY <2>1 DEF IndInv, PointInv
  <2>3. rows'[t].owner # b BY <1>5, <2>2 DEF Measuring
  <2> QED BY <1>2, <1>5, <2>2, <2>3
<1>38. OutInv'
  <2>1. ASSUME NEW c \in Backends, mem'[c].pc \in Measuring, mem'[c].out = "oom", rows'[mem'[c].sweep].points[mem'[c].at].p \in fits'
        PROVE  mem'[c].sweep \in spoiled'
    <3>1. mem'[c] = mem[c] /\ mem[c].pc \in Measuring BY <1>2, <2>1 DEF Measuring
    <3>2. mem[c].sweep \in Sweeps BY <3>1, TaskAt DEF Placed
    <3> QED BY <2>1, <3>1, <3>2 DEF IndInv, OutInv
  <2> QED BY <2>1 DEF OutInv
<1>39. PgidInv'
  <2>1. PgidOf(b)' BY <1>2 DEF PgidOf, Measuring
  <2>2. ASSUME NEW c \in Backends, c # b PROVE PgidOf(c)' BY <1>2, <1>3, <2>2, PgidKept
  <2> QED BY <2>1, <2>2 DEF PgidInv
<1>40. VerdictSound' BY <1>3 DEF IndInv, VerdictSound
<1>41. Monotone(fits)' BY DEF IndInv, Monotone
<1> QED BY <1>30, <1>31, <1>32, <1>33, <1>34, <1>35, <1>36, <1>37, <1>38, <1>39, <1>40, <1>41 DEF IndInv

\* A dead backend dies.
LEMMA CrashStep == ASSUME IndInv, NEW b \in Backends, Crash(b) PROVE IndInv'
<1> DEFINE e == [Idle EXCEPT !.pc = "down"]
<1>1. /\ e \in Memory /\ e.pc = "down" /\ e.out = "none" /\ e.todo = {} BY DEF Memory, Idle, TaskPcs
<1>2. mem' = [mem EXCEPT ![b] = e] BY DEF Crash
<1> HIDE DEF e
<1>3. rows \in Seq(SweepRows) /\ rows' = Orphaned(b, rows) /\ b # Nobody BY PrescreenAssumption DEF IndInv, TypeOK, Crash
<1>4. /\ rows' \in Seq(SweepRows) /\ Len(rows') = Len(rows)
      /\ \A t \in 1..Len(rows) : /\ rows'[t].points = rows[t].points /\ rows'[t].status = rows[t].status
                                 /\ rows'[t].owner = IF rows[t].owner = b THEN Nobody ELSE rows[t].owner
  BY <1>3, OrphanRows
<1>5. Sweeps' = Sweeps /\ Running' = Running BY <1>4 DEF Sweeps, Running
<1>6. \A t \in Sweeps : /\ rows'[t].points = rows[t].points /\ rows'[t].owner # b
                        /\ rows'[t].owner = rows[t].owner \/ (rows[t].owner = b /\ rows'[t].owner = Nobody)
  BY <1>3, <1>4 DEF Sweeps
<1>7. /\ procs' = procs /\ fits' = fits /\ beside' = beside /\ spoiled' = spoiled /\ unsaved' = unsaved /\ failed' = failed
      /\ faults' \in 0..MaxFaults
  BY PrescreenAssumption DEF Crash, IndInv, TypeOK
<1>8. PICK C \in SUBSET Running : C = {} OBVIOUS
<1>9. Closing(b, e, C) BY <1>1, <1>2, <1>4, <1>5, <1>6, <1>7, <1>8 DEF Closing
<1> QED BY <1>1, <1>9, CloseStep

\* A row is reclaimed.
LEMMA ReclaimsRowStep == ASSUME IndInv, NEW b \in Backends, ReclaimsRow(b) PROVE IndInv'
<1>0. PICK s : s = Row(b) OBVIOUS
<1> DEFINE e == [mem[b] EXCEPT !.at = 0, !.stale = @ \ {s}]
<1>1. /\ mem[b] \in Memory /\ rows \in Seq(SweepRows) /\ mem[b].pc = "reclaim" /\ mem[b].stale # {}
      /\ mem[b].out = "none" /\ mem[b].todo = {} /\ mem[b].at = Len(rows[s].points) + 1
  BY <1>0 DEF IndInv, TypeOK, TaskInv, ReclaimsRow
<1>2. /\ e \in Memory /\ e.pc = "reclaim" /\ e.at = 0 /\ e.out = "none" /\ e.todo = {} /\ e.since = mem[b].since
      /\ e.stale = mem[b].stale \ {s}
  BY <1>1 DEF Memory
<1>3. mem' = [mem EXCEPT ![b] = e] BY <1>0 DEF ReclaimsRow
<1> HIDE DEF e
<1>4. s \in Sweeps /\ Len(rows[s].points) \in Nat
  <2>1. s \in Sweeps BY <1>0, <1>1, RowOf
  <2> QED BY <1>1, <2>1, RowTyped DEF Sweeps
<1>5. /\ rows[s].owner \in {Nobody, b} /\ \A i \in Points(s) : rows[s].points[i].status # "running"
      /\ \A x \in procs : x[1] = s => ~Recorded(x)
  <2>1. mem[b].at # 0 BY <1>1, <1>4
  <2>2. \A i \in Points(s) : i < mem[b].at BY <1>1, <1>4 DEF Points
  <2>3. \A x \in procs : x[2] \in Points(x[1]) BY DEF IndInv, ProcInv
  <2> QED BY <1>0, <1>1, <2>1, <2>2, <2>3 DEF IndInv, ReclaimInv, ReclaimOf
<1>6. rows' = CloseIn(rows, s, "stale") BY <1>0 DEF ReclaimsRow, Closed, CloseIn
<1>7. /\ rows' \in Seq(SweepRows) /\ Len(rows') = Len(rows) /\ rows'[s].status # "running"
      /\ \A t \in 1..Len(rows) : rows'[t].points = rows[t].points /\ rows'[t].owner = rows[t].owner
      /\ \A t \in 1..Len(rows) : t # s => rows'[t].status = rows[t].status
  <2>1. s \in 1..Len(rows) BY <1>4 DEF Sweeps
  <2>2. RowClosed(rows', rows, s) BY <1>1, <1>6, <2>1, CloseRow
  <2> QED BY <2>2 DEF RowClosed
<1>8. PICK C \in SUBSET Running : C = Running \cap {s} OBVIOUS
<1>9. Sweeps' = Sweeps /\ Running' = Running \ C BY <1>4, <1>7, <1>8 DEF Sweeps, Running
<1>10. \A t \in Sweeps : rows'[t].points = rows[t].points /\ rows'[t].owner = rows[t].owner BY <1>7 DEF Sweeps
<1>11. e.stale \subseteq Sweeps /\ Running' \subseteq e.since \cup e.stale
  BY <1>1, <1>2, <1>8, <1>9 DEF IndInv, ListInv
<1>12. \A c \in Backends : c # b /\ mem[c].pc \in TaskPcs \cup {"study"} => mem[c].sweep \notin C
  <2>1. \A c \in Backends : c # Nobody BY PrescreenAssumption
  <2> QED BY <1>5, <1>8, <2>1 DEF IndInv, TaskInv
<1>13. /\ procs' = procs /\ fits' = fits /\ beside' = beside /\ spoiled' = spoiled /\ unsaved' = unsaved /\ failed' = failed
       /\ faults' \in 0..MaxFaults
  BY DEF ReclaimsRow, IndInv, TypeOK
<1>14. \A t \in C : t = s BY <1>8
<1>15. Closing(b, e, C) BY <1>1, <1>2, <1>3, <1>5, <1>7, <1>9, <1>10, <1>11, <1>12, <1>13, <1>14 DEF Closing
<1> QED BY <1>2, <1>15, CloseStep

\* A sweep is closed by its task.
LEMMA ClosesStep == ASSUME IndInv, NEW b \in Backends, Closes(b) PROVE IndInv'
<1>0. PICK s, v, q : /\ s = mem[b].sweep /\ v = (IF mem[b].end = "stopped" THEN "cancelled" ELSE mem[b].end)
                     /\ q = CloseIn(rows, s, v)
  OBVIOUS
<1> DEFINE e == [Idle EXCEPT !.pc = IF mem[b].end = "stopped" THEN "down" ELSE "idle"]
<1>1. rows \in Seq(SweepRows) /\ mem[b].pc = "close" /\ v \in {"done", "cancelled", "failed", "stale"}
  BY <1>0 DEF IndInv, TypeOK, TaskInv, Memory, Closes
<1>2. e \in Memory /\ e.pc \in {"idle", "down"} /\ e.out = "none" /\ e.todo = {} BY DEF Memory, Idle, TaskPcs
<1>3. mem' = [mem EXCEPT ![b] = e] BY DEF Closes
<1> HIDE DEF e
<1>4. s \in Sweeps /\ s \in Running /\ rows[s].owner = b BY <1>0, <1>1 DEF IndInv, TaskInv, TaskPcs, Running
<1>5. /\ q \in Seq(SweepRows) /\ Len(q) = Len(rows) /\ q[s].status # "running"
      /\ \A t \in 1..Len(rows) : q[t].points = rows[t].points /\ q[t].owner = rows[t].owner
      /\ \A t \in 1..Len(rows) : t # s => q[t].status = rows[t].status
  <2>1. s \in 1..Len(rows) BY <1>4 DEF Sweeps
  <2>2. RowClosed(q, rows, s) BY <1>0, <1>1, <2>1, CloseRow
  <2> QED BY <2>2 DEF RowClosed
<1>6. rows' = q \/ rows' = Orphaned(b, q) BY <1>0 DEF Closes, Closed, CloseIn
<1>7. /\ rows' \in Seq(SweepRows) /\ Len(rows') = Len(rows) /\ rows'[s].status # "running"
      /\ \A t \in 1..Len(rows) : /\ rows'[t].points = rows[t].points
                                 /\ rows'[t].owner = rows[t].owner \/ (rows[t].owner = b /\ rows'[t].owner = Nobody)
      /\ \A t \in 1..Len(rows) : t # s => rows'[t].status = rows[t].status
  <2>1. CASE rows' = q BY <1>5, <2>1
  <2>2. CASE rows' = Orphaned(b, q)
    <3>1. /\ rows' \in Seq(SweepRows) /\ Len(rows') = Len(q)
          /\ \A t \in 1..Len(q) : /\ rows'[t].points = q[t].points /\ rows'[t].status = q[t].status
                                  /\ rows'[t].owner = IF q[t].owner = b THEN Nobody ELSE q[t].owner
      BY <1>5, <2>2, OrphanRows
    <3>2. s \in 1..Len(rows) BY <1>4 DEF Sweeps
    <3> QED BY <1>5, <3>1, <3>2
  <2> QED BY <1>6, <2>1, <2>2
<1>8. PICK C \in SUBSET Running : C = {s} BY <1>4
<1>9. Sweeps' = Sweeps /\ Running' = Running \ C BY <1>4, <1>7, <1>8 DEF Sweeps, Running
<1>10. \A t \in Sweeps : /\ rows'[t].points = rows[t].points
                         /\ rows'[t].owner = rows[t].owner \/ (rows[t].owner = b /\ rows'[t].owner = Nobody)
  BY <1>7 DEF Sweeps
<1>11. /\ \A x \in procs : x[1] = s => ~Recorded(x)
       /\ \A i \in Points(s) : rows[s].points[i].status = "running" => <<s, i>> \in unsaved
  BY <1>1, <1>4 DEF IndInv, ProcInv, PointInv, Measuring
<1>12. \A c \in Backends : c # b /\ mem[c].pc \in TaskPcs \cup {"study"} => mem[c].sweep \notin C
  BY <1>4, <1>8 DEF IndInv, TaskInv
<1>13. /\ procs' = procs /\ fits' = fits /\ beside' = beside /\ spoiled' = spoiled /\ unsaved' = unsaved /\ failed' = failed
       /\ faults' \in 0..MaxFaults
  BY DEF Closes, IndInv, TypeOK
<1>14. \A t \in C : t = s BY <1>8
<1>15. Closing(b, e, C) BY <1>1, <1>2, <1>3, <1>7, <1>9, <1>10, <1>11, <1>12, <1>13, <1>14 DEF Closing
<1> QED BY <1>2, <1>15, CloseStep

\* A point is opened: to be measured, or with what _trial makes of it.
Opening(b, e, p) ==
  /\ mem[b].pc \in {"search", "again"} /\ mem' = [mem EXCEPT ![b] = e]
  /\ rows' = [rows EXCEPT ![mem[b].sweep].points = Append(@, p)]
  /\ p.pgid = "none" /\ (p.status \in {"oom", "pruned"} /\ p.p \in fits => mem[b].sweep \in spoiled)
  /\ e.sweep = mem[b].sweep /\ e.todo \subseteq mem[b].todo /\ e.out = mem[b].out
  /\ p.status = "running" => e.pc = "spawn" /\ e.at = Len(rows[mem[b].sweep].points) + 1
  /\ p.status # "running" => e.pc = mem[b].pc
  /\ UNCHANGED <<procs, fits, beside, spoiled, unsaved, failed, faults>>

\* A step that adds a point to a backend's own sweep keeps the invariant.
LEMMA OpenStep ==
  ASSUME IndInv, NEW b \in Backends, NEW e \in Memory, NEW p \in PointRows, Opening(b, e, p)
  PROVE  IndInv'
<1>0. PICK s : s = mem[b].sweep OBVIOUS
<1>1. mem \in [Backends -> Memory] /\ rows \in Seq(SweepRows) /\ mem[b].pc \in {"search", "again"} /\ mem[b].out = "none"
  BY DEF Opening, IndInv, TypeOK, TaskInv
<1>2. /\ p.pgid = "none" /\ (p.status \in {"oom", "pruned"} /\ p.p \in fits => s \in spoiled)
      /\ e.sweep = s /\ e.todo \subseteq mem[b].todo /\ e.out = "none" /\ e.pc \in {"search", "again", "spawn"}
      /\ p.status = "running" => e.pc = "spawn"
      /\ e.pc = "spawn" => p.status = "running" /\ e.at = Len(rows[s].points) + 1
  BY <1>0, <1>1 DEF Opening
<1>3. procs' = procs /\ fits' = fits /\ beside' = beside /\ spoiled' = spoiled /\ unsaved' = unsaved /\ failed' = failed /\ faults' = faults
  BY DEF Opening
<1>4. mem' \in [Backends -> Memory] /\ mem'[b] = e /\ \A c \in Backends : c # b => mem'[c] = mem[c] BY <1>1 DEF Opening
<1>5. /\ s \in Sweeps /\ s \in Running /\ rows[s].owner = b /\ mem[b].todo \subseteq Points(s) /\ Running \subseteq Sweeps
      /\ Len(rows[s].points) \in Nat
  <2>1. /\ s \in Sweeps /\ s \in Running /\ rows[s].owner = b /\ mem[b].todo \subseteq Points(s) /\ Running \subseteq Sweeps
    BY <1>0, <1>1 DEF IndInv, TaskInv, TaskPcs, Running
  <2> QED BY <1>1, <2>1, RowTyped DEF Sweeps
<1>6. rows' = [rows EXCEPT ![s].points = Append(@, p)] BY <1>0 DEF Opening
<1>7. /\ Extends(rows', rows)
      /\ \A t \in 1..Len(rows) : t # s => rows'[t] = rows[t]
      /\ Len(rows'[s].points) = Len(rows[s].points) + 1
      /\ \A j \in 1..Len(rows[s].points) : rows'[s].points[j] = rows[s].points[j]
      /\ rows'[s].points[Len(rows[s].points) + 1] = p
  <2>1. rows' = PutPoint(rows, s, p) /\ s \in 1..Len(rows) BY <1>5, <1>6 DEF PutPoint, Sweeps
  <2>2. PointAdded(rows', rows, s, p) BY <1>1, <2>1, AddPoint
  <2> QED BY <2>2 DEF PointAdded
<1>8. PICK n : n = Len(rows[s].points) + 1 OBVIOUS
<1>9. /\ rows' \in Seq(SweepRows) /\ Sweeps' = Sweeps /\ Running' = Running
      /\ \A t \in Sweeps : rows'[t].owner = rows[t].owner
  BY <1>1, <1>7 DEF Extends, Sweeps, Running
<1>10. /\ \A t \in Sweeps : t # s => rows'[t] = rows[t] /\ Points(t)' = Points(t)
       /\ Points(s)' = Points(s) \cup {n} /\ n \notin Points(s) /\ Points(s) \subseteq Points(s)'
  BY <1>5, <1>7, <1>8 DEF Sweeps, Points
<1>11. rows'[s].points[n] = p /\ \A j \in Points(s) : rows'[s].points[j] = rows[s].points[j]
  BY <1>7, <1>8 DEF Points
<1>12. \A t \in Sweeps : \A j \in Points(t) : rows'[t].points[j] = rows[t].points[j] /\ j \in Points(t)'
  BY <1>10, <1>11
<1>13. \A x \in procs : Recorded(x)' = Recorded(x) BY <1>12 DEF IndInv, ProcInv, Recorded
<1>14. \A t \in Sweeps : t # s => Kept(t) BY <1>10 DEF Kept
<1>15. /\ \A c \in Backends : c # b /\ mem[c].pc \in TaskPcs \cup {"study"} => mem[c].sweep # s
       /\ \A c \in Backends : mem[c].pc = "reclaim" /\ mem[c].stale # {} /\ mem[c].at # 0 => Row(c) # s
  <2>1. \A c \in Backends : c # Nobody BY PrescreenAssumption
  <2> QED BY <1>1, <1>5, <2>1 DEF IndInv, TaskInv, ReclaimInv, ReclaimOf
<1>30. TypeOK' BY <1>3, <1>4, <1>9 DEF IndInv, TypeOK
<1>31. TaskInv'
  <2>1. ASSUME NEW c \in Backends, c # b, mem[c].pc \in TaskPcs \cup {"study"} PROVE mem[c].todo \subseteq Points(mem[c].sweep)'
    <3>1. mem[c].sweep \in Sweeps /\ mem[c].todo \subseteq Points(mem[c].sweep) BY <1>5, <2>1 DEF IndInv, TaskInv
    <3> QED BY <1>4, <1>10, <1>15, <2>1, <3>1
  <2>2. ASSUME NEW c \in Backends, c # b, mem[c].pc \in Measuring \cup {"loaded", "loading", "checked"} PROVE mem[c].at \in Points(mem[c].sweep)'
    <3>1. mem[c].pc \in TaskPcs BY <2>2 DEF TaskPcs, Measuring
    <3>2. mem[c].sweep \in Sweeps /\ mem[c].at \in Points(mem[c].sweep) BY <1>5, <2>2, <3>1 DEF IndInv, TaskInv
    <3> QED BY <1>4, <1>10, <1>15, <2>2, <3>1, <3>2
  <2>3. e.todo \subseteq Points(s)' /\ (e.pc = "spawn" => e.at \in Points(s)') BY <1>2, <1>5, <1>8, <1>10
  <2>4. /\ e.pc \in TaskPcs /\ e.pc \notin {"list", "reclaim", "open", "save", "close", "loaded", "loading", "checked", "record", "wait"}
        /\ (e.pc \in Measuring => e.pc = "spawn")
    BY <1>2 DEF TaskPcs, Measuring
  <2>5. ASSUME NEW c \in Backends, mem[c].pc \in TaskPcs \cup {"study"} PROVE mem[c].sweep \in Sweeps
    BY <1>5, <2>5 DEF IndInv, TaskInv
  <2>6. ASSUME NEW c \in Backends, c = b
        PROVE  /\ mem'[c].sweep \in Running' /\ rows'[mem'[c].sweep].owner = c /\ mem'[c].todo \subseteq Points(mem[c].sweep)'
               /\ mem'[c].pc \in Measuring \cup {"loaded", "loading", "checked"} => mem'[c].at \in Points(mem[c].sweep)'
               /\ mem'[c].pc \notin {"list", "reclaim", "open", "save", "close"} /\ mem'[c].out = "none"
    BY <1>2, <1>4, <1>5, <1>9, <2>3, <2>4, <2>6
  <2>7. ASSUME NEW c \in Backends, c # b, mem[c].pc \in TaskPcs \cup {"study"} PROVE mem[c].sweep \in Running' /\ rows'[mem[c].sweep].owner = c
    BY <1>9, <2>5, <2>7 DEF IndInv, TaskInv
  <2> QED BY <1>4, <2>1, <2>2, <2>6, <2>7 DEF IndInv, TaskInv
<1>32. ProcInv'
  <2>1. \A x \in procs : x[1] \in Sweeps /\ x[2] \in Points(x[1]) BY DEF IndInv, ProcInv
  <2>2. \A x \in procs : Recorded(x) => x[1] \in Running /\ rows[x[1]].owner # b BY <1>1 DEF IndInv, ProcInv
  <2>3. ASSUME NEW x \in procs, Recorded(x), NEW c \in Backends, rows'[x[1]].owner = c
        PROVE  mem'[c].pc = (IF x[3] = "bench" THEN "wait" ELSE "loading") /\ x = Child(c, x[3])'
    <3>1. rows[x[1]].owner = c BY <1>9, <2>1, <2>3
    <3>2. mem[c].pc = (IF x[3] = "bench" THEN "wait" ELSE "loading") /\ x = Child(c, x[3]) BY <2>3, <3>1 DEF IndInv, ProcInv
    <3> QED BY <1>4, <2>2, <2>3, <3>1, <3>2 DEF Child
  <2> QED BY <1>3, <1>9, <1>12, <1>13, <2>1, <2>2, <2>3 DEF ProcInv
<1>33. OneInv' BY <1>3, <1>13 DEF IndInv, OneInv
<1>34. PairInv' BY <1>3, <1>9 DEF IndInv, PairInv
<1>35. ListInv' BY <1>2, <1>4, <1>9 DEF IndInv, ListInv
<1>36. ReclaimInv'
  <2>1. ASSUME NEW c \in Backends, c # b PROVE ReclaimOf(c)'
    <3>1. mem'[c] = mem[c] BY <1>4, <2>1
    <3>2. mem[c].pc = "reclaim" /\ mem[c].stale # {} /\ mem[c].at # 0 => \A t \in Sweeps : t = Row(c) => Kept(t) BY <1>14, <1>15
    <3>3. \A x \in procs' : Recorded(x)' /\ x[1] = Row(c) => x \in procs /\ Recorded(x) BY <1>3, <1>13
    <3> QED BY <3>1, <3>2, <3>3, ReclaimKept
  <2>2. ReclaimOf(b)' BY <1>2, <1>4 DEF ReclaimOf
  <2> QED BY <2>1, <2>2 DEF ReclaimInv
<1>37. PointInv'
  <2>1. SUFFICES ASSUME NEW t \in Sweeps, NEW i \in Points(t)', rows'[t].points[i].status = "running", <<t, i>> \notin unsaved
                 PROVE  /\ t \in Running'
                        /\ \A c \in Backends : rows'[t].owner = c => mem'[c].pc \in Measuring /\ mem'[c].sweep = t /\ mem'[c].at = i
    BY <1>3, <1>9 DEF PointInv
  <2>2. CASE t = s /\ i = n
    BY <1>2, <1>4, <1>5, <1>8, <1>9, <1>11, <2>1, <2>2 DEF Measuring
  <2>3. CASE ~(t = s /\ i = n)
    <3>1. i \in Points(t) /\ rows[t].points[i].status = "running" BY <1>10, <1>12, <2>1, <2>3
    <3>2. t \in Running /\ \A c \in Backends : rows[t].owner = c => mem[c].pc \in Measuring /\ mem[c].sweep = t /\ mem[c].at = i
      BY <2>1, <3>1 DEF IndInv, PointInv
    <3>3. mem[b].pc \notin Measuring BY <1>1 DEF Measuring
    <3> QED BY <1>4, <1>9, <3>2, <3>3
  <2> QED BY <2>2, <2>3
<1>38. OutInv'
  <2>1. ASSUME NEW c \in Backends, mem'[c].pc \in Measuring, mem'[c].out = "oom", rows'[mem'[c].sweep].points[mem'[c].at].p \in fits'
        PROVE  mem'[c].sweep \in spoiled'
    <3>1. mem'[c] = mem[c] /\ mem[c].pc \in Measuring BY <1>2, <1>4, <2>1 DEF Measuring
    <3>2. mem[c].sweep \in Sweeps /\ mem[c].at \in Points(mem[c].sweep) BY <3>1, TaskAt DEF Placed
    <3> QED BY <1>3, <1>12, <2>1, <3>1, <3>2 DEF IndInv, OutInv
  <2> QED BY <2>1 DEF OutInv
<1>39. PgidInv'
  <2>1. PgidOf(b)'
    <3>1. \A j \in Points(s) : rows[s].points[j].pgid # "check" BY <1>0, <1>1 DEF IndInv, PgidInv, PgidOf
    <3>2. \A j \in Points(s)' : rows'[s].points[j].pgid # "check" BY <1>2, <1>10, <1>11, <3>1
    <3>3. e.pc = "spawn" => rows'[s].points[e.at].pgid = "none" BY <1>2, <1>8, <1>11
    <3> QED BY <1>2, <1>4, <3>2, <3>3 DEF PgidOf
  <2>2. ASSUME NEW c \in Backends, c # b PROVE PgidOf(c)'
    <3>1. mem'[c] = mem[c] /\ \A t \in Sweeps : t = mem[c].sweep /\ mem[c].pc \in TaskPcs \cup {"study"} => Kept(t) BY <1>4, <1>14, <1>15, <2>2
    <3> QED BY <3>1, PgidKept
  <2> QED BY <2>1, <2>2 DEF PgidInv
<1>40. VerdictSound'
  <2>1. SUFFICES ASSUME NEW t \in Sweeps, NEW i \in Points(t)', rows'[t].points[i].status \in {"oom", "pruned"}, rows'[t].points[i].p \in fits
                 PROVE  t \in spoiled
    BY <1>3, <1>9 DEF VerdictSound
  <2>2. CASE t = s /\ i = n BY <1>2, <1>11, <2>1, <2>2
  <2>3. CASE ~(t = s /\ i = n)
    <3>1. i \in Points(t) /\ rows'[t].points[i] = rows[t].points[i] BY <1>10, <1>12, <2>1, <2>3
    <3> QED BY <2>1, <3>1 DEF IndInv, VerdictSound
  <2> QED BY <2>2, <2>3
<1>41. Monotone(fits)' BY <1>3 DEF IndInv, Monotone
<1> QED BY <1>30, <1>31, <1>32, <1>33, <1>34, <1>35, <1>36, <1>37, <1>38, <1>39, <1>40, <1>41 DEF IndInv

\* A trial.  Pruning is sound: the card has the memory for what needs less
\* than a point that fits.
LEMMA TrialStep == ASSUME IndInv, NEW b \in Backends, Trial(b) PROVE IndInv'
<1>0. PICK p \in Proposals(b) :
        /\ Adds(b, Point(p, "search", Verdict(b, p)))
        /\ mem' = IF Verdict(b, p) = "running" THEN [mem EXCEPT ![b].pc = "spawn", ![b].at = Len(Mine(b)) + 1] ELSE mem
  BY DEF Trial
<1>1. mem[b] \in Memory /\ mem \in [Backends -> Memory] /\ rows \in Seq(SweepRows) /\ mem[b].pc = "search" BY DEF IndInv, TypeOK, Trial
<1>2. p \in Grid BY PrescreenAssumption, <1>0 DEF Proposals, Plan
<1>3. PICK s, v, n : s = mem[b].sweep /\ v = Verdict(b, p) /\ n = Len(Mine(b)) + 1 OBVIOUS
<1>4. s \in Sweeps BY <1>1, <1>3 DEF IndInv, TaskInv, TaskPcs, Running
<1>5. Len(rows[s].points) \in Nat /\ n \in Nat /\ n = Len(rows[s].points) + 1
  <2>1. Len(rows[s].points) \in Nat BY <1>1, <1>4, RowTyped DEF Sweeps
  <2> QED BY <1>3, <2>1 DEF Mine
<1>6. v \in {"invalid", "repeat", "pruned", "running"}
      /\ (v = "pruned" => \E i \in Ooms(b) : NeedsMore(p, Mine(b)[i].p))
  BY <1>3 DEF Verdict
<1>7. v = "pruned" /\ p \in fits => s \in spoiled
  <2>1. SUFFICES ASSUME v = "pruned", p \in fits PROVE s \in spoiled OBVIOUS
  <2>2. PICK i \in Ooms(b) : NeedsMore(p, Mine(b)[i].p) BY <1>6, <2>1
  <2>3. i \in Points(s) /\ rows[s].points[i].status = "oom" /\ Mine(b)[i] = rows[s].points[i] BY <1>3, <2>2 DEF Ooms, Mine, Points
  <2>4. rows[s].points[i] \in PointRows BY <1>1, <1>4, <2>3, RowTyped DEF Sweeps, Points
  <2>5. PICK q \in Grid : q = rows[s].points[i].p BY <2>4 DEF PointRows
  <2>6. p.key = q.key /\ q.ngl <= p.ngl /\ q.moe >= p.moe BY <1>2, <2>2, <2>3, <2>5, PrescreenAssumption DEF NeedsMore
  <2>7. q \in fits BY <2>1, <2>5, <2>6 DEF IndInv, Monotone
  <2> QED BY <1>4, <2>3, <2>5, <2>7 DEF IndInv, VerdictSound
<1> DEFINE u == Point(p, "search", v)
           e == IF v = "running" THEN [mem[b] EXCEPT !.pc = "spawn", !.at = n] ELSE mem[b]
<1>8. u \in PointRows /\ u.p = p /\ u.status = v /\ u.pgid = "none" BY <1>2, <1>6 DEF PointRows, Point
<1>9. /\ e \in Memory /\ e.sweep = mem[b].sweep /\ e.todo = mem[b].todo /\ e.out = mem[b].out
      /\ (v = "running" => e.pc = "spawn" /\ e.at = n) /\ (v # "running" => e.pc = mem[b].pc)
  BY <1>1, <1>5 DEF Memory, TaskPcs
<1>10. mem' = [mem EXCEPT ![b] = e] BY <1>0, <1>1, <1>3
<1>11. rows' = [rows EXCEPT ![mem[b].sweep].points = Append(@, u)] BY <1>0, <1>3 DEF Adds
<1> HIDE DEF u, e
<1>12. UNCHANGED <<procs, fits, beside, spoiled, unsaved, failed, faults>> BY DEF Trial
<1>13. Opening(b, e, u) BY <1>1, <1>3, <1>5, <1>6, <1>7, <1>8, <1>9, <1>10, <1>11, <1>12 DEF Opening
<1> QED BY <1>8, <1>9, <1>13, OpenStep

\* A leader is measured again.
LEMMA RemeasuresStep == ASSUME IndInv, NEW b \in Backends, Remeasures(b) PROVE IndInv'
<1>0. PICK i \in mem[b].todo :
        /\ Adds(b, Point(Mine(b)[i].p, "remeasure", "running"))
        /\ mem' = [mem EXCEPT ![b].pc = "spawn", ![b].todo = @ \ {i}, ![b].at = Len(Mine(b)) + 1]
  BY DEF Remeasures
<1>1. mem[b] \in Memory /\ mem \in [Backends -> Memory] /\ rows \in Seq(SweepRows) /\ mem[b].pc = "again" BY DEF IndInv, TypeOK, Remeasures
<1>2. PICK s, p, n : s = mem[b].sweep /\ p = Mine(b)[i].p /\ n = Len(Mine(b)) + 1 OBVIOUS
<1>3. s \in Sweeps /\ i \in Points(s) BY <1>0, <1>1, <1>2 DEF IndInv, TaskInv, TaskPcs, Running
<1>4. Len(rows[s].points) \in Nat /\ n \in Nat /\ n = Len(rows[s].points) + 1 /\ p \in Grid
  <2>1. Len(rows[s].points) \in Nat /\ rows[s].points[i] \in PointRows BY <1>1, <1>3, RowTyped DEF Sweeps, Points
  <2>2. p = rows[s].points[i].p /\ n = Len(rows[s].points) + 1 BY <1>2 DEF Mine
  <2> QED BY <2>1, <2>2 DEF PointRows
<1> DEFINE u == Point(p, "remeasure", "running")
           e == [mem[b] EXCEPT !.pc = "spawn", !.todo = @ \ {i}, !.at = n]
<1>5. u \in PointRows /\ u.p = p /\ u.status = "running" /\ u.pgid = "none" BY <1>4 DEF PointRows, Point
<1>6. /\ e \in Memory /\ e.sweep = mem[b].sweep /\ e.todo \subseteq mem[b].todo /\ e.out = mem[b].out /\ e.pc = "spawn" /\ e.at = n
  BY <1>1, <1>4 DEF Memory, TaskPcs
<1>7. mem' = [mem EXCEPT ![b] = e] BY <1>0, <1>1, <1>2
<1>8. rows' = [rows EXCEPT ![mem[b].sweep].points = Append(@, u)] BY <1>0, <1>2 DEF Adds
<1> HIDE DEF u, e
<1>9. UNCHANGED <<procs, fits, beside, spoiled, unsaved, failed, faults>> BY DEF Remeasures
<1>10. Opening(b, e, u) BY <1>1, <1>2, <1>4, <1>5, <1>6, <1>7, <1>8, <1>9 DEF Opening
<1> QED BY <1>5, <1>6, <1>10, OpenStep

\* prepare() opens a sweep: the others may not have seen it.
LEMMA OpensSweepStep == ASSUME IndInv, NEW b \in Backends, OpensSweep(b) PROVE IndInv'
<1>0. PICK r, n : /\ rows' = Append(rows, r) /\ r \in SweepRows /\ r.status = "running" /\ r.owner = b /\ r.points = <<>>
                  /\ n = Len(rows) + 1
  <2>1. PICK sampler \in Samplers :
          rows' = Append(rows, [status |-> "running", owner |-> b, sampler |-> sampler, points |-> <<>>])
    BY DEF OpensSweep
  <2>2. [status |-> "running", owner |-> b, sampler |-> sampler, points |-> <<>>] \in SweepRows BY DEF SweepRows
  <2> QED BY <2>1, <2>2
<1>1. /\ mem \in [Backends -> Memory] /\ rows \in Seq(SweepRows) /\ mem[b].pc = "open" /\ mem[b].out = "none" /\ mem[b].todo = {}
      /\ \A c \in Backends : mem[c] \in Memory
  BY DEF IndInv, TypeOK, TaskInv, OpensSweep
<1>2. /\ rows' \in Seq(SweepRows) /\ Len(rows') = n /\ n \in Nat /\ rows'[n] = r /\ \A t \in Sweeps : rows'[t] = rows[t]
  BY <1>0, <1>1, AppendProperties DEF Sweeps
<1>3. /\ Sweeps' = Sweeps \cup {n} /\ n \notin Sweeps /\ Running' = Running \cup {n} /\ Running \subseteq Sweeps
  <2>1. Sweeps' = Sweeps \cup {n} /\ n \notin Sweeps BY <1>0, <1>1, <1>2 DEF Sweeps
  <2> HIDE DEF Sweeps
  <2> QED BY <1>0, <1>2, <2>1 DEF Running
<1>4. /\ procs' = procs /\ fits' = fits /\ spoiled' = spoiled /\ unsaved' = unsaved /\ failed' = failed /\ faults' = faults
      /\ beside' = beside \cup {{s, n} : s \in mem[b].since}
  BY <1>0 DEF OpensSweep
<1>5. /\ mem' \in [Backends -> Memory] /\ mem'[b].pc = "study" /\ mem'[b].sweep = n /\ mem'[b].out = "none" /\ mem'[b].todo = {}
      /\ \A c \in Backends : c # b =>
           /\ mem'[c].pc = mem[c].pc /\ mem'[c].sweep = mem[c].sweep /\ mem'[c].at = mem[c].at /\ mem'[c].todo = mem[c].todo
           /\ mem'[c].stale = mem[c].stale /\ mem'[c].out = mem[c].out /\ mem'[c].end = mem[c].end
           /\ mem'[c].since = mem[c].since \cup {n}
  <2>1. ASSUME NEW c \in Backends PROVE
          /\ [mem[c] EXCEPT !.since = @ \cup {n}] \in Memory /\ [mem[c] EXCEPT !.pc = "study", !.sweep = n] \in Memory
    <3>1. PICK w \in SUBSET Nat : w = mem[c].since \cup {n}
      <4>1. mem[c].since \in SUBSET Nat BY <1>1 DEF Memory
      <4> QED BY <1>2, <4>1
    <3>2. [mem[c] EXCEPT !.since = w] \in Memory BY <1>1, ZenonT(60) DEF Memory
    <3>3. [mem[c] EXCEPT !.pc = "study", !.sweep = n] \in Memory
      <4>1. mem[c] \in Memory /\ n \in Nat BY <1>1, <1>2
      <4> QED BY <4>1 DEF Memory
    <3> QED BY <3>1, <3>2, <3>3
  <2>2. mem' = [c \in Backends |-> IF c = b THEN [mem[b] EXCEPT !.pc = "study", !.sweep = n]
                                   ELSE [mem[c] EXCEPT !.since = @ \cup {n}]]
    BY <1>0 DEF OpensSweep
  <2>3. mem'[b] = [mem[b] EXCEPT !.pc = "study", !.sweep = n] /\ \A c \in Backends : c # b => mem'[c] = [mem[c] EXCEPT !.since = @ \cup {n}]
    BY <2>2
  <2>4. mem' \in [Backends -> Memory] BY <2>1, <2>2
  <2> QED BY <1>1, <2>3, <2>4 DEF Memory
<1>6. \A t \in Sweeps : Points(t)' = Points(t) BY <1>2 DEF Points
<1>7. Points(n)' = {} BY <1>0, <1>2 DEF Points
<1>8. \A x \in procs : Recorded(x)' = Recorded(x) BY <1>2 DEF IndInv, ProcInv, Recorded
<1>9. \A c \in Backends : mem[c].pc \in TaskPcs \cup {"study"} => mem[c].sweep \in Running /\ mem[c].sweep \in Sweeps
  BY <1>3 DEF IndInv, TaskInv
<1>10. \A c \in Backends : c # b => Row(c)' = Row(c) BY <1>5 DEF Row
<1>11. Placed BY TaskAt
<1>30. TypeOK'
  <2>1. beside' \subseteq SUBSET Nat
    <3>1. mem[b].since \subseteq Nat BY <1>1 DEF Memory
    <3>2. \A s \in mem[b].since : {s, n} \subseteq Nat BY <1>2, <3>1
    <3>3. beside \subseteq SUBSET Nat BY DEF IndInv, TypeOK
    <3>4. ASSUME NEW z \in beside' PROVE z \in SUBSET Nat
      <4>1. z \in beside \/ \E s \in mem[b].since : z = {s, n} BY <1>4, <3>4
      <4> QED BY <3>2, <3>3, <4>1
    <3> QED BY <3>4
  <2> QED BY <1>2, <1>4, <1>5, <2>1 DEF IndInv, TypeOK
<1>31. TaskInv'
  <2>1. ASSUME NEW c \in Backends, c # b, mem[c].pc \in TaskPcs \cup {"study"}
        PROVE  mem[c].sweep \in Running' /\ rows'[mem[c].sweep].owner = c /\ mem'[c].todo \subseteq Points(mem[c].sweep)'
    <3>1. mem[c].sweep \in Sweeps /\ mem[c].sweep \in Running /\ rows[mem[c].sweep].owner = c /\ mem[c].todo \subseteq Points(mem[c].sweep)
      BY <1>9, <2>1 DEF IndInv, TaskInv
    <3> QED BY <1>2, <1>3, <1>5, <1>6, <2>1, <3>1
  <2>2. ASSUME NEW c \in Backends, c # b, mem[c].pc \in Measuring \cup {"loaded", "loading", "checked"} PROVE mem'[c].at \in Points(mem[c].sweep)'
    <3>1. mem[c].pc \in TaskPcs BY <2>2 DEF TaskPcs, Measuring
    <3>2. mem[c].sweep \in Sweeps /\ mem[c].at \in Points(mem[c].sweep) BY <1>9, <2>2, <3>1 DEF IndInv, TaskInv
    <3> QED BY <1>5, <1>6, <2>2, <3>2
  <2>3. ASSUME NEW c \in Backends, c = b
        PROVE  /\ mem'[c].sweep \in Running' /\ rows'[mem'[c].sweep].owner = c /\ mem'[c].todo \subseteq Points(mem[c].sweep)'
               /\ mem'[c].pc \notin Measuring \cup {"loaded", "loading", "checked", "list", "reclaim", "open", "close"} /\ mem'[c].out = "none"
    BY <1>0, <1>2, <1>3, <1>5, <2>3 DEF Measuring
  <2> QED BY <1>5, <2>1, <2>2, <2>3 DEF IndInv, TaskInv, Measuring
<1>32. ProcInv'
  <2>1. \A x \in procs : x[1] \in Sweeps /\ x[2] \in Points(x[1]) BY DEF IndInv, ProcInv
  <2>2. \A x \in procs : Recorded(x) => x[1] \in Running /\ rows[x[1]].owner # b BY <1>1 DEF IndInv, ProcInv
  <2>3. ASSUME NEW x \in procs, Recorded(x), NEW c \in Backends, rows'[x[1]].owner = c
        PROVE  mem'[c].pc = (IF x[3] = "bench" THEN "wait" ELSE "loading") /\ x = Child(c, x[3])'
    <3>1. rows[x[1]].owner = c BY <1>2, <2>1, <2>3
    <3>2. mem[c].pc = (IF x[3] = "bench" THEN "wait" ELSE "loading") /\ x = Child(c, x[3]) BY <2>3, <3>1 DEF IndInv, ProcInv
    <3>3. c # b BY <2>2, <2>3, <3>1
    <3> QED BY <1>5, <3>2, <3>3 DEF Child
  <2> QED BY <1>3, <1>4, <1>6, <1>8, <2>1, <2>2, <2>3 DEF ProcInv
<1>33. OneInv' BY <1>4, <1>8 DEF IndInv, OneInv
<1>34. PairInv'
  <2>1. \A s \in Running : {s, n} \in beside'
    BY <1>1, <1>4 DEF IndInv, ListInv
  <2>2. \A s \in Running : {n, s} \in beside'
    <3>1. \A s : {s, n} = {n, s} OBVIOUS
    <3> QED BY <2>1, <3>1
  <2>3. \A s, t \in Running : s # t => {s, t} \in beside' BY <1>4 DEF IndInv, PairInv
  <2> QED BY <1>3, <2>1, <2>2, <2>3 DEF PairInv
<1>35. ListInv' BY <1>3, <1>5 DEF IndInv, ListInv
<1>36. ReclaimInv'
  <2>1. ASSUME NEW c \in Backends, c # b, mem'[c].pc = "reclaim", mem'[c].stale # {}, mem'[c].at # 0 PROVE ReclaimOf(c)'
    <3>1. Row(c)' = Row(c) /\ mem[c].pc = "reclaim" /\ mem[c].stale # {} /\ mem[c].at # 0 /\ mem'[c].at = mem[c].at BY <1>5, <1>10, <2>1
    <3>2. PICK s : s = Row(c) OBVIOUS
    <3>3. s \in Sweeps /\ rows'[s] = rows[s] /\ Points(s)' = Points(s) BY <1>2, <1>6, <3>1, <3>2, RowOf
    <3>4. /\ rows[s].owner \in {Nobody, c} /\ mem[c].at <= Len(rows[s].points) + 1
          /\ \A i \in Points(s) : i < mem[c].at =>
               /\ rows[s].points[i].status # "running"
               /\ \A x \in procs : x[1] = s /\ x[2] = i => ~Recorded(x)
      BY <3>1, <3>2 DEF IndInv, ReclaimInv, ReclaimOf
    <3> QED BY <1>4, <1>8, <3>1, <3>2, <3>3, <3>4 DEF ReclaimOf
  <2>2. ReclaimOf(b)' BY <1>5 DEF ReclaimOf
  <2>3. ASSUME NEW c \in Backends PROVE ReclaimOf(c)'
    <3>1. CASE ~(mem'[c].pc = "reclaim" /\ mem'[c].stale # {} /\ mem'[c].at # 0) BY <3>1 DEF ReclaimOf
    <3> QED BY <2>1, <2>2, <3>1
  <2> QED BY <2>3 DEF ReclaimInv
<1>37. PointInv'
  <2>1. SUFFICES ASSUME NEW t \in Sweeps', NEW i \in Points(t)', rows'[t].points[i].status = "running", <<t, i>> \notin unsaved
                 PROVE  /\ t \in Running'
                        /\ \A c \in Backends : rows'[t].owner = c => mem'[c].pc \in Measuring /\ mem'[c].sweep = t /\ mem'[c].at = i
    BY <1>4 DEF PointInv
  <2>2. t \in Sweeps /\ i \in Points(t) /\ rows[t].points[i].status = "running" BY <1>2, <1>3, <1>6, <1>7, <2>1
  <2>3. t \in Running /\ \A c \in Backends : rows[t].owner = c => mem[c].pc \in Measuring /\ mem[c].sweep = t /\ mem[c].at = i
    BY <2>1, <2>2 DEF IndInv, PointInv
  <2>4. mem[b].pc \notin Measuring BY <1>1 DEF Measuring
  <2> QED BY <1>2, <1>3, <1>5, <2>2, <2>3, <2>4
<1>38. OutInv'
  <2>1. ASSUME NEW c \in Backends, mem'[c].pc \in Measuring, mem'[c].out = "oom", rows'[mem'[c].sweep].points[mem'[c].at].p \in fits'
        PROVE  mem'[c].sweep \in spoiled'
    <3>1. c # b BY <1>5, <2>1
    <3>2. mem[c].pc \in Measuring /\ mem'[c].sweep = mem[c].sweep /\ mem'[c].at = mem[c].at /\ mem[c].out = "oom" BY <1>5, <2>1, <3>1
    <3>3. mem[c].sweep \in Sweeps BY <1>11, <3>2 DEF Placed
    <3> QED BY <1>2, <1>4, <2>1, <3>2, <3>3 DEF IndInv, OutInv
  <2> QED BY <2>1 DEF OutInv
<1>39. PgidInv'
  <2>1. PgidOf(b)' BY <1>5, <1>7 DEF PgidOf, Measuring
  <2>2. ASSUME NEW c \in Backends, c # b PROVE PgidOf(c)'
    <3>1. CASE mem[c].sweep \notin Sweeps BY <1>5, <1>11, <2>2, <3>1 DEF PgidOf, Placed, Measuring
    <3>2. CASE mem[c].sweep \in Sweeps
      <4>1. rows'[mem[c].sweep] = rows[mem[c].sweep] /\ PgidOf(c) BY <1>2, <2>2, <3>2 DEF IndInv, PgidInv
      <4>2. Points(mem[c].sweep)' = Points(mem[c].sweep) BY <1>5, <1>6, <2>2, <3>2
      <4> QED BY <1>5, <2>2, <4>1, <4>2 DEF PgidOf
    <3> QED BY <3>1, <3>2
  <2> QED BY <2>1, <2>2 DEF PgidInv
<1>40. VerdictSound' BY <1>2, <1>3, <1>4, <1>6, <1>7 DEF IndInv, VerdictSound
<1>41. Monotone(fits)' BY <1>4 DEF IndInv, Monotone
<1> QED BY <1>30, <1>31, <1>32, <1>33, <1>34, <1>35, <1>36, <1>37, <1>38, <1>39, <1>40, <1>41 DEF IndInv

\* CancelledError in the task.
LEMMA TaskCancelledStep == ASSUME IndInv, NEW b \in Backends, TaskCancelled(b) PROVE IndInv'
<1>0. PICK s, i : s = mem[b].sweep /\ i = mem[b].at OBVIOUS
<1> DEFINE e == [mem[b] EXCEPT !.pc = "close", !.end = "stopped"]
<1>1. mem[b] \in Memory /\ mem \in [Backends -> Memory] /\ rows \in Seq(SweepRows) /\ mem[b].pc \in TaskPcs
  BY DEF IndInv, TypeOK, TaskCancelled
<1>2. /\ e \in Memory /\ e.pc = "close" /\ e.end = "stopped" /\ e.sweep = mem[b].sweep /\ e.todo = mem[b].todo
  BY <1>1 DEF Memory, TaskPcs
<1>3. mem' = [mem EXCEPT ![b] = e] BY DEF TaskCancelled
<1> HIDE DEF e
<1>4. mem' \in [Backends -> Memory] /\ mem'[b] = e /\ \A c \in Backends : c # b => mem'[c] = mem[c] BY <1>1, <1>2, <1>3
<1>5. s \in Sweeps /\ s \in Running /\ rows[s].owner = b /\ Running \subseteq Sweeps
  BY <1>0, <1>1 DEF IndInv, TaskInv, Running
<1>6. /\ fits' = fits /\ spoiled' = spoiled /\ beside' = beside /\ faults' = faults /\ failed' = failed
      /\ unsaved \subseteq unsaved' /\ unsaved' \subseteq Nat \X Nat
  <2>1. <<mem[b].sweep, mem[b].at>> \in Nat \X Nat /\ unsaved \subseteq Nat \X Nat BY DEF Memory, IndInv, TypeOK
  <2> QED BY <2>1 DEF TaskCancelled, AtPoint
\* Where the point is on record as cancelled, its row is the only one changed.
<1>7. /\ rows' \in Seq(SweepRows) /\ Sweeps' = Sweeps /\ Running' = Running
      /\ \A t \in Sweeps : Points(t)' = Points(t) /\ rows'[t].owner = rows[t].owner /\ Kept(t)
      /\ \A t \in Sweeps : \A j \in Points(t) :
           /\ rows'[t].points[j].p = rows[t].points[j].p /\ rows'[t].points[j].pgid = rows[t].points[j].pgid
           /\ rows'[t].points[j].status = "cancelled" \/ rows'[t].points[j].status = rows[t].points[j].status
      /\ mem[b].pc \in Measuring => rows'[s].points[i].status # "running" \/ <<s, i>> \in unsaved'
  <2>1. CASE mem[b].pc \in {"spawn", "record", "wait"} /\ unsaved' = unsaved
             /\ rows' = [rows EXCEPT ![mem[b].sweep].points[mem[b].at].status = "cancelled"]
    <3>1. rows' = SetStatus(rows, s, i, "cancelled") BY <1>0, <2>1 DEF SetStatus
    <3>2. s \in 1..Len(rows) /\ i \in 1..Len(rows[s].points) BY <1>0, <1>5, <2>1 DEF IndInv, TaskInv, Measuring, Sweeps, Points
    <3>3. "cancelled" \in PointSt BY DEF PointSt
    <3>4. /\ Extends(rows', rows) /\ SamePoints(rows', rows) /\ StatusSet(rows', rows, s, i, "cancelled") /\ SamePgid(rows', rows)
      BY <1>1, <3>1, <3>2, <3>3, PutStatus
    <3>5. /\ rows' \in Seq(SweepRows) /\ Sweeps' = Sweeps /\ Running' = Running
          /\ \A t \in Sweeps : Points(t)' = Points(t) /\ rows'[t].owner = rows[t].owner /\ Len(rows'[t].points) = Len(rows[t].points)
      BY <1>1, <3>4 DEF Extends, SamePoints, Sweeps, Running, Points
    <3>6. \A t \in Sweeps : \A j \in Points(t) :
            /\ rows'[t].points[j].p = rows[t].points[j].p /\ rows'[t].points[j].pgid = rows[t].points[j].pgid
            /\ rows'[t].points[j].status = "cancelled" \/ rows'[t].points[j].status = rows[t].points[j].status
      BY <3>4 DEF SamePoints, StatusSet, SamePgid, Sweeps, Points
    <3>7. rows'[s].points[i].status = "cancelled" BY <3>2, <3>4 DEF StatusSet
    <3>8. \A t \in Sweeps : Kept(t) BY <3>5, <3>6 DEF Kept
    <3> QED BY <2>1, <3>5, <3>6, <3>7, <3>8
  <2>2. CASE mem[b].pc \notin {"record", "wait"} /\ rows' = rows
             /\ unsaved' = unsaved \cup IF mem[b].pc \in {"spawn", "save"} THEN {AtPoint(b)} ELSE {}
    <3>1. mem[b].pc \in Measuring => <<s, i>> \in unsaved' BY <1>0, <2>2 DEF Measuring, AtPoint
    <3>2. Sweeps' = Sweeps /\ Running' = Running /\ \A t \in Sweeps : Points(t)' = Points(t) /\ Kept(t)
      BY <2>2 DEF Sweeps, Running, Points, Kept
    <3> QED BY <1>1, <2>2, <3>1, <3>2
  <2> QED BY <2>1, <2>2 DEF TaskCancelled
<1>8. /\ procs' \subseteq procs /\ \A x \in procs : Recorded(x)' = Recorded(x)
      /\ \A x \in procs' : Recorded(x) => rows[x[1]].owner # b
  <2>1. \A x \in procs : Recorded(x)' = Recorded(x) BY <1>7 DEF IndInv, ProcInv, Recorded
  <2>2. procs' \subseteq procs BY DEF TaskCancelled, KillsChild
  <2>3. ASSUME NEW x \in procs', Recorded(x), rows[x[1]].owner = b PROVE FALSE
    <3>1. x \in procs /\ mem[b].pc = (IF x[3] = "bench" THEN "wait" ELSE "loading") /\ x = Child(b, x[3]) /\ x[3] \in {"bench", "check"}
      BY <2>2, <2>3 DEF IndInv, ProcInv, TypeOK
    <3>2. CASE x[3] = "bench" BY <2>3, <3>1, <3>2 DEF TaskCancelled, KillsChild
    <3>3. CASE x[3] = "check" BY <2>3, <3>1, <3>3 DEF TaskCancelled, KillsChild
    <3> QED BY <3>1, <3>2, <3>3
  <2> QED BY <2>1, <2>2, <2>3
<1>9. \A c \in Backends : mem[c].pc \in TaskPcs \cup {"study"} => mem[c].sweep \in Running /\ mem[c].sweep \in Sweeps
  BY <1>5 DEF IndInv, TaskInv
<1>30. TypeOK' BY <1>4, <1>6, <1>7, <1>8 DEF IndInv, TypeOK
<1>31. TaskInv'
  <2>1. ASSUME NEW c \in Backends, mem[c].pc \in TaskPcs \cup {"study"}
        PROVE  mem[c].sweep \in Running' /\ rows'[mem[c].sweep].owner = c /\ mem'[c].todo \subseteq Points(mem[c].sweep)'
    <3>1. mem[c].sweep \in Sweeps /\ mem[c].sweep \in Running /\ rows[mem[c].sweep].owner = c /\ mem[c].todo \subseteq Points(mem[c].sweep)
      BY <1>9, <2>1 DEF IndInv, TaskInv
    <3>2. mem'[c].todo = mem[c].todo /\ mem'[c].sweep = mem[c].sweep BY <1>2, <1>4
    <3> QED BY <1>7, <3>1, <3>2
  <2>2. ASSUME NEW c \in Backends, c # b, mem[c].pc \in Measuring \cup {"loaded", "loading", "checked"} PROVE mem'[c].at \in Points(mem[c].sweep)'
    <3>1. mem[c].pc \in TaskPcs BY <2>2 DEF TaskPcs, Measuring
    <3>2. mem[c].sweep \in Sweeps /\ mem[c].at \in Points(mem[c].sweep) BY <1>9, <2>2, <3>1 DEF IndInv, TaskInv
    <3> QED BY <1>4, <1>7, <2>2, <3>2
  <2>3. mem'[b].pc = "close" /\ mem'[b].end = "stopped" /\ mem'[b].sweep = mem[b].sweep BY <1>2, <1>4
  <2>4. "close" \notin Measuring BY DEF Measuring
  <2> QED BY <1>1, <1>4, <2>1, <2>2, <2>3, <2>4 DEF IndInv, TaskInv
<1>32. ProcInv'
  <2>1. \A x \in procs' : x[1] \in Sweeps /\ x[2] \in Points(x[1]) BY <1>8 DEF IndInv, ProcInv
  <2>2. \A x \in procs' : Recorded(x) => x[1] \in Running BY <1>8 DEF IndInv, ProcInv
  <2>3. ASSUME NEW x \in procs', Recorded(x), NEW c \in Backends, rows'[x[1]].owner = c
        PROVE  mem'[c].pc = (IF x[3] = "bench" THEN "wait" ELSE "loading") /\ x = Child(c, x[3])'
    <3>1. rows[x[1]].owner = c BY <1>7, <2>1, <2>3
    <3>2. mem[c].pc = (IF x[3] = "bench" THEN "wait" ELSE "loading") /\ x = Child(c, x[3]) BY <1>8, <2>3, <3>1 DEF IndInv, ProcInv
    <3>3. c # b BY <1>8, <2>3, <3>1
    <3> QED BY <1>4, <3>2, <3>3 DEF Child
  <2> QED BY <1>7, <1>8, <2>1, <2>2, <2>3 DEF ProcInv
<1>33. OneInv' BY <1>8 DEF IndInv, OneInv
<1>34. PairInv' BY <1>6, <1>7 DEF IndInv, PairInv
<1>35. ListInv' BY <1>2, <1>4, <1>7 DEF IndInv, ListInv
<1>36. ReclaimInv'
  <2>1. ASSUME NEW c \in Backends, c # b PROVE ReclaimOf(c)'
    <3>1. mem'[c] = mem[c] BY <1>4, <2>1
    <3>2. \A t \in Sweeps : t = Row(c) => Kept(t) BY <1>7
    <3>3. \A x \in procs' : Recorded(x)' /\ x[1] = Row(c) => x \in procs /\ Recorded(x) BY <1>8
    <3> QED BY <3>1, <3>2, <3>3, ReclaimKept
  <2>2. ReclaimOf(b)' BY <1>2, <1>4 DEF ReclaimOf
  <2> QED BY <2>1, <2>2 DEF ReclaimInv
<1>37. PointInv'
  <2>1. SUFFICES ASSUME NEW t \in Sweeps, NEW j \in Points(t), rows'[t].points[j].status = "running", <<t, j>> \notin unsaved'
                 PROVE  /\ t \in Running'
                        /\ \A c \in Backends : rows'[t].owner = c => mem'[c].pc \in Measuring /\ mem'[c].sweep = t /\ mem'[c].at = j
    BY <1>7 DEF PointInv
  <2>2. <<t, j>> \notin unsaved /\ rows[t].points[j].status = "running" BY <1>6, <1>7, <2>1
  <2>3. t \in Running /\ \A c \in Backends : rows[t].owner = c => mem[c].pc \in Measuring /\ mem[c].sweep = t /\ mem[c].at = j
    BY <2>2 DEF IndInv, PointInv
  <2>4. rows[t].owner # b BY <1>0, <1>7, <2>1, <2>3
  <2> QED BY <1>4, <1>7, <2>3, <2>4
<1>38. OutInv'
  <2>1. ASSUME NEW c \in Backends, mem'[c].pc \in Measuring, mem'[c].out = "oom", rows'[mem'[c].sweep].points[mem'[c].at].p \in fits'
        PROVE  mem'[c].sweep \in spoiled'
    <3>1. mem'[c] = mem[c] /\ mem[c].pc \in Measuring BY <1>2, <1>4, <2>1 DEF Measuring
    <3>2. mem[c].sweep \in Sweeps /\ mem[c].at \in Points(mem[c].sweep) BY <3>1, TaskAt DEF Placed
    <3> QED BY <1>6, <1>7, <2>1, <3>1, <3>2, SMTT(60) DEF IndInv, OutInv
  <2> QED BY <2>1 DEF OutInv
<1>39. PgidInv'
  <2>1. PgidOf(b)' BY <1>2, <1>4 DEF PgidOf, Measuring
  <2>2. ASSUME NEW c \in Backends, c # b PROVE PgidOf(c)' BY <1>4, <1>7, <2>2, PgidKept
  <2> QED BY <2>1, <2>2 DEF PgidInv
<1>40. VerdictSound' BY <1>6, <1>7 DEF IndInv, VerdictSound
<1>41. Monotone(fits)' BY <1>6 DEF IndInv, Monotone
<1> QED BY <1>30, <1>31, <1>32, <1>33, <1>34, <1>35, <1>36, <1>37, <1>38, <1>39, <1>40, <1>41 DEF IndInv

\* A process ends.
LEMMA ExitsStep == ASSUME IndInv, NEW x \in procs, Exits(x) PROVE IndInv'
<1>1. /\ rows' = rows /\ procs' = procs \ {x} /\ fits' = fits /\ beside' = beside /\ unsaved' = unsaved /\ failed' = failed /\ faults' = faults
      /\ Sweeps' = Sweeps /\ Running' = Running /\ \A t : Points(t)' = Points(t) /\ \A y : Recorded(y)' = Recorded(y)
  BY DEF Exits, Sweeps, Running, Points, Recorded
<1>2. /\ mem \in [Backends -> Memory] /\ mem' \in [Backends -> Memory] /\ spoiled \subseteq spoiled' /\ spoiled' \subseteq Nat
      /\ \A c \in Backends :
           /\ mem'[c].pc = mem[c].pc /\ mem'[c].stale = mem[c].stale /\ mem'[c].since = mem[c].since /\ mem'[c].sweep = mem[c].sweep
           /\ mem'[c].at = mem[c].at /\ mem'[c].todo = mem[c].todo /\ mem'[c].end = mem[c].end
           /\ \/ mem'[c].out = mem[c].out
              \/ /\ mem[c].pc \in {"record", "wait"} /\ mem[c].sweep = x[1] /\ mem[c].at = x[2]
                 /\ mem'[c].out = "oom" /\ rows[x[1]].points[x[2]].p \in fits => x[1] \in spoiled'
  <2>1. mem \in [Backends -> Memory] /\ spoiled \subseteq Nat /\ x[1] \in Nat BY DEF IndInv, TypeOK
  <2>2. CASE mem' = mem /\ spoiled' = spoiled BY <2>1, <2>2
  <2>3. CASE ~(mem' = mem /\ spoiled' = spoiled)
    <3>1. PICK b \in Backends, o \in Outcomes(x, rows[x[1]].points[x[2]].p) :
            /\ mem[b].pc \in {"record", "wait"} /\ x = Child(b, "bench") /\ mem' = [mem EXCEPT ![b].out = o]
            /\ spoiled' = IF o = "oom" /\ rows[x[1]].points[x[2]].p \in fits THEN spoiled \cup {x[1]} ELSE spoiled
      BY <2>3, Zenon DEF Exits
    <3>2. o \in {"ok", "oom", "error"} BY <3>1 DEF Outcomes
    <3> DEFINE e == [mem[b] EXCEPT !.out = o]
    <3>3. /\ e \in Memory /\ e.pc = mem[b].pc /\ e.stale = mem[b].stale /\ e.since = mem[b].since /\ e.sweep = mem[b].sweep
          /\ e.at = mem[b].at /\ e.todo = mem[b].todo /\ e.end = mem[b].end /\ e.out = o
      BY <2>1, <3>2 DEF Memory
    <3>4. mem' = [mem EXCEPT ![b] = e] BY <3>1
    <3> HIDE DEF e
    <3>5. mem' \in [Backends -> Memory] /\ mem'[b] = e /\ \A c \in Backends : c # b => mem'[c] = mem[c] BY <2>1, <3>3, <3>4
    <3>6. mem[b].sweep = x[1] /\ mem[b].at = x[2] BY <3>1 DEF Child
    <3> QED BY <2>1, <3>1, <3>3, <3>5, <3>6
  <2> QED BY <2>2, <2>3
<1>30. TypeOK' BY <1>1, <1>2 DEF IndInv, TypeOK
<1>31. TaskInv' BY <1>1, <1>2 DEF IndInv, TaskInv
<1>32. ProcInv' BY <1>1, <1>2 DEF IndInv, ProcInv, Child
<1>33. OneInv' BY <1>1 DEF IndInv, OneInv
<1>34. PairInv' BY <1>1 DEF IndInv, PairInv
<1>35. ListInv' BY <1>1, <1>2 DEF IndInv, ListInv
<1>36. ReclaimInv'
  <2>1. \A c \in Backends : Row(c)' = Row(c) BY <1>2 DEF Row
  <2> QED BY <1>1, <1>2, <2>1 DEF IndInv, ReclaimInv, ReclaimOf
<1>37. PointInv' BY <1>1, <1>2 DEF IndInv, PointInv
<1>38. OutInv' BY <1>1, <1>2, ZenonT(60) DEF IndInv, OutInv, Measuring
<1>39. PgidInv'
  <2>1. ASSUME NEW c \in Backends PROVE PgidOf(c)' BY <1>1, <1>2, SMTT(60) DEF IndInv, PgidInv, PgidOf, Points
  <2> QED BY <2>1 DEF PgidInv
<1>40. VerdictSound' BY <1>1, <1>2 DEF IndInv, VerdictSound
<1>41. Monotone(fits)' BY <1>1 DEF IndInv, Monotone
<1> QED BY <1>30, <1>31, <1>32, <1>33, <1>34, <1>35, <1>36, <1>37, <1>38, <1>39, <1>40, <1>41 DEF IndInv

-----------------------------------------------------------------------------
(* The theorems *)

\* Before the first backend starts there is no sweep and no process.
LEMMA InitInv == Init => IndInv
<1> SUFFICES ASSUME Init PROVE IndInv OBVIOUS
<1>1. [Idle EXCEPT !.pc = "down"] \in Memory BY DEF Memory, Idle
<1>2. \A b \in Backends : /\ mem[b].pc = "down" /\ mem[b].out = "none" BY DEF Init, Idle
<1>3. rows \in Seq(SweepRows) /\ rows = <<>> /\ Sweeps = {} /\ Running = {} /\ procs = {} BY DEF Init, Sweeps, Running
<1>4. TypeOK /\ Monotone(fits)
  <2>1. mem \in [Backends -> Memory] BY <1>1 DEF Init
  <2>2. fits \in SUBSET Grid /\ Monotone(fits) BY Zenon DEF Init
  <2>3. faults \in 0..MaxFaults BY PrescreenAssumption DEF Init
  <2>4. spoiled = {} /\ beside = {} /\ unsaved = {} /\ failed \in BOOLEAN BY DEF Init
  <2> QED BY <1>3, <2>1, <2>2, <2>3, <2>4 DEF TypeOK
<1>5. TaskInv BY <1>2 DEF TaskInv, TaskPcs, Measuring
<1>6. ProcInv /\ OneInv BY <1>3 DEF ProcInv, OneInv
<1>7. PairInv /\ PointInv /\ VerdictSound BY <1>3 DEF PairInv, PointInv, VerdictSound
<1>8. ListInv /\ ReclaimInv BY <1>2 DEF ListInv, ReclaimInv, ReclaimOf
<1>9. PgidInv /\ OutInv BY <1>2 DEF PgidInv, PgidOf, OutInv, Measuring
<1> QED BY <1>4, <1>5, <1>6, <1>7, <1>8, <1>9 DEF IndInv

\* A step that changes nothing keeps the invariant.
LEMMA StutterInv == IndInv /\ UNCHANGED vars => IndInv'
<1> SUFFICES ASSUME IndInv, UNCHANGED vars PROVE IndInv' OBVIOUS
<1>1. /\ rows' = rows /\ mem' = mem /\ procs' = procs /\ fits' = fits /\ beside' = beside /\ spoiled' = spoiled
      /\ unsaved' = unsaved /\ failed' = failed /\ faults' = faults
  BY DEF vars
<1>2. Sweeps' = Sweeps /\ Running' = Running /\ \A t : Points(t)' = Points(t) /\ \A y : Recorded(y)' = Recorded(y)
  BY <1>1 DEF Sweeps, Running, Points, Recorded
<1>3. \A c : Row(c)' = Row(c) BY <1>1 DEF Row
<1>4. TypeOK' /\ Monotone(fits)' BY <1>1 DEF IndInv, TypeOK, Monotone
<1>5. TaskInv' BY <1>1, <1>2 DEF IndInv, TaskInv
<1>6. ProcInv' /\ OneInv' BY <1>1, <1>2 DEF IndInv, ProcInv, OneInv, Child
<1>7. PairInv' /\ PointInv' /\ VerdictSound' BY <1>1, <1>2 DEF IndInv, PairInv, PointInv, VerdictSound
<1>8. ListInv' /\ ReclaimInv' BY <1>1, <1>2, <1>3 DEF IndInv, ListInv, ReclaimInv, ReclaimOf
<1>9. PgidInv' /\ OutInv' BY <1>1 DEF IndInv, PgidInv, PgidOf, OutInv, Points
<1> QED BY <1>4, <1>5, <1>6, <1>7, <1>8, <1>9 DEF IndInv

\* Every step of every backend, and every end of a process, keeps it.
LEMMA NextInv == IndInv /\ [Next]_vars => IndInv'
<1>1. ASSUME IndInv, NEW b \in Backends, Boot(b) \/ StartPrescreen(b) \/ CancelPrescreen(b) \/ TaskCancelled(b) \/ CallFails(b) \/ Crash(b)
      PROVE IndInv'
  BY <1>1, BootStep, StartPrescreenStep, CancelPrescreenStep, TaskCancelledStep, CallFailsStep, CrashStep
<1>2. ASSUME IndInv, NEW b \in Backends, Steps(b) PROVE IndInv'
  <2>1. CASE Lists(b) \/ Judges(b) \/ ReclaimsPoint(b) \/ ReclaimsRow(b) \/ Reclaimed(b)
    BY <1>2, <2>1, ListsStep, JudgesStep, ReclaimsPointStep, ReclaimsRowStep, ReclaimedStep
  <2>2. CASE OpensSweep(b) \/ CreatesStudy(b) \/ Trial(b) \/ Leaves(b) \/ Ranks(b) \/ Remeasures(b)
    BY <1>2, <2>2, OpensSweepStep, CreatesStudyStep, TrialStep, LeavesStep, RanksStep, RemeasuresStep
  <2>3. CASE SpawnsBench(b) \/ RecordsGroup(b) \/ Waits(b) \/ SavesPoint(b)
    BY <1>2, <2>3, SpawnsBenchStep, RecordsGroupStep, WaitsStep, SavesPointStep
  <2>4. CASE LoadCheck(b) \/ RecordsServer(b) \/ StopsServer(b) \/ SavesCheck(b) \/ Closes(b)
    BY <1>2, <2>4, LoadCheckStep, RecordsServerStep, StopsServerStep, SavesCheckStep, ClosesStep
  <2> QED BY <1>2, <2>1, <2>2, <2>3, <2>4 DEF Steps
<1>3. ASSUME IndInv, NEW x \in procs, Exits(x) PROVE IndInv' BY <1>3, ExitsStep
<1> QED BY <1>1, <1>2, <1>3, StutterInv DEF Next

\* Every reachable state satisfies the inductive invariant, for any number of
\* backends, any grid and any number of sweeps and faults.
THEOREM Invariance == Spec => []IndInv
BY InitInv, NextInv, PTL DEF Spec

\* What the rows and the backends hold is of its type, whatever fails and
\* whoever dies.
THEOREM TypeCorrect == Spec => []TypeOK
<1>1. IndInv => TypeOK BY DEF IndInv
<1> QED BY <1>1, Invariance, PTL

\* Two processes on record are on the card together only if their sweeps were
\* opened beside each other: kill_orphan and reclaim_stale leave no others.
THEOREM CardIsShared == Spec => []CardShared
<1>1. IndInv => CardShared
  <2> SUFFICES ASSUME IndInv, NEW x \in procs, NEW y \in procs, x # y, Recorded(x), Recorded(y)
               PROVE  {x[1], y[1]} \in beside
    BY DEF CardShared
  <2>1. x[1] \in Running /\ y[1] \in Running BY DEF IndInv, ProcInv
  <2>2. x[1] # y[1] BY DEF IndInv, OneInv
  <2> QED BY <2>1, <2>2 DEF IndInv, PairInv
<1> QED BY <1>1, Invariance, PTL

\* Pruning and the classification of a run never take the memory for too small
\* where it is not, but beside a process that should not have been there.
THEOREM VerdictsSound == Spec => []VerdictSound
<1>1. IndInv => VerdictSound BY DEF IndInv
<1> QED BY <1>1, Invariance, PTL

\* No sweep that was closed has a point that is still running, unless an error
\* ended its measuring, or a cancellation came while its row was opened or closed.
THEOREM PointsAreEnded == Spec => []PointsEnd
<1>1. IndInv => PointsEnd BY DEF IndInv, PointInv, PointsEnd, Running
<1> QED BY <1>1, Invariance, PTL

-----------------------------------------------------------------------------
(* Sweeps that are done *)

\* A sweep's rows, by phase and outcome.
SearchIn(P)  == {i \in 1..Len(P) : P[i].phase = "search"}
OksIn(P)     == {i \in SearchIn(P) : P[i].status = "ok"}
CheckedIn(P) == {i \in 1..Len(P) : P[i].ctx_check}
AtMost(n, S) == IF n < Cardinality(S) THEN n ELSE Cardinality(S)

\* The search is made, and what a sweep of n trials needs is there.
Finished(P, n) ==
  /\ Cardinality(SearchIn(P)) = n
  /\ \A i \in 1..Len(P) : P[i].status \notin {"running", "cancelled"}
  /\ Cardinality((1..Len(P)) \ SearchIn(P)) = AtMost(REMEASURE, OksIn(P))
  /\ Cardinality(CheckedIn(P)) >= AtMost(CtxChecks, OksIn(P))

\* The trials come first, and while they are made there is nothing else.
InSearch(P, n) == SearchIn(P) = 1..Len(P) /\ Len(P) <= n

\* The leaders left to measure and those measured are as many as were asked for.
InAgain(P, n, todo) ==
  SearchIn(P) = 1..n /\ n <= Len(P) /\ Cardinality(todo) + Len(P) = n + AtMost(REMEASURE, OksIn(P))

\* All were measured again; as many leaders as were asked for have been
\* load-checked or are in `left`.
InCheck(P, n) == SearchIn(P) = 1..n /\ Len(P) = n + AtMost(REMEASURE, OksIn(P))
ToCheck(P, left) == \E T \in SUBSET OksIn(P) :
  Cardinality(T) = AtMost(CtxChecks, OksIn(P)) /\ T \subseteq left \cup CheckedIn(P)

\* How far a task m is with rows P of n trials; a point without its outcome
\* is being measured, and one cut short shows in the cancel event.
Progress(P, n, m) ==
  /\ m.pc = "study" => P = <<>>
  /\ m.pc = "search" => InSearch(P, n)
  /\ m.pc \in Measuring => IF P[m.at].phase = "search" THEN InSearch(P, n) ELSE InAgain(P, n, m.todo)
  /\ m.pc = "rank" => InSearch(P, n) /\ Len(P) = n
  /\ m.pc = "again" => InAgain(P, n, m.todo)
  /\ m.pc \in {"rank2", "check", "loaded", "loading", "checked"} => InCheck(P, n)
  /\ m.pc = "check" => ToCheck(P, m.todo)
  /\ m.pc \in {"loaded", "loading", "checked"} => ToCheck(P, m.todo \cup {m.at})
  /\ m.pc = "close" /\ m.end = "done" => Finished(P, n)
  /\ m.pc # "close" =>
       /\ \A i \in 1..Len(P) : /\ P[i].status = "cancelled" => m.cancel
                               /\ P[i].status = "running" => m.pc \in Measuring /\ m.at = i
       /\ m.out = "cancelled" => m.cancel

\* A task is where its rows say, and a row that is done is complete.
AtWork(m)    == m.pc \in TaskPcs \cup {"study"}
ProgressOf(b) == AtWork(mem[b]) => Progress(rows[mem[b].sweep].points, Budget(mem[b].sweep), mem[b])
DoneInv ==
  /\ \A s \in Sweeps : rows[s].status = "done" => Finished(rows[s].points, Budget(s))
  /\ \A b \in Backends : ProgressOf(b)

\* The two tasks are in the same state, and the two rows have the same points.
SameTask(n, m) ==
  n.pc = m.pc /\ n.sweep = m.sweep /\ n.at = m.at /\ n.todo = m.todo /\ n.out = m.out /\ n.end = m.end /\ n.cancel = m.cancel
SameRow(q, r) == q.points = r.points /\ q.sampler = r.sampler

\* A sweep of a finite grid has a number of trials.
LEMMA BudgetTyped == Cardinality(Plan) \in Nat /\ \A s : Budget(s) \in Nat
<1>1. IsFiniteSet(Plan) BY PrescreenAssumption, FS_Subset DEF Plan
<1>2. Cardinality(Plan) \in Nat BY <1>1, FS_CardinalityType
<1> QED BY <1>2, PrescreenAssumption DEF Budget

\* The sets of points are finite.
LEMMA PointSets ==
  ASSUME NEW P \in Seq(PointRows)
  PROVE  /\ Len(P) \in Nat /\ IsFiniteSet(1..Len(P)) /\ Cardinality(1..Len(P)) = Len(P)
         /\ \A T \in SUBSET (1..Len(P)) : IsFiniteSet(T) /\ Cardinality(T) \in Nat
         /\ SearchIn(P) \subseteq 1..Len(P) /\ OksIn(P) \subseteq SearchIn(P) /\ CheckedIn(P) \subseteq 1..Len(P)
         /\ \A n \in Nat : AtMost(n, OksIn(P)) \in Nat
<1>1. Len(P) \in Nat OBVIOUS
<1>2. IsFiniteSet(1..Len(P)) /\ Cardinality(1..Len(P)) = Len(P)
  <2>1. /\ IsFiniteSet(1..Len(P))
        /\ Cardinality(1..Len(P)) = IF 1 > Len(P) THEN 0 ELSE Len(P) - 1 + 1
    <3>1. 1 \in Int /\ Len(P) \in Int BY <1>1
    <3> QED BY <3>1, FS_Interval, Zenon
  <2> QED BY <1>1, <2>1
<1>3. \A T \in SUBSET (1..Len(P)) : IsFiniteSet(T) /\ Cardinality(T) \in Nat BY <1>2, FS_Subset, FS_CardinalityType
<1>4. SearchIn(P) \subseteq 1..Len(P) /\ OksIn(P) \subseteq SearchIn(P) /\ CheckedIn(P) \subseteq 1..Len(P)
  BY DEF SearchIn, OksIn, CheckedIn
<1>5. \A n \in Nat : AtMost(n, OksIn(P)) \in Nat BY <1>3, <1>4 DEF AtMost
<1> QED BY <1>1, <1>2, <1>3, <1>4, <1>5

\* A step of backend b that leaves the rows of the sweeps at work elsewhere,
\* and of those that are done, as they were.
LEMMA DoneStep ==
  ASSUME IndInv, DoneInv, NEW b \in Backends,
         \A c \in Backends : c # b => SameTask(mem'[c], mem[c]),
         \A c \in Backends : c # b /\ AtWork(mem[c]) => SameRow(rows'[mem[c].sweep], rows[mem[c].sweep]),
         \A t \in Sweeps' : rows'[t].status = "done" =>
           Finished(rows'[t].points, Budget(t)') \/ (t \in Sweeps /\ rows[t].status = "done" /\ SameRow(rows'[t], rows[t])),
         ProgressOf(b)'
  PROVE  DoneInv'
<1>1. \A t : SameRow(rows'[t], rows[t]) => rows'[t].points = rows[t].points /\ Budget(t)' = Budget(t) BY DEF SameRow, Budget
<1>2. ASSUME NEW t \in Sweeps', rows'[t].status = "done" PROVE Finished(rows'[t].points, Budget(t)')
  BY <1>1, <1>2 DEF DoneInv
<1>3. ASSUME NEW c \in Backends, c # b PROVE ProgressOf(c)'
  <2>0. PICK s : s = mem[c].sweep OBVIOUS
  <2> SUFFICES ASSUME AtWork(mem'[c]), mem'[c].sweep = s PROVE Progress(rows'[s].points, Budget(s)', mem'[c])
    BY <1>3, <2>0 DEF ProgressOf, SameTask, Budget
  <2>1. SameTask(mem'[c], mem[c]) BY <1>3
  <2>2. AtWork(mem[c]) BY <2>1 DEF SameTask, AtWork
  <2>3. Progress(rows[s].points, Budget(s), mem[c]) BY <2>0, <2>2 DEF DoneInv, ProgressOf
  <2>4. rows'[s].points = rows[s].points /\ Budget(s)' = Budget(s) BY <1>1, <1>3, <2>0, <2>2
  <2>5. Progress(rows[s].points, Budget(s), mem'[c])
    <3>1. PICK m, w, P, n : m = mem[c] /\ w = mem'[c] /\ P = rows[s].points /\ n = Budget(s) OBVIOUS
    <3>2. /\ w.pc = m.pc /\ w.at = m.at /\ w.todo = m.todo /\ w.out = m.out /\ w.end = m.end /\ w.cancel = m.cancel
          /\ Progress(P, n, m)
      BY <2>1, <2>3, <3>1 DEF SameTask
    <3>3. Progress(P, n, w) BY <3>2 DEF Progress
    <3> QED BY <3>1, <3>3
  <2> QED BY <2>4, <2>5
<1> QED BY <1>2, <1>3 DEF DoneInv

\* A backend without a task takes a step.
LEMMA NoTaskStep ==
  ASSUME IndInv, DoneInv, NEW b \in Backends, NEW e, mem' = [mem EXCEPT ![b] = e], ~AtWork(e), rows' = rows
  PROVE  DoneInv'
<1>1. mem \in [Backends -> Memory] BY DEF IndInv, TypeOK
<1>2. mem'[b] = e /\ \A c \in Backends : c # b => mem'[c] = mem[c] BY <1>1
<1>3. Sweeps' = Sweeps BY DEF Sweeps
<1>4. \A c \in Backends : c # b => SameTask(mem'[c], mem[c]) BY <1>2 DEF SameTask
<1>5. \A t : SameRow(rows'[t], rows[t]) BY DEF SameRow
<1>6. ProgressOf(b)' BY <1>2 DEF ProgressOf
<1> QED BY <1>3, <1>4, <1>5, <1>6, DoneStep

\* The task of a backend takes a step, and may rewrite its own points.
LEMMA WorkStep ==
  ASSUME IndInv, DoneInv, NEW b \in Backends, AtWork(mem[b]), NEW s, s = mem[b].sweep, NEW P,
         rows' = [rows EXCEPT ![s] = [rows[s] EXCEPT !.points = P]],
         NEW e, mem' = [mem EXCEPT ![b] = e], e.sweep = s, AtWork(e) => Progress(P, Budget(s), e)
  PROVE  DoneInv'
<1>1. mem \in [Backends -> Memory] /\ rows \in Seq(SweepRows) BY DEF IndInv, TypeOK
<1>2. mem'[b] = e /\ \A c \in Backends : c # b => mem'[c] = mem[c] BY <1>1
<1>3. s \in Sweeps /\ rows[s].status = "running" /\ rows[s].owner = b BY DEF IndInv, TaskInv, AtWork, Running
<1>4. s \in 1..Len(rows) /\ rows[s] \in SweepRows BY <1>1, <1>3, RowTyped DEF Sweeps
<1>5. PICK z : z = [rows[s] EXCEPT !.points = P] OBVIOUS
<1>6. z.points = P /\ z.sampler = rows[s].sampler /\ z.status = "running" BY <1>3, <1>4, <1>5 DEF SweepRows
<1>7. DOMAIN rows = 1..Len(rows) /\ Len(rows) \in Nat BY <1>1
<1>8. rows' = [rows EXCEPT ![s] = z] BY <1>5
<1>9. DOMAIN rows' = 1..Len(rows) /\ rows'[s] = z /\ \A t \in 1..Len(rows) : t # s => rows'[t] = rows[t] BY <1>4, <1>7, <1>8
<1>10. Sweeps' = Sweeps
  <2>1. Len(rows') = Len(rows) BY <1>7, <1>9, LenProperties
  <2> QED BY <2>1 DEF Sweeps
<1>11. \A c \in Backends : c # b => SameTask(mem'[c], mem[c]) BY <1>2 DEF SameTask
<1>12. ASSUME NEW c \in Backends, c # b, AtWork(mem[c]) PROVE SameRow(rows'[mem[c].sweep], rows[mem[c].sweep])
  <2>1. mem[c].sweep \in Sweeps /\ rows[mem[c].sweep].owner = c BY <1>12 DEF IndInv, TaskInv, AtWork, Running
  <2>2. mem[c].sweep # s BY <1>3, <1>12, <2>1
  <2> QED BY <1>9, <2>1, <2>2 DEF SameRow, Sweeps
<1>13. ASSUME NEW t \in Sweeps', rows'[t].status = "done" PROVE t \in Sweeps /\ rows[t].status = "done" /\ SameRow(rows'[t], rows[t])
  BY <1>6, <1>9, <1>10, <1>13 DEF SameRow, Sweeps
<1>14. ProgressOf(b)'
  <2>1. Budget(s)' = Budget(s) BY <1>6, <1>9 DEF Budget
  <2> QED BY <1>2, <1>6, <1>9, <2>1 DEF ProgressOf
<1> QED BY <1>11, <1>12, <1>13, <1>14, DoneStep

\* The task of a backend takes a step that leaves the rows alone.
LEMMA TaskStep ==
  ASSUME IndInv, DoneInv, NEW b \in Backends, AtWork(mem[b]), rows' = rows,
         NEW e, mem' = [mem EXCEPT ![b] = e], e.sweep = mem[b].sweep,
         AtWork(e) => Progress(rows[mem[b].sweep].points, Budget(mem[b].sweep), e)
  PROVE  DoneInv'
<1>1. rows \in Seq(SweepRows) BY DEF IndInv, TypeOK
<1>2. PICK s, P : s = mem[b].sweep /\ P = rows[s].points OBVIOUS
<1>3. s \in 1..Len(rows) BY <1>2 DEF IndInv, TaskInv, AtWork, Running, Sweeps
<1>4. rows[s] \in SweepRows BY <1>1, <1>3, RowTyped
<1>5. rows[s] = [rows[s] EXCEPT !.points = P] BY <1>2, <1>4 DEF SweepRows
<1>6. PICK z : z = [rows[s] EXCEPT !.points = P] OBVIOUS
<1>7. rows = [rows EXCEPT ![s] = z] BY <1>1, <1>3, <1>5, <1>6
<1>8. rows' = [rows EXCEPT ![s] = [rows[s] EXCEPT !.points = P]] BY <1>6, <1>7
<1> QED BY <1>2, <1>8, WorkStep

\* What is known of a task and its points.
LEMMA Working ==
  ASSUME IndInv, DoneInv, NEW b \in Backends, AtWork(mem[b])
  PROVE  /\ mem[b].sweep \in 1..Len(rows) /\ rows[mem[b].sweep].points \in Seq(PointRows)
         /\ Progress(rows[mem[b].sweep].points, Budget(mem[b].sweep), mem[b])
         /\ mem[b].todo \subseteq 1..Len(rows[mem[b].sweep].points) /\ mem[b] \in Memory /\ mem \in [Backends -> Memory]
         /\ mem[b].pc \in Measuring \cup {"loaded", "loading", "checked"} => mem[b].at \in 1..Len(rows[mem[b].sweep].points)
<1>1. mem[b].sweep \in 1..Len(rows) BY DEF IndInv, TaskInv, AtWork, Running, Sweeps
<1>2. rows \in Seq(SweepRows) /\ mem[b] \in Memory /\ mem \in [Backends -> Memory] BY DEF IndInv, TypeOK
<1>3. rows[mem[b].sweep].points \in Seq(PointRows) BY <1>1, <1>2, RowTyped
<1>4. Progress(rows[mem[b].sweep].points, Budget(mem[b].sweep), mem[b]) BY DEF DoneInv, ProgressOf
<1>5. mem[b].todo \subseteq 1..Len(rows[mem[b].sweep].points) BY DEF IndInv, TaskInv, AtWork, Points
<1>6. mem[b].pc \in Measuring \cup {"loaded", "loading", "checked"} => mem[b].at \in 1..Len(rows[mem[b].sweep].points)
  BY DEF IndInv, TaskInv, Points
<1> QED BY <1>1, <1>2, <1>3, <1>4, <1>5, <1>6

\* What the model's sets of points are in terms of a sweep's points.
LEMMA SetsOf == \A s : Search(s) = SearchIn(rows[s].points) /\ Oks(s) = OksIn(rows[s].points) /\ Points(s) = 1..Len(rows[s].points)
BY DEF Search, Oks, Points, SearchIn, OksIn

\* A sweep whose last loop has nothing left is finished.
LEMMA FinishedAtEnd ==
  ASSUME NEW P \in Seq(PointRows), NEW n \in Nat, InCheck(P, n), ToCheck(P, {}),
         \A i \in 1..Len(P) : P[i].status \notin {"running", "cancelled"}
  PROVE  Finished(P, n)
<1>1. SearchIn(P) = 1..n /\ Len(P) = n + AtMost(REMEASURE, OksIn(P)) BY DEF InCheck
<1>2. AtMost(REMEASURE, OksIn(P)) \in Nat /\ CheckedIn(P) \subseteq 1..Len(P) BY PointSets, PrescreenAssumption
<1>3. Cardinality(SearchIn(P)) = n
  <2>1. Cardinality(1..n) = n BY FS_Interval
  <2> QED BY <1>1, <2>1
<1>4. Cardinality((1..Len(P)) \ SearchIn(P)) = AtMost(REMEASURE, OksIn(P))
  <2>1. Len(P) \in Nat /\ n <= Len(P) BY <1>1, <1>2
  <2>2. (1..Len(P)) \ (1..n) = (n + 1)..Len(P) BY <2>1
  <2>3. Cardinality((n + 1)..Len(P)) = Len(P) - n
    <3>1. n + 1 \in Int /\ Len(P) \in Int BY <2>1
    <3>2. Cardinality((n + 1)..Len(P)) = IF n + 1 > Len(P) THEN 0 ELSE Len(P) - (n + 1) + 1 BY <3>1, FS_Interval
    <3> QED BY <2>1, <3>2
  <2>4. Len(P) - n = AtMost(REMEASURE, OksIn(P)) BY <1>1, <1>2, <2>1
  <2> QED BY <1>1, <2>2, <2>3, <2>4
<1>5. Cardinality(CheckedIn(P)) >= AtMost(CtxChecks, OksIn(P))
  <2>1. PICK T \in SUBSET OksIn(P) : Cardinality(T) = AtMost(CtxChecks, OksIn(P)) /\ T \subseteq {} \cup CheckedIn(P) BY DEF ToCheck
  <2>2. IsFiniteSet(CheckedIn(P)) /\ Cardinality(CheckedIn(P)) \in Nat BY <1>2, PointSets
  <2>3. Cardinality(T) <= Cardinality(CheckedIn(P)) BY <2>1, <2>2, FS_Subset
  <2>4. AtMost(CtxChecks, OksIn(P)) \in Nat BY PointSets, PrescreenAssumption
  <2> QED BY <2>1, <2>2, <2>3, <2>4
<1> QED BY <1>3, <1>4, <1>5 DEF Finished

\* Backends without a task.
LEMMA NoTaskDone ==
  ASSUME IndInv, DoneInv, NEW b \in Backends, Boot(b) \/ StartPrescreen(b) \/ Lists(b) \/ Judges(b) \/ Reclaimed(b)
  PROVE  DoneInv'
<1>1. mem \in [Backends -> Memory] /\ mem[b] \in Memory BY DEF IndInv, TypeOK
<1>2. Idle.pc = "idle" BY DEF Idle
<1>3. \A p \in {"down", "idle", "list", "reclaim", "open"} : p \notin TaskPcs \cup {"study"} BY DEF TaskPcs
<1>4. CASE Boot(b)
  <2>1. [Idle EXCEPT !.pc = "list", !.boot = TRUE].pc = "list" BY DEF Idle
  <2> QED BY <1>3, <1>4, <2>1, NoTaskStep DEF Boot, AtWork
<1>5. CASE StartPrescreen(b)
  <2>1. [Idle EXCEPT !.pc = "list"].pc = "list" BY DEF Idle
  <2> QED BY <1>3, <1>5, <2>1, NoTaskStep DEF StartPrescreen, AtWork
<1>6. CASE Lists(b)
  <2>1. PICK e : e = [mem[b] EXCEPT !.pc = "reclaim", !.since = {}, !.stale = {s \in Sweeps : rows[s].status = "running"}] OBVIOUS
  <2>2. mem' = [mem EXCEPT ![b] = e] /\ e.pc = "reclaim" /\ rows' = rows BY <1>1, <1>6, <2>1 DEF Lists, Memory
  <2> QED BY <1>3, <2>2, NoTaskStep DEF AtWork
<1>7. CASE Judges(b)
  <2>1. PICK e : e = IF LiveElsewhere(b, Row(b)) THEN Idle ELSE [mem[b] EXCEPT !.at = 1] OBVIOUS
  <2>2. mem' = [mem EXCEPT ![b] = e] /\ rows' = rows BY <1>1, <1>7, <2>1 DEF Judges
  <2>3. e.pc \in {"idle", "reclaim"} BY <1>1, <1>2, <1>7, <2>1 DEF Judges, Memory
  <2> QED BY <1>3, <2>2, <2>3, NoTaskStep DEF AtWork
<1>8. CASE Reclaimed(b)
  <2>1. PICK p : p = IF mem[b].boot THEN "idle" ELSE "open" OBVIOUS
  <2>2. PICK e : e = [mem[b] EXCEPT !.pc = p] OBVIOUS
  <2>3. mem' = [mem EXCEPT ![b] = e] /\ rows' = rows BY <1>1, <1>8, <2>1, <2>2 DEF Reclaimed, Goes
  <2>4. e.pc \in {"idle", "open"} BY <1>1, <2>1, <2>2 DEF Memory
  <2> QED BY <1>3, <2>3, <2>4, NoTaskStep DEF AtWork
<1> QED BY <1>4, <1>5, <1>6, <1>7, <1>8

\* The fields of a task's memory that a step does not set.
Like(e, m) == e.sweep = m.sweep /\ e.at = m.at /\ e.todo = m.todo /\ e.out = m.out /\ e.end = m.end /\ e.cancel = m.cancel

\* The study is created.
LEMMA CreatesStudyDone == ASSUME IndInv, DoneInv, NEW b \in Backends, CreatesStudy(b) PROVE DoneInv'
<1>1. mem[b].pc = "study" /\ AtWork(mem[b]) BY DEF CreatesStudy, AtWork
<1>2. mem \in [Backends -> Memory] /\ mem[b] \in Memory /\ Progress(rows[mem[b].sweep].points, Budget(mem[b].sweep), mem[b])
  BY <1>1, Working
<1>3. PICK e : e = [mem[b] EXCEPT !.pc = "search"] OBVIOUS
<1>4. mem' = [mem EXCEPT ![b] = e] /\ rows' = rows BY <1>2, <1>3 DEF CreatesStudy, Goes
<1>5. e.pc = "search" /\ Like(e, mem[b]) BY <1>2, <1>3 DEF Memory, Like
<1>6. rows[mem[b].sweep].points = <<>> BY <1>1, <1>2 DEF Progress
<1>7. InSearch(<<>>, Budget(mem[b].sweep))
  <2>1. Len(<<>>) = 0 /\ 1..0 = {} OBVIOUS
  <2> QED BY <2>1, BudgetTyped DEF InSearch, SearchIn
<1>8. Progress(<<>>, Budget(mem[b].sweep), e) BY <1>1, <1>2, <1>5, <1>6, <1>7 DEF Progress, Measuring, Like
<1> QED BY <1>1, <1>4, <1>5, <1>6, <1>8, TaskStep DEF Like

\* /cancel
LEMMA CancelPrescreenDone == ASSUME IndInv, DoneInv, NEW b \in Backends, CancelPrescreen(b) PROVE DoneInv'
<1>1. AtWork(mem[b]) BY DEF CancelPrescreen, AtWork
<1>2. mem \in [Backends -> Memory] /\ mem[b] \in Memory /\ Progress(rows[mem[b].sweep].points, Budget(mem[b].sweep), mem[b])
  BY <1>1, Working
<1>3. PICK e : e = [mem[b] EXCEPT !.cancel = TRUE] OBVIOUS
<1>4. mem' = [mem EXCEPT ![b] = e] /\ rows' = rows BY <1>2, <1>3 DEF CancelPrescreen
<1>5. /\ e.pc = mem[b].pc /\ e.sweep = mem[b].sweep /\ e.at = mem[b].at /\ e.todo = mem[b].todo
      /\ e.out = mem[b].out /\ e.end = mem[b].end /\ e.cancel
  BY <1>2, <1>3 DEF Memory
<1>6. Progress(rows[mem[b].sweep].points, Budget(mem[b].sweep), e) BY <1>2, <1>5 DEF Progress
<1> QED BY <1>1, <1>4, <1>5, <1>6, TaskStep

\* A loop of run() ends.
LEMMA LeavesDone == ASSUME IndInv, DoneInv, NEW b \in Backends, Leaves(b) PROVE DoneInv'
<1>1. PICK P, n : P = rows[mem[b].sweep].points /\ n = Budget(mem[b].sweep) OBVIOUS
<1>2. mem[b].pc \in {"search", "again", "check"} BY DEF Leaves, After
<1>3. AtWork(mem[b]) BY <1>2 DEF AtWork, TaskPcs
<1>4. mem \in [Backends -> Memory] /\ mem[b] \in Memory /\ P \in Seq(PointRows) /\ Progress(P, n, mem[b]) /\ n \in Nat
  BY <1>1, <1>3, Working, BudgetTyped
<1>5. PICK e : e = [mem[b] EXCEPT !.pc = IF mem[b].cancel THEN "close" ELSE After[mem[b].pc],
                                  !.end = IF mem[b].cancel THEN "cancelled" ELSE "done"] OBVIOUS
<1>6. mem' = [mem EXCEPT ![b] = e] /\ rows' = rows BY <1>4, <1>5 DEF Leaves
<1>7. /\ e.pc = (IF mem[b].cancel THEN "close" ELSE After[mem[b].pc]) /\ e.end = (IF mem[b].cancel THEN "cancelled" ELSE "done")
      /\ e.sweep = mem[b].sweep /\ e.todo = mem[b].todo /\ e.out = mem[b].out /\ e.cancel = mem[b].cancel
  BY <1>4, <1>5 DEF Memory
<1>8. CASE mem[b].cancel
  <2>1. Progress(P, n, e) BY <1>7, <1>8 DEF Progress, Measuring
  <2> QED BY <1>1, <1>3, <1>6, <1>7, <2>1, TaskStep
<1>9. CASE ~mem[b].cancel
  <2>1. /\ mem[b].out # "cancelled" /\ \A i \in 1..Len(P) : P[i].status \notin {"running", "cancelled"}
    BY <1>2, <1>4, <1>9 DEF Progress, Measuring
  <2>2. CASE mem[b].pc = "search"
    <3>1. e.pc = "rank" /\ Len(P) = n BY <1>1, <1>7, <1>9, <2>2 DEF Leaves, After, Mine
    <3>2. InSearch(P, n) BY <1>4, <2>2 DEF Progress
    <3> QED BY <1>7, <2>1, <3>1, <3>2, <1>1, <1>3, <1>6, TaskStep DEF Progress, Measuring
  <2>3. CASE mem[b].pc = "again"
    <3>1. e.pc = "rank2" /\ mem[b].todo = {} BY <1>7, <1>9, <2>3 DEF Leaves, After
    <3>2. SearchIn(P) = 1..n /\ Cardinality({}) + Len(P) = n + AtMost(REMEASURE, OksIn(P)) BY <1>4, <2>3, <3>1 DEF Progress, InAgain
    <3>3. Cardinality({}) = 0 /\ Len(P) \in Nat BY <1>4, FS_EmptySet
    <3>4. InCheck(P, n) BY <3>2, <3>3 DEF InCheck
    <3> QED BY <1>7, <2>1, <3>1, <3>4, <1>1, <1>3, <1>6, TaskStep DEF Progress, Measuring
  <2>4. CASE mem[b].pc = "check"
    <3>1. e.pc = "close" /\ mem[b].todo = {} BY <1>7, <1>9, <2>4 DEF Leaves, After
    <3>2. InCheck(P, n) /\ ToCheck(P, {}) BY <1>4, <2>4, <3>1 DEF Progress
    <3>3. Finished(P, n) BY <1>4, <2>1, <3>2, FinishedAtEnd
    <3> QED BY <3>1, <3>3, <1>1, <1>3, <1>6, <1>7, TaskStep DEF Progress, Measuring
  <2> QED BY <1>2, <2>2, <2>3, <2>4
<1> QED BY <1>8, <1>9

\* The leaders are chosen.
LEMMA RanksDone == ASSUME IndInv, DoneInv, NEW b \in Backends, Ranks(b) PROVE DoneInv'
<1>1. PICK P, n : P = rows[mem[b].sweep].points /\ n = Budget(mem[b].sweep) OBVIOUS
<1>2. mem[b].pc \in {"rank", "rank2"} /\ rows' = rows BY DEF Ranks
<1>3. AtWork(mem[b]) BY <1>2 DEF AtWork, TaskPcs
<1>4. mem \in [Backends -> Memory] /\ mem[b] \in Memory /\ P \in Seq(PointRows) /\ Progress(P, n, mem[b]) /\ n \in Nat
  BY <1>1, <1>3, Working, BudgetTyped
<1>5. \A k, T : T \in Leaders(b, k) => T \in SUBSET OksIn(P) /\ Cardinality(T) = AtMost(k, OksIn(P))
  BY <1>1, SetsOf DEF Leaders, AtMost
<1>6. CASE mem[b].pc = "rank"
  <2>1. PICK T \in Leaders(b, REMEASURE) : mem' = [mem EXCEPT ![b].pc = "again", ![b].todo = T] BY <1>6 DEF Ranks
  <2>2. PICK e : e = [mem[b] EXCEPT !.pc = "again", !.todo = T] OBVIOUS
  <2>3. mem' = [mem EXCEPT ![b] = e] BY <1>4, <2>1, <2>2
  <2>4. /\ e.pc = "again" /\ e.todo = T /\ e.sweep = mem[b].sweep /\ e.out = mem[b].out /\ e.cancel = mem[b].cancel
    BY <1>4, <2>2 DEF Memory
  <2>5. InAgain(P, n, T)
    <3>1. SearchIn(P) = 1..Len(P) /\ Len(P) = n BY <1>4, <1>6 DEF Progress, InSearch
    <3>2. Cardinality(T) = AtMost(REMEASURE, OksIn(P)) BY <1>5, <2>1
    <3>3. AtMost(REMEASURE, OksIn(P)) \in Nat BY <1>4, PointSets, PrescreenAssumption
    <3> QED BY <1>4, <3>1, <3>2, <3>3 DEF InAgain
  <2>6. Progress(P, n, e) BY <1>4, <1>6, <2>4, <2>5 DEF Progress, Measuring
  <2> QED BY <1>1, <1>2, <1>3, <2>3, <2>4, <2>6, TaskStep
<1>7. CASE mem[b].pc = "rank2"
  <2>1. PICK T \in Leaders(b, CtxChecks) : mem' = [mem EXCEPT ![b].pc = "check", ![b].todo = T] BY <1>7 DEF Ranks
  <2>2. PICK e : e = [mem[b] EXCEPT !.pc = "check", !.todo = T] OBVIOUS
  <2>3. mem' = [mem EXCEPT ![b] = e] BY <1>4, <2>1, <2>2
  <2>4. /\ e.pc = "check" /\ e.todo = T /\ e.sweep = mem[b].sweep /\ e.out = mem[b].out /\ e.cancel = mem[b].cancel
    BY <1>4, <2>2 DEF Memory
  <2>5. ToCheck(P, T) BY <1>5, <2>1 DEF ToCheck
  <2>6. Progress(P, n, e) BY <1>4, <1>7, <2>4, <2>5 DEF Progress, Measuring
  <2> QED BY <1>1, <1>2, <1>3, <2>3, <2>4, <2>6, TaskStep
<1> QED BY <1>2, <1>6, <1>7

\* A load check is started.
LEMMA LoadCheckDone == ASSUME IndInv, DoneInv, NEW b \in Backends, LoadCheck(b) PROVE DoneInv'
<1>1. PICK P, n : P = rows[mem[b].sweep].points /\ n = Budget(mem[b].sweep) OBVIOUS
<1>2. mem[b].pc = "check" /\ rows' = rows BY DEF LoadCheck
<1>3. AtWork(mem[b]) BY <1>2 DEF AtWork, TaskPcs
<1>4. mem \in [Backends -> Memory] /\ mem[b] \in Memory /\ Progress(P, n, mem[b]) BY <1>1, <1>3, Working
<1>5. PICK i \in mem[b].todo, where \in {"loaded", "checked"} :
        mem' = [mem EXCEPT ![b].pc = where, ![b].at = i, ![b].todo = @ \ {i}]
  BY DEF LoadCheck
<1>6. PICK e : e = [mem[b] EXCEPT !.pc = where, !.at = i, !.todo = @ \ {i}] OBVIOUS
<1>7. mem' = [mem EXCEPT ![b] = e] BY <1>4, <1>5, <1>6
<1>8. e.pc = where /\ e.at = i /\ e.todo = mem[b].todo \ {i} /\ e.sweep = mem[b].sweep /\ e.out = mem[b].out /\ e.cancel = mem[b].cancel
  BY <1>4, <1>6 DEF Memory
<1>9. e.todo \cup {e.at} = mem[b].todo BY <1>8
<1>10. Progress(P, n, e) BY <1>2, <1>4, <1>5, <1>8, <1>9 DEF Progress, Measuring
<1> QED BY <1>1, <1>2, <1>3, <1>7, <1>8, <1>10, TaskStep

\* Steps of a measurement or a load check that only the process sees.
LEMMA SpawnsStopsDone ==
  ASSUME IndInv, DoneInv, NEW b \in Backends, SpawnsBench(b) \/ StopsServer(b)
  PROVE  DoneInv'
<1>1. PICK P, n : P = rows[mem[b].sweep].points /\ n = Budget(mem[b].sweep) OBVIOUS
<1>2. PICK p : /\ (mem[b].pc = "spawn" /\ p = "record") \/ (mem[b].pc = "loading" /\ p = "checked")
               /\ mem' = [mem EXCEPT ![b].pc = p] /\ rows' = rows
  BY DEF SpawnsBench, StopsServer, Goes
<1>3. AtWork(mem[b]) BY <1>2 DEF AtWork, TaskPcs
<1>4. mem \in [Backends -> Memory] /\ mem[b] \in Memory /\ Progress(P, n, mem[b]) BY <1>1, <1>3, Working
<1>5. PICK e : e = [mem[b] EXCEPT !.pc = p] OBVIOUS
<1>6. mem' = [mem EXCEPT ![b] = e] BY <1>2, <1>4, <1>5
<1>7. e.pc = p /\ Like(e, mem[b]) BY <1>4, <1>5 DEF Memory, Like
<1>8. Progress(P, n, e) BY <1>2, <1>4, <1>7 DEF Progress, Measuring, Like
<1> QED BY <1>1, <1>2, <1>3, <1>6, <1>7, <1>8, TaskStep DEF Like

\* run_point ends, of itself or by the event.
LEMMA WaitsDone == ASSUME IndInv, DoneInv, NEW b \in Backends, Waits(b) PROVE DoneInv'
<1>1. PICK P, n : P = rows[mem[b].sweep].points /\ n = Budget(mem[b].sweep) OBVIOUS
<1>2. mem[b].pc = "wait" /\ rows' = rows BY DEF Waits
<1>3. AtWork(mem[b]) BY <1>2 DEF AtWork, TaskPcs
<1>4. mem \in [Backends -> Memory] /\ mem[b] \in Memory /\ Progress(P, n, mem[b]) BY <1>1, <1>3, Working
<1>5. PICK o : /\ mem[b].out = o \/ (mem[b].cancel /\ o = "cancelled") \/ o = "error"
               /\ mem' = [mem EXCEPT ![b].pc = "save", ![b].out = o]
  BY DEF Waits
<1>6. PICK e : e = [mem[b] EXCEPT !.pc = "save", !.out = o] OBVIOUS
<1>7. mem' = [mem EXCEPT ![b] = e] BY <1>4, <1>5, <1>6
<1>8. e.pc = "save" /\ e.out = o /\ e.at = mem[b].at /\ e.todo = mem[b].todo /\ e.sweep = mem[b].sweep /\ e.cancel = mem[b].cancel
  BY <1>4, <1>6 DEF Memory
<1>9. o = "cancelled" => mem[b].cancel BY <1>2, <1>4, <1>5 DEF Progress
<1>10. Progress(P, n, e) BY <1>2, <1>4, <1>8, <1>9 DEF Progress, Measuring
<1> QED BY <1>1, <1>2, <1>3, <1>7, <1>8, <1>10, TaskStep

\* A call fails: the sweep will be closed as failed.
LEMMA CallFailsDone == ASSUME IndInv, DoneInv, NEW b \in Backends, CallFails(b) PROVE DoneInv'
<1>1. mem \in [Backends -> Memory] /\ mem[b] \in Memory BY DEF IndInv, TypeOK
<1>2. rows' = rows BY DEF CallFails
<1>3. CASE mem[b].pc \in {"list", "reclaim", "open", "close"}
  <2>1. mem' = [mem EXCEPT ![b] = Idle] BY <1>1, <1>3 DEF CallFails
  <2>2. ~AtWork(Idle) BY DEF AtWork, Idle, TaskPcs
  <2> QED BY <1>2, <2>1, <2>2, NoTaskStep
<1>4. CASE mem[b].pc \notin {"list", "reclaim", "open", "close"}
  <2>1. PICK e : e = [mem[b] EXCEPT !.pc = "close", !.end = "failed"] OBVIOUS
  <2>2. mem' = [mem EXCEPT ![b] = e] BY <1>1, <1>4, <2>1 DEF CallFails
  <2>3. e.pc = "close" /\ e.end = "failed" /\ e.sweep = mem[b].sweep BY <1>1, <2>1 DEF Memory
  <2>4. AtWork(mem[b]) BY <1>1, <1>4 DEF CallFails, AtWork, Memory
  <2>5. \A P, n : Progress(P, n, e) BY <2>3 DEF Progress, Measuring
  <2> QED BY <1>2, <2>2, <2>3, <2>4, <2>5, TaskStep
<1> QED BY <1>3, <1>4

\* A process ends.
LEMMA ExitsDone == ASSUME IndInv, DoneInv, NEW x \in procs, Exits(x) PROVE DoneInv'
<1>1. rows' = rows BY DEF Exits
<1>2. CASE mem' = mem BY <1>1, <1>2 DEF DoneInv, ProgressOf, Sweeps, Budget
<1>3. CASE mem' # mem
  <2>1. PICK b \in Backends, o \in Outcomes(x, rows[x[1]].points[x[2]].p) :
          mem[b].pc \in {"record", "wait"} /\ mem' = [mem EXCEPT ![b].out = o]
    BY <1>3, Zenon DEF Exits
  <2>2. o \in {"ok", "oom", "error"} BY <2>1 DEF Outcomes
  <2>3. PICK P, n : P = rows[mem[b].sweep].points /\ n = Budget(mem[b].sweep) OBVIOUS
  <2>4. AtWork(mem[b]) BY <2>1 DEF AtWork, TaskPcs
  <2>5. mem \in [Backends -> Memory] /\ mem[b] \in Memory /\ Progress(P, n, mem[b]) BY <2>3, <2>4, Working
  <2>6. PICK e : e = [mem[b] EXCEPT !.out = o] OBVIOUS
  <2>7. mem' = [mem EXCEPT ![b] = e] BY <2>1, <2>5, <2>6
  <2>8. e.pc = mem[b].pc /\ e.out = o /\ e.at = mem[b].at /\ e.todo = mem[b].todo /\ e.sweep = mem[b].sweep /\ e.cancel = mem[b].cancel
    BY <2>5, <2>6 DEF Memory
  <2>9. Progress(P, n, e) BY <2>1, <2>2, <2>5, <2>8 DEF Progress
  <2> QED BY <1>1, <2>3, <2>4, <2>7, <2>8, <2>9, TaskStep
<1> QED BY <1>2, <1>3

\* Q is P and one point more, u.
Added(Q, P, u) ==
  /\ Q \in Seq(PointRows) /\ Len(Q) = Len(P) + 1 /\ Q[Len(P) + 1] = u /\ \A j \in 1..Len(P) : Q[j] = P[j]
  /\ (u.phase = "search" => SearchIn(Q) = SearchIn(P) \cup {Len(P) + 1})
  /\ (u.phase # "search" => SearchIn(Q) = SearchIn(P) /\ OksIn(Q) = OksIn(P))

\* Q is P but for point i, which is u.
Rewritten(Q, P, i, u) ==
  /\ Q \in Seq(PointRows) /\ Len(Q) = Len(P) /\ Q[i] = u /\ \A j \in 1..Len(P) : j # i => Q[j] = P[j]
  /\ SearchIn(Q) = SearchIn(P) /\ CheckedIn(P) \subseteq CheckedIn(Q) /\ (u.ctx_check => i \in CheckedIn(Q))
  /\ (u.status = P[i].status \/ P[i].phase # "search" => OksIn(Q) = OksIn(P))

\* One point is rewritten, its phase and its load check kept.
LEMMA ChangedPoint ==
  ASSUME NEW P \in Seq(PointRows), NEW i \in 1..Len(P), NEW u \in PointRows, u.phase = P[i].phase, P[i].ctx_check => u.ctx_check,
         NEW Q, Q = [P EXCEPT ![i] = u]
  PROVE  Rewritten(Q, P, i, u)
<1>1. Q \in Seq(PointRows) /\ Len(Q) = Len(P) /\ Q[i] = u /\ \A j \in 1..Len(P) : j # i => Q[j] = P[j] BY ExceptSeq
<1>2. \A j \in 1..Len(P) : Q[j].phase = P[j].phase /\ (P[j].ctx_check => Q[j].ctx_check) BY <1>1
<1>3. SearchIn(Q) = SearchIn(P) BY <1>1, <1>2 DEF SearchIn
<1>4. CheckedIn(P) \subseteq CheckedIn(Q) /\ (u.ctx_check => i \in CheckedIn(Q)) BY <1>1, <1>2 DEF CheckedIn
<1>5. ASSUME u.status = P[i].status \/ P[i].phase # "search" PROVE OksIn(Q) = OksIn(P)
  <2>1. \A j \in SearchIn(P) : Q[j].status = P[j].status BY <1>1, <1>5 DEF SearchIn
  <2> QED BY <1>3, <2>1 DEF OksIn
<1> QED BY <1>1, <1>3, <1>4, <1>5 DEF Rewritten

\* One point is added.
LEMMA AddedPoint ==
  ASSUME NEW P \in Seq(PointRows), NEW u \in PointRows, ~u.ctx_check, NEW Q, Q = Append(P, u)
  PROVE  Added(Q, P, u)
<1>1. Q \in Seq(PointRows) /\ Len(Q) = Len(P) + 1 /\ Q[Len(P) + 1] = u /\ \A j \in 1..Len(P) : Q[j] = P[j] BY AppendProperties
<1>2. Len(P) \in Nat /\ 1..Len(Q) = (1..Len(P)) \cup {Len(P) + 1} /\ Len(P) + 1 \notin 1..Len(P) BY <1>1
<1>3. u.phase = "search" => SearchIn(Q) = SearchIn(P) \cup {Len(P) + 1} BY <1>1, <1>2 DEF SearchIn
<1>4. ASSUME u.phase # "search" PROVE SearchIn(Q) = SearchIn(P) /\ OksIn(Q) = OksIn(P)
  <2>1. SearchIn(Q) = SearchIn(P) BY <1>1, <1>2, <1>4 DEF SearchIn
  <2> QED BY <1>1, <2>1 DEF SearchIn, OksIn
<1> QED BY <1>1, <1>3, <1>4 DEF Added

\* Leaders that leave the list load-checked are still accounted for.
LEMMA StillToCheck ==
  ASSUME NEW P, NEW Q, OksIn(Q) = OksIn(P), CheckedIn(P) \subseteq CheckedIn(Q), NEW S, NEW T, ToCheck(P, S), S \subseteq T \cup CheckedIn(Q)
  PROVE  ToCheck(Q, T)
BY DEF ToCheck, AtMost

\* on_spawn records the group of the process.
LEMMA RecordsDone == ASSUME IndInv, DoneInv, NEW b \in Backends, RecordsGroup(b) \/ RecordsServer(b) PROVE DoneInv'
<1>1. PICK s, P, n : s = mem[b].sweep /\ P = rows[s].points /\ n = Budget(s) OBVIOUS
<1>2. PICK p, k :
        /\ k \in {"bench", "check"}
        /\ (mem[b].pc = "record" /\ p = "wait") \/ (mem[b].pc = "loaded" /\ p = "loading")
        /\ mem' = [mem EXCEPT ![b].pc = p] /\ rows' = [rows EXCEPT ![mem[b].sweep].points[mem[b].at].pgid = k]
  <2>1. CASE RecordsGroup(b)
    <3>1. mem[b].pc = "record" /\ mem' = [mem EXCEPT ![b].pc = "wait"] /\ rows' = [rows EXCEPT ![mem[b].sweep].points[mem[b].at].pgid = "bench"]
      BY <2>1 DEF RecordsGroup, Goes, SavesPgid
    <3> QED BY <3>1, Zenon
  <2>2. CASE RecordsServer(b)
    <3>1. mem[b].pc = "loaded" /\ mem' = [mem EXCEPT ![b].pc = "loading"] /\ rows' = [rows EXCEPT ![mem[b].sweep].points[mem[b].at].pgid = "check"]
      BY <2>2 DEF RecordsServer, Goes, SavesPgid
    <3> QED BY <3>1, Zenon
  <2> QED BY <2>1, <2>2
<1>3. AtWork(mem[b]) BY <1>2 DEF AtWork, TaskPcs
<1>4. /\ mem \in [Backends -> Memory] /\ mem[b] \in Memory /\ P \in Seq(PointRows) /\ Progress(P, n, mem[b]) /\ mem[b].at \in 1..Len(P)
  BY <1>1, <1>2, <1>3, Working DEF Measuring
<1>5. PICK i : i = mem[b].at OBVIOUS
<1>6. P[i] \in PointRows BY <1>4, <1>5, ElementOfSeq
<1>7. PICK u : u = [P[i] EXCEPT !.pgid = k] OBVIOUS
<1>8. u \in PointRows /\ u.phase = P[i].phase /\ u.status = P[i].status /\ (P[i].ctx_check => u.ctx_check) BY <1>2, <1>6, <1>7 DEF PointRows
<1>9. PICK Q : Q = [P EXCEPT ![i] = u] OBVIOUS
<1>10. rows' = [rows EXCEPT ![s] = [rows[s] EXCEPT !.points = Q]] BY <1>1, <1>2, <1>5, <1>7, <1>9
<1>11. PICK e : e = [mem[b] EXCEPT !.pc = p] OBVIOUS
<1>12. mem' = [mem EXCEPT ![b] = e] /\ e.pc = p /\ Like(e, mem[b]) BY <1>2, <1>4, <1>11 DEF Memory, Like
<1>13. /\ Len(Q) = Len(P) /\ SearchIn(Q) = SearchIn(P) /\ OksIn(Q) = OksIn(P) /\ CheckedIn(P) \subseteq CheckedIn(Q)
       /\ \A j \in 1..Len(P) : Q[j].status = P[j].status /\ Q[j].phase = P[j].phase
  <2>1. Rewritten(Q, P, i, u) BY <1>4, <1>5, <1>8, <1>9, ChangedPoint
  <2> QED BY <1>4, <1>5, <1>8, <1>9, <2>1 DEF Rewritten
<1>14. \A T : ToCheck(P, T) => ToCheck(Q, T) BY <1>13, StillToCheck
<1>15. Progress(Q, n, e)
  BY <1>2, <1>4, <1>12, <1>13, <1>14 DEF Progress, Measuring, Like, InSearch, InAgain, InCheck, AtMost
<1> QED BY <1>1, <1>3, <1>10, <1>12, <1>15, WorkStep DEF Like

\* The outcome of a measurement is recorded.
LEMMA SavesPointDone == ASSUME IndInv, DoneInv, NEW b \in Backends, SavesPoint(b) PROVE DoneInv'
<1>1. PICK s, P, n, i, o : s = mem[b].sweep /\ P = rows[s].points /\ n = Budget(s) /\ i = mem[b].at /\ o = mem[b].out OBVIOUS
<1>2. PICK p : p = IF P[i].phase = "search" THEN "search" ELSE "again" OBVIOUS
<1>3. mem[b].pc = "save" /\ mem' = [mem EXCEPT ![b].pc = p, ![b].out = "none"] /\ rows' = [rows EXCEPT ![s].points[i].status = o]
  BY <1>1, <1>2 DEF SavesPoint, Mine
<1>4. AtWork(mem[b]) BY <1>3 DEF AtWork, TaskPcs
<1>5. /\ mem \in [Backends -> Memory] /\ mem[b] \in Memory /\ P \in Seq(PointRows) /\ Progress(P, n, mem[b]) /\ i \in 1..Len(P)
  BY <1>1, <1>3, <1>4, Working DEF Measuring
<1>6. P[i] \in PointRows /\ o \in {"ok", "oom", "error", "cancelled"}
  <2>1. P[i] \in PointRows BY <1>5, ElementOfSeq
  <2>2. o # "none" BY <1>1, <1>3 DEF IndInv, TaskInv
  <2> QED BY <1>1, <1>5, <2>1, <2>2 DEF Memory
<1>7. PICK u : u = [P[i] EXCEPT !.status = o] OBVIOUS
<1>8. u \in PointRows /\ u.phase = P[i].phase /\ u.status = o /\ (P[i].ctx_check => u.ctx_check) BY <1>6, <1>7 DEF PointRows
<1>9. PICK Q : Q = [P EXCEPT ![i] = u] OBVIOUS
<1>10. rows' = [rows EXCEPT ![s] = [rows[s] EXCEPT !.points = Q]] BY <1>1, <1>3, <1>7, <1>9
<1>11. PICK e : e = [mem[b] EXCEPT !.pc = p, !.out = "none"] OBVIOUS
<1>12. /\ mem' = [mem EXCEPT ![b] = e] /\ e.pc = p /\ e.out = "none" /\ e.todo = mem[b].todo /\ e.cancel = mem[b].cancel
       /\ e.sweep = mem[b].sweep
  BY <1>2, <1>3, <1>5, <1>11 DEF Memory
<1>13. /\ Len(Q) = Len(P) /\ SearchIn(Q) = SearchIn(P) /\ Q[i] = u /\ (P[i].phase # "search" => OksIn(Q) = OksIn(P))
       /\ \A j \in 1..Len(P) : j # i => Q[j] = P[j]
  <2>1. Rewritten(Q, P, i, u) BY <1>5, <1>8, <1>9, ChangedPoint
  <2> QED BY <1>5, <1>8, <1>9, <2>1 DEF Rewritten
<1>14. \A j \in 1..Len(Q) : (Q[j].status = "cancelled" => e.cancel) /\ Q[j].status # "running"
  <2>1. o = "cancelled" => mem[b].cancel BY <1>1, <1>3, <1>5 DEF Progress
  <2>2. \A j \in 1..Len(P) : /\ P[j].status = "cancelled" => mem[b].cancel
                             /\ P[j].status = "running" => j = i
    BY <1>1, <1>3, <1>5 DEF Progress
  <2> QED BY <1>6, <1>8, <1>12, <1>13, <2>1, <2>2
<1>15. CASE P[i].phase = "search"
  <2>1. e.pc = "search" BY <1>2, <1>12, <1>15
  <2>2. InSearch(Q, n) BY <1>1, <1>3, <1>5, <1>13, <1>15 DEF Progress, InSearch, Measuring
  <2>3. Progress(Q, n, e) BY <1>12, <1>14, <2>1, <2>2 DEF Progress, Measuring
  <2> QED BY <1>1, <1>4, <1>10, <1>12, <2>3, WorkStep
<1>16. CASE P[i].phase # "search"
  <2>1. e.pc = "again" BY <1>2, <1>12, <1>16
  <2>2. InAgain(Q, n, e.todo) BY <1>1, <1>3, <1>5, <1>12, <1>13, <1>16 DEF Progress, InAgain, Measuring, AtMost
  <2>3. Progress(Q, n, e) BY <1>12, <1>14, <2>1, <2>2 DEF Progress, Measuring
  <2> QED BY <1>1, <1>4, <1>10, <1>12, <2>3, WorkStep
<1> QED BY <1>15, <1>16

\* The outcome of a load check is recorded.
LEMMA SavesCheckDone == ASSUME IndInv, DoneInv, NEW b \in Backends, SavesCheck(b) PROVE DoneInv'
<1>1. PICK s, P, n, i : s = mem[b].sweep /\ P = rows[s].points /\ n = Budget(s) /\ i = mem[b].at OBVIOUS
<1>2. mem[b].pc = "checked" /\ mem' = [mem EXCEPT ![b].pc = "check"] /\ rows' = [rows EXCEPT ![s].points[i].ctx_check = TRUE]
  BY <1>1 DEF SavesCheck, Goes
<1>3. AtWork(mem[b]) BY <1>2 DEF AtWork, TaskPcs
<1>4. /\ mem \in [Backends -> Memory] /\ mem[b] \in Memory /\ P \in Seq(PointRows) /\ Progress(P, n, mem[b]) /\ i \in 1..Len(P)
  BY <1>1, <1>2, <1>3, Working
<1>5. P[i] \in PointRows BY <1>4, ElementOfSeq
<1>6. PICK u : u = [P[i] EXCEPT !.ctx_check = TRUE] OBVIOUS
<1>7. u \in PointRows /\ u.phase = P[i].phase /\ u.status = P[i].status /\ u.ctx_check BY <1>5, <1>6 DEF PointRows
<1>8. PICK Q : Q = [P EXCEPT ![i] = u] OBVIOUS
<1>9. rows' = [rows EXCEPT ![s] = [rows[s] EXCEPT !.points = Q]] BY <1>1, <1>2, <1>6, <1>8
<1>10. PICK e : e = [mem[b] EXCEPT !.pc = "check"] OBVIOUS
<1>11. mem' = [mem EXCEPT ![b] = e] /\ e.pc = "check" /\ Like(e, mem[b]) BY <1>2, <1>4, <1>10 DEF Memory, Like
<1>12. /\ Len(Q) = Len(P) /\ SearchIn(Q) = SearchIn(P) /\ OksIn(Q) = OksIn(P) /\ CheckedIn(P) \subseteq CheckedIn(Q) /\ i \in CheckedIn(Q)
       /\ \A j \in 1..Len(P) : Q[j].status = P[j].status
  <2>1. Rewritten(Q, P, i, u) BY <1>4, <1>7, <1>8, ChangedPoint
  <2> QED BY <1>4, <1>7, <1>8, <2>1 DEF Rewritten
<1>13. InCheck(Q, n) /\ ToCheck(Q, e.todo)
  <2>1. InCheck(P, n) /\ ToCheck(P, mem[b].todo \cup {i}) BY <1>1, <1>2, <1>4 DEF Progress
  <2>2. mem[b].todo \cup {i} \subseteq e.todo \cup CheckedIn(Q) BY <1>11, <1>12 DEF Like
  <2> QED BY <1>12, <2>1, <2>2, StillToCheck DEF InCheck, AtMost
<1>14. Progress(Q, n, e) BY <1>2, <1>4, <1>11, <1>12, <1>13 DEF Progress, Measuring, Like
<1> QED BY <1>1, <1>3, <1>9, <1>11, <1>14, WorkStep DEF Like

\* The task is cancelled: its sweep will not be closed as done.
LEMMA TaskCancelledDone == ASSUME IndInv, DoneInv, NEW b \in Backends, TaskCancelled(b) PROVE DoneInv'
<1>1. PICK s, P, i : s = mem[b].sweep /\ P = rows[s].points /\ i = mem[b].at OBVIOUS
<1>2. mem[b].pc \in TaskPcs /\ mem' = [mem EXCEPT ![b].pc = "close", ![b].end = "stopped"] BY DEF TaskCancelled
<1>3. AtWork(mem[b]) BY <1>2 DEF AtWork
<1>4. mem \in [Backends -> Memory] /\ mem[b] \in Memory BY <1>3, Working
<1>5. PICK e : e = [mem[b] EXCEPT !.pc = "close", !.end = "stopped"] OBVIOUS
<1>6. mem' = [mem EXCEPT ![b] = e] /\ e.pc = "close" /\ e.end = "stopped" /\ e.sweep = s BY <1>1, <1>2, <1>4, <1>5 DEF Memory
<1>7. \A Q, n : Progress(Q, n, e) BY <1>6 DEF Progress, Measuring
<1>8. CASE rows' = rows BY <1>1, <1>3, <1>6, <1>7, <1>8, TaskStep
<1>9. CASE rows' = [rows EXCEPT ![mem[b].sweep].points[mem[b].at].status = "cancelled"]
  <2>1. PICK u : u = [P[i] EXCEPT !.status = "cancelled"] OBVIOUS
  <2>2. PICK Q : Q = [P EXCEPT ![i] = u] OBVIOUS
  <2>3. rows' = [rows EXCEPT ![s] = [rows[s] EXCEPT !.points = Q]] BY <1>1, <1>9, <2>1, <2>2
  <2> QED BY <1>1, <1>3, <1>6, <1>7, <2>3, WorkStep
<1> QED BY <1>8, <1>9 DEF TaskCancelled

\* A trial adds its point to the search.
LEMMA TrialDone == ASSUME IndInv, DoneInv, NEW b \in Backends, Trial(b) PROVE DoneInv'
<1>1. PICK s, P, n, k : s = mem[b].sweep /\ P = rows[s].points /\ n = Budget(s) /\ k = Len(P) + 1 OBVIOUS
<1>2. mem[b].pc = "search" /\ Len(P) < n BY <1>1 DEF Trial, Mine
<1>3. PICK p \in Proposals(b) :
        /\ Adds(b, Point(p, "search", Verdict(b, p)))
        /\ mem' = IF Verdict(b, p) = "running" THEN [mem EXCEPT ![b].pc = "spawn", ![b].at = Len(Mine(b)) + 1] ELSE mem
  BY DEF Trial
<1>4. AtWork(mem[b]) BY <1>2 DEF AtWork, TaskPcs
<1>5. /\ mem \in [Backends -> Memory] /\ mem[b] \in Memory /\ P \in Seq(PointRows) /\ Progress(P, n, mem[b]) /\ n \in Nat /\ Len(P) \in Nat
  BY <1>1, <1>4, Working, BudgetTyped
<1>6. PICK v : v = Verdict(b, p) OBVIOUS
<1>7. p \in Grid /\ v \in {"invalid", "repeat", "pruned", "running"}
  <2>1. p \in Grid BY PrescreenAssumption, <1>3 DEF Proposals, Plan
  <2>2. v \in {"invalid", "repeat", "pruned", "running"} BY <1>6 DEF Verdict
  <2> QED BY <2>1, <2>2
<1>8. PICK u : u = Point(p, "search", v) OBVIOUS
<1>9. u \in PointRows /\ u.phase = "search" /\ u.status = v /\ ~u.ctx_check BY <1>7, <1>8 DEF Point, PointRows
<1>10. PICK Q : Q = Append(P, u) OBVIOUS
<1>11. rows' = [rows EXCEPT ![s] = [rows[s] EXCEPT !.points = Q]] BY <1>1, <1>3, <1>6, <1>8, <1>10 DEF Adds
<1>12. PICK e : e = IF v = "running" THEN [mem[b] EXCEPT !.pc = "spawn", !.at = k] ELSE mem[b] OBVIOUS
<1>13. mem' = [mem EXCEPT ![b] = e]
  <2>1. mem' = IF v = "running" THEN [mem EXCEPT ![b].pc = "spawn", ![b].at = k] ELSE mem BY <1>1, <1>3, <1>6 DEF Mine
  <2>2. CASE v = "running" BY <1>5, <1>12, <2>1, <2>2
  <2>3. CASE v # "running" BY <1>5, <1>12, <2>1, <2>3
  <2> QED BY <2>2, <2>3
<1>14. /\ e.sweep = mem[b].sweep /\ e.out = mem[b].out /\ e.cancel = mem[b].cancel
       /\ (v = "running" => e.pc = "spawn" /\ e.at = k) /\ (v # "running" => e.pc = "search")
  BY <1>2, <1>5, <1>12 DEF Memory
<1>15. /\ Len(Q) = k /\ Q[k] = u /\ (\A j \in 1..Len(P) : Q[j] = P[j]) /\ SearchIn(Q) = SearchIn(P) \cup {k}
  <2>1. Added(Q, P, u) BY <1>5, <1>9, <1>10, AddedPoint
  <2> QED BY <1>1, <1>9, <2>1 DEF Added
<1>16. InSearch(Q, n)
  <2>1. SearchIn(P) = 1..Len(P) BY <1>2, <1>5 DEF Progress, InSearch
  <2>2. 1..k = (1..Len(P)) \cup {k} /\ k <= n BY <1>1, <1>2, <1>5
  <2> QED BY <1>15, <2>1, <2>2 DEF InSearch
<1>17. \A j \in 1..k : Q[j].status # "cancelled" \/ e.cancel
  <2>1. \A j \in 1..Len(P) : P[j].status = "cancelled" => mem[b].cancel BY <1>2, <1>5 DEF Progress
  <2>2. \A j \in 1..k : j = k \/ j \in 1..Len(P) BY <1>1, <1>5
  <2> QED BY <1>7, <1>9, <1>14, <1>15, <2>1, <2>2
<1>18. \A j \in 1..k : Q[j].status = "running" => e.pc = "spawn" /\ e.at = j
  <2>1. \A j \in 1..Len(P) : P[j].status # "running" BY <1>2, <1>5 DEF Progress, Measuring
  <2>2. \A j \in 1..k : j = k \/ j \in 1..Len(P) BY <1>1, <1>5
  <2> QED BY <1>9, <1>14, <1>15, <2>1, <2>2
<1>19. e.out = "cancelled" => e.cancel BY <1>2, <1>5, <1>14 DEF Progress
<1>20. Progress(Q, n, e)
  <2>1. CASE v = "running" BY <1>9, <1>14, <1>15, <1>16, <1>17, <1>18, <1>19, <2>1 DEF Progress, Measuring
  <2>2. CASE v # "running" BY <1>14, <1>15, <1>16, <1>17, <1>18, <1>19, <2>2 DEF Progress, Measuring
  <2> QED BY <2>1, <2>2
<1> QED BY <1>1, <1>4, <1>11, <1>13, <1>14, <1>20, WorkStep

\* A leader is taken from the list and has its second row.
LEMMA RemeasuresDone == ASSUME IndInv, DoneInv, NEW b \in Backends, Remeasures(b) PROVE DoneInv'
<1>1. PICK s, P, n, k : s = mem[b].sweep /\ P = rows[s].points /\ n = Budget(s) /\ k = Len(P) + 1 OBVIOUS
<1>2. mem[b].pc = "again" BY DEF Remeasures
<1>3. PICK i \in mem[b].todo :
        /\ Adds(b, Point(Mine(b)[i].p, "remeasure", "running"))
        /\ mem' = [mem EXCEPT ![b].pc = "spawn", ![b].todo = @ \ {i}, ![b].at = Len(Mine(b)) + 1]
  BY DEF Remeasures
<1>4. AtWork(mem[b]) BY <1>2 DEF AtWork, TaskPcs
<1>5. /\ mem \in [Backends -> Memory] /\ mem[b] \in Memory /\ P \in Seq(PointRows) /\ Progress(P, n, mem[b]) /\ n \in Nat /\ Len(P) \in Nat
      /\ mem[b].todo \subseteq 1..Len(P)
  BY <1>1, <1>4, Working, BudgetTyped
<1>6. P[i] \in PointRows BY <1>3, <1>5, ElementOfSeq
<1>7. PICK u : u = Point(P[i].p, "remeasure", "running") OBVIOUS
<1>8. u \in PointRows /\ u.phase = "remeasure" /\ u.status = "running" /\ ~u.ctx_check BY <1>6, <1>7 DEF Point, PointRows
<1>9. PICK Q : Q = Append(P, u) OBVIOUS
<1>10. rows' = [rows EXCEPT ![s] = [rows[s] EXCEPT !.points = Q]] BY <1>1, <1>3, <1>7, <1>9 DEF Adds, Mine
<1>11. PICK e : e = [mem[b] EXCEPT !.pc = "spawn", !.todo = @ \ {i}, !.at = k] OBVIOUS
<1>12. mem' = [mem EXCEPT ![b] = e] BY <1>1, <1>3, <1>5, <1>11 DEF Mine
<1>13. /\ e.sweep = mem[b].sweep /\ e.out = mem[b].out /\ e.cancel = mem[b].cancel /\ e.pc = "spawn" /\ e.at = k
       /\ e.todo = mem[b].todo \ {i}
  BY <1>5, <1>11 DEF Memory
<1>14. /\ Len(Q) = k /\ Q[k] = u /\ (\A j \in 1..Len(P) : Q[j] = P[j]) /\ SearchIn(Q) = SearchIn(P) /\ OksIn(Q) = OksIn(P)
  <2>1. Added(Q, P, u) BY <1>5, <1>8, <1>9, AddedPoint
  <2> QED BY <1>1, <1>8, <2>1 DEF Added
<1>15. InAgain(Q, n, e.todo)
  <2>1. /\ SearchIn(P) = 1..n /\ n <= Len(P) /\ Cardinality(mem[b].todo) + Len(P) = n + AtMost(REMEASURE, OksIn(P))
    BY <1>2, <1>5 DEF Progress, InAgain
  <2>2. IsFiniteSet(mem[b].todo) /\ Cardinality(mem[b].todo) \in Nat BY <1>5, PointSets
  <2>3. Cardinality(e.todo) = Cardinality(mem[b].todo) - 1 BY <1>3, <1>13, <2>2, FS_RemoveElement
  <2>4. AtMost(REMEASURE, OksIn(Q)) = AtMost(REMEASURE, OksIn(P)) BY <1>14
  <2>5. AtMost(REMEASURE, OksIn(P)) \in Nat BY <1>5, PointSets, PrescreenAssumption
  <2>6. n <= Len(Q) /\ Cardinality(e.todo) + Len(Q) = n + AtMost(REMEASURE, OksIn(Q))
    <3>1. PICK x, y \in Nat : x = Cardinality(mem[b].todo) /\ y = AtMost(REMEASURE, OksIn(P)) BY <2>2, <2>5
    <3>2. x + Len(P) = n + y BY <2>1, <3>1
    <3>3. n <= Len(P) + 1 /\ (x - 1) + (Len(P) + 1) = n + y BY <1>5, <2>1, <3>1, <3>2
    <3>4. Len(Q) = Len(P) + 1 BY <1>1, <1>14
    <3> QED BY <2>3, <2>4, <3>1, <3>3, <3>4
  <2> QED BY <1>14, <2>1, <2>6 DEF InAgain
<1>16. \A j \in 1..k : (Q[j].status = "cancelled" => e.cancel) /\ (Q[j].status = "running" => e.at = j)
  <2>1. \A j \in 1..Len(P) : (P[j].status = "cancelled" => mem[b].cancel) /\ P[j].status # "running" BY <1>2, <1>5 DEF Progress, Measuring
  <2>2. \A j \in 1..k : j = k \/ j \in 1..Len(P) BY <1>1, <1>5
  <2> QED BY <1>8, <1>13, <1>14, <2>1, <2>2
<1>17. e.out = "cancelled" => e.cancel BY <1>2, <1>5, <1>13 DEF Progress
<1>18. Progress(Q, n, e) BY <1>8, <1>13, <1>14, <1>15, <1>16, <1>17 DEF Progress, Measuring
<1> QED BY <1>1, <1>4, <1>10, <1>12, <1>13, <1>18, WorkStep

\* A sweep is opened, with no point yet.
LEMMA OpensSweepDone == ASSUME IndInv, DoneInv, NEW b \in Backends, OpensSweep(b) PROVE DoneInv'
<1>1. PICK r, n : rows' = Append(rows, r) /\ r.status = "running" /\ r.points = <<>> /\ n = Len(rows) + 1
  <2>1. PICK sampler \in Samplers :
          rows' = Append(rows, [status |-> "running", owner |-> b, sampler |-> sampler, points |-> <<>>])
    BY DEF OpensSweep
  <2> QED BY <2>1
<1>2. /\ mem \in [Backends -> Memory] /\ rows \in Seq(SweepRows) /\ mem[b].out = "none" /\ \A c \in Backends : mem[c] \in Memory
  BY DEF IndInv, TypeOK, TaskInv, OpensSweep
<1>3. /\ Len(rows) \in Nat /\ Len(rows') = n /\ rows'[n] = r /\ \A t \in 1..Len(rows) : rows'[t] = rows[t] BY <1>1, <1>2
<1>4. mem' = [c \in Backends |-> IF c = b THEN [mem[b] EXCEPT !.pc = "study", !.sweep = n]
                                          ELSE [mem[c] EXCEPT !.since = @ \cup {n}]]
  BY <1>1 DEF OpensSweep
<1>5. mem'[b].pc = "study" /\ mem'[b].sweep = n /\ mem'[b].out = "none" BY <1>2, <1>4 DEF Memory
<1>6. \A c \in Backends : c # b => SameTask(mem'[c], mem[c]) BY <1>2, <1>4 DEF Memory, SameTask
<1>7. ASSUME NEW c \in Backends, c # b, AtWork(mem[c]) PROVE SameRow(rows'[mem[c].sweep], rows[mem[c].sweep])
  <2>1. mem[c].sweep \in 1..Len(rows) BY <1>7, Working
  <2> QED BY <1>3, <2>1 DEF SameRow
<1>8. ASSUME NEW t \in Sweeps', rows'[t].status = "done" PROVE t \in Sweeps /\ rows[t].status = "done" /\ SameRow(rows'[t], rows[t])
  <2>1. t \in 1..n /\ t # n BY <1>1, <1>3, <1>8 DEF Sweeps
  <2>2. t \in 1..Len(rows) BY <1>1, <1>3, <2>1
  <2> QED BY <1>3, <1>8, <2>2 DEF Sweeps, SameRow
<1>9. ProgressOf(b)'
  <2>1. \A m : Progress(<<>>, m, mem'[b]) BY <1>5 DEF Progress, Measuring
  <2> QED BY <1>1, <1>3, <1>5, <2>1 DEF ProgressOf
<1> QED BY <1>6, <1>7, <1>8, <1>9, DoneStep

\* Closing a sweep, and the end of its process, keep its sampler.
LEMMA SamplerKept ==
  ASSUME NEW r \in Seq(SweepRows), NEW q, NEW s \in 1..Len(r), NEW v, NEW b, q = CloseIn(r, s, v) \/ q = Orphaned(b, r)
  PROVE  \A t \in 1..Len(r) : q[t].sampler = r[t].sampler
<1>1. DOMAIN r = 1..Len(r) /\ \A t \in 1..Len(r) : r[t] \in SweepRows BY RowTyped
<1>2. CASE q = CloseIn(r, s, v)
  <2>1. PICK z : z = [r[s] EXCEPT !.status = IF @ = "running" THEN v ELSE @] OBVIOUS
  <2>2. z.sampler = r[s].sampler BY <1>1, <2>1 DEF SweepRows
  <2>3. q = [r EXCEPT ![s] = z] BY <1>2, <2>1 DEF CloseIn
  <2>4. \A t \in 1..Len(r) : q[t] = IF t = s THEN z ELSE r[t] BY <1>1, <2>3
  <2> QED BY <2>2, <2>4
<1>3. CASE q = Orphaned(b, r)
  <2>1. ASSUME NEW t \in 1..Len(r) PROVE q[t].sampler = r[t].sampler
    <3>1. q[t] = IF r[t].owner = b THEN [r[t] EXCEPT !.owner = Nobody] ELSE r[t] BY <1>1, <1>3 DEF Orphaned
    <3>2. [r[t] EXCEPT !.owner = Nobody].sampler = r[t].sampler BY <1>1 DEF SweepRows
    <3> QED BY <3>1, <3>2
  <2> QED BY <2>1
<1> QED BY <1>2, <1>3

\* A step that keeps every sweep's points and leaves b without a task.
LEMMA RowsKept ==
  ASSUME IndInv, DoneInv, NEW b \in Backends, NEW e, mem' = [mem EXCEPT ![b] = e], ~AtWork(e),
         Len(rows') = Len(rows), \A t \in 1..Len(rows) : SameRow(rows'[t], rows[t]),
         \A t \in 1..Len(rows) : rows'[t].status = "done" => rows[t].status = "done" \/ Finished(rows[t].points, Budget(t))
  PROVE  DoneInv'
<1>1. mem \in [Backends -> Memory] BY DEF IndInv, TypeOK
<1>2. mem'[b] = e /\ \A c \in Backends : c # b => mem'[c] = mem[c] BY <1>1
<1>3. Sweeps' = Sweeps BY DEF Sweeps
<1>4. \A c \in Backends : c # b => SameTask(mem'[c], mem[c]) BY <1>2 DEF SameTask
<1>5. \A c \in Backends : AtWork(mem[c]) => SameRow(rows'[mem[c].sweep], rows[mem[c].sweep]) BY Working
<1>6. ASSUME NEW t \in Sweeps', rows'[t].status = "done"
      PROVE  Finished(rows'[t].points, Budget(t)') \/ (t \in Sweeps /\ rows[t].status = "done" /\ SameRow(rows'[t], rows[t]))
  <2>1. t \in Sweeps /\ t \in 1..Len(rows) BY <1>3 DEF Sweeps
  <2>2. SameRow(rows'[t], rows[t]) BY <2>1
  <2>3. rows'[t].points = rows[t].points /\ Budget(t)' = Budget(t) BY <2>2 DEF SameRow, Budget
  <2> QED BY <1>6, <2>1, <2>2, <2>3
<1>7. ProgressOf(b)' BY <1>2 DEF ProgressOf
<1> QED BY <1>4, <1>5, <1>6, <1>7, DoneStep

\* A sweep is closed as done only once it is finished.
LEMMA ClosesDone == ASSUME IndInv, DoneInv, NEW b \in Backends, Closes(b) PROVE DoneInv'
<1>1. PICK s, v, q : /\ s = mem[b].sweep /\ v = (IF mem[b].end = "stopped" THEN "cancelled" ELSE mem[b].end)
                     /\ q = CloseIn(rows, s, v)
  OBVIOUS
<1>2. PICK e : e = [Idle EXCEPT !.pc = IF mem[b].end = "stopped" THEN "down" ELSE "idle"] OBVIOUS
<1>3. mem' = [mem EXCEPT ![b] = e] /\ ~AtWork(e) BY <1>2 DEF Closes, Idle, AtWork, TaskPcs
<1>4. rows \in Seq(SweepRows) /\ mem[b].pc = "close" /\ v \in {"done", "cancelled", "failed", "stale"}
  BY <1>1 DEF IndInv, TypeOK, TaskInv, Memory, Closes
<1>5. AtWork(mem[b]) BY <1>4 DEF AtWork, TaskPcs
<1>6. s \in 1..Len(rows) /\ rows[s].status = "running" /\ Progress(rows[s].points, Budget(s), mem[b])
  BY <1>1, <1>5, Working DEF IndInv, TaskInv, AtWork, Running
<1>7. v = "done" => Finished(rows[s].points, Budget(s)) BY <1>1, <1>4, <1>6 DEF Progress
<1>8. RowClosed(q, rows, s) BY <1>1, <1>4, <1>6, CloseRow
<1>9. /\ q \in Seq(SweepRows) /\ Len(q) = Len(rows) /\ \A t \in 1..Len(rows) : SameRow(q[t], rows[t])
  <2>1. \A t \in 1..Len(rows) : q[t].sampler = rows[t].sampler BY <1>1, <1>4, <1>6, SamplerKept
  <2> QED BY <1>8, <2>1 DEF RowClosed, SameRow
<1>10. \A t \in 1..Len(rows) : q[t].status = IF t = s THEN v ELSE rows[t].status
  <2>1. PICK z : z = [rows[s] EXCEPT !.status = v] OBVIOUS
  <2>2. rows[s] \in SweepRows BY <1>4, <1>6, RowTyped
  <2>3. z.status = v BY <1>4, <2>1, <2>2 DEF SweepRows
  <2>4. q = [rows EXCEPT ![s] = z] BY <1>1, <1>6, <2>1 DEF CloseIn
  <2> QED BY <1>4, <1>6, <2>3, <2>4
<1>11. /\ Len(rows') = Len(rows) /\ \A t \in 1..Len(rows) : SameRow(rows'[t], rows[t]) /\ rows'[t].status = q[t].status
  <2>1. CASE rows' = q BY <1>9, <2>1
  <2>2. CASE rows' = Orphaned(b, q)
    <3>1. Len(rows') = Len(q) /\ \A t \in 1..Len(q) : rows'[t].points = q[t].points /\ rows'[t].status = q[t].status
      BY <1>9, <2>2, OrphanRows
    <3>2. s \in 1..Len(q) BY <1>6, <1>9
    <3>3. \A t \in 1..Len(q) : rows'[t].sampler = q[t].sampler BY <1>9, <2>2, <3>2, SamplerKept
    <3> QED BY <1>9, <3>1, <3>3 DEF SameRow
  <2> QED BY <1>1, <2>1, <2>2 DEF Closes, Closed, CloseIn
<1>12. \A t \in 1..Len(rows) : rows'[t].status = "done" => rows[t].status = "done" \/ Finished(rows[t].points, Budget(t))
  BY <1>7, <1>10, <1>11
<1> QED BY <1>3, <1>11, <1>12, RowsKept

\* A dead backend's sweep is closed as stale.
LEMMA ReclaimsRowDone == ASSUME IndInv, DoneInv, NEW b \in Backends, ReclaimsRow(b) PROVE DoneInv'
<1>1. PICK s : s = Row(b) OBVIOUS
<1>2. mem[b].pc = "reclaim" /\ mem[b].stale # {} /\ rows' = CloseIn(rows, s, "stale") BY <1>1 DEF ReclaimsRow, Closed, CloseIn
<1>3. rows \in Seq(SweepRows) /\ mem \in [Backends -> Memory] /\ mem[b] \in Memory BY DEF IndInv, TypeOK
<1>4. s \in 1..Len(rows) BY <1>1, <1>2, RowOf DEF Sweeps
<1>5. RowClosed(rows', rows, s) BY <1>2, <1>3, <1>4, CloseRow
<1>6. Len(rows') = Len(rows) /\ \A t \in 1..Len(rows) : SameRow(rows'[t], rows[t])
  BY <1>2, <1>3, <1>4, <1>5, SamplerKept DEF RowClosed, SameRow
<1>7. rows'[s].status = "done" => rows[s].status = "done"
  <2>1. PICK z : z = [rows[s] EXCEPT !.status = IF @ = "running" THEN "stale" ELSE @] OBVIOUS
  <2>2. rows[s] \in SweepRows BY <1>3, <1>4, RowTyped
  <2>3. z.status = "done" => rows[s].status = "done" BY <2>1, <2>2 DEF SweepRows
  <2>4. rows' = [rows EXCEPT ![s] = z] BY <1>2, <2>1 DEF CloseIn
  <2> QED BY <1>3, <1>4, <2>3, <2>4
<1>8. \A t \in 1..Len(rows) : rows'[t].status = "done" => rows[t].status = "done" BY <1>5, <1>7 DEF RowClosed
<1>9. PICK e : e = [mem[b] EXCEPT !.at = 0, !.stale = @ \ {s}] OBVIOUS
<1>10. mem' = [mem EXCEPT ![b] = e] BY <1>1, <1>3, <1>9 DEF ReclaimsRow
<1>11. e.pc = "reclaim" BY <1>2, <1>3, <1>9 DEF Memory
<1>12. ~AtWork(e) BY <1>11 DEF AtWork, TaskPcs
<1> QED BY <1>6, <1>8, <1>10, <1>12, RowsKept

\* A backend dies.
LEMMA CrashDone == ASSUME IndInv, DoneInv, NEW b \in Backends, Crash(b) PROVE DoneInv'
<1>1. PICK e : e = [Idle EXCEPT !.pc = "down"] OBVIOUS
<1>2. mem' = [mem EXCEPT ![b] = e] /\ ~AtWork(e) /\ rows' = Orphaned(b, rows) BY <1>1 DEF Crash, Idle, AtWork, TaskPcs
<1>3. rows \in Seq(SweepRows) BY DEF IndInv, TypeOK
<1>4. Len(rows') = Len(rows) /\ \A t \in 1..Len(rows) : rows'[t].points = rows[t].points /\ rows'[t].status = rows[t].status
  BY <1>2, <1>3, OrphanRows
<1>5. \A t \in 1..Len(rows) : rows'[t].sampler = rows[t].sampler BY <1>2, <1>3, SamplerKept
<1> QED BY <1>2, <1>4, <1>5, RowsKept DEF SameRow

\* The points of a dead backend's sweep are closed; one that is done has none
\* to close.
LEMMA ReclaimsPointDone == ASSUME IndInv, DoneInv, NEW b \in Backends, ReclaimsPoint(b) PROVE DoneInv'
<1>1. PICK s, i, P : s = Row(b) /\ i = mem[b].at /\ P = rows[s].points OBVIOUS
<1>2. PICK v : v = IF P[i].status = "running" THEN "cancelled" ELSE P[i].status OBVIOUS
<1>3. /\ mem[b].pc = "reclaim" /\ mem[b].stale # {} /\ i \in Points(s) /\ rows' = [rows EXCEPT ![s].points[i].status = v]
      /\ mem' = [mem EXCEPT ![b].at = i + 1]
  BY <1>1, <1>2 DEF ReclaimsPoint
<1>4. rows \in Seq(SweepRows) /\ mem \in [Backends -> Memory] /\ mem[b] \in Memory BY DEF IndInv, TypeOK
<1>5. s \in 1..Len(rows) /\ i \in 1..Len(P) /\ i # 0 BY <1>1, <1>3, RowOf DEF Sweeps, Points
<1>6. rows[s] \in SweepRows /\ P \in Seq(PointRows) /\ P[i] \in PointRows BY <1>1, <1>4, <1>5, RowTyped
<1>7. rows[s].owner \in {Nobody, b} BY <1>1, <1>3, <1>5 DEF IndInv, ReclaimInv, ReclaimOf
<1>8. PICK u : u = [P[i] EXCEPT !.status = v] OBVIOUS
<1>9. PICK Q : Q = [P EXCEPT ![i] = u] OBVIOUS
<1>10. PICK z : z = [rows[s] EXCEPT !.points = Q] OBVIOUS
<1>11. z.status = rows[s].status /\ z.points = Q /\ z.sampler = rows[s].sampler BY <1>6, <1>10 DEF SweepRows
<1>12. rows' = [rows EXCEPT ![s] = z] BY <1>1, <1>3, <1>8, <1>9, <1>10
<1>13. DOMAIN rows = 1..Len(rows) /\ Len(rows) \in Nat BY <1>4
<1>14. DOMAIN rows' = 1..Len(rows) /\ \A t \in 1..Len(rows) : rows'[t] = IF t = s THEN z ELSE rows[t] BY <1>5, <1>12, <1>13
<1>15. Len(rows') = Len(rows)
  <2>1. z \in SweepRows
    <3>1. v \in PointSt BY <1>2, <1>6 DEF PointRows, PointSt
    <3>2. u \in PointRows BY <1>6, <1>8, <3>1 DEF PointRows, PointSt
    <3>3. Q \in Seq(PointRows) BY <1>5, <1>6, <1>9, <3>2, ExceptSeq
    <3> QED BY <1>6, <1>10, <3>3 DEF SweepRows
  <2> QED BY <1>4, <1>5, <1>12, <2>1, ExceptSeq
<1>16. PICK e : e = [mem[b] EXCEPT !.at = i + 1] OBVIOUS
<1>17. mem' = [mem EXCEPT ![b] = e] BY <1>3, <1>4, <1>16
<1>18. e.pc = "reclaim" BY <1>3, <1>4, <1>16 DEF Memory
<1>19. ~AtWork(e) BY <1>18 DEF AtWork, TaskPcs
<1>20. mem'[b] = e /\ \A c \in Backends : c # b => mem'[c] = mem[c] BY <1>4, <1>17
<1>21. \A c \in Backends : c # b => SameTask(mem'[c], mem[c]) BY <1>20 DEF SameTask
<1>22. ASSUME NEW c \in Backends, c # b, AtWork(mem[c]) PROVE SameRow(rows'[mem[c].sweep], rows[mem[c].sweep])
  <2>1. mem[c].sweep \in 1..Len(rows) /\ rows[mem[c].sweep].owner = c BY <1>22, Working DEF IndInv, TaskInv, AtWork
  <2>2. mem[c].sweep # s BY <1>7, <1>22, <2>1, PrescreenAssumption
  <2> QED BY <1>14, <2>1, <2>2 DEF SameRow
<1>23. ASSUME NEW t \in Sweeps', rows'[t].status = "done" PROVE t \in Sweeps /\ rows[t].status = "done" /\ SameRow(rows'[t], rows[t])
  <2>1. t \in 1..Len(rows) BY <1>15 DEF Sweeps
  <2>2. CASE t # s BY <1>14, <1>23, <2>1, <2>2 DEF Sweeps, SameRow
  <2>3. CASE t = s
    <3>1. rows[s].status = "done" BY <1>11, <1>14, <1>23, <2>1, <2>3
    <3>2. Finished(P, Budget(s)) BY <1>1, <1>5, <3>1 DEF DoneInv, Sweeps
    <3>3. P[i].status # "running" BY <1>5, <3>2 DEF Finished
    <3>4. u = P[i] BY <1>2, <1>6, <1>8, <3>3 DEF PointRows
    <3>5. Q = P BY <1>5, <1>6, <1>9, <3>4
    <3> QED BY <1>1, <1>11, <1>14, <2>1, <2>3, <3>1, <3>5 DEF Sweeps, SameRow
  <2> QED BY <2>2, <2>3
<1>24. ProgressOf(b)' BY <1>19, <1>20 DEF ProgressOf
<1> QED BY <1>21, <1>22, <1>23, <1>24, DoneStep

\* Before the first backend starts no sweep is there to be done.
LEMMA InitDone == Init => DoneInv
<1> SUFFICES ASSUME Init PROVE DoneInv OBVIOUS
<1>1. Sweeps = {} BY DEF Init, Sweeps
<1>2. \A b \in Backends : mem[b].pc = "down" BY DEF Init, Idle
<1> QED BY <1>1, <1>2 DEF DoneInv, ProgressOf, AtWork, TaskPcs

\* Every step keeps the sweeps that are done complete.
LEMMA NextDone == IndInv /\ DoneInv /\ [Next]_vars => DoneInv'
<1>1. ASSUME IndInv, DoneInv, NEW b \in Backends,
             Boot(b) \/ StartPrescreen(b) \/ CancelPrescreen(b) \/ TaskCancelled(b) \/ CallFails(b) \/ Crash(b)
      PROVE  DoneInv'
  BY <1>1, NoTaskDone, CancelPrescreenDone, TaskCancelledDone, CallFailsDone, CrashDone
<1>2. ASSUME IndInv, DoneInv, NEW b \in Backends, Steps(b) PROVE DoneInv'
  <2>1. CASE Lists(b) \/ Judges(b) \/ ReclaimsPoint(b) \/ ReclaimsRow(b) \/ Reclaimed(b)
    BY <1>2, <2>1, NoTaskDone, ReclaimsPointDone, ReclaimsRowDone
  <2>2. CASE OpensSweep(b) \/ CreatesStudy(b) \/ Trial(b) \/ Leaves(b) \/ Ranks(b) \/ Remeasures(b)
    BY <1>2, <2>2, OpensSweepDone, CreatesStudyDone, TrialDone, LeavesDone, RanksDone, RemeasuresDone
  <2>3. CASE SpawnsBench(b) \/ RecordsGroup(b) \/ Waits(b) \/ SavesPoint(b)
    BY <1>2, <2>3, SpawnsStopsDone, RecordsDone, WaitsDone, SavesPointDone
  <2>4. CASE LoadCheck(b) \/ RecordsServer(b) \/ StopsServer(b) \/ SavesCheck(b) \/ Closes(b)
    BY <1>2, <2>4, LoadCheckDone, RecordsDone, SpawnsStopsDone, SavesCheckDone, ClosesDone
  <2> QED BY <1>2, <2>1, <2>2, <2>3, <2>4 DEF Steps
<1>3. ASSUME IndInv, DoneInv, NEW x \in procs, Exits(x) PROVE DoneInv' BY <1>3, ExitsDone
<1>4. ASSUME DoneInv, UNCHANGED vars PROVE DoneInv'
  <2>1. rows' = rows /\ mem' = mem BY <1>4 DEF vars
  <2> QED BY <1>4, <2>1 DEF DoneInv, ProgressOf, Sweeps, Budget
<1> QED BY <1>1, <1>2, <1>3, <1>4 DEF Next

\* In every reachable state each task is as far as its rows say, and a sweep
\* that is done is finished.
THEOREM DoneInvariance == Spec => []DoneInv
BY InitDone, NextDone, Invariance, PTL DEF Spec

\* A sweep is closed as done only if all of its trials were made and none was
\* cut short, as many leaders as asked for were measured again and as many were
\* load-checked, whatever is cancelled, fails or dies meanwhile.
THEOREM DoneSweepsComplete == Spec => []DoneIsComplete
<1>1. DoneInv => DoneIsComplete
  <2> SUFFICES ASSUME DoneInv, NEW s \in Sweeps, rows[s].status = "done"
               PROVE  LET least(n) == IF n < Cardinality(Oks(s)) THEN n ELSE Cardinality(Oks(s)) IN
                      /\ Cardinality(Search(s)) = Budget(s)
                      /\ \A i \in Points(s) : rows[s].points[i].status \notin {"running", "cancelled"}
                      /\ Cardinality(Points(s) \ Search(s)) = least(REMEASURE)
                      /\ Cardinality({i \in Points(s) : rows[s].points[i].ctx_check}) >= least(CtxChecks)
    BY DEF DoneIsComplete
  <2>1. Finished(rows[s].points, Budget(s)) BY DEF DoneInv
  <2> QED BY <2>1, SetsOf DEF Finished, AtMost, CheckedIn
<1> QED BY <1>1, DoneInvariance, PTL
=============================================================================
