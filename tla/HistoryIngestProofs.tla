------------------------- MODULE HistoryIngestProofs -------------------------
(***************************************************************************)
(* HistoryIngest for any workers, sources, calendars, retentions and       *)
(* faults: a fingerprint stands for its rows, and for sources whose scans  *)
(* list their days in order neither the resume cursor nor backfill_v1 ever *)
(* hides a past day that is missing.                                       *)
(***************************************************************************)
EXTENDS HistoryIngest, FiniteSetTheorems, TLAPS

\* The past days of ordered sources that a backfill still owes.
Ordered == Sources \cap env.sorted
Missing == {p \in Ordered \X Days : p[2] \in Owed(p[1]) /\ ~Frozen(p[1], p[2])}

\* What a worker carries of a past day is what was spent on it.
TrueItem(i) == i.day < env.start => i.rows = used[i.source][i.day]
TrueJob(j) ==
    /\ \A i \in j.found : TrueItem(i)
    /\ \A n \in DOMAIN j.plan : TrueItem(j.plan[n])

\* Which parts of a job are in use at which step.
ShapedJob(j) ==
    /\ j.pc \in {"live", "write", "mark", "cursor"} => j.plan # <<>>
    /\ j.live => j.pc \in {"live", "write", "mark", "prune"}
    /\ j.pc = "live" => j.live
    /\ ~j.live /\ j.pc # "idle" => j.today >= env.start
    /\ j.broken # {} => j.partial

\* Where a backfill has the days that are missing: among those it has found, in its plan,
\* or with a source that it has marked as broken; none is left when it comes to its end
\* without having failed.
Planned(j, s, d) == \E n \in DOMAIN j.plan : j.plan[n].source = s /\ j.plan[n].day = d
Treating(j) == ~j.live /\ j.pc \in {"day", "write", "mark", "cursor"}
HoldsMissing(j, M) ==
    /\ j.pc = "filter" => \A p \in M : \E i \in j.found : i.source = p[1] /\ i.day = p[2]
    /\ Treating(j) => \A p \in M : p[1] \in j.broken \/ Planned(j, p[1], p[2])
    /\ j.pc = "cursor" => <<j.plan[1].source, j.plan[1].day>> \notin M
    /\ ~j.live /\ j.pc \in {"prune", "finish"} /\ ~j.partial => M = {}

\* The days of an ordered source never go back in a plan.
InOrder(j) ==
    Treating(j) => \A m, n \in DOMAIN j.plan :
        m < n /\ j.plan[m].source = j.plan[n].source /\ j.plan[m].source \in env.sorted
            => j.plan[m].day <= j.plan[n].day

JobInv(j, M) == TrueJob(j) /\ ShapedJob(j) /\ HoldsMissing(j, M) /\ InOrder(j)

IInv ==
    /\ env \in Environments
    /\ TypeOK
    /\ env.start <= today
    /\ FingerprintStandsForRows
    /\ \A w \in Workers : JobInv(job[w], Missing)
    /\ \A p \in Missing : p[2] > cursor[p[1]]
    /\ backfill = "done" => Missing = {}

-----------------------------------------------------------------------------
(* Plans.                                                                  *)

\* There are finitely many items.
LEMMA ItemsAreFinite ==
    ASSUME env \in Environments
    PROVE  IsFiniteSet(Item)
  <1> USE HistoryAssumption
  <1>1. env.order \in Seq(AllSources)
    BY DEF HistoryAssumption
  <1>2. IsFiniteSet(Sources)
    <2>1. DOMAIN env.order = 1 .. Len(env.order) /\ Len(env.order) \in Nat
      BY <1>1
    <2>2. IsFiniteSet(DOMAIN env.order)
      BY <2>1, FS_Interval
    <2>3. [n \in DOMAIN env.order |-> env.order[n]] \in Surjection(DOMAIN env.order, Sources)
      BY DEF Surjection, Sources, ToSet
    <2> QED
      BY <2>2, <2>3, FS_Surjection
  <1>3. IsFiniteSet(Days) /\ IsFiniteSet(0 .. MaxUse)
    BY FS_Interval DEF Days, HistoryAssumption
  <1> DEFINE Triples == (Sources \X Days) \X (0 .. MaxUse)
             item == [t \in Triples |-> [source |-> t[1][1], day |-> t[1][2], rows |-> t[2]]]
  <1>4. IsFiniteSet(Triples)
    BY <1>2, <1>3, FS_Product
  <1>5. item \in Surjection(Triples, Item)
    <2>1. \A t \in Triples : item[t] \in Item
      BY DEF Item
    <2>2. ASSUME NEW i \in Item PROVE \E t \in Triples : item[t] = i
      <3>1. <<<<i.source, i.day>>, i.rows>> \in Triples
        BY DEF Item
      <3>2. item[<<<<i.source, i.day>>, i.rows>>] = i
        BY <3>1 DEF Item
      <3> QED
        BY <3>1, <3>2
    <2> QED
      BY <2>1, <2>2 DEF Surjection
  <1> QED
    BY <1>4, <1>5, FS_Surjection

\* A plan is a sequence of exactly the items it was made of, those of an ordered source
\* by day.
LEMMA PlanIsComplete ==
    ASSUME env \in Environments, NEW S \in SUBSET Item, NEW q \in Plans(S)
    PROVE  /\ q \in Seq(Item) /\ DOMAIN q = 1 .. Len(q)
           /\ \A n \in DOMAIN q : q[n] \in S
           /\ \A i \in S : \E n \in DOMAIN q : q[n] = i
           /\ \A m, n \in DOMAIN q :
                m < n /\ q[m].source = q[n].source /\ q[m].source \in env.sorted
                    => q[m].day <= q[n].day
  <1>1. IsFiniteSet(S)
    BY ItemsAreFinite, FS_Subset
  <1> DEFINE D == 1 .. Cardinality(S)
  <1>2. Cardinality(S) \in Nat /\ IsFiniteSet(D) /\ Cardinality(D) = Cardinality(S)
    BY <1>1, FS_CardinalityType, FS_Interval
  <1>3. q \in [D -> S] /\ \A i, j \in D : i # j => q[i] # q[j]
    BY DEF Plans, SetToSeqs
  <1>4. q \in Injection(D, S)
    BY <1>3 DEF Injection, IsInjective
  <1>5. q \in Surjection(D, S)
    BY <1>1, <1>2, <1>4, FS_Injection
  <1>6. \A i \in S : \E n \in DOMAIN q : q[n] = i
    BY <1>3, <1>5 DEF Surjection
  <1>7. q \in Seq(Item) /\ DOMAIN q = 1 .. Len(q)
    <2>1. q \in [D -> Item]
      BY <1>3
    <2> QED
      BY <1>2, <2>1
  <1>8. ASSUME NEW m \in DOMAIN q, NEW n \in DOMAIN q,
               m < n, q[m].source = q[n].source, q[m].source \in env.sorted
        PROVE  q[m].day <= q[n].day
    <2>1. ~Precedes(q[n], q[m])
      <3>1. Precedes(q[n], q[m]) => n < m
        BY DEF Plans
      <3> QED
        BY <1>3, <1>8, <3>1
    <2>2. q[m].day \in Int /\ q[n].day \in Int
      BY <1>3 DEF Item, Days
    <2> QED
      BY <1>8, <2>1, <2>2 DEF Precedes
  <1> QED
    BY <1>3, <1>6, <1>7, <1>8

-----------------------------------------------------------------------------
(* Types.                                                                  *)

\* What depends on env alone.
LEMMA SameWorld ==
    ASSUME env' = env
    PROVE  /\ Sources' = Sources /\ Days' = Days /\ Item' = Item /\ Job' = Job
           /\ Ordered' = Ordered
  BY DEF Sources, Days, Item, Job, Ordered

LEMMA WorldTyped ==
    ASSUME env \in Environments
    PROVE  /\ env.workers \subseteq Workers
           /\ env.start \in Nat /\ env.last \in Nat /\ 1 <= env.start /\ env.start <= env.last
           /\ env.retentions \subseteq Nat /\ env.maxFaults \in Nat /\ MaxUse \in Nat
  BY HistoryAssumption DEF HistoryAssumption

\* Every item a worker holds is one of the sources and days there are.
LEMMA CurrentTyped ==
    ASSUME TypeOK, NEW w \in Workers, job[w].plan # <<>>
    PROVE  /\ Current(w) \in Item /\ Current(w) = job[w].plan[1]
           /\ Current(w).source \in Sources /\ Current(w).day \in Days
           /\ Current(w).rows \in 0 .. MaxUse
           /\ NextDay(job[w]) \in Job
  <1>1. job[w] \in Job /\ job[w].plan \in Seq(Item)
    BY DEF TypeOK, Job
  <1>2. Current(w) \in Item /\ Current(w) = job[w].plan[1]
    BY <1>1 DEF Current
  <1>3. Tail(job[w].plan) \in Seq(Item)
    BY <1>1
  <1>4. NextDay(job[w]) \in Job
    BY <1>1, <1>3 DEF NextDay, Job
  <1> QED
    BY <1>2, <1>4 DEF Item

LEMMA IdleTyped ==
    ASSUME env \in Environments
    PROVE  Idle \in Job
  <1>1. 0 \in 0 .. env.last
    BY WorldTyped
  <1> QED
    BY <1>1 DEF Idle, Job

\* Steps that neither a worker takes.
LEMMA WorldStepTyped ==
    ASSUME IInv, env' = env,
           \/ Midnight
           \/ \E k \in env.retentions : SetRetention(k)
           \/ \E s \in Sources : Spend(s) \/ \E d \in Days : Forget(s, d)
    PROVE  TypeOK'
  <1> USE SameWorld, WorldTyped DEF IInv, TypeOK, day_tables, meta
  <1>1. CASE Midnight
    BY <1>1 DEF Midnight, Days
  <1>2. CASE \E k \in env.retentions : SetRetention(k)
    BY <1>2 DEF SetRetention
  <1>3. ASSUME NEW s \in Sources, Spend(s) PROVE TypeOK'
    <2>1. used' \in [Sources -> [Days -> 0 .. MaxUse]]
      BY <1>3 DEF Spend
    <2> QED
      BY <1>3, <2>1 DEF Spend
  <1>4. ASSUME NEW s \in Sources, NEW d \in Days, Forget(s, d) PROVE TypeOK'
    BY <1>4 DEF Forget
  <1> QED
    BY <1>1, <1>2, <1>3, <1>4

\* A step of a worker on its own job.
LEMMA JobTyped ==
    ASSUME TypeOK, env' = env, NEW w \in Workers, NEW j \in Job, job' = [job EXCEPT ![w] = j]
    PROVE  job' \in [Workers -> Job]' /\ job'[w] = j /\ \A v \in Workers \ {w} : job'[v] = job[v]
  BY SameWorld DEF TypeOK

\* Each step of a worker.
LEMMA WorkTyped ==
    ASSUME IInv, env' = env, NEW w \in Workers,
           BeginBackfill(w) \/ Work(w) \/ Cancel(w) \/ Crash(w) \/ \E s \in Sources : LiveScan(w, s)
    PROVE  TypeOK'
  <1> USE DEF day_tables, meta, world
  <1>0. env \in Environments /\ TypeOK /\ ShapedJob(job[w]) /\ job[w] \in Job
    BY DEF IInv, JobInv, TypeOK
  <1>1. /\ env.maxFaults \in Nat
        /\ Fault => faults' \in 0 .. env.maxFaults
        /\ env.last \in Nat /\ today \in 0 .. env.last
    BY <1>0, WorldTyped DEF Fault, TypeOK, Days
  <1>2. Idle \in Job /\ \A x : Go(w, x) /\ x \in {"day", "write", "mark", "cursor", "prune", "finish"}
                               => job' \in [Workers -> Job]
    <2>1. Idle \in Job
      BY <1>0, IdleTyped
    <2>2. ASSUME NEW x \in {"day", "write", "mark", "cursor", "prune", "finish"}, Go(w, x)
          PROVE  job' \in [Workers -> Job]
      <3>1. [job[w] EXCEPT !.pc = x] \in Job
        BY <1>0 DEF Job
      <3> QED
        BY <1>0, <2>2, <3>1 DEF Go, Become, TypeOK
    <2> QED
      BY <2>1, <2>2
  <1>3. CASE BeginBackfill(w)
    <2>1. [Idle EXCEPT !.pc = "scan", !.today = today] \in Job
      BY <1>1, <1>2 DEF Idle, Job
    <2> QED
      BY <1>0, <1>3, <2>1, SameWorld DEF BeginBackfill, Become, TypeOK
  <1>4. CASE Scan(w)
    <2>1. PICK unread \in SUBSET Sources :
             /\ faults' = faults \/ Fault
             /\ missed' = missed \cup unread
             /\ Become(w, [job[w] EXCEPT !.pc = "filter", !.found = Found(Sources \ unread)])
      BY <1>4 DEF Scan
    <2>2. [job[w] EXCEPT !.pc = "filter", !.found = Found(Sources \ unread)] \in Job
      <3>1. Found(Sources \ unread) \subseteq Item
        BY DEF Found
      <3> QED
        BY <1>0, <3>1 DEF Job
    <2> QED
      BY <1>0, <1>1, <1>4, <2>1, <2>2, SameWorld DEF Scan, Become, TypeOK
  <1>5. CASE Filter(w)
    <2>1. PICK plan \in Plans({i \in job[w].found : i.day > cursor[i.source]}) :
             Become(w, [job[w] EXCEPT !.pc = "day", !.found = {}, !.plan = plan])
      BY <1>5 DEF Filter
    <2>2. plan \in Seq(Item)
      <3>1. {i \in job[w].found : i.day > cursor[i.source]} \in SUBSET Item
        BY <1>0 DEF Job
      <3> QED
        BY <1>0, <3>1, PlanIsComplete
    <2>3. [job[w] EXCEPT !.pc = "day", !.found = {}, !.plan = plan] \in Job
      BY <1>0, <2>2 DEF Job
    <2> QED
      BY <1>0, <1>5, <2>1, <2>3, SameWorld DEF Filter, Become, TypeOK
  <1>6. CASE TreatDay(w)
    <2>1. NextDay(job[w]) \in Job
      BY <1>0, <1>6, CurrentTyped DEF TreatDay
    <2>2. job' \in [Workers -> Job]
      BY <1>0, <1>2, <1>6, <2>1 DEF TreatDay, Advance, Become, TypeOK
    <2> QED
      BY <1>0, <1>6, <2>2, SameWorld DEF TreatDay, TypeOK
  <1>7. CASE LastDayTreated(w)
    BY <1>0, <1>2, <1>7, SameWorld DEF LastDayTreated, TypeOK
  <1>8. CASE Cancel(w)
    <2>1. [job[w] EXCEPT !.pc = "prune", !.plan = <<>>, !.partial = TRUE] \in Job
      <3>1. <<>> \in Seq(Item)
        OBVIOUS
      <3> QED
        BY <1>0, <3>1 DEF Job
    <2> QED
      BY <1>0, <1>1, <1>8, <2>1, SameWorld DEF Cancel, Become, TypeOK
  <1>9. ASSUME NEW s \in Sources, LiveScan(w, s) PROVE TypeOK'
    <2>1. [source |-> s, day |-> today, rows |-> used[s][today]] \in Item
      BY <1>0 DEF TypeOK, Item
    <2>2. [Idle EXCEPT !.pc = "live", !.live = TRUE,
              !.plan = <<[source |-> s, day |-> today, rows |-> used[s][today]]>>] \in Job
      <3>1. <<[source |-> s, day |-> today, rows |-> used[s][today]]>> \in Seq(Item)
        BY <2>1
      <3> QED
        BY <1>2, <3>1 DEF Idle, Job
    <2> QED
      BY <1>0, <1>9, <2>2, SameWorld DEF LiveScan, Become, TypeOK
  <1>10. CASE RecordLive(w)
    <2>1. Current(w) \in Item
      BY <1>0, <1>10, CurrentTyped DEF RecordLive, At, ShapedJob
    <2> DEFINE i == [Current(w) EXCEPT !.day = today]
    <2>2. i \in Item
      BY <1>0, <2>1 DEF TypeOK, Item
    <2>3. [job[w] EXCEPT !.pc = IF Unchanged(i) THEN "prune" ELSE "write", !.plan = <<i>>] \in Job
      <3>1. <<i>> \in Seq(Item)
        BY <2>2
      <3> HIDE DEF i
      <3> QED
        BY <1>0, <3>1 DEF Job
    <2> QED
      BY <1>0, <1>10, <2>3, SameWorld DEF RecordLive, Become, TypeOK
  <1>11. CASE Write(w)
    <2>1. /\ Current(w).source \in Sources /\ Current(w).day \in Days
          /\ Current(w).rows \in 0 .. MaxUse
      BY <1>0, <1>11, CurrentTyped DEF Write, At, ShapedJob
    <2>2. job' \in [Workers -> Job]
      BY <1>2, <1>11 DEF Write
    <2>3. /\ rows' \in [Sources -> [Days -> 0 .. MaxUse]]
          /\ finger' \in [Sources -> [Days -> {NoFingerprint} \cup 0 .. MaxUse]]
          /\ ingest' \in [Sources -> [Days -> IngestStates]]
      BY <1>0, <1>11, <2>1 DEF Write, TypeOK, IngestStates
    <2> QED
      BY <1>0, <1>11, <2>2, <2>3, SameWorld DEF Write, TypeOK
  <1>12. CASE WriteFails(w)
    BY <1>0, <1>1, <1>2, <1>12, SameWorld DEF WriteFails, TypeOK
  <1>13. CASE Mark(w)
    <2>1. /\ Current(w).source \in Sources /\ Current(w).day \in Days
          /\ NextDay(job[w]) \in Job
      BY <1>0, <1>13, CurrentTyped DEF Mark, At, ShapedJob
    <2>2. [NextDay(job[w]) EXCEPT !.broken = @ \cup {Current(w).source}, !.partial = TRUE] \in Job
      BY <2>1 DEF Job
    <2>3. job' \in [Workers -> Job]
      BY <1>0, <1>2, <1>13, <2>2 DEF Mark, Become, TypeOK
    <2>4. ingest' \in [Sources -> [Days -> IngestStates]]
      <3>1. \/ ingest' = [ingest EXCEPT ![Current(w).source][Current(w).day] = "Failed"]
            \/ ingest' = ingest
        BY <1>13 DEF Mark
      <3>2. ingest \in [Sources -> [Days -> IngestStates]] /\ "Failed" \in IngestStates
        BY <1>0 DEF TypeOK, IngestStates
      <3> QED
        BY <2>1, <3>1, <3>2
    <2>5. faults' \in 0 .. env.maxFaults
      BY <1>0, <1>1, <1>13 DEF Mark, TypeOK
    <2> QED
      BY <1>0, <1>13, <2>3, <2>4, <2>5, SameWorld DEF Mark, TypeOK
  <1>14. CASE MoveCursor(w)
    <2>1. /\ Current(w).source \in Sources /\ Current(w).day \in Days
          /\ NextDay(job[w]) \in Job
      BY <1>0, <1>14, CurrentTyped DEF MoveCursor, At, ShapedJob
    <2>2. cursor' \in [Sources -> 0 .. env.last]
      <3>1. \/ cursor' = [cursor EXCEPT ![Current(w).source] = Current(w).day]
            \/ cursor' = cursor
        BY <1>14 DEF MoveCursor
      <3>2. Current(w).day \in 0 .. env.last
        BY <1>1, <2>1 DEF Days
      <3> QED
        BY <1>0, <2>1, <3>1, <3>2 DEF TypeOK
    <2>3. faults' \in 0 .. env.maxFaults
      BY <1>0, <1>1, <1>14 DEF MoveCursor, TypeOK
    <2> QED
      BY <1>0, <1>14, <2>1, <2>2, <2>3, SameWorld DEF MoveCursor, Advance, Become, TypeOK
  <1>15. CASE Prune(w)
    <2>1. rows' \in [Sources -> [Days -> 0 .. MaxUse]]
      <3>1. \/ rows' = [s \in Sources |-> [d \in Days |->
                         IF keep > 0 /\ d < today - keep THEN 0 ELSE rows[s][d]]]
            \/ rows' = rows
        BY <1>15 DEF Prune
      <3>2. rows \in [Sources -> [Days -> 0 .. MaxUse]] /\ 0 \in 0 .. MaxUse
        BY <1>0, HistoryAssumption DEF TypeOK
      <3> QED
        BY <3>1, <3>2
    <2>3. faults' \in 0 .. env.maxFaults
      BY <1>0, <1>1, <1>15 DEF Prune, TypeOK
    <2>2. job' \in [Workers -> Job]
      BY <1>0, <1>2, <1>15 DEF Prune, TypeOK
    <2> QED
      BY <1>0, <1>15, <2>1, <2>2, <2>3, SameWorld DEF Prune, TypeOK
  <1>16. CASE Finish(w)
    BY <1>0, <1>1, <1>2, <1>16, SameWorld DEF Finish, TypeOK
  <1>17. CASE Crash(w)
    BY <1>0, <1>1, <1>2, <1>17, SameWorld DEF Crash, TypeOK
  <1> QED
    BY <1>3, <1>4, <1>5, <1>6, <1>7, <1>8, <1>9, <1>10, <1>11, <1>12, <1>13, <1>14, <1>15,
       <1>16, <1>17 DEF Work

-----------------------------------------------------------------------------
(* What steps leave of the rows, the fingerprints and the missing days.    *)

\* The worker's steps, and what may happen around them.
WorkerStep(w) ==
    \/ BeginBackfill(w) \/ Work(w) \/ Cancel(w) \/ Crash(w)
    \/ \E s \in Sources : LiveScan(w, s)
WorldStep ==
    \/ Midnight
    \/ \E k \in env.retentions : SetRetention(k)
    \/ \E s \in Sources : Spend(s) \/ \E d \in Days : Forget(s, d)

LEMMA StepCases ==
    ASSUME IInv, [Next]_allVars
    PROVE  /\ env' = env
           /\ WorldStep \/ (\E w \in Workers : WorkerStep(w)) \/ UNCHANGED allVars
  <1>1. env.workers \subseteq Workers
    BY WorldTyped DEF IInv
  <1> QED
    BY <1>1 DEF Next, WorkerStep, WorldStep, allVars

\* A worker leaves the world alone, and a retained day keeps its row and its fingerprint
\* or gets both at once; what a past day gets is what was spent on it.
LEMMA RowsOfWorkerStep ==
    ASSUME IInv, env' = env, NEW w \in Workers, WorkerStep(w)
    PROVE  /\ UNCHANGED world /\ missed \subseteq missed'
           /\ \A s \in Sources, d \in Days : Retained(d) =>
                \/ rows'[s][d] = rows[s][d] /\ finger'[s][d] = finger[s][d]
                \/ /\ rows'[s][d] = finger'[s][d]
                   /\ d < env.start => rows'[s][d] = used[s][d]
  <1> DEFINE P == \A s \in Sources, d \in Days : Retained(d) =>
                    \/ rows'[s][d] = rows[s][d] /\ finger'[s][d] = finger[s][d]
                    \/ /\ rows'[s][d] = finger'[s][d]
                       /\ d < env.start => rows'[s][d] = used[s][d]
  <1>0. TypeOK /\ JobInv(job[w], Missing)
    BY DEF IInv
  <1>1. UNCHANGED world /\ missed \subseteq missed'
    BY DEF WorkerStep, Work, BeginBackfill, Scan, Filter, TreatDay, LastDayTreated, Cancel,
           LiveScan, RecordLive, Write, WriteFails, Mark, MoveCursor, Prune, Finish, Crash
  <1>2. CASE Write(w)
    <2>1. /\ Current(w) = job[w].plan[1] /\ 1 \in DOMAIN job[w].plan
          /\ Current(w).source \in Sources /\ Current(w).day \in Days
      <3>1. job[w].plan # <<>> /\ job[w].plan \in Seq(Item)
        BY <1>0, <1>2 DEF Write, At, JobInv, ShapedJob, TypeOK, Job
      <3> QED
        BY <1>0, <3>1, CurrentTyped
    <2>2. Current(w).day < env.start => Current(w).rows = used[Current(w).source][Current(w).day]
      BY <1>0, <2>1 DEF JobInv, TrueJob, TrueItem
    <2>3. /\ rows' = [rows EXCEPT ![Current(w).source][Current(w).day] = Current(w).rows]
          /\ finger' = [finger EXCEPT ![Current(w).source][Current(w).day] = Current(w).rows]
      BY <1>2 DEF Write
    <2>4. P
      BY <1>0, <2>1, <2>2, <2>3 DEF TypeOK
    <2> QED
      BY <1>1, <2>4
  <1>3. CASE Prune(w)
    <2>1. UNCHANGED finger
      BY <1>3 DEF Prune
    <2>2. ASSUME NEW s \in Sources, NEW d \in Days, Retained(d) PROVE rows'[s][d] = rows[s][d]
      <3>1. keep = 0 \/ d >= today - keep
        BY <1>0, <2>2 DEF Retained, TypeOK
      <3>2. keep \in Nat /\ today \in Int /\ d \in Int
        BY <1>0, WorldTyped DEF TypeOK, Days, IInv
      <3>3. ~(keep > 0 /\ d < today - keep)
        BY <3>1, <3>2
      <3> QED
        BY <1>3, <3>3 DEF Prune
    <2> QED
      BY <1>1, <2>1, <2>2
  <1>4. CASE ~Write(w) /\ ~Prune(w)
    <2>1. UNCHANGED <<rows, finger>>
      BY <1>4 DEF WorkerStep, Work, BeginBackfill, Scan, Filter, TreatDay, LastDayTreated, Cancel,
                  LiveScan, RecordLive, WriteFails, Mark, MoveCursor, Finish, Crash, day_tables
    <2> QED
      BY <1>1, <2>1
  <1> QED
    BY <1>2, <1>3, <1>4

\* The world spends today only, time passes, and sources forget.
LEMMA WorldStepKeeps ==
    ASSUME IInv, env' = env, WorldStep
    PROVE  /\ UNCHANGED <<day_tables, meta, job, faults, missed>>
           /\ today <= today'
           /\ \A s \in Sources : readable'[s] \subseteq readable[s]
           /\ \A s \in Sources, d \in Days : d < env.start => used'[s][d] = used[s][d]
  <1>0. TypeOK /\ env.start \in Nat /\ env.start <= today /\ today \in Nat
    BY WorldTyped DEF IInv, TypeOK, Days
  <1>1. CASE Midnight
    BY <1>0, <1>1 DEF Midnight
  <1>2. CASE \E k \in env.retentions : SetRetention(k)
    BY <1>0, <1>2 DEF SetRetention
  <1>3. ASSUME NEW s \in Sources, Spend(s)
        PROVE  /\ UNCHANGED <<day_tables, meta, job, faults, missed>>
               /\ UNCHANGED <<today, readable>>
               /\ \A t \in Sources, d \in Days : d < env.start => used'[t][d] = used[t][d]
    <2>1. UNCHANGED <<day_tables, meta, job, faults, missed, today, readable>>
      BY <1>3 DEF Spend
    <2>2. ASSUME NEW t \in Sources, NEW d \in Days, d < env.start PROVE used'[t][d] = used[t][d]
      <3>1. d # today
        BY <1>0, <2>2 DEF Days
      <3>2. used' = [used EXCEPT ![s][today] = @ + 1]
        BY <1>3 DEF Spend
      <3> QED
        BY <1>0, <3>1, <3>2 DEF TypeOK
    <2> QED
      BY <2>1, <2>2
  <1>4. ASSUME NEW s \in Sources, NEW d \in Days, Forget(s, d)
        PROVE  /\ UNCHANGED <<day_tables, meta, job, faults, missed, today, used>>
               /\ \A t \in Sources : readable'[t] \subseteq readable[t]
    BY <1>0, <1>4 DEF Forget, TypeOK
  <1> QED
    BY <1>0, <1>1, <1>2, <1>3, <1>4 DEF WorldStep

\* A day that is retained later has been retained all along.
LEMMA RetainedBefore ==
    ASSUME IInv, env' = env, today' \in Nat, today <= today', NEW d \in Days, Retained(d)'
    PROVE  Retained(d)
  <1>1. env.retentions \subseteq Nat /\ today \in Nat /\ d \in Nat
    BY WorldTyped DEF IInv, TypeOK, Days
  <1> QED
    BY <1>1 DEF Retained

\* Days pass, what was spent on past days is known, sources only forget, and a retained
\* day keeps its row and fingerprint or gets both.
LEMMA StepKeeps ==
    ASSUME IInv, TypeOK', [Next]_allVars
    PROVE  /\ env' = env /\ Days' = Days /\ Sources' = Sources /\ Ordered' = Ordered
           /\ today <= today' /\ missed \subseteq missed'
           /\ \A s \in Sources : readable'[s] \subseteq readable[s]
           /\ \A s \in Sources, d \in Days : d < env.start => used'[s][d] = used[s][d]
           /\ \A s \in Sources, d \in Days : Retained(d) =>
                \/ rows'[s][d] = rows[s][d] /\ finger'[s][d] = finger[s][d]
                \/ /\ rows'[s][d] = finger'[s][d]
                   /\ d < env.start => rows'[s][d] = used[s][d]
           /\ \A d \in Days : Retained(d)' => Retained(d)
  <1>0. /\ env' = env /\ TypeOK
        /\ today \in Nat /\ today' \in Nat /\ Days' = Days /\ Sources' = Sources
        /\ Ordered' = Ordered
    <2>1. env' = env
      BY StepCases
    <2>2. Days' = Days /\ Sources' = Sources /\ Ordered' = Ordered
      BY <2>1, SameWorld
    <2>3. TypeOK /\ today \in Days /\ today' \in Days
      BY <2>2 DEF IInv, TypeOK
    <2>4. env.last \in Nat
      BY WorldTyped DEF IInv
    <2> QED
      BY <2>1, <2>2, <2>3, <2>4 DEF Days
  <1> DEFINE Kept ==
        /\ today <= today' /\ missed \subseteq missed'
        /\ \A s \in Sources : readable'[s] \subseteq readable[s]
        /\ \A s \in Sources, d \in Days : d < env.start => used'[s][d] = used[s][d]
        /\ \A s \in Sources, d \in Days : Retained(d) =>
             \/ rows'[s][d] = rows[s][d] /\ finger'[s][d] = finger[s][d]
             \/ /\ rows'[s][d] = finger'[s][d]
                /\ d < env.start => rows'[s][d] = used[s][d]
  <1>1. Kept
    <2>1. CASE WorldStep
      BY <1>0, <2>1, WorldStepKeeps DEF day_tables
    <2>2. ASSUME NEW w \in Workers, WorkerStep(w) PROVE Kept
      BY <1>0, <2>2, RowsOfWorkerStep DEF world
    <2>3. CASE UNCHANGED allVars
      BY <1>0, <2>3 DEF allVars, vars
    <2> QED
      BY <2>1, <2>2, <2>3, StepCases
  <1>2. \A d \in Days : Retained(d)' => Retained(d)
    BY <1>0, <1>1, RetainedBefore
  <1> QED
    BY <1>0, <1>1, <1>2

\* No past day goes missing, and fingerprints keep standing for the rows.
LEMMA MissingShrinks ==
    ASSUME IInv, TypeOK', [Next]_allVars
    PROVE  Missing' \subseteq Missing /\ FingerprintStandsForRows'
  <1>1. FingerprintStandsForRows'
    <2> SUFFICES ASSUME NEW s \in Sources, NEW d \in Days, Retained(d)',
                        finger'[s][d] # NoFingerprint
                 PROVE  rows'[s][d] = finger'[s][d]
      BY StepKeeps DEF FingerprintStandsForRows, StandsForRows, NoFingerprint
    <2> QED
      BY StepKeeps DEF FingerprintStandsForRows, StandsForRows, IInv
  <1>2. Missing' \subseteq Missing
    <2> SUFFICES ASSUME NEW p \in Missing' PROVE p \in Missing
      OBVIOUS
    <2> DEFINE s == p[1]  d == p[2]
    <2>1. /\ p \in Ordered \X Days /\ s \in Sources /\ d \in Days
          /\ d \in readable'[s] /\ d < env.start /\ used'[s][d] > 0 /\ s \notin missed'
          /\ Retained(d)' /\ rows'[s][d] # used'[s][d]
      BY StepKeeps DEF Missing, Owed, Frozen, Ordered
    <2>2. used'[s][d] = used[s][d] /\ Retained(d)
      BY <2>1, StepKeeps
    <2>3. rows[s][d] # used[s][d]
      BY <2>1, <2>2, StepKeeps
    <2> QED
      BY <2>1, <2>2, <2>3, StepKeeps DEF Missing, Owed, Frozen
  <1> QED
    BY <1>1, <1>2

-----------------------------------------------------------------------------
(* What a worker knows of the missing days.                                *)

\* A worker that holds all missing days holds fewer of them as well.
LEMMA HoldsLess ==
    ASSUME NEW j, NEW M, NEW N \in SUBSET M, JobInv(j, M)
    PROVE  JobInv(j, N)
  <1>1. HoldsMissing(j, M) => HoldsMissing(j, N)
    BY DEF HoldsMissing
  <1> QED
    BY <1>1 DEF JobInv

LEMMA IdleHolds ==
    ASSUME NEW M
    PROVE  JobInv(Idle, M)
  BY DEF JobInv, TrueJob, ShapedJob, HoldsMissing, InOrder, Treating, Idle

\* The day at the head of a plan may be left behind when it is not missing, or when its
\* source is marked.
LEMMA NextDayHolds ==
    ASSUME NEW j \in Job, NEW M \in SUBSET (Sources \X Days), JobInv(j, M), Treating(j), j.plan # <<>>,
           NEW k \in Job, k.pc = "day", ~k.live, k.today = j.today, k.found = j.found,
           k.plan = Tail(j.plan), j.broken \subseteq k.broken, k.broken # {} => k.partial,
           <<j.plan[1].source, j.plan[1].day>> \notin M \/ j.plan[1].source \in k.broken
    PROVE  JobInv(k, M)
  <1>1. /\ j.plan \in Seq(Item)
        /\ Len(k.plan) \in Nat /\ Len(j.plan) = Len(k.plan) + 1
        /\ DOMAIN k.plan = 1 .. Len(k.plan) /\ DOMAIN j.plan = 1 .. Len(j.plan)
        /\ \A n \in DOMAIN k.plan : n + 1 \in DOMAIN j.plan /\ k.plan[n] = j.plan[n + 1]
    BY DEF Job
  <1>2. TrueJob(k)
    BY <1>1 DEF JobInv, TrueJob
  <1>3. ShapedJob(k)
    BY DEF JobInv, ShapedJob, Treating
  <1>4. InOrder(k)
    <2> SUFFICES ASSUME NEW m \in DOMAIN k.plan, NEW n \in DOMAIN k.plan,
                        m < n, k.plan[m].source = k.plan[n].source,
                        k.plan[m].source \in env.sorted
                 PROVE  k.plan[m].day <= k.plan[n].day
      BY DEF InOrder
    <2>1. m + 1 < n + 1
      BY <1>1
    <2> QED
      BY <1>1, <2>1 DEF JobInv, InOrder
  <1>5. HoldsMissing(k, M)
    <2> SUFFICES ASSUME NEW p \in M, p[1] \notin k.broken
                 PROVE  Planned(k, p[1], p[2])
      BY DEF HoldsMissing, Treating
    <2>1. PICK n \in DOMAIN j.plan : j.plan[n].source = p[1] /\ j.plan[n].day = p[2]
      BY DEF JobInv, HoldsMissing, Planned
    <2>2. n # 1
      BY <2>1
    <2>3. n - 1 \in DOMAIN k.plan /\ k.plan[n - 1] = j.plan[n]
      BY <1>1, <2>2
    <2> QED
      BY <2>1, <2>3 DEF Planned
  <1> QED
    BY <1>2, <1>3, <1>4, <1>5 DEF JobInv

\* Each step of a worker keeps what it knows.
LEMMA WorkerHolds ==
    ASSUME IInv, TypeOK', [Next]_allVars, NEW w \in Workers, WorkerStep(w)
    PROVE  JobInv(job'[w], Missing')
  <1> DEFINE j == job[w]
  <1>0. /\ env' = env /\ TypeOK /\ JobInv(j, Missing) /\ j \in Job /\ j.plan \in Seq(Item)
        /\ job \in [Workers -> Job]
        /\ Missing' \in SUBSET Missing /\ Missing \in SUBSET (Sources \X Days)
        /\ env.start \in Nat /\ env.start <= today /\ today \in Nat
    <2>1. TypeOK /\ JobInv(j, Missing) /\ env.start <= today /\ env \in Environments
      BY DEF IInv
    <2>2. j \in Job /\ j.plan \in Seq(Item) /\ job \in [Workers -> Job]
      BY <2>1 DEF TypeOK, Job
    <2>3. env.start \in Nat /\ today \in Nat
      BY <2>1, WorldTyped DEF TypeOK, Days
    <2>4. Missing \in SUBSET (Sources \X Days)
      BY DEF Missing, Ordered
    <2> QED
      BY <2>1, <2>2, <2>3, <2>4, StepCases, MissingShrinks
  <1>1. /\ ShapedJob(j) /\ TrueJob(j) /\ HoldsMissing(j, Missing) /\ InOrder(j)
        /\ \A p \in Missing : p[2] < env.start
    BY <1>0 DEF JobInv, Missing, Owed
  <1>2. ASSUME j.plan # <<>>
        PROVE  /\ Current(w) = j.plan[1] /\ Current(w) \in Item
               /\ Current(w).source \in Sources /\ Current(w).day \in Days
               /\ 1 \in DOMAIN j.plan /\ TrueItem(j.plan[1])
    BY <1>0, <1>1, <1>2, CurrentTyped DEF TrueJob
  <1> HIDE DEF j
  <1>3. ASSUME NEW k, job' = [job EXCEPT ![w] = k] PROVE job'[w] = k
    BY <1>0, <1>3
  <1>4. ASSUME NEW k, Become(w, k), JobInv(k, Missing) PROVE JobInv(job'[w], Missing')
    BY <1>0, <1>3, <1>4, HoldsLess DEF Become
  <1>5. ASSUME job' = [job EXCEPT ![w] = Idle] PROVE JobInv(job'[w], Missing')
    BY <1>0, <1>3, <1>5, IdleHolds
  <1>6. CASE BeginBackfill(w)
    <2>1. JobInv([Idle EXCEPT !.pc = "scan", !.today = today], Missing)
      BY <1>0 DEF JobInv, TrueJob, ShapedJob, HoldsMissing, InOrder, Treating, Idle
    <2> QED
      BY <1>4, <1>6, <2>1 DEF BeginBackfill
  <1>7. CASE \E s \in Sources : LiveScan(w, s)
    <2>1. PICK s \in Sources : LiveScan(w, s)
      BY <1>7
    <2> DEFINE k == [Idle EXCEPT !.pc = "live", !.live = TRUE,
                        !.plan = <<[source |-> s, day |-> today, rows |-> used[s][today]]>>]
    <2>2. JobInv(k, Missing)
      BY <1>0 DEF JobInv, TrueJob, TrueItem, ShapedJob, HoldsMissing, InOrder, Treating, Idle
    <2> QED
      BY <1>4, <2>1, <2>2 DEF LiveScan
  <1>8. CASE RecordLive(w)
    <2> DEFINE i == [Current(w) EXCEPT !.day = today]
               k == [j EXCEPT !.pc = IF Unchanged(i) THEN "prune" ELSE "write", !.plan = <<i>>]
    <2>1. j.pc = "live" /\ j.live /\ Become(w, k)
      BY <1>1, <1>8 DEF RecordLive, At, j, ShapedJob
    <2>2. i.day = today
      BY <1>1, <1>2, <2>1 DEF ShapedJob, Item
    <2> HIDE DEF i
    <2>3. JobInv(k, Missing)
      BY <1>0, <1>1, <2>1, <2>2
         DEF JobInv, TrueJob, TrueItem, ShapedJob, HoldsMissing, InOrder, Treating, Job
    <2> QED
      BY <1>4, <2>1, <2>3
  <1>9. CASE Scan(w)
    <2>1. PICK unread \in SUBSET Sources :
             /\ missed' = missed \cup unread
             /\ Become(w, [j EXCEPT !.pc = "filter", !.found = Found(Sources \ unread)])
      BY <1>9 DEF Scan, j
    <2> DEFINE k == [j EXCEPT !.pc = "filter", !.found = Found(Sources \ unread)]
    <2>2. \A p \in Missing' : \E i \in Found(Sources \ unread) : i.source = p[1] /\ i.day = p[2]
      <3> SUFFICES ASSUME NEW p \in Missing'
                   PROVE  \E i \in Found(Sources \ unread) : i.source = p[1] /\ i.day = p[2]
        OBVIOUS
      <3>1. UNCHANGED <<used, readable>>
        BY <1>9 DEF Scan, world
      <3>2. /\ p[1] \in Sources /\ p[2] \in Days /\ p[2] \in readable[p[1]]
            /\ used[p[1]][p[2]] > 0 /\ p[1] \notin missed'
        BY <1>0, <3>1, SameWorld DEF Missing, Owed, Ordered
      <3> DEFINE i == [source |-> p[1], day |-> p[2], rows |-> used[p[1]][p[2]]]
      <3>3. i \in Item
        <4>1. used[p[1]][p[2]] \in 0 .. MaxUse
          <5>1. \A s \in Sources, d \in Days : used[s][d] \in 0 .. MaxUse
            BY <1>0 DEF TypeOK
          <5> QED
            BY <3>2, <5>1
        <4>2. \A s \in Sources, d \in Days, n \in 0 .. MaxUse :
                 [source |-> s, day |-> d, rows |-> n] \in Item
          BY DEF Item
        <4> QED
          BY <3>2, <4>1, <4>2
      <3>4. i \in Found(Sources \ unread)
        BY <2>1, <3>2, <3>3 DEF Found
      <3> QED
        BY <3>4
    <2>3. \A i \in Found(Sources \ unread) : TrueItem(i)
      BY DEF Found, TrueItem
    <2>4. j.pc = "scan" /\ ~j.live
      BY <1>1, <1>9 DEF Scan, At, j, ShapedJob
    <2>5. JobInv(k, Missing')
      BY <1>0, <1>1, <2>2, <2>3, <2>4
         DEF JobInv, TrueJob, ShapedJob, HoldsMissing, InOrder, Treating, Job
    <2> QED
      BY <1>3, <2>1, <2>5 DEF Become
  <1>10. CASE Filter(w)
    <2> DEFINE S == {i \in j.found : i.day > cursor[i.source]}
    <2>1. PICK plan \in Plans(S) :
             Become(w, [j EXCEPT !.pc = "day", !.found = {}, !.plan = plan])
      BY <1>10 DEF Filter, j
    <2> DEFINE k == [j EXCEPT !.pc = "day", !.found = {}, !.plan = plan]
    <2>2. S \in SUBSET Item /\ env \in Environments
      BY <1>0 DEF Job, IInv
    <2>3. /\ plan \in Seq(Item)
          /\ \A n \in DOMAIN plan : plan[n] \in S
          /\ \A i \in S : \E n \in DOMAIN plan : plan[n] = i
          /\ \A m, n \in DOMAIN plan :
               m < n /\ plan[m].source = plan[n].source /\ plan[m].source \in env.sorted
                   => plan[m].day <= plan[n].day
      BY <2>1, <2>2, PlanIsComplete
    <2>4. j.pc = "filter" /\ ~j.live
      BY <1>1, <1>10 DEF Filter, At, j, ShapedJob
    <2>5. k = [k EXCEPT !.pc = "day", !.found = {}, !.plan = plan] /\ k.pc = "day" /\ ~k.live
          /\ k.found = {} /\ k.plan = plan /\ k.broken = j.broken /\ k.partial = j.partial
          /\ k.today = j.today
      BY <1>0, <2>4 DEF Job
    <2> HIDE DEF k
    <2>6. TrueJob(k)
      BY <1>1, <2>3, <2>5 DEF TrueJob
    <2>7. ShapedJob(k)
      BY <1>1, <2>4, <2>5 DEF ShapedJob
    <2>8. InOrder(k)
      BY <2>3, <2>5 DEF InOrder
    <2>9. HoldsMissing(k, Missing)
      <3> SUFFICES ASSUME NEW p \in Missing PROVE Planned(k, p[1], p[2])
        BY <2>5 DEF HoldsMissing
      <3>1. PICK i \in j.found : i.source = p[1] /\ i.day = p[2]
        BY <1>1, <2>4 DEF HoldsMissing
      <3>2. i.day > cursor[i.source]
        BY <3>1 DEF IInv
      <3> QED
        BY <2>3, <2>5, <3>1, <3>2 DEF Planned
    <2> QED
      BY <1>4, <2>1, <2>6, <2>7, <2>8, <2>9 DEF JobInv, k
  <1>11. CASE TreatDay(w)
    <2>1. /\ j.pc = "day" /\ j.plan # <<>> /\ ~j.live /\ Treating(j)
          /\ Current(w) = j.plan[1]
      BY <1>1, <1>2, <1>11 DEF TreatDay, At, j, ShapedJob, Treating
    <2>2. CASE Current(w).day = j.today
      <3>1. <<j.plan[1].source, j.plan[1].day>> \notin Missing
        BY <1>0, <1>1, <2>1, <2>2 DEF ShapedJob, Job
      <3>2. NextDay(j) \in Job
        BY <1>0, <2>1, CurrentTyped DEF j
      <3>3. JobInv(NextDay(j), Missing)
        <4> DEFINE k == NextDay(j)
        <4>1. /\ k.pc = "day" /\ ~k.live /\ k.today = j.today /\ k.found = j.found
              /\ k.plan = Tail(j.plan) /\ k.broken = j.broken /\ k.partial = j.partial
          BY <1>0, <2>1 DEF NextDay, Job
        <4>2. k.broken # {} => k.partial
          BY <1>1, <4>1 DEF ShapedJob
        <4> HIDE DEF k
        <4>3. k \in Job
          BY <3>2 DEF k
        <4> QED
          BY <1>0, <2>1, <3>1, <4>1, <4>2, <4>3, NextDayHolds DEF k
      <3> QED
        BY <1>4, <1>11, <2>2, <3>3 DEF TreatDay, Advance, j
    <2>3. CASE Current(w).day # j.today /\ Unchanged(Current(w))
      <3>1. <<j.plan[1].source, j.plan[1].day>> \notin Missing
        <4> SUFFICES ASSUME <<j.plan[1].source, j.plan[1].day>> \in Missing PROVE FALSE
          OBVIOUS
        <4> DEFINE s == j.plan[1].source  d == j.plan[1].day
        <4>1. s \in Sources /\ d \in Days /\ d < env.start /\ Retained(d) /\ rows[s][d] # used[s][d]
          BY <1>2, <2>1 DEF Missing, Owed, Frozen
        <4>2. j.plan[1].rows = used[s][d] /\ finger[s][d] = j.plan[1].rows
          BY <1>2, <2>1, <2>3, <4>1 DEF TrueItem, Unchanged
        <4>3. j.plan[1].rows # NoFingerprint
          BY <1>2, <2>1 DEF Item, NoFingerprint
        <4>4. FingerprintStandsForRows
          BY DEF IInv
        <4> QED
          BY <4>1, <4>2, <4>3, <4>4 DEF FingerprintStandsForRows, StandsForRows
      <3>2. JobInv([j EXCEPT !.pc = "cursor"], Missing)
        BY <1>0, <1>1, <2>1, <3>1
           DEF JobInv, TrueJob, ShapedJob, HoldsMissing, InOrder, Treating, Planned, Job
      <3> QED
        BY <1>4, <1>11, <2>3, <3>2 DEF TreatDay, Go, j
    <2>4. CASE Current(w).day # j.today /\ ~Unchanged(Current(w))
      <3>1. JobInv([j EXCEPT !.pc = "write"], Missing)
        BY <1>0, <1>1, <2>1
           DEF JobInv, TrueJob, ShapedJob, HoldsMissing, InOrder, Treating, Planned, Job
      <3> QED
        BY <1>4, <1>11, <2>4, <3>1 DEF TreatDay, Go, j
    <2> QED
      BY <2>2, <2>3, <2>4
  <1>12. CASE LastDayTreated(w)
    <2>1. j.pc = "day" /\ j.plan = <<>> /\ ~j.live /\ Go(w, "prune")
      BY <1>1, <1>12 DEF LastDayTreated, At, j, ShapedJob
    <2>2. ~j.partial => Missing = {}
      BY <1>1, <2>1 DEF HoldsMissing, Treating, Planned, ShapedJob
    <2>3. JobInv([j EXCEPT !.pc = "prune"], Missing)
      BY <1>0, <1>1, <2>1, <2>2
         DEF JobInv, TrueJob, ShapedJob, HoldsMissing, InOrder, Treating, Job
    <2> QED
      BY <1>4, <2>1, <2>3 DEF Go, j
  <1>13. CASE Cancel(w)
    <2>1. j.pc = "day" /\ ~j.live
          /\ Become(w, [j EXCEPT !.pc = "prune", !.plan = <<>>, !.partial = TRUE])
      BY <1>1, <1>13 DEF Cancel, At, j, ShapedJob
    <2>2. JobInv([j EXCEPT !.pc = "prune", !.plan = <<>>, !.partial = TRUE], Missing)
      BY <1>0, <1>1, <2>1
         DEF JobInv, TrueJob, ShapedJob, HoldsMissing, InOrder, Treating, Job
    <2> QED
      BY <1>4, <2>1, <2>2
  <1>14. CASE Write(w)
    <2>1. /\ j.pc = "write" /\ j.plan # <<>> /\ Current(w) = j.plan[1]
          /\ Go(w, IF j.live THEN "prune" ELSE "cursor")
      BY <1>1, <1>2, <1>14 DEF Write, At, j, ShapedJob
    <2>2. CASE j.live
      <3>1. JobInv([j EXCEPT !.pc = "prune"], Missing)
        BY <1>0, <1>1, <2>1, <2>2
           DEF JobInv, TrueJob, ShapedJob, HoldsMissing, InOrder, Treating, Job
      <3> QED
        BY <1>4, <2>1, <2>2, <3>1 DEF Go, j
    <2>3. CASE ~j.live
      <3>1. <<j.plan[1].source, j.plan[1].day>> \notin Missing'
        <4> SUFFICES ASSUME <<j.plan[1].source, j.plan[1].day>> \in Missing' PROVE FALSE
          OBVIOUS
        <4> DEFINE s == j.plan[1].source  d == j.plan[1].day
        <4>1. used' = used
          BY <1>14 DEF Write, world
        <4>2. s \in Sources /\ d \in Days /\ d < env.start /\ rows'[s][d] # used[s][d]
          BY <1>0, <1>2, <2>1, <4>1 DEF Missing, Owed, Frozen
        <4>3. j.plan[1].rows = used[s][d]
          BY <1>2, <2>1, <4>2 DEF TrueItem
        <4>4. rows' = [rows EXCEPT ![s][d] = j.plan[1].rows]
          BY <1>14, <2>1 DEF Write
        <4>5. rows'[s][d] = j.plan[1].rows
          BY <1>0, <4>2, <4>4, SMTT(30) DEF TypeOK
        <4> QED
          BY <4>2, <4>3, <4>5
      <3>2. JobInv(j, Missing')
        BY <1>0, HoldsLess
      <3>3. JobInv([j EXCEPT !.pc = "cursor"], Missing')
        BY <1>0, <2>1, <2>3, <3>1, <3>2
           DEF JobInv, TrueJob, ShapedJob, HoldsMissing, InOrder, Treating, Planned, Job
      <3> QED
        BY <1>3, <2>1, <2>3, <3>3 DEF Go, Become, j
    <2> QED
      BY <2>2, <2>3
  <1>15. CASE WriteFails(w)
    <2>1. j.pc = "write" /\ Go(w, "mark")
      BY <1>15 DEF WriteFails, At, j
    <2>2. JobInv([j EXCEPT !.pc = "mark"], Missing)
      BY <1>0, <1>1, <2>1
         DEF JobInv, TrueJob, ShapedJob, HoldsMissing, InOrder, Treating, Planned, Job
    <2> QED
      BY <1>4, <2>1, <2>2 DEF Go, j
  <1>16. CASE Mark(w)
    <2>1. j.pc = "mark" /\ j.plan # <<>> /\ Current(w) = j.plan[1] /\ Current(w).source \in Sources
      BY <1>1, <1>2, <1>16 DEF Mark, At, j, ShapedJob
    <2>2. CASE j.live
      BY <1>5, <1>16, <2>2 DEF Mark, j
    <2>3. CASE ~j.live
      <3> DEFINE k == [NextDay(j) EXCEPT !.broken = @ \cup {Current(w).source}, !.partial = TRUE]
      <3>1. NextDay(j) \in Job
        BY <1>0, <2>1, CurrentTyped DEF j
      <3>2. k \in Job
        BY <2>1, <3>1 DEF Job
      <3>3. /\ k.pc = "day" /\ ~k.live /\ k.today = j.today /\ k.found = j.found
            /\ k.plan = Tail(j.plan) /\ k.broken = j.broken \cup {j.plan[1].source} /\ k.partial
        BY <1>0, <2>1, <2>3 DEF NextDay, Job
      <3>4. Become(w, k)
        BY <1>16, <2>3 DEF Mark, j
      <3> HIDE DEF k
      <3>5. JobInv(k, Missing)
        <4>1. Treating(j)
          BY <2>1, <2>3 DEF Treating
        <4> QED
          BY <1>0, <2>1, <3>2, <3>3, <4>1, NextDayHolds
      <3> QED
        BY <1>4, <3>4, <3>5
    <2> QED
      BY <2>2, <2>3
  <1>17. CASE MoveCursor(w)
    <2>1. j.pc = "cursor" /\ j.plan # <<>> /\ ~j.live /\ Treating(j)
      BY <1>1, <1>17 DEF MoveCursor, At, j, ShapedJob, Treating
    <2> DEFINE k == NextDay(j)
    <2>2. k \in Job
      BY <1>0, <2>1, CurrentTyped DEF j
    <2>3. /\ k.pc = "day" /\ ~k.live /\ k.today = j.today /\ k.found = j.found
          /\ k.plan = Tail(j.plan) /\ k.broken = j.broken /\ k.partial = j.partial
      BY <1>0, <2>1 DEF NextDay, Job
    <2>4. Become(w, k)
      BY <1>17 DEF MoveCursor, Advance, j
    <2> HIDE DEF k
    <2>5. <<j.plan[1].source, j.plan[1].day>> \notin Missing
      BY <1>1, <2>1 DEF HoldsMissing
    <2>6. k.broken # {} => k.partial
      BY <1>1, <2>3 DEF ShapedJob
    <2>7. JobInv(k, Missing)
      BY <1>0, <2>1, <2>2, <2>3, <2>5, <2>6, NextDayHolds
    <2> QED
      BY <1>4, <2>4, <2>7
  <1>18. CASE Prune(w)
    <2>1. CASE j.live
      BY <1>5, <1>18, <2>1 DEF Prune, j
    <2>2. CASE ~j.live
      <3>1. j.pc = "prune" /\ Go(w, "finish")
        BY <1>18, <2>2 DEF Prune, At, j
      <3>2. JobInv([j EXCEPT !.pc = "finish"], Missing)
        BY <1>0, <1>1, <2>2, <3>1
           DEF JobInv, TrueJob, ShapedJob, HoldsMissing, InOrder, Treating, Job
      <3> QED
        BY <1>4, <3>1, <3>2 DEF Go, j
    <2> QED
      BY <2>1, <2>2
  <1>19. CASE Finish(w)
    BY <1>5, <1>19 DEF Finish
  <1>20. CASE Crash(w)
    BY <1>5, <1>20 DEF Crash
  <1> QED
    BY <1>6, <1>7, <1>8, <1>9, <1>10, <1>11, <1>12, <1>13, <1>14, <1>15, <1>16, <1>17, <1>18,
       <1>19, <1>20 DEF WorkerStep, Work

-----------------------------------------------------------------------------
(* The inductive invariant.                                                *)

\* The cursor stays before every missing day: it moves to the first day of a plan that
\* still holds them all, in order, and that day is there.
LEMMA CursorStaysBefore ==
    ASSUME IInv, TypeOK', [Next]_allVars
    PROVE  \A p \in Missing' : p[2] > cursor'[p[1]]
  <1>1. TypeOK /\ Missing' \subseteq Missing /\ \A p \in Missing : p[2] > cursor[p[1]]
    BY MissingShrinks DEF IInv
  <1>2. CASE UNCHANGED cursor
    BY <1>1, <1>2
  <1>3. ASSUME NEW w \in Workers, MoveCursor(w), cursor' # cursor
        PROVE  \A p \in Missing : p[2] > cursor'[p[1]]
    <2> DEFINE j == job[w]
    <2>1. /\ j \in Job /\ j.pc = "cursor" /\ j.plan # <<>> /\ ~j.live /\ Treating(j)
          /\ HoldsMissing(j, Missing) /\ InOrder(j) /\ Current(w) = j.plan[1]
          /\ Current(w).source \in Sources /\ Current(w).day \in Days
          /\ j.plan \in Seq(Item)
      <3>1. JobInv(j, Missing) /\ j \in Job /\ j.plan \in Seq(Item)
        BY <1>1 DEF IInv, TypeOK, Job
      <3>2. j.pc = "cursor" /\ j.plan # <<>> /\ ~j.live /\ Treating(j)
        BY <1>3, <3>1 DEF MoveCursor, At, JobInv, ShapedJob, Treating
      <3> QED
        BY <1>1, <3>1, <3>2, CurrentTyped DEF JobInv
    <2>2. /\ j.plan[1].source \notin j.broken
          /\ cursor' = [cursor EXCEPT ![j.plan[1].source] = j.plan[1].day]
      BY <1>3, <2>1 DEF MoveCursor
    <2> HIDE DEF j
    <2> SUFFICES ASSUME NEW p \in Missing PROVE p[2] > cursor'[p[1]]
      OBVIOUS
    <2>3. p = <<p[1], p[2]>> /\ p[1] \in Sources /\ p[1] \in env.sorted /\ p[2] \in Days
      BY DEF Missing, Ordered
    <2>4. CASE p[1] # j.plan[1].source
      BY <1>1, <2>2, <2>3, <2>4 DEF TypeOK
    <2>5. CASE p[1] = j.plan[1].source
      <3>1. PICK n \in DOMAIN j.plan : j.plan[n].source = p[1] /\ j.plan[n].day = p[2]
        BY <2>1, <2>2, <2>5 DEF HoldsMissing, Planned
      <3>2. j.plan[1].day # p[2]
        BY <2>1, <2>3, <2>5 DEF HoldsMissing
      <3>3. 1 \in DOMAIN j.plan /\ 1 < n
        BY <2>1, <3>1, <3>2
      <3>4. j.plan[1].day <= p[2]
        BY <2>1, <2>3, <2>5, <3>1, <3>3 DEF InOrder
      <3>5. cursor'[p[1]] = j.plan[1].day
        BY <1>1, <2>2, <2>3, <2>5 DEF TypeOK
      <3> QED
        BY <2>1, <2>3, <3>2, <3>4, <3>5 DEF Days
    <2> QED
      BY <2>4, <2>5
  <1>4. ASSUME NEW w \in Workers, WorkerStep(w), ~MoveCursor(w) PROVE UNCHANGED cursor
    BY <1>4 DEF WorkerStep, Work, BeginBackfill, Scan, Filter, TreatDay, LastDayTreated, Cancel,
                LiveScan, RecordLive, Write, WriteFails, Mark, Prune, Finish, Crash, meta
  <1>5. WorldStep => UNCHANGED cursor
    BY StepCases, WorldStepKeeps DEF meta
  <1>6. UNCHANGED allVars => UNCHANGED cursor
    BY DEF allVars, vars
  <1> QED
    BY <1>1, <1>2, <1>3, <1>4, <1>5, <1>6, StepCases

\* Only a backfill that has failed nowhere says done, and then no day is missing.
LEMMA DoneStays ==
    ASSUME IInv, TypeOK', [Next]_allVars, backfill' = "done"
    PROVE  Missing' = {}
  <1>1. Missing' \subseteq Missing /\ (backfill = "done" => Missing = {})
    BY MissingShrinks DEF IInv
  <1>2. ASSUME NEW w \in Workers, Finish(w), backfill # "done" PROVE Missing = {}
    <2>1. JobInv(job[w], Missing)
      BY DEF IInv
    <2> QED
      BY <1>2, <2>1 DEF Finish, At, JobInv, ShapedJob, HoldsMissing
  <1>3. ASSUME NEW w \in Workers, WorkerStep(w), ~Finish(w) PROVE UNCHANGED backfill
    BY <1>3 DEF WorkerStep, Work, BeginBackfill, Scan, Filter, TreatDay, LastDayTreated, Cancel,
                LiveScan, RecordLive, Write, WriteFails, Mark, MoveCursor, Prune, Crash, meta
  <1>4. WorldStep => UNCHANGED backfill
    BY StepCases, WorldStepKeeps DEF meta
  <1>5. UNCHANGED allVars => UNCHANGED backfill
    BY DEF allVars, vars
  <1> QED
    BY <1>1, <1>2, <1>3, <1>4, <1>5, StepCases

LEMMA InitHolds ==
    ASSUME Init
    PROVE  IInv
  <1>1. env \in Environments /\ today = env.start /\ env.start \in Days
    BY WorldTyped DEF Init, Days
  <1>2. TypeOK
    <2>1. today \in Days /\ 0 \in 0 .. MaxUse /\ 0 \in 0 .. env.last /\ 0 \in 0 .. env.maxFaults
      BY <1>1, WorldTyped DEF Days
    <2>2. used \in [Sources -> [Days -> 0 .. MaxUse]]
      BY DEF Init
    <2>3. Idle \in Job
      BY <1>1, IdleTyped
    <2>4. /\ readable \in [Sources -> SUBSET Days]
          /\ rows \in [Sources -> [Days -> 0 .. MaxUse]]
          /\ finger \in [Sources -> [Days -> {NoFingerprint} \cup 0 .. MaxUse]]
          /\ ingest \in [Sources -> [Days -> IngestStates]]
          /\ cursor \in [Sources -> 0 .. env.last]
      BY <2>1 DEF Init, IngestStates
    <2> QED
      BY <2>1, <2>2, <2>3, <2>4 DEF Init, TypeOK
  <1>3. FingerprintStandsForRows
    BY DEF Init, FingerprintStandsForRows, StandsForRows
  <1>4. \A w \in Workers : JobInv(job[w], Missing)
    BY IdleHolds DEF Init
  <1>5. \A p \in Missing : p[2] > cursor[p[1]]
    <2> SUFFICES ASSUME NEW p \in Missing PROVE p[2] > cursor[p[1]]
      OBVIOUS
    <2>1. p[1] \in Sources /\ p[2] \in Days
      BY DEF Missing, Ordered
    <2>2. cursor[p[1]] = 0
      BY <2>1 DEF Init
    <2> QED
      BY <2>1, <2>2 DEF Days
  <1>6. env.start <= today /\ backfill # "done"
    BY <1>1, WorldTyped DEF Init
  <1> QED
    BY <1>1, <1>2, <1>3, <1>4, <1>5, <1>6 DEF IInv

LEMMA StepTyped ==
    ASSUME IInv, [Next]_allVars
    PROVE  TypeOK'
  <1>1. env' = env
    BY StepCases
  <1>2. CASE WorldStep
    BY <1>1, <1>2, WorldStepTyped DEF WorldStep
  <1>3. CASE \E w \in Workers : WorkerStep(w)
    BY <1>1, <1>3, WorkTyped DEF WorkerStep
  <1>4. CASE UNCHANGED allVars
    BY <1>1, <1>4, SameWorld DEF IInv, TypeOK, allVars, vars
  <1> QED
    BY <1>2, <1>3, <1>4, StepCases

LEMMA StepHolds ==
    ASSUME IInv, [Next]_allVars
    PROVE  IInv'
  <1>1. env' = env /\ env \in Environments /\ TypeOK'
    BY StepCases, StepTyped DEF IInv
  <1>2. /\ Missing' \subseteq Missing /\ FingerprintStandsForRows'
        /\ \A s \in Sources, d \in Days : d < env.start => used'[s][d] = used[s][d]
        /\ env.start <= today'
    <2>1. /\ Missing' \subseteq Missing /\ FingerprintStandsForRows' /\ today <= today'
          /\ \A s \in Sources, d \in Days : d < env.start => used'[s][d] = used[s][d]
      BY <1>1, MissingShrinks, StepKeeps
    <2>2. env.start \in Nat /\ today \in Int /\ today' \in Int /\ env.start <= today
      BY <1>1, SameWorld, WorldTyped DEF IInv, TypeOK, Days
    <2> QED
      BY <2>1, <2>2
  <1>3. ASSUME NEW w \in Workers PROVE JobInv(job[w], Missing)'
    <2>1. JobInv(job'[w], Missing')
      <3>1. CASE UNCHANGED job
        BY <1>2, <3>1, HoldsLess DEF IInv
      <3>2. ASSUME NEW v \in Workers, WorkerStep(v) PROVE JobInv(job'[w], Missing')
        <4>1. CASE v = w
          BY <1>1, <3>2, <4>1, WorkerHolds
        <4>2. CASE v # w
          <5>1. job'[w] = job[w]
            BY <3>2, <4>2
               DEF WorkerStep, Work, BeginBackfill, Scan, Filter, TreatDay, LastDayTreated,
                   Cancel, LiveScan, RecordLive, Write, WriteFails, Mark, MoveCursor, Prune,
                   Finish, Crash, Go, Advance, Become, IInv, TypeOK
          <5> QED
            BY <1>2, <5>1, HoldsLess DEF IInv
        <4> QED
          BY <4>1, <4>2
      <3>3. WorldStep \/ UNCHANGED allVars => UNCHANGED job
        BY <1>1, WorldStepKeeps DEF allVars, vars
      <3> QED
        BY <3>1, <3>2, <3>3, StepCases
    <2>2. job'[w] \in Job
      BY <1>1, SameWorld DEF TypeOK
    <2>3. TrueJob(job[w])'
      <3>1. /\ \A i \in job'[w].found : i \in Item
            /\ \A n \in DOMAIN job'[w].plan : job'[w].plan[n] \in Item
        BY <2>2 DEF Job
      <3>2. ASSUME NEW i \in Item, TrueItem(i) PROVE i.day < env'.start => i.rows = used'[i.source][i.day]
        BY <1>1, <1>2, <3>2 DEF TrueItem, Item
      <3> QED
        BY <1>1, <2>1, <3>1, <3>2 DEF JobInv, TrueJob, TrueItem
    <2> QED
      BY <1>1, <2>1, <2>3 DEF JobInv, ShapedJob, HoldsMissing, InOrder, Planned, Treating
  <1>4. \A p \in Missing' : p[2] > cursor'[p[1]]
    BY <1>1, CursorStaysBefore
  <1>5. backfill' = "done" => Missing' = {}
    BY <1>1, DoneStays
  <1> QED
    BY <1>1, <1>2, <1>3, <1>4, <1>5 DEF IInv

LEMMA InductiveInvariant == Spec => []IInv
  <1>1. Init => IInv
    BY InitHolds
  <1>2. IInv /\ [Next]_allVars => IInv'
    BY StepHolds
  <1> QED
    BY <1>1, <1>2, PTL DEF Spec

-----------------------------------------------------------------------------
(* What the project claims of the history.                                 *)

\* Every table, cursor and job keeps its type: no item of a plan names a source or a day
\* that does not exist.
THEOREM HistoryTypes == Spec => []TypeOK
  <1>1. IInv => TypeOK
    BY DEF IInv
  <1> QED
    BY <1>1, InductiveInvariant, PTL

\* An unchanged fingerprint makes record_day_at write nothing: for every day that no
\* setting of history_days prunes, it stands for the rows that are there, whatever crashes,
\* failures and other processes came between.
THEOREM FingerprintIsSound == Spec => []FingerprintStandsForRows
  <1>1. IInv => FingerprintStandsForRows
    BY DEF IInv
  <1> QED
    BY <1>1, InductiveInvariant, PTL

\* The loop over the days moves backfill_last_day_v1 past no past day that is missing, when
\* every source lists its days oldest first; the run on a source that does not shows why it
\* must.
THEOREM CursorIsSound == Spec => [](Sources \subseteq env.sorted => CursorHidesNothing)
  <1>1. IInv /\ Sources \subseteq env.sorted => CursorHidesNothing
    <2> SUFFICES ASSUME IInv, Sources \subseteq env.sorted,
                        NEW s \in Sources, NEW d \in Owed(s), d <= cursor[s]
                 PROVE  Frozen(s, d)
      BY DEF CursorHidesNothing, IInv
    <2> SUFFICES ASSUME ~Frozen(s, d) PROVE FALSE
      OBVIOUS
    <2>1. d \in Days /\ cursor[s] \in Int
      BY DEF IInv, TypeOK, Owed, Days
    <2>2. <<s, d>> \in Missing
      BY <2>1 DEF Missing, Ordered
    <2>3. d > cursor[s]
      BY <2>2 DEF IInv
    <2> QED
      BY <2>1, <2>3 DEF Days
  <1> QED
    BY <1>1, InductiveInvariant, PTL

\* backfill_v1 says done only when no past day of an ordered source is missing, and none
\* ever goes missing afterwards.
THEOREM DoneIsSound == Spec => [](Sources \subseteq env.sorted => DoneMeansIngested)
  <1>1. IInv /\ Sources \subseteq env.sorted => DoneMeansIngested
    <2> SUFFICES ASSUME IInv, Sources \subseteq env.sorted, backfill = "done",
                        NEW s \in Sources, NEW d \in Owed(s), ~Frozen(s, d)
                 PROVE  FALSE
      BY DEF DoneMeansIngested
    <2>1. d \in Days
      BY DEF IInv, TypeOK, Owed
    <2>2. <<s, d>> \in Missing
      BY <2>1 DEF Missing, Ordered
    <2> QED
      BY <2>2 DEF IInv
  <1> QED
    BY <1>1, InductiveInvariant, PTL

\* The same one source at a time, beside sources that list their days in any order: an owed
\* day of an ordered source that has no row of its own lies after the cursor, and a
\* backfill is still to come.
OrderedSourceIsOwed ==
    \A s \in Ordered : \A d \in Owed(s) :
        ~Frozen(s, d) => d > cursor[s] /\ backfill # "done"
THEOREM OrderedSourcesStandAlone == Spec => []OrderedSourceIsOwed
  <1>1. IInv => OrderedSourceIsOwed
    <2> SUFFICES ASSUME IInv, NEW s \in Ordered, NEW d \in Owed(s), ~Frozen(s, d)
                 PROVE  d > cursor[s] /\ backfill # "done"
      BY DEF OrderedSourceIsOwed
    <2>1. d \in Days
      BY DEF IInv, TypeOK, Owed, Ordered
    <2>2. <<s, d>> \in Missing
      BY <2>1 DEF Missing
    <2> QED
      BY <2>2 DEF IInv
  <1> QED
    BY <1>1, InductiveInvariant, PTL

\* Once a past day has its rows, no later ingest, live record, failure or crash takes them
\* away or changes them before retention may prune the day, whatever the order in which
\* sources list their days.
FrozenStays ==
    \A s \in Sources, d \in Days :
        d < env.start /\ Frozen(s, d) /\ Retained(d)' => Frozen(s, d)'
THEOREM FrozenDaysStay == Spec => [][FrozenStays]_allVars
  <1>1. IInv /\ TypeOK' /\ [Next]_allVars => FrozenStays
    BY StepKeeps DEF FrozenStays, Frozen
  <1> QED
    BY <1>1, InductiveInvariant, HistoryTypes, PTL DEF Spec
=============================================================================
