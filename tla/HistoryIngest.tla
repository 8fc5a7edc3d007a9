---------------------------- MODULE HistoryIngest ----------------------------
(***************************************************************************)
(* The spend history (history.rs): daily_usage and meta in SQLite, the     *)
(* live snapshots of today, the one-shot backfill of past days with its    *)
(* resume cursor, and retention.  Every statement or transaction is one    *)
(* step; a worker is any thread of any process that works on the database. *)
(***************************************************************************)
EXTENDS Integers, SequencesExt

CONSTANTS
    Workers,
    AllSources,
    MaxUse,        \* bound on the usage of a day
    Environments   \* what the workers run in: see env

ASSUME HistoryAssumption ==
    /\ MaxUse \in Nat
    /\ \A e \in Environments :
         /\ e.workers \subseteq Workers
         /\ e.order \in Seq(AllSources) /\ e.sorted \subseteq AllSources
         /\ e.live \in BOOLEAN
         /\ e.start \in Nat /\ e.last \in Nat /\ 1 <= e.start /\ e.start <= e.last
         /\ e.retentions \subseteq Nat /\ e.retentions # {}
         /\ e.maxFaults \in Nat

VARIABLES
    env,        \* fixed from the start.  workers; order: in which a backfill treats its
                \* sources; sorted: sources whose scan lists its days oldest first; live:
                \* today's usage is recorded as well; start: the day on which the history
                \* starts; last: bound on the calendar; retentions: values history_days
                \* may take, 0 keeps everything; maxFaults: bound on failures,
                \* cancellations and crashes
    today,      \* local date
    used,       \* what was really spent each day, by source
    readable,   \* the days each source still holds
    rows,       \* daily_usage: 0 when a day has no row
    finger,     \* ingest_fingerprint_v1: the rows it was computed from
    ingest,     \* ingest_state_v1 without its cutoff; "none" when absent
    cursor,     \* backfill_last_day_v1
    backfill,   \* backfill_v1
    keep,       \* the setting history_days
    job,        \* what each worker is doing
    faults,     \* failures so far
    missed      \* history: sources a backfill scan could not read

vars == <<today, used, readable, rows, finger, ingest, cursor, backfill, keep,
          job, faults, missed>>
allVars == <<env, vars>>
world == <<today, used, readable, keep>>
meta == <<cursor, backfill>>
day_tables == <<rows, finger, ingest>>

Sources == ToSet(env.order)
Days == 1 .. env.last
NoFingerprint == -1

Item == [source : Sources, day : Days, rows : 0 .. MaxUse]
Idle == [pc |-> "idle", live |-> FALSE, today |-> 0, found |-> {}, plan |-> <<>>,
         broken |-> {}, partial |-> FALSE]
Job == [pc : {"idle", "scan", "filter", "day", "write", "mark", "cursor", "live",
              "prune", "finish"},
        live : BOOLEAN, today : 0 .. env.last, found : SUBSET Item, plan : Seq(Item),
        broken : SUBSET Sources, partial : BOOLEAN]

IngestStates == {"none", "Failed", "Ingested"}

Init ==
    /\ env \in Environments
    /\ today = env.start
    /\ used \in [Sources -> {u \in [Days -> 0 .. MaxUse] : \A d \in Days : d > today => u[d] = 0}]
    /\ readable = [s \in Sources |-> Days]
    /\ rows = [s \in Sources |-> [d \in Days |-> 0]]
    /\ finger = [s \in Sources |-> [d \in Days |-> NoFingerprint]]
    /\ ingest = [s \in Sources |-> [d \in Days |-> "none"]]
    /\ cursor = [s \in Sources |-> 0]
    /\ backfill = "none"
    /\ keep \in env.retentions
    /\ job = [w \in Workers |-> Idle]
    /\ faults = 0
    /\ missed = {}

-----------------------------------------------------------------------------
(* The world outside.                                                      *)

Spend(s) ==
    /\ used[s][today] < MaxUse
    /\ used' = [used EXCEPT ![s][today] = @ + 1]
    /\ UNCHANGED <<today, readable, keep, day_tables, meta, job, faults, missed>>

Midnight ==
    /\ today < env.last
    /\ today' = today + 1
    /\ UNCHANGED <<used, readable, keep, day_tables, meta, job, faults, missed>>

\* A provider prunes its own transcripts.
Forget(s, d) ==
    /\ d \in readable[s] /\ d < today
    /\ readable' = [readable EXCEPT ![s] = @ \ {d}]
    /\ UNCHANGED <<today, used, keep, day_tables, meta, job, faults, missed>>

SetRetention(k) ==
    /\ k # keep /\ keep' = k
    /\ UNCHANGED <<today, used, readable, day_tables, meta, job, faults, missed>>

-----------------------------------------------------------------------------
(* A worker's steps.                                                       *)

At(w, pc) == job[w].pc = pc
Current(w) == Head(job[w].plan)
Become(w, changed) == job' = [job EXCEPT ![w] = changed]
Go(w, pc) == Become(w, [job[w] EXCEPT !.pc = pc])
Fault == faults < env.maxFaults /\ faults' = faults + 1

\* A day of a backfill is over: the next one.
NextDay(j) == [j EXCEPT !.pc = "day", !.plan = Tail(@)]
Advance(w) == Become(w, NextDay(job[w]))

\* maybe_backfill: nothing to do once backfill_v1 says done.
\* Mutant: an interrupted backfill is not resumed.
BeginBackfillOnce(w) ==
    /\ At(w, "idle") /\ backfill = "none"
    /\ Become(w, [Idle EXCEPT !.pc = "scan", !.today = today])
    /\ UNCHANGED <<world, day_tables, meta, faults, missed>>

BeginBackfill(w) ==
    /\ At(w, "idle") /\ backfill # "done"
    /\ Become(w, [Idle EXCEPT !.pc = "scan", !.today = today])
    /\ UNCHANGED <<world, day_tables, meta, faults, missed>>

\* The days a scan finds, and sequences in which a backfill may meet days.
Found(S) ==
    {i \in Item : i.source \in S /\ i.day \in readable[i.source]
                  /\ i.rows = used[i.source][i.day] /\ i.rows > 0}
Position(s) == CHOOSE i \in DOMAIN env.order : env.order[i] = s
Precedes(i, j) ==
    \/ Position(i.source) < Position(j.source)
    \/ i.source = j.source /\ i.source \in env.sorted /\ i.day < j.day
Plans(items) ==
    {q \in SetToSeqs(items) :
        \A m, n \in DOMAIN q : Precedes(q[m], q[n]) => m < n}

\* claude_by_day, scan_pi_all_days and scan_opencode_all_days; a source that
\* cannot be read has no days.  Sources do not affect each other, so that one
\* step reads them all.
Scan(w) ==
    /\ At(w, "scan")
    /\ \E unread \in SUBSET Sources :
         /\ IF unread = {} THEN faults' = faults ELSE Fault
         /\ missed' = missed \cup unread
         /\ Become(w, [job[w] EXCEPT !.pc = "filter", !.found = Found(Sources \ unread)])
    /\ UNCHANGED <<world, day_tables, meta>>

\* Days up to the cursor are not met again; the others in the order of their scan, which
\* nothing depends on before.
Filter(w) ==
    /\ At(w, "filter")
    /\ \E plan \in Plans({i \in job[w].found : i.day > cursor[i.source]}) :
          Become(w, [job[w] EXCEPT !.pc = "day", !.found = {}, !.plan = plan])
    /\ UNCHANGED <<world, day_tables, meta, faults, missed>>

\* has_same_fingerprint.
Unchanged(i) == finger[i.source][i.day] = i.rows

\* The next day: today is left to the live snapshots, an unchanged day is skipped.
TreatDay(w) ==
    /\ At(w, "day") /\ job[w].plan # <<>>
    /\ IF Current(w).day = job[w].today THEN Advance(w)
       ELSE IF Unchanged(Current(w)) THEN Go(w, "cursor") ELSE Go(w, "write")
    /\ UNCHANGED <<world, day_tables, meta, faults, missed>>

LastDayTreated(w) ==
    /\ At(w, "day") /\ job[w].plan = <<>>
    /\ Go(w, "prune")
    /\ UNCHANGED <<world, day_tables, meta, faults, missed>>

Cancel(w) ==
    /\ At(w, "day") /\ job[w].plan # <<>> /\ Fault
    /\ Become(w, [job[w] EXCEPT !.pc = "prune", !.plan = <<>>, !.partial = TRUE])
    /\ UNCHANGED <<world, day_tables, meta, missed>>

\* A live scan of today, in the worker thread of the TUI or in ingest_today.
LiveScan(w, s) ==
    /\ env.live /\ At(w, "idle")
    /\ Become(w, [Idle EXCEPT !.pc = "live", !.live = TRUE,
                     !.plan = <<[source |-> s, day |-> today, rows |-> used[s][today]]>>])
    /\ UNCHANGED <<world, day_tables, meta, faults, missed>>

\* record_source takes the date when it records.
RecordLive(w) ==
    /\ At(w, "live")
    /\ LET i == [Current(w) EXCEPT !.day = today]
       IN Become(w, [job[w] EXCEPT !.pc = IF Unchanged(i) THEN "prune" ELSE "write",
                                   !.plan = <<i>>])
    /\ UNCHANGED <<world, day_tables, meta, faults, missed>>

\* record_day_at: rows, state and fingerprint in one transaction.
Write(w) ==
    /\ At(w, "write")
    /\ LET i == Current(w)
       IN /\ rows' = [rows EXCEPT ![i.source][i.day] = i.rows]
          /\ finger' = [finger EXCEPT ![i.source][i.day] = i.rows]
          /\ ingest' = [ingest EXCEPT ![i.source][i.day] = "Ingested"]
    /\ Go(w, IF job[w].live THEN "prune" ELSE "cursor")
    /\ UNCHANGED <<world, meta, faults, missed>>

\* Mutant: the fingerprint is written in a transaction of its own.
WriteFailsHalfway(w) ==
    /\ At(w, "write") /\ Fault
    /\ finger' = [finger EXCEPT ![Current(w).source][Current(w).day] = Current(w).rows]
    /\ Go(w, "mark")
    /\ UNCHANGED <<world, rows, ingest, meta, missed>>

WriteFails(w) ==
    /\ At(w, "write") /\ Fault
    /\ Go(w, "mark")
    /\ UNCHANGED <<world, day_tables, meta, missed>>

\* mark_ingest_failed, which may fail too.
Mark(w) ==
    /\ At(w, "mark")
    /\ LET i == Current(w)
       IN /\ \/ ingest' = [ingest EXCEPT ![i.source][i.day] = "Failed"] /\ UNCHANGED faults
             \/ Fault /\ UNCHANGED ingest
          /\ IF job[w].live THEN job' = [job EXCEPT ![w] = Idle]
             ELSE Become(w, [NextDay(job[w]) EXCEPT !.broken = @ \cup {i.source},
                                                    !.partial = TRUE])
    /\ UNCHANGED <<world, rows, finger, meta, missed>>

\* Mutant: a later success moves the cursor past a failed day.
MoveCursorAlways(w) ==
    /\ At(w, "cursor")
    /\ \/ cursor' = [cursor EXCEPT ![Current(w).source] = Current(w).day] /\ UNCHANGED faults
       \/ Fault /\ UNCHANGED cursor
    /\ Advance(w)
    /\ UNCHANGED <<world, day_tables, backfill, missed>>

\* The cursor moves through a contiguous prefix of successes.
MoveCursor(w) ==
    /\ At(w, "cursor")
    /\ LET i == Current(w)
       IN \/ /\ cursor' = IF i.source \in job[w].broken THEN cursor
                          ELSE [cursor EXCEPT ![i.source] = i.day]
             /\ UNCHANGED faults
          \/ Fault /\ UNCHANGED cursor
    /\ Advance(w)
    /\ UNCHANGED <<world, day_tables, backfill, missed>>

\* prune: aggregates only, meta stays.
Prune(w) ==
    /\ At(w, "prune")
    /\ \/ /\ rows' = [s \in Sources |-> [d \in Days |->
                        IF keep > 0 /\ d < today - keep THEN 0 ELSE rows[s][d]]]
          /\ UNCHANGED faults
       \/ Fault /\ UNCHANGED rows
    /\ IF job[w].live THEN job' = [job EXCEPT ![w] = Idle] ELSE Go(w, "finish")
    /\ UNCHANGED <<world, finger, ingest, meta, missed>>

\* Mutant: done whatever has failed.
FinishAlwaysDone(w) ==
    /\ At(w, "finish")
    /\ backfill' = "done" /\ job' = [job EXCEPT ![w] = Idle]
    /\ UNCHANGED <<world, day_tables, cursor, faults, missed>>

Finish(w) ==
    /\ At(w, "finish")
    /\ \/ backfill' = (IF job[w].partial THEN "partial" ELSE "done") /\ UNCHANGED faults
       \/ Fault /\ UNCHANGED backfill
    /\ job' = [job EXCEPT ![w] = Idle]
    /\ UNCHANGED <<world, day_tables, cursor, missed>>

Crash(w) ==
    /\ ~At(w, "idle") /\ Fault
    /\ job' = [job EXCEPT ![w] = Idle]
    /\ UNCHANGED <<world, day_tables, meta, missed>>

-----------------------------------------------------------------------------

Work(w) ==
    \/ Scan(w) \/ Filter(w) \/ TreatDay(w) \/ LastDayTreated(w) \/ RecordLive(w)
    \/ Write(w) \/ WriteFails(w) \/ Mark(w) \/ MoveCursor(w) \/ Prune(w) \/ Finish(w)

Next ==
    /\ \/ Midnight
       \/ \E k \in env.retentions : SetRetention(k)
       \/ \E s \in Sources : Spend(s) \/ \E d \in Days : Forget(s, d)
       \/ \E w \in env.workers :
            \/ BeginBackfill(w) \/ Work(w) \/ Cancel(w) \/ Crash(w)
            \/ \E s \in Sources : LiveScan(w, s)
    /\ UNCHANGED env

Spec == Init /\ [][Next]_allVars

\* Workers run until they end.  A backfill is tried again and again: every TUI
\* starts with one, and ingest_today calls maybe_backfill before it records.
FairSpec ==
    Spec /\ \A w \in Workers :
        WF_vars(Work(w)) /\ SF_vars(w \in env.workers /\ BeginBackfill(w))

-----------------------------------------------------------------------------
(* Properties.                                                             *)

TypeOK ==
    /\ today \in Days
    /\ used \in [Sources -> [Days -> 0 .. MaxUse]]
    /\ readable \in [Sources -> SUBSET Days]
    /\ rows \in [Sources -> [Days -> 0 .. MaxUse]]
    /\ finger \in [Sources -> [Days -> {NoFingerprint} \cup 0 .. MaxUse]]
    /\ ingest \in [Sources -> [Days -> IngestStates]]
    /\ cursor \in [Sources -> 0 .. env.last]
    /\ backfill \in {"none", "partial", "done"}
    /\ keep \in env.retentions
    /\ job \in [Workers -> Job]
    /\ faults \in 0 .. env.maxFaults
    /\ missed \subseteq Sources

\* Days that no setting of history_days has pruned so far.
Retained(d) == \A k \in env.retentions : k = 0 \/ d >= today - k

\* Days that were past when the history began and that a backfill must freeze.
\* Only sources whose scans succeeded are held to it.
Frozen(s, d) == rows[s][d] = used[s][d]
Owed(s) ==
    {d \in readable[s] : d < env.start /\ used[s][d] > 0 /\ s \notin missed /\ Retained(d)}

\* "Advance a source resume cursor only through a contiguous success prefix: a
\* later success must not hide an earlier failed day from the next backfill".
CursorHidesNothing ==
    /\ TypeOK
    /\ \A s \in Sources : \A d \in Owed(s) : d <= cursor[s] => Frozen(s, d)

\* backfill_v1 = done stops every later backfill, so that it is only ever written
\* when no past day is missing, however many workers, failures, cancellations and
\* crashes it took to get there.
DoneMeansIngested == backfill = "done" => \A s \in Sources : \A d \in Owed(s) : Frozen(s, d)

\* An unchanged fingerprint makes an ingest a success that writes nothing, so that
\* it must stand for the rows of every day that no setting of history_days prunes.
StandsForRows(s, d) == finger[s][d] # NoFingerprint => rows[s][d] = finger[s][d]
FingerprintStandsForRows ==
    \A s \in Sources, d \in Days :
        Retained(d) => StandsForRows(s, d)

\* A backfill that fails, is cancelled or dies is taken up again until it is done.
BackfillCompletes == <>[](backfill = "done")
=============================================================================
