---------------------------- MODULE OpenCodeIndex ---------------------------
(***************************************************************************)
(* Today's OpenCode usage (opencode_tokens.rs).  OpenCode owns a SQLite    *)
(* database; a scan reads a snapshot of it and keeps a checkpoint in a     *)
(* file: what the rows up to a rowid add up to, for one local day.  The    *)
(* next scan, perhaps by another process, only reads the rows after it.    *)
(* The result goes to the panel of a TUI, or of a one-shot process, and    *)
(* from there to the spend history.                                        *)
(***************************************************************************)
EXTENDS Integers, FiniteSets, FiniteSetsExt, Functions

CONSTANTS
    Procs,         \* processes that scan
    Tuis,          \* those of them that are TUIs and keep a panel
    Kinds,         \* usages a part may have: model, input, total, whether well formed
    Limit,         \* the largest sum that does not overflow
    DayTicks,      \* clock ticks in a day
    Environments   \* what happens around the scans: see env

Unknown == -1
ASSUME OpenCodeAssumption ==
    /\ Tuis \subseteq Procs
    /\ Kinds \subseteq [model : STRING, input : Nat \cup {Unknown},
                      total : Nat \cup {Unknown}, ok : BOOLEAN]
    /\ Limit \in Nat /\ DayTicks \in Nat \ {0}
    /\ Environments \subseteq [procs : SUBSET Procs, kinds : SUBSET Kinds,
                         calm : BOOLEAN, maxTime : Nat, parts : Nat, changes : Nat,
                         faults : Nat]

VARIABLES
    env,     \* fixed from the start.  procs, kinds: the processes and kinds of parts
             \* there are; calm: time passes between scans only and the clock is never
             \* set back; maxTime: last tick; parts, changes, faults: how many are
             \* added, changed, or occur
    clock,
    db,      \* the database: identity of its file, parts by rowid
    copy,    \* a copy of it that may be put back
    index,   \* opencode-daily-index.json
    pc,      \* where each process stands in collect_at
    task,    \* its locals: now, the snapshot, the index to save, the rows so far
    panel,   \* opencode_tokens of each TUI
    hist,    \* opencode's rows in the history, for each day
    left     \* parts, changes and faults still to come

vars == <<env, clock, db, copy, index, pc, task, panel, hist, left>>
outside == <<env, clock, db, copy>>

Day(t) == t \div DayTicks
Days == 0 .. Max({Day(e.maxTime) : e \in Environments})
Top(rows) == Max(DOMAIN rows \cup {0})
UpTo(rows, w) == [r \in {x \in DOMAIN rows : x <= w} |-> rows[r]]

NoIndex == [file |-> 0, day |-> -1, watermark |-> 0, id |-> 0, seen |-> {},
            totals |-> {}, rebuilt |-> 0, base |-> <<>>, drift |-> FALSE]
NoTask == [now |-> 0, snap |-> <<>>, file |-> 0, next |-> NoIndex, old |-> {}]
Loading == [kind |-> "loading", rows |-> {}, of |-> -1]

Init ==
    /\ env \in Environments
    /\ clock = 0
    /\ db = [file |-> 1, rows |-> <<>>]
    /\ copy = db
    /\ index = NoIndex
    /\ pc = [p \in Procs |-> "idle"]
    /\ task = [p \in Procs |-> NoTask]
    /\ panel = [p \in Procs |-> Loading]
    /\ hist = [d \in Days |-> [rows |-> {}, of |-> d]]
    /\ left = [parts |-> env.parts, changes |-> env.changes, faults |-> env.faults]

-----------------------------------------------------------------------------
(* Sums.                                                                   *)

\* The total a provider reports, or else the sum of the components it reports.
EffectiveTotal(x) == IF x.total # Unknown THEN x.total ELSE x.input

\* Unknown is contagious: one absent value makes the sum absent.
SumOptional(value) ==
    IF \E x \in DOMAIN value : value[x] = Unknown THEN Unknown ELSE SumFunction(value)

\* One row for each model.  Items are parts, or rows of an earlier sum.
OfModel(items, m) == {x \in items : x.model = m}
RowOf(items, m) ==
    [model |-> m, input |-> SumOptional([x \in OfModel(items, m) |-> x.input]),
     total |-> SumOptional([x \in OfModel(items, m) |-> EffectiveTotal(x)])]
Aggregate(items) == {RowOf(items, m) : m \in {x.model : x \in items}}

Overflows(rows) == \E x \in rows : x.input > Limit \/ x.total > Limit

\* The parts of a day among some rowids, with their identifiers.
PartsOf(rows, from, d) ==
    {rows[r] : r \in {x \in DOMAIN rows : x > from /\ Day(rows[x].time) = d}}

Item(id, x) == [id |-> id, model |-> x.model, input |-> x.input, total |-> x.total]
Items(parts) == {Item(x.id, x) : x \in parts}

\* merge_rows: what the index holds counts as parts without identifier.
Merge(existing, fresh) == Aggregate({Item(0, x) : x \in existing} \cup Items(fresh))

\* scan_opencode_all_days, for one day: the whole database, nothing remembered;
\* a value that is not well formed counts as absent.
WellFormed(x) == IF x.ok THEN x ELSE [x EXCEPT !.input = Unknown, !.total = Unknown]
AllDays(rows, d) == Aggregate(Items({WellFormed(x) : x \in PartsOf(rows, 0, d)}))

-----------------------------------------------------------------------------
(* Delivery.                                                               *)

Ready(rows, d) == [kind |-> IF rows = {} THEN "empty" ELSE "ready", rows |-> rows, of |-> d]
StaleOrUnavailable(rows, d) ==
    [kind |-> IF rows = {} THEN "unavailable" ELSE "stale", rows |-> rows, of |-> d]

\* Mutant: rows that were kept still count as those of a scan.
MergedAsReady(p, result) ==
    IF /\ p \in Tuis /\ result.kind = "unavailable"
       /\ panel[p].kind \in {"ready", "stale"}
    THEN panel[p] ELSE result

\* A TUI keeps the rows it shows when a scan has none to offer.
Merged(p, result) ==
    IF /\ p \in Tuis /\ result.kind = "unavailable"
       /\ panel[p].kind \in {"ready", "stale"}
    THEN [panel[p] EXCEPT !.kind = "stale"] ELSE result

\* Mutant: every result is recorded, an unavailable source with no rows.
RecordedAlways(p, state) == TRUE

\* What goes into the history.  A one-shot process also records that nothing was used.
Recorded(p, state) ==
    state.kind \in {"ready", "stale"} \cup IF p \in Tuis THEN {} ELSE {"empty"}

Deliver(p, result) ==
    LET state == Merged(p, result)
    IN  /\ panel' = [panel EXCEPT ![p] = IF p \in Tuis THEN state ELSE Loading]
        /\ hist' = IF Recorded(p, state)
                   THEN [hist EXCEPT ![Day(clock)] = [rows |-> state.rows, of |-> state.of]]
                   ELSE hist
        /\ pc' = [pc EXCEPT ![p] = "idle"]
        /\ task' = [task EXCEPT ![p] = NoTask]

-----------------------------------------------------------------------------
(* A scan.                                                                 *)

Fault == left.faults > 0 /\ left' = [left EXCEPT !.faults = @ - 1]

\* The clock is read, the database opened and a snapshot fixed by the first query; a
\* tick may pass in between.  The database may be missing, busy, denied or of another
\* schema.
Open(p) ==
    /\ pc[p] = "idle"
    /\ \E now \in {clock} \cup IF env.calm \/ clock = 0 THEN {} ELSE {clock - 1} :
          \/ /\ pc' = [pc EXCEPT ![p] = "snapshot"]
             /\ task' = [task EXCEPT ![p].now = now, ![p].snap = db.rows,
                                     ![p].file = db.file]
             /\ UNCHANGED <<panel, hist, left>>
          \/ /\ Fault
             /\ Deliver(p, StaleOrUnavailable({}, Day(now)))
    /\ UNCHANGED <<outside, index>>

IdAt(rows, w) == IF w \in DOMAIN rows THEN rows[w].id ELSE 0

\* Mutant: the identity is the file's alone.
ValidByFile(x, t) ==
    x # NoIndex /\ x.watermark <= Top(t.snap) /\ x.file = t.file

\* db_identity: the file, its path, its schema and versions.
SameFile(x, t) == x.file = t.file

\* The checkpoint fits the snapshot: same file, and the row it ended at is the same.
Valid(x, t) ==
    /\ x # NoIndex
    /\ x.watermark <= Top(t.snap)
    /\ SameFile(x, t)
    /\ x.id = IdAt(t.snap, x.watermark)

\* Mutant: a new day keeps the totals of the last.
KeepTotals(x, d) == [x EXCEPT !.day = d]

\* apply_day_rollover: the cursor stays, what it counted goes.
Rollover(x, d) == [x EXCEPT !.day = d, !.seen = {}, !.totals = {}]

RolledOver(x, t) == Valid(x, t) /\ x.day # Day(t.now)
Rebuilds(x, t) ==
    ~Valid(x, t) \/ (~RolledOver(x, t) /\ t.now - x.rebuilt >= DayTicks)

\* The index a scan starts from.
From(x, t) ==
    IF Rebuilds(x, t) THEN [NoIndex EXCEPT !.day = Day(t.now), !.rebuilt = t.now]
    ELSE IF RolledOver(x, t) THEN Rollover(x, Day(t.now)) ELSE x

\* The file and the row at the cursor are as before, whatever happened to the others.
Undetectable(x, t) == x.file = t.file /\ x.id = IdAt(t.snap, x.watermark)

\* History: the rows behind the checkpoint are no longer the ones that were counted, and
\* nothing shows it; or the clock was set back, or a midnight fell inside a scan, and
\* some of them belong to the day that now begins.
Drifts(x, t) ==
    /\ ~Rebuilds(x, t)
    /\ IF RolledOver(x, t)
       THEN ~env.calm /\ PartsOf(UpTo(t.snap, x.watermark), 0, Day(t.now)) # {}
       ELSE x.drift \/ (Undetectable(x, t) /\ x.base # UpTo(t.snap, x.watermark))

SeenWith(from, fresh) == from.seen \cup {x.id : x \in fresh}

\* The rows after the cursor are added up; one malformed row fails the scan.
Project(p) ==
    /\ pc[p] = "snapshot"
    /\ LET t == task[p]
           from == From(index, t)
           suffix == PartsOf(t.snap, from.watermark, Day(t.now))
           fresh == {x \in suffix : x.id \notin from.seen}
           rows == Merge(from.totals, fresh)
           top == Top(t.snap)
       IN  IF (\E x \in suffix : ~x.ok) \/ Overflows(rows)
           THEN Deliver(p, StaleOrUnavailable(from.totals, Day(t.now)))
           ELSE /\ pc' = [pc EXCEPT ![p] = "save"]
                /\ task' = [task EXCEPT ![p].old = from.totals, ![p].next =
                      [file |-> t.file, day |-> Day(t.now), watermark |-> top,
                       id |-> IdAt(t.snap, top), seen |-> SeenWith(from, fresh),
                       totals |-> rows, rebuilt |-> from.rebuilt,
                       base |-> t.snap, drift |-> Drifts(index, t)]]
                /\ UNCHANGED <<panel, hist>>
    /\ UNCHANGED <<outside, index, left>>

\* The new checkpoint replaces the file; a save that fails, before or after its rename,
\* gives the rows from before this scan.
Save(p) ==
    /\ pc[p] = "save"
    /\ LET t == task[p]
       IN  \/ /\ index' = t.next
              /\ Deliver(p, Ready(t.next.totals, t.next.day))
              /\ UNCHANGED left
           \/ /\ Fault
              /\ index' \in {index, t.next}
              /\ Deliver(p, StaleOrUnavailable(t.old, t.next.day))
    /\ UNCHANGED outside

\* A process dies, in the middle of a scan or between two, and starts afresh.
Restart(p) ==
    /\ Fault
    /\ pc' = [pc EXCEPT ![p] = "idle"]
    /\ task' = [task EXCEPT ![p] = NoTask]
    /\ panel' = [panel EXCEPT ![p] = Loading]
    /\ UNCHANGED <<outside, index, hist>>

-----------------------------------------------------------------------------
(* OpenCode and the clock.                                                 *)

inside == <<env, index, pc, task, panel, hist>>
NextId == env.parts - left.parts + 1
Part(id, k) == [id |-> id, time |-> clock, model |-> k.model, input |-> k.input,
                total |-> k.total, ok |-> k.ok]

\* SQLite gives a new row the rowid after the largest.
AddPart ==
    /\ left.parts > 0
    /\ \E k \in env.kinds :
          LET r == Top(db.rows) + 1
          IN  db' = [db EXCEPT !.rows = [x \in DOMAIN @ \cup {r} |->
                                   IF x = r THEN Part(NextId, k) ELSE @[x]]]
    /\ left' = [left EXCEPT !.parts = @ - 1]
    /\ UNCHANGED <<inside, clock, copy>>

Change == left.changes > 0 /\ left' = [left EXCEPT !.changes = @ - 1]

DeletePart ==
    /\ Change
    /\ \E r \in DOMAIN db.rows :
          db' = [db EXCEPT !.rows = [x \in DOMAIN @ \ {r} |-> @[x]]]
    /\ UNCHANGED <<inside, clock, copy>>

CopyDb == Change /\ copy # db /\ copy' = db /\ UNCHANGED <<inside, clock, db>>

\* The copy is put back: into the same file, or as a new one.
PutBack ==
    /\ Change
    /\ copy.rows # db.rows
    /\ \E f \in {db.file, db.file + 1} : db' = [file |-> f, rows |-> copy.rows]
    /\ UNCHANGED <<inside, clock, copy>>

\* Time passes.  In an environment that is not calm it also passes during a scan, and
\* the clock may be set back.
Tick ==
    /\ env.calm => \A p \in Procs : pc[p] = "idle"
    /\ \/ clock' = clock + 1 /\ clock < env.maxTime /\ UNCHANGED left
       \/ clock' = clock - 1 /\ clock > 0 /\ ~env.calm /\ Change
    /\ UNCHANGED <<inside, db, copy>>

Next ==
    \/ \E p \in env.procs : Open(p) \/ Project(p) \/ Save(p) \/ Restart(p)
    \/ AddPart \/ DeletePart \/ CopyDb \/ PutBack \/ Tick

Spec == Init /\ [][Next]_vars

-----------------------------------------------------------------------------
(* Properties.                                                             *)

Row == [model : {k.model : k \in Kinds}, input : Nat \cup {Unknown},
        total : Nat \cup {Unknown}]

\* Types, and: what overflowed is never kept (checked_add).
TypeOK ==
    /\ clock \in 0 .. env.maxTime
    /\ db.file \in Nat /\ \A r \in DOMAIN db.rows : r \in Nat \ {0}
    /\ index.totals \subseteq Row /\ \A x \in index.totals : x.total <= Limit
    /\ pc \in [Procs -> {"idle", "snapshot", "save"}]
    /\ \A p \in Procs : panel[p].kind \in
          {"loading", "ready", "empty", "unavailable", "stale"}
    /\ \A d \in Days : hist[d].rows \subseteq Row

\* The checkpoint describes one snapshot: its totals and identifiers are those of all
\* the day's parts up to the cursor, however they were collected piece by piece by
\* processes that overwrite one another's file (OpenCodeIndexV1, merge_rows).
IndexIsOneSnapshot ==
    /\ TypeOK
    /\ index # NoIndex /\ ~index.drift =>
         /\ index.totals = AllDays(index.base, index.day)
         /\ index.seen = {x.id : x \in PartsOf(index.base, 0, index.day)}
         /\ index.watermark = Top(index.base)

\* What a scan is about to report is what a full reading of its snapshot gives, also
\* after the database was replaced or put back, as long as the rows already counted
\* were not changed in place; and on a new day the kept cursor skips nothing, if the
\* clock only advances and no scan runs across midnight (collect_at, db_identity;
\* apply_day_rollover: "old rowids cannot enter the new day window").
ReportIsExact ==
    \A p \in Procs :
        pc[p] = "save" /\ ~task[p].next.drift =>
            task[p].next.totals = AllDays(task[p].snap, task[p].next.day)

\* A failure never erases what the history has of a day: its rows go only when a scan
\* that read the database found none (HARD STOP of the TUI, opencode_ready_rows).
OnlyScansErase ==
    [][\A d \in Days :
          hist[d].rows # {} /\ hist'[d].rows = {} =>
              \E p \in Procs : pc[p] = "save" /\ pc'[p] = "idle" /\ task[p].next.totals = {}]_vars

\* record_source: "Record one source's TODAY rows".  As long as no scan runs across
\* midnight, rows that go under a day on which they were not used are rows that a TUI
\* kept and marks as stale, however many scans fail in between.
OnlyStaleCrossesDays ==
    [][env.calm => \A d \in Days :
          hist'[d] # hist[d] /\ hist'[d].of # d =>
              \E p \in Tuis : panel'[p].kind = "stale" /\ panel'[p].of = hist'[d].of]_vars
=============================================================================
