----------------------------- MODULE TuiHistory -----------------------------
(***************************************************************************)
(* What the TUI shows of the spend history (tui.rs): the rows of the       *)
(* selected period, read by the UI thread itself, and the graph, read by a *)
(* thread of its own for each request; both while a backfill, scans and    *)
(* other processes write the database, and while the user changes the      *)
(* view, the period and the settings of the history.                       *)
(***************************************************************************)
EXTENDS Integers, Sequences, FiniteSets

CONSTANTS
    Sources,       \* token panels
    MaxReaders,    \* bound on the graph threads alive at once
    MaxVersion,    \* bound on the writes to the database
    MaxKeys        \* bound on the keys pressed

ASSUME TuiHistoryAssumption ==
    MaxReaders \in Nat /\ MaxVersion \in Nat /\ MaxKeys \in Nat

VARIABLES
    db,         \* the database: how often it was written
    enabled,    \* stats.enabled
    initial,    \* stats.default_period
    period,
    rows,       \* history_rows: for each source the period and the version read
    graph,      \* graph_open, graph_view, graph_data
    progress,   \* whether backfill_progress is shown
    active,     \* backfill_active
    backfills,  \* backfill threads alive
    readers,    \* graph threads
    channel,    \* messages on their way to the UI, oldest first
    keys,       \* keys pressed
    asked,      \* history: graph requests so far
    final       \* history: the version in which the last backfill ended

vars == <<db, enabled, initial, period, rows, graph, progress, active, backfills,
          readers, channel, keys, asked, final>>
threads == <<active, backfills>>
requests == <<graph, readers, asked>>

\* Today, week, month; and week, month, hours.
Cycle == 0 .. 2
NextOf(x) == (x + 1) % 3

Nothing == [of |-> -1, version |-> -1, asked |-> 0]
Read(of, version, n) == [of |-> of, version |-> version, asked |-> n]
Progress == [kind |-> "BackfillProgress"]
Backfilled == [kind |-> "Backfilled"]
Graph(data) == [kind |-> "Graph", data |-> data]
Slots == 1 .. MaxReaders
NoReader == [stage |-> "none", data |-> Nothing]

-----------------------------------------------------------------------------
(* Reading.                                                                *)

\* Mutant: rows are only read again for the sources that have none.
ReloadMissing(S, on, p) ==
    rows' = [s \in Sources |->
                IF ~on THEN Nothing
                ELSE IF s \in S /\ rows[s] = Nothing THEN Read(p, db', 0) ELSE rows[s]]

\* reload_source_history for some sources: at once, with no rows when stats are off.
Reload(S, on, p) ==
    rows' = [s \in Sources |->
                IF s \notin S THEN rows[s] ELSE IF on THEN Read(p, db', 0) ELSE Nothing]

Free == {i \in Slots : readers[i] = NoReader}

\* Mutant: no second thread while one is reading.
RequestOnce(g) ==
    /\ graph' = [g EXCEPT !.data = Nothing]
    /\ IF Free = Slots
       THEN /\ asked' = asked + 1
            /\ readers' = [readers EXCEPT ![1] =
                              [stage |-> "reading", data |-> Read(g.view, -1, asked')]]
       ELSE UNCHANGED <<asked, readers>>

\* reload_graph: what is shown goes, a thread reads the current view.
Request(g) ==
    /\ Free # {}
    /\ graph' = [g EXCEPT !.data = Nothing]
    /\ asked' = asked + 1
    /\ LET i == CHOOSE k \in Free : \A j \in Free : k <= j
       IN  readers' = [readers EXCEPT ![i] =
                          [stage |-> "reading", data |-> Read(g.view, -1, asked')]]

\* Mutant: a backfill beside the one that runs.
SpawnAlways == active' = TRUE /\ backfills' = backfills + 1

\* spawn_backfill: one at a time.
SpawnBackfill ==
    IF active THEN UNCHANGED threads
    ELSE active' = TRUE /\ backfills' = backfills + 1

\* App::new and the start of run.
Init ==
    /\ db = 0
    /\ enabled \in BOOLEAN
    /\ initial \in Cycle
    /\ period = IF enabled THEN initial ELSE 0
    /\ rows = [s \in Sources |-> IF enabled THEN Read(period, 0, 0) ELSE Nothing]
    /\ graph = [open |-> FALSE, view |-> 0, data |-> Nothing]
    /\ progress = FALSE
    /\ active = enabled
    /\ backfills = IF enabled THEN 1 ELSE 0
    /\ readers = [i \in Slots |-> NoReader]
    /\ channel = <<>>
    /\ keys = 0
    /\ asked = 0
    /\ final = 0

-----------------------------------------------------------------------------
(* Keys.                                                                   *)

Key == keys < MaxKeys /\ keys' = keys + 1

\* Key g, while stats are on.
ToggleGraph ==
    /\ Key /\ enabled
    /\ progress' = FALSE
    /\ IF graph.open
       THEN graph' = [graph EXCEPT !.open = FALSE] /\ UNCHANGED <<readers, asked>>
       ELSE Request([graph EXCEPT !.open = TRUE])
    /\ UNCHANGED <<db, enabled, initial, period, rows, threads, channel, final>>

\* Key v.
NextView ==
    /\ Key /\ graph.open
    /\ progress' = FALSE
    /\ Request([graph EXCEPT !.view = NextOf(@)])
    /\ UNCHANGED <<db, enabled, initial, period, rows, threads, channel, final>>

\* Key t, in front of the token panels.
NextPeriod ==
    /\ Key /\ enabled /\ ~graph.open
    /\ progress' = FALSE
    /\ period' = NextOf(period)
    /\ UNCHANGED <<db, enabled, initial, requests, threads, channel, final>>
    /\ Reload(Sources, enabled, period')

\* Any other key of the dashboard takes the progress away.
Dismiss ==
    /\ Key /\ progress
    /\ progress' = FALSE
    /\ UNCHANGED <<db, enabled, initial, period, rows, requests, threads, channel, final>>

\* settings_apply on the rows of the history.
SetEnabled ==
    /\ Key
    /\ enabled' = ~enabled
    /\ IF enabled' THEN SpawnBackfill ELSE UNCHANGED threads
    /\ UNCHANGED <<db, initial, period, requests, progress, channel, final>>
    /\ Reload(Sources, enabled', period)

SetPeriod ==
    /\ Key
    /\ initial' = NextOf(initial)
    /\ period' = initial'
    /\ UNCHANGED <<db, enabled, requests, progress, threads, channel, final>>
    /\ Reload(Sources, enabled, period')

-----------------------------------------------------------------------------
(* Threads and other processes.                                            *)

Write == db < MaxVersion /\ db' = db + 1
Send(m) == channel' = Append(channel, m)

\* A backfill records a day and says how far it is.
BackfillDay ==
    /\ backfills > 0
    /\ Write
    /\ Send(Progress)
    /\ UNCHANGED <<enabled, initial, period, rows, requests, progress, threads, keys, final>>

BackfillEnds ==
    /\ backfills > 0
    /\ backfills' = backfills - 1
    /\ final' = db
    /\ Send(Backfilled)
    /\ UNCHANGED <<db, enabled, initial, period, rows, requests, progress, active, keys>>

\* graph_data: nothing when stats are off.
ReadGraph(i) ==
    /\ readers[i].stage = "reading"
    /\ readers' = [readers EXCEPT ![i].stage = "sending",
                                  ![i].data.version = IF enabled THEN db ELSE -1]
    /\ UNCHANGED <<db, enabled, initial, period, rows, graph, progress, threads, channel,
                   keys, asked, final>>

SendGraph(i) ==
    /\ readers[i].stage = "sending"
    /\ Send(Graph(readers[i].data))
    /\ readers' = [readers EXCEPT ![i] = NoReader]
    /\ UNCHANGED <<db, enabled, initial, period, rows, graph, progress, threads, keys,
                   asked, final>>

\* Another process records a day.
Elsewhere ==
    /\ Write
    /\ UNCHANGED <<enabled, initial, period, rows, requests, progress, threads, channel,
                   keys, final>>

-----------------------------------------------------------------------------
(* apply_update.                                                           *)

Receive(kind) == channel # <<>> /\ Head(channel).kind = kind /\ channel' = Tail(channel)

\* The result of a scan is recorded when stats are on, and its source read again.
ApplyTokens(s) ==
    /\ IF enabled THEN Write ELSE UNCHANGED db
    /\ UNCHANGED <<enabled, initial, period, requests, progress, threads, channel, keys,
                   final>>
    /\ Reload({s}, enabled, period)

ApplyProgress ==
    /\ Receive("BackfillProgress")
    /\ progress' = TRUE
    /\ UNCHANGED <<db, enabled, initial, period, rows, requests, threads, keys, final>>

ApplyBackfilled ==
    /\ Receive("Backfilled")
    /\ progress' = FALSE
    /\ active' = FALSE
    /\ IF graph.open THEN Request(graph) ELSE UNCHANGED requests
    /\ UNCHANGED <<db, enabled, initial, period, backfills, keys, final>>
    /\ Reload(Sources, enabled, period)

\* Mutant: answers are shown whatever they are about.
AcceptedAlways(data) == TRUE

\* An answer for a view that is no longer shown is dropped.
Accepted(data) == data.of = graph.view

ApplyGraph ==
    /\ Receive("Graph")
    /\ graph' = IF Accepted(Head(channel).data)
                THEN [graph EXCEPT !.data = Head(channel).data] ELSE graph
    /\ UNCHANGED <<db, enabled, initial, period, rows, progress, threads, readers, keys,
                   asked, final>>

Apply == ApplyProgress \/ ApplyBackfilled \/ ApplyGraph

Next ==
    \/ ToggleGraph \/ NextView \/ NextPeriod \/ Dismiss \/ SetEnabled \/ SetPeriod
    \/ BackfillDay \/ BackfillEnds \/ Elsewhere \/ Apply
    \/ \E s \in Sources : ApplyTokens(s)
    \/ \E i \in Slots : ReadGraph(i) \/ SendGraph(i)

Spec == Init /\ [][Next]_vars

\* The UI loop drains its channel, graph queries and a backfill come to an end.
FairSpec ==
    /\ Spec
    /\ WF_vars(Apply) /\ WF_vars(BackfillEnds)
    /\ \A i \in Slots : WF_vars(ReadGraph(i)) /\ WF_vars(SendGraph(i))

-----------------------------------------------------------------------------
(* Properties.                                                             *)

\* Rows are those of the selected period, none are shown while stats are off, and once
\* no backfill is active they hold all of the last one: "rendering never queries a
\* half-finished backfill as if it were final" (spawn_backfill).
RowsAreFinal ==
    \A s \in Sources :
        IF enabled
        THEN /\ rows[s].of = period
             /\ ~active => rows[s].version >= final
        ELSE rows[s] = Nothing

\* "never render data from the previous view" (reload_graph); and the answer to the
\* latest request holds all of a backfill that is over.  An answer to an earlier request
\* for the same view may replace it (README, divergences).
GraphIsCurrent ==
    graph.data # Nothing =>
        /\ graph.data.of = graph.view
        /\ enabled /\ graph.open /\ ~active /\ graph.data.asked = asked =>
              graph.data.version >= final

\* One backfill at a time: active as long as it runs or its end is not applied; its
\* progress is never shown, nor on its way, after the end.
InChannel(m) == {i \in 1 .. Len(channel) : channel[i] = m}
OneBackfill ==
    /\ backfills + Cardinality(InChannel(Backfilled)) = IF active THEN 1 ELSE 0
    /\ progress \/ InChannel(Progress) # {} => active
    /\ \A i \in InChannel(Progress), j \in InChannel(Backfilled) : i < j

\* The graph does not stay at "cargando": an open graph gets its data, once the keys
\* stop, whatever answers were dropped.
GraphArrives == graph.open /\ graph.data = Nothing ~> graph.data # Nothing \/ ~graph.open
=============================================================================
