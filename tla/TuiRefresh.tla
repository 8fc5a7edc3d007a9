----------------------------- MODULE TuiRefresh -----------------------------
(***************************************************************************)
(* The refresh cycle of the terminal UI (tui.rs): the coalescer that       *)
(* admits one status collection at a time, the token scans each refresh    *)
(* starts, and the FIFO channel through which workers reach the one thread *)
(* that owns the state.                                                    *)
(***************************************************************************)
EXTENDS Integers, Sequences, FiniteSets

CONSTANTS
    TokenSources,  \* token panels: Claude, Pi, OpenCode
    MaxScans       \* bound on the scans of one source alive at once

ASSUME TuiAssumption == MaxScans \in Nat

VARIABLES
    collecting,    \* RefreshScheduler.active
    pending,
    pendingForce,
    refreshing,    \* the UI's own flag
    working,       \* status workers alive, by whether they were forced
    panels,        \* panels switched on
    scanning,      \* the *_scanning flags
    armed,         \* sources with a scan deadline
    scans,         \* scan workers
    updates,       \* messages on their way to the UI, oldest first
    owed,          \* history: a forced refresh was asked for and has not begun
    awaiting       \* history: panels switched on and not scanned since

refreshVars == <<collecting, pending, pendingForce, refreshing, working, panels,
                 scanning, armed, scans, updates, owed, awaiting>>
schedulerVars == <<collecting, pending, pendingForce, refreshing, working, owed>>
scanVars == <<scanning, armed, scans, awaiting>>

ScanSlots == 1 .. MaxScans
StatusMsg == [kind |-> "Status"]
TokensMsg(s) == [kind |-> "Tokens", source |-> s]
ClearMsg(s) == [kind |-> "ClearLoading", source |-> s]
Updates == {StatusMsg} \cup UNION {{TokensMsg(s), ClearMsg(s)} : s \in TokenSources}

\* A new scan takes a free slot.  With none left it takes that of a scan still at
\* work, which thereby hangs for ever: the bound forgets workers, it never makes
\* the user interface wait.
Working == {"scanning", "overdue"}
At(s, stages) == {i \in ScanSlots : scans[s][i] \in stages}
Room(s) == IF At(s, {"none"}) # {} THEN At(s, {"none"}) ELSE At(s, Working)
Slot(s) == CHOOSE i \in Room(s) : \A j \in Room(s) : i <= j

-----------------------------------------------------------------------------
(* refresh.                                                                *)

\* begin_*_scan: a source that is already being scanned is left alone.
Starting(on) == {s \in on : ~scanning[s]}

\* Mutant: a scan without a deadline.
StartScansUnarmed(on) ==
    LET new == Starting(on)
    IN /\ \A s \in new : Room(s) # {}
       /\ scanning' = [s \in TokenSources |-> scanning[s] \/ s \in new]
       /\ armed' = armed
       /\ scans' = [s \in TokenSources |->
            IF s \in new THEN [scans[s] EXCEPT ![Slot(s)] = "scanning"] ELSE scans[s]]

StartScans(on) ==
    LET new == Starting(on)
    IN /\ \A s \in new : Room(s) # {}
       /\ scanning' = [s \in TokenSources |-> scanning[s] \/ s \in new]
       /\ armed' = [s \in TokenSources |-> armed[s] \/ s \in new]
       /\ scans' = [s \in TokenSources |->
            IF s \in new THEN [scans[s] EXCEPT ![Slot(s)] = "scanning"] ELSE scans[s]]

StartWorker(force) == working' = [working EXCEPT ![force] = @ + 1]

\* maybe_schedule_refresh: the first caller owns the worker, later ones leave a
\* request behind; a forced one outlives the others.
Coalesce(force) ==
    /\ pending' = TRUE
    /\ pendingForce' = (pendingForce \/ force)
    /\ UNCHANGED <<collecting, refreshing, working, scanning, armed, scans>>

\* Mutant: a later ordinary request downgrades a forced one.
RefreshDowngrading(force, on) ==
    IF collecting
    THEN /\ pending' = TRUE /\ pendingForce' = force
         /\ UNCHANGED <<collecting, refreshing, working, scanning, armed, scans>>
    ELSE /\ collecting' = TRUE /\ refreshing' = TRUE
         /\ StartWorker(force) /\ StartScans(on)
         /\ UNCHANGED <<pending, pendingForce>>

Refresh(force, on) ==
    IF collecting THEN Coalesce(force)
    ELSE /\ collecting' = TRUE /\ refreshing' = TRUE
         /\ StartWorker(force) /\ StartScans(on)
         /\ UNCHANGED <<pending, pendingForce>>

-----------------------------------------------------------------------------
(* What the user and the timer do.                                         *)

\* The refresh at start-up is part of the initial state.
RefreshInit ==
    /\ panels \in SUBSET TokenSources
    /\ collecting = TRUE /\ refreshing = TRUE
    /\ pending = FALSE /\ pendingForce = FALSE
    /\ working = [f \in BOOLEAN |-> IF f THEN 0 ELSE 1]
    /\ scanning = [s \in TokenSources |-> s \in panels]
    /\ armed = scanning
    /\ scans = [s \in TokenSources |-> [i \in ScanSlots |->
                  IF s \in panels /\ i = 1 THEN "scanning" ELSE "none"]]
    /\ updates = <<>>
    /\ owed = FALSE
    /\ awaiting = {}

\* Key r.
PressRefresh ==
    /\ Refresh(TRUE, panels)
    /\ owed' = collecting
    /\ awaiting' = IF collecting THEN awaiting ELSE awaiting \ panels
    /\ UNCHANGED <<panels, updates>>

\* AUTO_REFRESH has passed since the last refresh.
AutoRefresh ==
    /\ ~refreshing
    /\ Refresh(FALSE, panels)
    /\ awaiting' = IF collecting THEN awaiting ELSE awaiting \ panels
    /\ UNCHANGED <<panels, updates, owed>>

\* settings_apply on a panel row: a newly shown panel needs its first scan.
TogglePanel(s) ==
    LET on == (panels \ {s}) \cup ({s} \ panels)
    IN /\ panels' = on
       /\ Refresh(FALSE, on)
       /\ awaiting' = LET waiting == IF s \in on THEN awaiting \cup {s} ELSE awaiting \ {s}
                      IN IF collecting THEN waiting ELSE waiting \ on
       /\ UNCHANGED <<updates, owed>>

-----------------------------------------------------------------------------
(* The workers.                                                            *)

\* Loads or collects a status (StatusRefresh) and sends it.
StatusWorker ==
    /\ \E f \in BOOLEAN :
         /\ working[f] > 0
         /\ working' = [working EXCEPT ![f] = @ - 1]
    /\ updates' = Append(updates, StatusMsg)
    /\ UNCHANGED <<collecting, pending, pendingForce, refreshing, panels, scanVars, owed>>

SetScan(s, i, stage) == scans' = [scans EXCEPT ![s][i] = stage]

SendTokens(s, i) ==
    /\ scans[s][i] \in Working
    /\ SetScan(s, i, "sent")
    /\ updates' = Append(updates, TokensMsg(s))
    /\ UNCHANGED <<schedulerVars, panels, scanning, armed, awaiting>>

\* LoadingGuard::drop, after the result or instead of it when the scan panics.
DropGuard(s, i) ==
    /\ scans[s][i] \in Working \cup {"sent"}
    /\ SetScan(s, i, "none")
    /\ updates' = Append(updates, ClearMsg(s))
    /\ UNCHANGED <<schedulerVars, panels, scanning, armed, awaiting>>

-----------------------------------------------------------------------------
(* The UI thread takes messages in the order they were sent.               *)

ReceiveUpdate(m) == updates # <<>> /\ Head(updates) = m /\ updates' = Tail(updates)

\* Mutant: `finished` does not release the scheduler.
ApplyStatusHeld ==
    /\ ReceiveUpdate(StatusMsg)
    /\ refreshing' = FALSE
    /\ UNCHANGED <<collecting, pending, pendingForce, working, panels, scanVars, owed>>

\* The collection is over; a request left behind starts the next one at once.
ApplyStatus ==
    /\ ReceiveUpdate(StatusMsg)
    /\ pending' = FALSE
    /\ IF pending
       THEN /\ collecting' = TRUE /\ refreshing' = TRUE
            /\ pendingForce' = FALSE
            /\ StartWorker(pendingForce) /\ StartScans(panels)
            /\ owed' = (owed /\ ~pendingForce)
            /\ awaiting' = awaiting \ panels
       ELSE /\ collecting' = FALSE /\ refreshing' = FALSE
            /\ UNCHANGED <<pendingForce, working, scanVars, owed>>
    /\ UNCHANGED panels

ClearLoading(s) ==
    /\ scanning' = [scanning EXCEPT ![s] = FALSE]
    /\ armed' = [armed EXCEPT ![s] = FALSE]

ApplyScanMessage(s) ==
    /\ ReceiveUpdate(TokensMsg(s)) \/ ReceiveUpdate(ClearMsg(s))
    /\ ClearLoading(s)
    /\ UNCHANGED <<schedulerVars, panels, scans, awaiting>>

ApplyUpdate == ApplyStatus \/ \E s \in TokenSources : ApplyScanMessage(s)

\* clear_expired_loading: SCAN_TIMEOUT has passed with no message of the scan.
\* Whatever is still at work is overdue: the UI has given up on it.
Expire(s) ==
    /\ armed[s]
    /\ ClearLoading(s)
    /\ scans' = [scans EXCEPT ![s] = [i \in ScanSlots |->
         IF scans[s][i] = "scanning" THEN "overdue" ELSE scans[s][i]]]
    /\ UNCHANGED <<schedulerVars, panels, updates, awaiting>>

-----------------------------------------------------------------------------

RefreshNext ==
    \/ PressRefresh \/ AutoRefresh \/ StatusWorker \/ ApplyStatus
    \/ \E s \in TokenSources :
         \/ TogglePanel(s) \/ ApplyScanMessage(s) \/ Expire(s)
         \/ \E i \in ScanSlots : SendTokens(s, i) \/ DropGuard(s, i)

RefreshSpec == RefreshInit /\ [][RefreshNext]_refreshVars

\* The UI loop turns every 200 ms, its clock advances, and a status worker ends
\* because collect_all has a budget.  Scans may hang, but one that has sent its
\* result has nothing left to do but drop its guard.
FairRefreshSpec ==
    /\ RefreshSpec
    /\ WF_refreshVars(StatusWorker) /\ WF_refreshVars(ApplyUpdate)
    /\ \A s \in TokenSources :
         /\ WF_refreshVars(Expire(s))
         /\ \A i \in ScanSlots : WF_refreshVars(scans[s][i] = "sent" /\ DropGuard(s, i))

-----------------------------------------------------------------------------
(* Properties.                                                             *)

TypeOK ==
    /\ {collecting, pending, pendingForce, refreshing, owed} \subseteq BOOLEAN
    /\ working \in [BOOLEAN -> 0 .. 1]
    /\ panels \subseteq TokenSources
    /\ scanning \in [TokenSources -> BOOLEAN]
    /\ armed \in [TokenSources -> BOOLEAN]
    /\ scans \in [TokenSources -> [ScanSlots -> Working \cup {"none", "sent"}]]
    /\ updates \in Seq(Updates)
    /\ awaiting \subseteq TokenSources

\* RefreshScheduler: "The first caller owns the worker; later callers collapse
\* into one follow-up pass".  The scheduler is held exactly as long as one worker
\* is collecting or its answer is in the channel, and the UI's flag agrees: two
\* collections never compete, and no state is left in which none can begin.
StatusInFlight ==
    working[TRUE] + working[FALSE]
        + Cardinality({i \in 1 .. Len(updates) : updates[i] = StatusMsg})
OneCollection ==
    /\ TypeOK
    /\ StatusInFlight = IF collecting THEN 1 ELSE 0
    /\ refreshing = collecting
    /\ pending => collecting

\* "a queued forced refresh survives ordinary requests": after key r a forced
\* collection begins, whatever is asked for in the meantime.
ForceHonoured == owed ~> ~owed

\* settings_apply: "A newly enabled panel needs its first scan", even when it is
\* switched on in the middle of a refresh.
NewPanelScanned == \A s \in TokenSources : s \in awaiting ~> s \notin awaiting

\* Neither a forced refresh nor a new panel is lost to a refresh that is under way.
RequestsServed == ForceHonoured /\ NewPanelScanned

\* LoadingGuard and the deadline: no panel says it is loading for ever, whether
\* its scan returns, panics or hangs.
LoadingEnds == \A s \in TokenSources : scanning[s] ~> ~scanning[s]
=============================================================================
