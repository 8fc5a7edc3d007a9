------------------------------- MODULE Notify -------------------------------
(***************************************************************************)
(* Threshold notifications (notify.rs).  After each fresh collection a     *)
(* process loads notify-state.json, plans alerts against it, runs          *)
(* notify-send for each and saves the new state: three steps with no lock, *)
(* in every process that refreshes.                                        *)
(***************************************************************************)
EXTENDS Integers, FiniteSets

CONSTANTS
    Procs,         \* processes that check for alerts
    Providers,
    Windows,       \* the state's keys "provider|label"
    provider,      \* provider of each window
    Resets,        \* values of a window's resets_at
    Environments   \* what the processes run in: see env

ASSUME NotifyAssumption ==
    /\ provider \in [Windows -> Providers]
    /\ Environments \subseteq [alone : BOOLEAN, faults : BOOLEAN, gone : BOOLEAN,
                         cooldown : Nat, maxTime : Nat]

VARIABLES
    env,        \* fixed from the start.  cooldown: notification_cooldown; maxTime:
                \* bound on the clock; alone: one check at a time; faults: processes
                \* die and saves fail; gone: windows may be missing from a status
    now,        \* wall clock
    state,      \* notify-state.json: the last alert kept for each window
    pc,         \* where each process stands
    seen,       \* the state a process has loaded
    next,       \* the state it will save
    pending,    \* alerts it has yet to send
    announced   \* history: every alert sent, for each window

vars == <<now, state, pc, seen, next, pending, announced>>
allVars == <<env, vars>>

Time == 0 .. env.maxTime
Record == [level : {1, 2}, resets_at : Resets, notified_at : Time]
NoRecord == [level |-> 0, resets_at |-> 0, notified_at |-> 0]
State == [Windows -> Record \cup {NoRecord}]
NoState == [w \in Windows |-> NoRecord]
Alert == [window : Windows, level : {1, 2}, resets_at : Resets, notified_at : Time]

\* What a status says of a window: a level (level_for: 0 below warning_at, 2 from
\* critical_at), an error of its provider, or nothing.
Reading == [kind : {"level"}, level : 0 .. 2, resets_at : Resets]
Error == [kind |-> "error", level |-> 0, resets_at |-> 0]
Gone == [kind |-> "gone", level |-> 0, resets_at |-> 0]
Statuses ==
    {s \in [Windows -> Reading \cup {Error} \cup IF env.gone THEN {Gone} ELSE {}] :
        \A v, w \in Windows :
            provider[v] = provider[w] => (s[v] = Error <=> s[w] = Error)}

Init ==
    /\ env \in Environments
    /\ now = 0
    /\ state = NoState
    /\ pc = [p \in Procs |-> "idle"]
    /\ seen = [p \in Procs |-> NoState]
    /\ next = [p \in Procs |-> NoState]
    /\ pending = [p \in Procs |-> {}]
    /\ announced = [w \in Windows |-> {}]

-----------------------------------------------------------------------------
(* The planner.                                                            *)

Known(r) == r # NoRecord
InCooldown(r) == now - r.notified_at < env.cooldown

\* Mutants: a rearm forgets the cooldown; a level is told once per window only.
AlertsAfterReset(r, x) ==
    x.kind = "level" /\ x.level > (IF r.resets_at = x.resets_at THEN r.level ELSE 0)
AlertsOnEscalation(r, x) == x.kind = "level" /\ x.level > r.level

\* An alert for reading x over record r: above what this window was told, and
\* either higher than the last alert or past its cooldown.
Alerts(r, x) ==
    /\ x.kind = "level"
    /\ x.level > IF Known(r) /\ r.resets_at = x.resets_at THEN r.level ELSE 0
    /\ x.level > r.level \/ ~InCooldown(r)

\* The record stays with an error, above a threshold or while it anchors the
\* cooldown; the record of a window that is not in the status goes.
Kept(r, x) ==
    x.kind = "error" \/ (x.kind = "level" /\ (x.level > 0 \/ InCooldown(r)))

PlannedRecord(r, x) ==
    IF Alerts(r, x)
    THEN [level |-> x.level, resets_at |-> x.resets_at, notified_at |-> now]
    ELSE IF Kept(r, x) THEN r ELSE NoRecord

\* check: load_state and plan.
Plan(p, s) ==
    /\ pc[p] = "idle"
    /\ env.alone => \A q \in Procs : pc[q] = "idle"
    /\ seen' = [seen EXCEPT ![p] = state]
    /\ next' = [next EXCEPT ![p] = [w \in Windows |-> PlannedRecord(state[w], s[w])]]
    /\ pending' = [pending EXCEPT ![p] =
         {[window |-> w, level |-> s[w].level, resets_at |-> s[w].resets_at,
           notified_at |-> now] : w \in {v \in Windows : Alerts(state[v], s[v])}}]
    /\ pc' = [pc EXCEPT ![p] = "send"]
    /\ UNCHANGED <<now, state, announced>>

-----------------------------------------------------------------------------
(* Sending and saving.                                                     *)

\* notify-send runs to its end; whether it worked changes nothing that follows.
Send(p) ==
    /\ pc[p] = "send"
    /\ \E a \in pending[p] :
         /\ pending' = [pending EXCEPT ![p] = @ \ {a}]
         /\ announced' = [announced EXCEPT ![a.window] = @ \cup
              {[level |-> a.level, resets_at |-> a.resets_at, notified_at |-> a.notified_at]}]
    /\ UNCHANGED <<now, state, pc, seen, next>>

Finish(p) ==
    /\ seen' = [seen EXCEPT ![p] = NoState]
    /\ next' = [next EXCEPT ![p] = NoState]
    /\ pending' = [pending EXCEPT ![p] = {}]
    /\ pc' = [pc EXCEPT ![p] = "idle"]

\* Mutant: the state is saved before the alerts are sent.
SaveFirst(p) ==
    /\ pc[p] = "send"
    /\ state' = next[p]
    /\ seen' = [seen EXCEPT ![p] = next[p]]
    /\ UNCHANGED <<now, pc, next, pending, announced>>

\* The state is saved when the plan changed it; a failed save is ignored.
Save(p) ==
    /\ pc[p] = "send" /\ pending[p] = {}
    /\ state' \in (IF next[p] # seen[p] THEN {next[p]} ELSE {state})
                  \cup (IF env.faults THEN {state} ELSE {})
    /\ Finish(p)
    /\ UNCHANGED <<now, announced>>

Crash(p) ==
    /\ env.faults
    /\ pc[p] = "send"
    /\ Finish(p)
    /\ UNCHANGED <<now, state, announced>>

Tick ==
    /\ now < env.maxTime
    /\ now' = now + 1
    /\ UNCHANGED <<state, pc, seen, next, pending, announced>>

-----------------------------------------------------------------------------

Next ==
    /\ UNCHANGED env
    /\ \/ \E p \in Procs :
            \/ \E s \in Statuses : Plan(p, s)
            \/ Send(p) \/ Save(p) \/ Crash(p)
       \/ Tick

Spec == Init /\ [][Next]_allVars

-----------------------------------------------------------------------------
(* Properties.                                                             *)

TypeOK ==
    /\ env \in Environments
    /\ now \in Time
    /\ state \in State
    /\ pc \in [Procs -> {"idle", "send"}]
    /\ seen \in [Procs -> State]
    /\ next \in [Procs -> State]
    /\ \A p \in Procs : pending[p] \subseteq Alert
    /\ \A w \in Windows : announced[w] \subseteq Record

\* plan: "Repeating a level after a reset or recrossing waits for `cooldown`;
\* warning -> critical bypasses that wait".  With one check at a time, no faults
\* and every window in the status, two alerts of one window less than a cooldown
\* apart go up in level, whatever resets, dips and errors lie between them.
Spaced(alerts) ==
    \A a, b \in alerts :
        a.notified_at < b.notified_at /\ b.notified_at - a.notified_at < env.cooldown =>
            a.level < b.level
Undisturbed == env.alone /\ ~env.faults
AlertsSpaced ==
    Undisturbed /\ ~env.gone => \A w \in Windows : Spaced(announced[w])

\* check sends before it saves, so the file never records an alert that nobody
\* was sent: a crash or another process may make an alert come twice, never
\* suppress it.
RecordsWereSent ==
    /\ TypeOK
    /\ \A w \in Windows : Known(state[w]) => state[w] \in announced[w]

\* No silent window: whatever the next status says of a window above a
\* threshold, its check alerts, or an alert of at least that level has gone out
\* for the same reset or within the cooldown.  Concurrent saves and crashes lose
\* records, which costs a repeated alert and never a missed one.
Told(w, x) ==
    \E a \in announced[w] :
        /\ a.level >= x.level
        /\ a.resets_at = x.resets_at \/ InCooldown(a)
NoSilentWindow ==
    \A w \in Windows, x \in Reading :
        x.level > 0 => Alerts(state[w], x) \/ Told(w, x)
=============================================================================
