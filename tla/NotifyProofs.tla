---------------------------- MODULE NotifyProofs ----------------------------
(***************************************************************************)
(* Notify for any number of processes, providers, windows and resets, and  *)
(* in any environment: every record in the file stands for an alert that   *)
(* was sent, no window above a threshold goes untold, and undisturbed      *)
(* checks space the alerts of a window.                                    *)
(***************************************************************************)
EXTENDS Notify, TLAPS

\* An alert without its window: the record it leaves.
RecordOf(a) ==
    [level |-> a.level, resets_at |-> a.resets_at, notified_at |-> a.notified_at]

\* What a process will save was sent before, or is still to be sent before it saves.
NextIsSentOrPending ==
    \A p \in Procs, w \in Windows :
        Known(next[p][w]) =>
            \/ next[p][w] \in announced[w]
            \/ \E a \in pending[p] : a.window = w /\ RecordOf(a) = next[p][w]

AnnouncedTyped == announced \in [Windows -> SUBSET Record]
PendingTyped == pending \in [Procs -> SUBSET Alert]

IInv == RecordsWereSent /\ NextIsSentOrPending /\ AnnouncedTyped /\ PendingTyped

-----------------------------------------------------------------------------
(* The data.                                                               *)

\* A record has a level, NoRecord has none.
LEMMA NoRecordIsNoRecord ==
    ASSUME NEW r \in Record PROVE r # NoRecord
  BY DEF Record, NoRecord

\* The record of an alert is a record.
LEMMA RecordOfAlert ==
    ASSUME NEW a \in Alert PROVE RecordOf(a) \in Record
  BY DEF Alert, Record, RecordOf

\* A reading of a status is a level, an error or nothing.
LEMMA StatusReadings ==
    ASSUME NEW s \in Statuses, NEW w \in Windows
    PROVE  s[w].kind = "level" => s[w].level \in 0 .. 2 /\ s[w].resets_at \in Resets
  BY DEF Statuses, Reading, Error, Gone

-----------------------------------------------------------------------------
(* The invariant.                                                          *)

\* The parts hold before any process runs.
LEMMA InitHolds == Init => IInv
  <1> SUFFICES ASSUME Init PROVE IInv
    OBVIOUS
  <1>1. 0 \in Time
    BY NotifyAssumption DEF Init, Time
  <1>2. NoState \in State
    BY DEF NoState, State
  <1>3. TypeOK
    BY <1>1, <1>2 DEF Init, TypeOK
  <1> QED
    BY <1>3 DEF IInv, Init, RecordsWereSent, NextIsSentOrPending, AnnouncedTyped,
              PendingTyped, Known, NoState

\* A plan records what it alerts or what the file holds; nothing is sent yet.
LEMMA PlanHolds ==
    ASSUME IInv, NEW p \in Procs, NEW s \in Statuses, Plan(p, s), env' = env
    PROVE  IInv'
  <1> USE NotifyAssumption DEF IInv, RecordsWereSent
  <1> DEFINE planned == [w \in Windows |-> PlannedRecord(state[w], s[w])]
             alerting == {w \in Windows : Alerts(state[w], s[w])}
             alerts == {[window |-> w, level |-> s[w].level, resets_at |-> s[w].resets_at,
                         notified_at |-> now] : w \in alerting}
  <1>1. \A w \in alerting : s[w].level \in {1, 2} /\ s[w].resets_at \in Resets
    <2> TAKE w \in alerting
    <2>1. s[w].level \in 0 .. 2 /\ s[w].resets_at \in Resets
      BY StatusReadings DEF Alerts
    <2>2. s[w].level > IF Known(state[w]) /\ state[w].resets_at = s[w].resets_at
                       THEN state[w].level ELSE 0
      BY DEF Alerts
    <2>3. state[w] = NoRecord \/ state[w].level \in {1, 2}
      BY DEF TypeOK, State, Record
    <2> QED
      BY <2>1, <2>2, <2>3 DEF Known
  <1>2. now \in Time
    BY DEF TypeOK
  <1>3. alerts \subseteq Alert
    BY <1>1, <1>2 DEF Alert
  <1>4. planned \in State
    BY <1>1, <1>2 DEF TypeOK, State, Record, PlannedRecord
  <1>5. /\ next' = [next EXCEPT ![p] = planned]
        /\ pending' = [pending EXCEPT ![p] = alerts]
        /\ seen' = [seen EXCEPT ![p] = state]
        /\ pc' = [pc EXCEPT ![p] = "send"]
        /\ now' = now /\ state' = state /\ announced' = announced
    BY DEF Plan
  <1>6. State' = State /\ Record' = Record /\ Alert' = Alert /\ Time' = Time
    BY DEF State, Record, Alert, Time
  <1> HIDE DEF planned, alerts, alerting
  <1>7. TypeOK'
    BY <1>3, <1>4, <1>5, <1>6 DEF TypeOK, PendingTyped
  <1>8. AnnouncedTyped' /\ PendingTyped'
    BY <1>3, <1>5, <1>6 DEF AnnouncedTyped, PendingTyped
  <1>9. NextIsSentOrPending'
    <2> SUFFICES ASSUME NEW q \in Procs, NEW w \in Windows, Known(next'[q][w])
                 PROVE  \/ next'[q][w] \in announced'[w]
                        \/ \E a \in pending'[q] : a.window = w /\ RecordOf(a) = next'[q][w]
      BY DEF NextIsSentOrPending, Known
    <2>1. CASE q # p
      BY <1>5, <2>1 DEF TypeOK, NextIsSentOrPending, PendingTyped
    <2>2. CASE q = p
      <3>1. next'[q][w] = PlannedRecord(state[w], s[w]) /\ pending'[q] = alerts
        BY <1>5, <2>2 DEF TypeOK, PendingTyped, planned
      <3>2. CASE Alerts(state[w], s[w])
        <4> DEFINE a == [window |-> w, level |-> s[w].level,
                         resets_at |-> s[w].resets_at, notified_at |-> now]
        <4>1. a \in alerts
          BY <3>2 DEF alerts, alerting
        <4>2. RecordOf(a) = PlannedRecord(state[w], s[w])
          BY <3>2 DEF RecordOf, PlannedRecord
        <4> QED
          BY <3>1, <4>1, <4>2
      <3>3. CASE ~Alerts(state[w], s[w])
        BY <1>5, <3>1, <3>3 DEF PlannedRecord, Known
      <3> QED
        BY <3>2, <3>3
    <2> QED
      BY <2>1, <2>2
  <1> QED
    BY <1>5, <1>7, <1>8, <1>9 DEF Known

\* An alert that goes out is no longer pending.
LEMMA SendHolds ==
    ASSUME IInv, NEW p \in Procs, Send(p), env' = env
    PROVE  IInv'
  <1> USE DEF IInv, RecordsWereSent
  <1>1. PICK a \in pending[p] :
           /\ pending' = [pending EXCEPT ![p] = @ \ {a}]
           /\ announced' = [announced EXCEPT ![a.window] = @ \cup {RecordOf(a)}]
    BY DEF Send, RecordOf
  <1>2. now' = now /\ state' = state /\ pc' = pc /\ seen' = seen /\ next' = next
    BY DEF Send
  <1>3. a \in Alert
    BY DEF PendingTyped
  <1>4. a.window \in Windows /\ RecordOf(a) \in Record
    BY <1>3, RecordOfAlert DEF Alert
  <1>5. State' = State /\ Record' = Record /\ Alert' = Alert /\ Time' = Time
    BY DEF State, Record, Alert, Time
  <1>6. AnnouncedTyped' /\ PendingTyped'
    BY <1>1, <1>4, <1>5 DEF AnnouncedTyped, PendingTyped
  <1>7. TypeOK'
    BY <1>2, <1>5, <1>6 DEF TypeOK, AnnouncedTyped, PendingTyped
  <1>8. \A w \in Windows : announced[w] \subseteq announced'[w]
    BY <1>1, <1>4 DEF AnnouncedTyped
  <1>9. RecordOf(a) \in announced'[a.window]
    BY <1>1, <1>4 DEF AnnouncedTyped
  <1>10. NextIsSentOrPending'
    <2> SUFFICES ASSUME NEW q \in Procs, NEW w \in Windows, Known(next[q][w])
                 PROVE  \/ next[q][w] \in announced'[w]
                        \/ \E b \in pending'[q] : b.window = w /\ RecordOf(b) = next[q][w]
      BY <1>2 DEF NextIsSentOrPending, Known
    <2>1. CASE next[q][w] \in announced[w]
      BY <1>8, <2>1
    <2>2. CASE \E b \in pending[q] : b.window = w /\ RecordOf(b) = next[q][w]
      <3>1. PICK b \in pending[q] : b.window = w /\ RecordOf(b) = next[q][w]
        BY <2>2
      <3>2. CASE b = a
        BY <1>9, <3>1, <3>2
      <3>3. CASE b # a
        BY <1>1, <3>1, <3>3 DEF PendingTyped
      <3> QED
        BY <3>2, <3>3
    <2> QED
      BY <2>1, <2>2 DEF NextIsSentOrPending
  <1> QED
    BY <1>2, <1>6, <1>7, <1>8, <1>10 DEF Known

\* A process that ends, dies or saves leaves nothing behind but the file.
LEMMA FinishHolds ==
    ASSUME IInv, NEW p \in Procs, Save(p) \/ Crash(p), env' = env
    PROVE  IInv'
  <1> USE DEF IInv, RecordsWereSent
  <1>1. /\ seen' = [seen EXCEPT ![p] = NoState]
        /\ next' = [next EXCEPT ![p] = NoState]
        /\ pending' = [pending EXCEPT ![p] = {}]
        /\ pc' = [pc EXCEPT ![p] = "idle"]
        /\ now' = now /\ announced' = announced
    BY DEF Save, Crash, Finish
  <1>2. state' = state \/ (state' = next[p] /\ pending[p] = {})
    BY DEF Save, Crash
  <1>3. State' = State /\ Record' = Record /\ Alert' = Alert /\ Time' = Time
    BY DEF State, Record, Alert, Time
  <1>4. NoState \in State
    BY DEF NoState, State
  <1>5. TypeOK'
    BY <1>1, <1>2, <1>3, <1>4 DEF TypeOK
  <1>6. AnnouncedTyped' /\ PendingTyped'
    BY <1>1, <1>3 DEF AnnouncedTyped, PendingTyped
  <1>7. \A w \in Windows : Known(state'[w]) => state'[w] \in announced[w]
    BY <1>2 DEF Known, NextIsSentOrPending
  <1>8. NextIsSentOrPending'
    <2> SUFFICES ASSUME NEW q \in Procs, NEW w \in Windows, Known(next'[q][w])
                 PROVE  \/ next'[q][w] \in announced'[w]
                        \/ \E b \in pending'[q] : b.window = w /\ RecordOf(b) = next'[q][w]
      BY DEF NextIsSentOrPending, Known
    <2>1. q # p
      BY <1>1 DEF TypeOK, Known, NoState
    <2>2. next'[q] = next[q] /\ pending'[q] = pending[q]
      BY <1>1, <2>1 DEF TypeOK, PendingTyped
    <2> QED
      BY <1>1, <2>2 DEF NextIsSentOrPending
  <1> QED
    BY <1>1, <1>5, <1>6, <1>7, <1>8 DEF Known

\* The clock changes no record, but the instants a record may bear.
LEMMA TickHolds ==
    ASSUME IInv, Tick, env' = env
    PROVE  IInv'
  <1>1. Time' = Time
    BY DEF Time
  <1>2. State' = State /\ Record' = Record /\ Alert' = Alert
    BY <1>1 DEF State, Record, Alert
  <1>3. now' \in Time
    BY NotifyAssumption DEF Tick, IInv, RecordsWereSent, TypeOK, Time
  <1> QED
    BY <1>1, <1>2, <1>3 DEF Tick, IInv, RecordsWereSent, TypeOK, NextIsSentOrPending,
         AnnouncedTyped, PendingTyped, Known

\* Every step keeps the parts together.
LEMMA NextHolds == IInv /\ [Next]_allVars => IInv'
  <1> SUFFICES ASSUME IInv, [Next]_allVars PROVE IInv'
    OBVIOUS
  <1>1. CASE Next
    BY <1>1, PlanHolds, SendHolds, FinishHolds, TickHolds DEF Next
  <1>2. CASE UNCHANGED allVars
    BY <1>2 DEF allVars, vars, IInv, RecordsWereSent, TypeOK, NextIsSentOrPending,
         AnnouncedTyped, PendingTyped, Known, Time, State, Record, Alert
  <1> QED
    BY <1>1, <1>2

\* The invariant of the specification, from its first state on.
LEMMA Invariance == Spec => []IInv
  BY InitHolds, NextHolds, PTL DEF Spec

-----------------------------------------------------------------------------
(* Theorems.                                                               *)

\* check sends before it saves: the file never holds the record of an alert that was not
\* handed to notify-send, whatever processes interleave, die or fail to save.
THEOREM FileRecordsWereSent == Spec => []RecordsWereSent
  <1>1. IInv => RecordsWereSent
    BY DEF IInv
  <1> QED
    BY <1>1, Invariance, PTL

\* plan: a reading above a threshold that raises no alert was told before, at that level
\* or above it, for the same reset or within the cooldown.
THEOREM NoWindowStaysSilent == Spec => []NoSilentWindow
  <1>1. IInv => NoSilentWindow
    <2> SUFFICES ASSUME IInv, NEW w \in Windows, NEW x \in Reading, x.level > 0,
                        ~Alerts(state[w], x)
                 PROVE  Told(w, x)
      BY DEF NoSilentWindow
    <2> DEFINE r == state[w]
    <2>1. /\ x.kind = "level" /\ x.level \in 1 .. 2
          /\ r = NoRecord \/ r \in Record
      BY DEF Reading, IInv, RecordsWereSent, TypeOK, State
    <2>2. \/ Known(r) /\ r.resets_at = x.resets_at /\ r.level >= x.level
          \/ r.level >= x.level /\ InCooldown(r)
      BY <2>1 DEF Alerts, Record, NoRecord, Known
    <2>3. Known(r) /\ r.level >= x.level
      BY <2>1, <2>2 DEF NoRecord, Known
    <2>4. r \in announced[w]
      BY <2>3 DEF IInv, RecordsWereSent
    <2> QED
      BY <2>2, <2>3, <2>4 DEF Told
  <1> QED
    BY <1>1, Invariance, PTL

-----------------------------------------------------------------------------
(* The cooldown.  Counting the alerts that are planned with those that     *)
(* were sent, every alert still in its cooldown is covered by the record   *)
(* in force: a later or equal one of the same or a higher level.           *)

Sending(p) == pc[p] = "send"
Raised(w) == announced[w] \cup {RecordOf(a) : a \in {b \in UNION {pending[p] : p \in Procs} : b.window = w}}
Covers(r, w) ==
    \A a \in Raised(w) :
        now - a.notified_at < env.cooldown =>
            Known(r) /\ a.level <= r.level /\ a.notified_at <= r.notified_at

CooldownInv ==
    Undisturbed /\ ~env.gone =>
        /\ \A p, q \in Procs : Sending(p) /\ Sending(q) => p = q
        /\ \A p \in Procs : IF Sending(p) THEN seen[p] = state ELSE pending[p] = {}
        /\ \A w \in Windows :
             /\ \A a \in Raised(w) : a \in Record /\ a.notified_at <= now
             /\ Spaced(Raised(w))
             /\ \A p \in Procs : Sending(p) => Covers(next[p][w], w)
             /\ (\A p \in Procs : ~Sending(p)) => Covers(state[w], w)

\* A record written by a plan covers what the one before it covered, and its own alert.
LEMMA PlannedCovers ==
    ASSUME IInv, ~env.gone, NEW s \in Statuses, NEW w \in Windows, NEW R \in SUBSET Record,
           \A a \in R : a.notified_at <= now,
           \A a \in R : now - a.notified_at < env.cooldown =>
              Known(state[w]) /\ a.level <= state[w].level
                /\ a.notified_at <= state[w].notified_at,
           Spaced(R)
    PROVE  LET r == PlannedRecord(state[w], s[w])
               S == IF Alerts(state[w], s[w]) THEN R \cup {r} ELSE R
           IN  /\ \A a \in S : now - a.notified_at < env.cooldown =>
                     Known(r) /\ a.level <= r.level /\ a.notified_at <= r.notified_at
               /\ \A a \in S : a \in Record /\ a.notified_at <= now
               /\ Spaced(S)
  <1> DEFINE r == PlannedRecord(state[w], s[w])
  <1>1. /\ env.cooldown \in Nat /\ env.maxTime \in Nat /\ now \in Nat /\ now \in Time
        /\ Time \subseteq Nat
    BY NotifyAssumption DEF IInv, RecordsWereSent, TypeOK, Time
  <1>2. state[w] = NoRecord \/ state[w] \in Record
    BY DEF IInv, RecordsWereSent, TypeOK, State
  <1>3. ASSUME NEW a \in Record PROVE a.level \in 1 .. 2 /\ a.notified_at \in Nat
    <2>1. a.level \in {1, 2} /\ a.notified_at \in Time
      BY DEF Record
    <2>2. a.level \in 1 .. 2
      BY <2>1
    <2>3. a.notified_at \in Nat
      BY <2>1, NotifyAssumption DEF Time, IInv, RecordsWereSent, TypeOK
    <2> QED
      BY <2>2, <2>3
  <1>4. CASE Alerts(state[w], s[w])
    <2>1. s[w].kind = "level" /\ s[w].level \in 0 .. 2 /\ s[w].resets_at \in Resets
      BY <1>4, StatusReadings DEF Alerts
    <2>2. s[w].level > 0
      BY <1>2, <1>4, <2>1 DEF Alerts, Known, Record, NoRecord
    <2>3. r = [level |-> s[w].level, resets_at |-> s[w].resets_at, notified_at |-> now]
      BY <1>4 DEF PlannedRecord
    <2>4. r \in Record /\ Known(r)
      BY <1>1, <2>1, <2>2, <2>3 DEF Record, Known, NoRecord
    <2>5. \A a \in R : now - a.notified_at < env.cooldown =>
              a.level < s[w].level
      BY <1>1, <1>2, <1>3, <1>4, <2>1 DEF Alerts, InCooldown, Known, Record
    <2> HIDE DEF r
    <2>6. Spaced(R \cup {r})
      <3> SUFFICES ASSUME NEW a \in R \cup {r}, NEW b \in R \cup {r},
                          a.notified_at < b.notified_at,
                          b.notified_at - a.notified_at < env.cooldown
                   PROVE  a.level < b.level
        BY DEF Spaced
      <3>1. a \in R
        BY <1>1, <1>3, <2>3
      <3>2. CASE b \in R
        BY <3>1, <3>2 DEF Spaced
      <3>3. CASE b = r
        BY <2>3, <2>5, <3>1, <3>3
      <3> QED
        BY <3>2, <3>3
    <2>7. ASSUME NEW a \in R \cup {r}, now - a.notified_at < env.cooldown
          PROVE  Known(r) /\ a.level <= r.level /\ a.notified_at <= r.notified_at
      <3>1. CASE a \in R
        <4>1. a.level < s[w].level /\ a.notified_at <= now
          BY <2>5, <2>7, <3>1
        <4>2. a.level \in 1 .. 2
          BY <1>3, <3>1
        <4> QED
          BY <2>1, <2>3, <2>4, <4>1, <4>2
      <3>2. CASE a = r
        BY <1>3, <2>4, <3>2
      <3> QED
        BY <3>1, <3>2
    <2>8. \A a \in R \cup {r} : a \in Record /\ a.notified_at <= now
      BY <1>1, <2>3, <2>4
    <2>9. (IF Alerts(state[w], s[w]) THEN R \cup {r} ELSE R) = R \cup {r}
      BY <1>4
    <2> QED
      BY <2>6, <2>7, <2>8, <2>9 DEF r
  <1>5. CASE ~Alerts(state[w], s[w])
    <2>1. CASE r = state[w]
      BY <1>5, <2>1
    <2>2. CASE r # state[w]
      <3>1. ~Kept(state[w], s[w])
        BY <1>5, <2>2 DEF PlannedRecord
      <3>2. s[w].kind \in {"level", "error"}
        BY DEF Statuses, Reading, Error
      <3>3. ~InCooldown(state[w])
        BY <3>1, <3>2 DEF Kept
      <3>4. \A a \in R : ~(now - a.notified_at < env.cooldown)
        BY <1>1, <1>2, <1>3, <3>3 DEF InCooldown, Known
      <3> QED
        BY <1>5, <3>4
    <2> QED
      BY <2>1, <2>2
  <1> QED
    BY <1>4, <1>5

\* While nothing disturbs the records, every step keeps the alerts apart.
LEMMA CooldownNext == IInv /\ CooldownInv /\ [Next]_allVars => CooldownInv'
  <1> SUFFICES ASSUME IInv, CooldownInv, [Next]_allVars, env' = env,
                      Undisturbed, ~env.gone
               PROVE  CooldownInv'
    BY DEF CooldownInv, Undisturbed, Next, allVars
  <1> USE DEF Undisturbed
  <1>0. Record' = Record /\ State' = State
    BY DEF Record, State, Time
  <1>1. ASSUME NEW p \in Procs, NEW s \in Statuses, Plan(p, s) PROVE CooldownInv'
    <2> DEFINE planned == [w \in Windows |-> PlannedRecord(state[w], s[w])]
               alerts == {[window |-> w, level |-> s[w].level, resets_at |-> s[w].resets_at,
                           notified_at |-> now] : w \in {v \in Windows : Alerts(state[v], s[v])}}
    <2>1. \A q \in Procs : ~Sending(q) /\ pending[q] = {}
      BY <1>1 DEF Plan, CooldownInv, Sending
    <2>2. /\ next' = [next EXCEPT ![p] = planned]
          /\ pending' = [pending EXCEPT ![p] = alerts]
          /\ seen' = [seen EXCEPT ![p] = state]
          /\ pc' = [pc EXCEPT ![p] = "send"]
          /\ now' = now /\ state' = state /\ announced' = announced
      BY <1>1 DEF Plan
    <2>3. \A w \in Windows : Raised(w) = announced[w]
      BY <2>1 DEF Raised
    <2>4. UNION {pending'[q] : q \in Procs} = alerts
      BY <2>1, <2>2 DEF IInv, PendingTyped
    <2>5. ASSUME NEW w \in Windows
          PROVE  Raised(w)' = announced[w] \cup
                    (IF Alerts(state[w], s[w]) THEN {PlannedRecord(state[w], s[w])} ELSE {})
      <3>1. {RecordOf(a) : a \in {b \in alerts : b.window = w}}
              = IF Alerts(state[w], s[w]) THEN {PlannedRecord(state[w], s[w])} ELSE {}
        <4>1. CASE Alerts(state[w], s[w])
          <5> DEFINE a == [window |-> w, level |-> s[w].level,
                           resets_at |-> s[w].resets_at, notified_at |-> now]
          <5>1. {b \in alerts : b.window = w} = {a}
            BY <4>1
          <5>2. RecordOf(a) = PlannedRecord(state[w], s[w])
            BY <4>1 DEF RecordOf, PlannedRecord
          <5> QED
            BY <4>1, <5>1, <5>2
        <4>2. CASE ~Alerts(state[w], s[w])
          <5>1. {b \in alerts : b.window = w} = {}
            BY <4>2
          <5> QED
            BY <4>2, <5>1
        <4> QED
          BY <4>1, <4>2
      <3> HIDE DEF alerts
      <3> QED
        BY <2>2, <2>4, <3>1 DEF Raised
    <2> HIDE DEF alerts
    <2>6. ASSUME NEW w \in Windows
          PROVE  /\ \A a \in Raised(w)' : a \in Record /\ a.notified_at <= now
                 /\ Spaced(Raised(w)')
                 /\ \A a \in Raised(w)' : now - a.notified_at < env.cooldown =>
                      /\ Known(planned[w])
                      /\ a.level <= planned[w].level
                      /\ a.notified_at <= planned[w].notified_at
      <3>1. announced[w] \in SUBSET Record
        BY DEF IInv, AnnouncedTyped
      <3>2. /\ Covers(state[w], w) /\ Spaced(announced[w])
            /\ \A a \in announced[w] : a.notified_at <= now
        BY <2>1, <2>3 DEF CooldownInv
      <3>3. \A a \in announced[w] : now - a.notified_at < env.cooldown =>
              Known(state[w]) /\ a.level <= state[w].level
                /\ a.notified_at <= state[w].notified_at
        BY <2>3, <3>2 DEF Covers
      <3> DEFINE S == IF Alerts(state[w], s[w])
                      THEN announced[w] \cup {PlannedRecord(state[w], s[w])} ELSE announced[w]
      <3>4. Raised(w)' = S
        BY <2>5
      <3>5. planned[w] = PlannedRecord(state[w], s[w])
        OBVIOUS
      <3> HIDE DEF planned
      <3> QED
        BY <3>1, <3>2, <3>3, <3>4, <3>5, PlannedCovers
    <2>7. \A q \in Procs : Sending(q)' <=> q = p
      BY <2>1, <2>2 DEF Sending, IInv, RecordsWereSent, TypeOK
    <2>8. next'[p] = planned /\ seen'[p] = state'
      BY <2>2 DEF IInv, RecordsWereSent, TypeOK
    <2>9. \A q \in Procs : q # p => pending'[q] = {}
      BY <2>1, <2>2 DEF IInv, PendingTyped
    <2> HIDE DEF planned
    <2>10. \A w \in Windows : Spaced(Raised(w))'
      BY <2>6 DEF Spaced
    <2>11. \A w \in Windows : Covers(next[p][w], w)'
      BY <2>2, <2>6, <2>8 DEF Covers, Known
    <2> QED
      BY <1>0, <2>2, <2>6, <2>7, <2>8, <2>9, <2>10, <2>11 DEF CooldownInv
  <1>2. ASSUME NEW p \in Procs, Send(p) PROVE CooldownInv'
    <2>1. PICK a \in pending[p] :
             /\ pending' = [pending EXCEPT ![p] = @ \ {a}]
             /\ announced' = [announced EXCEPT ![a.window] = @ \cup {RecordOf(a)}]
      BY <1>2 DEF Send, RecordOf
    <2>2. now' = now /\ state' = state /\ pc' = pc /\ seen' = seen /\ next' = next
      BY <1>2 DEF Send
    <2>3. a.window \in Windows /\ pc[p] = "send"
      BY <1>2 DEF IInv, PendingTyped, Alert, Send
    <2>4. ASSUME NEW w \in Windows PROVE Raised(w)' = Raised(w)
      <3>1. UNION {pending[q] : q \in Procs}
              = (UNION {pending'[q] : q \in Procs}) \cup {a}
        BY <2>1 DEF IInv, PendingTyped
      <3>2. announced'[w] = announced[w] \cup IF w = a.window THEN {RecordOf(a)} ELSE {}
        BY <2>1, <2>3 DEF IInv, AnnouncedTyped
      <3> DEFINE P == UNION {pending[q] : q \in Procs}
                 Q == UNION {pending'[q] : q \in Procs}
      <3>3. Raised(w) = announced[w] \cup {RecordOf(c) : c \in {b \in P : b.window = w}}
        BY DEF Raised
      <3>4. Raised(w)' = announced'[w] \cup {RecordOf(c) : c \in {b \in Q : b.window = w}}
        BY DEF Raised, RecordOf
      <3>5. P = Q \cup {a}
        BY <3>1
      <3> HIDE DEF P, Q
      <3>6. {b \in P : b.window = w}
              = {b \in Q : b.window = w} \cup (IF w = a.window THEN {a} ELSE {})
        BY <3>5
      <3> DEFINE PW == {b \in P : b.window = w}
                 QW == {b \in Q : b.window = w}
                 AW == IF w = a.window THEN {a} ELSE {}
      <3>7. {RecordOf(c) : c \in PW} = {RecordOf(c) : c \in QW} \cup {RecordOf(c) : c \in AW}
        <4>1. PW = QW \cup AW
          BY <3>6
        <4> HIDE DEF PW, QW, AW
        <4> QED
          BY <4>1
      <3>8. {RecordOf(c) : c \in AW} = IF w = a.window THEN {RecordOf(a)} ELSE {}
        OBVIOUS
      <3> HIDE DEF PW, QW, AW
      <3> QED
        BY <3>2, <3>3, <3>4, <3>7, <3>8 DEF PW, QW
    <2>5. \A q \in Procs : ~Sending(q) => pending'[q] = pending[q]
      BY <2>1, <2>3 DEF Sending, IInv, PendingTyped
    <2> QED
      BY <1>0, <2>2, <2>4, <2>5 DEF CooldownInv, Sending, Covers, Known, Spaced
  <1>3. ASSUME NEW p \in Procs, Save(p) PROVE CooldownInv'
    <2>1. /\ pc[p] = "send" /\ pending[p] = {}
          /\ seen' = [seen EXCEPT ![p] = NoState]
          /\ next' = [next EXCEPT ![p] = NoState]
          /\ pending' = [pending EXCEPT ![p] = {}]
          /\ pc' = [pc EXCEPT ![p] = "idle"]
          /\ now' = now /\ announced' = announced
      BY <1>3 DEF Save, Finish
    <2>2. seen[p] = state
      BY <2>1 DEF CooldownInv, Sending
    <2>3. state' = next[p]
      BY <1>3, <2>2 DEF Save
    <2>4. \A q \in Procs : pc'[q] # "send" /\ pending'[q] = {}
      BY <2>1 DEF CooldownInv, Sending, IInv, PendingTyped, RecordsWereSent, TypeOK
    <2>5. \A w \in Windows : Raised(w)' = Raised(w)
      <3>1. UNION {pending'[q] : q \in Procs} = UNION {pending[q] : q \in Procs}
        BY <2>1, <2>4 DEF CooldownInv, Sending
      <3> QED
        BY <2>1, <3>1 DEF Raised, RecordOf
    <2>6. \A w \in Windows : Covers(next[p][w], w)
      BY <2>1 DEF CooldownInv, Sending
    <2> QED
      BY <1>0, <2>1, <2>3, <2>4, <2>5, <2>6 DEF CooldownInv, Sending, Covers, Known, Spaced
  <1>4. ASSUME Tick PROVE CooldownInv'
    <2>1. /\ now' = now + 1 /\ now \in Nat /\ env.cooldown \in Nat
          /\ state' = state /\ pc' = pc /\ seen' = seen /\ next' = next
          /\ pending' = pending /\ announced' = announced
      BY <1>4, NotifyAssumption DEF Tick, IInv, RecordsWereSent, TypeOK, Time
    <2>2. \A w \in Windows : Raised(w)' = Raised(w)
      BY <2>1 DEF Raised, RecordOf
    <2>3. \A a \in Record : a.notified_at \in Nat
      BY NotifyAssumption DEF Record, Time, IInv, RecordsWereSent, TypeOK
    <2>4. ASSUME NEW w \in Windows, NEW r, Covers(r, w),
                 \A a \in Raised(w) : a \in Record /\ a.notified_at <= now
          PROVE  \A a \in Raised(w) :
                    /\ now' - a.notified_at < env.cooldown =>
                         Known(r) /\ a.level <= r.level /\ a.notified_at <= r.notified_at
                    /\ a.notified_at <= now'
      <3> TAKE a \in Raised(w)
      <3>1. a.notified_at \in Nat
        BY <2>3, <2>4
      <3>2. a.notified_at <= now
        BY <2>4
      <3>3. now' - a.notified_at < env.cooldown => now - a.notified_at < env.cooldown
        BY <2>1, <3>1
      <3> QED
        BY <2>1, <2>4, <3>1, <3>2, <3>3 DEF Covers
    <2>5. \A w \in Windows : Spaced(Raised(w))'
      BY <2>2 DEF CooldownInv, Spaced
    <2>6. \A w \in Windows : \A a \in Raised(w) : a \in Record /\ a.notified_at <= now
      BY DEF CooldownInv
    <2>7. \A w \in Windows : \A a \in Raised(w) : a.notified_at <= now'
      BY <2>1, <2>3, <2>6
    <2>8. \A w \in Windows, p \in Procs : Sending(p) => Covers(next[p][w], w)'
      BY <2>1, <2>2, <2>4, <2>6 DEF CooldownInv, Covers, Known
    <2>9. \A w \in Windows : (\A p \in Procs : ~Sending(p)) => Covers(state[w], w)'
      BY <2>1, <2>2, <2>4, <2>6 DEF CooldownInv, Covers, Known
    <2>10. \A p \in Procs : Sending(p)' <=> Sending(p)
      BY <2>1 DEF Sending
    <2> QED
      BY <1>0, <2>1, <2>2, <2>5, <2>6, <2>7, <2>8, <2>9, <2>10 DEF CooldownInv
  <1>5. CASE UNCHANGED allVars
    BY <1>0, <1>5 DEF allVars, vars, CooldownInv, Sending, Covers, Raised, Known, Spaced, RecordOf
  <1>6. ASSUME NEW p \in Procs, Crash(p) PROVE FALSE
    BY <1>6 DEF Crash
  <1> QED
    BY <1>1, <1>2, <1>3, <1>4, <1>5, <1>6 DEF Next

\* plan: where one process checks at a time, undisturbed, two alerts of one window less than
\* a cooldown apart go up in level, whatever resets, dips and errors lie between them.
THEOREM AlertsAreSpaced == Spec => []AlertsSpaced
  <1>1. Init => CooldownInv
    BY DEF Init, CooldownInv, Sending, Raised, Covers, Spaced
  <1>2. CooldownInv => AlertsSpaced
    BY DEF CooldownInv, AlertsSpaced, Spaced, Raised
  <1> QED
    BY <1>1, <1>2, CooldownNext, Invariance, PTL DEF Spec
=============================================================================
