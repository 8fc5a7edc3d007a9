------------------------------ MODULE TuiProofs -----------------------------
(***************************************************************************)
(* The terminal UI (tui.rs) for any sources, panels, keys, threads and any *)
(* order of their messages: one status collection at a time (TuiRefresh);  *)
(* one backfill at a time, and rows and graph that belong to what is       *)
(* selected and hold all of a backfill that is over (TuiHistory).          *)
(***************************************************************************)
EXTENDS TuiHistory, TuiRefresh, FiniteSetTheorems, TLAPS

-----------------------------------------------------------------------------
(* The refresh cycle.                                                      *)

\* Where a queue holds an answer of the status worker.
StatusAt(q) == {i \in 1 .. Len(q) : q[i] = StatusMsg}
Answers(q) == Cardinality(StatusAt(q))

-----------------------------------------------------------------------------
(* Counting.                                                               *)

\* The positions in a queue are finitely many.
LEMMA AnswersCounted ==
    ASSUME NEW q \in Seq(Updates)
    PROVE  IsFiniteSet(StatusAt(q)) /\ Answers(q) \in Nat
  <1>1. Len(q) \in Nat
    OBVIOUS
  <1>2. IsFiniteSet(1 .. Len(q))
    BY <1>1, FS_Interval
  <1>3. IsFiniteSet(StatusAt(q))
    BY <1>2, FS_Subset DEF StatusAt
  <1> QED
    BY <1>3, FS_CardinalityType DEF Answers

\* A message that is sent is counted if it is an answer.
LEMMA AppendCounts ==
    ASSUME NEW q \in Seq(Updates), NEW m \in Updates
    PROVE  Answers(Append(q, m)) = Answers(q) + IF m = StatusMsg THEN 1 ELSE 0
  <1>1. /\ Len(q) \in Nat
        /\ Len(Append(q, m)) = Len(q) + 1
        /\ \A i \in 1 .. Len(q) : Append(q, m)[i] = q[i]
        /\ Append(q, m)[Len(q) + 1] = m
    OBVIOUS
  <1>2. CASE m = StatusMsg
    <2>1. StatusAt(Append(q, m)) = StatusAt(q) \cup {Len(q) + 1}
      BY <1>1, <1>2 DEF StatusAt
    <2>2. Len(q) + 1 \notin StatusAt(q)
      BY <1>1 DEF StatusAt
    <2> QED
      BY <1>2, <2>1, <2>2, AnswersCounted, FS_AddElement DEF Answers
  <1>3. CASE m # StatusMsg
    <2>1. StatusAt(Append(q, m)) = StatusAt(q)
      BY <1>1, <1>3 DEF StatusAt
    <2> QED
      BY <1>3, <2>1, AnswersCounted DEF Answers
  <1> QED
    BY <1>2, <1>3

\* A message that is taken out of a queue with one answer at most is counted no longer.
LEMMA TailCounts ==
    ASSUME NEW q \in Seq(Updates), q # <<>>, Answers(q) \in {0, 1}
    PROVE  Answers(Tail(q)) = Answers(q) - IF Head(q) = StatusMsg THEN 1 ELSE 0
  <1>1. /\ Len(q) \in Nat \ {0}
        /\ Len(Tail(q)) = Len(q) - 1
        /\ \A i \in 1 .. Len(Tail(q)) : Tail(q)[i] = q[i + 1]
        /\ Head(q) = q[1]
    OBVIOUS
  <1>2. IsFiniteSet(StatusAt(q))
    BY AnswersCounted
  <1>3. \A i \in Int : i \in StatusAt(Tail(q)) <=> i >= 1 /\ i + 1 \in StatusAt(q)
    BY <1>1 DEF StatusAt
  <1>4. StatusAt(q) \subseteq Int /\ StatusAt(Tail(q)) \subseteq Int
    BY <1>1 DEF StatusAt
  <1>5. Head(q) = StatusMsg <=> 1 \in StatusAt(q)
    BY <1>1 DEF StatusAt
  <1>6. \A i \in StatusAt(q) : i >= 1
    BY <1>1 DEF StatusAt
  <1>7. CASE Answers(q) = 0
    <2>1. StatusAt(q) = {}
      BY <1>2, <1>7, FS_EmptySet DEF Answers
    <2>2. StatusAt(Tail(q)) = {}
      BY <1>3, <1>4, <2>1
    <2>3. Answers(Tail(q)) = 0
      BY <2>2, FS_EmptySet DEF Answers
    <2>4. Head(q) # StatusMsg
      BY <1>5, <2>1
    <2> QED
      BY <1>7, <2>3, <2>4
  <1>8. CASE Answers(q) = 1
    <2>1. PICK x : StatusAt(q) = {x}
      BY <1>2, <1>8, FS_Singleton DEF Answers
    <2>2. x \in Int /\ x >= 1
      BY <1>4, <1>6, <2>1
    <2>3. CASE x = 1
      <3>1. StatusAt(Tail(q)) = {}
        BY <1>3, <1>4, <2>1, <2>3
      <3>2. Answers(Tail(q)) = 0
        BY <3>1, FS_EmptySet DEF Answers
      <3>3. Head(q) = StatusMsg
        BY <1>5, <2>1, <2>3
      <3> QED
        BY <1>8, <3>2, <3>3
    <2>4. CASE x # 1
      <3>1. StatusAt(Tail(q)) = {x - 1}
        BY <1>3, <1>4, <2>1, <2>2, <2>4
      <3>2. Answers(Tail(q)) = 1
        BY <3>1, FS_Singleton DEF Answers
      <3>3. Head(q) # StatusMsg
        BY <1>5, <2>1, <2>4
      <3> QED
        BY <1>8, <3>2, <3>3
    <2> QED
      BY <2>3, <2>4
  <1> QED
    BY <1>7, <1>8

\* The answer of a status worker is no message of a scan.
LEMMA MessagesDiffer ==
    /\ StatusMsg \in Updates
    /\ \A s \in TokenSources : /\ TokensMsg(s) \in Updates /\ TokensMsg(s) # StatusMsg
                          /\ ClearMsg(s) \in Updates /\ ClearMsg(s) # StatusMsg
  <1>1. \A s \in TokenSources : TokensMsg(s).kind = "Tokens" /\ ClearMsg(s).kind = "ClearLoading"
    BY DEF TokensMsg, ClearMsg
  <1>2. StatusMsg.kind = "Status"
    BY DEF StatusMsg
  <1> QED
    BY <1>1, <1>2 DEF Updates

-----------------------------------------------------------------------------
(* The invariant is inductive as it stands: typing bounds the counters,    *)
(* the counters type the scheduler.                                        *)

Collections(w, q) == w[TRUE] + w[FALSE] + Answers(q)

\* The parts of the count are naturals.
LEMMA CountsTyped ==
    ASSUME TypeOK
    PROVE  working[TRUE] \in 0 .. 1 /\ working[FALSE] \in 0 .. 1 /\ Answers(updates) \in Nat
  <1>1. updates \in Seq(Updates) /\ working \in [BOOLEAN -> 0 .. 1]
    BY DEF TypeOK
  <1>2. TRUE \in BOOLEAN /\ FALSE \in BOOLEAN
    OBVIOUS
  <1> QED
    BY <1>1, <1>2, AnswersCounted

\* A scheduler that is free has no worker and no answer on its way.
LEMMA FreeScheduler ==
    ASSUME TypeOK, Collections(working, updates) = IF collecting THEN 1 ELSE 0, ~collecting
    PROVE  working[TRUE] = 0 /\ working[FALSE] = 0 /\ Answers(updates) = 0
  <1> DEFINE a == working[TRUE]
             b == working[FALSE]
             c == Answers(updates)
  <1>1. a \in 0 .. 1 /\ b \in 0 .. 1 /\ c \in Nat
    BY CountsTyped
  <1>2. a + b + c = IF collecting THEN 1 ELSE 0
    BY Zenon DEF Collections
  <1>3. a + b + c = 0
    BY <1>2, Zenon
  <1> HIDE DEF a, b, c
  <1>4. a = 0 /\ b = 0 /\ c = 0
    BY <1>1, <1>3
  <1> QED
    BY <1>4 DEF a, b, c

\* The library of the instance counts like this module's own.
LEMMA CardinalityIsOne == \A S : Cardinality(S) = Cardinality(S)
  BY DEF Cardinality, Cardinality, IsFiniteSet, IsFiniteSet

\* The scheduler in parts that the provers can tell apart.
LEMMA InvariantInParts ==
    OneCollection <=>
        /\ TypeOK
        /\ Collections(working, updates) = IF collecting THEN 1 ELSE 0
        /\ refreshing = collecting
        /\ pending => collecting
  BY CardinalityIsOne
         DEF OneCollection, StatusInFlight, Collections, Answers, StatusAt

\* Nothing is collected before the first tick.
LEMMA RefreshInitHolds == RefreshInit => OneCollection
  <1> SUFFICES ASSUME RefreshInit PROVE OneCollection
    OBVIOUS
  <1>1. updates = <<>> /\ updates \in Seq(Updates)
    BY DEF RefreshInit
  <1>2. StatusAt(updates) = {}
    BY <1>1 DEF StatusAt
  <1>3. Answers(updates) = 0
    BY <1>2, FS_EmptySet DEF Answers
  <1>4. working[TRUE] = 0 /\ working[FALSE] = 1 /\ working \in [BOOLEAN -> 0 .. 1]
    BY DEF RefreshInit
  <1>5. /\ scanning \in [TokenSources -> BOOLEAN] /\ armed \in [TokenSources -> BOOLEAN]
        /\ scans \in [TokenSources -> [ScanSlots -> Working \cup {"none", "sent"}]]
    BY DEF RefreshInit, Working
  <1>6. TypeOK
    BY <1>1, <1>4, <1>5 DEF RefreshInit, TypeOK
  <1> QED
    BY <1>3, <1>4, <1>6, InvariantInParts DEF RefreshInit, Collections

\* begin_*_scan: flags, deadlines and scans of the panels that are started.
LEMMA StartScansTyped ==
    ASSUME TypeOK, NEW on \in SUBSET TokenSources, StartScans(on)
    PROVE  /\ scanning' \in [TokenSources -> BOOLEAN]
           /\ armed' \in [TokenSources -> BOOLEAN]
           /\ scans' \in [TokenSources -> [ScanSlots -> Working \cup {"none", "sent"}]]
  BY DEF TypeOK, StartScans, Working

\* maybe_schedule_refresh: an idle scheduler is taken by one worker.
LEMMA WorkerStarts ==
    ASSUME TypeOK, working[TRUE] = 0, working[FALSE] = 0, NEW force \in BOOLEAN,
           StartWorker(force)
    PROVE  working' \in [BOOLEAN -> 0 .. 1] /\ working'[TRUE] + working'[FALSE] = 1
  <1>1. working \in [BOOLEAN -> 0 .. 1]
    BY DEF TypeOK
  <1>2. force = TRUE \/ force = FALSE
    OBVIOUS
  <1>3. working[force] = 0
    BY <1>2, Zenon
  <1>4. working' = [working EXCEPT ![force] = 1]
    <2>1. working[force] + 1 = 1
      BY <1>3
    <2> QED
      BY <2>1, Zenon DEF StartWorker
  <1>5. 1 \in 0 .. 1 /\ 0 + 1 = 1 /\ 1 + 0 = 1
    OBVIOUS
  <1>6. working' \in [BOOLEAN -> 0 .. 1]
    BY <1>1, <1>4, <1>5, Zenon
  <1>7. CASE force = TRUE
    <2>1. working'[TRUE] = 1 /\ working'[FALSE] = 0
      BY <1>1, <1>4, <1>7, Zenon
    <2> QED
      BY <1>5, <1>6, <2>1, Zenon
  <1>8. CASE force = FALSE
    <2>1. working'[TRUE] = 0 /\ working'[FALSE] = 1
      BY <1>1, <1>4, <1>8, Zenon
    <2> QED
      BY <1>5, <1>6, <2>1, Zenon
  <1> QED
    BY <1>2, <1>7, <1>8, Zenon

\* A refresh takes the free scheduler or leaves a request behind.
LEMMA RefreshHolds ==
    ASSUME OneCollection, NEW force \in BOOLEAN, NEW on \in SUBSET TokenSources,
           Refresh(force, on), UNCHANGED updates, panels' \subseteq TokenSources,
           awaiting' \subseteq TokenSources, owed' \in BOOLEAN
    PROVE  OneCollection'
  <1>1. /\ TypeOK
        /\ Collections(working, updates) = IF collecting THEN 1 ELSE 0
        /\ refreshing = collecting
        /\ pending => collecting
    BY InvariantInParts
  <1>2. CASE collecting
    <2>1. /\ pending' = TRUE /\ pendingForce' = (pendingForce \/ force)
          /\ collecting' = collecting /\ refreshing' = refreshing /\ working' = working
          /\ scanning' = scanning /\ armed' = armed /\ scans' = scans
      BY <1>2 DEF Refresh, Coalesce
    <2>2. TypeOK'
      BY <1>1, <2>1 DEF TypeOK, Updates, Working, ScanSlots
    <2>3. Collections(working, updates)' = Collections(working, updates)
      BY <2>1 DEF Collections, Answers, StatusAt
    <2> QED
      BY <1>1, <1>2, <2>1, <2>2, <2>3
         DEF OneCollection, StatusInFlight, Collections, Answers, StatusAt
  <1>3. CASE ~collecting
    <2>1. /\ collecting' = TRUE /\ refreshing' = TRUE
          /\ StartWorker(force) /\ StartScans(on)
          /\ pending' = pending /\ pendingForce' = pendingForce
      BY <1>3 DEF Refresh
    <2>4. working[TRUE] = 0 /\ working[FALSE] = 0 /\ Answers(updates) = 0
      BY <1>1, <1>3, FreeScheduler
    <2>5. working' \in [BOOLEAN -> 0 .. 1] /\ working'[TRUE] + working'[FALSE] = 1
      BY <1>1, <2>1, <2>4, WorkerStarts
    <2>6. TypeOK'
      BY <1>1, <2>1, <2>5, StartScansTyped DEF TypeOK
    <2>7. Answers(updates)' = 0
      BY <2>4 DEF Answers, StatusAt
    <2>8. Collections(working, updates)' = 1
      <3>1. 1 + 0 = 1
        OBVIOUS
      <3> QED
        BY <2>5, <2>7, <3>1, Zenon DEF Collections
    <2> QED
      BY <1>1, <2>1, <2>6, <2>8, CardinalityIsOne
         DEF OneCollection, StatusInFlight, Collections, Answers, StatusAt
  <1> QED
    BY <1>2, <1>3

\* A message of a scan is sent or taken: the scheduler and the count are as before.
LEMMA ScanStepHolds ==
    ASSUME OneCollection, UNCHANGED schedulerVars, UNCHANGED panels, awaiting' \subseteq TokenSources,
           scanning' \in [TokenSources -> BOOLEAN], armed' \in [TokenSources -> BOOLEAN],
           scans' \in [TokenSources -> [ScanSlots -> Working \cup {"none", "sent"}]],
           updates' \in Seq(Updates), Answers(updates') = Answers(updates)
    PROVE  OneCollection'
  <1>1. TypeOK'
    BY DEF OneCollection, TypeOK, schedulerVars
  <1>2. StatusInFlight' = StatusInFlight
    BY CardinalityIsOne DEF StatusInFlight, Answers, StatusAt, schedulerVars
  <1> QED
    BY <1>1, <1>2 DEF OneCollection, schedulerVars

\* A scan's result, or its guard.
LEMMA ScanSendHolds ==
    ASSUME OneCollection, NEW s \in TokenSources, NEW i \in ScanSlots,
           SendTokens(s, i) \/ DropGuard(s, i)
    PROVE  OneCollection'
  <1>1. PICK m \in Updates :
           m # StatusMsg /\ updates' = Append(updates, m)
    BY MessagesDiffer DEF SendTokens, DropGuard
  <1>2. updates \in Seq(Updates) /\ TypeOK
    BY DEF OneCollection, TypeOK
  <1>3. updates' \in Seq(Updates)
    BY <1>1, <1>2
  <1>4. Answers(updates') = Answers(updates)
    <2>1. Answers(updates) \in Nat
      BY <1>2, AnswersCounted
    <2> QED
      BY <1>1, <1>2, <2>1, AppendCounts
  <1>5. PICK stage \in {"none", "sent"} : scans' = [scans EXCEPT ![s][i] = stage]
    BY DEF SendTokens, DropGuard, SetScan
  <1>6. scans' \in [TokenSources -> [ScanSlots -> Working \cup {"none", "sent"}]]
    BY <1>2, <1>5 DEF TypeOK
  <1>7. UNCHANGED <<schedulerVars, panels, scanning, armed, awaiting>>
    BY DEF SendTokens, DropGuard
  <1> QED
    BY <1>2, <1>3, <1>4, <1>6, <1>7, ScanStepHolds DEF TypeOK

\* A queue whose head is taken.
LEMMA ReceiveCounts ==
    ASSUME OneCollection, NEW m \in Updates, ReceiveUpdate(m)
    PROVE  /\ updates' \in Seq(Updates)
           /\ Answers(updates') = Answers(updates) - IF m = StatusMsg THEN 1 ELSE 0
  <1>1. /\ updates # <<>> /\ Head(updates) = m /\ updates' = Tail(updates)
        /\ updates \in Seq(Updates) /\ TypeOK
    BY DEF ReceiveUpdate, OneCollection, TypeOK
  <1>2. Answers(updates) \in {0, 1}
    <2> DEFINE a == working[TRUE]
               b == working[FALSE]
               c == Answers(updates)
    <2>1. a \in 0 .. 1 /\ b \in 0 .. 1 /\ c \in Nat
      BY <1>1, CountsTyped
    <2>2. a + b + c = IF collecting THEN 1 ELSE 0
      BY InvariantInParts, Zenon DEF Collections
    <2>3. a + b + c = 1 \/ a + b + c = 0
      BY <2>2, Zenon
    <2> HIDE DEF a, b, c
    <2>4. c \in {0, 1}
      BY <2>1, <2>3
    <2> QED
      BY <2>4 DEF c
  <1>3. updates' \in Seq(Updates)
    BY <1>1
  <1>4. Answers(Tail(updates)) = Answers(updates) - IF Head(updates) = StatusMsg THEN 1 ELSE 0
    BY <1>1, <1>2, TailCounts
  <1> QED
    BY <1>1, <1>3, <1>4

\* apply_update for a message of a scan.
LEMMA ApplyScanHolds ==
    ASSUME OneCollection, NEW s \in TokenSources, ApplyScanMessage(s)
    PROVE  OneCollection'
  <1>1. PICK m \in Updates : m # StatusMsg /\ ReceiveUpdate(m)
    BY MessagesDiffer DEF ApplyScanMessage
  <1>2. TypeOK /\ Answers(updates) \in Nat
    BY AnswersCounted DEF OneCollection, TypeOK
  <1>3. updates' \in Seq(Updates) /\ Answers(updates') = Answers(updates)
    BY <1>1, <1>2, ReceiveCounts
  <1>4. /\ scanning' = [scanning EXCEPT ![s] = FALSE]
        /\ armed' = [armed EXCEPT ![s] = FALSE]
        /\ UNCHANGED <<schedulerVars, panels, scans, awaiting>>
    BY DEF ApplyScanMessage, ClearLoading
  <1> QED
    BY <1>2, <1>3, <1>4, ScanStepHolds DEF TypeOK

\* clear_expired_loading.
LEMMA ExpireHolds ==
    ASSUME OneCollection, NEW s \in TokenSources, Expire(s)
    PROVE  OneCollection'
  <1>1. TypeOK
    BY DEF OneCollection
  <1>2. scans' \in [TokenSources -> [ScanSlots -> Working \cup {"none", "sent"}]]
    BY <1>1 DEF Expire, TypeOK, Working
  <1>3. /\ scanning' = [scanning EXCEPT ![s] = FALSE]
        /\ armed' = [armed EXCEPT ![s] = FALSE]
        /\ UNCHANGED <<schedulerVars, panels, updates, awaiting>>
    BY DEF Expire, ClearLoading
  <1> QED
    BY <1>1, <1>2, <1>3, ScanStepHolds DEF TypeOK

\* A worker ends, its answer is on its way: one place of the count for another.
LEMMA WorkerHolds == ASSUME OneCollection, StatusWorker PROVE OneCollection'
  <1>1. TypeOK /\ updates \in Seq(Updates) /\ working \in [BOOLEAN -> 0 .. 1]
    BY DEF OneCollection, TypeOK
  <1>2. PICK f \in BOOLEAN : working[f] > 0 /\ working' = [working EXCEPT ![f] = @ - 1]
    BY DEF StatusWorker
  <1>3. working[f] \in 0 .. 1
    BY <1>1
  <1>4. working[f] = 1 /\ working[f] - 1 = 0
    BY <1>2, <1>3
  <1>5. working' = [working EXCEPT ![f] = 0]
    BY <1>2, <1>4, Zenon
  <1>6. 0 \in 0 .. 1
    OBVIOUS
  <1>7. working' \in [BOOLEAN -> 0 .. 1]
    BY <1>1, <1>5, <1>6, Zenon
  <1>8. updates' = Append(updates, StatusMsg) /\ updates' \in Seq(Updates)
    BY <1>1, MessagesDiffer DEF StatusWorker
  <1>9. Answers(updates') = Answers(updates) + 1
    BY <1>1, <1>8, MessagesDiffer, AppendCounts
  <1>10. TypeOK'
    BY <1>1, <1>7, <1>8 DEF StatusWorker, TypeOK, scanVars
  <1>11. Collections(working', updates') = Collections(working, updates)
    <2> DEFINE a == working[TRUE]
               b == working[FALSE]
               c == Answers(updates)
               d == working'[TRUE]
               e == working'[FALSE]
    <2>1. (a = 1 /\ d = 0 /\ e = b) \/ (b = 1 /\ e = 0 /\ d = a)
      <3>1. f = TRUE \/ f = FALSE
        OBVIOUS
      <3> QED
        BY <1>1, <1>4, <1>5, <3>1, Zenon
    <2>2. a \in 0 .. 1 /\ b \in 0 .. 1 /\ c \in Nat
      BY <1>1, CountsTyped
    <2> HIDE DEF a, b, d, e
    <2>3. d + e + (c + 1) = a + b + c
      BY <2>1, <2>2
    <2> QED
      BY <1>9, <2>3, Zenon DEF Collections, a, b, d, e
  <1> QED
    BY <1>10, <1>11, InvariantInParts, CardinalityIsOne
       DEF StatusWorker, OneCollection, StatusInFlight, Collections, Answers, StatusAt

\* apply_update for the status: the scheduler is free, or its next worker starts at once.
LEMMA ApplyStatusHolds == ASSUME OneCollection, ApplyStatus PROVE OneCollection'
  <1>1. TypeOK /\ Collections(working, updates) = (IF collecting THEN 1 ELSE 0)
    BY InvariantInParts
  <1>2. updates' \in Seq(Updates) /\ Answers(updates') = Answers(updates) - 1
    BY MessagesDiffer, ReceiveCounts DEF ApplyStatus
  <1>3. updates' \in Seq(Updates) /\ Answers(updates') \in Nat
    BY <1>2, AnswersCounted
  <1>4. collecting /\ working[TRUE] = 0 /\ working[FALSE] = 0 /\ Answers(updates') = 0
    <2> DEFINE a == working[TRUE]
               b == working[FALSE]
               c == Answers(updates)
               d == Answers(updates')
    <2>1. a \in 0 .. 1 /\ b \in 0 .. 1 /\ c \in Nat
      BY <1>1, CountsTyped
    <2>2. a + b + c = IF collecting THEN 1 ELSE 0
      BY <1>1, Zenon DEF Collections
    <2>3. (collecting /\ a + b + c = 1) \/ a + b + c = 0
      BY <2>2, Zenon
    <2>4. d = c - 1 /\ d \in Nat
      BY <1>2, <1>3
    <2> HIDE DEF a, b, c, d
    <2>5. a + b + c # 0
      BY <2>1, <2>4
    <2>6. a + b + c = 1 => a = 0 /\ b = 0 /\ d = 0
      BY <2>1, <2>4
    <2> QED
      BY <2>3, <2>5, <2>6, Zenon DEF a, b, d
  <1>5. pending' = FALSE /\ panels' = panels /\ panels \subseteq TokenSources
    BY <1>1 DEF ApplyStatus, TypeOK
  <1>6. CASE pending
    <2>1. /\ collecting' = TRUE /\ refreshing' = TRUE /\ pendingForce' = FALSE
          /\ StartWorker(pendingForce) /\ StartScans(panels)
          /\ owed' = (owed /\ ~pendingForce) /\ awaiting' = awaiting \ panels
      BY <1>6 DEF ApplyStatus
    <2>2. pendingForce \in BOOLEAN
      BY <1>1 DEF TypeOK
    <2>3. working' \in [BOOLEAN -> 0 .. 1] /\ working'[TRUE] + working'[FALSE] = 1
      BY <1>1, <1>4, <2>1, <2>2, WorkerStarts
    <2>4. TypeOK'
      BY <1>1, <1>3, <1>5, <2>1, <2>3, StartScansTyped DEF TypeOK
    <2>5. Collections(working', updates') = 1
      <3>1. 1 + 0 = 1
        OBVIOUS
      <3> QED
        BY <1>4, <2>3, <3>1, Zenon DEF Collections
    <2> QED
      BY <1>5, <2>1, <2>4, <2>5, CardinalityIsOne
         DEF OneCollection, StatusInFlight, Collections, Answers, StatusAt
  <1>7. CASE ~pending
    <2>1. /\ collecting' = FALSE /\ refreshing' = FALSE
          /\ UNCHANGED <<pendingForce, working, scanVars, owed>>
      BY <1>7 DEF ApplyStatus
    <2>2. TypeOK'
      BY <1>1, <1>3, <1>5, <2>1 DEF TypeOK, scanVars
    <2>3. Collections(working', updates') = 0
      <3>1. 0 + 0 + 0 = 0
        OBVIOUS
      <3> QED
        BY <1>4, <2>1, <3>1, Zenon DEF Collections
    <2> QED
      BY <1>5, <2>1, <2>2, <2>3, CardinalityIsOne
         DEF OneCollection, StatusInFlight, Collections, Answers, StatusAt
  <1> QED
    BY <1>6, <1>7

\* Key r, the timer, and a panel that is switched.
LEMMA RequestHolds ==
    ASSUME OneCollection, PressRefresh \/ AutoRefresh \/ \E s \in TokenSources : TogglePanel(s)
    PROVE  OneCollection'
  <1>1. panels \subseteq TokenSources /\ awaiting \subseteq TokenSources /\ collecting \in BOOLEAN
        /\ owed \in BOOLEAN
    BY DEF OneCollection, TypeOK
  <1>2. CASE PressRefresh
    <2>1. /\ Refresh(TRUE, panels) /\ UNCHANGED updates /\ panels' \subseteq TokenSources
          /\ awaiting' \subseteq TokenSources /\ owed' \in BOOLEAN
      BY <1>1, <1>2 DEF PressRefresh
    <2> QED
      BY <1>1, <2>1, RefreshHolds
  <1>3. CASE AutoRefresh
    <2>1. /\ Refresh(FALSE, panels) /\ UNCHANGED updates /\ panels' \subseteq TokenSources
          /\ awaiting' \subseteq TokenSources /\ owed' \in BOOLEAN
      BY <1>1, <1>3 DEF AutoRefresh
    <2> QED
      BY <1>1, <2>1, RefreshHolds
  <1>4. ASSUME NEW s \in TokenSources, TogglePanel(s) PROVE OneCollection'
    <2> DEFINE on == (panels \ {s}) \cup ({s} \ panels)
    <2>1. on \in SUBSET TokenSources
      BY <1>1
    <2>2. /\ Refresh(FALSE, on) /\ UNCHANGED updates /\ panels' \subseteq TokenSources
          /\ awaiting' \subseteq TokenSources /\ owed' \in BOOLEAN
      BY <1>1, <1>4, <2>1 DEF TogglePanel
    <2> HIDE DEF on
    <2> QED
      BY <2>1, <2>2, RefreshHolds
  <1> QED
    BY <1>2, <1>3, <1>4

\* Every step keeps the collection in one place.
LEMMA RefreshNextHolds == OneCollection /\ [RefreshNext]_refreshVars => OneCollection'
  <1> SUFFICES ASSUME OneCollection, [RefreshNext]_refreshVars PROVE OneCollection'
    OBVIOUS
  <1>1. CASE UNCHANGED refreshVars
    BY <1>1
       DEF refreshVars, OneCollection, TypeOK, StatusInFlight, Updates, Working,
           ScanSlots
  <1>2. CASE RefreshNext
    BY <1>2, RequestHolds, WorkerHolds, ApplyStatusHolds, ApplyScanHolds, ExpireHolds,
       ScanSendHolds DEF RefreshNext
  <1> QED
    BY <1>1, <1>2

-----------------------------------------------------------------------------
(* Theorem.                                                                *)

\* RefreshScheduler: one collection at a time, and the scheduler is held exactly while a
\* worker collects or its answer is in the channel, whatever panels, scans, messages and
\* requests there are.
THEOREM CollectionsDoNotCompete == RefreshSpec => []OneCollection
  BY RefreshInitHolds, RefreshNextHolds, PTL DEF RefreshSpec

-----------------------------------------------------------------------------
(* The history: what its invariants say.                                   *)

Data == [of : Int, version : Int, asked : Int]
Messages == {Progress, Backfilled} \cup {Graph(d) : d \in Data}
Reader == [stage : {"none", "reading", "sending"}, data : Data]

Typed ==
    /\ db \in Nat /\ final \in Nat /\ final <= db
    /\ enabled \in BOOLEAN /\ progress \in BOOLEAN /\ active \in BOOLEAN
    /\ initial \in Cycle /\ period \in Cycle
    /\ rows \in [Sources -> Data]
    /\ graph \in [open : BOOLEAN, view : Cycle, data : Data]
    /\ backfills \in Nat
    /\ readers \in [Slots -> Reader]
    /\ channel \in Seq(Messages)
    /\ asked \in Nat

\* The backfill in three places: a thread, its end on the way, or none.
PositionsOf(q, m) == {i \in 1 .. Len(q) : q[i] = m}
Ends(q) == PositionsOf(q, Backfilled)
Reports(q) == PositionsOf(q, Progress)
OneAt(on, threadCount, shown, q) ==
    /\ ~on => threadCount = 0 /\ Ends(q) = {}
    /\ on => \/ threadCount = 1 /\ Ends(q) = {}
             \/ threadCount = 0 /\ \E x : Ends(q) = {x}
    /\ shown \/ Reports(q) # {} => on
    /\ \A i \in Reports(q), j \in Ends(q) : i < j
BackfillInv == OneAt(active, backfills, progress, channel)

\* Data asked for by request n is not the answer to a later one; the answer to the
\* latest holds all of a backfill that is over.
Fresh(on, open, backfilling, n, end, d) ==
    /\ d.asked <= n
    /\ on /\ open /\ ~backfilling /\ d.asked = n => d.version >= end
FreshNow(d) == Fresh(enabled, graph.open, active, asked, final, d)
IsGraph(m) == m.kind = "Graph"
GraphInv ==
    /\ graph.data # Nothing => graph.data.of = graph.view /\ FreshNow(graph.data)
    /\ \A i \in Slots : /\ readers[i].data.asked <= asked
                        /\ readers[i].stage = "sending" => FreshNow(readers[i].data)
    /\ \A i \in 1 .. Len(channel) : IsGraph(channel[i]) => FreshNow(channel[i].data)

IInv == Typed /\ BackfillInv /\ RowsAreFinal /\ GraphInv

-----------------------------------------------------------------------------
(* The channel.                                                            *)

\* Messages are told apart by their kind.
LEMMA MessageKinds ==
    /\ Progress.kind = "BackfillProgress" /\ Backfilled.kind = "Backfilled"
    /\ Progress # Backfilled
    /\ \A d : /\ Graph(d).kind = "Graph" /\ Graph(d).data = d
              /\ Graph(d) # Progress /\ Graph(d) # Backfilled
    /\ \A m \in Messages : /\ m.kind = "Graph" => m.data \in Data /\ m = Graph(m.data)
                           /\ m.kind = "Backfilled" => m = Backfilled
                           /\ m.kind = "BackfillProgress" => m = Progress
  <1>1. Progress.kind = "BackfillProgress" /\ Backfilled.kind = "Backfilled"
    BY DEF Progress, Backfilled
  <1>2. \A d : Graph(d).kind = "Graph" /\ Graph(d).data = d
    BY DEF Graph
  <1>3. Progress # Backfilled /\ \A d : Graph(d) # Progress /\ Graph(d) # Backfilled
    BY <1>1, <1>2
  <1> QED
    BY <1>1, <1>2, <1>3 DEF Messages

\* Sending adds one position at the end.
LEMMA AppendPositions ==
    ASSUME NEW q \in Seq(Messages), NEW m \in Messages, NEW k
    PROVE  /\ Append(q, m) \in Seq(Messages)
           /\ m = k => PositionsOf(Append(q, m), k) = PositionsOf(q, k) \cup {Len(q) + 1}
           /\ m # k => PositionsOf(Append(q, m), k) = PositionsOf(q, k)
           /\ \A i \in PositionsOf(q, k) : i \in Nat /\ 1 <= i /\ i <= Len(q)
  <1>1. /\ Len(q) \in Nat
        /\ Len(Append(q, m)) = Len(q) + 1
        /\ \A i \in 1 .. Len(q) : Append(q, m)[i] = q[i]
        /\ Append(q, m)[Len(q) + 1] = m
        /\ Append(q, m) \in Seq(Messages)
    OBVIOUS
  <1>2. m = k => PositionsOf(Append(q, m), k) = PositionsOf(q, k) \cup {Len(q) + 1}
    BY <1>1 DEF PositionsOf
  <1>3. m # k => PositionsOf(Append(q, m), k) = PositionsOf(q, k)
    BY <1>1 DEF PositionsOf
  <1>4. \A i \in PositionsOf(q, k) : i \in Nat /\ 1 <= i /\ i <= Len(q)
    BY <1>1 DEF PositionsOf
  <1> QED
    BY <1>1, <1>2, <1>3, <1>4

\* Taking the first message moves the others up.
LEMMA TailPositions ==
    ASSUME NEW q \in Seq(Messages), q # <<>>, NEW k
    PROVE  /\ Tail(q) \in Seq(Messages)
           /\ Head(q) = k <=> 1 \in PositionsOf(q, k)
           /\ \A i : i \in PositionsOf(Tail(q), k) <=>
                       i \in Nat /\ 1 <= i /\ i + 1 \in PositionsOf(q, k)
           /\ \A i \in PositionsOf(q, k) : i \in Nat /\ 1 <= i
  <1>1. /\ Len(q) \in Nat \ {0}
        /\ Len(Tail(q)) = Len(q) - 1
        /\ \A i \in 1 .. Len(Tail(q)) : Tail(q)[i] = q[i + 1]
        /\ Head(q) = q[1]
        /\ Tail(q) \in Seq(Messages)
    OBVIOUS
  <1>2. Head(q) = k <=> 1 \in PositionsOf(q, k)
    BY <1>1 DEF PositionsOf
  <1>3. \A i : i \in PositionsOf(Tail(q), k) <=>
                 i \in Nat /\ 1 <= i /\ i + 1 \in PositionsOf(q, k)
    BY <1>1 DEF PositionsOf
  <1>4. \A i \in PositionsOf(q, k) : i \in Nat /\ 1 <= i
    BY <1>1 DEF PositionsOf
  <1> QED
    BY <1>1, <1>2, <1>3, <1>4

\* A graph, a report or an end is sent.
LEMMA SendKeeps ==
    ASSUME NEW q \in Seq(Messages), NEW on \in BOOLEAN, NEW n \in Nat, NEW shown \in BOOLEAN,
           OneAt(on, n, shown, q)
    PROVE  /\ \A d \in Data : OneAt(on, n, shown, Append(q, Graph(d)))
           /\ n > 0 => OneAt(on, n, shown, Append(q, Progress))
           /\ n > 0 => OneAt(on, n - 1, shown, Append(q, Backfilled))
  <1>1. ASSUME NEW d \in Data PROVE OneAt(on, n, shown, Append(q, Graph(d)))
    <2>1. Graph(d) \in Messages /\ Graph(d) # Progress /\ Graph(d) # Backfilled
      BY MessageKinds DEF Messages
    <2>2. /\ Ends(Append(q, Graph(d))) = Ends(q)
          /\ Reports(Append(q, Graph(d))) = Reports(q)
      BY <2>1, AppendPositions DEF Ends, Reports
    <2> QED
      BY <2>2 DEF OneAt
  <1>2. ASSUME n > 0 PROVE OneAt(on, n, shown, Append(q, Progress))
    <2>1. Progress \in Messages /\ Progress # Backfilled
      BY MessageKinds DEF Messages
    <2>2. Ends(Append(q, Progress)) = Ends(q)
      BY <2>1, AppendPositions DEF Ends
    <2>3. on /\ Ends(q) = {} /\ n = 1
      BY <1>2 DEF OneAt
    <2> QED
      BY <2>2, <2>3 DEF OneAt
  <1>3. ASSUME n > 0 PROVE OneAt(on, n - 1, shown, Append(q, Backfilled))
    <2>1. Backfilled \in Messages /\ Progress # Backfilled
      BY MessageKinds DEF Messages
    <2>2. /\ Ends(Append(q, Backfilled)) = Ends(q) \cup {Len(q) + 1}
          /\ Reports(Append(q, Backfilled)) = Reports(q)
          /\ \A i \in Reports(q) : i \in Nat /\ i <= Len(q)
      BY <2>1, AppendPositions DEF Ends, Reports
    <2>3. on /\ Ends(q) = {} /\ n = 1
      BY <1>3 DEF OneAt
    <2>4. Ends(Append(q, Backfilled)) = {Len(q) + 1}
      BY <2>2, <2>3
    <2>5. \A i \in Reports(q) : i < Len(q) + 1
      <3>1. Len(q) \in Nat
        OBVIOUS
      <3> QED
        BY <2>2, <3>1
    <2>6. n - 1 = 0
      BY <2>3
    <2> QED
      BY <2>2, <2>3, <2>4, <2>5, <2>6 DEF OneAt
  <1> QED
    BY <1>1, <1>2, <1>3

\* The first message is taken and applied.
LEMMA ReceiveKeeps ==
    ASSUME NEW q \in Seq(Messages), q # <<>>, NEW on \in BOOLEAN, NEW n \in Nat,
           NEW shown \in BOOLEAN, OneAt(on, n, shown, q)
    PROVE  /\ Head(q) # Backfilled /\ Head(q) # Progress => OneAt(on, n, shown, Tail(q))
           /\ Head(q) = Progress => OneAt(on, n, TRUE, Tail(q))
           /\ Head(q) = Backfilled => OneAt(FALSE, n, FALSE, Tail(q))
  <1>1. /\ Head(q) = Backfilled <=> 1 \in Ends(q)
        /\ Head(q) = Progress <=> 1 \in Reports(q)
        /\ \A i : i \in Ends(Tail(q)) <=> i \in Nat /\ 1 <= i /\ i + 1 \in Ends(q)
        /\ \A i : i \in Reports(Tail(q)) <=> i \in Nat /\ 1 <= i /\ i + 1 \in Reports(q)
        /\ \A i \in Ends(q) \cup Reports(q) : i \in Nat /\ 1 <= i
    BY TailPositions DEF Ends, Reports
  <1>2. \A i \in Reports(Tail(q)), j \in Ends(Tail(q)) : i < j
    BY <1>1 DEF OneAt
  <1>3. Reports(Tail(q)) # {} => Reports(q) # {}
    BY <1>1
  <1>4. ASSUME Head(q) # Backfilled
        PROVE  /\ Ends(q) = {} => Ends(Tail(q)) = {}
               /\ \A x : Ends(q) = {x} => Ends(Tail(q)) = {x - 1}
    <2>1. Ends(q) = {} => Ends(Tail(q)) = {}
      BY <1>1
    <2>2. ASSUME NEW x, Ends(q) = {x} PROVE Ends(Tail(q)) = {x - 1}
      <3>1. x \in Nat /\ 1 <= x /\ x # 1
        BY <1>1, <1>4, <2>2
      <3>2. x - 1 \in Nat /\ 1 <= x - 1 /\ (x - 1) + 1 = x
        BY <3>1
      <3>3. x - 1 \in Ends(Tail(q))
        BY <1>1, <2>2, <3>2
      <3>4. ASSUME NEW i \in Ends(Tail(q)) PROVE i = x - 1
        <4>1. i \in Nat /\ i + 1 = x
          BY <1>1, <2>2, <3>4
        <4> QED
          BY <3>1, <4>1
      <3> QED
        BY <3>3, <3>4
    <2> QED
      BY <2>1, <2>2
  <1>5. ASSUME Head(q) # Backfilled, NEW s \in BOOLEAN, s => on
        PROVE  OneAt(on, n, s, Tail(q))
    BY <1>2, <1>3, <1>4, <1>5 DEF OneAt
  <1>6. Head(q) # Backfilled /\ Head(q) # Progress => OneAt(on, n, shown, Tail(q))
    BY <1>5 DEF OneAt
  <1>7. Head(q) = Progress => OneAt(on, n, TRUE, Tail(q))
    <2>1. Head(q) = Progress => on
      BY <1>1 DEF OneAt
    <2> QED
      BY <1>5, <2>1, MessageKinds
  <1>8. ASSUME Head(q) = Backfilled PROVE OneAt(FALSE, n, FALSE, Tail(q))
    <2>1. n = 0 /\ Ends(q) = {1}
      BY <1>1, <1>8 DEF OneAt
    <2>2. Ends(Tail(q)) = {}
      BY <1>1, <2>1
    <2>3. Reports(q) = {}
      BY <1>1, <2>1 DEF OneAt
    <2>4. Reports(Tail(q)) = {}
      BY <1>3, <2>3
    <2> QED
      BY <2>1, <2>2, <2>4 DEF OneAt
  <1> QED
    BY <1>6, <1>7, <1>8

-----------------------------------------------------------------------------
(* Types.                                                                  *)

\* What a query returns, and what stands for no answer, is data.
LEMMA DataTyped ==
    /\ Nothing \in Data
    /\ \A x \in Int, v \in Int, n \in Int : Read(x, v, n) \in Data
    /\ \A x, v, n : /\ Read(x, v, n).of = x /\ Read(x, v, n).version = v
                    /\ Read(x, v, n).asked = n
    /\ NoReader \in Reader
  BY DEF Nothing, Data, Read, NoReader, Reader

\* A period or a view is followed by another.
LEMMA CycleTurns == \A x \in Cycle : NextOf(x) \in Cycle /\ x \in Int
  BY DEF Cycle, NextOf

\* reload_source_history gives rows, read now and of the period, or none.
LEMMA ReloadTyped ==
    ASSUME Typed, db' \in Nat, NEW S \in SUBSET Sources, NEW on \in BOOLEAN, NEW p \in Cycle,
           Reload(S, on, p)
    PROVE  rows' \in [Sources -> Data]
  <1>1. Read(p, db', 0) \in Data
    BY CycleTurns DEF Data, Read
  <1> QED
    BY <1>1, DataTyped DEF Reload, Typed

\* reload_graph: a new request for the view that is shown.
LEMMA RequestTyped ==
    ASSUME Typed, NEW g \in [open : BOOLEAN, view : Cycle, data : Data], Request(g)
    PROVE  /\ graph' \in [open : BOOLEAN, view : Cycle, data : Data]
           /\ readers' \in [Slots -> Reader]
           /\ asked' \in Nat /\ asked' = asked + 1
           /\ graph'.data = Nothing /\ graph'.view = g.view /\ graph'.open = g.open
           /\ \A i \in Slots : \/ readers'[i] = readers[i]
                               \/ /\ readers'[i].stage = "reading"
                                  /\ readers'[i].data.asked = asked'
  <1>1. graph' = [g EXCEPT !.data = Nothing] /\ asked' = asked + 1
    BY DEF Request
  <1>2. PICK k : readers' = [readers EXCEPT ![k] =
                    [stage |-> "reading", data |-> Read(g.view, -1, asked')]]
    BY DEF Request
  <1>3. asked' \in Nat
    BY <1>1 DEF Typed
  <1>4. Read(g.view, -1, asked') \in Data
    BY <1>3, CycleTurns DEF Data, Read
  <1>5. readers' \in [Slots -> Reader]
    BY <1>2, <1>4 DEF Typed, Reader
  <1>6. ASSUME NEW i \in Slots
        PROVE  \/ readers'[i] = readers[i]
               \/ readers'[i].stage = "reading" /\ readers'[i].data.asked = asked'
    BY <1>2, DataTyped DEF Typed
  <1>7. graph' \in [open : BOOLEAN, view : Cycle, data : Data]
    BY <1>1, DataTyped
  <1> QED
    BY <1>1, <1>3, <1>5, <1>6, <1>7

\* What a message brings, and where the channel stands after it is taken.
LEMMA ReceiveTyped ==
    ASSUME Typed, NEW kind, Receive(kind)
    PROVE  /\ channel # <<>> /\ channel' = Tail(channel) /\ channel' \in Seq(Messages)
           /\ Head(channel) \in Messages /\ Head(channel).kind = kind
           /\ Len(channel) \in Nat \ {0} /\ Head(channel) = channel[1]
           /\ Len(channel') = Len(channel) - 1
           /\ \A i \in 1 .. Len(channel') : channel'[i] = channel[i + 1]
  <1>1. channel \in Seq(Messages) /\ channel # <<>> /\ channel' = Tail(channel)
        /\ Head(channel).kind = kind
    BY DEF Receive, Typed
  <1> QED
    BY <1>1

\* The types hold at the start.
LEMMA InitTyped == Init => Typed
  <1> SUFFICES ASSUME Init PROVE Typed
    OBVIOUS
  <1>1. enabled \in BOOLEAN /\ initial \in Cycle /\ period \in Cycle
    BY DEF Init, Cycle
  <1>2. rows \in [Sources -> Data]
    BY <1>1, DataTyped, CycleTurns DEF Init, Data, Read
  <1>3. graph \in [open : BOOLEAN, view : Cycle, data : Data]
    BY DataTyped DEF Init, Cycle
  <1>4. readers \in [Slots -> Reader]
    BY DataTyped DEF Init
  <1>5. backfills \in Nat /\ active \in BOOLEAN
    BY <1>1 DEF Init
  <1>6. channel \in Seq(Messages)
    BY DEF Init
  <1>7. /\ db \in Nat /\ final \in Nat /\ final <= db /\ asked \in Nat
        /\ progress \in BOOLEAN
    <2>1. db = 0 /\ final = 0 /\ asked = 0
      BY DEF Init
    <2>2. progress \in BOOLEAN
      BY DEF Init
    <2> QED
      BY <2>1, <2>2
  <1> QED
    BY <1>1, <1>2, <1>3, <1>4, <1>5, <1>6, <1>7 DEF Typed

\* Every key, thread and message keeps the types.
LEMMA NextTyped == Typed /\ [Next]_vars => Typed'
  <1> SUFFICES ASSUME Typed, [Next]_vars PROVE Typed'
    OBVIOUS
  <1> USE DEF threads, requests
  <1>0. graph \in [open : BOOLEAN, view : Cycle, data : Data]
    BY DEF Typed
  <1>1. CASE ToggleGraph
    <2>1. CASE graph.open
      BY <1>0, <1>1, <2>1 DEF ToggleGraph, Typed, Key
    <2>2. CASE ~graph.open
      <3>1. Request([graph EXCEPT !.open = TRUE])
        BY <1>1, <2>2 DEF ToggleGraph
      <3>2. [graph EXCEPT !.open = TRUE] \in [open : BOOLEAN, view : Cycle, data : Data]
        BY <1>0
      <3>3. /\ graph' \in [open : BOOLEAN, view : Cycle, data : Data]
            /\ readers' \in [Slots -> Reader] /\ asked' \in Nat
        BY <3>1, <3>2, RequestTyped
      <3> QED
        BY <1>1, <3>3 DEF ToggleGraph, Typed
    <2> QED
      BY <2>1, <2>2
  <1>2. CASE NextView
    <2>1. [graph EXCEPT !.view = NextOf(@)] \in [open : BOOLEAN, view : Cycle, data : Data]
      BY <1>0, CycleTurns
    <2>2. /\ graph' \in [open : BOOLEAN, view : Cycle, data : Data]
          /\ readers' \in [Slots -> Reader] /\ asked' \in Nat
      BY <1>2, <2>1, RequestTyped DEF NextView
    <2> QED
      BY <1>2, <2>2 DEF NextView, Typed
  <1>3. CASE NextPeriod
    <2>1. period' \in Cycle /\ enabled \in BOOLEAN /\ db' = db /\ db \in Nat
      BY <1>3, CycleTurns DEF NextPeriod, Typed
    <2>2. rows' \in [Sources -> Data]
      BY <1>3, <2>1, ReloadTyped DEF NextPeriod
    <2> QED
      BY <1>3, <2>1, <2>2 DEF NextPeriod, Typed
  <1>4. CASE Dismiss
    BY <1>4 DEF Dismiss, Typed
  <1>5. CASE SetEnabled
    <2>1. enabled' \in BOOLEAN /\ period \in Cycle /\ db' = db /\ db \in Nat
      BY <1>5 DEF SetEnabled, Typed
    <2>2. rows' \in [Sources -> Data]
      BY <1>5, <2>1, ReloadTyped DEF SetEnabled
    <2>3. active' \in BOOLEAN /\ backfills' \in Nat
      <3>1. \/ UNCHANGED <<active, backfills>>
            \/ active' = TRUE /\ backfills' = backfills + 1
        BY <1>5 DEF SetEnabled, SpawnBackfill
      <3>2. active \in BOOLEAN /\ backfills \in Nat
        BY DEF Typed
      <3>3. active' \in BOOLEAN
        BY <3>1, <3>2, Zenon
      <3>4. backfills' \in Nat
        BY <3>1, <3>2
      <3> QED
        BY <3>3, <3>4
    <2> QED
      BY <1>5, <2>1, <2>2, <2>3 DEF SetEnabled, Typed
  <1>6. CASE SetPeriod
    <2>1. initial' \in Cycle /\ period' = initial' /\ db' = db /\ db \in Nat
          /\ enabled \in BOOLEAN
      BY <1>6, CycleTurns DEF SetPeriod, Typed
    <2>2. rows' \in [Sources -> Data]
      BY <1>6, <2>1, ReloadTyped DEF SetPeriod
    <2> QED
      BY <1>6, <2>1, <2>2 DEF SetPeriod, Typed
  <1>7. CASE BackfillDay
    <2>1. channel' \in Seq(Messages)
      BY <1>7, AppendPositions DEF BackfillDay, Send, Typed, Messages
    <2> QED
      BY <1>7, <2>1 DEF BackfillDay, Write, Typed
  <1>8. CASE BackfillEnds
    <2>1. channel' \in Seq(Messages)
      BY <1>8, AppendPositions DEF BackfillEnds, Send, Typed, Messages
    <2> QED
      BY <1>8, <2>1 DEF BackfillEnds, Typed
  <1>9. CASE Elsewhere
    BY <1>9 DEF Elsewhere, Write, Typed
  <1>10. CASE ApplyProgress
    <2>1. channel' \in Seq(Messages)
      BY <1>10, ReceiveTyped DEF ApplyProgress
    <2> QED
      BY <1>10, <2>1 DEF ApplyProgress, Typed
  <1>11. CASE ApplyBackfilled
    <2>1. channel' \in Seq(Messages)
      BY <1>11, ReceiveTyped DEF ApplyBackfilled
    <2>2. /\ graph' \in [open : BOOLEAN, view : Cycle, data : Data]
          /\ readers' \in [Slots -> Reader] /\ asked' \in Nat
      <3>1. CASE graph.open
        BY <1>0, <1>11, <3>1, RequestTyped DEF ApplyBackfilled
      <3>2. CASE ~graph.open
        BY <1>11, <3>2 DEF ApplyBackfilled, Typed
      <3> QED
        BY <3>1, <3>2
    <2>3. rows' \in [Sources -> Data]
      <3>1. db' \in Nat /\ enabled \in BOOLEAN /\ period \in Cycle
        BY <1>11 DEF ApplyBackfilled, Typed
      <3> QED
        BY <1>11, <3>1, ReloadTyped DEF ApplyBackfilled
    <2> QED
      BY <1>11, <2>1, <2>2, <2>3 DEF ApplyBackfilled, Typed
  <1>12. CASE ApplyGraph
    <2>1. channel' \in Seq(Messages) /\ Head(channel).data \in Data
      BY <1>12, ReceiveTyped, MessageKinds DEF ApplyGraph
    <2>2. graph' \in [open : BOOLEAN, view : Cycle, data : Data]
      BY <1>0, <1>12, <2>1 DEF ApplyGraph
    <2> QED
      BY <1>12, <2>1, <2>2 DEF ApplyGraph, Typed
  <1>13. ASSUME NEW s \in Sources, ApplyTokens(s) PROVE Typed'
    <2>1. db' \in Nat /\ db <= db'
      BY <1>13 DEF ApplyTokens, Write, Typed
    <2>2. rows' \in [Sources -> Data]
      <3>1. {s} \in SUBSET Sources /\ enabled \in BOOLEAN /\ period \in Cycle
        BY DEF Typed
      <3> QED
        BY <1>13, <2>1, <3>1, ReloadTyped DEF ApplyTokens
    <2>3. final' <= db'
      BY <1>13, <2>1 DEF ApplyTokens, Typed
    <2> QED
      BY <1>13, <2>1, <2>2, <2>3 DEF ApplyTokens, Typed
  <1>14. ASSUME NEW i \in Slots, ReadGraph(i) PROVE Typed'
    <2>1. readers[i] \in Reader
      BY DEF Typed
    <2>2. PICK v \in Int : readers' = [readers EXCEPT ![i].stage = "sending",
                                                      ![i].data.version = v]
      <3>1. db \in Int /\ -1 \in Int
        BY DEF Typed
      <3>2. CASE enabled
        BY <1>14, <3>1, <3>2 DEF ReadGraph
      <3>3. CASE ~enabled
        BY <1>14, <3>1, <3>3 DEF ReadGraph
      <3> QED
        BY <3>2, <3>3
    <2>3. readers' \in [Slots -> Reader]
      BY <2>1, <2>2 DEF Typed, Reader, Data
    <2> QED
      BY <1>14, <2>3 DEF ReadGraph, Typed
  <1>15. ASSUME NEW i \in Slots, SendGraph(i) PROVE Typed'
    <2>1. Graph(readers[i].data) \in Messages
      BY DEF Typed, Reader, Messages
    <2>2. channel' \in Seq(Messages)
      BY <1>15, <2>1, AppendPositions DEF SendGraph, Send, Typed
    <2>3. readers' \in [Slots -> Reader]
      BY <1>15, DataTyped DEF SendGraph, Typed
    <2> QED
      BY <1>15, <2>2, <2>3 DEF SendGraph, Typed
  <1>16. CASE UNCHANGED vars
    BY <1>16 DEF vars, Typed
  <1> QED
    BY <1>1, <1>2, <1>3, <1>4, <1>5, <1>6, <1>7, <1>8, <1>9, <1>10, <1>11, <1>12, <1>13,
       <1>14, <1>15, <1>16 DEF Next, Apply

-----------------------------------------------------------------------------
(* The backfill.                                                           *)

\* Every step keeps the backfill in one place.
LEMMA NextBackfill == Typed /\ BackfillInv /\ [Next]_vars => BackfillInv'
  <1> SUFFICES ASSUME Typed, BackfillInv, [Next]_vars PROVE BackfillInv'
    OBVIOUS
  <1> USE DEF threads
  <1>0. /\ channel \in Seq(Messages) /\ active \in BOOLEAN /\ backfills \in Nat
        /\ progress \in BOOLEAN /\ OneAt(active, backfills, progress, channel)
    BY DEF Typed, BackfillInv
  <1>1. ASSUME UNCHANGED <<active, backfills, channel>>, progress' \in {FALSE, progress}
        PROVE  BackfillInv'
    <2>1. \/ progress' = progress
          \/ progress' = FALSE
      BY <1>1, Zenon
    <2>2. OneAt(active, backfills, FALSE, channel)
      BY <1>0 DEF OneAt
    <2>3. OneAt(active, backfills, progress', channel)
      <3>1. CASE progress' = progress
        BY <1>0, <3>1, Zenon
      <3>2. CASE progress' = FALSE
        BY <2>2, <3>2, Zenon
      <3> QED
        BY <2>1, <3>1, <3>2
    <2>4. active' = active /\ backfills' = backfills /\ channel' = channel
      BY <1>1
    <2> QED
      BY <2>3, <2>4, Zenon DEF BackfillInv, OneAt, Ends, Reports, PositionsOf
  <1>2. CASE ToggleGraph \/ NextView \/ NextPeriod \/ Dismiss \/ SetPeriod \/ Elsewhere
             \/ UNCHANGED vars
    BY <1>1, <1>2 DEF ToggleGraph, NextView, NextPeriod, Dismiss, SetPeriod, Elsewhere, vars
  <1>3. CASE SetEnabled
    <2>1. channel' = channel /\ progress' = progress
      BY <1>3 DEF SetEnabled
    <2>2. CASE UNCHANGED <<active, backfills>>
      BY <1>1, <2>1, <2>2
    <2>3. CASE ~active /\ active' = TRUE /\ backfills' = backfills + 1
      <3>1. backfills = 0 /\ Ends(channel) = {} /\ Reports(channel) = {}
        BY <1>0, <2>3 DEF OneAt
      <3>2. backfills' = 1
        BY <2>3, <3>1
      <3>3. OneAt(TRUE, 1, progress, channel)
        BY <3>1 DEF OneAt
      <3> QED
        BY <2>1, <2>3, <3>2, <3>3 DEF BackfillInv, OneAt, Ends, Reports, PositionsOf
    <2> QED
      BY <1>3, <2>2, <2>3 DEF SetEnabled, SpawnBackfill
  <1>4. CASE BackfillDay
    <2>1. OneAt(active, backfills, progress, Append(channel, Progress))
      BY <1>0, <1>4, SendKeeps DEF BackfillDay
    <2> QED
      BY <1>4, <2>1 DEF BackfillDay, Send, BackfillInv, OneAt, Ends, Reports, PositionsOf
  <1>5. CASE BackfillEnds
    <2>1. OneAt(active, backfills - 1, progress, Append(channel, Backfilled))
      BY <1>0, <1>5, SendKeeps DEF BackfillEnds
    <2> QED
      BY <1>5, <2>1 DEF BackfillEnds, Send, BackfillInv, OneAt, Ends, Reports, PositionsOf
  <1>6. CASE ApplyProgress
    <2>1. Head(channel) = Progress /\ channel # <<>> /\ channel' = Tail(channel)
      BY <1>6, ReceiveTyped, MessageKinds DEF ApplyProgress
    <2>2. OneAt(active, backfills, TRUE, Tail(channel))
      BY <1>0, <2>1, ReceiveKeeps
    <2> QED
      BY <1>6, <2>1, <2>2 DEF ApplyProgress, BackfillInv, OneAt, Ends, Reports, PositionsOf
  <1>7. CASE ApplyBackfilled
    <2>1. Head(channel) = Backfilled /\ channel # <<>> /\ channel' = Tail(channel)
      BY <1>7, ReceiveTyped, MessageKinds DEF ApplyBackfilled
    <2>2. OneAt(FALSE, backfills, FALSE, Tail(channel))
      BY <1>0, <2>1, ReceiveKeeps
    <2> QED
      BY <1>7, <2>1, <2>2 DEF ApplyBackfilled, BackfillInv, OneAt, Ends, Reports, PositionsOf
  <1>8. CASE ApplyGraph
    <2>1. /\ Head(channel) # Backfilled /\ Head(channel) # Progress
          /\ channel # <<>> /\ channel' = Tail(channel)
      BY <1>8, ReceiveTyped, MessageKinds DEF ApplyGraph
    <2>2. OneAt(active, backfills, progress, Tail(channel))
      BY <1>0, <2>1, ReceiveKeeps
    <2> QED
      BY <1>8, <2>1, <2>2 DEF ApplyGraph, BackfillInv, OneAt, Ends, Reports, PositionsOf
  <1>9. ASSUME NEW s \in Sources, ApplyTokens(s) PROVE BackfillInv'
    BY <1>1, <1>9 DEF ApplyTokens
  <1>10. ASSUME NEW i \in Slots, ReadGraph(i) PROVE BackfillInv'
    BY <1>1, <1>10 DEF ReadGraph
  <1>11. ASSUME NEW i \in Slots, SendGraph(i) PROVE BackfillInv'
    <2>1. readers[i].data \in Data
      BY DEF Typed, Reader
    <2>2. OneAt(active, backfills, progress, Append(channel, Graph(readers[i].data)))
      BY <1>0, <2>1, SendKeeps
    <2> QED
      BY <1>11, <2>2 DEF SendGraph, Send, BackfillInv, OneAt, Ends, Reports, PositionsOf
  <1> QED
    BY <1>2, <1>3, <1>4, <1>5, <1>6, <1>7, <1>8, <1>9, <1>10, <1>11 DEF Next, Apply
\* At the start the backfill is a thread, or there is none.
LEMMA InitBackfill == Init => BackfillInv
  <1> SUFFICES ASSUME Init PROVE BackfillInv
    OBVIOUS
  <1>1. Ends(channel) = {} /\ Reports(channel) = {}
    BY DEF Init, Ends, Reports, PositionsOf
  <1>2. ~progress
    BY DEF Init
  <1>3. CASE enabled
    <2>1. active /\ backfills = 1
      BY <1>3 DEF Init
    <2> QED
      BY <1>1, <1>2, <2>1 DEF BackfillInv, OneAt
  <1>4. CASE ~enabled
    <2>1. ~active /\ backfills = 0
      BY <1>4 DEF Init
    <2> QED
      BY <1>1, <1>2, <2>1 DEF BackfillInv, OneAt
  <1> QED
    BY <1>3, <1>4

\* Counting the threads and the ends on their way.
LEMMA BackfillCounts == Typed /\ BackfillInv => OneBackfill
  <1> SUFFICES ASSUME Typed, BackfillInv PROVE OneBackfill
    OBVIOUS
  <1>0. backfills \in Nat
    BY DEF Typed
  <1>1. InChannel(Backfilled) = Ends(channel) /\ InChannel(Progress) = Reports(channel)
    BY DEF InChannel, Ends, Reports, PositionsOf
  <1>2. Cardinality({}) = 0 /\ \A x : Cardinality({x}) = 1
    BY FS_EmptySet, FS_Singleton
  <1>3. backfills + Cardinality(Ends(channel)) = IF active THEN 1 ELSE 0
    <2>1. CASE ~active
      <3>1. backfills = 0 /\ Ends(channel) = {}
        BY <2>1 DEF BackfillInv, OneAt
      <3> QED
        BY <1>2, <2>1, <3>1
    <2>2. CASE active /\ backfills = 1 /\ Ends(channel) = {}
      BY <1>2, <2>2
    <2>3. CASE active /\ backfills = 0 /\ \E x : Ends(channel) = {x}
      <3>1. Cardinality(Ends(channel)) = 1
        BY <1>2, <2>3, Zenon
      <3> QED
        BY <2>3, <3>1
    <2> QED
      BY <2>1, <2>2, <2>3 DEF BackfillInv, OneAt
  <1>4. /\ progress \/ Reports(channel) # {} => active
        /\ \A i \in Reports(channel), j \in Ends(channel) : i < j
    BY DEF BackfillInv, OneAt
  <1> QED
    BY <1>1, <1>3, <1>4 DEF OneBackfill

-----------------------------------------------------------------------------
(* The rows.                                                               *)

\* Rows read now are those of the period and hold everything recorded.
LEMMA ReloadIsFinal ==
    ASSUME Typed, Typed', NEW p \in Cycle, Reload(Sources, enabled', p), p = period'
    PROVE  RowsAreFinal'
  <1>1. /\ db' \in Nat /\ final' \in Nat /\ final' <= db'
    BY DEF Typed
  <1>2. ASSUME NEW s \in Sources, enabled'
        PROVE  rows'[s].of = period' /\ rows'[s].version = db'
    BY <1>2, DataTyped DEF Reload
  <1>3. ASSUME NEW s \in Sources, ~enabled'
        PROVE  rows'[s] = Nothing
    BY <1>3 DEF Reload
  <1> QED
    BY <1>1, <1>2, <1>3 DEF RowsAreFinal

\* While a backfill is active, or none has just ended, rows that stay are still final.
LEMMA RowsStay ==
    ASSUME Typed, RowsAreFinal, UNCHANGED <<rows, enabled, period, active>>,
           active \/ final' = final
    PROVE  RowsAreFinal'
  BY DEF RowsAreFinal

\* Rows are read again whenever what they are judged by changes.
LEMMA NextRows == Typed /\ BackfillInv /\ RowsAreFinal /\ [Next]_vars => RowsAreFinal'
  <1> SUFFICES ASSUME Typed, BackfillInv, RowsAreFinal, [Next]_vars PROVE RowsAreFinal'
    OBVIOUS
  <1> USE DEF threads
  <1>0. Typed'
    BY NextTyped
  <1>1. CASE ToggleGraph \/ NextView \/ Dismiss \/ BackfillDay \/ Elsewhere \/ ApplyProgress
             \/ ApplyGraph \/ UNCHANGED vars
    BY <1>1, RowsStay DEF ToggleGraph, NextView, Dismiss, BackfillDay, Elsewhere,
       ApplyProgress, ApplyGraph, vars
  <1>2. CASE BackfillEnds
    <2>1. active
      BY <1>2 DEF BackfillEnds, BackfillInv, OneAt, Typed
    <2> QED
      BY <1>2, <2>1, RowsStay DEF BackfillEnds
  <1>3. ASSUME NEW i \in Slots, ReadGraph(i) \/ SendGraph(i) PROVE RowsAreFinal'
    BY <1>3, RowsStay DEF ReadGraph, SendGraph
  <1>4. CASE NextPeriod
    <2>1. Reload(Sources, enabled', period') /\ period' \in Cycle
      BY <1>0, <1>4 DEF NextPeriod, Typed
    <2> QED
      BY <1>0, <2>1, ReloadIsFinal
  <1>5. CASE SetEnabled
    <2>1. Reload(Sources, enabled', period) /\ period \in Cycle /\ period' = period
      BY <1>5 DEF SetEnabled, Typed
    <2> QED
      BY <1>0, <2>1, ReloadIsFinal
  <1>6. CASE SetPeriod
    <2>1. Reload(Sources, enabled', period') /\ period' \in Cycle
      BY <1>0, <1>6 DEF SetPeriod, Typed
    <2> QED
      BY <1>0, <2>1, ReloadIsFinal
  <1>7. CASE ApplyBackfilled
    <2>1. Reload(Sources, enabled', period) /\ period \in Cycle /\ period' = period
      BY <1>7 DEF ApplyBackfilled, Typed
    <2> QED
      BY <1>0, <2>1, ReloadIsFinal
  <1>8. ASSUME NEW s \in Sources, ApplyTokens(s) PROVE RowsAreFinal'
    <2>1. /\ UNCHANGED <<enabled, period, active, final>> /\ Reload({s}, enabled, period)
          /\ db' \in Nat /\ final' \in Nat /\ final' <= db'
      BY <1>0, <1>8 DEF ApplyTokens, Typed
    <2>2. ASSUME NEW t \in Sources, t # s PROVE rows'[t] = rows[t]
      BY <2>1, <2>2 DEF Reload
    <2>3. rows'[s] = IF enabled THEN Read(period, db', 0) ELSE Nothing
      BY <2>1 DEF Reload
    <2>4. ASSUME NEW t \in Sources
          PROVE  IF enabled THEN /\ rows'[t].of = period
                                 /\ ~active => rows'[t].version >= final'
                 ELSE rows'[t] = Nothing
      <3>1. CASE t = s
        BY <2>1, <2>3, <3>1, DataTyped
      <3>2. CASE t # s
        BY <2>1, <2>2, <3>2 DEF RowsAreFinal
      <3> QED
        BY <3>1, <3>2
    <2> QED
      BY <2>1, <2>4 DEF RowsAreFinal
  <1> QED
    BY <1>1, <1>2, <1>3, <1>4, <1>5, <1>6, <1>7, <1>8 DEF Next, Apply

\* The rows of the start belong to the period of the start.
LEMMA InitRows == Init => RowsAreFinal
  BY DataTyped DEF Init, RowsAreFinal

-----------------------------------------------------------------------------
(* The graph.                                                              *)

\* A step leaves alone what an answer is judged by, or makes it not count; or it is a
\* new request, which no answer known before is for.
Calm ==
    \/ UNCHANGED <<enabled, graph.open, active, asked, final>>
    \/ asked' = asked /\ (~enabled' \/ ~graph'.open \/ active')
    \/ asked' = asked + 1

\* Where data comes from: what is shown was shown or on its way, a thread keeps its
\* data, is new, or has read; what is on its way was there or with a thread.
ShownFrom ==
    graph'.data # Nothing =>
        \/ graph'.data = graph.data /\ graph'.view = graph.view
        \/ \E i \in 1 .. Len(channel) : /\ IsGraph(channel[i])
                                        /\ graph'.data = channel[i].data
                                        /\ graph'.data.of = graph'.view
HeldFrom ==
    \A i \in Slots :
        \/ readers'[i] = readers[i]
        \/ readers'[i].stage # "sending" /\ readers'[i].data.asked <= asked'
        \/ /\ readers'[i].data.asked = readers[i].data.asked
           /\ enabled' => readers'[i].data.version >= final'
SentFrom ==
    \A i \in 1 .. Len(channel') : IsGraph(channel'[i]) =>
        \/ \E j \in 1 .. Len(channel) : channel'[i] = channel[j]
        \/ \E k \in Slots : readers[k].stage = "sending" /\ channel'[i].data = readers[k].data
Moved == ShownFrom /\ HeldFrom /\ SentFrom

\* Every step is calm: a backfill ends only while it is active, and its end applied asks
\* again for an open graph.
LEMMA NextCalm == Typed /\ BackfillInv /\ [Next]_vars => Calm
  <1> SUFFICES ASSUME Typed, BackfillInv, [Next]_vars PROVE Calm
    OBVIOUS
  <1> USE DEF threads, requests
  <1>0. graph \in [open : BOOLEAN, view : Cycle, data : Data]
    BY DEF Typed
  <1>1. CASE ToggleGraph
    <2>1. CASE graph.open
      BY <1>0, <1>1, <2>1 DEF ToggleGraph, Calm
    <2>2. CASE ~graph.open
      BY <1>1, <2>2 DEF ToggleGraph, Request, Calm
    <2> QED
      BY <2>1, <2>2
  <1>2. CASE NextView
    BY <1>2 DEF NextView, Request, Calm
  <1>3. CASE SetEnabled
    <2>1. CASE enabled'
      BY <1>3, <2>1 DEF SetEnabled, SpawnBackfill, Calm
    <2>2. CASE ~enabled'
      BY <1>3, <2>2 DEF SetEnabled, Calm
    <2> QED
      BY <2>1, <2>2
  <1>4. CASE BackfillEnds
    <2>1. active
      BY <1>4 DEF BackfillEnds, BackfillInv, OneAt, Typed
    <2> QED
      BY <1>4, <2>1 DEF BackfillEnds, Calm
  <1>5. CASE ApplyBackfilled
    <2>1. CASE graph.open
      BY <1>5, <2>1 DEF ApplyBackfilled, Request, Calm
    <2>2. CASE ~graph.open
      BY <1>5, <2>2 DEF ApplyBackfilled, Calm
    <2> QED
      BY <2>1, <2>2
  <1>6. CASE ApplyGraph
    <2>1. graph'.open = graph.open
      BY <1>0, <1>6 DEF ApplyGraph
    <2> QED
      BY <1>6, <2>1 DEF ApplyGraph, Calm
  <1>7. CASE NextPeriod \/ Dismiss \/ SetPeriod \/ BackfillDay \/ Elsewhere \/ ApplyProgress
             \/ UNCHANGED vars
    BY <1>7 DEF NextPeriod, Dismiss, SetPeriod, BackfillDay, Elsewhere, ApplyProgress, vars,
       Calm
  <1>8. ASSUME NEW s \in Sources, ApplyTokens(s) PROVE Calm
    BY <1>8 DEF ApplyTokens, Calm
  <1>9. ASSUME NEW i \in Slots, ReadGraph(i) \/ SendGraph(i) PROVE Calm
    BY <1>9 DEF ReadGraph, SendGraph, Calm
  <1> QED
    BY <1>1, <1>2, <1>3, <1>4, <1>5, <1>6, <1>7, <1>8, <1>9 DEF Next, Apply

\* What stays where it is came from there.
LEMMA StaysMoved ==
    ASSUME Typed
    PROVE  /\ graph' = graph => ShownFrom
           /\ UNCHANGED <<readers, asked>> => HeldFrom
           /\ channel' = channel => SentFrom
  BY DEF ShownFrom, HeldFrom, SentFrom

\* A request empties the graph and gives a thread something new to read.
LEMMA RequestMoved ==
    ASSUME Typed, NEW g \in [open : BOOLEAN, view : Cycle, data : Data], Request(g)
    PROVE  ShownFrom /\ HeldFrom
  <1>1. graph'.data = Nothing /\ asked' \in Nat
    BY RequestTyped
  <1>2. \A i \in Slots : \/ readers'[i] = readers[i]
                         \/ readers'[i].stage = "reading" /\ readers'[i].data.asked = asked'
    BY RequestTyped
  <1> QED
    BY <1>1, <1>2 DEF ShownFrom, HeldFrom

\* Taking a message adds none.
LEMMA ReceiveMoved ==
    ASSUME Typed, NEW kind, Receive(kind)
    PROVE  SentFrom
  <1>1. /\ Len(channel) \in Nat \ {0} /\ Len(channel') = Len(channel) - 1
        /\ \A i \in 1 .. Len(channel') : channel'[i] = channel[i + 1]
    BY ReceiveTyped
  <1>2. \A i \in 1 .. Len(channel') : i + 1 \in 1 .. Len(channel)
    BY <1>1
  <1> QED
    BY <1>1, <1>2 DEF SentFrom

\* A graph that is sent was with a thread.
LEMMA SendMoved ==
    ASSUME Typed, NEW m \in Messages, Send(m),
           IsGraph(m) => \E k \in Slots : /\ readers[k].stage = "sending"
                                         /\ m.data = readers[k].data
    PROVE  SentFrom
  <1>1. /\ Len(channel) \in Nat /\ Len(channel') = Len(channel) + 1
        /\ \A i \in 1 .. Len(channel) : channel'[i] = channel[i]
        /\ channel'[Len(channel) + 1] = m
    BY DEF Send, Typed
  <1>2. ASSUME NEW i \in 1 .. Len(channel'), i # Len(channel) + 1
        PROVE  i \in 1 .. Len(channel)
    BY <1>1, <1>2
  <1> QED
    BY <1>1, <1>2 DEF SentFrom

\* In every step data comes from where it may.
LEMMA NextMoved == Typed /\ [Next]_vars => Moved
  <1> SUFFICES ASSUME Typed, [Next]_vars PROVE Moved
    OBVIOUS
  <1> USE DEF threads, requests, Moved
  <1>0. graph \in [open : BOOLEAN, view : Cycle, data : Data]
    BY DEF Typed
  <1>1. CASE ToggleGraph
    <2>1. CASE graph.open
      <3>1. graph'.data = graph.data /\ graph'.view = graph.view
        BY <1>0, <1>1, <2>1 DEF ToggleGraph
      <3>2. ShownFrom
        BY <3>1 DEF ShownFrom
      <3> QED
        BY <1>1, <2>1, <3>2, StaysMoved DEF ToggleGraph
    <2>2. CASE ~graph.open
      <3>1. [graph EXCEPT !.open = TRUE] \in [open : BOOLEAN, view : Cycle, data : Data]
        BY <1>0
      <3> QED
        BY <1>1, <2>2, <3>1, RequestMoved, StaysMoved DEF ToggleGraph
    <2> QED
      BY <2>1, <2>2
  <1>2. CASE NextView
    <2>1. [graph EXCEPT !.view = NextOf(@)] \in [open : BOOLEAN, view : Cycle, data : Data]
      BY <1>0, CycleTurns
    <2> QED
      BY <1>2, <2>1, RequestMoved, StaysMoved DEF NextView
  <1>3. CASE NextPeriod \/ Dismiss \/ SetEnabled \/ SetPeriod \/ Elsewhere \/ UNCHANGED vars
    BY <1>3, StaysMoved DEF NextPeriod, Dismiss, SetEnabled, SetPeriod, Elsewhere, vars
  <1>4. CASE BackfillDay
    BY <1>4, SendMoved, StaysMoved, MessageKinds DEF BackfillDay, Messages, IsGraph
  <1>5. CASE BackfillEnds
    BY <1>5, SendMoved, StaysMoved, MessageKinds DEF BackfillEnds, Messages, IsGraph
  <1>6. CASE ApplyProgress
    BY <1>6, ReceiveMoved, StaysMoved DEF ApplyProgress
  <1>7. CASE ApplyBackfilled
    <2>1. ShownFrom /\ HeldFrom
      <3>1. CASE graph.open
        BY <1>0, <1>7, <3>1, RequestMoved DEF ApplyBackfilled
      <3>2. CASE ~graph.open
        BY <1>7, <3>2, StaysMoved DEF ApplyBackfilled
      <3> QED
        BY <3>1, <3>2
    <2> QED
      BY <1>7, <2>1, ReceiveMoved DEF ApplyBackfilled
  <1>8. CASE ApplyGraph
    <2>1. /\ Head(channel) = channel[1] /\ 1 \in 1 .. Len(channel) /\ IsGraph(channel[1])
      BY <1>8, ReceiveTyped DEF ApplyGraph, IsGraph
    <2>2. ShownFrom
      <3>1. CASE Accepted(channel[1].data)
        <4>1. graph'.data = channel[1].data /\ graph'.view = graph.view
          BY <1>0, <1>8, <2>1, <3>1 DEF ApplyGraph
        <4> QED
          BY <2>1, <3>1, <4>1 DEF Accepted, ShownFrom
      <3>2. CASE ~Accepted(channel[1].data)
        BY <1>8, <2>1, <3>2, StaysMoved DEF ApplyGraph
      <3> QED
        BY <3>1, <3>2
    <2> QED
      BY <1>8, <2>2, ReceiveMoved, StaysMoved DEF ApplyGraph
  <1>9. ASSUME NEW s \in Sources, ApplyTokens(s) PROVE Moved
    BY <1>9, StaysMoved DEF ApplyTokens
  <1>10. ASSUME NEW i \in Slots, ReadGraph(i) PROVE Moved
    <2>1. /\ readers' = [readers EXCEPT ![i].stage = "sending",
                                       ![i].data.version = IF enabled THEN db ELSE -1]
          /\ UNCHANGED <<db, enabled, graph, channel, asked, final>>
      BY <1>10 DEF ReadGraph
    <2>2. readers \in [Slots -> Reader] /\ db >= final
      BY DEF Typed
    <2>3. ASSUME NEW k \in Slots, k # i PROVE readers'[k] = readers[k]
      BY <2>1, <2>2, <2>3
    <2>4. /\ readers'[i].data.asked = readers[i].data.asked
          /\ enabled => readers'[i].data.version = db
      BY <2>1, <2>2 DEF Reader, Data
    <2>5. HeldFrom
      BY <2>1, <2>2, <2>3, <2>4 DEF HeldFrom
    <2> QED
      BY <2>1, <2>5, StaysMoved
  <1>11. ASSUME NEW i \in Slots, SendGraph(i) PROVE Moved
    <2>1. Graph(readers[i].data) \in Messages /\ Graph(readers[i].data).data = readers[i].data
      BY MessageKinds DEF Typed, Reader, Messages
    <2>2. SentFrom
      BY <1>11, <2>1, SendMoved DEF SendGraph
    <2>3. HeldFrom
      <3>1. NoReader.stage # "sending" /\ NoReader.data.asked <= asked
        BY DEF NoReader, Nothing, Typed
      <3> QED
        BY <1>11, <3>1 DEF SendGraph, HeldFrom, Typed
    <2> QED
      BY <1>11, <2>2, <2>3, StaysMoved DEF SendGraph
  <1> QED
    BY <1>1, <1>2, <1>3, <1>4, <1>5, <1>6, <1>7, <1>8, <1>9, <1>10, <1>11 DEF Next, Apply

\* Data that is fresh before a calm step is fresh after it.
LEMMA FreshStays ==
    ASSUME Typed, Calm, NEW d \in Data, FreshNow(d)
    PROVE  Fresh(enabled', graph'.open, active', asked', final', d)
  <1>1. d.asked \in Int /\ asked \in Nat /\ d.asked <= asked
    BY DEF Typed, Data, FreshNow, Fresh
  <1>2. CASE UNCHANGED <<enabled, graph.open, active, asked, final>>
    BY <1>2 DEF FreshNow, Fresh
  <1>3. CASE asked' = asked /\ (~enabled' \/ ~graph'.open \/ active')
    BY <1>1, <1>3 DEF Fresh
  <1>4. CASE asked' = asked + 1
    <2>1. d.asked <= asked' /\ d.asked # asked'
      BY <1>1, <1>4
    <2> QED
      BY <2>1 DEF Fresh
  <1> QED
    BY <1>2, <1>3, <1>4 DEF Calm

\* Every step keeps the graph current.
LEMMA NextGraph == Typed /\ BackfillInv /\ GraphInv /\ [Next]_vars => GraphInv'
  <1> SUFFICES ASSUME Typed, BackfillInv, GraphInv, [Next]_vars PROVE GraphInv'
    OBVIOUS
  <1> DEFINE FreshNext(d) == Fresh(enabled', graph'.open, active', asked', final', d)
  <1>0. Calm /\ ShownFrom /\ HeldFrom /\ SentFrom
    BY NextCalm, NextMoved DEF Moved
  <1>1. /\ graph.data \in Data
        /\ \A i \in Slots : readers[i].data \in Data /\ readers[i].data.asked \in Int
        /\ \A i \in 1 .. Len(channel) : IsGraph(channel[i]) => channel[i].data \in Data
        /\ asked \in Nat /\ asked <= asked' /\ asked' \in Nat
    <2>1. graph.data \in Data
      BY DEF Typed
    <2>2. \A i \in Slots : readers[i].data \in Data /\ readers[i].data.asked \in Int
      BY DEF Typed, Reader, Data
    <2>3. \A i \in 1 .. Len(channel) : IsGraph(channel[i]) => channel[i].data \in Data
      BY MessageKinds DEF Typed, IsGraph
    <2>4. asked \in Nat /\ asked <= asked' /\ asked' \in Nat
      BY <1>0 DEF Calm, Typed
    <2> QED
      BY <2>1, <2>2, <2>3, <2>4
  <1>2. \A d \in Data : FreshNow(d) => FreshNext(d)
    BY <1>0, FreshStays
  <1>3. graph'.data # Nothing => graph'.data.of = graph'.view /\ FreshNext(graph'.data)
    <2>1. CASE /\ graph'.data = graph.data /\ graph'.view = graph.view
               /\ graph.data # Nothing
      BY <1>1, <1>2, <2>1 DEF GraphInv
    <2>2. CASE \E i \in 1 .. Len(channel) : /\ IsGraph(channel[i])
                                            /\ graph'.data = channel[i].data
                                            /\ graph'.data.of = graph'.view
      BY <1>1, <1>2, <2>2 DEF GraphInv
    <2> QED
      BY <1>0, <2>1, <2>2 DEF ShownFrom
  <1>4. ASSUME NEW i \in Slots
        PROVE  /\ readers'[i].data.asked <= asked'
               /\ readers'[i].stage = "sending" => FreshNext(readers'[i].data)
    <2>0. readers[i].data.asked <= asked'
      BY <1>1 DEF GraphInv
    <2>1. CASE readers'[i] = readers[i]
      BY <1>1, <1>2, <2>0, <2>1 DEF GraphInv
    <2>2. CASE readers'[i].stage # "sending" /\ readers'[i].data.asked <= asked'
      BY <2>2
    <2>3. CASE /\ readers'[i].data.asked = readers[i].data.asked
               /\ enabled' => readers'[i].data.version >= final'
      BY <2>0, <2>3 DEF Fresh
    <2> QED
      BY <1>0, <2>1, <2>2, <2>3 DEF HeldFrom
  <1>5. ASSUME NEW i \in 1 .. Len(channel'), IsGraph(channel'[i])
        PROVE  FreshNext(channel'[i].data)
    <2>1. CASE \E j \in 1 .. Len(channel) : channel'[i] = channel[j]
      BY <1>1, <1>2, <1>5, <2>1 DEF GraphInv
    <2>2. CASE \E k \in Slots : /\ readers[k].stage = "sending"
                                /\ channel'[i].data = readers[k].data
      BY <1>1, <1>2, <2>2 DEF GraphInv
    <2> QED
      BY <1>0, <1>5, <2>1, <2>2 DEF SentFrom
  <1> QED
    BY <1>3, <1>4, <1>5 DEF GraphInv, FreshNow, IsGraph

\* There is no graph at the start.
LEMMA InitGraph == Init => GraphInv
  <1> SUFFICES ASSUME Init PROVE GraphInv
    OBVIOUS
  <1>1. graph.data = Nothing /\ asked = 0 /\ Len(channel) = 0
    BY DEF Init
  <1>2. \A i \in Slots : readers[i].data.asked = 0 /\ readers[i].stage = "none"
    BY DEF Init, NoReader, Nothing
  <1> QED
    BY <1>1, <1>2 DEF GraphInv

-----------------------------------------------------------------------------
(* Theorems.                                                               *)

\* The parts hold together: the rows and the graph are final because of BackfillInv.
LEMMA Invariance == Spec => []IInv
  <1>1. Init => IInv
    BY InitTyped, InitBackfill, InitRows, InitGraph DEF IInv
  <1>2. IInv /\ [Next]_vars => IInv'
    BY NextTyped, NextBackfill, NextRows, NextGraph DEF IInv
  <1> QED
    BY <1>1, <1>2, PTL DEF Spec

\* One backfill at a time, whatever is pressed: a backfill is marked active exactly while
\* its thread runs or its end is on the way, and no progress outlives it
\* (spawn_backfill, apply_update).
THEOREM OneBackfillAtATime == Spec => []OneBackfill
  <1>1. IInv => OneBackfill
    BY BackfillCounts DEF IInv
  <1> QED
    BY <1>1, Invariance, PTL

\* The rows are those of the selected period, and hold all of the last backfill once it
\* is no longer active (reload_source_history, spawn_backfill).
THEOREM RowsOfAFinishedBackfill == Spec => []RowsAreFinal
  <1>1. IInv => RowsAreFinal
    BY DEF IInv
  <1> QED
    BY <1>1, Invariance, PTL

\* The graph is of the view that is shown, and the answer to the latest request holds
\* all of a backfill that is over (reload_graph, apply_update).
THEOREM GraphOfTheShownView == Spec => []GraphIsCurrent
  <1>1. IInv => GraphIsCurrent
    <2> SUFFICES ASSUME IInv PROVE GraphIsCurrent
      OBVIOUS
    <2> QED
      BY DEF IInv, GraphInv, FreshNow, Fresh, GraphIsCurrent
  <1> QED
    BY <1>1, Invariance, PTL
=============================================================================
