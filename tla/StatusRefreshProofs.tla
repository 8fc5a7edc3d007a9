------------------------ MODULE StatusRefreshProofs ------------------------
(***************************************************************************)
(* StatusRefresh for any processes, families, accounts, grace period and   *)
(* environment: the age of kept windows is honest, each account is shown   *)
(* once, a family that times out is shown, and a hit is fresh.             *)
(***************************************************************************)
EXTENDS StatusRefresh, TLAPS

(***************************************************************************)
(* The inductive invariant.  A snapshot that is saved or shown is honest;  *)
(* between the merge and the second look at the cache (pc = "keep") the    *)
(* entries of this run have no age yet and reused ones carry their own.    *)
(***************************************************************************)
OneEach(S) == \A d, e \in S : d.id = e.id => d = e

HonestIn(s) ==
    \A e \in s.entries :
        e.kind = "windows" => e.born = IF e.stale = Never THEN s.at ELSE e.stale

HonestDraft(s) == \A e \in s.entries : e.kind = "windows" => e.born = e.stale

CacheOK == OneEach(cache.entries) /\ HonestIn(cache)

DraftOK ==
    \A p \in Procs :
        /\ OneEach(draft[p].entries)
        /\ pc[p] = "keep" => HonestDraft(draft[p])
        /\ pc[p] \in {"save", "show"} => draft[p] \in Status /\ HonestIn(draft[p])

BatchOK == batch = [p \in Procs |-> [f \in Families |-> batch[p][f]]]

IInv == env \in Environments /\ TypeOK /\ CacheOK /\ DraftOK /\ BatchOK

-----------------------------------------------------------------------------
(* The entries.                                                            *)

\* Time is made of naturals, Never is none.
LEMMA Times ==
    ASSUME env \in Environments
    PROVE  Time \subseteq Nat /\ Never \notin Time /\ 0 \in Time
  <1>1. env.maxTime \in Nat
    BY RefreshAssumption
  <1> QED
    BY <1>1 DEF Time, Never

\* What a provider's answer becomes: one entry of its account.
LEMMA CollectedEntries ==
    ASSUME IInv, NEW p \in Procs
    PROVE  /\ Collected(p) \subseteq Entry
           /\ OneEach(Collected(p))
           /\ \A e \in Collected(p) : /\ e.stale = Never /\ e.born = Never
                                      /\ family[e.id] \in Arrived(p)
  <1>1. ASSUME NEW a \in env.accounts, family[a] \in Arrived(p),
               batch[p][family[a]][a] # "absent"
        PROVE  a \in Accounts /\ batch[p][family[a]][a] \in {"windows", "empty", "error"}
    <2>1. env.accounts \subseteq Accounts /\ env.answers \subseteq AnswerKinds
      BY RefreshAssumption DEF IInv
    <2>2. family[a] \in Families /\ a \in AccountsOf(family[a])
      BY <2>1, RefreshAssumption DEF AccountsOf
    <2>3. batch[p][family[a]] \in [AccountsOf(family[a]) -> env.answers \cup {"absent"}]
      BY <1>1, <2>2 DEF IInv, TypeOK, Arrived
    <2> QED
      BY <1>1, <2>1, <2>2, <2>3 DEF AnswerKinds
  <1> QED
    BY <1>1 DEF Collected, Entry, OneEach, Never

\* What is reused keeps its account, its kind and the run that fetched its windows.
LEMMA ReusedEntries ==
    ASSUME IInv, NEW p \in Procs
    PROVE  /\ Reused(p) \subseteq Entry
           /\ OneEach(Reused(p))
           /\ \A e \in Reused(p) : /\ e.kind = "windows" => e.born = e.stale
                                   /\ family[e.id] \notin Arrived(p)
  <1>1. ASSUME NEW e \in cache.entries
        PROVE  /\ e \in Entry
               /\ StaleFrom(e, cache) \in Time
               /\ e.kind = "windows" => e.born = StaleFrom(e, cache)
    BY Times DEF IInv, TypeOK, CacheOK, HonestIn, Status, NoStatus, StaleFrom, Entry
  <1> DEFINE R(e) == [e EXCEPT !.stale = StaleFrom(e, cache)]
  <1>2. ASSUME NEW e \in cache.entries
        PROVE  /\ R(e) \in Entry /\ R(e).id = e.id
               /\ R(e).kind = "windows" => R(e).born = R(e).stale
    BY <1>1 DEF Entry
  <1>3. \A d \in Reused(p) : \E e \in cache.entries :
           d = R(e) /\ family[e.id] \notin Arrived(p)
    BY DEF Reused
  <1> HIDE DEF R
  <1>4. OneEach(Reused(p))
    <2> SUFFICES ASSUME NEW d \in Reused(p), NEW e \in Reused(p), d.id = e.id
                 PROVE  d = e
      BY DEF OneEach
    <2>1. PICK c \in cache.entries : d = R(c)
      BY <1>3
    <2>2. PICK b \in cache.entries : e = R(b)
      BY <1>3
    <2>3. c.id = b.id
      BY <1>2, <2>1, <2>2
    <2> QED
      BY <2>1, <2>2, <2>3 DEF IInv, CacheOK, OneEach
  <1> QED
    BY <1>2, <1>3, <1>4

\* Timeout errors go to accounts of families without any other entry.
LEMMA TimeoutEntries ==
    ASSUME IInv, NEW p \in Procs
    PROVE  /\ TimeoutErrors(p) \subseteq Entry
           /\ OneEach(TimeoutErrors(p))
           /\ \A e \in TimeoutErrors(p) :
                /\ e.kind = "error"
                /\ family[e.id] \notin Arrived(p)
                /\ \A d \in Reused(p) : family[d.id] # family[e.id]
  <1>1. env.enabled \subseteq Families
    BY RefreshAssumption DEF IInv
  <1>2. \A f \in env.enabled : primary[f] \in Accounts /\ family[primary[f]] = f
    BY <1>1, RefreshAssumption
  <1> QED
    BY <1>2 DEF TimeoutErrors, Entry, OneEach, Never

\* keep_stale_data, one provider.
LEMMA KeptEntry ==
    ASSUME IInv, NEW e \in Entry
    PROVE  /\ KeepStale(e) \in Entry
           /\ KeepStale(e).id = e.id
           /\ \/ KeepStale(e) = e
              \/ KeepStale(e).stale # Never /\ KeepStale(e).born = KeepStale(e).stale
  <1> DEFINE old == {o \in LastWindows(e) : now - StaleFrom(o, cache) <= Grace}
  <1>1. CASE e.kind # "error" \/ old = {}
    BY <1>1 DEF KeepStale
  <1>2. CASE ~(e.kind # "error" \/ old = {})
    <2> DEFINE o == CHOOSE o \in old : TRUE
    <2>1. o \in old
      BY <1>2
    <2>2. o \in cache.entries /\ o.id = e.id /\ o.kind = "windows"
      BY <2>1 DEF LastWindows
    <2>3. KeepStale(e) = [o EXCEPT !.stale = StaleFrom(o, cache)]
      BY <1>2 DEF KeepStale
    <2>4. o \in Entry /\ StaleFrom(o, cache) \in Time /\ o.born = StaleFrom(o, cache)
      BY <2>2, Times DEF IInv, TypeOK, CacheOK, HonestIn, Status, NoStatus, StaleFrom, Entry
    <2> HIDE DEF o
    <2>5. [o EXCEPT !.stale = StaleFrom(o, cache)] \in Entry
      BY <2>4 DEF Entry
    <2>6. Never \notin Time
      BY Times DEF IInv
    <2> QED
      BY <2>2, <2>3, <2>4, <2>5, <2>6 DEF Entry
  <1> QED
    BY <1>1, <1>2

-----------------------------------------------------------------------------
(* The invariant.                                                          *)

\* The parts hold before any refresh starts.
LEMMA InitHolds == Init => IInv
  BY Times, RefreshAssumption
     DEF Init, IInv, TypeOK, CacheOK, DraftOK, BatchOK, NoStatus, NoBatches, Waiting,
         OneEach, HonestIn, HonestDraft

\* What Entry, Status and AccountsOf stand for does not change.
LEMMA SameTypes ==
    ASSUME env' = env
    PROVE  Entry' = Entry /\ Status' = Status /\ Time' = Time
           /\ \A f \in Families : AccountsOf(f)' = AccountsOf(f)
  BY DEF Entry, Status, Time, AccountsOf

\* The end of the budget puts a snapshot together in which nothing is said twice.
LEMMA CloseHolds ==
    ASSUME IInv, NEW p \in Procs, CloseBudget(p), env' = env
    PROVE  IInv'
  <1> DEFINE new == Collected(p) \cup IF Arrived(p) = Families THEN {}
                                      ELSE Reused(p) \cup TimeoutErrors(p)
             d == [at |-> Never, entries |-> new]
  <1>1. /\ batch' = [batch EXCEPT ![p] = NoBatches]
        /\ draft' = [draft EXCEPT ![p] = d]
        /\ pc' = [pc EXCEPT ![p] = "keep"]
        /\ now' = now /\ cache' = cache
    BY DEF CloseBudget, SetDraft, Goto
  <1>2. new \subseteq Entry
    BY CollectedEntries, ReusedEntries, TimeoutEntries
  <1>3. OneEach(new)
    BY CollectedEntries, ReusedEntries, TimeoutEntries DEF OneEach
  <1>4. HonestDraft(d)
    BY CollectedEntries, ReusedEntries, TimeoutEntries DEF HonestDraft
  <1> HIDE DEF new
  <1>5. d \in [at : Time \cup {Never}, entries : SUBSET Entry]
    BY <1>2
  <1>6. d.entries = new
    OBVIOUS
  <1> HIDE DEF d
  <1>7. TypeOK'
    BY <1>1, <1>5, SameTypes DEF IInv, TypeOK, BatchOK, NoBatches, Waiting
  <1>8. DraftOK'
    BY <1>1, <1>3, <1>4, <1>6, SameTypes DEF IInv, TypeOK, DraftOK
  <1> QED
    BY <1>1, <1>7, <1>8 DEF IInv, CacheOK, BatchOK, NoBatches, HonestIn, OneEach

\* The second look at the cache gives every entry of the snapshot its age.
LEMMA KeepHolds ==
    ASSUME IInv, NEW p \in Procs, Keep(p), env' = env
    PROVE  IInv'
  <1> DEFINE K(e) == Stamp(KeepStale(e))
             new == {K(e) : e \in draft[p].entries}
             d == [at |-> now, entries |-> new]
  <1>1. /\ draft' = [draft EXCEPT ![p] = d]
        /\ pc' = [pc EXCEPT ![p] = "save"]
        /\ now' = now /\ cache' = cache /\ batch' = batch
        /\ pc[p] = "keep"
    BY DEF Keep, SetDraft, Goto
  <1>2. ASSUME NEW e \in draft[p].entries
        PROVE  /\ K(e) \in Entry /\ K(e).id = e.id
               /\ K(e).kind = "windows" =>
                    K(e).born = IF K(e).stale = Never THEN now ELSE K(e).stale
    <2>1. e \in Entry /\ (e.kind = "windows" => e.born = e.stale)
      BY <1>1 DEF IInv, TypeOK, DraftOK, HonestDraft
    <2>2. /\ KeepStale(e) \in Entry /\ KeepStale(e).id = e.id
          /\ KeepStale(e).kind = "windows" => KeepStale(e).born = KeepStale(e).stale
      BY <2>1, KeptEntry
    <2> QED
      BY <2>2 DEF Stamp, Entry, IInv, TypeOK
  <1> HIDE DEF K
  <1>3. new \subseteq Entry
    BY <1>2
  <1>4. OneEach(new)
    BY <1>2 DEF OneEach, IInv, DraftOK
  <1>5. HonestIn(d)
    BY <1>2 DEF HonestIn
  <1> HIDE DEF new
  <1>6. d \in Status /\ d.entries = new
    BY <1>3 DEF Status, IInv, TypeOK
  <1>7. d \in [at : Time \cup {Never}, entries : SUBSET Entry]
    BY <1>6 DEF Status
  <1> HIDE DEF d
  <1>8. TypeOK'
    BY <1>1, <1>7, SameTypes DEF IInv, TypeOK
  <1>9. DraftOK'
    BY <1>1, <1>4, <1>5, <1>6, SameTypes DEF IInv, TypeOK, DraftOK
  <1> QED
    BY <1>1, <1>8, <1>9 DEF IInv, CacheOK, BatchOK, HonestIn, OneEach

\* The steps that merge no answer and move no clock.
LEMMA OtherStepsHold ==
    ASSUME IInv, NEW p \in Procs, env' = env,
           Hit(p) \/ Miss(p) \/ Save(p) \/ Show(p) \/ Crash(p)
    PROVE  IInv'
  <1> USE DEF IInv, TypeOK, CacheOK, DraftOK, BatchOK, Goto, SetDraft
  <1>1. NoStatus \in [at : Time \cup {Never}, entries : SUBSET Entry] /\ OneEach(NoStatus.entries)
    BY DEF NoStatus, OneEach
  <1>2. Status \subseteq [at : Time \cup {Never}, entries : SUBSET Entry]
    BY DEF Status
  <1>3. CASE Hit(p)
    BY <1>3, <1>2, SameTypes DEF Hit, Loadable, HonestIn
  <1>4. CASE Miss(p)
    BY <1>4, SameTypes DEF Miss, HonestIn
  <1>5. CASE Save(p)
    BY <1>5, SameTypes DEF Save, HonestIn
  <1>6. CASE Show(p)
    BY <1>6, <1>1, SameTypes DEF Show, HonestIn
  <1>7. CASE Crash(p)
    <2>1. /\ draft' = [draft EXCEPT ![p] = NoStatus] /\ pc' = [pc EXCEPT ![p] = "idle"]
          /\ batch' = [batch EXCEPT ![p] = NoBatches]
          /\ now' = now /\ cache' = cache
      BY <1>7 DEF Crash
    <2>2. TypeOK'
      BY <1>1, <2>1, SameTypes DEF NoBatches
    <2>3. CacheOK'
      BY <2>1 DEF HonestIn
    <2>4. DraftOK'
      BY <1>1, <2>1, SameTypes DEF HonestIn
    <2>5. BatchOK'
      BY <2>1 DEF NoBatches
    <2> QED
      BY <2>2, <2>3, <2>4, <2>5
  <1> QED
    BY <1>3, <1>4, <1>5, <1>6, <1>7

\* An answer arrives and takes its place in the result.
LEMMA ArriveHolds ==
    ASSUME IInv, NEW p \in Procs, NEW f \in Families, Arrive(p, f), env' = env
    PROVE  IInv'
  <1>1. PICK answer \in [AccountsOf(f) -> IF f \in env.enabled THEN env.answers ELSE {"absent"}] :
          batch' = [batch EXCEPT ![p][f] = answer]
    BY DEF Arrive
  <1>2. answer \in [AccountsOf(f) -> env.answers \cup {"absent"}]
    OBVIOUS
  <1>3. now' = now /\ cache' = cache /\ pc' = pc /\ draft' = draft
    BY DEF Arrive
  <1>4. TypeOK'
    BY <1>1, <1>2, <1>3, SameTypes DEF IInv, TypeOK, BatchOK
  <1>5. BatchOK'
    BY <1>1 DEF IInv, BatchOK
  <1> QED
    BY <1>3, <1>4, <1>5, SameTypes DEF IInv, CacheOK, DraftOK

\* Time makes a snapshot older, never younger.
LEMMA TickHolds ==
    ASSUME IInv, Tick, env' = env
    PROVE  IInv'
  <1>1. now' \in Time
    BY RefreshAssumption DEF Tick, IInv, TypeOK, Time
  <1> QED
    BY <1>1, SameTypes DEF Tick, IInv, TypeOK, CacheOK, DraftOK, BatchOK

\* Every step keeps the parts together.
LEMMA NextHolds == IInv /\ [Next]_allVars => IInv'
  <1> SUFFICES ASSUME IInv, [Next]_allVars PROVE IInv'
    OBVIOUS
  <1>1. CASE Next
    <2>1. env.procs \subseteq Procs
      BY RefreshAssumption DEF IInv
    <2> QED
      BY <1>1, <2>1, CloseHolds, KeepHolds, OtherStepsHold, ArriveHolds, TickHolds
         DEF Next, Step
  <1>2. CASE UNCHANGED allVars
    BY <1>2, SameTypes DEF allVars, vars, IInv, TypeOK, CacheOK, DraftOK, BatchOK
  <1> QED
    BY <1>1, <1>2

\* The invariant of the specification, from its first state on.
LEMMA Invariance == Spec => []IInv
  BY InitHolds, NextHolds, PTL DEF Spec

-----------------------------------------------------------------------------
(* Recent data.  With one process the cache is what it was when the        *)
(* snapshot was degraded.                                                  *)

KeepsRecent(s) ==
    \A e \in cache.entries :
        e.kind = "windows" /\ s.at - e.born <= Grace =>
            \A d \in s.entries : d.id = e.id => d.kind # "error"

SoleDraft ==
    \A p \in Procs : env.procs = {p} /\ pc[p] = "save" => KeepsRecent(draft[p])

\* An error is not kept where the snapshot has windows of the account recent enough.
LEMMA NoErrorKept ==
    ASSUME IInv, NEW e \in Entry, NEW o \in cache.entries, o.id = e.id,
           o.kind = "windows", now - o.born <= Grace
    PROVE  KeepStale(e).kind # "error"
  <1> DEFINE old == {c \in LastWindows(e) : now - StaleFrom(c, cache) <= Grace}
  <1>1. o.born = StaleFrom(o, cache)
    BY DEF IInv, CacheOK, HonestIn, StaleFrom
  <1>2. o \in old
    BY <1>1 DEF LastWindows
  <1>3. CASE e.kind # "error"
    BY <1>3 DEF KeepStale
  <1>4. CASE e.kind = "error"
    <2> DEFINE c == CHOOSE c \in old : TRUE
    <2>1. c \in old
      BY <1>2
    <2>2. KeepStale(e) = [c EXCEPT !.stale = StaleFrom(c, cache)]
      BY <1>2, <1>4 DEF KeepStale
    <2>3. c \in Entry /\ c.kind = "windows"
      BY <2>1 DEF LastWindows, IInv, TypeOK, Status, NoStatus
    <2> HIDE DEF c
    <2> QED
      BY <2>2, <2>3 DEF Entry
  <1> QED
    BY <1>3, <1>4

\* A process that is alone keeps the windows recent enough, step by step.
LEMMA SoleDraftHolds == IInv /\ SoleDraft /\ [Next]_allVars => SoleDraft'
  <1> SUFFICES ASSUME IInv, SoleDraft, [Next]_allVars,
                      NEW p \in Procs, env.procs = {p}, pc'[p] = "save", env' = env
               PROVE  KeepsRecent(draft[p])'
    BY DEF SoleDraft, Next, allVars
  <1>1. CASE Keep(p)
    <2>1. /\ cache' = cache
          /\ draft'[p].at = now
          /\ draft'[p].entries = {Stamp(KeepStale(e)) : e \in draft[p].entries}
      BY <1>1 DEF Keep, SetDraft, IInv, TypeOK
    <2>2. ASSUME NEW e \in draft[p].entries
          PROVE  e \in Entry /\ KeepStale(e) \in Entry /\ KeepStale(e).id = e.id
      BY KeptEntry DEF IInv, TypeOK
    <2>3. ASSUME NEW e \in Entry
          PROVE  Stamp(e).kind = e.kind /\ Stamp(e).id = e.id
      BY DEF Stamp, Entry
    <2>4. ASSUME NEW o \in cache.entries, o.kind = "windows", now - o.born <= Grace,
                 NEW e \in draft[p].entries, Stamp(KeepStale(e)).id = o.id
          PROVE  Stamp(KeepStale(e)).kind # "error"
      BY <2>2, <2>3, <2>4, NoErrorKept
    <2> QED
      BY <2>1, <2>4 DEF KeepsRecent
  <1>2. CASE ~Keep(p)
    <2>1. pc[p] = "save" /\ cache' = cache /\ draft'[p] = draft[p]
      BY <1>2 DEF Next, Step, Hit, Miss, Arrive, CloseBudget, Keep, Save, Show, Crash, Tick,
                  Goto, SetDraft, allVars, vars, IInv, TypeOK
    <2> QED
      BY <2>1 DEF SoleDraft, KeepsRecent
  <1> QED
    BY <1>1, <1>2

\* The draft of a process that is alone, from the first state on.
LEMMA SoleInvariance == Spec => []SoleDraft
  <1>1. Init => SoleDraft
    BY DEF Init, SoleDraft
  <1> QED
    BY <1>1, SoleDraftHolds, Invariance, PTL DEF Spec

-----------------------------------------------------------------------------
(* Theorems.                                                               *)

\* keep_stale_data: through any chain of failed and timed-out runs of any processes, the
\* age that kept windows claim is that of the run that fetched them.
THEOREM AgesAreHonest == Spec => []HonestAge
  <1>1. IInv => HonestAge
    BY DEF IInv, CacheOK, DraftOK, HonestIn, HonestAge, Snapshots
  <1> QED
    BY <1>1, Invariance, PTL

\* collect_all: no account is shown twice, although the entries reused, collected and
\* degraded come from two looks at a cache that others replace.
THEOREM AccountsShownOnce == Spec => []EachAccountOnce
  <1>1. IInv => EachAccountOnce
    BY DEF IInv, CacheOK, DraftOK, OneEach, EachAccountOnce, Snapshots
  <1> QED
    BY <1>1, Invariance, PTL

\* collect_all: an enabled family that did not answer in time has an entry, its last data
\* or an error.
THEOREM TimeoutsAreShown == Spec => NoSilentTimeout
  <1> DEFINE Shown ==
        \A p \in Procs : pc[p] = "collect" /\ pc'[p] = "keep" =>
           \A f \in env.enabled \ Arrived(p) : \E e \in draft'[p].entries : family[e.id] = f
  <1>1. IInv /\ [Next]_allVars => [Shown]_vars
    <2> SUFFICES ASSUME IInv, [Next]_allVars, NEW p \in Procs,
                        pc[p] = "collect", pc'[p] = "keep",
                        NEW f \in env.enabled \ Arrived(p)
                 PROVE  \E e \in draft'[p].entries : family[e.id] = f
      OBVIOUS
    <2>1. CloseBudget(p)
      BY DEF Next, Step, Hit, Miss, Arrive, CloseBudget, Keep, Save, Show, Crash, Tick,
             Goto, allVars, vars, IInv, TypeOK
    <2>2. f \in Families /\ family[primary[f]] = f
      BY RefreshAssumption DEF IInv
    <2>3. draft'[p].entries = Collected(p) \cup Reused(p) \cup TimeoutErrors(p)
      BY <2>1, <2>2 DEF CloseBudget, SetDraft, IInv, TypeOK
    <2>4. CASE \E e \in Reused(p) : family[e.id] = f
      BY <2>3, <2>4
    <2>5. CASE \A e \in Reused(p) : family[e.id] # f
      <3> DEFINE e == [id |-> primary[f], kind |-> "error", stale |-> Never, born |-> Never]
      <3>1. e \in TimeoutErrors(p)
        BY <2>5 DEF TimeoutErrors
      <3> QED
        BY <2>2, <2>3, <3>1
    <2> QED
      BY <2>4, <2>5
  <1> QED
    BY <1>1, Invariance, PTL DEF Spec, NoSilentTimeout

\* cache::load: windows that a hit shows with no stale mark were fetched less than a TTL
\* ago, by whichever process, also when the clock was set back since.
THEOREM HitsAreFresh == Spec => FreshMeansFresh
  <1> DEFINE Fresh ==
        \A p \in Procs : pc[p] = "idle" /\ pc'[p] = "show" =>
           \A e \in draft'[p].entries :
             e.kind = "windows" /\ e.stale = Never =>
                 now - e.born >= 0 /\ now - e.born < env.ttl
  <1>1. IInv /\ [Next]_allVars => [Fresh]_vars
    <2> SUFFICES ASSUME IInv, [Next]_allVars, NEW p \in Procs,
                        pc[p] = "idle", pc'[p] = "show",
                        NEW e \in draft'[p].entries, e.kind = "windows", e.stale = Never
                 PROVE  now - e.born >= 0 /\ now - e.born < env.ttl
      OBVIOUS
    <2>1. Hit(p)
      BY DEF Next, Step, Hit, Miss, Arrive, CloseBudget, Keep, Save, Show, Crash, Tick,
             Goto, allVars, vars, IInv, TypeOK
    <2>2. e \in cache.entries
      BY <2>1 DEF Hit, SetDraft, IInv, TypeOK
    <2>3. e.born = cache.at
      BY <2>2 DEF IInv, CacheOK, HonestIn
    <2> QED
      BY <2>1, <2>3 DEF Hit, Loadable
  <1> QED
    BY <1>1, Invariance, PTL DEF Spec, FreshMeansFresh

\* keep_stale_data: where one process refreshes, no save turns an account whose windows
\* are within the grace period into an error.
THEOREM RecentDataIsKept == Spec => KeepsRecentData
  <1> DEFINE Kept ==
        \A e \in cache.entries :
           /\ \E p \in Procs : env.procs = {p}
           /\ e.kind = "windows" /\ cache'.at - e.born <= Grace
           => \A d \in cache'.entries : d.id = e.id => d.kind # "error"
  <1>1. IInv /\ SoleDraft /\ [Next]_allVars => [Kept]_vars
    <2> SUFFICES ASSUME IInv, SoleDraft, [Next]_allVars, NEW p \in Procs, env.procs = {p},
                        NEW e \in cache.entries, e.kind = "windows",
                        cache'.at - e.born <= Grace,
                        NEW d \in cache'.entries, d.id = e.id
                 PROVE  d.kind # "error"
      OBVIOUS
    <2>1. CASE cache' = cache
      BY <2>1 DEF IInv, CacheOK, OneEach
    <2>2. CASE Save(p) /\ cache' = draft[p]
      BY <2>2 DEF Save, SoleDraft, KeepsRecent
    <2>3. cache' = cache \/ (Save(p) /\ cache' = draft[p])
      BY DEF Next, Step, Hit, Miss, Arrive, CloseBudget, Keep, Save, Show, Crash, Tick,
             allVars, vars
    <2> QED
      BY <2>1, <2>2, <2>3
  <1> QED
    BY <1>1, Invariance, SoleInvariance, PTL DEF Spec, KeepsRecentData
=============================================================================
