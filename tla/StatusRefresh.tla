--------------------------- MODULE StatusRefresh ---------------------------
(***************************************************************************)
(* One refresh of the subscription status: the cached snapshot is shown    *)
(* while it is younger than the TTL; otherwise the provider families are   *)
(* collected at once under one budget, what is missing or failed is filled *)
(* from the cached snapshot, and the result replaces it (main.rs,          *)
(* tui.rs refresh, providers/mod.rs collect_all, cache.rs load and save).  *)
(* Several processes do this on the same status.json.                      *)
(***************************************************************************)
EXTENDS Integers

CONSTANTS
    Procs,       \* processes that refresh: the bar, the CLI, the TUI
    Families,    \* provider families, each collected by one thread
    Accounts,    \* provider ids
    family,      \* family of each account
    primary,     \* account that carries the plain id of its family
    Grace,       \* STALE_GRACE_SECS
    Environments \* what the processes run in: see env

AnswerKinds == {"windows", "empty", "error", "absent"}

ASSUME RefreshAssumption ==
    /\ family \in [Accounts -> Families]
    /\ primary \in [Families -> Accounts]
    /\ \A f \in Families : family[primary[f]] = f
    /\ Grace \in Nat
    /\ \A e \in Environments : \A f \in e.enabled : primary[f] \in e.accounts
    /\ Environments \subseteq [procs : SUBSET Procs, accounts : SUBSET Accounts,
                         enabled : SUBSET Families, answers : SUBSET AnswerKinds,
                         jumps : BOOLEAN, ttl : Nat, maxTime : Nat]

VARIABLES
    env,     \* fixed from the start.  procs; accounts configured; families enabled;
             \* answers: what a request for one account may come to; jumps: the clock
             \* may be set back; ttl: age at which a snapshot is no longer shown as it
             \* is; maxTime: bound on the clock
    now,     \* wall clock
    cache,   \* status.json
    pc,      \* where each process stands
    batch,   \* what each collector thread of a process has sent
    draft    \* the snapshot a process is building or showing

vars == <<now, cache, pc, batch, draft>>
allVars == <<env, vars>>

Time == 0 .. env.maxTime
Never == -1

\* One provider: usage windows, a success without windows, or an error.
\* `stale` is stale_since.  `born` is not in the code: it is the fetched_at of
\* the run that got the windows from the provider, Never until that is known.
Entry == [id : Accounts, kind : {"windows", "empty", "error"},
          stale : Time \cup {Never}, born : Time \cup {Never}]
Status == [at : Time, entries : SUBSET Entry]
NoStatus == [at |-> Never, entries |-> {}]
Waiting == <<>>
NoBatches == [f \in Families |-> Waiting]
AccountsOf(f) == {a \in env.accounts : family[a] = f}

Init ==
    /\ env \in Environments
    /\ now = 0
    /\ cache = NoStatus
    /\ pc = [p \in Procs |-> "idle"]
    /\ batch = [p \in Procs |-> NoBatches]
    /\ draft = [p \in Procs |-> NoStatus]

Goto(p, l) == pc' = [pc EXCEPT ![p] = l]
SetDraft(p, s) == draft' = [draft EXCEPT ![p] = s]

-----------------------------------------------------------------------------
(* The cached snapshot.                                                    *)

\* Mutant: the sign of the age is not looked at.
LoadableIgnoringSign == cache # NoStatus /\ now - cache.at < env.ttl
\* cache::load: a snapshot from the future is as useless as an old one.
Loadable == cache # NoStatus /\ now - cache.at >= 0 /\ now - cache.at < env.ttl

Hit(p) ==
    /\ pc[p] = "idle" /\ Loadable
    /\ SetDraft(p, cache)
    /\ Goto(p, "show")
    /\ UNCHANGED <<now, cache, batch>>

\* A miss, or a refresh forced by --no-cache or the TUI's `r`.
Miss(p) ==
    /\ pc[p] = "idle"
    /\ Goto(p, "collect")
    /\ UNCHANGED <<now, cache, batch, draft>>

-----------------------------------------------------------------------------
(* The collectors.                                                         *)

\* The thread of family f sends its batch, of one answer per account; a family
\* that is switched off sends an empty one.
Arrive(p, f) ==
    /\ pc[p] = "collect" /\ batch[p][f] = Waiting
    /\ \E answer \in [AccountsOf(f) -> IF f \in env.enabled THEN env.answers ELSE {"absent"}] :
         batch' = [batch EXCEPT ![p][f] = answer]
    /\ UNCHANGED <<now, cache, pc, draft>>

Arrived(p) == {f \in Families : batch[p][f] # Waiting}

\* Entries of the batches that arrived; an absent account yields none.
Collected(p) ==
    {[id |-> a, kind |-> batch[p][family[a]][a], stale |-> Never, born |-> Never] :
        a \in {b \in env.accounts : /\ family[b] \in Arrived(p)
                                /\ batch[p][family[b]][b] # "absent"}}

StaleFrom(e, s) == IF e.stale = Never THEN s.at ELSE e.stale

\* Mutant: the snapshot is reused for the families that answered, too.
ReusedForAll(p) ==
    {[e EXCEPT !.stale = StaleFrom(e, cache)] : e \in cache.entries}
\* What the snapshot on disk knew of the families that did not answer in time,
\* whatever its age.
Reused(p) ==
    {[e EXCEPT !.stale = StaleFrom(e, cache)] :
        e \in {d \in cache.entries : family[d.id] \notin Arrived(p)}}

\* Mutant: a family that did not answer and was never seen is left out.
NoTimeoutErrors(p) == {}

\* An explicit error for each enabled family with nothing to show.
TimeoutErrors(p) ==
    {[id |-> primary[f], kind |-> "error", stale |-> Never, born |-> Never] :
        f \in {g \in env.enabled \ Arrived(p) :
                 \A e \in Reused(p) : family[e.id] # g}}

\* Mutant: the receiver waits for every collector.
CloseWhenAllArrived(p) ==
    /\ pc[p] = "collect" /\ Arrived(p) = Families
    /\ SetDraft(p, [at |-> Never, entries |-> Collected(p)])
    /\ batch' = [batch EXCEPT ![p] = NoBatches]
    /\ Goto(p, "keep")
    /\ UNCHANGED <<now, cache>>

\* The budget ends with the last batch or with its 8 seconds; what a collector
\* sends later is dropped.
CloseBudget(p) ==
    /\ pc[p] = "collect"
    /\ batch' = [batch EXCEPT ![p] = NoBatches]
    /\ SetDraft(p, [at |-> Never,
                    entries |-> Collected(p) \cup
                        IF Arrived(p) = Families THEN {}
                        ELSE Reused(p) \cup TimeoutErrors(p)])
    /\ Goto(p, "keep")
    /\ UNCHANGED <<now, cache>>

-----------------------------------------------------------------------------
(* Degrading and saving.                                                   *)

\* Windows of the same provider in the snapshot: at most one entry.
LastWindows(e) == {o \in cache.entries : o.id = e.id /\ o.kind = "windows"}

\* Mutants: the age restarts at each save; windows that are stale already are not
\* kept again.
KeepAgeFromLastSave(e) ==
    LET old == {o \in LastWindows(e) : now - cache.at <= Grace}
    IN IF e.kind # "error" \/ old = {} THEN e
       ELSE [(CHOOSE o \in old : TRUE) EXCEPT !.stale = cache.at]
KeepOnce(e) ==
    LET old == {o \in LastWindows(e) : o.stale = Never /\ now - cache.at <= Grace}
    IN IF e.kind # "error" \/ old = {} THEN e
       ELSE [(CHOOSE o \in old : TRUE) EXCEPT !.stale = cache.at]

\* keep_stale_data, one provider: an error gives way to windows recent enough.
KeepStale(e) ==
    LET old == {o \in LastWindows(e) : now - StaleFrom(o, cache) <= Grace}
    IN IF e.kind # "error" \/ old = {} THEN e
       ELSE LET o == CHOOSE o \in old : TRUE IN [o EXCEPT !.stale = StaleFrom(o, cache)]

\* fetched_at is the time at the end of the run.
Stamp(e) ==
    IF e.kind = "windows" /\ e.born = Never THEN [e EXCEPT !.born = now] ELSE e

\* A second look at the cache, which another process may have replaced.
Keep(p) ==
    /\ pc[p] = "keep"
    /\ SetDraft(p, [at |-> now,
                    entries |-> {Stamp(KeepStale(e)) : e \in draft[p].entries}])
    /\ Goto(p, "save")
    /\ UNCHANGED <<now, cache, batch>>

\* cache::save replaces the snapshot, whoever wrote it; its failures are ignored.
Save(p) ==
    /\ pc[p] = "save"
    /\ cache' \in {cache, draft[p]}
    /\ Goto(p, "show")
    /\ UNCHANGED <<now, batch, draft>>

Show(p) ==
    /\ pc[p] = "show"
    /\ SetDraft(p, NoStatus)
    /\ Goto(p, "idle")
    /\ UNCHANGED <<now, cache, batch>>

Crash(p) ==
    /\ pc[p] # "idle"
    /\ SetDraft(p, NoStatus)
    /\ batch' = [batch EXCEPT ![p] = NoBatches]
    /\ Goto(p, "idle")
    /\ UNCHANGED <<now, cache>>

Tick ==
    /\ \/ now < env.maxTime /\ now' = now + 1
       \/ env.jumps /\ now > 0 /\ now' = now - 1
    /\ UNCHANGED <<cache, pc, batch, draft>>

-----------------------------------------------------------------------------

\* Steps a live process takes whatever the providers do.
Step(p) == CloseBudget(p) \/ Keep(p) \/ Save(p) \/ Show(p)

Next ==
    /\ \/ \E p \in env.procs :
            \/ Hit(p) \/ Miss(p) \/ Step(p) \/ Crash(p)
            \/ \E f \in Families : Arrive(p, f)
       \/ Tick
    /\ UNCHANGED env

Spec == Init /\ [][Next]_allVars

\* No fairness for the collectors: a request may hang for ever.
FairSpec == Spec /\ \A p \in Procs : WF_vars(Step(p))

-----------------------------------------------------------------------------
(* Properties.                                                             *)

TypeOK ==
    /\ now \in Time
    /\ cache = NoStatus \/ cache \in Status
    /\ pc \in [Procs -> {"idle", "collect", "keep", "save", "show"}]
    /\ \A p \in Procs, f \in Families :
         batch[p][f] \in {Waiting} \cup [AccountsOf(f) -> env.answers \cup {"absent"}]
    /\ draft \in [Procs -> [at : Time \cup {Never}, entries : SUBSET Entry]]

\* Snapshots that are shown or may be loaded by another process.
Snapshots == {cache} \cup {draft[p] : p \in {q \in Procs : pc[q] \in {"save", "show"}}}

\* keep_stale_data: "age begins at the original good fetch, not the last time
\* stale data were saved".  Through any chain of failed and timed-out runs of any
\* process, windows with no stale mark are this run's and a stale mark names the
\* run that fetched them.
HonestAge ==
    \A s \in Snapshots : \A e \in s.entries :
        e.kind = "windows" => e.born = IF e.stale = Never THEN s.at ELSE e.stale

\* collect_all: each account is shown once, whichever mix of batches, reused
\* entries and timeout errors the snapshot was put together from, and a run that
\* timed out leaves no enabled family of that run without an entry.
EachAccountOnce ==
    /\ TypeOK
    /\ \A s \in Snapshots : \A d, e \in s.entries : d.id = e.id => d = e
NoSilentTimeout ==
    [][\A p \in Procs : pc[p] = "collect" /\ pc'[p] = "keep" =>
         \A f \in env.enabled \ Arrived(p) :
             \E e \in draft'[p].entries : family[e.id] = f]_vars

\* cache::load: a hit shows windows with no stale mark only if they were fetched
\* less than a TTL ago, even if the clock was set back in between.
FreshMeansFresh ==
    [][\A p \in Procs : pc[p] = "idle" /\ pc'[p] = "show" =>
         \A e \in draft'[p].entries :
             e.kind = "windows" /\ e.stale = Never =>
                 now - e.born >= 0 /\ now - e.born < env.ttl]_vars

\* keep_stale_data: "Replace failed providers with prior successful data inside
\* the grace period" - saving a snapshot never turns a provider whose windows are
\* that recent into an error, as long as one process refreshes (README, divergences).
KeepsRecentData ==
    [][\A e \in cache.entries :
         /\ \E p \in Procs : env.procs = {p}
         /\ e.kind = "windows" /\ cache'.at - e.born <= Grace
         => \A d \in cache'.entries : d.id = e.id => d.kind # "error"]_vars

\* collect_until_budget: a refresh ends even if no provider ever answers.
RefreshCompletes ==
    \A p \in Procs : pc[p] = "collect" ~> pc[p] = "idle"
=============================================================================
