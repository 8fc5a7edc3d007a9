--------------------------- MODULE LockedPublish ---------------------------
(***************************************************************************)
(* The replacement protocol of one private state file: cache.rs (temporary *)
(* sibling, fsync, verify, rename, directory fsync) under the advisory     *)
(* lock of file_lock.rs.  Writers are processes: the bar's snapshot, the   *)
(* TUI, the CLI.  status.json goes through the lock; the token indexes,    *)
(* notify-state.json, last-error.json and config.toml use the same         *)
(* protocol without it.  `locking' tells the two kinds of document apart.  *)
(***************************************************************************)
EXTENDS Integers, FiniteSets

CONSTANTS
    Writers,        \* processes that save the document
    Inodes,         \* inodes the lock path may name, one after the other
    NoInode,        \* nothing at the lock path, or no lock file open
    LockMayVanish,  \* someone outside deletes the lock file
    MaxPolls,       \* flock attempts that fit in the timeout, after the first
    MaxSaves        \* bound on generations plus saves in flight

ASSUME PublishAssumption ==
    /\ IsFiniteSet(Writers)
    /\ NoInode \notin Inodes
    /\ LockMayVanish \in BOOLEAN
    /\ MaxPolls \in Nat /\ MaxSaves \in Nat

VARIABLES
    locking,     \* saves of this document go through atomic_save_locked; never changes
    pc,          \* where each save stands
    mode,        \* LockMode of the save in progress
    polls,       \* flock attempts left before the deadline
    fd,          \* lock inode each process has open
    held,        \* processes that own the flock of their open inode
    lockInode,   \* inode the lock path names
    temp,        \* each process's temporary file
    target,      \* the document: generation and state of its bytes
    disk,        \* documents a power cut may leave at the path
    gen,         \* generation the save in progress has published, or 0
    outcome,     \* what the save in progress will return
    acked        \* newest generation reported as saved

vars == <<pc, mode, polls, fd, held, lockInode, temp, target, disk, gen,
          outcome, acked>>
allVars == <<locking, vars>>
lockVars == <<fd, held, lockInode>>
fileVars == <<temp, target, disk>>

PCs == {"idle", "locking", "create", "write", "sync", "verify", "rename",
        "settle", "cleanup", "release"}
Outcomes == {"none", "ok", "busy", "timeout", "lost", "failed"}
\* Bytes of a file: some missing, all there but only in memory, all on disk.
Bytes == {"torn", "whole", "synced"}
File == [gen : Nat, bytes : Bytes]

TypeOK ==
    /\ locking \in BOOLEAN
    /\ pc \in [Writers -> PCs]
    /\ mode \in [Writers -> {"Blocking", "NonBlocking"}]
    /\ polls \in [Writers -> 0 .. MaxPolls]
    /\ fd \in [Writers -> Inodes \cup {NoInode}]
    /\ held \subseteq Writers
    /\ lockInode \in Inodes \cup {NoInode}
    /\ temp \in [Writers -> Bytes \cup {"absent"}]
    /\ target \in File
    /\ disk \subseteq File
    /\ gen \in [Writers -> Nat]
    /\ outcome \in [Writers -> Outcomes]
    /\ acked \in Nat

Init ==
    /\ locking \in BOOLEAN
    /\ pc = [w \in Writers |-> "idle"]
    /\ mode = [w \in Writers |-> "Blocking"]
    /\ polls = [w \in Writers |-> 0]
    /\ fd = [w \in Writers |-> NoInode]
    /\ held = {}
    /\ lockInode = NoInode
    /\ temp = [w \in Writers |-> "absent"]
    /\ target = [gen |-> 0, bytes |-> "synced"]
    /\ disk = {target}
    /\ gen = [w \in Writers |-> 0]
    /\ outcome = [w \in Writers |-> "none"]
    /\ acked = 0

Goto(w, l) == pc' = [pc EXCEPT ![w] = l]
Active == {w \in Writers : pc[w] # "idle"}
BelowBound == target.gen + Cardinality(Active) < MaxSaves

-----------------------------------------------------------------------------
(* The lock.                                                               *)

\* open(O_CREAT) takes the inode at the lock path, or puts a fresh one there;
\* dev and ino are read from the open file.  A save with no lock starts at once.
OpenLock(w, m) ==
    /\ locking
    /\ pc[w] = "idle" /\ BelowBound
    /\ \E i \in Inodes :
         /\ IF lockInode = NoInode THEN i \notin {fd[v] : v \in Writers}
                                   ELSE i = lockInode
         /\ lockInode' = i
         /\ fd' = [fd EXCEPT ![w] = i]
    /\ mode' = [mode EXCEPT ![w] = m]
    /\ polls' = [polls EXCEPT ![w] = MaxPolls]
    /\ Goto(w, "locking")
    /\ UNCHANGED <<held, temp, target, disk, gen, outcome, acked>>

StartPlain(w) ==
    /\ ~locking
    /\ pc[w] = "idle" /\ BelowBound
    /\ Goto(w, "create")
    /\ UNCHANGED <<mode, polls, lockVars, fileVars, gen, outcome, acked>>

\* flock belongs to the inode, not to the path.
Contended(w) == \E v \in held : v # w /\ fd[v] = fd[w]

\* Mutant: flock taken shared, so it excludes no one.
TakeLockShared(w) ==
    /\ pc[w] = "locking"
    /\ held' = held \cup {w}
    /\ Goto(w, "create")
    /\ UNCHANGED <<mode, polls, fd, lockInode, fileVars, gen, outcome, acked>>

TakeLock(w) ==
    /\ pc[w] = "locking" /\ ~Contended(w)
    /\ held' = held \cup {w}
    /\ Goto(w, "create")
    /\ UNCHANGED <<mode, polls, fd, lockInode, fileVars, gen, outcome, acked>>

GiveUp(w, o) ==
    /\ outcome' = [outcome EXCEPT ![w] = o]
    /\ Goto(w, "release")
    /\ UNCHANGED <<mode, polls, lockVars, fileVars, gen, acked>>

LockBusy(w) ==
    /\ pc[w] = "locking" /\ Contended(w)
    /\ mode[w] = "NonBlocking"
    /\ GiveUp(w, "busy")

LockTimeout(w) ==
    /\ pc[w] = "locking" /\ Contended(w)
    /\ mode[w] = "Blocking" /\ polls[w] = 0
    /\ GiveUp(w, "timeout")

\* Mutants: the deadline is tested after the sleep, or not at all.
PollPastDeadline(w) ==
    /\ pc[w] = "locking" /\ Contended(w)
    /\ mode[w] = "Blocking"
    /\ polls' = [polls EXCEPT ![w] = @ - 1]
    /\ UNCHANGED <<pc, mode, lockVars, fileVars, gen, outcome, acked>>
PollForever(w) ==
    /\ pc[w] = "locking" /\ Contended(w)
    /\ mode[w] = "Blocking" /\ polls[w] > 0
    /\ UNCHANGED vars

\* flock fails for another reason than contention.
LockFails(w) ==
    /\ pc[w] = "locking"
    /\ GiveUp(w, "failed")

\* Sleep 10 ms and try again; a slow scheduler may use up several polls' time.
PollLock(w) ==
    /\ pc[w] = "locking" /\ Contended(w)
    /\ mode[w] = "Blocking" /\ polls[w] > 0
    /\ \E n \in 0 .. polls[w] - 1 : polls' = [polls EXCEPT ![w] = n]
    /\ UNCHANGED <<pc, mode, lockVars, fileVars, gen, outcome, acked>>

-----------------------------------------------------------------------------
(* The replacement.                                                        *)

SetTemp(w, bytes) == temp' = [temp EXCEPT ![w] = bytes]

CreateTemp(w) ==
    /\ pc[w] = "create"
    /\ SetTemp(w, "torn")
    /\ Goto(w, "write")
    /\ UNCHANGED <<mode, polls, lockVars, target, disk, gen, outcome, acked>>

WriteTemp(w) ==
    /\ pc[w] = "write"
    /\ SetTemp(w, "whole")
    /\ Goto(w, "sync")
    /\ UNCHANGED <<mode, polls, lockVars, target, disk, gen, outcome, acked>>

\* Mutant: no sync_all before the rename.
SkipSyncTemp(w) ==
    /\ pc[w] = "sync"
    /\ Goto(w, "verify")
    /\ UNCHANGED <<mode, polls, lockVars, fileVars, gen, outcome, acked>>

SyncTemp(w) ==
    /\ pc[w] = "sync"
    /\ SetTemp(w, "synced")
    /\ Goto(w, "verify")
    /\ UNCHANGED <<mode, polls, lockVars, target, disk, gen, outcome, acked>>

\* Mutant: the lock's identity is not compared.
VerifyNothing(w) ==
    /\ pc[w] = "verify"
    /\ Goto(w, "rename")
    /\ UNCHANGED <<mode, polls, lockVars, fileVars, gen, outcome, acked>>

\* before_commit: the lock path must still name the inode this process locked.
Verify(w) ==
    /\ pc[w] = "verify"
    /\ \/ /\ ~locking \/ fd[w] = lockInode
          /\ Goto(w, "rename")
          /\ UNCHANGED outcome
       \/ /\ locking /\ fd[w] # lockInode
          /\ Goto(w, "cleanup")
          /\ outcome' = [outcome EXCEPT ![w] = "lost"]
    /\ UNCHANGED <<mode, polls, lockVars, fileVars, gen, acked>>

\* rename is atomic for readers; the directory entry reaches the disk later.
Rename(w) ==
    /\ pc[w] = "rename"
    /\ target' = [gen |-> target.gen + 1, bytes |-> temp[w]]
    /\ disk' = disk \cup {target'}
    /\ SetTemp(w, "absent")
    /\ gen' = [gen EXCEPT ![w] = target'.gen]
    /\ Goto(w, "settle")
    /\ UNCHANGED <<mode, polls, lockVars, outcome, acked>>

\* Mutant: success is reported without the fsync of the directory.
SettleWithoutDirSync(w) ==
    /\ pc[w] = "settle"
    /\ outcome' = [outcome EXCEPT ![w] = "ok"]
    /\ Goto(w, "release")
    /\ UNCHANGED <<mode, polls, lockVars, fileVars, gen, acked>>

\* chmod of the published file, then fsync of its directory.
SettleTarget(w) ==
    /\ pc[w] = "settle"
    /\ disk' = {target}
    /\ outcome' = [outcome EXCEPT ![w] = "ok"]
    /\ Goto(w, "release")
    /\ UNCHANGED <<mode, polls, lockVars, temp, target, gen, acked>>

\* Any system call of the closure may fail: `?` leaves it with an error.
StepFails(w) ==
    /\ pc[w] \in {"create", "write", "sync", "rename", "settle"}
    /\ outcome' = [outcome EXCEPT ![w] = "failed"]
    /\ Goto(w, "cleanup")
    /\ UNCHANGED <<mode, polls, lockVars, fileVars, gen, acked>>

RemoveTemp(w) ==
    /\ pc[w] = "cleanup"
    /\ SetTemp(w, "absent")
    /\ Goto(w, "release")
    /\ UNCHANGED <<mode, polls, lockVars, target, disk, gen, outcome, acked>>

\* The guard drops (unlock, close) and the save returns its result.
Return(w) ==
    /\ pc[w] = "release"
    /\ held' = held \ {w}
    /\ fd' = [fd EXCEPT ![w] = NoInode]
    /\ acked' = IF outcome[w] = "ok" /\ gen[w] > acked THEN gen[w] ELSE acked
    /\ gen' = [gen EXCEPT ![w] = 0]
    /\ outcome' = [outcome EXCEPT ![w] = "none"]
    /\ Goto(w, "idle")
    /\ UNCHANGED <<mode, polls, lockInode, fileVars>>

-----------------------------------------------------------------------------
(* What happens around a save.                                             *)

\* The process dies: the kernel closes its files, which frees the flock.  Its
\* temporary file stays behind under a name no one uses again.
Crash(w) ==
    /\ pc[w] # "idle"
    /\ held' = held \ {w}
    /\ fd' = [fd EXCEPT ![w] = NoInode]
    /\ SetTemp(w, "absent")
    /\ gen' = [gen EXCEPT ![w] = 0]
    /\ outcome' = [outcome EXCEPT ![w] = "none"]
    /\ Goto(w, "idle")
    /\ UNCHANGED <<mode, polls, lockInode, target, disk, acked>>

\* The machine loses power: no process survives, the path names one of the
\* files the disk may hold, and bytes that were never synced may be missing.
PowerCut ==
    /\ \E f \in disk :
         target' = [f EXCEPT !.bytes = IF @ = "synced" THEN @ ELSE "torn"]
    /\ disk' = {target'}
    /\ pc' = [w \in Writers |-> "idle"]
    /\ fd' = [w \in Writers |-> NoInode]
    /\ held' = {}
    /\ lockInode' \in {lockInode, NoInode}
    /\ temp' = [w \in Writers |-> "absent"]
    /\ gen' = [w \in Writers |-> 0]
    /\ outcome' = [w \in Writers |-> "none"]
    /\ UNCHANGED <<mode, polls, acked>>

\* Nothing in lazysubs-eye deletes a lock file; `verify` exists for those who do.
LockVanishes ==
    /\ LockMayVanish /\ locking
    /\ lockInode # NoInode
    /\ lockInode' = NoInode
    /\ UNCHANGED <<pc, mode, polls, fd, held, fileVars, gen, outcome, acked>>

-----------------------------------------------------------------------------

\* The steps a live process takes on its own once a save has begun, and those
\* in which the system lets it down.
Progress(w) ==
    \/ TakeLock(w) \/ LockBusy(w) \/ LockTimeout(w) \/ PollLock(w)
    \/ CreateTemp(w) \/ WriteTemp(w) \/ SyncTemp(w) \/ Verify(w)
    \/ Rename(w) \/ SettleTarget(w) \/ RemoveTemp(w) \/ Return(w)
Step(w) == Progress(w) \/ LockFails(w) \/ StepFails(w)

Begin(w) == StartPlain(w) \/ \E m \in {"Blocking", "NonBlocking"} : OpenLock(w, m)

Next ==
    /\ UNCHANGED locking
    /\ \/ \E w \in Writers : Begin(w) \/ Step(w) \/ Crash(w)
       \/ PowerCut
       \/ LockVanishes

Spec == Init /\ [][Next]_allVars

\* A process that is not killed keeps running the call it is in; no failure is
\* counted on to end it.
FairSpec == Spec /\ \A w \in Writers : WF_vars(Progress(w))

-----------------------------------------------------------------------------
(* Properties.                                                             *)

\* Readers, which take no lock, always load a whole document ("readers see
\* either the old complete document or the new complete document",
\* atomic_save), and so do readers after a power cut: every document the disk
\* may hold has all its bytes on disk.
WholeDocuments ==
    /\ target.bytes = "synced"
    /\ \A f \in disk : f.bytes = "synced"

\* One process at most is between taking a given lock file and returning
\* (file_lock.rs), and one overall while no one deletes lock files: two
\* snapshots are never prepared at once behind the same lock.
Publishing(w) ==
    locking /\ pc[w] \in {"create", "write", "sync", "verify", "rename", "settle",
                          "cleanup"}
OneLockedPublisher ==
    \A v, w \in Writers :
        Publishing(v) /\ Publishing(w) /\ (LockMayVanish => fd[v] = fd[w]) => v = w

\* `verify` lets a writer through only if no other process holds the lock that
\* the path names at that moment: whoever locked a replacement of the lock file
\* first makes the old owner abort with LockLost.
VerifiedSoleOwner ==
    [][\A w \in Writers :
         locking /\ pc[w] = "verify" /\ pc'[w] = "rename" =>
             \A v \in held : fd[v] = lockInode => v = w]_allVars

\* The protocol keeps the promise of a durable document: publication is atomic
\* for readers, a power cut leaves a whole generation, and a save that returned
\* Ok is never undone, whatever other writers do between its rename and its
\* directory fsync.
Torn == -1
Whole(f) == IF f.bytes = "torn" THEN Torn ELSE f.gen
Survives(f) == IF f.bytes = "synced" THEN f.gen ELSE Torn
Document == INSTANCE DurableDocument WITH
    visible <- Whole(target),
    recoverable <- {Survives(f) : f \in disk},
    acked <- acked
DocumentSpec == Document!Spec

\* Every save returns: contention ends in a lock, a refusal or a timeout, and a
\* crashed holder blocks no one, since the kernel drops its flock.
EverySaveReturns ==
    \A w \in Writers : pc[w] # "idle" ~> pc[w] = "idle"
=============================================================================
