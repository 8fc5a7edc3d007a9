------------------------ MODULE LockedPublishProofs ------------------------
(***************************************************************************)
(* Proofs about LockedPublish, for any writers, inodes, timeouts and       *)
(* bounds, with and without the lock, whether or not lock files vanish.    *)
(***************************************************************************)
EXTENDS LockedPublish, TLAPS

(***************************************************************************)
(* The inductive invariant.  A file is renamed only when its bytes are on  *)
(* disk (TempReady); a writer that works on the document owns the flock of *)
(* its inode, and while lock files stay all active writers share one inode *)
(* (LockOwners); no generation older than an acknowledged one can come     *)
(* back, and a save about to return Ok has a directory fsync behind it     *)
(* (Generations).                                                          *)
(***************************************************************************)
TempReady ==
    \A w \in Writers : pc[w] \in {"verify", "rename"} => temp[w] = "synced"

LockOwners ==
    /\ \A w \in Writers : Publishing(w) => w \in held
    /\ \A w \in held : pc[w] \notin {"idle", "locking"}
    /\ \A v, w \in held : fd[v] = fd[w] => v = w
    /\ \A w \in Writers : locking /\ pc[w] # "idle" => fd[w] \in Inodes
    /\ ~LockMayVanish =>
         \A w \in Writers : locking /\ pc[w] # "idle" => fd[w] = lockInode

Generations ==
    /\ target \in disk
    /\ \A f \in disk : acked <= f.gen /\ f.gen <= target.gen
    /\ \A w \in Writers : gen[w] <= target.gen
    /\ \A w \in Writers : outcome[w] = "ok" =>
         /\ pc[w] = "release"
         /\ \A f \in disk : gen[w] <= f.gen

IInv == TypeOK /\ TempReady /\ WholeDocuments /\ LockOwners /\ Generations

-----------------------------------------------------------------------------

\* The initial state satisfies every part of the inductive invariant.
LEMMA InitIInv == Init => IInv
BY PublishAssumption
   DEF Init, IInv, TypeOK, TempReady, WholeDocuments, LockOwners, Generations,
       Publishing, PCs, Outcomes, Bytes, File

\* Every step keeps the types; a rename needs a file to publish.
LEMMA NextTypeOK == TypeOK /\ TempReady /\ [Next]_allVars => TypeOK'
<1> SUFFICES ASSUME TypeOK, TempReady, [Next]_allVars PROVE TypeOK'
  OBVIOUS
<1>0. locking' = locking
  BY DEF Next, allVars, vars
<1> USE <1>0, PublishAssumption DEF TypeOK, PCs, Outcomes, Bytes, File, Goto, SetTemp,
                              lockVars, fileVars
<1>1. ASSUME NEW w \in Writers, Begin(w) PROVE TypeOK'
  BY <1>1 DEF Begin, StartPlain, OpenLock
<1>2. ASSUME NEW w \in Writers, Step(w) PROVE TypeOK'
  <2>1. CASE TakeLock(w)
    BY <2>1 DEF TakeLock
  <2>2. CASE LockBusy(w) \/ (LockTimeout(w) \/ LockFails(w))
    BY <2>2 DEF LockBusy, LockTimeout, LockFails, GiveUp
  <2>3. CASE PollLock(w)
    BY <2>3 DEF PollLock
  <2>4. CASE CreateTemp(w) \/ WriteTemp(w) \/ SyncTemp(w)
    BY <2>4 DEF CreateTemp, WriteTemp, SyncTemp
  <2>5. CASE Verify(w)
    BY <2>5 DEF Verify
  <2>6. CASE Rename(w)
    <3>1. temp[w] = "synced"
      BY <2>6 DEF TempReady, Rename
    <3>2. target' \in File
      BY <2>6, <3>1 DEF Rename
    <3> QED BY <2>6, <3>2 DEF Rename
  <2>7. CASE SettleTarget(w) \/ StepFails(w) \/ RemoveTemp(w)
    BY <2>7 DEF SettleTarget, StepFails, RemoveTemp
  <2>8. CASE Return(w)
    BY <2>8 DEF Return
  <2> QED BY <1>2, <2>1, <2>2, <2>3, <2>4, <2>5, <2>6, <2>7, <2>8 DEF Step, Progress
<1>3. ASSUME NEW w \in Writers, Crash(w) PROVE TypeOK'
  BY <1>3 DEF Crash
<1>4. CASE PowerCut
  BY <1>4 DEF PowerCut
<1>5. CASE LockVanishes
  BY <1>5 DEF LockVanishes
<1>6. CASE UNCHANGED allVars
  BY <1>6 DEF allVars, vars
<1> QED BY <1>1, <1>2, <1>3, <1>4, <1>5, <1>6 DEF Next

\* Only a file with all its bytes on disk is renamed over the document.
LEMMA NextFiles ==
    TypeOK /\ TempReady /\ WholeDocuments /\ [Next]_allVars
        => TempReady' /\ WholeDocuments'
<1> SUFFICES ASSUME TypeOK, TempReady, WholeDocuments, [Next]_allVars
             PROVE  TempReady' /\ WholeDocuments'
  OBVIOUS
<1> USE DEF TypeOK, TempReady, WholeDocuments, Goto, SetTemp, lockVars, fileVars
<1>1. ASSUME NEW w \in Writers, Begin(w) PROVE TempReady' /\ WholeDocuments'
  BY <1>1 DEF Begin, StartPlain, OpenLock
<1>2. ASSUME NEW w \in Writers, Step(w) PROVE TempReady' /\ WholeDocuments'
  <2>1. CASE TakeLock(w) \/ LockBusy(w) \/ (LockTimeout(w) \/ LockFails(w)) \/ PollLock(w)
    BY <2>1 DEF TakeLock, LockBusy, LockTimeout, LockFails, PollLock, GiveUp
  <2>2. CASE CreateTemp(w) \/ WriteTemp(w) \/ SyncTemp(w)
    BY <2>2 DEF CreateTemp, WriteTemp, SyncTemp
  <2>3. CASE Verify(w)
    BY <2>3 DEF Verify
  <2>4. CASE Rename(w)
    BY <2>4 DEF Rename
  <2>5. CASE SettleTarget(w) \/ StepFails(w) \/ RemoveTemp(w) \/ Return(w)
    BY <2>5 DEF SettleTarget, StepFails, RemoveTemp, Return
  <2> QED BY <1>2, <2>1, <2>2, <2>3, <2>4, <2>5 DEF Step, Progress
<1>3. ASSUME NEW w \in Writers, Crash(w) PROVE TempReady' /\ WholeDocuments'
  BY <1>3 DEF Crash
<1>4. CASE PowerCut
  <2>1. PICK f \in disk :
          target' = [f EXCEPT !.bytes = IF @ = "synced" THEN @ ELSE "torn"]
    BY <1>4 DEF PowerCut
  <2>2. f \in File /\ f.bytes = "synced"
    OBVIOUS
  <2>3. target'.bytes = "synced"
    BY <2>1, <2>2 DEF File
  <2> QED BY <1>4, <2>3 DEF PowerCut
<1>5. CASE LockVanishes \/ UNCHANGED allVars
  BY <1>5 DEF LockVanishes, allVars, vars
<1> QED BY <1>1, <1>2, <1>3, <1>4, <1>5 DEF Next

\* The flock has one owner per inode, and without meddling one inode overall.
LEMMA NextLockOwners == TypeOK /\ LockOwners /\ [Next]_allVars => LockOwners'
<1> SUFFICES ASSUME TypeOK, LockOwners, [Next]_allVars PROVE LockOwners'
  OBVIOUS
<1>0. locking' = locking
  BY DEF Next, allVars, vars
<1> USE <1>0, PublishAssumption
    DEF TypeOK, LockOwners, Publishing, Goto, SetTemp, lockVars, fileVars
<1>1. ASSUME NEW w \in Writers, Begin(w) PROVE LockOwners'
  <2>1. CASE StartPlain(w)
    BY <2>1 DEF StartPlain
  <2>2. ASSUME NEW m \in {"Blocking", "NonBlocking"}, OpenLock(w, m)
        PROVE  LockOwners'
    <3>1. PICK i \in Inodes :
            /\ IF lockInode = NoInode THEN i \notin {fd[v] : v \in Writers}
                                      ELSE i = lockInode
            /\ lockInode' = i
            /\ fd' = [fd EXCEPT ![w] = i]
      BY <2>2 DEF OpenLock
    <3>2. /\ w \notin held
          /\ held' = held
          /\ pc[w] = "idle"
          /\ pc' = [pc EXCEPT ![w] = "locking"]
      BY <2>2 DEF OpenLock
    <3>3. ASSUME ~LockMayVanish, NEW v \in Writers, locking, pc'[v] # "idle"
          PROVE  fd'[v] = lockInode'
      BY <3>1, <3>2, <3>3
    <3> QED BY <3>1, <3>2, <3>3
  <2> QED BY <1>1, <2>1, <2>2 DEF Begin
<1>2. ASSUME NEW w \in Writers, Step(w) PROVE LockOwners'
  <2>1. CASE TakeLock(w)
    BY <2>1 DEF TakeLock, Contended
  <2>2. CASE LockBusy(w) \/ (LockTimeout(w) \/ LockFails(w)) \/ PollLock(w)
    BY <2>2 DEF LockBusy, LockTimeout, LockFails, PollLock, GiveUp
  <2>3. CASE CreateTemp(w) \/ WriteTemp(w) \/ SyncTemp(w)
    BY <2>3 DEF CreateTemp, WriteTemp, SyncTemp
  <2>4. CASE Verify(w)
    BY <2>4 DEF Verify
  <2>5. CASE Rename(w)
    BY <2>5 DEF Rename
  <2>6. CASE SettleTarget(w) \/ StepFails(w) \/ RemoveTemp(w)
    BY <2>6 DEF SettleTarget, StepFails, RemoveTemp
  <2>7. CASE Return(w)
    BY <2>7 DEF Return
  <2> QED BY <1>2, <2>1, <2>2, <2>3, <2>4, <2>5, <2>6, <2>7 DEF Step, Progress
<1>3. ASSUME NEW w \in Writers, Crash(w) PROVE LockOwners'
  BY <1>3 DEF Crash
<1>4. CASE PowerCut
  BY <1>4 DEF PowerCut
<1>5. CASE LockVanishes \/ UNCHANGED allVars
  BY <1>5 DEF LockVanishes, allVars, vars
<1> QED BY <1>1, <1>2, <1>3, <1>4, <1>5 DEF Next

\* No step brings back a generation older than an acknowledged one.
LEMMA NextGenerations == TypeOK /\ Generations /\ [Next]_allVars => Generations'
<1> SUFFICES ASSUME TypeOK, Generations, [Next]_allVars PROVE Generations'
  OBVIOUS
<1> USE DEF TypeOK, Generations, File, Goto, SetTemp, lockVars, fileVars
<1>1. ASSUME NEW w \in Writers, Begin(w) PROVE Generations'
  BY <1>1 DEF Begin, StartPlain, OpenLock
<1>2. ASSUME NEW w \in Writers, Step(w) PROVE Generations'
  <2>1. CASE TakeLock(w) \/ LockBusy(w) \/ (LockTimeout(w) \/ LockFails(w)) \/ PollLock(w)
    BY <2>1 DEF TakeLock, LockBusy, LockTimeout, LockFails, PollLock, GiveUp
  <2>2. CASE CreateTemp(w) \/ WriteTemp(w) \/ SyncTemp(w) \/ Verify(w)
    BY <2>2 DEF CreateTemp, WriteTemp, SyncTemp, Verify
  <2>3. CASE Rename(w)
    <3>1. target'.gen = target.gen + 1
      BY <2>3 DEF Rename
    <3> QED BY <2>3, <3>1 DEF Rename
  <2>4. CASE SettleTarget(w)
    BY <2>4 DEF SettleTarget
  <2>5. CASE StepFails(w) \/ RemoveTemp(w)
    BY <2>5 DEF StepFails, RemoveTemp
  <2>6. CASE Return(w)
    BY <2>6 DEF Return
  <2> QED BY <1>2, <2>1, <2>2, <2>3, <2>4, <2>5, <2>6 DEF Step, Progress
<1>3. ASSUME NEW w \in Writers, Crash(w) PROVE Generations'
  BY <1>3 DEF Crash
<1>4. CASE PowerCut
  <2>1. PICK f \in disk :
          target' = [f EXCEPT !.bytes = IF @ = "synced" THEN @ ELSE "torn"]
    BY <1>4 DEF PowerCut
  <2>2. target'.gen = f.gen
    BY <2>1
  <2> QED BY <1>4, <2>2 DEF PowerCut
<1>5. CASE LockVanishes \/ UNCHANGED allVars
  BY <1>5 DEF LockVanishes, allVars, vars
<1> QED BY <1>1, <1>2, <1>3, <1>4, <1>5 DEF Next

\* The inductive invariant holds throughout.
LEMMA Invariance == Spec => []IInv
<1>1. IInv /\ [Next]_allVars => IInv'
  BY NextTypeOK, NextFiles, NextLockOwners, NextGenerations DEF IInv
<1> QED BY InitIInv, <1>1, PTL DEF Spec

-----------------------------------------------------------------------------

\* The state keeps its types.
THEOREM TypeCorrect == Spec => []TypeOK
BY Invariance, PTL DEF IInv

\* Readers load a whole document, before and after a power cut.
THEOREM ReadersSeeWholeDocuments == Spec => []WholeDocuments
BY Invariance, PTL DEF IInv

\* Two saves that took the same lock file are never in their critical sections
\* together; while no one deletes lock files that means any two saves.
THEOREM LockExcludes == Spec => []OneLockedPublisher
<1>1. IInv => OneLockedPublisher
  <2> SUFFICES ASSUME IInv, NEW v \in Writers, NEW w \in Writers,
                      Publishing(v), Publishing(w), LockMayVanish => fd[v] = fd[w]
               PROVE  v = w
    BY DEF OneLockedPublisher
  <2>1. v \in held /\ w \in held
    BY DEF IInv, LockOwners
  <2>2. fd[v] = fd[w]
    BY DEF IInv, LockOwners, Publishing
  <2> QED BY <2>1, <2>2 DEF IInv, LockOwners
<1> QED BY Invariance, <1>1, PTL

\* `verify` admits a writer only while it is the sole owner of the lock file the
\* path names, even when lock files are replaced under the writers.
THEOREM VerifyAdmitsSoleOwner == Spec => VerifiedSoleOwner
<1>1. ASSUME IInv, [Next]_allVars, NEW w \in Writers, locking,
             pc[w] = "verify", pc'[w] = "rename", NEW v \in held,
             fd[v] = lockInode
      PROVE  v = w
  <2>1. w \in held
    BY <1>1 DEF IInv, LockOwners, Publishing
  <2>2. fd[w] = lockInode
    <3>1. CASE UNCHANGED allVars
      BY <3>1, <1>1 DEF allVars, vars
    <3>2. CASE \E u \in Writers : Begin(u)
      BY <3>2, <1>1 DEF Begin, StartPlain, OpenLock, Goto, IInv, TypeOK
    <3>3. CASE \E u \in Writers : Crash(u)
      BY <3>3, <1>1 DEF Crash, Goto, IInv, TypeOK
    <3>4. CASE PowerCut \/ LockVanishes
      BY <3>4, <1>1 DEF PowerCut, LockVanishes
    <3>5. CASE \E u \in Writers : Step(u)
      <4>1. PICK u \in Writers : Step(u)
        BY <3>5
      <4>2. CASE Verify(u)
        BY <4>2, <1>1 DEF Verify, Goto, IInv, TypeOK
      <4>3. CASE \/ TakeLock(u) \/ LockBusy(u) \/ LockTimeout(u)
                 \/ LockFails(u) \/ PollLock(u)
                 \/ CreateTemp(u) \/ WriteTemp(u) \/ SyncTemp(u)
        BY <4>3, <1>1 DEF TakeLock, LockBusy, LockTimeout, LockFails, PollLock, GiveUp,
                          CreateTemp, WriteTemp, SyncTemp, Goto, IInv, TypeOK
      <4>4. CASE \/ Rename(u) \/ SettleTarget(u) \/ StepFails(u)
                 \/ RemoveTemp(u) \/ Return(u)
        BY <4>4, <1>1 DEF Rename, SettleTarget, StepFails, RemoveTemp, Return,
                          Goto, IInv, TypeOK
      <4> QED BY <4>1, <4>2, <4>3, <4>4 DEF Step, Progress
    <3> QED BY <1>1, <3>1, <3>2, <3>3, <3>4, <3>5 DEF Next
  <2> QED BY <1>1, <2>1, <2>2 DEF IInv, LockOwners
<1>2. IInv /\ [Next]_allVars =>
        [\A w \in Writers :
           locking /\ pc[w] = "verify" /\ pc'[w] = "rename" =>
               \A v \in held : fd[v] = lockInode => v = w]_allVars
  BY <1>1
<1> QED BY Invariance, <1>2, PTL DEF Spec, VerifiedSoleOwner

-----------------------------------------------------------------------------

\* Under the invariant no torn file is visible or recoverable.
LEMMA MappedFiles ==
    ASSUME IInv
    PROVE  /\ Whole(target) = target.gen
           /\ \A f \in disk : Survives(f) = f.gen
BY DEF IInv, WholeDocuments, Whole, Survives

\* Every step of a save is a step of the durable document, or changes nothing
\* a reader or the disk can tell.
LEMMA StepRefines ==
    ASSUME IInv, IInv', [Next]_allVars
    PROVE  [Document!Next]_(Document!vars)
<1>1. ASSUME UNCHANGED <<target, disk, acked>> PROVE UNCHANGED Document!vars
  BY <1>1 DEF Document!vars, Whole, Survives
<1>2. ASSUME NEW w \in Writers, Begin(w) PROVE UNCHANGED <<target, disk, acked>>
  BY <1>2 DEF Begin, StartPlain, OpenLock, fileVars
<1>3. ASSUME NEW w \in Writers, Step(w)
      PROVE  [Document!Next]_(Document!vars)
  <2>1. CASE Rename(w)
    <3>1. /\ target'.gen = target.gen + 1
          /\ disk' = disk \cup {target'}
          /\ acked' = acked
      BY <2>1 DEF Rename
    <3>2. Whole(target)' = Whole(target) + 1
      BY <3>1, MappedFiles DEF IInv, WholeDocuments, Whole
    <3>3. {Survives(f) : f \in disk}'
            = {Survives(f) : f \in disk} \cup {Whole(target)'}
      BY <3>1 DEF IInv, WholeDocuments, Whole, Survives
    <3>4. Document!Publish
      BY <3>1, <3>2, <3>3 DEF Document!Publish
    <3> QED BY <3>4 DEF Document!Next
  <2>2. CASE SettleTarget(w)
    <3>1. disk' = {target} /\ target' = target /\ acked' = acked
      BY <2>2 DEF SettleTarget
    <3>2. Document!Settle
      BY <3>1 DEF Document!Settle, IInv, WholeDocuments, Whole, Survives
    <3> QED BY <3>2 DEF Document!Next
  <2>3. CASE Return(w) /\ acked' # acked
    <3>1. /\ acked' = gen[w] /\ outcome[w] = "ok" /\ acked < gen[w]
          /\ target' = target /\ disk' = disk
      BY <2>3 DEF Return, fileVars
    <3>2. gen[w] \in acked .. Whole(target)
      BY <3>1, MappedFiles DEF IInv, TypeOK, File, Generations
    <3>3. \A r \in {Survives(f) : f \in disk} : gen[w] <= r
      BY <3>1, MappedFiles DEF IInv, Generations
    <3>4. Document!Acknowledge
      BY <3>1, <3>2, <3>3 DEF Document!Acknowledge, Whole, Survives
    <3> QED BY <3>4 DEF Document!Next
  <2>4. CASE Return(w) /\ acked' = acked
    BY <2>4, <1>1 DEF Return, fileVars
  <2>5. CASE TakeLock(w) \/ LockBusy(w) \/ (LockTimeout(w) \/ LockFails(w)) \/ PollLock(w)
    BY <2>5, <1>1 DEF TakeLock, LockBusy, LockTimeout, LockFails, PollLock,
                      GiveUp, fileVars
  <2>6. CASE \/ CreateTemp(w) \/ WriteTemp(w) \/ SyncTemp(w) \/ Verify(w)
             \/ StepFails(w) \/ RemoveTemp(w)
    BY <2>6, <1>1 DEF CreateTemp, WriteTemp, SyncTemp, Verify, StepFails,
                      RemoveTemp, fileVars
  <2> QED BY <1>3, <2>1, <2>2, <2>3, <2>4, <2>5, <2>6 DEF Step, Progress
<1>4. ASSUME NEW w \in Writers, Crash(w) PROVE UNCHANGED <<target, disk, acked>>
  BY <1>4 DEF Crash
<1>5. CASE PowerCut
  <2>1. PICK f \in disk :
          target' = [f EXCEPT !.bytes = IF @ = "synced" THEN @ ELSE "torn"]
    BY <1>5 DEF PowerCut
  <2>2. disk' = {target'} /\ acked' = acked
    BY <1>5 DEF PowerCut
  <2>3. target'.gen = f.gen
    BY <2>1 DEF IInv, TypeOK, File
  <2>4. Whole(target)' = Survives(f)
    BY <2>3, MappedFiles DEF IInv, WholeDocuments, Whole
  <2>5. {Survives(g) : g \in disk}' = {Whole(target)'}
    BY <2>2 DEF IInv, WholeDocuments, Whole, Survives
  <2>6. Document!PowerCut
    BY <2>2, <2>4, <2>5 DEF Document!PowerCut
  <2> QED BY <2>6 DEF Document!Next
<1>6. CASE LockVanishes \/ UNCHANGED allVars
  BY <1>6, <1>1 DEF LockVanishes, allVars, vars, fileVars
<1> QED BY <1>1, <1>2, <1>3, <1>4, <1>5, <1>6 DEF Next

\* The protocol implements the durable document: atomic for readers, whole
\* after a power cut, and never forgetting a save that returned Ok.
THEOREM PublishRefinesDocument == Spec => DocumentSpec
<1>1. Init => Document!Init
  BY DEF Init, Document!Init, Whole, Survives
<1>2. IInv /\ IInv' /\ [Next]_allVars => [Document!Next]_(Document!vars)
  BY StepRefines
<1> QED BY Invariance, <1>1, <1>2, PTL DEF Spec, DocumentSpec, Document!Spec

\* What the durable document promises holds of the protocol: no power cut takes
\* back a generation whose save returned Ok.
THEOREM AcknowledgedSavesSurvive == Spec => []Document!AcknowledgedSurvives
<1>1. IInv => Document!AcknowledgedSurvives
  BY MappedFiles DEF Document!AcknowledgedSurvives, IInv, Generations
<1> QED BY Invariance, <1>1, PTL
=============================================================================
