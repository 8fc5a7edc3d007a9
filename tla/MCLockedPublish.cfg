\* Two writers, with and without the lock, and a lock file others may delete.
SPECIFICATION FairSpec
CONSTANTS
    Writers = {w1, w2}
    Inodes = {i1, i2}
    NoInode = NoInode
    LockMayVanish = TRUE
    MaxPolls = 1
    MaxSaves = 3
INVARIANT TypeOK
INVARIANT WholeDocuments
INVARIANT OneLockedPublisher
PROPERTY VerifiedSoleOwner
PROPERTY DocumentSpec
PROPERTY EverySaveReturns
CHECK_DEADLOCK FALSE
