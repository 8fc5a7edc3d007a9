-------------------------- MODULE MCLockedPublish --------------------------
(* Small instances of LockedPublish for TLC.                               *)
EXTENDS LockedPublish, TLC

\* Writers and inodes are interchangeable: no definition names one of them.
WriterInodeSymmetry == Permutations(Writers) \cup Permutations(Inodes)
=============================================================================
