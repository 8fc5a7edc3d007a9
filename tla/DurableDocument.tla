-------------------------- MODULE DurableDocument --------------------------
(***************************************************************************)
(* What a state file of lazysubs-eye promises to its readers, with no      *)
(* word on locks, temporary files or fsync.  A document is known by its    *)
(* generation: the number of replacements that led to it.  A reader sees   *)
(* one whole generation; a power cut leaves one whole generation; and a    *)
(* generation whose save returned Ok is never taken back.                  *)
(***************************************************************************)
EXTENDS Integers

VARIABLES
    visible,      \* generation a reader loads now
    recoverable,  \* generations a power cut may leave behind
    acked         \* newest generation whose save has returned Ok

vars == <<visible, recoverable, acked>>

TypeOK ==
    /\ visible \in Nat
    /\ recoverable \subseteq Nat
    /\ acked \in Nat

Init ==
    /\ visible = 0
    /\ recoverable = {0}
    /\ acked = 0

\* A save replaces the document: readers move on at once, the disk may lag.
Publish ==
    /\ visible' = visible + 1
    /\ recoverable' = recoverable \cup {visible'}
    /\ UNCHANGED acked

\* The replacement, with all those before it, reaches the disk.
Settle ==
    /\ recoverable' = {visible}
    /\ UNCHANGED <<visible, acked>>

\* A save reports success only when no older generation can come back.
Acknowledge ==
    \E g \in acked .. visible :
        /\ \A r \in recoverable : g <= r
        /\ acked' = g
        /\ UNCHANGED <<visible, recoverable>>

\* A power cut keeps one generation of those the disk may hold.
PowerCut ==
    \E g \in recoverable :
        /\ visible' = g
        /\ recoverable' = {g}
        /\ UNCHANGED acked

Next == Publish \/ Settle \/ Acknowledge \/ PowerCut

Spec == Init /\ [][Next]_vars

\* No power cut can take back a generation that a save reported as written.
AcknowledgedSurvives == \A r \in recoverable : acked <= r
=============================================================================
