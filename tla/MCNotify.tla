------------------------------ MODULE MCNotify ------------------------------
(* Small instances of Notify for TLC.                                      *)
EXTENDS Notify, TLC

CONSTANTS session, claude

MCOneWindow == session :> claude

MCStormOrCalm ==
    {[alone |-> FALSE, faults |-> TRUE, gone |-> TRUE, cooldown |-> 1, maxTime |-> 1],
     [alone |-> TRUE, faults |-> FALSE, gone |-> FALSE, cooldown |-> 2, maxTime |-> 5]}

ProcSymmetry == Permutations(Procs)
=============================================================================
