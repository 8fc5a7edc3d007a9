--------------------------- MODULE MCOpenCodeIndex --------------------------
(* Small instances of OpenCodeIndex for TLC.                               *)
EXTENDS OpenCodeIndex, TLC

CONSTANTS tui, main

Usage(model, input, total, ok) ==
    [model |-> model, input |-> input, total |-> total, ok |-> ok]

Reported == Usage("m1", 1, 2, TRUE)
Derived == Usage("m1", 1, Unknown, TRUE)
Absent == Usage("m1", Unknown, Unknown, TRUE)
Malformed == Usage("m2", 0, 1, FALSE)
MCKinds == {Reported, Derived, Absent, Malformed}

World(procs, kinds, calm, maxTime, parts, changes, faults) ==
    [procs |-> procs, kinds |-> kinds, calm |-> calm, maxTime |-> maxTime,
     parts |-> parts, changes |-> changes, faults |-> faults]

MCWorlds ==
    {World(Procs, {Reported, Malformed}, TRUE, 3, 2, 0, 1),
     World({main}, MCKinds, TRUE, 3, 3, 0, 0),
     World({main}, {Reported}, TRUE, 1, 3, 3, 0),
     World(Procs, {Derived}, FALSE, 2, 1, 1, 0)}
=============================================================================
