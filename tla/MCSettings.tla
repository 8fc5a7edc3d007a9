----------------------------- MODULE MCSettings -----------------------------
(* Small instances of Settings for TLC.                                    *)
EXTENDS Settings, TLC

CONSTANTS a, b

MCFamilies == <<"claude", "codex">>
MCLabels == <<"5h", "week">>

Written == [EmptyDoc EXCEPT !.warning = 1, !.foreign = "key"]
Tables == [EmptyDoc EXCEPT !.off = {"codex"}, !.foreign = "key",
             !.waybar = [Explicit EXCEPT !.shown = <<"claude">>, !.window = [i \in {"claude"} |-> "week"]]]
Inline == [EmptyDoc EXCEPT !.waybar = [NoTable EXCEPT !.form = "inline", !.percent = "off",
                                         !.window = [i \in {"claude"} |-> "5h"]]]
Rejected == [EmptyDoc EXCEPT !.warning = 4, !.foreign = "rejected"]
Broken == [EmptyDoc EXCEPT !.toml = FALSE]

World(procs, docs, presses, edits, restarts, faults) ==
    [procs |-> procs, docs |-> docs, presses |-> presses, edits |-> edits,
     restarts |-> restarts, faults |-> faults]

MCWorlds ==
    {World({a}, {EmptyDoc, Tables}, 4, 0, 0, 0),
     World({a}, {Written, Inline, Broken}, 2, 1, 0, 1),
     World({a}, {Tables, Rejected}, 1, 1, 1, 1),
     World(Procs, {Written, Tables}, 2, 1, 0, 0)}
=============================================================================
