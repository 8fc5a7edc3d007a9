----------------------------- MODULE MCInstaller ----------------------------
(* Small desktops for TLC: the texts of the three files.                   *)
EXTENDS Installer

MCUserTokens == {"tray", "bar", "// note", "rule", "bind", "mine", "color", "my windowrule"}
MCNaming == {"my windowrule"}
MCTolerated == {"color"}
MCAdditions == {"mine", "color", "my windowrule"}

\* modules-right with one item per line, in the middle or last; empty; not there;
\* followed by a comment.
Middle == <<"{", NL, "modules-right", "[", NL, "tray", NL, "]", ",", NL, "bar", NL, "}", NL>>
LastMember == <<"{", NL, "bar", ",", NL, "modules-right", "[", NL, "tray", NL, "]", NL, "}">>
Empty == <<"{", NL, "modules-right", "[", "]", ",", NL, "bar", NL, "}", NL>>
Missing == <<"{", NL, "bar", NL, "}", NL>>
Commented == <<"{", NL, "modules-right", "[", NL, "tray", NL, "]", "// note", NL, ",",
               NL, "bar", NL, "}", NL>>
\* Integrated by hand, without markers.
ByHand == <<"{", NL, "modules-right", "[", NL, ENTRY, NL, "]", ",", NL, MODULE_DEF, NL,
            "}", NL>>

Desktop(config, style, hypr) == [config |-> config, style |-> style, hypr |-> hypr]
Scenario(f, locked, ops, faults, edits) ==
    [files |-> f, locked |-> locked, ops |-> ops, faults |-> faults, edits |-> edits]

Rules == <<"rule", NL>>
Binds == <<"bind", NL>>
\* A rule for the window class that the user wrote.
HandRule == <<"bind", NL, "my windowrule", NL>>

MCDesktops ==
    {Scenario(Desktop(Middle, Rules, Binds), {}, 2, 2, 0),
     Scenario(Desktop(Middle, Rules, Binds), {}, 3, 1, 0),
     Scenario(Desktop(Middle, Rules, Binds), {}, 2, 0, 1),
     Scenario(Desktop(LastMember, <<"rule">>, NoFile), {}, 2, 1, 1),
     Scenario(Desktop(Empty, <<>>, <<"bind">>), {}, 3, 1, 0),
     Scenario(Desktop(Missing, Rules, NoFile), {}, 2, 1, 0),
     Scenario(Desktop(Commented, Rules, NoFile), {"hypr"}, 2, 0, 0),
     Scenario(Desktop(ByHand, Rules, Binds), {"hypr"}, 2, 1, 0),
     Scenario(Desktop(Middle, Rules, Binds), {"style"}, 2, 0, 0),
     Scenario(Desktop(Middle, NoFile, Binds), {}, 2, 0, 0),
     Scenario(Desktop(Middle, Rules, HandRule), {}, 2, 1, 0)}
=============================================================================
