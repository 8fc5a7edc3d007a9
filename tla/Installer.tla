------------------------------ MODULE Installer -----------------------------
(***************************************************************************)
(* Installing and removing the desktop integration (install.rs): up to     *)
(* three files of the user are edited one after the other, each after a    *)
(* backup; an error restores the backups in reverse order.  The user may   *)
(* edit the same files, a step may fail and the process may be killed.     *)
(***************************************************************************)
EXTENDS ConfigText

CONSTANTS
    Scenarios,     \* the desktops to start from: see desktop
    Additions,     \* the lines of UserTokens that the user may add meanwhile
    MaxSecond      \* bound on the clock, in seconds

Files == {"config", "style", "hypr"}

ASSUME InstallerAssumption ==
    /\ MaxSecond \in Nat
    /\ Additions \subseteq UserTokens
    /\ Scenarios \subseteq [files : [Files -> Seq(STRING)], locked : SUBSET Files,
                            ops : Nat, faults : Nat, edits : Nat]

VARIABLES
    desktop,    \* fixed from the start: the files, those that cannot be opened for
                \* writing, how many commands, faults and edits by the user
                \* may occur
    files,      \* the text of each file
    backups,    \* <file>.bak.<epoch>[.N]: for each file, texts by <<epoch, N>>
    second,     \* the clock the backups are named by
    op,         \* the running command: see Idle
    journal,    \* BackupManager.entries: <<file, name of its backup>>
    bar,        \* what Waybar loaded at its last reload
    budget,     \* commands, faults and edits still allowed
    result,     \* history: how the last command ended
    plan,       \* history: the files the last sandbox plan names
    before,     \* history: the files when the command started, with edits before
                \* their backup
    written,    \* history: each file as the user last wrote it
    marks       \* history: files last edited by the user under the running command,
                \* between its reading and its backup (raced) or after its backup
                \* (late), or before and overwritten then; files cut short by a
                \* rollback (torn); files skipped by an uninstall (skipped)

desktopVars == <<desktop, files, backups, second, op, journal, bar, budget, result,
                 plan, before, written, marks>>
fixed == <<desktop, plan>>
userHistory == <<before, written, marks>>

\* text is the contents about to be published; changed, hypr and failed are the
\* locals changed, touched_hypr and (of rollback) failed.
Idle == [kind |-> "none", at |-> "idle", stage |-> "read", text |-> <<>>,
         changed |-> FALSE, hypr |-> FALSE, failed |-> FALSE]
Started(kind) == [Idle EXCEPT !.kind = kind, !.at = "config"]

\* Mutant: the command ends with the first file.
FollowingFirstOnly(at) == "reload"

Following(at) == CASE at = "config" -> "style" [] at = "style" -> "hypr"
                   [] at = "hypr" -> "reload"
NoMarks == [raced |-> {}, late |-> {}, torn |-> {}, skipped |-> {}]

Installs == op.kind \in {"install", "sandbox"}
Journaled == {journal[i][1] : i \in 1 .. Len(journal)}

\* What Waybar shows of the integration.
View(f) ==
    LET module == Has(f["config"], MODULE_DEF)
        style == Has(f["style"], CSS)
    IN  IF module /\ style THEN "whole" ELSE IF module \/ style THEN "half" ELSE "none"

DesktopInit ==
    /\ desktop \in Scenarios
    /\ files = desktop.files
    /\ backups = [f \in Files |-> <<>>]
    /\ second = 0
    /\ op = Idle
    /\ journal = <<>>
    /\ bar = View(files)
    /\ budget = [ops |-> desktop.ops, faults |-> desktop.faults, edits |-> desktop.edits]
    /\ result = "none"
    /\ plan = {}
    /\ before = files
    /\ written = files
    /\ marks = NoMarks

-----------------------------------------------------------------------------
(* Deciding.                                                               *)

\* The text a command wants a file to have; the file's own when there is nothing
\* to do.  An unrecognised config is left alone.
Wanted(kind, f, text) ==
    IF kind = "uninstall"
    THEN IF f = "hypr" THEN WithoutRule(text) ELSE Strip(text)
    ELSE CASE f = "config" ->
                 IF Has(text, ENTRY) \/ Has(text, MODULE_DEF) \/ WithModule(text) = NoFile
                 THEN text ELSE WithModule(text)
           [] f = "style" -> IF Has(text, CSS) THEN text ELSE WithStyle(text)
           [] f = "hypr" ->
                 IF text = NoFile \/ NamesClass(text) THEN text ELSE WithRule(text)

\* preflight_install and preflight_uninstall
Refused(kind) ==
    IF kind = "uninstall"
    THEN \E f \in Files : files[f] # NoFile /\ (f \in desktop.locked \/ ~Valid(files[f]))
    ELSE \E f \in {"config", "style"} : files[f] = NoFile \/ f \in desktop.locked

\* build_install_plan: decided by the contents alone, before the structure is seen.
Plan ==
    {f \in Files :
        /\ files[f] # NoFile
        /\ CASE f = "config" -> ~Has(files[f], ENTRY) /\ ~Has(files[f], MODULE_DEF)
             [] f = "style" -> ~Has(files[f], CSS)
             [] f = "hypr" -> ~NamesClass(files[f])}

-----------------------------------------------------------------------------
(* Commands.                                                               *)

\* Those of S that do not hold what the user last wrote.
Overwritten(S) == {f \in S : files[f] # written[f]}

Start(kind) ==
    /\ op.at = "idle"
    /\ budget.ops > 0
    /\ budget' = [budget EXCEPT !.ops = @ - 1]
    /\ journal' = <<>>
    /\ before' = files
    /\ marks' = [marks EXCEPT !.raced = Overwritten(@), !.late = Overwritten(@)]
    /\ IF Refused(kind)
       THEN op' = op /\ result' = "refused"
       ELSE op' = Started(kind) /\ result' = "none"
    /\ plan' = IF kind = "sandbox" /\ ~Refused(kind) THEN Plan ELSE {}
    /\ UNCHANGED <<desktop, files, backups, second, bar, written>>

Fault == budget.faults > 0 /\ budget' = [budget EXCEPT !.faults = @ - 1]
Fails == op' = [op EXCEPT !.at = "rollback"]

\* A file is read and its new text decided (validate_markers opens it again: one step
\* here with the first reading).
Read(f) ==
    /\ op.at = f
    /\ op.stage = "read"
    /\ LET text == files[f]
           next == Wanted(op.kind, f, text)
       IN  \/ /\ \/ Installs /\ text = NoFile /\ f # "hypr"
                 \/ op.kind = "uninstall" /\ f # "hypr" /\ text # NoFile /\ ~Valid(text)
              /\ Fails
           \/ /\ ~(Installs /\ text = NoFile /\ f # "hypr")
              /\ op.kind = "uninstall" /\ f # "hypr" => text = NoFile \/ Valid(text)
              /\ op' = IF text = NoFile \/ next = text
                       THEN [op EXCEPT !.at = Following(f)]
                       ELSE [op EXCEPT !.stage = "backup", !.text = next]
    /\ UNCHANGED <<fixed, userHistory, files, backups, second, journal, bar, budget, result>>

\* The file turns out unreadable: an error for install, skipped by uninstall.
ReadFails(f) ==
    /\ op.at = f
    /\ op.stage = "read"
    /\ files[f] # NoFile
    /\ Fault
    /\ IF Installs
       THEN Fails /\ marks' = marks
       ELSE /\ op' = [op EXCEPT !.at = Following(f)]
            /\ marks' = [marks EXCEPT !.skipped = @ \cup {f}]
    /\ UNCHANGED <<fixed, before, written, files, backups, second, journal, bar, result>>

\* Mutant: no suffix; two backups of one second share a name.
EpochName(f) == <<second, 0>>

\* The first free name of this second.
BackupName(f) ==
    <<second, Smallest({n \in 0 .. Cardinality(DOMAIN backups[f]) :
                           <<second, n>> \notin DOMAIN backups[f]})>>

\* The file as it is now is copied and its copy journaled, before it is replaced.
Backup(f) ==
    /\ op.at = f
    /\ op.stage = "backup"
    /\ \/ /\ backups' = [backups EXCEPT ![f] =
                            [n \in DOMAIN @ \cup {BackupName(f)} |->
                                IF n = BackupName(f) THEN files[f] ELSE @[n]]]
          /\ journal' = Append(journal, <<f, BackupName(f)>>)
          /\ op' = [op EXCEPT !.stage = "publish"]
          /\ UNCHANGED budget
       \/ /\ Fault
          /\ Fails
          /\ UNCHANGED <<backups, journal>>
    /\ UNCHANGED <<fixed, userHistory, files, second, bar, result>>

Published(f) ==
    [op EXCEPT !.at = Following(f), !.stage = "read", !.text = <<>>,
               !.changed = TRUE, !.hypr = (f = "hypr")]

\* atomic_save_system: it may fail before its rename, or after it (directory sync).
Publish(f) ==
    /\ op.at = f
    /\ op.stage = "publish"
    /\ \/ files' = [files EXCEPT ![f] = op.text] /\ op' = Published(f) /\ UNCHANGED budget
       \/ files' = [files EXCEPT ![f] = op.text] /\ Fault /\ Fails
       \/ files' = files /\ Fault /\ Fails
    /\ UNCHANGED <<fixed, userHistory, backups, second, journal, bar, result>>

\* Consumers are reloaded at the end of a command that changed something and is not
\* confined to a sandbox; the external command may not work.
Reloads == op.changed /\ op.kind # "sandbox"

Finish ==
    /\ op.at = "reload"
    /\ bar' \in IF Reloads THEN {bar, View(files)} ELSE {bar}
    /\ op' = Idle
    /\ journal' = <<>>
    /\ result' = IF op.kind = "uninstall" THEN "removed" ELSE "installed"
    /\ UNCHANGED <<fixed, userHistory, files, backups, second, budget>>

-----------------------------------------------------------------------------
(* Failure.                                                                *)

Torn == <<>>
Cut(f) == files' = [files EXCEPT ![f] = Torn]
             /\ marks' = [marks EXCEPT !.torn = @ \cup {f}]

\* Mutant: only the last file is restored.
RemainingNone == <<>>

Remaining == SubSeq(journal, 1, Len(journal) - 1)

\* The last entry of the journal that was not yet restored is copied back: a plain
\* copy, which may fail before or after it truncated the file.
Restore ==
    /\ op.at = "rollback"
    /\ journal # <<>>
    /\ LET entry == journal[Len(journal)]
           f == entry[1]
       IN  \/ /\ files' = [files EXCEPT ![f] = backups[f][entry[2]]]
              /\ UNCHANGED <<op, budget, marks>>
           \/ /\ Fault
              /\ Cut(f) \/ UNCHANGED <<files, marks>>
              /\ op' = [op EXCEPT !.failed = TRUE]
    /\ journal' = Remaining
    /\ UNCHANGED <<fixed, before, written, backups, second, bar, result>>

RolledBack ==
    /\ op.at = "rollback"
    /\ journal = <<>>
    /\ result' = IF op.failed THEN "rollback failed" ELSE "failed"
    /\ op' = Idle
    /\ UNCHANGED <<fixed, userHistory, files, backups, second, journal, bar, budget>>

\* The process dies; a copy of the rollback may be half done.
Kill ==
    /\ op.at # "idle"
    /\ Fault
    /\ \/ UNCHANGED <<files, marks>>
       \/ op.at = "rollback" /\ journal # <<>> /\ Cut(journal[Len(journal)][1])
    /\ op' = Idle
    /\ journal' = <<>>
    /\ result' = "killed"
    /\ UNCHANGED <<fixed, before, written, backups, second, bar>>

\* The user adds a line to a file, or deletes a line with an end marker.  The running
\* command may have read the file, or have its backup, already.
UserEdit(f) ==
    /\ budget.edits > 0
    /\ files[f] # NoFile
    /\ LET lines == Lines(files[f])
           ended == {n \in 1 .. Len(lines) : lines[n][Len(lines[n])] = NL}
       IN  \/ \E token \in Additions, n \in {0} \cup ended :
                 files' = [files EXCEPT ![f] = Joined(lines, 1 .. n) \o <<token, NL>>
                                                  \o Joined(lines, n + 1 .. Len(lines))]
           \/ \E n \in 1 .. Len(lines) :
                 /\ Has(lines[n], END)
                 /\ files' = [files EXCEPT ![f] = Joined(lines, (1 .. Len(lines)) \ {n})]
    /\ budget' = [budget EXCEPT !.edits = @ - 1]
    /\ written' = [written EXCEPT ![f] = files'[f]]
    /\ before' = IF f \in Journaled THEN before ELSE [before EXCEPT ![f] = files'[f]]
    /\ marks' = [marks EXCEPT
                    !.raced = IF op.at = f /\ op.stage = "backup" THEN @ \cup {f} ELSE @ \ {f},
                    !.late = IF f \in Journaled THEN @ \cup {f} ELSE @ \ {f}]
    /\ UNCHANGED <<fixed, backups, second, op, journal, bar, result>>

Tick ==
    /\ second < MaxSecond
    /\ op.stage = "backup"
    /\ second' = second + 1
    /\ UNCHANGED <<fixed, userHistory, files, backups, op, journal, bar, budget, result>>

DesktopNext ==
    \/ \E kind \in {"install", "sandbox", "uninstall"} : Start(kind)
    \/ \E f \in Files :
          Read(f) \/ ReadFails(f) \/ Backup(f) \/ Publish(f) \/ UserEdit(f)
    \/ Finish \/ Restore \/ RolledBack \/ Kill \/ Tick

DesktopSpec == DesktopInit /\ [][DesktopNext]_desktopVars

-----------------------------------------------------------------------------
(* Properties.                                                             *)

Name == (0 .. MaxSecond) \X Nat

\* Types, and: what is published next has been backed up by this very command
\* (write_with_backup).
DesktopTypeOK ==
    /\ files \in [Files -> Seq(STRING)]
    /\ \A f \in Files : DOMAIN backups[f] \subseteq Name
    /\ second \in 0 .. MaxSecond
    /\ op.kind \in {"none", "install", "sandbox", "uninstall"}
    /\ op.at \in {"idle", "reload", "rollback"} \cup Files
    /\ op.stage = "publish" /\ op.at \in Files => op.at \in Journaled
    /\ journal \in Seq(Files \X Name)
    /\ bar \in {"none", "half", "whole"}
    /\ result \in {"none", "refused", "failed", "rollback failed", "killed",
                   "installed", "removed"}

\* An error leaves nothing behind: when a command reports failure and does not report
\* an incomplete rollback, every file is what the user had before its backup; what
\* the user wrote into it after the backup is undone as well (install, uninstall).
FailureRestores ==
    result \in {"refused", "failed"} => \A f \in Files : files[f] = before[f]

\* What the user last wrote is the file, or one of its backups, at any moment, whatever
\* fails or dies (write_with_backup, backup).  The exception is an edit made after the
\* running command's backup of the file: its publish, its rollback or its death in one
\* may overwrite that edit, which is then in no backup (install.rs:605-608).
AuthoredIsKept ==
    \A f \in Files \ marks.late :
        \/ files[f] = written[f]
        \/ \E n \in DOMAIN backups[f] : backups[f][n] = written[f]

\* The lines of a file that no command may claim as its own: uninstall takes every line
\* of hyprland.conf that names the class, and the lines of a block that look like its own.
Unclaimed(f, text) == IF f = "hypr" THEN WithoutRule(text) ELSE WithoutTolerated(text)

\* The user's own text, as last written, stays in effect in the files themselves: no
\* command removes it, comments it out or reorders it (strip_marked,
\* waybar_config_with_module), but for the claimed lines, which uninstall deletes although
\* they may be the user's (install.rs:925), and for an edit that was made while a command
\* had the file in hand.
UserTextSurvives ==
    \A f \in Files \ (marks.torn \cup marks.raced \cup marks.late) :
        UserPart(Unclaimed(f, files[f])) = UserPart(Unclaimed(f, written[f]))

Recognised == WithModule(before["config"]) # NoFile

\* After a successful install each file holds its piece once, also where an earlier
\* install died or failed halfway (install_with_paths repairs partial installs).  A
\* config whose structure is not recognised is left to the user, and a hand-written
\* rule for the class takes the place of the installer's.
InstalledOnce ==
    result = "installed" =>
        /\ \A token \in {ENTRY, MODULE_DEF} :
              "config" \notin marks.torn /\ Recognised =>
                  Occurrences(files["config"], token) = 1
        /\ Occurrences(files["style"], CSS) = 1
        /\ files["hypr"] # NoFile =>
              NamesClass(files["hypr"]) /\ Occurrences(files["hypr"], RULE) <= 1

\* After a successful uninstall none of the installer's lines is left, in any file the
\* command could read, and a file the user did not edit meanwhile is back to its text
\* but for the layout: newlines that the installer added stay (install.rs:390, 768, 793),
\* and so does the comma it put behind a modules-right that was the last member
\* (install.rs:379).  Every rule that names the class is gone, the user's own as well.
RemovedWholly ==
    result = "removed" =>
        \A f \in Files \ marks.skipped :
            /\ \A token \in Ours : Has(files[f], token) => Has(desktop.files[f], token)
            /\ f \notin marks.torn /\ written[f] = desktop.files[f] =>
                  /\ Bare(files[f]) = Bare(desktop.files[f])
                  /\ Occurrences(files[f], ",") - Occurrences(desktop.files[f], ",")
                        \in 0 .. IF f = "config" THEN 1 ELSE 0

\* A sandbox plan names every file that its execution goes on to touch.
PlanCovers == op.kind = "sandbox" => Journaled \subseteq plan

\* What a command reports is what it did: the four above, and the types.
CommandKeepsPromise ==
    DesktopTypeOK /\ FailureRestores /\ InstalledOnce /\ RemovedWholly /\ PlanCovers

\* A reload never shows Waybar the module without its style or the reverse: it comes
\* after every file, and a failed command does not reload (reload).  A config whose
\* structure is not recognised is exempt: the command then adds the stylesheet alone
\* and reloads.
BarSeesWhole ==
    Recognised /\ View(desktop.files) = "none" /\ marks.torn = {} /\ marks.skipped = {}
        => bar # "half"
=============================================================================
