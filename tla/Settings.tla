------------------------------ MODULE Settings ------------------------------
(***************************************************************************)
(* config.toml and the settings modal of the TUI (config.rs, tui.rs): the  *)
(* file is loaded once by each process, a key press changes the copy in    *)
(* memory, and persist writes that copy into the file as it is then,       *)
(* keeping what the TUI does not manage.  Several TUIs and the user's      *)
(* editor share the file; nothing locks it.                                *)
(*                                                                         *)
(* Each way of writing a key has one representative: warning_at and        *)
(* critical_at for the scalars, [providers] for the tables written whole   *)
(* (as [stats] is), waybar.providers for the lists, waybar.percent and     *)
(* waybar.window.                                                          *)
(***************************************************************************)
EXTENDS Integers, SequencesExt

CONSTANTS
    Procs,         \* TUIs
    Families,      \* providers in their order
    Labels,        \* windows of a provider, in the order of its status
    Highest,       \* 100 %, in steps of the modal
    Warning,       \* default of warning_at
    Critical,      \* default of critical_at
    Environments   \* what may happen: see env

ASSUME SettingsAssumption ==
    /\ Highest \in Nat /\ Warning \in 1 .. Highest /\ Critical \in 1 .. Highest
    /\ Warning < Critical
    /\ Families \in Seq(STRING) /\ Labels \in Seq(STRING)
    /\ IsInjective(Families)

VARIABLES
    env,       \* fixed from the start: procs, the TUIs there are; docs, what the file
               \* holds at first and the user may put there; how often keys are pressed
               \* on a setting, the file is edited, TUIs are restarted, calls fail
    file,      \* config.toml
    mem,       \* CONFIG of each TUI
    cursor,    \* settings_cursor, from 1; 0 when the modal is closed
    error,     \* whether settings_error is set
    task,      \* a persist between its reading and its rename
    left,      \* presses, edits, restarts and faults still to come
    authored,  \* history: the file as the user last left it
    standing,  \* history: TUIs whose persist was the last to write, or to try
    raced,     \* history: the user's last edit fell into a running persist
    blind      \* history: since then a persist took a file it could not read for empty

vars == <<env, file, mem, cursor, error, task, left, authored, standing, raced, blind>>
history == <<authored, raced, blind>>

Absent == -1
AllShown == <<"all">>      \* no list: every provider
NoProviders == {"absent"}  \* no [providers] table
Ids == ToSet(Families)
NoTask == [active |-> FALSE]

\* The elements of a list that stay when some are taken out.
Without(list, gone) ==
    LET kept[n \in 0 .. Len(list)] ==
            IF n = 0 THEN <<>>
            ELSE IF list[n] \in gone THEN kept[n - 1] ELSE Append(kept[n - 1], list[n])
    IN  kept[Len(list)]

\* A file: whether it is TOML, managed keys, and the rest, which may be rejected.
NoTable == [form |-> "absent", shown |-> AllShown, percent |-> "unset", window |-> <<>>]
Explicit == [NoTable EXCEPT !.form = "table"]
EmptyDoc == [toml |-> TRUE, warning |-> Absent, critical |-> Absent, off |-> NoProviders,
             waybar |-> NoTable, foreign |-> "none"]

\* What a file may hold: thresholds of any value, providers that exist, lists and window
\* maps that name each of them once, a key of the user or one that load rejects.
IdLists == {list \in Seq(Ids) : IsInjective(list)}
WindowMaps == UNION {[S -> ToSet(Labels)] : S \in SUBSET Ids}
WaybarTables ==
    {w \in [form : {"absent", "table", "inline"}, shown : {AllShown} \cup IdLists,
            percent : {"unset", "on", "off"}, window : WindowMaps] :
        w.form = "absent" => w = NoTable}
Documents ==
    [toml : BOOLEAN, warning : Nat \cup {Absent}, critical : Nat \cup {Absent},
     off : {NoProviders} \cup SUBSET Ids, waybar : WaybarTables,
     foreign : {"none", "key", "rejected"}]

ASSUME DocumentsAssumption ==
    /\ Ids \cap {"all", "absent", ""} = {}
    /\ \A e \in Environments :
         /\ e.procs \subseteq Procs /\ e.docs \subseteq Documents
         /\ {e.presses, e.edits, e.restarts, e.faults} \subseteq Nat

Defaults == [warning |-> Warning, critical |-> Critical, off |-> {}, shown |-> AllShown,
             percent |-> "unset", window |-> <<>>]

-----------------------------------------------------------------------------
(* Loading.                                                                *)

Or(value, default) == IF value = Absent THEN default ELSE value

Decode(doc) ==
    [warning |-> Or(doc.warning, Warning), critical |-> Or(doc.critical, Critical),
     off |-> doc.off \ NoProviders, shown |-> doc.waybar.shown,
     percent |-> doc.waybar.percent, window |-> doc.waybar.window]

\* validate
Coherent(c) ==
    /\ c.warning \in 0 .. Highest /\ c.critical \in 0 .. Highest
    /\ c.warning < c.critical

\* load: a file that cannot be parsed or that validate rejects counts for nothing.
Accepted(doc) == doc.toml /\ doc.foreign # "rejected" /\ Coherent(Decode(doc))
Load(doc) == IF Accepted(doc) THEN Decode(doc) ELSE Defaults

Init ==
    /\ env \in Environments
    /\ file \in env.docs
    /\ mem = [p \in Procs |-> Load(file)]
    /\ cursor = [p \in Procs |-> 0]
    /\ error = [p \in Procs |-> FALSE]
    /\ task = [p \in Procs |-> NoTask]
    /\ left = [presses |-> env.presses, edits |-> env.edits, restarts |-> env.restarts,
               faults |-> env.faults]
    /\ authored = file
    /\ standing = {}
    /\ raced = FALSE
    /\ blind = FALSE

-----------------------------------------------------------------------------
(* Writing a configuration into a document.                                *)

\* Mutant: a value that is back at its default is not written.
SetIfDiffers(old, new, default) == IF new # default THEN new ELSE old

\* set_if: what differs from the default, or is there already.
SetIf(old, new, default) == IF new # default \/ old # Absent THEN new ELSE old

\* ensure_table: a table that is not explicit is replaced by an empty one.
EnsureTable(w) == IF w.form = "table" THEN w ELSE Explicit

SetList(w, list) ==
    IF list # AllShown THEN [EnsureTable(w) EXCEPT !.shown = list]
    ELSE IF w.form = "table" THEN [w EXCEPT !.shown = AllShown] ELSE w

SetPercent(w, percent) ==
    IF percent # "unset" THEN [EnsureTable(w) EXCEPT !.percent = percent] ELSE w

SetWindowMap(w, map) ==
    IF map # <<>> THEN [EnsureTable(w) EXCEPT !.window = map]
    ELSE IF w.form = "table" THEN [w EXCEPT !.window = <<>>] ELSE w

\* Mutant: the document is written from the configuration alone.
ApplyAfresh(doc, c) ==
    [EmptyDoc EXCEPT !.warning = c.warning, !.critical = c.critical, !.off = c.off,
                     !.waybar = SetWindowMap(SetPercent(SetList(NoTable, c.shown),
                                                        c.percent), c.window)]

ApplyToDoc(doc, c) ==
    [doc EXCEPT
       !.warning = SetIf(@, c.warning, Warning),
       !.critical = SetIf(@, c.critical, Critical),
       !.off = IF c.off # {} \/ @ # NoProviders THEN c.off ELSE @,
       !.waybar = SetWindowMap(SetPercent(SetList(@, c.shown), c.percent), c.window)]

-----------------------------------------------------------------------------
(* The rows of the modal.                                                  *)

Row(kind, id) == [kind |-> kind, id |-> id]
Section == Row("section", "")
Rows(kind, ids) == [i \in DOMAIN ids |-> Row(kind, ids[i])]

\* configured_providers, with one account each: the providers that are on.
Surface(c) == Without(Families, c.off)

\* Mutant: the rows that change the list of rows come after it.
ItemsProvidersLast(c) ==
    <<Section, Row("warning", ""), Row("critical", ""), Section, Row("percent", "")>>
    \o Rows("shown", Surface(c)) \o <<Section>> \o Rows("window", Surface(c))
    \o <<Section>> \o Rows("provider", Families)

settings_items(c) ==
    <<Section, Row("warning", ""), Row("critical", ""), Section>>
    \o Rows("provider", Families) \o <<Section, Row("percent", "")>>
    \o Rows("shown", Surface(c)) \o <<Section>> \o Rows("window", Surface(c))

\* The next row in a direction, past sections and around the ends.
Wrap(n, len) == ((n - 1) % len) + 1
settings_move(items, from, delta) ==
    LET at(k) == Wrap(from + k * delta, Len(items))
        steps == {k \in 1 .. Len(items) : items[at(k)] # Section}
    IN  at(CHOOSE k \in steps : \A j \in steps : k <= j)

\* Enter and space give 0, the arrows -1 and 1.
Clamp(n) == IF n < 1 THEN 1 ELSE IF n > Highest THEN Highest ELSE n

\* The first toggle of a list that means "all" writes the whole list down.
toggle_id(list, all, id) ==
    LET current == IF list = AllShown THEN all ELSE list
    IN  IF Contains(current, id) THEN Without(current, {id}) ELSE Append(current, id)

\* The next choice of a provider's window: automatic, or one its status has.
NextWindow(map, id, dir, known) ==
    LET options == <<"auto">> \o known
        current == IF id \in DOMAIN map /\ Contains(options, map[id])
                   THEN CHOOSE i \in DOMAIN options : options[i] = map[id] ELSE 1
        next == options[Wrap(current + (IF dir = 0 THEN 1 ELSE dir), Len(options))]
    IN  [i \in (DOMAIN map \ {id}) \cup IF next = "auto" THEN {} ELSE {id} |->
            IF i = id THEN next ELSE map[i]]

\* The first part of settings_apply; a threshold only answers to the arrows.
Changed(c, row, dir, known) ==
    CASE row.kind = "warning" -> [c EXCEPT !.warning = IF dir = 0 THEN @ ELSE Clamp(@ + dir)]
      [] row.kind = "critical" -> [c EXCEPT !.critical = IF dir = 0 THEN @ ELSE Clamp(@ + dir)]
      [] row.kind = "provider" -> [c EXCEPT !.off = SymDiff(@, {row.id})]
      [] row.kind = "percent" -> [c EXCEPT !.percent = IF @ = "off" THEN "on" ELSE "off"]
      [] row.kind = "shown" -> [c EXCEPT !.shown = toggle_id(@, Surface(c), row.id)]
      [] row.kind = "window" -> [c EXCEPT !.window = NextWindow(@, row.id, dir, known)]

-----------------------------------------------------------------------------
(* A TUI.                                                                  *)

Running(p) == p \in env.procs /\ ~task[p].active
Spend(what) == left[what] > 0 /\ left' = [left EXCEPT ![what] = @ - 1]
Focus(p) == settings_items(mem[p])[cursor[p]]

\* Key o opens the modal on its second item.
Open(p) ==
    /\ Running(p) /\ cursor[p] = 0
    /\ cursor' = [cursor EXCEPT ![p] = 2]
    /\ UNCHANGED <<env, file, mem, error, task, left, history, standing>>

Close(p) ==
    /\ Running(p) /\ cursor[p] # 0
    /\ cursor' = [cursor EXCEPT ![p] = 0]
    /\ UNCHANGED <<env, file, mem, error, task, left, history, standing>>

Move(p, delta) ==
    /\ Running(p) /\ cursor[p] # 0
    /\ cursor' = [cursor EXCEPT ![p] = settings_move(settings_items(mem[p]), @, delta)]
    /\ UNCHANGED <<env, file, mem, error, task, left, history, standing>>

\* settings_apply: memory first, then persist reads the file.  A file that cannot be
\* read counts as empty; one that is not TOML is left alone, with an error.
Press(p, dir) ==
    /\ Running(p) /\ cursor[p] # 0
    /\ Focus(p).kind \in {"warning", "critical"} => dir # 0
    /\ \E known \in {<<>>, Labels} :
          mem' = [mem EXCEPT ![p] = Changed(@, Focus(p), dir, known)]
    /\ \E unread \in BOOLEAN :
          /\ left.presses > 0 /\ (unread => left.faults > 0)
          /\ left' = [left EXCEPT !.presses = @ - 1, !.faults = @ - IF unread THEN 1 ELSE 0]
          /\ IF ~unread /\ ~file.toml
             THEN /\ error' = [error EXCEPT ![p] = TRUE]
                  /\ UNCHANGED task
             ELSE /\ task' = [task EXCEPT ![p] = [active |-> TRUE, blind |-> unread,
                                              doc |-> IF unread THEN EmptyDoc ELSE file]]
                  /\ UNCHANGED error
    /\ UNCHANGED <<env, file, cursor, history, standing>>

\* atomic_save replaces the file; it may fail before its rename or after.
Save(p) ==
    /\ task[p].active
    /\ \/ /\ file' = ApplyToDoc(task[p].doc, mem[p])
          /\ error' = [error EXCEPT ![p] = FALSE]
          /\ UNCHANGED left
       \/ /\ Spend("faults")
          /\ file' \in {file, ApplyToDoc(task[p].doc, mem[p])}
          /\ error' = [error EXCEPT ![p] = TRUE]
    /\ task' = [task EXCEPT ![p] = NoTask]
    /\ standing' = IF file' = file THEN standing \cup {p} ELSE {p}
    /\ blind' = (blind \/ (task[p].blind /\ file' # file))
    /\ UNCHANGED <<env, mem, cursor, authored, raced>>

\* The TUI ends, or is killed inside a persist, and another starts: it loads the file,
\* or the defaults when it cannot.
Restart(p) ==
    /\ p \in env.procs
    /\ \E unread \in BOOLEAN :
          /\ left.restarts > 0 /\ (unread => left.faults > 0)
          /\ left' = [left EXCEPT !.restarts = @ - 1, !.faults = @ - IF unread THEN 1 ELSE 0]
          /\ mem' = [mem EXCEPT ![p] = IF unread THEN Defaults ELSE Load(file)]
    /\ cursor' = [cursor EXCEPT ![p] = 0]
    /\ error' = [error EXCEPT ![p] = FALSE]
    /\ task' = [task EXCEPT ![p] = NoTask]
    /\ standing' = standing \ {p}
    /\ UNCHANGED <<env, file, history>>

\* The user saves the file in an editor.
Edit ==
    /\ Spend("edits")
    /\ file' \in env.docs \ {file}
    /\ authored' = file'
    /\ standing' = {}
    /\ raced' = \E p \in Procs : task[p].active
    /\ blind' = FALSE
    /\ UNCHANGED <<env, mem, cursor, error, task>>

Next ==
    \/ \E p \in Procs :
          \/ Open(p) \/ Close(p) \/ Save(p) \/ Restart(p)
          \/ \E delta \in {-1, 1} : Move(p, delta)
          \/ \E dir \in -1 .. 1 : Press(p, dir)
    \/ Edit

Spec == Init /\ [][Next]_vars

-----------------------------------------------------------------------------
(* Properties.                                                             *)

Windows(c) == DOMAIN c.window \subseteq Ids /\ \A i \in DOMAIN c.window : c.window[i] \in ToSet(Labels)

\* Types; a list never names a provider twice, however it is toggled.
TypeOK ==
    /\ \A p \in Procs :
          /\ mem[p].warning \in 0 .. Highest /\ mem[p].critical \in 0 .. Highest
          /\ mem[p].off \subseteq Ids
          /\ mem[p].percent \in {"unset", "on", "off"}
          /\ mem[p].shown # AllShown => IsInjective(mem[p].shown) /\ ToSet(mem[p].shown) \subseteq Ids
          /\ Windows(mem[p])
    /\ file.waybar.form \in {"absent", "table", "inline"}
    /\ file.waybar.form = "absent" => file.waybar = NoTable
    /\ error \in [Procs -> BOOLEAN]

\* "persistence errors stay in modal state, so the user sees that a displayed choice
\* may not survive restart" (settings_apply): as long as nobody else writes the file, a
\* TUI that shows no error finds its choices again, those at their defaults included.
\* Not so when the thresholds are incoherent, the rest of the file is rejected, or an
\* inline table keeps what cannot be taken out of it (README, divergences).
Survives(p) ==
    LET c == Load(file)
    IN  /\ [c EXCEPT !.percent = ""] = [mem[p] EXCEPT !.percent = ""]
        /\ mem[p].percent \in {"unset", c.percent}
SavedOrShown ==
    \A p \in standing :
        Running(p) /\ ~error[p] /\ Coherent(mem[p]) /\ file.foreign # "rejected"
            /\ file.waybar.form # "inline" => Survives(p)

\* "preserving unmanaged keys ... such as [minimax] api_key", "existente inválido, no lo
\* toco" (persist): what the user wrote and the TUI does not manage stays, whoever
\* persists what; unless it was written inside a running persist, or could not be read.
HandWrittenKept ==
    ~raced /\ ~blind =>
        /\ file.foreign = authored.foreign
        /\ ~authored.toml => file = authored

\* "every focused row has a valid mutation path and the modal never lands on dead
\* input" (settings_move), although switching a provider off makes the list shorter.
FocusOnRow ==
    /\ TypeOK
    /\ \A p \in Procs :
         cursor[p] # 0 => /\ cursor[p] \in DOMAIN settings_items(mem[p])
                          /\ Focus(p) # Section
=============================================================================
