--------------------------- MODULE UserFilesProofs --------------------------
(***************************************************************************)
(* The files of the user that the program edits.  Settings, for any        *)
(* families, labels and thresholds, any number of TUIs, edits, restarts    *)
(* and faults: what the user wrote by hand stays, a choice survives or an  *)
(* error shows, and the focus of the modal is on a row.  Installer, for    *)
(* any texts of the files, commands, edits, faults and deaths: what the    *)
(* user wrote is kept, and a failed command is undone.                     *)
(***************************************************************************)
EXTENDS Settings, Installer, FiniteSetTheorems, WellFoundedInduction, SequenceTheorems, TLAPS

Configs ==
    [warning : 0 .. Highest, critical : 0 .. Highest, off : SUBSET Ids,
     shown : {AllShown} \cup IdLists, percent : {"unset", "on", "off"}, window : WindowMaps]
Tasks == [active : {TRUE}, blind : BOOLEAN, doc : {d \in Documents : d.toml}]

Typed ==
    /\ env \in Environments
    /\ file \in Documents /\ authored \in Documents
    /\ mem \in [Procs -> Configs]
    /\ cursor \in [Procs -> Nat]
    /\ error \in [Procs -> BOOLEAN]
    /\ task \in [Procs -> {NoTask} \cup Tasks]
    /\ left \in [presses : Nat, edits : Nat, restarts : Nat, faults : Nat]
    /\ standing \subseteq Procs
    /\ raced \in BOOLEAN /\ blind \in BOOLEAN

-----------------------------------------------------------------------------
(* Natural numbers and lists.                                              *)

\* A set of natural numbers that is not empty has a least element.
LEMMA LeastNat == ASSUME NEW T \in SUBSET Nat, T # {} PROVE \E m \in T : \A n \in T : m <= n
  <1> DEFINE R == OpToRel(<, Nat)
  <1>1. IsWellFoundedOn(R, Nat)
    BY NatLessThanWellFounded
  <1>2. \A x, y \in Nat : y < x => <<y, x>> \in R
    BY DEF OpToRel
  <1> HIDE DEF R
  <1>3. \E x \in T : \A y \in T : ~(<<y, x>> \in R)
    BY <1>1, WFMin
  <1>4. PICK x \in T : \A y \in T : ~(<<y, x>> \in R)
    BY <1>3
  <1>5. \A y \in T : ~(y < x)
    BY <1>2, <1>4
  <1> QED
    BY <1>5

\* Induction over the natural numbers, with a set for the property.
LEMMA SetInduction ==
    ASSUME NEW T, 0 \in T, \A n \in Nat : n \in T => n + 1 \in T
    PROVE  Nat \subseteq T
  <1> SUFFICES ASSUME Nat \ T # {} PROVE FALSE
    OBVIOUS
  <1>1. PICK m \in Nat \ T : \A n \in Nat \ T : m <= n
    BY LeastNat
  <1>2. m - 1 \in Nat
    BY <1>1
  <1>3. m - 1 \in T
    BY <1>1, <1>2
  <1> QED
    BY <1>1, <1>2, <1>3

\* The equation of the function that Without is made of has a solution.
KeptOf(list, gone, g, n) ==
    IF n = 0 THEN <<>>
    ELSE IF list[n] \in gone THEN g[n - 1] ELSE Append(g[n - 1], list[n])

LEMMA KeptExists ==
    ASSUME NEW S, NEW list \in Seq(S), NEW gone
    PROVE  \E g : g = [n \in 0 .. Len(list) |-> KeptOf(list, gone, g, n)]
  <1> DEFINE T == {m \in Nat : \E g : g = [n \in 0 .. m |-> KeptOf(list, gone, g, n)]}
  <1>1. 0 \in T
    <2> DEFINE g == [n \in 0 .. 0 |-> <<>>]
    <2>1. g = [n \in 0 .. 0 |-> KeptOf(list, gone, g, n)]
      BY DEF KeptOf
    <2> QED
      BY <2>1
  <1>2. ASSUME NEW m \in Nat, m \in T PROVE m + 1 \in T
    <2>1. PICK g : g = [n \in 0 .. m |-> KeptOf(list, gone, g, n)]
      BY <1>2
    <2> DEFINE h == [n \in 0 .. m + 1 |-> IF n = m + 1 THEN KeptOf(list, gone, g, n) ELSE g[n]]
    <2>2. \A n \in 0 .. m + 1 : h[n] = KeptOf(list, gone, h, n)
      <3> SUFFICES ASSUME NEW n \in 0 .. m + 1 PROVE h[n] = KeptOf(list, gone, h, n)
        OBVIOUS
      <3>1. h[n] = KeptOf(list, gone, g, n)
        BY <2>1
      <3>2. n # 0 => h[n - 1] = g[n - 1]
        OBVIOUS
      <3> QED
        BY <3>1, <3>2 DEF KeptOf
    <2>3. h = [n \in 0 .. m + 1 |-> KeptOf(list, gone, h, n)]
      BY <2>2
    <2> HIDE DEF h
    <2> QED
      BY <2>3
  <1>3. Nat \subseteq T
    BY <1>1, <1>2, SetInduction
  <1> QED
    BY <1>3, LenProperties

LEMMA KeptDef ==
    ASSUME NEW S, NEW list \in Seq(S), NEW gone
    PROVE  \E g : /\ g = [n \in 0 .. Len(list) |-> KeptOf(list, gone, g, n)]
                  /\ Without(list, gone) = g[Len(list)]
  <1> DEFINE kept[n \in 0 .. Len(list)] ==
            IF n = 0 THEN <<>>
            ELSE IF list[n] \in gone THEN kept[n - 1] ELSE Append(kept[n - 1], list[n])
  <1>1. kept = CHOOSE g : g = [n \in 0 .. Len(list) |-> IF n = 0 THEN <<>>
            ELSE IF list[n] \in gone THEN g[n - 1] ELSE Append(g[n - 1], list[n])]
    OBVIOUS
  <1>2. Without(list, gone) = kept[Len(list)]
    BY DEF Without
  <1> HIDE DEF kept
  <1>3. \E g : g = [n \in 0 .. Len(list) |-> IF n = 0 THEN <<>>
            ELSE IF list[n] \in gone THEN g[n - 1] ELSE Append(g[n - 1], list[n])]
    <2>1. PICK g : g = [n \in 0 .. Len(list) |-> KeptOf(list, gone, g, n)]
      BY KeptExists
    <2>2. g = [n \in 0 .. Len(list) |-> IF n = 0 THEN <<>>
            ELSE IF list[n] \in gone THEN g[n - 1] ELSE Append(g[n - 1], list[n])]
      BY <2>1 DEF KeptOf
    <2> QED
      BY <2>2
  <1>4. kept = [n \in 0 .. Len(list) |-> IF n = 0 THEN <<>>
            ELSE IF list[n] \in gone THEN kept[n - 1] ELSE Append(kept[n - 1], list[n])]
    BY <1>1, <1>3
  <1> QED
    BY <1>2, <1>4 DEF KeptOf

\* What stays of a list is a list, without repetition when it has none, of its elements
\* that are not taken out.
LEMMA WithoutIs ==
    ASSUME NEW S, NEW list \in Seq(S), NEW gone
    PROVE  LET r == Without(list, gone)
           IN  /\ r \in Seq(S)
               /\ IsInjective(list) => IsInjective(r)
               /\ \A i \in 1 .. Len(r) : \E j \in 1 .. Len(list) : r[i] = list[j] /\ list[j] \notin gone
  <1>1. PICK g : /\ g = [n \in 0 .. Len(list) |-> KeptOf(list, gone, g, n)]
                 /\ Without(list, gone) = g[Len(list)]
    BY KeptDef
  <1> DEFINE Good(n) ==
        /\ g[n] \in Seq(S)
        /\ IsInjective(list) => IsInjective(g[n])
        /\ \A i \in 1 .. Len(g[n]) : \E j \in 1 .. n : g[n][i] = list[j] /\ list[j] \notin gone
  <1> DEFINE T == {n \in Nat : n <= Len(list) => Good(n)}
  <1>0. Len(list) \in Nat
    BY LenProperties
  <1>6. \A n \in 0 .. Len(list) : g[n] = KeptOf(list, gone, g, n)
    BY <1>1
  <1> USE LenProperties
  <1>2. 0 \in T
    <2>1. g[0] = <<>>
      BY <1>0, <1>6 DEF KeptOf
    <2>2. /\ <<>> \in Seq(S) /\ Len(<<>>) = 0
          /\ IsInjective(<<>>)
      BY EmptySeq DEF IsInjective
    <2>3. Good(0)
      BY <2>1, <2>2
    <2> HIDE DEF Good
    <2> QED
      BY <2>3
  <1>3. ASSUME NEW n \in Nat, n \in T PROVE n + 1 \in T
    <2> SUFFICES ASSUME n + 1 <= Len(list) PROVE Good(n + 1)
      OBVIOUS
    <2>1. Good(n)
      BY <1>3
    <2> DEFINE s == g[n]
    <2>2. g[n + 1] = IF list[n + 1] \in gone THEN s ELSE Append(s, list[n + 1])
      <3>1. g[n + 1] = KeptOf(list, gone, g, n + 1)
        BY <1>0, <1>6
      <3>2. n + 1 # 0 /\ n + 1 - 1 = n
        OBVIOUS
      <3> QED
        BY <3>1, <3>2 DEF KeptOf
    <2>3. CASE list[n + 1] \in gone
      BY <2>1, <2>2, <2>3
    <2>4. CASE list[n + 1] \notin gone
      <3> DEFINE x == list[n + 1]
      <3> DEFINE t == Append(s, x)
      <3>1. x \in S /\ s \in Seq(S)
        BY <2>1, ElementOfSeq
      <3>2. /\ t \in Seq(S) /\ Len(t) = Len(s) + 1 /\ t[Len(s) + 1] = x
            /\ \A i \in 1 .. Len(s) : t[i] = s[i]
        BY <3>1, AppendProperties
      <3>3. \A i \in 1 .. Len(t) : \E j \in 1 .. n + 1 : t[i] = list[j] /\ list[j] \notin gone
        BY <2>1, <2>4, <3>2
      <3>4. ASSUME IsInjective(list) PROVE IsInjective(t)
        <4>1. \A i \in 1 .. Len(s) : s[i] # x
          <5> SUFFICES ASSUME NEW i \in 1 .. Len(s) PROVE s[i] # x
            OBVIOUS
          <5>1. PICK j \in 1 .. n : s[i] = list[j]
            BY <2>1
          <5> QED
            BY <5>1, <3>4 DEF IsInjective
        <4>2. \A i, j \in 1 .. Len(s) : s[i] = s[j] => i = j
          BY <2>1, <3>1, <3>4 DEF IsInjective
        <4>3. DOMAIN t = 1 .. Len(s) + 1
          BY <3>2
        <4>4. Len(s) \in Nat
          BY <3>1
        <4> HIDE DEF t, s, x
        <4>5. \A i, j \in 1 .. Len(s) + 1 : t[i] = t[j] => i = j
          BY <3>2, <4>1, <4>2, <4>4
        <4> QED
          BY <4>3, <4>5 DEF IsInjective
      <3> QED
        BY <2>2, <2>4, <3>2, <3>3, <3>4
    <2> QED
      BY <2>3, <2>4
  <1>4. Nat \subseteq T
    <2> HIDE DEF T
    <2> QED
      BY <1>2, <1>3, SetInduction
  <1>5. Good(Len(list))
    <2> HIDE DEF Good
    <2>1. Len(list) \in T
      <3> HIDE DEF T
      <3> QED
        BY <1>0, <1>4, Zenon
    <2>2. Len(list) <= Len(list)
      BY <1>0
    <2> QED
      BY <2>1, <2>2, Zenon
  <1>7. Without(list, gone) = g[Len(list)]
    BY <1>1, Zenon
  <1> QED
    BY <1>5, <1>7, Zenon

-----------------------------------------------------------------------------
(* Types of the operators.                                                 *)

\* No window is chosen in the empty map.
LEMMA NoWindows == <<>> \in WindowMaps
  <1>1. <<>> \in [{} -> ToSet(Labels)]
    OBVIOUS
  <1>2. {} \in SUBSET Ids
    OBVIOUS
  <1> QED
    BY <1>1, <1>2 DEF WindowMaps

LEMMA TablesTyped == NoTable \in WaybarTables /\ Explicit \in WaybarTables
  <1>1. Explicit = [form |-> "table", shown |-> AllShown, percent |-> "unset", window |-> <<>>]
    BY DEF Explicit, NoTable
  <1>2. NoTable \in WaybarTables
    BY NoWindows DEF NoTable, WaybarTables
  <1> QED
    BY <1>1, <1>2, NoWindows DEF WaybarTables

LEMMA EmptyDocTyped == EmptyDoc \in Documents /\ EmptyDoc.toml
  <1>1. /\ Absent \in Nat \cup {Absent} /\ NoProviders \in {NoProviders} \cup SUBSET Ids
        /\ NoTable \in WaybarTables
    BY TablesTyped
  <1> HIDE DEF Absent, NoProviders, NoTable, WaybarTables
  <1> QED
    BY <1>1 DEF EmptyDoc, Documents

LEMMA DefaultsTyped == Defaults \in Configs
  BY NoWindows, SettingsAssumption DEF Defaults, Configs

\* What a process takes from the file is a configuration.
LEMMA LoadTyped == ASSUME NEW doc \in Documents PROVE Load(doc) \in Configs
  <1>1. CASE Accepted(doc)
    <2> DEFINE c == Decode(doc)
    <2>1. c.warning \in 0 .. Highest /\ c.critical \in 0 .. Highest
      BY <1>1 DEF Accepted, Coherent
    <2>2. doc.off \ NoProviders \subseteq Ids
      BY DEF Documents
    <2>3. doc.waybar \in WaybarTables
      BY DEF Documents
    <2>4. /\ doc.waybar.shown \in {AllShown} \cup IdLists /\ doc.waybar.window \in WindowMaps
          /\ doc.waybar.percent \in {"unset", "on", "off"}
      BY <2>3 DEF WaybarTables
    <2>5. c \in Configs
      BY <2>1, <2>2, <2>4 DEF Decode, Configs
    <2> QED
      BY <1>1, <2>5 DEF Load
  <1>2. CASE ~Accepted(doc)
    BY <1>2, DefaultsTyped DEF Load
  <1> QED
    BY <1>1, <1>2

\* The tables of a document stay tables when a list, the percentage or windows are written.
LEMMA EnsureTyped ==
    ASSUME NEW w \in WaybarTables
    PROVE  EnsureTable(w) \in WaybarTables /\ EnsureTable(w).form = "table"
  BY TablesTyped DEF EnsureTable, Explicit, NoTable

LEMMA SetListTyped ==
    ASSUME NEW w \in WaybarTables, NEW list \in {AllShown} \cup IdLists
    PROVE  SetList(w, list) \in WaybarTables
  BY EnsureTyped DEF SetList, WaybarTables

LEMMA SetPercentTyped ==
    ASSUME NEW w \in WaybarTables, NEW percent \in {"unset", "on", "off"}
    PROVE  SetPercent(w, percent) \in WaybarTables
  BY EnsureTyped DEF SetPercent, WaybarTables

LEMMA SetWindowMapTyped ==
    ASSUME NEW w \in WaybarTables, NEW map \in WindowMaps
    PROVE  SetWindowMap(w, map) \in WaybarTables
  BY EnsureTyped, NoWindows DEF SetWindowMap, WaybarTables

\* A configuration written into a document gives a document; whether it is TOML and what
\* the TUI does not manage stay.
LEMMA ApplyTyped ==
    ASSUME NEW doc \in Documents, NEW c \in Configs
    PROVE  LET d == ApplyToDoc(doc, c)
           IN  d \in Documents /\ d.toml = doc.toml /\ d.foreign = doc.foreign
  <1> DEFINE w == SetWindowMap(SetPercent(SetList(doc.waybar, c.shown), c.percent), c.window)
  <1>1. doc.waybar \in WaybarTables
    BY DEF Documents
  <1>2. c.shown \in {AllShown} \cup IdLists /\ c.percent \in {"unset", "on", "off"}
        /\ c.window \in WindowMaps
    BY DEF Configs
  <1>3. w \in WaybarTables
    BY <1>1, <1>2, SetListTyped, SetPercentTyped, SetWindowMapTyped
  <1>4. /\ SetIf(doc.warning, c.warning, Warning) \in Nat \cup {Absent}
        /\ SetIf(doc.critical, c.critical, Critical) \in Nat \cup {Absent}
    BY SettingsAssumption DEF SetIf, Documents, Configs
  <1>5. (IF c.off # {} \/ doc.off # NoProviders THEN c.off ELSE doc.off)
            \in {NoProviders} \cup SUBSET Ids
    BY DEF Documents, Configs
  <1>6. ApplyToDoc(doc, c) =
            [doc EXCEPT !.warning = SetIf(doc.warning, c.warning, Warning),
                        !.critical = SetIf(doc.critical, c.critical, Critical),
                        !.off = IF c.off # {} \/ doc.off # NoProviders THEN c.off ELSE doc.off,
                        !.waybar = w]
    BY DEF ApplyToDoc, Documents
  <1> HIDE DEF w
  <1> QED
    BY <1>3, <1>4, <1>5, <1>6 DEF Documents

\* A list toggled at an id names each provider once, when it did.
LEMMA ToggleTyped ==
    ASSUME NEW list \in {AllShown} \cup IdLists, NEW all \in IdLists, NEW id \in Ids
    PROVE  toggle_id(list, all, id) \in IdLists
  <1> DEFINE current == IF list = AllShown THEN all ELSE list
  <1>1. current \in Seq(Ids) /\ IsInjective(current)
    BY DEF IdLists
  <1>2. toggle_id(list, all, id) = IF Contains(current, id) THEN Without(current, {id})
                                   ELSE Append(current, id)
    BY DEF toggle_id
  <1> HIDE DEF current
  <1>3. CASE Contains(current, id)
    <2>1. Without(current, {id}) \in Seq(Ids) /\ IsInjective(Without(current, {id}))
      BY <1>1, WithoutIs
    <2> QED
      BY <1>2, <1>3, <2>1 DEF IdLists
  <1>4. CASE ~Contains(current, id)
    <2> DEFINE t == Append(current, id)
    <2>1. /\ t \in Seq(Ids) /\ Len(t) = Len(current) + 1 /\ t[Len(current) + 1] = id
          /\ \A i \in 1 .. Len(current) : t[i] = current[i]
      BY <1>1, AppendProperties
    <2>2. \A i \in 1 .. Len(current) : current[i] # id
      BY <1>4 DEF Contains
    <2>3. Len(current) \in Nat /\ DOMAIN current = 1 .. Len(current)
          /\ DOMAIN t = 1 .. Len(current) + 1
      BY <1>1, <2>1, LenProperties
    <2>4. \A i, j \in 1 .. Len(current) : current[i] = current[j] => i = j
      BY <1>1, <2>3 DEF IsInjective
    <2> HIDE DEF t
    <2>5. \A i, j \in 1 .. Len(current) + 1 : t[i] = t[j] => i = j
      BY <2>1, <2>2, <2>3, <2>4
    <2>6. IsInjective(t)
      BY <2>3, <2>5 DEF IsInjective
    <2> QED
      BY <1>2, <1>4, <2>1, <2>6 DEF IdLists, t
  <1> QED
    BY <1>3, <1>4

\* The families in their order, and those of them that are on.
LEMMA FamiliesTyped == Families \in IdLists /\ Len(Families) \in Nat
  <1>1. Families \in Seq(STRING) /\ IsInjective(Families)
    BY SettingsAssumption
  <1>2. Families \in [1 .. Len(Families) -> Ids] /\ Len(Families) \in Nat
    BY <1>1, LenProperties DEF Ids, ToSet
  <1>3. Families \in Seq(Ids)
    BY <1>2, SeqDef
  <1> QED
    BY <1>1, <1>2, <1>3 DEF IdLists

LEMMA SurfaceTyped == ASSUME NEW c PROVE Surface(c) \in IdLists
  BY FamiliesTyped, WithoutIs DEF Surface, IdLists

\* The next window of a provider is one that its status has, or none.
LEMMA NextWindowTyped ==
    ASSUME NEW map \in WindowMaps, NEW id \in Ids, NEW dir \in -1 .. 1,
           NEW known \in {<<>>, Labels}
    PROVE  NextWindow(map, id, dir, known) \in WindowMaps
  <1> DEFINE Named == {"auto"} \cup ToSet(Labels)
             options == <<"auto">> \o known
             current == IF id \in DOMAIN map /\ Contains(options, map[id])
                        THEN CHOOSE i \in DOMAIN options : options[i] = map[id] ELSE 1
             next == options[Wrap(current + (IF dir = 0 THEN 1 ELSE dir), Len(options))]
             S == (DOMAIN map \ {id}) \cup IF next = "auto" THEN {} ELSE {id}
  <1>1. known \in Seq(Named) /\ <<"auto">> \in Seq(Named) /\ Len(known) \in Nat
        /\ <<"auto">>[1] = "auto" /\ Len(<<"auto">>) = 1
    <2>1. Labels \in [1 .. Len(Labels) -> ToSet(Labels)] /\ Len(Labels) \in Nat
      BY SettingsAssumption, LenProperties DEF ToSet
    <2>2. Labels \in [1 .. Len(Labels) -> Named]
      BY <2>1
    <2>3. Labels \in Seq(Named)
      <3> HIDE DEF Named
      <3> QED
        BY <2>1, <2>2, SeqDef
    <2>4. known \in Seq(Named)
      BY <2>3, EmptySeq
    <2>5. "auto" \in Named
      OBVIOUS
    <2> HIDE DEF Named
    <2>6. Len(known) \in Nat
      BY <2>4, LenProperties
    <2> QED
      BY <2>4, <2>5, <2>6
  <1>2. /\ options \in Seq(Named) /\ Len(options) = 1 + Len(known)
        /\ \A i \in 1 .. 1 + Len(known) : options[i] = IF i <= 1 THEN "auto" ELSE known[i - 1]
    BY <1>1, ConcatProperties
  <1>3. DOMAIN options = 1 .. Len(options)
    BY <1>2, LenProperties
  <1>4. current \in 1 .. Len(options)
    <2>1. ASSUME id \in DOMAIN map, Contains(options, map[id])
          PROVE  (CHOOSE i \in DOMAIN options : options[i] = map[id]) \in DOMAIN options
      BY <1>3, <2>1 DEF Contains
    <2>2. 1 \in DOMAIN options
      BY <1>1, <1>2, <1>3
    <2>3. current \in DOMAIN options
      <3> HIDE DEF options
      <3> QED
        BY <2>1, <2>2
    <2> QED
      BY <1>3, <2>3
  <1>5. Wrap(current + (IF dir = 0 THEN 1 ELSE dir), Len(options)) \in 1 .. Len(options)
    <2> HIDE DEF options, current
    <2> DEFINE n == current + (IF dir = 0 THEN 1 ELSE dir)
               len == Len(options)
    <2>1. n \in Int /\ len \in Nat /\ len > 0
      BY <1>1, <1>2, <1>4
    <2> HIDE DEF n, len
    <2>2. (n - 1) % len \in 0 .. len - 1
      BY <2>1
    <2>3. Wrap(n, len) \in 1 .. len
      BY <2>1, <2>2 DEF Wrap
    <2> QED
      BY <2>3 DEF n, len
  <1>6. next = "auto" \/ next \in ToSet(Labels)
    <2> HIDE DEF current, options
    <2> DEFINE at == Wrap(current + (IF dir = 0 THEN 1 ELSE dir), Len(options))
    <2>1. at \in 1 .. 1 + Len(known)
      BY <1>2, <1>5
    <2> HIDE DEF at
    <2>2. options[at] = IF at <= 1 THEN "auto" ELSE known[at - 1]
      BY <1>2, <2>1
    <2>3. CASE at <= 1
      BY <2>2, <2>3 DEF at
    <2>4. CASE at > 1
      <3>1. at - 1 \in 1 .. Len(known)
        BY <1>1, <2>1, <2>4
      <3>2. known = Labels
        BY <3>1
      <3>3. DOMAIN Labels = 1 .. Len(Labels)
        BY SettingsAssumption, LenProperties
      <3>4. known[at - 1] \in ToSet(Labels)
        BY <3>1, <3>2, <3>3 DEF ToSet
      <3> QED
        BY <2>1, <2>2, <2>4, <3>4 DEF at
    <2> QED
      BY <2>1, <2>3, <2>4
  <1>7. PICK T \in SUBSET Ids : map \in [T -> ToSet(Labels)]
    BY DEF WindowMaps
  <1>8. NextWindow(map, id, dir, known) = [i \in S |-> IF i = id THEN next ELSE map[i]]
    BY DEF NextWindow
  <1> HIDE DEF next
  <1>9. [i \in S |-> IF i = id THEN next ELSE map[i]] \in [S -> ToSet(Labels)]
    BY <1>6, <1>7
  <1>10. S \in SUBSET Ids
    BY <1>7
  <1> QED
    BY <1>8, <1>9, <1>10 DEF WindowMaps

-----------------------------------------------------------------------------
(* The rows of the modal.                                                  *)

Kinds == {"section", "warning", "critical", "provider", "percent", "shown", "window"}
RowSet == [kind : Kinds, id : Ids \cup {""}]

LEMMA RowKind == ASSUME NEW kind, NEW id PROVE Row(kind, id).kind = kind
  BY DEF Row

LEMMA RowTyped ==
    ASSUME NEW kind \in Kinds, NEW id \in Ids \cup {""}
    PROVE  Row(kind, id) \in RowSet /\ Row(kind, id).kind = kind /\ Row(kind, id).id = id
  BY DEF Row, RowSet

LEMMA RowsAre ==
    ASSUME NEW kind \in Kinds, NEW ids \in IdLists
    PROVE  /\ Rows(kind, ids) \in Seq(RowSet) /\ Len(Rows(kind, ids)) = Len(ids)
           /\ \A i \in 1 .. Len(ids) : Rows(kind, ids)[i] = Row(kind, ids[i])
  <1>1. ids \in Seq(Ids) /\ Len(ids) \in Nat /\ DOMAIN ids = 1 .. Len(ids)
    BY LenProperties DEF IdLists
  <1>2. \A i \in 1 .. Len(ids) : Row(kind, ids[i]) \in RowSet
    BY <1>1, RowTyped, ElementOfSeq
  <1>3. Rows(kind, ids) = [i \in 1 .. Len(ids) |-> Row(kind, ids[i])]
    BY <1>1 DEF Rows
  <1> HIDE DEF RowSet
  <1>4. Rows(kind, ids) \in [1 .. Len(ids) -> RowSet]
    BY <1>2, <1>3
  <1>5. Rows(kind, ids) \in Seq(RowSet)
    BY <1>1, <1>4, SeqDef
  <1>6. Len(Rows(kind, ids)) = Len(ids)
    BY <1>1, <1>4, <1>5, LenProperties
  <1> QED
    BY <1>3, <1>5, <1>6

\* Short lists.
LEMMA Tuple1 == ASSUME NEW S, NEW a \in S
                PROVE  <<a>> \in Seq(S) /\ Len(<<a>>) = 1 /\ <<a>>[1] = a
  OBVIOUS

LEMMA Tuple2 == ASSUME NEW S, NEW a \in S, NEW b \in S
                PROVE  <<a, b>> \in Seq(S) /\ Len(<<a, b>>) = 2 /\ <<a, b>>[1] = a /\ <<a, b>>[2] = b
  OBVIOUS

LEMMA Tuple4 ==
    ASSUME NEW S, NEW a \in S, NEW b \in S, NEW c \in S, NEW d \in S
    PROVE  LET t == <<a, b, c, d>>
           IN  t \in Seq(S) /\ Len(t) = 4 /\ t[1] = a /\ t[2] = b /\ t[3] = c /\ t[4] = d
  OBVIOUS

\* The row at each position.
LEMMA ItemsAre ==
    ASSUME NEW c
    PROVE  LET items == settings_items(c)
               s == Surface(c)
               n == Len(Families)
               m == Len(s)
           IN  /\ n \in Nat /\ m \in Nat
               /\ items \in Seq(RowSet) /\ Len(items) = 7 + n + 2 * m
               /\ \A i \in {1, 4, 5 + n, 7 + n + m} : items[i] = Section
               /\ items[2] = Row("warning", "") /\ items[3] = Row("critical", "")
               /\ \A i \in 5 .. 4 + n : items[i] = Row("provider", Families[i - 4])
               /\ items[6 + n] = Row("percent", "")
               /\ \A i \in 7 + n .. 6 + n + m : items[i] = Row("shown", s[i - 6 - n])
               /\ \A i \in 8 + n + m .. 7 + n + 2 * m : items[i] = Row("window", s[i - 7 - n - m])
  <1> DEFINE s == Surface(c)
             n == Len(Families)
             m == Len(s)
             A == <<Section, Row("warning", ""), Row("critical", ""), Section>>
             B == Rows("provider", Families)
             C == <<Section, Row("percent", "")>>
             D == Rows("shown", s)
             E == <<Section>>
             F == Rows("window", s)
  <1>1. s \in IdLists /\ n \in Nat /\ m \in Nat
    BY SurfaceTyped, FamiliesTyped, LenProperties DEF IdLists
  <1>2. /\ Section \in RowSet /\ Row("warning", "") \in RowSet
        /\ Row("critical", "") \in RowSet /\ Row("percent", "") \in RowSet
    BY DEF Section, Row, RowSet, Kinds
  <1>3. /\ A \in Seq(RowSet) /\ Len(A) = 4 /\ A[1] = Section /\ A[2] = Row("warning", "")
        /\ A[3] = Row("critical", "") /\ A[4] = Section
    BY <1>2, Tuple4
  <1>4. C \in Seq(RowSet) /\ Len(C) = 2 /\ C[1] = Section /\ C[2] = Row("percent", "")
    BY <1>2, Tuple2
  <1>5. E \in Seq(RowSet) /\ Len(E) = 1 /\ E[1] = Section
    BY <1>2, Tuple1
  <1>6. B \in Seq(RowSet) /\ Len(B) = n /\ \A i \in 1 .. n : B[i] = Row("provider", Families[i])
    BY RowsAre, FamiliesTyped DEF Kinds
  <1>7. D \in Seq(RowSet) /\ Len(D) = m /\ \A i \in 1 .. m : D[i] = Row("shown", s[i])
    BY RowsAre, <1>1 DEF Kinds
  <1>8. F \in Seq(RowSet) /\ Len(F) = m /\ \A i \in 1 .. m : F[i] = Row("window", s[i])
    BY RowsAre, <1>1 DEF Kinds
  <1>9. settings_items(c) = ((((A \o B) \o C) \o D) \o E) \o F
    BY DEF settings_items
  <1> HIDE DEF A, B, C, D, E, F, m, n, s
  <1>10. /\ A \o B \in Seq(RowSet) /\ Len(A \o B) = 4 + n
         /\ \A i \in 1 .. 4 + n : (A \o B)[i] = IF i <= 4 THEN A[i] ELSE B[i - 4]
    <2>1. /\ A \o B \in Seq(RowSet) /\ Len(A \o B) = Len(A) + Len(B)
          /\ \A i \in 1 .. Len(A) + Len(B) :
                (A \o B)[i] = IF i <= Len(A) THEN A[i] ELSE B[i - Len(A)]
      BY <1>3, <1>6, ConcatProperties
    <2> QED
      BY <1>1, <1>3, <1>6, <2>1
  <1> DEFINE P == A \o B
  <1> HIDE DEF P
  <1>11. /\ P \o C \in Seq(RowSet) /\ Len(P \o C) = 6 + n
         /\ \A i \in 1 .. 6 + n : (P \o C)[i] = IF i <= 4 + n THEN P[i] ELSE C[i - (4 + n)]
    <2>1. P \in Seq(RowSet) /\ Len(P) = 4 + n
      BY <1>10 DEF P
    <2>2. /\ P \o C \in Seq(RowSet) /\ Len(P \o C) = Len(P) + Len(C)
          /\ \A i \in 1 .. Len(P) + Len(C) :
                (P \o C)[i] = IF i <= Len(P) THEN P[i] ELSE C[i - Len(P)]
      BY <2>1, <1>4, ConcatProperties
    <2>5. Len(C) = 2
      BY <1>4
    <2>3. Len(P) + Len(C) = 6 + n
      BY <1>1, <2>1, <2>5
    <2>4. \A i \in 1 .. 6 + n : (P \o C)[i] = IF i <= 4 + n THEN P[i] ELSE C[i - (4 + n)]
      BY <2>1, <2>2, <2>3
    <2> QED
      BY <2>2, <2>3, <2>4
  <1> DEFINE Q == P \o C
  <1> HIDE DEF Q
  <1>12. /\ Q \o D \in Seq(RowSet) /\ Len(Q \o D) = 6 + n + m
         /\ \A i \in 1 .. 6 + n + m : (Q \o D)[i] = IF i <= 6 + n THEN Q[i] ELSE D[i - 6 - n]
    <2>1. Q \in Seq(RowSet) /\ Len(Q) = 6 + n
      BY <1>11 DEF Q
    <2>2. /\ Q \o D \in Seq(RowSet) /\ Len(Q \o D) = Len(Q) + Len(D)
          /\ \A i \in 1 .. Len(Q) + Len(D) :
                (Q \o D)[i] = IF i <= Len(Q) THEN Q[i] ELSE D[i - Len(Q)]
      BY <2>1, <1>7, ConcatProperties
    <2> QED
      BY <1>1, <1>7, <2>1, <2>2
  <1> DEFINE T == Q \o D
  <1> HIDE DEF T
  <1>13. /\ T \o E \in Seq(RowSet) /\ Len(T \o E) = 7 + n + m
         /\ \A i \in 1 .. 7 + n + m : (T \o E)[i] = IF i <= 6 + n + m THEN T[i] ELSE Section
    <2>1. T \in Seq(RowSet) /\ Len(T) = 6 + n + m
      BY <1>12 DEF T
    <2>2. /\ T \o E \in Seq(RowSet) /\ Len(T \o E) = Len(T) + Len(E)
          /\ \A i \in 1 .. Len(T) + Len(E) :
                (T \o E)[i] = IF i <= Len(T) THEN T[i] ELSE E[i - Len(T)]
      BY <2>1, <1>5, ConcatProperties
    <2>3. \A i \in 1 .. 7 + n + m : ~(i <= 6 + n + m) => i - Len(T) = 1
      BY <1>1, <2>1
    <2>4. Len(T) + Len(E) = 7 + n + m
      BY <1>1, <1>5, <2>1
    <2>5. \A i \in 1 .. 7 + n + m : (T \o E)[i] = IF i <= 6 + n + m THEN T[i] ELSE E[i - Len(T)]
      BY <2>1, <2>2, <2>4
    <2> QED
      BY <1>5, <2>2, <2>3, <2>4, <2>5
  <1> DEFINE U == T \o E
  <1> HIDE DEF U
  <1>14. /\ U \o F \in Seq(RowSet) /\ Len(U \o F) = 7 + n + 2 * m
         /\ \A i \in 1 .. 7 + n + 2 * m :
               (U \o F)[i] = IF i <= 7 + n + m THEN U[i] ELSE F[i - 7 - n - m]
    <2>1. U \in Seq(RowSet) /\ Len(U) = 7 + n + m
      BY <1>13 DEF U
    <2>2. /\ U \o F \in Seq(RowSet) /\ Len(U \o F) = Len(U) + Len(F)
          /\ \A i \in 1 .. Len(U) + Len(F) :
                (U \o F)[i] = IF i <= Len(U) THEN U[i] ELSE F[i - Len(U)]
      BY <2>1, <1>8, ConcatProperties
    <2> QED
      BY <1>1, <1>8, <2>1, <2>2
  <1>15. settings_items(c) = U \o F
    BY <1>9 DEF U, T, Q, P
  <1> DEFINE items == U \o F
  <1>16. \A i \in 1 .. 4 + n : items[i] = IF i <= 4 THEN A[i] ELSE Row("provider", Families[i - 4])
    <2> SUFFICES ASSUME NEW i \in 1 .. 4 + n
                 PROVE  items[i] = IF i <= 4 THEN A[i] ELSE Row("provider", Families[i - 4])
      OBVIOUS
    <2>1. items[i] = U[i] /\ U[i] = T[i] /\ T[i] = Q[i] /\ Q[i] = P[i]
      <3>1. items[i] = U[i]
        <4>1. i \in 1 .. 7 + n + 2 * m /\ i <= 7 + n + m
          BY <1>1
        <4> QED
          BY <1>14, <4>1
      <3>2. U[i] = T[i]
        BY <1>1, <1>13 DEF U
      <3>3. T[i] = Q[i]
        BY <1>1, <1>12 DEF T
      <3>4. Q[i] = P[i]
        BY <1>1, <1>11 DEF Q
      <3> QED
        BY <3>1, <3>2, <3>3, <3>4
    <2>2. P[i] = IF i <= 4 THEN A[i] ELSE B[i - 4]
      BY <1>1, <1>10 DEF P
    <2>3. i > 4 => B[i - 4] = Row("provider", Families[i - 4])
      <3>1. i > 4 => i - 4 \in 1 .. n
        BY <1>1
      <3> QED
        BY <1>6, <3>1
    <2> QED
      BY <1>1, <2>1, <2>2, <2>3
  <1>17. items[5 + n] = Section /\ items[6 + n] = Row("percent", "")
    <2> SUFFICES ASSUME NEW k \in {1, 2} PROVE items[4 + n + k] = C[k]
      <3>1. 4 + n + 1 = 5 + n /\ 4 + n + 2 = 6 + n
        BY <1>1
      <3>2. items[4 + n + 1] = C[1] /\ items[4 + n + 2] = C[2]
        OBVIOUS
      <3> QED
        BY <1>4, <3>1, <3>2
    <2> DEFINE i == 4 + n + k
    <2>1. i \in 1 .. 6 + n /\ ~(i <= 4 + n) /\ i - (4 + n) = k
      BY <1>1
    <2> HIDE DEF i
    <2>2. items[i] = U[i]
      BY <1>1, <1>14, <2>1
    <2>3. U[i] = T[i]
      BY <1>1, <1>13, <2>1 DEF U
    <2>4. T[i] = Q[i]
      BY <1>1, <1>12, <2>1 DEF T
    <2>5. Q[i] = C[k]
      BY <1>1, <1>11, <2>1 DEF Q
    <2> QED
      BY <2>2, <2>3, <2>4, <2>5 DEF i
  <1>18. \A i \in 7 + n .. 6 + n + m : items[i] = Row("shown", s[i - 6 - n])
    <2> SUFFICES ASSUME NEW i \in 7 + n .. 6 + n + m PROVE items[i] = Row("shown", s[i - 6 - n])
      OBVIOUS
    <2>1. items[i] = U[i]
      <3>1. i \in 1 .. 7 + n + 2 * m /\ i <= 7 + n + m
        BY <1>1
      <3> QED
        BY <1>14, <3>1
    <2>2. U[i] = T[i]
      BY <1>1, <1>13 DEF U
    <2>3. T[i] = D[i - 6 - n]
      BY <1>1, <1>12 DEF T
    <2>4. i - 6 - n \in 1 .. m
      BY <1>1
    <2> QED
      BY <1>7, <2>1, <2>2, <2>3, <2>4
  <1>19. items[7 + n + m] = Section
    <2>1. items[7 + n + m] = U[7 + n + m]
      BY <1>1, <1>14
    <2> QED
      BY <1>1, <1>13, <2>1 DEF U
  <1>20. \A i \in 8 + n + m .. 7 + n + 2 * m : items[i] = Row("window", s[i - 7 - n - m])
    <2> SUFFICES ASSUME NEW i \in 8 + n + m .. 7 + n + 2 * m
                 PROVE  items[i] = Row("window", s[i - 7 - n - m])
      OBVIOUS
    <2>1. items[i] = F[i - 7 - n - m]
      BY <1>1, <1>14
    <2>2. i - 7 - n - m \in 1 .. m
      BY <1>1
    <2> QED
      BY <1>8, <2>1, <2>2
  <1>21. /\ items[1] = Section /\ items[4] = Section
         /\ items[2] = Row("warning", "") /\ items[3] = Row("critical", "")
    <2>1. \A i \in {1, 2, 3, 4} : items[i] = A[i]
      <3> SUFFICES ASSUME NEW i \in {1, 2, 3, 4} PROVE items[i] = A[i]
        OBVIOUS
      <3>1. i \in 1 .. 4 + n /\ i <= 4
        BY <1>1
      <3> QED
        BY <1>16, <3>1
    <2> HIDE DEF items
    <2> QED
      BY <1>3, <2>1
  <1>22. \A i \in 5 .. 4 + n : items[i] = Row("provider", Families[i - 4])
    <2> SUFFICES ASSUME NEW i \in 5 .. 4 + n PROVE items[i] = Row("provider", Families[i - 4])
      OBVIOUS
    <2>1. i \in 1 .. 4 + n /\ ~(i <= 4)
      BY <1>1
    <2> QED
      BY <1>16, <2>1
  <1>23. settings_items(c) = items /\ items \in Seq(RowSet) /\ Len(items) = 7 + n + 2 * m
    BY <1>14, <1>15
  <1> HIDE DEF items
  <1> QED
    BY <1>1, <1>17, <1>18, <1>19, <1>20, <1>21, <1>22, <1>23 DEF n, m, s

\* A row that is not a section: what it may be about, and where the providers are.
LEMMA RowFacts ==
    ASSUME NEW c, NEW i \in DOMAIN settings_items(c), settings_items(c)[i] # Section
    PROVE  LET row == settings_items(c)[i]
               m == Len(Surface(c))
           IN  /\ row.kind \in Kinds \ {"section"}
               /\ row.kind \in {"provider", "shown", "window"} => row.id \in Ids
               /\ row.kind = "provider" <=> i \in 5 .. 4 + Len(Families)
  <1> DEFINE items == settings_items(c)
             s == Surface(c)
             n == Len(Families)
             m == Len(s)
  <1>1. n \in Nat /\ m \in Nat /\ i \in 1 .. 7 + n + 2 * m
    BY ItemsAre, LenProperties
  <1>2. /\ s \in Seq(Ids) /\ Families \in Seq(Ids)
    BY SurfaceTyped, FamiliesTyped DEF IdLists
  <1> HIDE DEF s, n, m, items
  <1>3. CASE i = 2
    <2>1. items[i] = Row("warning", "")
      BY <1>3, ItemsAre DEF items
    <2>2. items[i].kind = "warning"
      BY <2>1, RowKind, Zenon
    <2>3. i \notin 5 .. 4 + n
      BY <1>1, <1>3
    <2> QED
      BY <2>2, <2>3 DEF Kinds, items, n
  <1>4. CASE i = 3
    <2>1. items[i] = Row("critical", "")
      BY <1>4, ItemsAre DEF items
    <2>2. items[i].kind = "critical"
      BY <2>1, RowKind, Zenon
    <2>3. i \notin 5 .. 4 + n
      BY <1>1, <1>4
    <2> QED
      BY <2>2, <2>3 DEF Kinds, items, n
  <1>5. CASE i \in 5 .. 4 + n
    <2>1. items[i] = Row("provider", Families[i - 4])
      BY <1>5, ItemsAre DEF items, n
    <2>2. i - 4 \in 1 .. Len(Families)
      BY <1>1, <1>5 DEF n
    <2>3. Families[i - 4] \in Ids
      BY <1>2, <2>2, ElementOfSeq
    <2>4. items[i].kind = "provider" /\ items[i].id \in Ids
      BY <2>1, <2>3 DEF Row
    <2> QED
      BY <1>5, <2>4 DEF Kinds, items, n, m, s
  <1>6. CASE i = 6 + n
    <2>1. items[i] = Row("percent", "")
      BY <1>6, ItemsAre DEF items, n
    <2>2. items[i].kind = "percent"
      BY <2>1, RowKind, Zenon
    <2>3. i \notin 5 .. 4 + n
      BY <1>1, <1>6
    <2> QED
      BY <2>2, <2>3 DEF Kinds, items, n
  <1>7. CASE i \in 7 + n .. 6 + n + m
    <2>1. items[i] = Row("shown", s[i - 6 - n])
      BY <1>7, ItemsAre DEF items, n, m, s
    <2>2. i - 6 - n \in 1 .. Len(s)
      BY <1>1, <1>7 DEF m
    <2>3. s[i - 6 - n] \in Ids
      BY <1>2, <2>2, ElementOfSeq
    <2>4. items[i].kind = "shown" /\ items[i].id \in Ids
      BY <2>1, <2>3 DEF Row
    <2>5. i \notin 5 .. 4 + n
      BY <1>1, <1>7
    <2> QED
      BY <2>4, <2>5 DEF Kinds, items, n, m, s
  <1>8. CASE i \in 8 + n + m .. 7 + n + 2 * m
    <2>1. items[i] = Row("window", s[i - 7 - n - m])
      BY <1>8, ItemsAre DEF items, n, m, s
    <2>2. i - 7 - n - m \in 1 .. Len(s)
      BY <1>1, <1>8 DEF m
    <2>3. s[i - 7 - n - m] \in Ids
      BY <1>2, <2>2, ElementOfSeq
    <2>4. items[i].kind = "window" /\ items[i].id \in Ids
      BY <2>1, <2>3 DEF Row
    <2>5. i \notin 5 .. 4 + n
      BY <1>1, <1>8
    <2> QED
      BY <2>4, <2>5 DEF Kinds, items, n, m, s
  <1>9. i \notin {1, 4, 5 + n, 7 + n + m}
    BY ItemsAre DEF n, m, s
  <1> QED
    BY <1>1, <1>3, <1>4, <1>5, <1>6, <1>7, <1>8, <1>9

\* A row stays where it is when the providers that are on do, and the rows of the
\* providers do in any case.
LEMMA RowStays ==
    ASSUME NEW c, NEW d, NEW i \in DOMAIN settings_items(c), settings_items(c)[i] # Section,
           settings_items(c)[i].kind = "provider" \/ d.off = c.off
    PROVE  i \in DOMAIN settings_items(d) /\ settings_items(d)[i] = settings_items(c)[i]
  <1>1. CASE d.off = c.off
    <2>1. Surface(d) = Surface(c)
      BY <1>1 DEF Surface
    <2>2. settings_items(d) = settings_items(c)
      BY <2>1 DEF settings_items
    <2> QED
      BY <2>2
  <1>2. CASE settings_items(c)[i].kind = "provider"
    <2> DEFINE n == Len(Families)
    <2>1. i \in 5 .. 4 + n
      BY <1>2, RowFacts
    <2>2. settings_items(c)[i] = Row("provider", Families[i - 4])
      BY <2>1, ItemsAre
    <2>3. settings_items(d)[i] = Row("provider", Families[i - 4])
      BY <2>1, ItemsAre
    <2>4. n \in Nat /\ Len(Surface(d)) \in Nat
          /\ DOMAIN settings_items(d) = 1 .. 7 + n + 2 * Len(Surface(d))
      BY ItemsAre, LenProperties
    <2> QED
      BY <2>1, <2>2, <2>3, <2>4
  <1> QED
    BY <1>1, <1>2

\* The second row can be changed, whatever the configuration.
LEMMA SecondRow ==
    ASSUME NEW c PROVE 2 \in DOMAIN settings_items(c) /\ settings_items(c)[2] # Section
  <1>1. settings_items(c)[2] = Row("warning", "")
    BY ItemsAre
  <1>2. 2 \in DOMAIN settings_items(c)
    <2> DEFINE n == Len(Families)
               m == Len(Surface(c))
    <2>1. n \in Nat /\ m \in Nat /\ DOMAIN settings_items(c) = 1 .. 7 + n + 2 * m
      BY ItemsAre, LenProperties
    <2> HIDE DEF n, m
    <2> QED
      BY <2>1
  <1>3. Row("warning", "").kind = "warning" /\ Section.kind = "section"
    BY DEF Row, Section
  <1> QED
    BY <1>1, <1>2, <1>3

\* A change of a setting gives a configuration, with the same providers on unless the row
\* is that of a provider.
LEMMA ChangedTyped ==
    ASSUME NEW c \in Configs, NEW row, NEW dir \in -1 .. 1, NEW known \in {<<>>, Labels},
           row.kind \in Kinds \ {"section"},
           row.kind \in {"provider", "shown", "window"} => row.id \in Ids
    PROVE  LET d == Changed(c, row, dir, known)
           IN  d \in Configs /\ (row.kind # "provider" => d.off = c.off)
  <1> DEFINE d == Changed(c, row, dir, known)
  <1>0. Highest \in Nat /\ Highest > 0
    BY SettingsAssumption
  <1>1. \A n \in Int : Clamp(n) \in 0 .. Highest
    BY <1>0 DEF Clamp
  <1>2. CASE row.kind = "warning"
    <2>1. d = [c EXCEPT !.warning = IF dir = 0 THEN c.warning ELSE Clamp(c.warning + dir)]
      BY <1>2 DEF Changed, Configs
    <2>2. (IF dir = 0 THEN c.warning ELSE Clamp(c.warning + dir)) \in 0 .. Highest
      <3>1. c.warning \in 0 .. Highest
        BY DEF Configs
      <3>2. c.warning + dir \in Int
        BY <1>0, <3>1
      <3> QED
        BY <1>1, <3>1, <3>2
    <2> QED
      BY <1>2, <2>1, <2>2 DEF Configs
  <1>3. CASE row.kind = "critical"
    <2>1. d = [c EXCEPT !.critical = IF dir = 0 THEN c.critical ELSE Clamp(c.critical + dir)]
      BY <1>3 DEF Changed, Configs
    <2>2. (IF dir = 0 THEN c.critical ELSE Clamp(c.critical + dir)) \in 0 .. Highest
      <3>1. c.critical \in 0 .. Highest
        BY DEF Configs
      <3>2. c.critical + dir \in Int
        BY <1>0, <3>1
      <3> QED
        BY <1>1, <3>1, <3>2
    <2> QED
      BY <1>3, <2>1, <2>2 DEF Configs
  <1>4. CASE row.kind = "provider"
    <2>1. d = [c EXCEPT !.off = SymDiff(c.off, {row.id})]
      BY <1>4 DEF Changed, Configs
    <2>2. SymDiff(c.off, {row.id}) \subseteq Ids
      BY <1>4 DEF Configs, SymDiff
    <2> QED
      BY <1>4, <2>1, <2>2 DEF Configs
  <1>5. CASE row.kind = "percent"
    <2>1. d = [c EXCEPT !.percent = IF c.percent = "off" THEN "on" ELSE "off"]
      BY <1>5 DEF Changed, Configs
    <2> QED
      BY <1>5, <2>1 DEF Configs
  <1>6. CASE row.kind = "shown"
    <2>1. d = [c EXCEPT !.shown = toggle_id(c.shown, Surface(c), row.id)]
      BY <1>6 DEF Changed, Configs
    <2>2. toggle_id(c.shown, Surface(c), row.id) \in IdLists
      BY <1>6, SurfaceTyped, ToggleTyped DEF Configs
    <2> QED
      BY <1>6, <2>1, <2>2 DEF Configs
  <1>7. CASE row.kind = "window"
    <2>1. d = [c EXCEPT !.window = NextWindow(c.window, row.id, dir, known)]
      BY <1>7 DEF Changed, Configs
    <2>2. NextWindow(c.window, row.id, dir, known) \in WindowMaps
      BY <1>7, NextWindowTyped DEF Configs
    <2> QED
      BY <1>7, <2>1, <2>2 DEF Configs
  <1> QED
    BY <1>2, <1>3, <1>4, <1>5, <1>6, <1>7 DEF Kinds

\* Around the rows once, one comes back to where one was.
LEMMA WrapIs ==
    ASSUME NEW len \in Nat, len > 0, NEW n \in Int
    PROVE  Wrap(n, len) \in 1 .. len /\ (n \in 1 .. len => Wrap(n + len, len) = n /\ Wrap(n - len, len) = n)
  <1>1. (n - 1) % len \in 0 .. len - 1
    OBVIOUS
  <1>2. ASSUME n \in 1 .. len PROVE (n + len - 1) % len = n - 1 /\ (n - len - 1) % len = n - 1
    <2> DEFINE x == n - 1
    <2>1. x \in 0 .. len - 1
      BY <1>2
    <2> HIDE DEF x
    <2>2. (x + len) % len = x /\ (x - len) % len = x
      BY <2>1
    <2>3. n + len - 1 = x + len /\ n - len - 1 = x - len
      BY DEF x
    <2> QED
      BY <2>2, <2>3 DEF x
  <1> QED
    BY <1>1, <1>2 DEF Wrap

\* From a row that can be changed, settings_move reaches one.
LEMMA MoveLands ==
    ASSUME NEW S, NEW items \in Seq(S), NEW from \in DOMAIN items, items[from] # Section,
           NEW delta \in {-1, 1}
    PROVE  LET to == settings_move(items, from, delta)
           IN  to \in DOMAIN items /\ items[to] # Section
  <1> DEFINE at(k) == Wrap(from + k * delta, Len(items))
             steps == {k \in 1 .. Len(items) : items[at(k)] # Section}
  <1>1. Len(items) \in Nat /\ DOMAIN items = 1 .. Len(items)
    BY LenProperties
  <1>2. Len(items) > 0 /\ from \in 1 .. Len(items)
    BY <1>1
  <1>3. \A k \in Nat : at(k) \in DOMAIN items
    <2>1. \A k \in Nat : from + k * delta \in Int
      BY <1>1, <1>2
    <2> QED
      BY <1>1, <1>2, <2>1, WrapIs
  <1>4. at(Len(items)) = from
    <2> DEFINE len == Len(items)
    <2>1. from + len * delta = from + len \/ from + len * delta = from - len
      BY <1>1, <1>2
    <2>2. Wrap(from + len, len) = from /\ Wrap(from - len, len) = from
      <3>1. len \in Nat /\ len > 0 /\ from \in Int /\ from \in 1 .. len
        BY <1>1, <1>2
      <3> HIDE DEF len
      <3> QED
        BY <3>1, WrapIs
    <2> HIDE DEF len
    <2>3. Wrap(from + len * delta, len) = from
      BY <2>1, <2>2
    <2> QED
      BY <2>3 DEF len
  <1>5. steps # {} /\ steps \in SUBSET Nat
    <2>1. Len(items) \in 1 .. Len(items)
      BY <1>1, <1>2
    <2> HIDE DEF at
    <2> QED
      BY <1>1, <1>4, <2>1
  <1>6. \A k \in steps : at(k) \in DOMAIN items /\ items[at(k)] # Section
    BY <1>1, <1>3
  <1>7. settings_move(items, from, delta) = at(CHOOSE k \in steps : \A j \in steps : k <= j)
    BY DEF settings_move
  <1> HIDE DEF at, steps
  <1>8. (CHOOSE k \in steps : \A j \in steps : k <= j) \in steps
    BY <1>5, LeastNat
  <1> QED
    BY <1>6, <1>7, <1>8

-----------------------------------------------------------------------------
(* Types of the states.                                                    *)

LEMMA TypedInit == Init => Typed
  <1> SUFFICES ASSUME Init PROVE Typed
    OBVIOUS
  <1> USE DEF Init
  <1>1. env \in Environments /\ file \in Documents /\ authored \in Documents
    BY DocumentsAssumption
  <1>2. mem \in [Procs -> Configs]
    BY <1>1, LoadTyped
  <1>3. left \in [presses : Nat, edits : Nat, restarts : Nat, faults : Nat]
    BY <1>1, DocumentsAssumption
  <1> QED
    BY <1>1, <1>2, <1>3 DEF Typed

\* What a key press does to a configuration.
LEMMA PressTyped ==
    ASSUME Typed, NEW p \in Procs, NEW dir \in -1 .. 1, NEW known \in {<<>>, Labels},
           cursor[p] \in DOMAIN settings_items(mem[p]), Focus(p) # Section
    PROVE  LET d == Changed(mem[p], Focus(p), dir, known)
           IN  d \in Configs /\ (Focus(p).kind # "provider" => d.off = mem[p].off)
  <1>1. mem[p] \in Configs
    BY DEF Typed
  <1>2. /\ Focus(p).kind \in Kinds \ {"section"}
        /\ Focus(p).kind \in {"provider", "shown", "window"} => Focus(p).id \in Ids
    BY RowFacts DEF Focus
  <1> QED
    BY <1>1, <1>2, ChangedTyped

\* The focus of an open modal.
FocusInv ==
    \A p \in Procs : cursor[p] # 0 => /\ cursor[p] \in DOMAIN settings_items(mem[p])
                                      /\ Focus(p) # Section

LEMMA TypedStep == Typed /\ FocusInv /\ [Next]_vars => Typed'
  <1> SUFFICES ASSUME Typed, FocusInv, [Next]_vars PROVE Typed'
    OBVIOUS
  <1> USE DEF Typed
  <1>1. ASSUME NEW p \in Procs, Open(p) PROVE Typed'
    BY <1>1 DEF Open, history
  <1>2. ASSUME NEW p \in Procs, Close(p) PROVE Typed'
    BY <1>2 DEF Close, history
  <1>3. ASSUME NEW p \in Procs, Save(p) PROVE Typed'
    <2>1. CASE task[p].doc \in Documents
      <3>1. ApplyToDoc(task[p].doc, mem[p]) \in Documents
        BY <2>1, ApplyTyped
      <3>2. file' \in Documents
        BY <1>3, <3>1 DEF Save
      <3>3. left' \in [presses : Nat, edits : Nat, restarts : Nat, faults : Nat]
        BY <1>3 DEF Save, Spend
      <3>4. error' \in [Procs -> BOOLEAN]
        BY <1>3 DEF Save
      <3>5. task' \in [Procs -> {NoTask} \cup Tasks]
        BY <1>3 DEF Save
      <3>6. standing' \subseteq Procs /\ blind' \in BOOLEAN
        BY <1>3 DEF Save
      <3> QED
        BY <1>3, <3>2, <3>3, <3>4, <3>5, <3>6 DEF Save
    <2>2. task[p].doc \in Documents
      <3>1. NoTask.active = FALSE
        BY DEF NoTask
      <3>2. task[p] \in Tasks
        BY <1>3, <3>1 DEF Save
      <3> QED
        BY <3>2 DEF Tasks
    <2> QED
      BY <2>1, <2>2
  <1>4. ASSUME NEW p \in Procs, Restart(p) PROVE Typed'
    <2>1. PICK unread \in BOOLEAN :
            /\ left.restarts > 0 /\ (unread => left.faults > 0)
            /\ left' = [left EXCEPT !.restarts = @ - 1, !.faults = @ - IF unread THEN 1 ELSE 0]
            /\ mem' = [mem EXCEPT ![p] = IF unread THEN Defaults ELSE Load(file)]
      BY <1>4 DEF Restart
    <2>2. mem' \in [Procs -> Configs]
      BY <2>1, LoadTyped, DefaultsTyped
    <2>3. left' \in [presses : Nat, edits : Nat, restarts : Nat, faults : Nat]
      <3> DEFINE cost == IF unread THEN 1 ELSE 0
      <3>1. left.restarts - 1 \in Nat /\ left.faults - cost \in Nat
        BY <2>1
      <3>2. left' = [left EXCEPT !.restarts = left.restarts - 1, !.faults = left.faults - cost]
        BY <2>1
      <3> HIDE DEF cost
      <3> QED
        BY <3>1, <3>2
    <2> QED
      BY <1>4, <2>2, <2>3 DEF Restart, history
  <1>5. ASSUME NEW p \in Procs, NEW delta \in {-1, 1}, Move(p, delta) PROVE Typed'
    <2> DEFINE items == settings_items(mem[p])
    <2>1. items \in Seq(RowSet) /\ cursor[p] \in DOMAIN items /\ items[cursor[p]] # Section
      BY <1>5, ItemsAre DEF Move, FocusInv, Focus
    <2>2. settings_move(items, cursor[p], delta) \in DOMAIN items
      BY <2>1, MoveLands
    <2>3. DOMAIN items \subseteq Nat
      BY <2>1, LenProperties
    <2> QED
      BY <1>5, <2>2, <2>3 DEF Move, history
  <1>6. ASSUME NEW p \in Procs, NEW dir \in -1 .. 1, Press(p, dir) PROVE Typed'
    <2>1. PICK known \in {<<>>, Labels} : mem' = [mem EXCEPT ![p] = Changed(mem[p], Focus(p), dir, known)]
      BY <1>6 DEF Press
    <2>2. mem' \in [Procs -> Configs]
      BY <1>6, <2>1, PressTyped DEF FocusInv, Press
    <2>3. PICK unread \in BOOLEAN :
            /\ left.presses > 0 /\ (unread => left.faults > 0)
            /\ left' = [left EXCEPT !.presses = @ - 1, !.faults = @ - IF unread THEN 1 ELSE 0]
            /\ IF ~unread /\ ~file.toml
               THEN /\ error' = [error EXCEPT ![p] = TRUE]
                    /\ UNCHANGED task
               ELSE /\ task' = [task EXCEPT ![p] = [active |-> TRUE, blind |-> unread,
                                                doc |-> IF unread THEN EmptyDoc ELSE file]]
                    /\ UNCHANGED error
      BY <1>6 DEF Press
    <2>4. left' \in [presses : Nat, edits : Nat, restarts : Nat, faults : Nat]
      <3> DEFINE cost == IF unread THEN 1 ELSE 0
      <3>1. left.presses - 1 \in Nat /\ left.faults - cost \in Nat
        BY <2>3
      <3>2. left' = [left EXCEPT !.presses = left.presses - 1, !.faults = left.faults - cost]
        BY <2>3
      <3> HIDE DEF cost
      <3> QED
        BY <3>1, <3>2
    <2>5. error' \in [Procs -> BOOLEAN]
      BY <2>3
    <2>6. task' \in [Procs -> {NoTask} \cup Tasks]
      <3> DEFINE doc == IF unread THEN EmptyDoc ELSE file
                 t == [active |-> TRUE, blind |-> unread, doc |-> doc]
      <3>1. CASE ~unread /\ ~file.toml
        BY <2>3, <3>1
      <3>2. CASE ~(~unread /\ ~file.toml)
        <4>1. doc \in Documents /\ doc.toml
          BY <3>2, EmptyDocTyped
        <4>2. task' = [task EXCEPT ![p] = t]
          BY <2>3, <3>2
        <4> HIDE DEF doc
        <4>3. t \in Tasks
          BY <4>1 DEF Tasks
        <4> HIDE DEF t
        <4> QED
          BY <4>2, <4>3
      <3> QED
        BY <3>1, <3>2
    <2> QED
      BY <1>6, <2>2, <2>4, <2>5, <2>6 DEF Press, history
  <1>7. ASSUME Edit PROVE Typed'
    <2>1. env.docs \subseteq Documents
      BY DocumentsAssumption
    <2>2. file' \in Documents /\ authored' \in Documents
      BY <1>7, <2>1 DEF Edit
    <2>3. left' \in [presses : Nat, edits : Nat, restarts : Nat, faults : Nat]
      BY <1>7 DEF Edit, Spend
    <2>4. raced' \in BOOLEAN /\ blind' \in BOOLEAN /\ standing' \subseteq Procs
      BY <1>7 DEF Edit
    <2> QED
      BY <1>7, <2>2, <2>3, <2>4 DEF Edit
  <1>8. ASSUME UNCHANGED vars PROVE Typed'
    BY <1>8 DEF vars
  <1> QED
    BY <1>1, <1>2, <1>3, <1>4, <1>5, <1>6, <1>7, <1>8 DEF Next

LEMMA FocusStep == Typed /\ FocusInv /\ [Next]_vars => FocusInv'
  <1> SUFFICES ASSUME Typed, FocusInv, [Next]_vars, NEW q \in Procs, cursor'[q] # 0
               PROVE  /\ cursor'[q] \in DOMAIN settings_items(mem'[q])
                      /\ settings_items(mem'[q])[cursor'[q]] # Section
    BY DEF FocusInv, Focus
  <1> DEFINE Same == cursor'[q] = cursor[q] /\ mem'[q] = mem[q]
  <1>1. ASSUME Same
        PROVE  /\ cursor'[q] \in DOMAIN settings_items(mem'[q])
               /\ settings_items(mem'[q])[cursor'[q]] # Section
    BY <1>1 DEF FocusInv, Focus
  <1>2. cursor \in [Procs -> Nat] /\ mem \in [Procs -> Configs]
    BY DEF Typed
  <1>3. ASSUME NEW p \in Procs, Open(p)
        PROVE  Same \/ (cursor'[q] = 2 /\ mem' = mem)
    BY <1>2, <1>3 DEF Open
  <1>4. ASSUME NEW p \in Procs, Close(p) \/ Save(p) \/ Restart(p) PROVE Same
    BY <1>2, <1>4 DEF Close, Save, Restart
  <1>5. ASSUME NEW p \in Procs, NEW delta \in {-1, 1}, Move(p, delta)
        PROVE  /\ cursor'[q] \in DOMAIN settings_items(mem'[q])
               /\ settings_items(mem'[q])[cursor'[q]] # Section
    <2>1. CASE q # p
      <3>1. Same
        BY <1>2, <1>5, <2>1 DEF Move
      <3> QED
        BY <1>1, <3>1
    <2>2. CASE q = p
      <3> DEFINE items == settings_items(mem[p])
      <3>1. items \in Seq(RowSet) /\ cursor[p] \in DOMAIN items /\ items[cursor[p]] # Section
        BY <1>5, ItemsAre DEF Move, FocusInv, Focus
      <3>2. cursor'[p] = settings_move(items, cursor[p], delta) /\ mem' = mem
        BY <1>2, <1>5 DEF Move
      <3> QED
        BY <2>2, <3>1, <3>2, MoveLands
    <2> QED
      BY <2>1, <2>2
  <1>6. ASSUME NEW p \in Procs, NEW dir \in -1 .. 1, Press(p, dir)
        PROVE  /\ cursor'[q] \in DOMAIN settings_items(mem'[q])
               /\ settings_items(mem'[q])[cursor'[q]] # Section
    <2>1. CASE q # p
      <3>1. Same
        BY <1>2, <1>6, <2>1 DEF Press
      <3> QED
        BY <1>1, <3>1
    <2>2. CASE q = p
      <3>1. PICK known \in {<<>>, Labels} : mem'[p] = Changed(mem[p], Focus(p), dir, known)
        BY <1>2, <1>6 DEF Press
      <3>2. cursor'[p] = cursor[p]
        BY <1>6 DEF Press
      <3>3. cursor[p] \in DOMAIN settings_items(mem[p]) /\ Focus(p) # Section
        BY <2>2, <3>2 DEF FocusInv
      <3>4. Focus(p).kind = "provider" \/ mem'[p].off = mem[p].off
        BY <3>1, <3>3, PressTyped
      <3> DEFINE c == mem[p]
                 d == mem'[p]
                 i == cursor[p]
      <3>5. /\ i \in DOMAIN settings_items(c) /\ settings_items(c)[i] # Section
            /\ settings_items(c)[i].kind = "provider" \/ d.off = c.off
        BY <3>3, <3>4 DEF Focus
      <3> HIDE DEF c, d, i
      <3>6. i \in DOMAIN settings_items(d) /\ settings_items(d)[i] = settings_items(c)[i]
        BY <3>5, RowStays
      <3> QED
        BY <2>2, <3>2, <3>5, <3>6 DEF c, d, i
    <2> QED
      BY <2>1, <2>2
  <1>7. ASSUME Edit \/ UNCHANGED vars PROVE Same
    BY <1>7 DEF Edit, vars
  <1> QED
    BY <1>1, <1>3, <1>4, <1>5, <1>6, <1>7, SecondRow DEF Next

-----------------------------------------------------------------------------
(* What is saved is what is loaded.                                        *)

LEMMA SetIfIs ==
    ASSUME NEW old \in Nat \cup {Absent}, NEW new \in Nat, NEW default
    PROVE  Or(SetIf(old, new, default), default) = new
  BY DEF Or, SetIf, Absent

\* The keys of the bar come back, unless an inline table is left as it is.
LEMMA WaybarIs ==
    ASSUME NEW w \in WaybarTables, NEW c \in Configs,
           SetWindowMap(SetPercent(SetList(w, c.shown), c.percent), c.window).form # "inline"
    PROVE  LET v == SetWindowMap(SetPercent(SetList(w, c.shown), c.percent), c.window)
           IN  v.shown = c.shown /\ v.window = c.window /\ c.percent \in {"unset", v.percent}
  <1> DEFINE x == SetList(w, c.shown)
             y == SetPercent(x, c.percent)
             v == SetWindowMap(y, c.window)
             Shown(t) == t.form # "inline" => t.shown = c.shown
             Percent(t) == c.percent \in {"unset", t.percent}
  <1> USE DEF EnsureTable
  <1>1. /\ c.shown \in {AllShown} \cup IdLists /\ c.percent \in {"unset", "on", "off"}
        /\ c.window \in WindowMaps
    BY DEF Configs
  <1>2. x \in WaybarTables
    BY <1>1, SetListTyped
  <1>3. y \in WaybarTables
    BY <1>1, <1>2, SetPercentTyped
  <1>4. /\ Explicit \in WaybarTables /\ Explicit.form = "table" /\ Explicit.shown = AllShown
        /\ NoTable.form = "absent" /\ NoTable.shown = AllShown /\ NoTable.window = <<>>
    BY TablesTyped DEF Explicit, NoTable
  <1>5. \A t \in WaybarTables : t.form \in {"absent", "table", "inline"}
                                /\ (t.form = "absent" => t = NoTable)
    BY DEF WaybarTables
  <1>6. ASSUME NEW t \in WaybarTables, NEW l \in {AllShown} \cup IdLists
        PROVE  [t EXCEPT !.shown = l].shown = l /\ [t EXCEPT !.shown = l].form = t.form
    BY DEF WaybarTables
  <1>7. ASSUME NEW t \in WaybarTables, NEW l
        PROVE  /\ [t EXCEPT !.percent = l].shown = t.shown /\ [t EXCEPT !.percent = l].form = t.form
               /\ [t EXCEPT !.percent = l].percent = l
    BY DEF WaybarTables
  <1>8. ASSUME NEW t \in WaybarTables, NEW l
        PROVE  /\ [t EXCEPT !.window = l].shown = t.shown /\ [t EXCEPT !.window = l].form = t.form
               /\ [t EXCEPT !.window = l].percent = t.percent
               /\ [t EXCEPT !.window = l].window = l
    BY DEF WaybarTables
  <1> HIDE DEF x, y, v
  <1> USE DEF SetList
  <1>9. x.form # "inline" => x.shown = c.shown
    <2>1. CASE c.shown # AllShown
      BY <1>1, <1>4, <1>6, <2>1 DEF x
    <2>2. CASE c.shown = AllShown
      BY <1>1, <1>4, <1>5, <1>6, <2>2 DEF x
    <2> QED
      BY <2>1, <2>2
  <1>10. x.form = "inline" => c.shown = AllShown
    BY <1>1, <1>4, <1>6 DEF x
  <1>11. /\ y.form # "inline" => y.shown = c.shown
         /\ y.form = "inline" => c.shown = AllShown
         /\ c.percent = "unset" \/ (y.form = "table" /\ y.percent = c.percent)
    <2>1. CASE c.percent = "unset"
      BY <1>9, <1>10, <2>1 DEF y, SetPercent
    <2>2. CASE c.percent # "unset"
      <3>1. y = [EnsureTable(x) EXCEPT !.percent = c.percent]
        BY <2>2 DEF y, SetPercent
      <3>2. CASE x.form = "table"
        BY <1>2, <1>7, <1>9, <3>1, <3>2
      <3>3. CASE x.form # "table"
        <4>1. c.shown = AllShown
          BY <1>2, <1>4, <1>5, <1>9, <1>10, <3>3
        <4> QED
          BY <1>4, <1>7, <3>1, <3>3, <4>1
      <3> QED
        BY <3>2, <3>3
    <2> QED
      BY <2>1, <2>2
  <1>12. v.form # "inline"
    BY DEF x, y, v
  <1>13. v.shown = c.shown /\ v.window = c.window /\ c.percent \in {"unset", v.percent}
    <2>1. CASE c.window # <<>>
      <3>1. v = [EnsureTable(y) EXCEPT !.window = c.window]
        BY <2>1 DEF v, SetWindowMap
      <3>2. CASE y.form = "table"
        BY <1>3, <1>8, <1>11, <3>1, <3>2
      <3>3. CASE y.form # "table"
        <4>1. c.shown = AllShown /\ c.percent = "unset"
          BY <1>3, <1>4, <1>5, <1>11, <3>3
        <4> QED
          BY <1>4, <1>8, <3>1, <3>3, <4>1
      <3> QED
        BY <3>2, <3>3
    <2>2. CASE c.window = <<>> /\ y.form = "table"
      <3>1. v = [y EXCEPT !.window = <<>>]
        BY <2>2 DEF v, SetWindowMap
      <3> QED
        BY <1>3, <1>8, <1>11, <2>2, <3>1
    <2>3. CASE c.window = <<>> /\ y.form # "table"
      <3>1. v = y
        BY <2>3 DEF v, SetWindowMap
      <3>2. y = NoTable
        BY <1>3, <1>5, <1>12, <2>3, <3>1
      <3> QED
        BY <1>4, <1>11, <2>3, <3>1, <3>2
    <2> QED
      BY <2>1, <2>2, <2>3
  <1> QED
    BY <1>13 DEF x, y, v

\* Two configurations that agree on everything else agree but for the percentage.
LEMMA AgreeBut ==
    ASSUME NEW c \in Configs, NEW d \in Configs, NEW v,
           c.warning = d.warning, c.critical = d.critical, c.off = d.off,
           c.shown = d.shown, c.window = d.window
    PROVE  [c EXCEPT !.percent = v] = [d EXCEPT !.percent = v]
  <1>1. \A e \in Configs :
            [e EXCEPT !.percent = v] = [warning |-> e.warning, critical |-> e.critical, off |-> e.off,
                                        shown |-> e.shown, percent |-> v, window |-> e.window]
    BY DEF Configs
  <1> QED
    BY <1>1

\* A coherent configuration that was written into a document is loaded from it again,
\* unless load rejects the document or its table of the bar is inline.
LEMMA SavedIsLoaded ==
    ASSUME NEW doc \in Documents, doc.toml, NEW c \in Configs, Coherent(c),
           ApplyToDoc(doc, c).foreign # "rejected",
           ApplyToDoc(doc, c).waybar.form # "inline"
    PROVE  LET e == Load(ApplyToDoc(doc, c))
           IN  /\ [e EXCEPT !.percent = ""] = [c EXCEPT !.percent = ""]
               /\ c.percent \in {"unset", e.percent}
  <1> DEFINE d == ApplyToDoc(doc, c)
             w == SetWindowMap(SetPercent(SetList(doc.waybar, c.shown), c.percent), c.window)
             e == Decode(d)
  <1>1. d \in Documents /\ d.toml
    BY ApplyTyped
  <1>2. /\ d.warning = SetIf(doc.warning, c.warning, Warning)
        /\ d.critical = SetIf(doc.critical, c.critical, Critical)
        /\ d.off = (IF c.off # {} \/ doc.off # NoProviders THEN c.off ELSE doc.off)
        /\ d.waybar = w
    BY DEF ApplyToDoc, Documents
  <1>3. /\ c.warning \in Nat /\ c.critical \in Nat /\ c.off \subseteq Ids
    BY SettingsAssumption DEF Configs
  <1>4. doc.waybar \in WaybarTables /\ doc.warning \in Nat \cup {Absent}
        /\ doc.critical \in Nat \cup {Absent}
    BY DEF Documents
  <1>5. w.shown = c.shown /\ w.window = c.window /\ c.percent \in {"unset", w.percent}
    BY <1>2, <1>4, WaybarIs
  <1> HIDE DEF d, w
  <1>6. e.warning = c.warning /\ e.critical = c.critical
    <2>1. e.warning = Or(d.warning, Warning) /\ e.critical = Or(d.critical, Critical)
      BY DEF Decode
    <2>2. /\ doc.warning \in Nat \cup {Absent} /\ c.warning \in Nat
          /\ doc.critical \in Nat \cup {Absent} /\ c.critical \in Nat
      BY <1>3, <1>4
    <2>3. /\ Or(SetIf(doc.warning, c.warning, Warning), Warning) = c.warning
          /\ Or(SetIf(doc.critical, c.critical, Critical), Critical) = c.critical
      <3>1. Or(SetIf(doc.warning, c.warning, Warning), Warning) = c.warning
        BY <2>2, SetIfIs DEF Absent
      <3>2. Or(SetIf(doc.critical, c.critical, Critical), Critical) = c.critical
        BY <2>2, SetIfIs DEF Absent
      <3> QED
        BY <3>1, <3>2
    <2> QED
      BY <1>2, <2>1, <2>3
  <1>7. e.off = c.off
    <2>1. e.off = d.off \ NoProviders
      BY DEF Decode
    <2>2. "absent" \notin c.off
      BY <1>3, DocumentsAssumption
    <2> QED
      BY <1>2, <2>1, <2>2 DEF NoProviders
  <1>8. e.shown = c.shown /\ e.window = c.window /\ c.percent \in {"unset", e.percent}
    BY <1>2, <1>5 DEF Decode
  <1>9. Accepted(d)
    BY <1>1, <1>6 DEF Accepted, Coherent, d
  <1>10. Load(d) = e
    BY <1>9 DEF Load
  <1>11. e \in Configs
    BY <1>1, <1>10, LoadTyped
  <1> HIDE DEF e
  <1>12. \A v : [e EXCEPT !.percent = v] = [c EXCEPT !.percent = v]
    BY <1>6, <1>7, <1>8, <1>11, AgreeBut
  <1> QED
    BY <1>8, <1>10, <1>12, Zenon DEF d

-----------------------------------------------------------------------------
(* The file, the memory of the TUIs and what the user wrote.               *)

\* What a persist that could read the file has read is what the user left there.
HandInv ==
    ~raced /\ ~blind =>
        /\ file.foreign = authored.foreign
        /\ ~authored.toml => file = authored
        /\ \A p \in Procs : task[p].active /\ ~task[p].blind =>
              task[p].doc.foreign = authored.foreign /\ authored.toml

IInv == Typed /\ FocusInv /\ HandInv /\ SavedOrShown

\* What a persist writes.
LEMMA SavedDoc ==
    ASSUME Typed, NEW p \in Procs, task[p].active
    PROVE  LET d == ApplyToDoc(task[p].doc, mem[p])
           IN  /\ task[p].doc \in Documents /\ task[p].doc.toml /\ mem[p] \in Configs
               /\ d.foreign = task[p].doc.foreign
  <1>1. NoTask.active = FALSE
    BY DEF NoTask
  <1>2. task[p] \in Tasks
    BY <1>1 DEF Typed
  <1>3. task[p].doc \in Documents /\ task[p].doc.toml /\ mem[p] \in Configs
    BY <1>2 DEF Tasks, Typed
  <1> QED
    BY <1>3, ApplyTyped

LEMMA HandStep == IInv /\ [Next]_vars => HandInv'
  <1> SUFFICES ASSUME Typed, HandInv, [Next]_vars PROVE HandInv'
    BY DEF IInv
  <1>0. NoTask.active = FALSE
    BY DEF NoTask
  <1>1. task \in [Procs -> {NoTask} \cup Tasks]
    BY DEF Typed
  <1>2. ASSUME NEW p \in Procs, Open(p) \/ Close(p) PROVE HandInv'
    BY <1>2 DEF Open, Close, history, HandInv
  <1>3. ASSUME NEW p \in Procs, Save(p) PROVE HandInv'
    <2> SUFFICES ASSUME ~raced', ~blind'
                 PROVE  /\ file'.foreign = authored'.foreign
                        /\ ~authored'.toml => file' = authored'
                        /\ \A q \in Procs : task'[q].active /\ ~task'[q].blind =>
                              task'[q].doc.foreign = authored'.foreign /\ authored'.toml
      BY DEF HandInv
    <2>1. /\ UNCHANGED <<authored, raced>> /\ ~blind
          /\ file' = file \/ (file' = ApplyToDoc(task[p].doc, mem[p]) /\ ~task[p].blind)
          /\ task[p].active
      BY <1>3 DEF Save
    <2>2. \A q \in Procs : task'[q] = IF q = p THEN NoTask ELSE task[q]
      BY <1>1, <1>3 DEF Save
    <2>3. \A q \in Procs : task'[q].active /\ ~task'[q].blind =>
              task'[q].doc.foreign = authored'.foreign /\ authored'.toml
      BY <1>0, <2>1, <2>2 DEF HandInv
    <2>4. CASE file' = file
      BY <2>1, <2>3, <2>4 DEF HandInv
    <2>5. CASE file' = ApplyToDoc(task[p].doc, mem[p]) /\ ~task[p].blind
      <3>1. file'.foreign = task[p].doc.foreign
        BY <2>1, <2>5, SavedDoc
      <3>2. task[p].doc.foreign = authored.foreign /\ authored.toml
        BY <2>1, <2>5 DEF HandInv
      <3> QED
        BY <2>1, <2>3, <3>1, <3>2
    <2> QED
      BY <2>1, <2>4, <2>5
  <1>4. ASSUME NEW p \in Procs, Restart(p) PROVE HandInv'
    <2>1. \A q \in Procs : task'[q] = IF q = p THEN NoTask ELSE task[q]
      BY <1>1, <1>4 DEF Restart
    <2> QED
      BY <1>0, <1>4, <2>1 DEF Restart, history, HandInv
  <1>5. ASSUME NEW p \in Procs, NEW delta \in {-1, 1}, Move(p, delta) PROVE HandInv'
    BY <1>5 DEF Move, history, HandInv
  <1>6. ASSUME NEW p \in Procs, NEW dir \in -1 .. 1, Press(p, dir) PROVE HandInv'
    <2>1. PICK unread \in BOOLEAN :
              IF ~unread /\ ~file.toml
              THEN /\ error' = [error EXCEPT ![p] = TRUE]
                   /\ UNCHANGED task
              ELSE /\ task' = [task EXCEPT ![p] = [active |-> TRUE, blind |-> unread,
                                               doc |-> IF unread THEN EmptyDoc ELSE file]]
                   /\ UNCHANGED error
      BY <1>6 DEF Press
    <2>2. UNCHANGED <<file, authored, raced, blind>>
      BY <1>6 DEF Press, history
    <2> SUFFICES ASSUME ~raced, ~blind, NEW q \in Procs, task'[q].active, ~task'[q].blind
                 PROVE  task'[q].doc.foreign = authored.foreign /\ authored.toml
      BY <2>2 DEF HandInv
    <2>3. CASE task'[q] = task[q]
      BY <2>3 DEF HandInv
    <2>4. CASE task'[q] # task[q]
      <3>1. q = p /\ task'[p] = [active |-> TRUE, blind |-> unread,
                                 doc |-> IF unread THEN EmptyDoc ELSE file]
            /\ ~(~unread /\ ~file.toml)
        BY <1>1, <2>1, <2>4
      <3>2. ~unread
        BY <3>1
      <3>3. task'[q].doc = file /\ file.toml
        BY <3>1, <3>2
      <3> QED
        BY <3>3 DEF HandInv
    <2> QED
      BY <2>3, <2>4
  <1>7. ASSUME Edit PROVE HandInv'
    <2>1. /\ authored' = file' /\ task' = task
          /\ raced' = \E p \in Procs : task[p].active
      BY <1>7 DEF Edit
    <2> QED
      BY <2>1 DEF HandInv
  <1>8. ASSUME UNCHANGED vars PROVE HandInv'
    BY <1>8 DEF vars, HandInv
  <1> QED
    BY <1>2, <1>3, <1>4, <1>5, <1>6, <1>7, <1>8 DEF Next

\* A TUI whose files, memory and errors are as before is as before.
LEMMA SavedStep == IInv /\ [Next]_vars => SavedOrShown'
  <1> SUFFICES ASSUME Typed, SavedOrShown, [Next]_vars, NEW q \in standing',
                      Running(q)', ~error'[q], Coherent(mem'[q]), file'.foreign # "rejected",
                      file'.waybar.form # "inline"
               PROVE  Survives(q)'
    BY DEF IInv, SavedOrShown
  <1> DEFINE Same == /\ file' = file /\ env' = env /\ q \in standing
                     /\ mem'[q] = mem[q] /\ error'[q] = error[q] /\ task'[q] = task[q]
  <1>0. standing \subseteq Procs /\ task \in [Procs -> {NoTask} \cup Tasks]
        /\ mem \in [Procs -> Configs] /\ error \in [Procs -> BOOLEAN]
    BY DEF Typed
  <1>1. ASSUME Same PROVE Survives(q)'
    <2>1. Running(q)
      BY <1>1 DEF Running
    <2>2. Survives(q)
      BY <1>1, <2>1 DEF SavedOrShown
    <2> QED
      BY <1>1, <2>2 DEF Survives
  <1>2. ASSUME NEW p \in Procs, Open(p) \/ Close(p) PROVE Same
    BY <1>2 DEF Open, Close
  <1>3. ASSUME NEW p \in Procs, Save(p) PROVE Survives(q)'
    <2>1. CASE q = p
      <3>1. error' = [error EXCEPT ![p] = FALSE] /\ file' = ApplyToDoc(task[p].doc, mem[p])
            /\ mem' = mem /\ task[p].active
        BY <1>0, <1>3, <2>1 DEF Save
      <3>2. task[p].doc \in Documents /\ task[p].doc.toml /\ mem[p] \in Configs
        BY <3>1, SavedDoc
      <3>3. LET e == Load(file')
            IN  /\ [e EXCEPT !.percent = ""] = [mem'[p] EXCEPT !.percent = ""]
                /\ mem'[p].percent \in {"unset", e.percent}
        <4>1. LET e == Load(ApplyToDoc(task[p].doc, mem[p]))
              IN  /\ [e EXCEPT !.percent = ""] = [mem[p] EXCEPT !.percent = ""]
                  /\ mem[p].percent \in {"unset", e.percent}
          <5>1. Coherent(mem[p])
            BY <2>1, <3>1
          <5>2. LET d == ApplyToDoc(task[p].doc, mem[p])
                IN  d.foreign # "rejected" /\ d.waybar.form # "inline"
            BY <3>1
          <5> QED
            BY <3>2, <5>1, <5>2, SavedIsLoaded, Zenon
        <4> QED
          BY <3>1, <4>1, Zenon
      <3> QED
        BY <2>1, <3>3 DEF Survives
    <2>2. CASE q # p
      <3>1. file' = file /\ q \in standing
        BY <1>3, <2>2 DEF Save
      <3>2. Same
        BY <1>0, <1>3, <2>2, <3>1, SMTT(30) DEF Save
      <3> QED
        BY <1>1, <3>2
    <2> QED
      BY <2>1, <2>2
  <1>4. ASSUME NEW p \in Procs, Restart(p) PROVE Same
    <2>1. q # p /\ q \in standing
      BY <1>4 DEF Restart
    <2> QED
      BY <1>0, <1>4, <2>1 DEF Restart
  <1>5. ASSUME NEW p \in Procs, NEW delta \in {-1, 1}, Move(p, delta) PROVE Same
    BY <1>5 DEF Move
  <1>6. ASSUME NEW p \in Procs, NEW dir \in -1 .. 1, Press(p, dir) PROVE Same
    <2>1. standing' = standing /\ file' = file /\ env' = env
      BY <1>6 DEF Press
    <2>2. CASE q # p
      BY <1>0, <1>6, <2>1, <2>2 DEF Press
    <2>3. CASE q = p
      <3>1. \/ error' = [error EXCEPT ![p] = TRUE]
            \/ \E b, d : task' = [task EXCEPT ![p] = [active |-> TRUE, blind |-> b, doc |-> d]]
        BY <1>6 DEF Press
      <3>2. q \in Procs
        BY <2>3
      <3>3. ~task'[q].active
        BY DEF Running
      <3> QED
        BY <1>0, <2>3, <3>1, <3>2, <3>3
    <2> QED
      BY <2>2, <2>3
  <1>7. ASSUME Edit PROVE FALSE
    BY <1>7 DEF Edit
  <1>8. ASSUME UNCHANGED vars PROVE Same
    BY <1>8 DEF vars
  <1> QED
    BY <1>1, <1>2, <1>3, <1>4, <1>5, <1>6, <1>7, <1>8 DEF Next

-----------------------------------------------------------------------------
(* The theorems.                                                           *)

LEMMA InvInit == Init => IInv
  <1> SUFFICES ASSUME Init PROVE IInv
    OBVIOUS
  <1>1. Typed
    BY TypedInit
  <1>2. NoTask.active = FALSE
    BY DEF NoTask
  <1>3. FocusInv /\ HandInv /\ SavedOrShown
    BY <1>2 DEF Init, FocusInv, HandInv, SavedOrShown
  <1> QED
    BY <1>1, <1>3 DEF IInv

LEMMA InvIsInductive == IInv /\ [Next]_vars => IInv'
  BY TypedStep, FocusStep, HandStep, SavedStep DEF IInv

LEMMA InvHolds == Spec => []IInv
  <1>1. Init => IInv
    BY InvInit
  <1>2. IInv /\ [Next]_vars => IInv'
    BY InvIsInductive
  <1> QED
    BY <1>1, <1>2, PTL DEF Spec

LEMMA TypedImplies == Typed => TypeOK
  <1> SUFFICES ASSUME Typed PROVE TypeOK
    OBVIOUS
  <1>1. ASSUME NEW p \in Procs
        PROVE  /\ mem[p].warning \in 0 .. Highest /\ mem[p].critical \in 0 .. Highest
               /\ mem[p].off \subseteq Ids /\ mem[p].percent \in {"unset", "on", "off"}
               /\ mem[p].shown # AllShown => IsInjective(mem[p].shown) /\ ToSet(mem[p].shown) \subseteq Ids
               /\ Windows(mem[p])
    <2>1. mem[p] \in Configs
      BY DEF Typed
    <2>2. /\ mem[p].warning \in 0 .. Highest /\ mem[p].critical \in 0 .. Highest
          /\ mem[p].off \subseteq Ids /\ mem[p].percent \in {"unset", "on", "off"}
          /\ mem[p].shown \in {AllShown} \cup IdLists /\ mem[p].window \in WindowMaps
      BY <2>1 DEF Configs
    <2>3. ASSUME NEW l \in IdLists PROVE IsInjective(l) /\ ToSet(l) \subseteq Ids
      <3>1. l \in Seq(Ids) /\ IsInjective(l)
        BY DEF IdLists
      <3> QED
        BY <3>1, LenProperties DEF ToSet
    <2>4. Windows(mem[p])
      BY <2>2 DEF Windows, WindowMaps
    <2> QED
      BY <2>2, <2>3, <2>4
  <1>2. file.waybar \in WaybarTables /\ error \in [Procs -> BOOLEAN]
    BY DEF Typed, Documents
  <1>3. /\ file.waybar.form \in {"absent", "table", "inline"}
        /\ file.waybar.form = "absent" => file.waybar = NoTable
    BY <1>2 DEF WaybarTables
  <1> QED
    BY <1>1, <1>2, <1>3 DEF TypeOK

\* What the user wrote in config.toml and the TUI does not manage stays, whoever persists
\* what, unless the user saved the file inside a persist or it could not be read.
THEOREM UserTextStays == Spec => []HandWrittenKept
  <1>1. IInv => HandWrittenKept
    BY DEF IInv, HandInv, HandWrittenKept
  <1> QED
    BY <1>1, InvHolds, PTL

\* A choice made in the modal is what load finds in the file, or the TUI shows an error,
\* until somebody else writes the file.
THEOREM ChoicesSurvive == Spec => []SavedOrShown
  <1>1. IInv => SavedOrShown
    BY DEF IInv
  <1> QED
    BY <1>1, InvHolds, PTL

\* The focus of the modal is on a row that can be changed, and no list of the
\* configuration names a provider twice.
THEOREM FocusStays == Spec => []FocusOnRow
  <1>1. IInv => FocusOnRow
    BY TypedImplies DEF IInv, FocusInv, FocusOnRow
  <1> QED
    BY <1>1, InvHolds, PTL

-----------------------------------------------------------------------------
(* Installer: commands, their journal and their backups.                   *)
\* Stages of a command, the files behind it, and those of a journal.
Fields == {"kind", "at", "stage", "text", "changed", "hypr", "failed"}
Behind(at) == IF at = "style" THEN {"config"}
              ELSE IF at = "hypr" THEN {"config", "style"} ELSE {}
Done == Behind(op.at) \cup IF op.stage = "publish" THEN {op.at} ELSE {}
FilesOf(q) == {q[i][1] : i \in 1 .. Len(q)}
Entry == Files \X (Nat \X Nat)
MarkSets == [raced : SUBSET Files, late : SUBSET Files, torn : SUBSET Files,
             skipped : SUBSET Files]
Aside(f) == \E n \in DOMAIN backups[f] : backups[f][n] = written[f]

Shape ==
    /\ DOMAIN files = Files /\ DOMAIN backups = Files
    /\ DOMAIN before = Files /\ DOMAIN written = Files
    /\ \A f \in Files : IsFiniteSet(DOMAIN backups[f])
    /\ second \in Nat
    /\ DOMAIN op = Fields /\ op.at \in Files \cup {"idle", "reload", "rollback"}
    /\ journal \in Seq(Entry)
    /\ marks \in MarkSets

\* What is overwritten has been put aside, but for an edit after its backup.
KeptAside ==
    /\ op.at \in Files /\ op.stage = "publish" => op.at \in Journaled
    /\ \A f \in Journaled : f \in marks.late \/ Aside(f)

\* A command edits file after file, each once, and its journal can undo it all.
Undoable ==
    /\ op.at = "idle" => journal = <<>>
    /\ op.at # "idle" => result = "none"
    /\ op.at \in Files \cup {"reload"} => ~op.failed
    /\ op.at \in Files => Journaled \subseteq Done
    /\ op.at # "idle" /\ ~op.failed =>
         /\ \A f \in Files \ Journaled : files[f] = before[f]
         /\ \A i \in 1 .. Len(journal) :
               /\ journal[i][2] \in DOMAIN backups[journal[i][1]]
               /\ backups[journal[i][1]][journal[i][2]] = before[journal[i][1]]
         /\ \A i, j \in 1 .. Len(journal) : journal[i][1] = journal[j][1] => i = j

Recoverable == Shape /\ AuthoredIsKept /\ KeptAside /\ Undoable /\ FailureRestores

-----------------------------------------------------------------------------
(* Records, journals and names.                                            *)

\* What the steps do to the record of the command.
LEMMA OpSteps ==
    ASSUME NEW o, DOMAIN o = Fields, NEW at, NEW text
    PROVE  /\ LET n == [o EXCEPT !.at = at]
              IN  /\ DOMAIN n = Fields
                  /\ n.at = at /\ n.stage = o.stage /\ n.failed = o.failed
           /\ LET n == [o EXCEPT !.stage = "backup", !.text = text]
              IN  /\ DOMAIN n = Fields
                  /\ n.at = o.at /\ n.stage = "backup" /\ n.failed = o.failed
           /\ LET n == [o EXCEPT !.stage = "publish"]
              IN  /\ DOMAIN n = Fields
                  /\ n.at = o.at /\ n.stage = "publish" /\ n.failed = o.failed
           /\ LET n == [o EXCEPT !.failed = TRUE]
              IN  /\ DOMAIN n = Fields /\ n.at = o.at /\ n.stage = o.stage /\ n.failed = TRUE
  BY DEF Fields

LEMMA Publishes ==
    ASSUME DOMAIN op = Fields, NEW f
    PROVE  /\ DOMAIN Published(f) = Fields
           /\ Published(f).at = Following(f) /\ Published(f).stage = "read"
           /\ Published(f).failed = op.failed
  BY DEF Published, Fields

LEMMA Starts ==
    /\ DOMAIN Idle = Fields /\ Idle.at = "idle" /\ Idle.stage = "read" /\ ~Idle.failed
    /\ \A kind : /\ DOMAIN Started(kind) = Fields /\ Started(kind).at = "config"
                 /\ Started(kind).stage = "read" /\ ~Started(kind).failed
  <1>1. DOMAIN Idle = Fields /\ Idle.at = "idle" /\ Idle.stage = "read" /\ ~Idle.failed
    BY DEF Idle, Fields
  <1>2. ASSUME NEW kind
        PROVE  /\ DOMAIN Started(kind) = Fields /\ Started(kind).at = "config"
               /\ Started(kind).stage = "read" /\ ~Started(kind).failed
    BY <1>1 DEF Started, Fields
  <1> QED
    BY <1>1, <1>2

LEMMA FollowingOf ==
    ASSUME NEW f \in Files
    PROVE  /\ Following(f) \in Files \cup {"reload"} /\ Following(f) # f
           /\ f \notin Behind(f)
           /\ Following(f) \in Files => Behind(f) \cup {f} \subseteq Behind(Following(f))
  BY DEF Following, Files, Behind

LEMMA JournalGrows ==
    ASSUME NEW q \in Seq(Entry), NEW e \in Entry
    PROVE  /\ Append(q, e) \in Seq(Entry) /\ Len(Append(q, e)) = Len(q) + 1
           /\ Len(q) \in Nat
           /\ \A i \in 1 .. Len(q) : Append(q, e)[i] = q[i]
           /\ Append(q, e)[Len(q) + 1] = e
           /\ FilesOf(Append(q, e)) = FilesOf(q) \cup {e[1]}
  <1>1. /\ Append(q, e) \in Seq(Entry) /\ Len(Append(q, e)) = Len(q) + 1 /\ Len(q) \in Nat
        /\ \A i \in 1 .. Len(q) : Append(q, e)[i] = q[i]
        /\ Append(q, e)[Len(q) + 1] = e
    OBVIOUS
  <1>2. \A i : i \in 1 .. Len(Append(q, e)) <=> i \in 1 .. Len(q) \/ i = Len(q) + 1
    BY <1>1
  <1>3. FilesOf(Append(q, e)) = FilesOf(q) \cup {e[1]}
    BY <1>1, <1>2 DEF FilesOf
  <1> QED
    BY <1>1, <1>3

LEMMA JournalShrinks ==
    ASSUME NEW q \in Seq(Entry), q # <<>>, NEW r, r = SubSeq(q, 1, Len(q) - 1)
    PROVE  /\ r \in Seq(Entry) /\ Len(r) = Len(q) - 1 /\ Len(q) \in Nat \ {0}
           /\ \A i \in 1 .. Len(r) : r[i] = q[i]
           /\ q[Len(q)] \in Entry
           /\ FilesOf(q) = FilesOf(r) \cup {q[Len(q)][1]}
  <1>1. /\ Len(q) \in Nat \ {0} /\ q[Len(q)] \in Entry
    OBVIOUS
  <1>2. r \in Seq(Entry) /\ Len(r) = Len(q) - 1 /\ \A i \in 1 .. Len(r) : r[i] = q[i]
    <2> DEFINE n == Len(q) - 1
    <2>1. n \in Int /\ 1 \in Int /\ n \in Nat /\ \A i \in 1 .. n : q[i] \in Entry
      BY <1>1
    <2>2. r = SubSeq(q, 1, n)
      OBVIOUS
    <2> HIDE DEF n
    <2>3. /\ SubSeq(q, 1, n) \in Seq(Entry)
          /\ Len(SubSeq(q, 1, n)) = IF 1 <= n THEN n - 1 + 1 ELSE 0
          /\ \A i \in 1 .. n - 1 + 1 : SubSeq(q, 1, n)[i] = q[1 + i - 1]
      BY <2>1, SubSeqProperties
    <2>4. Len(r) = n
      BY <2>1, <2>2, <2>3
    <2>5. \A i \in 1 .. n : r[i] = q[i]
      BY <2>1, <2>2, <2>3
    <2> QED
      BY <2>2, <2>3, <2>4, <2>5 DEF n
  <1>3. \A i : i \in 1 .. Len(q) <=> i \in 1 .. Len(r) \/ i = Len(q)
    BY <1>1, <1>2
  <1>4. FilesOf(q) = FilesOf(r) \cup {q[Len(q)][1]}
    BY <1>1, <1>2, <1>3 DEF FilesOf
  <1> QED
    BY <1>1, <1>2, <1>4

LEMMA JournalTyped ==
    ASSUME NEW q \in Seq(Entry)
    PROVE  FilesOf(q) \subseteq Files /\ FilesOf(<<>>) = {} /\ <<>> \in Seq(Entry)
  BY DEF FilesOf, Entry

\* There is always a free name: one more than the backups is tried.
LEMMA NameIsFree ==
    ASSUME NEW f \in Files, IsFiniteSet(DOMAIN backups[f]), second \in Nat
    PROVE  BackupName(f) \in (Nat \X Nat) /\ BackupName(f) \notin DOMAIN backups[f]
  <1> DEFINE D == DOMAIN backups[f]
             c == Cardinality(D)
             free == {n \in 0 .. c : <<second, n>> \notin D}
             tried == [n \in 0 .. c |-> <<second, n>>]
  <1>1. c \in Nat
    BY FS_CardinalityType
  <1>2. Cardinality(0 .. c) = c + 1 /\ IsFiniteSet(0 .. c)
    <2> HIDE DEF c
    <2> QED
      BY <1>1, FS_Interval
  <1>3. free # {}
    <2> SUFFICES ASSUME free = {} PROVE FALSE
      OBVIOUS
    <2>1. \A n \in 0 .. c : tried[n] \in D
      OBVIOUS
    <2>2. tried \in [0 .. c -> D]
      BY <2>1
    <2>3. \A m, n \in 0 .. c : tried[m] = tried[n] => m = n
      OBVIOUS
    <2> DEFINE S == 0 .. c
    <2> HIDE DEF tried, D, S
    <2>4. tried \in Injection(S, D)
      BY <2>2, <2>3 DEF Injection, IsInjective, S
    <2>5. Cardinality(S) <= Cardinality(D)
      BY <2>4, FS_Injection DEF D
    <2> HIDE DEF c
    <2> QED
      BY <1>1, <1>2, <2>5 DEF c, S
  <1>4. free \in SUBSET Nat
    BY <1>1
  <1>5. PICK m \in free : \A n \in free : m <= n
    BY <1>3, <1>4, LeastNat
  <1>6. Smallest(free) \in free
    BY <1>5 DEF Smallest
  <1>7. BackupName(f) = <<second, Smallest(free)>>
    BY DEF BackupName
  <1> QED
    BY <1>4, <1>6, <1>7

-----------------------------------------------------------------------------
(* The steps of a command.                                                 *)

\* A step that reads, or fails: the files, their backups and the journal stay.
LEMMA MovesHold ==
    ASSUME Recoverable, op.at \in Files, DOMAIN op' = Fields, op'.failed = op.failed,
           UNCHANGED <<files, backups, before, written, second, journal, result>>,
           marks' \in MarkSets,
           marks'.late = marks.late,
           \/ op'.at = "rollback"
           \/ op.stage = "read" /\ op'.stage = "read" /\ op'.at = Following(op.at)
           \/ op.stage = "read" /\ op'.stage = "backup" /\ op'.at = op.at
    PROVE  Recoverable'
  <1>1. Journaled' = Journaled
    BY DEF Journaled
  <1>2. op'.at \in Files \cup {"reload", "rollback"}
    BY FollowingOf
  <1>3. op'.at # "idle" /\ op.at # "idle" /\ "rollback" \notin Files /\ "reload" \notin Files
    BY <1>2 DEF Files
  <1>4. Shape'
    BY <1>2 DEF Recoverable, Shape
  <1>5. AuthoredIsKept' /\ FailureRestores'
    BY DEF Recoverable, AuthoredIsKept, FailureRestores
  <1>6. KeptAside'
    <2>1. op'.at \in Files => op'.stage # "publish"
      BY <1>3
    <2>2. \A f \in Journaled : f \in marks'.late \/ Aside(f)'
      BY DEF Recoverable, KeptAside, Aside
    <2> QED
      BY <1>1, <2>1, <2>2 DEF KeptAside
  <1>7. op'.at \in Files => (Journaled \subseteq Done)'
    <2> SUFFICES ASSUME op'.at \in Files PROVE (Journaled \subseteq Done)'
      OBVIOUS
    <2>1. op.stage = "read" /\ Journaled \subseteq Behind(op.at)
      BY <1>3 DEF Recoverable, Undoable, Done
    <2>2. Behind(op.at) \subseteq Behind(op'.at)
      BY <1>3, FollowingOf
    <2> QED
      BY <1>1, <2>1, <2>2 DEF Done
  <1>8. Undoable'
    BY <1>1, <1>3, <1>7 DEF Recoverable, Undoable
  <1> QED
    BY <1>4, <1>5, <1>6, <1>8 DEF Recoverable

LEMMA ReadHolds ==
    ASSUME Recoverable, NEW f \in Files, Read(f)
    PROVE  Recoverable'
  <1>1. /\ op.at = f /\ op.stage = "read"
        /\ UNCHANGED <<fixed, userHistory, files, backups, second, journal, bar, budget, result>>
    BY DEF Read
  <1>2. /\ UNCHANGED <<files, backups, before, written, second, journal, result>>
        /\ marks' = marks
    BY <1>1 DEF userHistory
  <1>3. DOMAIN op = Fields /\ marks \in MarkSets
    BY DEF Recoverable, Shape
  <1>4. \/ op' = [op EXCEPT !.at = "rollback"]
        \/ op' = [op EXCEPT !.at = Following(f)]
        \/ op' = [op EXCEPT !.stage = "backup", !.text = Wanted(op.kind, f, files[f])]
    BY DEF Read, Fails
  <1>5. /\ DOMAIN op' = Fields /\ op'.failed = op.failed
        /\ \/ op'.at = "rollback"
           \/ op.stage = "read" /\ op'.stage = "read" /\ op'.at = Following(op.at)
           \/ op.stage = "read" /\ op'.stage = "backup" /\ op'.at = op.at
    <2> DEFINE text == Wanted(op.kind, f, files[f])
               at == Following(f)
    <2>1. \/ op' = [op EXCEPT !.at = "rollback"] \/ op' = [op EXCEPT !.at = at]
          \/ op' = [op EXCEPT !.stage = "backup", !.text = text]
      BY <1>4
    <2> HIDE DEF text, at
    <2>2. CASE op' = [op EXCEPT !.at = "rollback"]
      BY <1>3, <2>2, OpSteps
    <2>3. CASE op' = [op EXCEPT !.at = at]
      BY <1>1, <1>3, <2>3, OpSteps DEF at
    <2>4. CASE op' = [op EXCEPT !.stage = "backup", !.text = text]
      BY <1>1, <1>3, <2>4, OpSteps
    <2> QED
      BY <2>1, <2>2, <2>3, <2>4
  <1> QED
    BY <1>1, <1>2, <1>3, <1>5, MovesHold

LEMMA ReadFailsHolds ==
    ASSUME Recoverable, NEW f \in Files, ReadFails(f)
    PROVE  Recoverable'
  <1>1. /\ op.at = f /\ op.stage = "read"
        /\ UNCHANGED <<files, backups, before, written, second, journal, result>>
    BY DEF ReadFails
  <1>2. DOMAIN op = Fields /\ marks \in MarkSets
    BY DEF Recoverable, Shape
  <1>3. /\ marks' \in MarkSets
        /\ marks'.late = marks.late
    BY <1>2 DEF MarkSets, ReadFails
  <1>4. \/ op' = [op EXCEPT !.at = "rollback"] \/ op' = [op EXCEPT !.at = Following(f)]
    BY DEF ReadFails, Fails
  <1>5. /\ DOMAIN op' = Fields /\ op'.failed = op.failed
        /\ \/ op'.at = "rollback"
           \/ op.stage = "read" /\ op'.stage = "read" /\ op'.at = Following(op.at)
    <2> DEFINE at == Following(f)
    <2>1. op' = [op EXCEPT !.at = "rollback"] \/ op' = [op EXCEPT !.at = at]
      BY <1>4
    <2> HIDE DEF at
    <2>2. CASE op' = [op EXCEPT !.at = "rollback"]
      BY <1>2, <2>2, OpSteps
    <2>3. CASE op' = [op EXCEPT !.at = at]
      BY <1>1, <1>2, <2>3, OpSteps DEF at
    <2> QED
      BY <2>1, <2>2, <2>3
  <1> QED
    BY <1>1, <1>3, <1>5, MovesHold

LEMMA BackupHolds ==
    ASSUME Recoverable, NEW f \in Files, Backup(f)
    PROVE  Recoverable'
  <1> DEFINE name == BackupName(f)
             entry == <<f, name>>
  <1>1. /\ op.at = f /\ op.stage = "backup" /\ second' = second
        /\ UNCHANGED <<files, before, written, marks, result>>
    BY DEF Backup, userHistory
  <1>2. Shape
    BY DEF Recoverable
  <1>3. CASE Fault /\ Fails /\ UNCHANGED <<backups, journal>>
    <2>1. op' = [op EXCEPT !.at = "rollback"]
      BY <1>3 DEF Fails
    <2>2. DOMAIN op' = Fields /\ op'.failed = op.failed /\ op'.at = "rollback"
      BY <1>2, <2>1, OpSteps DEF Shape
    <2>3. marks' \in MarkSets
      BY <1>1, <1>2 DEF Shape
    <2> QED
      BY <1>1, <1>3, <2>2, <2>3, MovesHold
  <1>4. CASE /\ backups' = [backups EXCEPT ![f] =
                               [n \in DOMAIN @ \cup {name} |-> IF n = name THEN files[f] ELSE @[n]]]
             /\ journal' = Append(journal, entry)
             /\ op' = [op EXCEPT !.stage = "publish"]
    <2>1. name \in Nat \X Nat /\ name \notin DOMAIN backups[f]
      BY <1>2, NameIsFree DEF Shape
    <2>2. /\ DOMAIN op' = Fields /\ op'.failed = op.failed /\ op'.at = f /\ op'.stage = "publish"
      BY <1>1, <1>2, <1>4, OpSteps DEF Shape
    <2>3. /\ DOMAIN backups' = Files
          /\ \A g \in Files : g # f => backups'[g] = backups[g]
          /\ DOMAIN backups'[f] = DOMAIN backups[f] \cup {name}
          /\ backups'[f][name] = files[f]
          /\ \A n \in DOMAIN backups[f] : backups'[f][n] = backups[f][n]
      <3> HIDE DEF name
      <3> QED
        BY <1>2, <1>4, <2>1 DEF Shape
    <2>4. \A g \in Files : \A n : n \in DOMAIN backups[g] =>
              n \in DOMAIN backups'[g] /\ backups'[g][n] = backups[g][n]
      BY <2>3
    <2> HIDE DEF name
    <2>5. entry \in Entry /\ entry[1] = f /\ entry[2] = name
      BY <2>1 DEF Entry
    <2> HIDE DEF entry
    <2>6. /\ journal' \in Seq(Entry) /\ Len(journal') = Len(journal) + 1 /\ Len(journal) \in Nat
          /\ \A i \in 1 .. Len(journal) : journal'[i] = journal[i]
          /\ journal'[Len(journal) + 1] = entry
          /\ FilesOf(journal') = FilesOf(journal) \cup {f}
      BY <1>2, <1>4, <2>5, JournalGrows DEF Shape
    <2>7. Journaled = FilesOf(journal) /\ Journaled' = FilesOf(journal')
      BY DEF Journaled, FilesOf
    <2>8. Journaled' = Journaled \cup {f} /\ Journaled \subseteq Files
      BY <1>2, <2>6, <2>7, JournalTyped DEF Shape
    <2>9. /\ ~op.failed /\ Journaled \subseteq Behind(f)
          /\ f \notin Journaled
      BY <1>1, FollowingOf DEF Recoverable, Undoable, Done
    <2>10. Shape'
      <3>1. IsFiniteSet(DOMAIN backups'[f])
        BY <1>2, <2>3, FS_AddElement DEF Shape
      <3>2. \A g \in Files : g # f => IsFiniteSet(DOMAIN backups'[g])
        BY <1>2, <2>3 DEF Shape
      <3> QED
        BY <1>1, <1>2, <2>2, <2>3, <2>6, <3>1, <3>2 DEF Shape
    <2>11. AuthoredIsKept'
      BY <1>1, <2>3, <2>4 DEF Recoverable, AuthoredIsKept
    <2>12. KeptAside'
      <3>1. f \in marks'.late \/ Aside(f)'
        <4>0. CASE f \in marks.late
          BY <1>1, <4>0
        <4>1. CASE files[f] = written[f]
          BY <1>1, <2>3, <4>1 DEF Aside
        <4>2. CASE \E n \in DOMAIN backups[f] : backups[f][n] = written[f]
          BY <1>1, <2>4, <4>2 DEF Aside
        <4> QED
          BY <4>0, <4>1, <4>2 DEF Recoverable, AuthoredIsKept
      <3>2. \A g \in Journaled : g \in marks'.late \/ Aside(g)'
        BY <1>1, <2>4, <2>8 DEF Recoverable, KeptAside, Aside
      <3> QED
        BY <2>2, <2>8, <3>1, <3>2 DEF KeptAside
    <2>13. /\ \A i \in 1 .. Len(journal) :
                 /\ journal[i][2] \in DOMAIN backups[journal[i][1]]
                 /\ backups[journal[i][1]][journal[i][2]] = before[journal[i][1]]
           /\ \A i, j \in 1 .. Len(journal) : journal[i][1] = journal[j][1] => i = j
           /\ files[f] = before[f] /\ result = "none"
           /\ \A g \in Files \ Journaled : files[g] = before[g]
      <3>1. op.at # "idle"
        BY <1>1 DEF Files
      <3>2. Undoable
        BY DEF Recoverable
      <3> QED
        BY <2>9, <3>1, <3>2 DEF Undoable
    <2>14. \A i \in 1 .. Len(journal) : journal[i][1] \in Journaled
      BY DEF Journaled
    <2>15. \A i \in 1 .. Len(journal') : i \in 1 .. Len(journal) \/ i = Len(journal) + 1
      BY <2>6
    <2>16. \A i \in 1 .. Len(journal') :
                 /\ journal'[i][2] \in DOMAIN backups'[journal'[i][1]]
                 /\ backups'[journal'[i][1]][journal'[i][2]] = before[journal'[i][1]]
      <3> SUFFICES ASSUME NEW i \in 1 .. Len(journal')
                   PROVE  /\ journal'[i][2] \in DOMAIN backups'[journal'[i][1]]
                          /\ backups'[journal'[i][1]][journal'[i][2]] = before[journal'[i][1]]
        OBVIOUS
      <3>1. CASE i \in 1 .. Len(journal)
        BY <2>4, <2>6, <2>8, <2>13, <2>14, <3>1
      <3>2. CASE i = Len(journal) + 1
        BY <2>3, <2>5, <2>6, <2>13, <3>2
      <3> QED
        BY <2>15, <3>1, <3>2
    <2>17. \A i, j \in 1 .. Len(journal') : journal'[i][1] = journal'[j][1] => i = j
      BY <2>5, <2>6, <2>9, <2>13, <2>14, <2>15
    <2>18. Undoable'
      <3>1. (Journaled \subseteq Done)'
        BY <2>2, <2>8, <2>9 DEF Done
      <3>2. op'.at # "idle" /\ ~op'.failed
        BY <2>2, <2>9 DEF Files
      <3>3. \A g \in Files \ Journaled' : files'[g] = before'[g]
        BY <1>1, <2>8, <2>13
      <3> QED
        BY <1>1, <2>8, <2>9, <2>13, <2>16, <2>17, <3>1, <3>2, <3>3 DEF Undoable
    <2>19. FailureRestores'
      BY <1>1, <2>13 DEF FailureRestores
    <2> QED
      BY <2>10, <2>11, <2>12, <2>18, <2>19 DEF Recoverable
  <1> QED
    BY <1>3, <1>4 DEF Backup

\* A command starts with nothing in its journal, from the files as they are.
LEMMA StartHolds ==
    ASSUME Recoverable, NEW kind, Start(kind)
    PROVE  Recoverable'
  <1>1. /\ op.at = "idle" /\ journal' = <<>> /\ before' = files
        /\ UNCHANGED <<files, backups, second, written>>
        /\ \/ op' = op /\ result' = "refused"
           \/ op' = Started(kind) /\ result' = "none"
    BY DEF Start
  <1>2. Shape /\ marks' = [marks EXCEPT !.raced = Overwritten(@), !.late = Overwritten(@)]
    BY DEF Recoverable, Start
  <1>3. /\ marks' \in MarkSets
        /\ marks'.late = {f \in marks.late : files[f] # written[f]}
    BY <1>2 DEF MarkSets, Shape, Overwritten
  <1>4. Journaled' = {}
    BY <1>1 DEF Journaled
  <1>5. \/ op' = op /\ op'.at = "idle" /\ result' = "refused"
        \/ /\ DOMAIN op' = Fields /\ op'.at = "config" /\ op'.stage = "read" /\ ~op'.failed
           /\ result' = "none"
    BY <1>1, Starts
  <1>6. Shape'
    <2>1. DOMAIN op' = Fields /\ op'.at \in Files \cup {"idle", "reload", "rollback"}
      BY <1>2, <1>5 DEF Shape, Files
    <2> QED
      BY <1>1, <1>2, <1>3, <2>1, JournalTyped DEF Shape
  <1>7. AuthoredIsKept'
    BY <1>1, <1>3 DEF Recoverable, AuthoredIsKept
  <1>8. KeptAside'
    <2>1. ~(op'.at \in Files /\ op'.stage = "publish")
      BY <1>5 DEF Files
    <2> QED
      BY <1>4, <2>1 DEF KeptAside
  <1>9. Undoable'
    <2>1. op'.at \in Files \cup {"reload"} => ~op'.failed
      BY <1>5 DEF Files
    <2>2. op'.at # "idle" => result' = "none"
      BY <1>5
    <2>3. Len(journal') = 0
      BY <1>1
    <2>4. \A f \in Files : files'[f] = before'[f]
      BY <1>1
    <2> QED
      BY <1>1, <1>3, <1>4, <2>1, <2>2, <2>3, <2>4 DEF Undoable
  <1>10. FailureRestores'
    BY <1>1 DEF FailureRestores
  <1> QED
    BY <1>6, <1>7, <1>8, <1>9, <1>10 DEF Recoverable

\* A text is published over a file that this very command put aside.
LEMMA PublishHolds ==
    ASSUME Recoverable, NEW f \in Files, Publish(f)
    PROVE  Recoverable'
  <1>1. /\ op.at = f /\ op.stage = "publish"
        /\ UNCHANGED <<backups, before, written, marks, second, journal, result>>
    BY DEF Publish, userHistory
  <1>2. /\ Shape /\ KeptAside /\ Undoable /\ AuthoredIsKept
        /\ marks \in MarkSets
    BY DEF Recoverable, Shape
  <1>3. Journaled' = Journaled /\ f \in Journaled /\ op.at # "idle" /\ op.at \in Files
    BY <1>1, <1>2 DEF Journaled, KeptAside, Files
  <1>4. \/ files' = [files EXCEPT ![f] = op.text] /\ op' = Published(f)
        \/ files' = [files EXCEPT ![f] = op.text] /\ op' = [op EXCEPT !.at = "rollback"]
        \/ files' = files /\ op' = [op EXCEPT !.at = "rollback"]
    BY DEF Publish, Fails
  <1>5. CASE files' = files /\ op' = [op EXCEPT !.at = "rollback"]
    <2>1. DOMAIN op' = Fields /\ op'.failed = op.failed /\ op'.at = "rollback"
      BY <1>2, <1>5, OpSteps DEF Shape
    <2> QED
      BY <1>1, <1>2, <1>3, <1>5, <2>1, MovesHold
  <1>6. CASE /\ files' = [files EXCEPT ![f] = op.text]
             /\ op' = Published(f) \/ op' = [op EXCEPT !.at = "rollback"]
    <2>1. /\ DOMAIN op' = Fields /\ op'.failed = op.failed
          /\ \/ op'.at = Following(f) /\ op'.stage = "read"
             \/ op'.at = "rollback"
      <3>1. DOMAIN op = Fields
        BY <1>2 DEF Shape
      <3>2. CASE op' = Published(f)
        BY <3>1, <3>2, Publishes
      <3>3. CASE op' = [op EXCEPT !.at = "rollback"]
        BY <3>1, <3>3, OpSteps
      <3> QED
        BY <1>6, <3>2, <3>3
    <2>2. DOMAIN files' = Files /\ \A g \in Files : g # f => files'[g] = files[g]
      BY <1>2, <1>6 DEF Shape
    <2>3. op'.at \in Files \cup {"reload", "rollback"}
      BY <2>1, FollowingOf
    <2>4. op'.at # "idle" /\ "rollback" \notin Files
      BY <2>3 DEF Files
    <2>5. Shape'
      BY <1>1, <1>2, <2>1, <2>2, <2>3 DEF Shape
    <2>6. AuthoredIsKept'
      BY <1>1, <1>2, <1>3, <2>2 DEF AuthoredIsKept, KeptAside, Aside
    <2>7. KeptAside'
      <3>1. ~(op'.at \in Files /\ op'.stage = "publish")
        BY <2>1, <2>4
      <3>2. \A g \in Journaled : g \in marks'.late \/ Aside(g)'
        BY <1>1, <1>2 DEF KeptAside, Aside
      <3> QED
        BY <1>3, <3>1, <3>2 DEF KeptAside
    <2>8. result' = "none" /\ ~op'.failed
      BY <1>1, <1>2, <1>3, <2>1 DEF Undoable
    <2>9. op'.at \in Files => (Journaled \subseteq Done)'
      <3> SUFFICES ASSUME op'.at \in Files PROVE (Journaled \subseteq Done)'
        OBVIOUS
      <3>1. Journaled \subseteq Behind(f) \cup {f}
        BY <1>1, <1>2 DEF Undoable, Done
      <3>2. op'.at = Following(f)
        BY <2>1, <2>4
      <3>3. Behind(f) \cup {f} \subseteq Behind(op'.at)
        BY <3>2, FollowingOf
      <3> QED
        BY <1>3, <3>1, <3>3 DEF Done
    <2>10. \A g \in Files \ Journaled : files'[g] = before'[g]
      BY <1>1, <1>2, <1>3, <2>1, <2>2, <2>8 DEF Undoable
    <2>11. Undoable'
      BY <1>1, <1>2, <1>3, <2>1, <2>4, <2>8, <2>9, <2>10 DEF Undoable
    <2>12. FailureRestores'
      BY <2>8 DEF FailureRestores
    <2> QED
      BY <2>5, <2>6, <2>7, <2>11, <2>12 DEF Recoverable
  <1> QED
    BY <1>4, <1>5, <1>6

\* A command that ends, well or by death, leaves an empty journal.
LEMMA EndHolds ==
    ASSUME Recoverable, op' = Idle, journal' = <<>>,
           UNCHANGED <<backups, before, written, second>>,
           marks' \in MarkSets, marks'.late = marks.late,
           DOMAIN files' = Files,
           \A f \in Files : files'[f] = files[f] \/ f \in Journaled,
           FailureRestores'
    PROVE  Recoverable'
  <1>1. Journaled' = {}
    BY DEF Journaled
  <1>2. DOMAIN op' = Fields /\ op'.at = "idle" /\ "idle" \notin Files
    BY Starts DEF Files
  <1>3. Shape'
    BY <1>2, JournalTyped DEF Recoverable, Shape
  <1>4. AuthoredIsKept'
    BY DEF Recoverable, AuthoredIsKept, KeptAside, Aside
  <1>5. KeptAside'
    BY <1>1, <1>2 DEF KeptAside
  <1>6. Undoable'
    BY <1>2 DEF Undoable
  <1> QED
    BY <1>3, <1>4, <1>5, <1>6 DEF Recoverable

LEMMA FinishHolds == ASSUME Recoverable, Finish PROVE Recoverable'
  <1>1. /\ op' = Idle /\ journal' = <<>> /\ result' \in {"removed", "installed"}
        /\ UNCHANGED <<files, backups, before, written, marks, second>>
    BY DEF Finish, userHistory
  <1>2. FailureRestores'
    BY <1>1 DEF FailureRestores
  <1>3. /\ DOMAIN files = Files
        /\ marks \in MarkSets
    BY DEF Recoverable, Shape
  <1> QED
    BY <1>1, <1>2, <1>3, EndHolds

LEMMA RolledBackHolds == ASSUME Recoverable, RolledBack PROVE Recoverable'
  <1>1. /\ op.at = "rollback" /\ journal = <<>> /\ journal' = journal /\ op' = Idle
        /\ result' = IF op.failed THEN "rollback failed" ELSE "failed"
        /\ UNCHANGED <<files, backups, before, written, marks, second>>
    BY DEF RolledBack, userHistory
  <1>2. Journaled = {}
    <2>1. Len(journal) = 0
      BY <1>1
    <2> QED
      BY <2>1 DEF Journaled
  <1>3. ~op.failed => \A f \in Files : files[f] = before[f]
    BY <1>1, <1>2 DEF Recoverable, Undoable
  <1>4. FailureRestores'
    BY <1>1, <1>3 DEF FailureRestores
  <1>5. /\ DOMAIN files = Files
        /\ marks \in MarkSets
    BY DEF Recoverable, Shape
  <1> QED
    BY <1>1, <1>4, <1>5, EndHolds

\* A copy that was cut short: only the file at the end of the journal.
LEMMA CutTyped ==
    ASSUME Shape, journal # <<>>, Cut(journal[Len(journal)][1])
    PROVE  /\ journal[Len(journal)][1] \in Journaled /\ journal[Len(journal)][1] \in Files
           /\ DOMAIN files' = Files
           /\ \A f \in Files : f # journal[Len(journal)][1] => files'[f] = files[f]
           /\ marks' \in MarkSets
           /\ marks'.late = marks.late
  <1> DEFINE g == journal[Len(journal)][1]
  <1>1. journal \in Seq(Entry) /\ Journaled = FilesOf(journal)
    BY DEF Shape, Journaled, FilesOf
  <1>2. g \in Journaled /\ g \in Files
    BY <1>1, JournalShrinks, JournalTyped
  <1>3. /\ files' = [files EXCEPT ![g] = Torn]
        /\ marks' = [marks EXCEPT !.torn = @ \cup {g}]
    BY DEF Cut
  <1> HIDE DEF g
  <1>4. /\ DOMAIN files' = Files /\ \A f \in Files : f # g => files'[f] = files[f]
    BY <1>3 DEF Shape
  <1>5. /\ marks' \in MarkSets
        /\ marks'.late = marks.late
    BY <1>2, <1>3 DEF MarkSets, Shape
  <1> QED
    BY <1>2, <1>4, <1>5 DEF g

LEMMA KillHolds == ASSUME Recoverable, Kill PROVE Recoverable'
  <1>1. /\ op' = Idle /\ journal' = <<>> /\ result' = "killed"
        /\ UNCHANGED <<backups, before, written, second>>
        /\ \/ UNCHANGED <<files, marks>>
           \/ journal # <<>> /\ Cut(journal[Len(journal)][1])
    BY DEF Kill
  <1>2. Shape
    BY DEF Recoverable
  <1>3. /\ DOMAIN files' = Files
        /\ marks' \in MarkSets /\ marks'.late = marks.late
        /\ \A f \in Files : files'[f] = files[f] \/ f \in Journaled
    <2>1. CASE UNCHANGED <<files, marks>>
      BY <1>2, <2>1 DEF Shape
    <2>2. CASE journal # <<>> /\ Cut(journal[Len(journal)][1])
      BY <1>2, <2>2, CutTyped
    <2> QED
      BY <1>1, <2>1, <2>2
  <1>4. FailureRestores'
    BY <1>1 DEF FailureRestores
  <1> QED
    BY <1>1, <1>3, <1>4, EndHolds

\* The last entry of the journal is copied back, or its copy fails and so does the rollback.
LEMMA RestoreHolds == ASSUME Recoverable, Restore PROVE Recoverable'
  <1> DEFINE n == Len(journal)
             f == journal[n][1]
  <1>1. /\ op.at = "rollback" /\ journal # <<>> /\ journal' = SubSeq(journal, 1, n - 1)
        /\ UNCHANGED <<backups, before, written, second, result>>
    BY DEF Restore, Remaining
  <1>2. /\ Shape /\ KeptAside /\ Undoable /\ AuthoredIsKept /\ journal \in Seq(Entry)
        /\ marks \in MarkSets
    BY DEF Recoverable, Shape
  <1>3. /\ journal' \in Seq(Entry) /\ Len(journal') = n - 1 /\ n \in Nat \ {0}
        /\ \A i \in 1 .. Len(journal') : journal'[i] = journal[i]
        /\ FilesOf(journal) = FilesOf(journal') \cup {f}
    <2> DEFINE r == journal'
    <2>1. journal \in Seq(Entry) /\ journal # <<>> /\ r = SubSeq(journal, 1, Len(journal) - 1)
      BY <1>1, <1>2
    <2> HIDE DEF r, n, f
    <2>2. /\ r \in Seq(Entry) /\ Len(r) = Len(journal) - 1 /\ Len(journal) \in Nat \ {0}
          /\ \A i \in 1 .. Len(r) : r[i] = journal[i]
          /\ FilesOf(journal) = FilesOf(r) \cup {journal[Len(journal)][1]}
      BY <2>1, JournalShrinks
    <2> QED
      BY <2>2 DEF r, n, f
  <1>4. Journaled = FilesOf(journal) /\ Journaled' = FilesOf(journal')
    BY DEF Journaled, FilesOf
  <1>5. Journaled = Journaled' \cup {f} /\ f \in Files /\ result = "none" /\ op.at # "idle"
    BY <1>1, <1>2, <1>3, <1>4, JournalTyped DEF Undoable
  <1>6. \/ /\ files' = [files EXCEPT ![f] = backups[f][journal[n][2]]]
           /\ UNCHANGED <<op, marks>>
        \/ /\ Cut(f) \/ UNCHANGED <<files, marks>>
           /\ op' = [op EXCEPT !.failed = TRUE]
    BY DEF Restore
  <1>7. /\ DOMAIN files' = Files /\ \A g \in Files : g # f => files'[g] = files[g]
        /\ marks' \in MarkSets
        /\ marks'.late = marks.late
    <2>1. CASE Cut(f)
      BY <1>1, <1>2, <2>1, CutTyped
    <2>2. CASE UNCHANGED <<files, marks>>
      BY <1>2, <2>2 DEF Shape
    <2>3. CASE /\ files' = [files EXCEPT ![f] = backups[f][journal[n][2]]]
               /\ UNCHANGED <<op, marks>>
      <3> DEFINE text == backups[f][journal[n][2]]
                 g == f
      <3>1. files' = [files EXCEPT ![g] = text] /\ marks' = marks
        BY <2>3
      <3> HIDE DEF text, g
      <3>2. /\ DOMAIN files' = Files /\ \A h \in Files : h # g => files'[h] = files[h]
        BY <1>2, <3>1 DEF Shape
      <3> QED
        BY <1>2, <3>1, <3>2 DEF g
    <2> QED
      BY <1>6, <2>1, <2>2, <2>3
  <1>8. DOMAIN op' = Fields /\ op'.at = "rollback" /\ "rollback" \notin Files
    <2>1. CASE op' = [op EXCEPT !.failed = TRUE]
      BY <1>1, <1>2, <2>1, OpSteps DEF Shape, Files
    <2>2. CASE op' = op
      BY <1>1, <1>2, <2>2 DEF Shape, Files
    <2> QED
      BY <1>6, <2>1, <2>2
  <1>9. ~op'.failed => ~op.failed /\ files'[f] = backups[f][journal[n][2]]
    <2>1. CASE op' = [op EXCEPT !.failed = TRUE]
      <3>1. op'.failed = TRUE
        BY <1>2, <2>1, OpSteps DEF Shape
      <3> QED
        BY <3>1
    <2>2. CASE /\ files' = [files EXCEPT ![f] = backups[f][journal[n][2]]]
               /\ UNCHANGED <<op, marks>>
      <3> DEFINE text == backups[f][journal[n][2]]
                 g == f
      <3>1. files' = [files EXCEPT ![g] = text] /\ op' = op /\ g \in Files
        BY <1>5, <2>2
      <3> HIDE DEF text, g
      <3>2. files'[g] = text
        BY <1>2, <3>1 DEF Shape
      <3> QED
        BY <3>1, <3>2 DEF g, text
    <2> QED
      BY <1>6, <2>1, <2>2
  <1>10. Shape'
    BY <1>1, <1>2, <1>3, <1>7, <1>8 DEF Shape
  <1>11. \A g \in Journaled : g \in marks'.late \/ Aside(g)'
    BY <1>1, <1>2, <1>7 DEF KeptAside, Aside
  <1>12. AuthoredIsKept'
    BY <1>1, <1>2, <1>5, <1>7, <1>11 DEF AuthoredIsKept, Aside
  <1>13. KeptAside'
    BY <1>5, <1>8, <1>11 DEF KeptAside
  <1>14. ASSUME ~op'.failed
         PROVE  /\ \A g \in Files \ Journaled' : files'[g] = before'[g]
                /\ \A i \in 1 .. Len(journal') :
                      /\ journal'[i][2] \in DOMAIN backups'[journal'[i][1]]
                      /\ backups'[journal'[i][1]][journal'[i][2]] = before'[journal'[i][1]]
                /\ \A i, j \in 1 .. Len(journal') : journal'[i][1] = journal'[j][1] => i = j
    <2>1. ~op.failed /\ files'[f] = backups[f][journal[n][2]]
      BY <1>9, <1>14
    <2>2. /\ \A g \in Files \ Journaled : files[g] = before[g]
          /\ \A i \in 1 .. n :
                /\ journal[i][2] \in DOMAIN backups[journal[i][1]]
                /\ backups[journal[i][1]][journal[i][2]] = before[journal[i][1]]
          /\ \A i, j \in 1 .. n : journal[i][1] = journal[j][1] => i = j
      BY <1>2, <1>5, <2>1 DEF Undoable
    <2>3. n \in 1 .. n /\ \A i \in 1 .. Len(journal') : i \in 1 .. n
      BY <1>3
    <2>4. files'[f] = before[f]
      BY <2>1, <2>2, <2>3
    <2> HIDE DEF f, n
    <2>5. \A g \in Files \ Journaled' : files'[g] = before'[g]
      BY <1>1, <1>5, <1>7, <2>2, <2>4
    <2>6. \A i \in 1 .. Len(journal') :
              /\ journal'[i][2] \in DOMAIN backups'[journal'[i][1]]
              /\ backups'[journal'[i][1]][journal'[i][2]] = before'[journal'[i][1]]
      BY <1>1, <1>3, <2>2, <2>3
    <2>7. \A i, j \in 1 .. Len(journal') : journal'[i][1] = journal'[j][1] => i = j
      BY <1>3, <2>2, <2>3
    <2> QED
      BY <2>5, <2>6, <2>7
  <1>15. Undoable'
    <2>1. op'.at \notin Files /\ op'.at # "idle" /\ op'.at # "reload"
      BY <1>8
    <2> QED
      BY <1>1, <1>5, <1>14, <2>1 DEF Undoable
  <1>16. FailureRestores'
    BY <1>1, <1>5 DEF FailureRestores
  <1> QED
    BY <1>10, <1>12, <1>13, <1>15, <1>16 DEF Recoverable

\* An edit of the user is in the file; it is marked late when it follows the backup.
LEMMA UserEditHolds ==
    ASSUME Recoverable, NEW f \in Files, UserEdit(f)
    PROVE  Recoverable'
  <1>1. UNCHANGED <<backups, second, op, journal, result>>
    BY DEF UserEdit
  <1>2. \E text : files' = [files EXCEPT ![f] = text]
    BY DEF UserEdit
  <1>3. /\ Shape /\ KeptAside /\ Undoable /\ AuthoredIsKept /\ FailureRestores
        /\ marks \in MarkSets
    BY DEF Recoverable, Shape
  <1>4. /\ DOMAIN files' = Files /\ \A g \in Files : g # f => files'[g] = files[g]
    BY <1>2, <1>3 DEF Shape
  <1>5. Journaled' = Journaled /\ Done' = Done
    BY <1>1 DEF Journaled, Done
  <1>6. /\ DOMAIN written' = Files /\ written'[f] = files'[f]
        /\ \A g \in Files : g # f => written'[g] = written[g]
    BY <1>3 DEF UserEdit, Shape
  <1>7. /\ marks' \in MarkSets
        /\ marks'.late = IF f \in Journaled THEN marks.late \cup {f} ELSE marks.late \ {f}
    BY <1>3 DEF UserEdit, MarkSets
  <1>8. /\ DOMAIN before' = Files
        /\ \A g \in Files : before'[g] = IF g = f /\ f \notin Journaled
                                         THEN files'[f] ELSE before[g]
    BY <1>3 DEF UserEdit, Shape
  <1>9. Journaled \subseteq Files
    <2>1. Journaled = FilesOf(journal) /\ journal \in Seq(Entry)
      BY <1>3 DEF Journaled, FilesOf, Shape
    <2> QED
      BY <2>1, JournalTyped
  <1>10. Shape'
    BY <1>1, <1>3, <1>4, <1>6, <1>7, <1>8 DEF Shape
  <1>11. \A g \in Journaled : g \in marks'.late \/ Aside(g)'
    <2> SUFFICES ASSUME NEW g \in Journaled, g # f PROVE g \in marks'.late \/ Aside(g)'
      BY <1>7
    <2>1. g \in marks.late \/ Aside(g)
      BY <1>3 DEF KeptAside
    <2>2. written'[g] = written[g]
      BY <1>6, <1>9
    <2> QED
      BY <1>1, <1>7, <2>1, <2>2 DEF Aside
  <1>12. AuthoredIsKept'
    BY <1>1, <1>3, <1>4, <1>6, <1>7 DEF AuthoredIsKept
  <1>13. KeptAside'
    BY <1>1, <1>3, <1>5, <1>11 DEF KeptAside
  <1>14. \A i \in 1 .. Len(journal) : before'[journal[i][1]] = before[journal[i][1]]
    <2>1. \A i \in 1 .. Len(journal) : journal[i][1] \in Journaled
      BY DEF Journaled
    <2> QED
      BY <1>8, <1>9, <2>1
  <1>15. Undoable'
    <2>1. ASSUME op.at # "idle", ~op.failed
          PROVE  /\ \A g \in Files \ Journaled : files'[g] = before'[g]
                 /\ \A i \in 1 .. Len(journal) :
                       /\ journal[i][2] \in DOMAIN backups[journal[i][1]]
                       /\ backups[journal[i][1]][journal[i][2]] = before'[journal[i][1]]
                 /\ \A i, j \in 1 .. Len(journal) : journal[i][1] = journal[j][1] => i = j
      <3>1. /\ \A g \in Files \ Journaled : files[g] = before[g]
            /\ \A i \in 1 .. Len(journal) :
                  /\ journal[i][2] \in DOMAIN backups[journal[i][1]]
                  /\ backups[journal[i][1]][journal[i][2]] = before[journal[i][1]]
            /\ \A i, j \in 1 .. Len(journal) : journal[i][1] = journal[j][1] => i = j
        BY <1>3, <2>1 DEF Undoable
      <3>2. \A g \in Files \ Journaled : files'[g] = before'[g]
        BY <1>4, <1>8, <3>1
      <3> QED
        BY <1>14, <3>1, <3>2
    <2> QED
      BY <1>1, <1>3, <1>5, <2>1 DEF Undoable
  <1>16. FailureRestores'
    <2>1. CASE op.at # "idle"
      BY <1>1, <1>3, <2>1 DEF Undoable, FailureRestores
    <2>2. CASE op.at = "idle"
      <3>1. Len(journal) = 0
        BY <1>3, <2>2 DEF Undoable
      <3>2. f \notin Journaled
        BY <3>1 DEF Journaled
      <3> QED
        BY <1>1, <1>3, <1>4, <1>8, <3>2 DEF FailureRestores
    <2> QED
      BY <2>1, <2>2
  <1> QED
    BY <1>10, <1>12, <1>13, <1>15, <1>16 DEF Recoverable

LEMMA TickHolds == ASSUME Recoverable, Tick PROVE Recoverable'
  <1>1. /\ UNCHANGED <<files, backups, before, written, marks, op, journal, result>>
        /\ second' = second + 1
    BY DEF Tick, userHistory
  <1>2. Journaled' = Journaled /\ Done' = Done
    BY <1>1 DEF Journaled, Done
  <1>3. Shape'
    BY <1>1 DEF Recoverable, Shape
  <1>4. AuthoredIsKept' /\ FailureRestores' /\ KeptAside'
    BY <1>1, <1>2 DEF Recoverable, AuthoredIsKept, FailureRestores, KeptAside, Aside
  <1>5. Undoable'
    BY <1>1, <1>2 DEF Recoverable, Undoable
  <1> QED
    BY <1>3, <1>4, <1>5 DEF Recoverable

LEMMA StutterHolds == ASSUME Recoverable, UNCHANGED desktopVars PROVE Recoverable'
  <1>1. UNCHANGED <<files, backups, before, written, marks, op, journal, result, second>>
    BY DEF desktopVars
  <1>2. Journaled' = Journaled /\ Done' = Done
    BY <1>1 DEF Journaled, Done
  <1>3. Shape'
    BY <1>1 DEF Recoverable, Shape
  <1>4. AuthoredIsKept' /\ FailureRestores' /\ KeptAside'
    BY <1>1, <1>2 DEF Recoverable, AuthoredIsKept, FailureRestores, KeptAside, Aside
  <1>5. Undoable'
    BY <1>1, <1>2 DEF Recoverable, Undoable
  <1> QED
    BY <1>3, <1>4, <1>5 DEF Recoverable

LEMMA DesktopNextHolds == ASSUME Recoverable, [DesktopNext]_desktopVars PROVE Recoverable'
  <1>1. ASSUME NEW kind, Start(kind) PROVE Recoverable'
    BY <1>1, StartHolds
  <1>2. ASSUME NEW f \in Files, Read(f) PROVE Recoverable'
    BY <1>2, ReadHolds
  <1>3. ASSUME NEW f \in Files, ReadFails(f) PROVE Recoverable'
    BY <1>3, ReadFailsHolds
  <1>4. ASSUME NEW f \in Files, Backup(f) PROVE Recoverable'
    BY <1>4, BackupHolds
  <1>5. ASSUME NEW f \in Files, Publish(f) PROVE Recoverable'
    BY <1>5, PublishHolds
  <1>6. ASSUME NEW f \in Files, UserEdit(f) PROVE Recoverable'
    BY <1>6, UserEditHolds
  <1>7. CASE Finish
    BY <1>7, FinishHolds
  <1>8. CASE Restore
    BY <1>8, RestoreHolds
  <1>9. CASE RolledBack
    BY <1>9, RolledBackHolds
  <1>10. CASE Kill
    BY <1>10, KillHolds
  <1>11. CASE Tick
    BY <1>11, TickHolds
  <1>12. CASE UNCHANGED desktopVars
    BY <1>12, StutterHolds
  <1> QED
    BY <1>1, <1>2, <1>3, <1>4, <1>5, <1>6, <1>7, <1>8, <1>9, <1>10, <1>11, <1>12 DEF DesktopNext

LEMMA DesktopInitHolds == ASSUME DesktopInit PROVE Recoverable
  <1>1. /\ desktop.files \in [Files -> Seq(STRING)] /\ files = desktop.files
        /\ backups = [f \in Files |-> <<>>] /\ second = 0 /\ op = Idle /\ journal = <<>>
        /\ result = "none" /\ before = files /\ written = files /\ marks = NoMarks
    BY InstallerAssumption DEF DesktopInit
  <1>2. Len(journal) = 0 /\ Journaled = {}
    <2>1. Len(journal) = 0
      BY <1>1
    <2> QED
      BY <2>1 DEF Journaled
  <1>3. \A f \in Files : IsFiniteSet(DOMAIN backups[f])
    BY <1>1, FS_EmptySet
  <1>4. DOMAIN op = Fields /\ op.at = "idle" /\ "idle" \notin Files
    BY <1>1, Starts DEF Files
  <1>5. /\ marks.late = {}
        /\ marks \in MarkSets
    BY <1>1 DEF MarkSets, NoMarks
  <1>6. Shape
    BY <1>1, <1>3, <1>4, <1>5, JournalTyped DEF Shape
  <1>7. AuthoredIsKept /\ FailureRestores
    BY <1>1 DEF AuthoredIsKept, FailureRestores
  <1>8. KeptAside
    BY <1>2, <1>4 DEF KeptAside
  <1>9. Undoable
    <2>1. op.at # "reload"
      BY <1>4
    <2> QED
      BY <1>1, <1>2, <1>4, <2>1 DEF Undoable
  <1> QED
    BY <1>6, <1>7, <1>8, <1>9 DEF Recoverable

LEMMA RecoverableHolds == DesktopSpec => []Recoverable
  <1>1. DesktopInit => Recoverable
    BY DesktopInitHolds
  <1>2. Recoverable /\ [DesktopNext]_desktopVars => Recoverable'
    BY DesktopNextHolds
  <1> QED
    BY <1>1, <1>2, PTL DEF DesktopSpec

\* What the user last wrote is the file, or one of its backups, at any moment, unless it
\* was written after the running command's backup of that file: whatever fails, however
\* often a command or its rollback is cut short, and for any texts.
THEOREM UserVersionsAreKept == DesktopSpec => []AuthoredIsKept
  <1>1. Recoverable => AuthoredIsKept
    BY DEF Recoverable
  <1> QED
    BY <1>1, RecoverableHolds, PTL

\* A command that reports failure, and no incomplete rollback, left every file as the
\* user had it before its backup.
THEOREM FailuresAreUndone == DesktopSpec => []FailureRestores
  <1>1. Recoverable => FailureRestores
    BY DEF Recoverable
  <1> QED
    BY <1>1, RecoverableHolds, PTL
=============================================================================
