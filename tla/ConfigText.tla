----------------------------- MODULE ConfigText -----------------------------
(***************************************************************************)
(* The text edits of install.rs on the files of Waybar and Hyprland.  A    *)
(* text is a sequence of tokens: one member, array item, CSS rule or       *)
(* Hyprland line each, and NL.  What is on one line matters, because a     *)
(* JSONC comment and the removal of marked lines both reach the line's end.*)
(***************************************************************************)
EXTENDS Integers, Sequences, FiniteSets

CONSTANTS
    UserTokens,    \* text the user wrote, of which
    Naming,        \* names the window class in hyprland.conf, as RULE does
    Tolerated      \* begins a line of a kind the installer's own blocks hold
                   \* ("interval", color:, margin:, a CSS comment)

ASSUME TextAssumption == Naming \cup Tolerated \subseteq UserTokens

NL == "\n"
ENTRY == "\"custom/ai-usage\""          \* the item in modules-right
MODULE_DEF == "\"custom/ai-usage\": {..}" \* the module definition, all its lines
CSS == "#custom-ai-usage"               \* the rules of style_block
RULE == "windowrule"                    \* for class org.omarchy.lazysubs-eye
NOTE == "// lazysubs-eye"
BEGIN == "lazysubs-eye-begin"
END == "lazysubs-eye-end"
NoFile == <<"no file">>

Has(text, token) == \E i \in 1 .. Len(text) : text[i] = token
Occurrences(text, token) == Cardinality({i \in 1 .. Len(text) : text[i] = token})
NamesClass(text) == Has(text, RULE) \/ \E token \in Naming : Has(text, token)
Smallest(S) == CHOOSE i \in S : \A j \in S : i <= j

\* The positions of a text that satisfy a condition, in order.
Positions(text, Test(_)) == SelectSeq([i \in 1 .. Len(text) |-> i], Test)

\* The lines of a text, each with its NL.
Lines(text) ==
    LET ends == Positions(text, LAMBDA i : text[i] = NL \/ i = Len(text))
    IN  [n \in 1 .. Len(ends) |->
            SubSeq(text, IF n = 1 THEN 1 ELSE ends[n - 1] + 1, ends[n])]

\* The text of the lines that are kept.
Joined(lines, kept) ==
    LET upTo[n \in 0 .. Len(lines)] ==
            IF n = 0 THEN <<>>
            ELSE upTo[n - 1] \o IF n \in kept THEN lines[n] ELSE <<>>
    IN  upTo[Len(lines)]

-----------------------------------------------------------------------------
(* Insertion.                                                              *)

\* The bracket that closes the one at position open; 0 if none does.
MatchingBracket(text, open) ==
    LET depth(i) == Cardinality({j \in open .. i : text[j] = "["})
                        - Cardinality({j \in open .. i : text[j] = "]"})
        closes == {i \in open .. Len(text) : text[i] = "]" /\ depth(i) = 0}
    IN  IF closes = {} THEN 0 ELSE Smallest(closes)

\* modules-right gets the entry and the object gets the definition; NoFile where
\* the structure is not recognised.
WithModule(text) ==
    LET keys == {i \in 1 .. Len(text) : text[i] = "modules-right"}
        opens == {i \in 1 .. Len(text) : text[i] = "[" /\ \E k \in keys : k < i}
        open == Smallest(opens)
        close == MatchingBracket(text, open)
        after == Smallest({i \in close + 1 .. Len(text) : text[i] # NL})
        array == SubSeq(text, open + 1, close - 1)
        entry == IF \A i \in 1 .. Len(array) : array[i] = NL
                 THEN <<NL, ENTRY, NOTE, NL>> ELSE <<NL, ENTRY, ",", NOTE>>
        with(at, definition) ==
            SubSeq(text, 1, open) \o entry \o SubSeq(text, open + 1, at)
                \o definition \o SubSeq(text, at + 1, Len(text))
    IN  IF \/ opens = {} \/ close = 0
           \/ \A i \in close + 1 .. Len(text) : text[i] = NL
        THEN NoFile
        ELSE CASE text[after] = "," ->
                    with(after, <<NL, BEGIN, NL, MODULE_DEF, ",", NL, END>>)
               [] text[after] = "}" ->
                    with(close, <<",", NL, BEGIN, NL, MODULE_DEF, NL, END>>)
               [] OTHER -> NoFile

WithStyle(text) ==
    text \o (IF text = <<>> \/ text[Len(text)] = NL THEN <<>> ELSE <<NL>>)
         \o <<BEGIN, NL, CSS, NL, END, NL>>

WithRule(text) ==
    text \o (IF text # <<>> /\ text[Len(text)] = NL THEN <<>> ELSE <<NL>>)
         \o <<NL, RULE, NOTE, NL>>

-----------------------------------------------------------------------------
(* Removal.                                                                *)

\* The lines inside a block of markers, those of the markers left out.
InBlock(lines) ==
    {n \in 1 .. Len(lines) :
        \E b \in 1 .. n - 1 :
            /\ Has(lines[b], BEGIN)
            /\ \A m \in b + 1 .. n : ~Has(lines[m], END)}

Ours == {BEGIN, END, NOTE, ENTRY, MODULE_DEF, CSS, RULE}

\* strip_marked drops the blocks with both markers and the annotated lines (an end
\* marker outside a block is one of them in JSONC; Valid leaves none in CSS).
Strip(text) ==
    LET lines == Lines(text)
    IN  Joined(lines, {n \in (1 .. Len(lines)) \ InBlock(lines) :
                          \A token \in {BEGIN, END, NOTE} : ~Has(lines[n], token)})

\* Uninstall drops the lines that name the window class, whoever wrote them.
WithoutRule(text) ==
    LET lines == Lines(text)
    IN  Joined(lines, {n \in 1 .. Len(lines) : ~NamesClass(lines[n])})

Marked(text) == Has(text, BEGIN) \/ Has(text, END)

\* A line of the kinds the blocks hold: the check does not see who wrote it.
Structural(line) ==
    \/ SelectSeq(line, LAMBDA token : token # NL) \in {<<>>, <<"{">>, <<"}">>, <<"}", ",">>}
    \/ line[1] \in Tolerated \cup {CSS}
    \/ Has(line, ENTRY) \/ Has(line, MODULE_DEF)

\* check_manual_rules_between_markers
ManualRule(text) ==
    LET lines == Lines(text)
    IN  \E n \in InBlock(lines) : ~Structural(lines[n])

\* Mutant: the markers are not validated before removal.
ValidUnchecked(text) == TRUE

\* validate_markers
Valid(text) ==
    Marked(text) => /\ Occurrences(text, BEGIN) = Occurrences(text, END)
                    /\ ~ManualRule(text)

-----------------------------------------------------------------------------
(* What a reader of the files sees.                                        *)

\* The user's tokens outside line comments, in order.
UserPart(text) ==
    LET commented(i) ==
            \E j \in 1 .. i : /\ text[j] \in {NOTE, BEGIN, END}
                              /\ \A k \in j .. i : text[k] # NL
        own == Positions(text, LAMBDA i : text[i] \in UserTokens /\ ~commented(i))
    IN  [n \in 1 .. Len(own) |-> text[own[n]]]

\* The text without the user's lines that the check of the blocks lets pass.
WithoutTolerated(text) ==
    LET lines == Lines(text)
    IN  Joined(lines, {n \in 1 .. Len(lines) :
                          n \in InBlock(lines) => lines[n][1] \notin Tolerated})

\* The text but for its layout, its commas and the lines that name the class.
Bare(text) == SelectSeq(text, LAMBDA token : token \notin {NL, ",", RULE} \cup Naming)
=============================================================================
