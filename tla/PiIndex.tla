------------------------------ MODULE PiIndex ------------------------------
(***************************************************************************)
(* The daily token index of Pi (pi_tokens.rs): each refresh reads of every *)
(* session file only what was appended since the last one.  Session files  *)
(* grow, are rewritten in place, replaced, copied, moved and deleted at    *)
(* any moment, also between the system calls of a scan.                    *)
(*                                                                         *)
(* Bytes are counted in half lines: a line takes two, an unfinished line   *)
(* one.  An entry is known by its id; copies of a session repeat ids.      *)
(***************************************************************************)
EXTENDS Integers, Sequences, Functions

CONSTANTS
    Paths,      \* places in the session tree
    Inodes,     \* identities of files, reused once a file is deleted
    NoFile,     \* nothing at a path
    Headers,    \* session header lines
    Ids,        \* entry ids
    day,        \* local day of each entry
    Window,     \* lines covered by the cursor fingerprint
    Huge,       \* entries whose usage may not fit into the totals
    LastDay, MaxLines, MaxWrites,   \* bounds
    MaxNew      \* bound: entries that a file begins with

ASSUME PiAssumption ==
    /\ NoFile \notin Inodes \cup Headers \cup Ids
    /\ LastDay \in Nat \ {0} /\ MaxLines \in Nat /\ MaxWrites \in Nat /\ Window \in Nat
    /\ MaxNew \in 0 .. MaxLines
    /\ day \in [Ids -> 1 .. LastDay]
    /\ Headers \cap Ids = {} /\ Huge \subseteq Ids

VARIABLES
    today,   \* local day
    path,    \* the file at each path
    file,    \* contents and modification time of each file
    writes,  \* writes so far; modification times are taken from it
    index,   \* pi-index.json
    scan,    \* the scan in progress, with the index it works on
    quiet,   \* history: no file has changed during the scan in progress
    still    \* history: nor since it read the metadata of the file in hand

vars == <<today, path, file, writes, index, scan, quiet, still>>
disk == <<path, file, writes>>

Unknown == [offset |-> -1]
\* The fingerprint of a window that could not be read, which no window has.
Lost == <<NoFile>>
\* A session: its header and its entries, each of them once.
Session(h, entries) == <<h>> \o entries
Contents ==
    {Session(h, s) : h \in Headers, s \in UNION {Injection(1 .. n, Ids) : n \in 0 .. MaxNew}}
        \cup {<<>>}
Size(f) == 2 * Len(f.lines) + (IF f.tail THEN 1 ELSE 0)
Least(m, n) == IF m < n THEN m ELSE n
Prefix(s, n) == SubSeq(s, 1, Least(n, Len(s)))

\* cursor_window: the lines just before an offset.
Before(s, n) == SubSeq(s, IF n > Window THEN n - Window + 1 ELSE 1, Least(n, Len(s)))

EmptyIndex(d) ==
    [day |-> d, files |-> [i \in Inodes |-> Unknown], seen |-> [e \in Ids |-> {}],
     refused |-> {}]  \* history: entries that did not fit
NoScan == [pc |-> "idle", index |-> EmptyIndex(0), todo |-> {}, at |-> NoFile,
           key |-> NoFile, size |-> 0, mtime |-> 0, header |-> NoFile, offset |-> 0,
           ids |-> {}, found |-> {},
           prefix |-> <<>>,   \* history: the lines behind offset and ids
           raced |-> FALSE]   \* history: the file changed in them before its next read

Empty == [lines |-> <<>>, tail |-> FALSE, mtime |-> 0]

Init ==
    /\ today = 1
    /\ path = [a \in Paths |-> NoFile]
    /\ file = [i \in Inodes |-> Empty]
    /\ writes = 0
    /\ index = EmptyIndex(1)
    /\ scan = NoScan
    /\ quiet = TRUE /\ still = TRUE

-----------------------------------------------------------------------------
(* What Pi, the user and the calendar do to the session files.             *)

\* Fingerprints cover the header and the lines just before the cursor: they cannot tell
\* an edit further up from an append.  The model leaves such edits out: new contents that
\* match a state of the file agree with all the lines the state was made from.  A state
\* whose fingerprint is of other lines than its entries (raced) restricts nothing.
Matches(s, c) ==
    /\ s # Unknown /\ c # <<>> /\ s.offset <= Len(c)
    /\ s.header = c[1] /\ s.window = Before(c, s.offset)
Distinguishable(i, c) ==
    \A s \in {index.files[i], scan.index.files[i]} :
        Matches(s, c) /\ ~s.raced => Prefix(c, s.offset) = s.prefix

\* A scan has the metadata of a file and goes on to its contents.
Opened == scan.pc \in {"header", "cursor", "suffix", "record"}
Disturb == quiet' = (scan.pc = "idle") /\ still' = ~Opened

\* Nothing can be read any more of a file that no path names.
Linked(f, p) == [i \in Inodes |-> IF i \in Range(p) THEN f[i] ELSE Empty]

Write(p, i, lines, tail, mtime) ==
    /\ writes < MaxWrites /\ writes' = writes + 1
    /\ Distinguishable(i, lines)
    /\ \A e \in Range(lines) \cap Ids : day[e] <= today
    /\ path' = p
    /\ file' = Linked([file EXCEPT ![i] = [lines |-> lines, tail |-> tail, mtime |-> mtime]], p)
    /\ Disturb
    /\ UNCHANGED <<today, index, scan>>

\* An append may fall in the same millisecond as the write before it.
AppendLine(a, e) ==
    /\ path[a] # NoFile /\ day[e] = today
    /\ LET f == file[path[a]]
       IN /\ Len(f.lines) \in 1 .. MaxLines /\ e \notin Range(f.lines)
          /\ \E t \in {f.mtime, writes + 1} : Write(path, path[a], Append(f.lines, e), FALSE, t)

AppendPart(a) ==
    /\ path[a] # NoFile /\ ~file[path[a]].tail
    /\ Write(path, path[a], file[path[a]].lines, TRUE, writes + 1)

\* The file is written over in place, cut short for instance.  Its time differs from that
\* of the write before it.
Rewrite(a, c) ==
    /\ path[a] # NoFile
    /\ Write(path, path[a], c, FALSE, writes + 1)

\* A new file, or an atomic replacement, by an inode that no path names.
Create(a, i, c) ==
    /\ \A b \in Paths : path[b] # i
    /\ Write([path EXCEPT ![a] = i], i, c, FALSE, writes + 1)

Link(p) ==
    /\ path' = p
    /\ file' = Linked(file, p)
    /\ Disturb
    /\ UNCHANGED <<today, writes, index, scan>>

Remove(a) ==
    /\ path[a] # NoFile
    /\ Link([path EXCEPT ![a] = NoFile])

Move(a, b) ==
    /\ path[a] # NoFile /\ a # b
    /\ Link([path EXCEPT ![b] = path[a], ![a] = NoFile])

Midnight ==
    /\ today < LastDay
    /\ today' = today + 1
    /\ UNCHANGED <<disk, index, scan, quiet, still>>

-----------------------------------------------------------------------------
(* The index.                                                              *)

\* Mutant: the entry goes whoever else holds it.
WithoutFileOrEntries(x, i) ==
    [x EXCEPT !.files[i] = Unknown,
              !.seen = [e \in Ids |-> IF x.files[i] # Unknown /\ e \in x.files[i].ids
                                      THEN {} ELSE @[e]]]

\* remove_file_sources: entries that no other file holds go with it.
WithoutFile(x, i) ==
    [x EXCEPT !.files[i] = Unknown,
              !.seen = [e \in Ids |-> IF x.files[i] # Unknown /\ e \in x.files[i].ids
                                      THEN @[e] \ {i} ELSE @[e]]]

WithoutFiles(x, I) ==
    [x EXCEPT !.files = [i \in Inodes |-> IF i \in I THEN Unknown ELSE @[i]],
              !.seen = [e \in Ids |->
                  @[e] \ {i \in I : x.files[i] # Unknown /\ e \in x.files[i].ids}]]

\* update_pi_index: an index of another day, or one that cannot be read, is not
\* used; files that are gone withdraw their entries.
Begin ==
    /\ scan.pc = "idle"
    /\ \E x \in {EmptyIndex(today)} \cup (IF index.day = today THEN {index} ELSE {}) :
         scan' = [scan EXCEPT !.pc = "file",
                     !.index = WithoutFiles(x, Inodes \ {path[a] : a \in Paths}),
                     !.todo = {a \in Paths : path[a] # NoFile}]
    /\ quiet' = TRUE
    /\ UNCHANGED <<today, disk, index, still>>

Known == scan.index.files[scan.key]

\* Metadata of the next file; one that has not changed is not opened.
SameMetadata(s, f) == s # Unknown /\ s.size = Size(f) /\ s.mtime = f.mtime
Stat(a) ==
    /\ scan.pc = "file" /\ a \in scan.todo
    /\ LET rest == [scan EXCEPT !.todo = @ \ {a}]
           i == path[a]
       IN scan' = IF i = NoFile \/ SameMetadata(scan.index.files[i], file[i])
                  THEN rest
                  ELSE [rest EXCEPT !.pc = "header", !.at = a, !.key = i,
                                    !.size = Size(file[i]), !.mtime = file[i].mtime]
    /\ UNCHANGED <<today, disk, index, quiet, still>>

Leave(x) ==
    /\ scan' = [NoScan EXCEPT !.pc = "file", !.index = x, !.todo = scan.todo]
    /\ still' = TRUE
Now == file[path[scan.at]]

\* The file is read from its start, and what it held is withdrawn.
FromStart(s) == [s EXCEPT !.pc = "suffix", !.index = WithoutFile(@, scan.key),
                          !.offset = 0, !.ids = {}, !.prefix = <<>>, !.raced = FALSE]

\* The header of the file that the path names now.  A file with no valid header is left
\* as it is in the index, with the entries it had.
ReadHeader ==
    /\ scan.pc = "header"
    /\ IF path[scan.at] = NoFile \/ Now.lines = <<>> THEN Leave(scan.index)
       ELSE LET opened == [scan EXCEPT !.header = Now.lines[1]]
            IN /\ scan' = IF \/ Known = Unknown \/ scan.size < 2 * Known.offset
                             \/ Known.header # Now.lines[1]
                          THEN FromStart(opened) ELSE [opened EXCEPT !.pc = "cursor"]
               /\ UNCHANGED still
    /\ UNCHANGED <<today, disk, index, quiet>>

\* Mutant: the cursor's surroundings are not compared.
AnyWindow(s, lines) == TRUE

SameWindow(s, lines) == s.window = Before(lines, s.offset)

\* The path is opened again for the lines before the cursor.
ReadCursor ==
    /\ scan.pc = "cursor"
    /\ scan' = IF path[scan.at] # NoFile /\ SameWindow(Known, Now.lines)
               THEN [scan EXCEPT !.pc = "suffix", !.offset = Known.offset, !.ids = Known.ids,
                                 !.prefix = Known.prefix, !.raced = Known.raced]
               ELSE FromStart(scan)
    /\ UNCHANGED <<today, disk, index, quiet, still>>

\* Entries of the scan's day among some lines.
Countable(lines, d) == {e \in Range(lines) \cap Ids : day[e] = d}

\* read_suffix: the complete lines from the cursor up to the size found by Stat.
Suffix(lines) == SubSeq(lines, scan.offset + 1, Least(scan.size \div 2, Len(lines)))

\* Mutant: the cursor moves past a line that is still being written.
PastThePart(start, new) == (scan.size + 1) \div 2

SafeOffset(start, new) == start + Len(new)

\* Something has changed since the metadata were read, and the file at the path now is
\* another one, or does not begin with the lines that the scan has counted.
Overtaken ==
    /\ ~still /\ path[scan.at] # NoFile
    /\ path[scan.at] # scan.key \/ Prefix(Now.lines, Len(scan.prefix)) # scan.prefix

\* And again for what follows the cursor.
ReadSuffix ==
    /\ scan.pc = "suffix"
    /\ IF path[scan.at] = NoFile THEN Leave(scan.index)
       ELSE LET new == Suffix(Now.lines)
                found == Countable(new, scan.index.day)
            IN /\ scan' = [scan EXCEPT
                    !.pc = "record", !.offset = SafeOffset(@, new), !.found = found,
                    !.ids = @ \cup found, !.prefix = @ \o new, !.raced = @ \/ Overtaken]
               /\ UNCHANGED still
    /\ UNCHANGED <<today, disk, index, quiet>>

\* add_entry: what is counted already gets another source; an entry that is too much for
\* the totals is not counted, though its file lists it.
Refusable == {e \in scan.found \cap Huge : scan.index.seen[e] = {}}

Add(x, found, refused) ==
    [x EXCEPT !.seen = [e \in Ids |-> IF e \in found \ refused THEN @[e] \cup {scan.key}
                                      ELSE @[e]],
              !.refused = @ \cup refused]

\* And once more for the fingerprint before the new cursor.
Record ==
    /\ scan.pc = "record"
    /\ \E refused \in SUBSET Refusable :
         Leave([Add(scan.index, scan.found, refused) EXCEPT
                  !.files[scan.key] =
                     [size |-> scan.size, mtime |-> scan.mtime, header |-> scan.header,
                      window |-> IF path[scan.at] = NoFile THEN Lost
                                 ELSE Before(Now.lines, scan.offset),
                      offset |-> scan.offset, ids |-> scan.ids,
                      prefix |-> scan.prefix, raced |-> scan.raced \/ Overtaken]])
    /\ UNCHANGED <<today, disk, index, quiet>>

\* All files are done: the index replaces the one on disk, unless that fails.
Save ==
    /\ scan.pc = "file" /\ scan.todo = {}
    /\ index' \in {index, scan.index}
    /\ scan' = NoScan
    /\ quiet' = TRUE /\ still' = TRUE
    /\ UNCHANGED <<today, disk>>

Crash ==
    /\ scan.pc # "idle"
    /\ scan' = NoScan
    /\ quiet' = TRUE /\ still' = TRUE
    /\ UNCHANGED <<today, disk, index>>

-----------------------------------------------------------------------------

Next ==
    \/ \E a \in Paths :
         \/ \E e \in Ids : AppendLine(a, e)
         \/ AppendPart(a) \/ Remove(a) \/ Stat(a)
         \/ \E b \in Paths : Move(a, b)
         \/ \E c \in Contents : Rewrite(a, c) \/ \E i \in Inodes : Create(a, i, c)
    \/ Midnight
    \/ Begin \/ ReadHeader \/ ReadCursor \/ ReadSuffix \/ Record \/ Save \/ Crash

Spec == Init /\ [][Next]_vars

-----------------------------------------------------------------------------
(* Properties.                                                             *)

Indexes == {index, scan.index}

TypeOK ==
    /\ today \in 1 .. LastDay
    /\ path \in [Paths -> Inodes \cup {NoFile}]
    /\ \A i \in Inodes : file[i].lines = <<>> \/ file[i].lines[1] \in Headers
    /\ writes \in 0 .. MaxWrites
    /\ \A x \in Indexes : \A i \in Inodes : x.files[i] # Unknown =>
         /\ x.files[i].offset \in 0 .. MaxLines + 1
         /\ x.files[i].ids \subseteq Ids
    /\ scan.pc \in {"idle", "file", "header", "cursor", "suffix", "record"}
    /\ quiet \in BOOLEAN /\ still \in BOOLEAN

\* add_entry, remove_file_sources: "Track every source path so removing one file
\* keeps the contribution while another still references it".  In every index,
\* an entry names exactly the files that hold it; one that did not fit into the
\* totals may name fewer of them, and never another file.
Holders(x, e) == {i \in Inodes : x.files[i] # Unknown /\ e \in x.files[i].ids}
SourcesAgree ==
    /\ TypeOK
    /\ \A x \in Indexes : \A e \in Ids :
         /\ x.seen[e] \subseteq Holders(x, e)
         /\ e \notin x.refused => x.seen[e] = Holders(x, e)

\* "Steady-state fast path": a file whose metadata are those of the index on disk holds
\* exactly the entries that the index has for it, although the index may stem from a scan
\* during which files were appended to, rewritten, moved or replaced.  Not covered: a
\* state made of lines that were written over, or of a file replaced, between two reads
\* of the path (raced; see EditsAreDetected), and what is made from it by later appends.
FastPathSound ==
    \A a \in Paths : path[a] # NoFile =>
        LET s == index.files[path[a]] f == file[path[a]]
        IN SameMetadata(s, f) /\ ~s.raced => s.ids = Countable(f.lines, index.day)

\* What a scan with no index would count of a file, but for entries that did not fit.
AsRebuilt(x, i) ==
    {e \in Ids : i \in x.seen[e]} \ x.refused = Countable(file[i].lines, x.day) \ x.refused
Raced(s) == s # Unknown /\ s.raced
Readable == {i \in Range(path) \cap Inodes : file[i].lines # <<>>}
QuietScanDone == quiet /\ scan.pc = "file" /\ scan.todo = {}

\* "Cache JSON is an optimization, never evidence": a scan during which no file changes
\* counts of every file what a scan with no index would count, and nothing of files that
\* are gone, whatever happened to other scans before, whether they were saved, failed or
\* died.  Not covered: files without a valid header, which process_file leaves before it
\* compares any fingerprint (pi_tokens.rs:440-444), with the entries they had, and raced
\* states until the file is read from its start again.
ScanIsRebuild ==
    QuietScanDone =>
        /\ \A e \in Ids : scan.index.seen[e] \subseteq Range(path)
        /\ \A i \in Readable :
             Raced(scan.index.files[i]) \/ AsRebuilt(scan.index, i)

\* "this window detects in-place edits before appended bytes are trusted"; a file that does
\* not match is rebuilt.  Violated: the window is compared (pi_tokens.rs:451), the bytes
\* are read (463) and the new window is taken (493) by three opens of the path.
EditsAreDetected ==
    QuietScanDone => \A i \in Readable : AsRebuilt(scan.index, i)
=============================================================================
