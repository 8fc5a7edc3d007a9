---------------------------- MODULE PiIndexProofs ----------------------------
(***************************************************************************)
(* PiIndex for any session tree, any number of files, entries and writes:  *)
(* the two directions of the index agree; the fast path is sound, and a    *)
(* scan during which nothing changes counts what a scan from nothing       *)
(* would, but for what was written over between two reads of one scan.     *)
(***************************************************************************)
EXTENDS PiIndex, SequenceTheorems, TLAPS

Line == Headers \cup Ids
SessionFile == [lines : Seq(Line), tail : BOOLEAN, mtime : Nat]
FileState ==
    [size : Nat, mtime : Nat, header : Headers, window : Seq(Line) \cup {Lost}, offset : Nat,
     ids : SUBSET Ids, prefix : Seq(Line), raced : BOOLEAN]
TokenIndex ==
    [day : Nat, files : [Inodes -> FileState \cup {Unknown}], seen : [Ids -> SUBSET Inodes],
     refused : SUBSET Ids]
ScanState ==
    [pc : {"idle", "file", "header", "cursor", "suffix", "record"}, index : TokenIndex,
     todo : SUBSET Paths, at : Paths \cup {NoFile}, key : Inodes \cup {NoFile},
     size : Nat, mtime : Nat, header : Headers \cup {NoFile}, offset : Nat,
     ids : SUBSET Ids, found : SUBSET Ids, prefix : Seq(Line), raced : BOOLEAN]

\* A state of a file that an index knows.
Knows(x, i) == x.files[i] # Unknown
Agrees(x) ==
    \A e \in Ids :
        /\ x.seen[e] \subseteq Holders(x, e)
        /\ e \notin x.refused => x.seen[e] = Holders(x, e)

Reading == scan.pc \in {"suffix", "record"}
Typed ==
    /\ today \in 1 .. LastDay
    /\ path \in [Paths -> Inodes \cup {NoFile}]
    /\ file \in [Inodes -> SessionFile]
    /\ \A i \in Inodes : /\ Len(file[i].lines) <= MaxLines + 1
                         /\ file[i].lines # <<>> => file[i].lines[1] \in Headers
    /\ writes \in 0 .. MaxWrites
    /\ index \in TokenIndex /\ scan \in ScanState
    /\ quiet \in BOOLEAN /\ still \in BOOLEAN /\ (~Opened => still)
    /\ \A x \in Indexes : \A i \in Inodes : Knows(x, i) => x.files[i].offset <= MaxLines + 1
    /\ Opened => scan.at \in Paths /\ scan.key \in Inodes
    /\ Opened /\ scan.pc # "header" => scan.header \in Headers
    /\ scan.pc = "cursor" => Knows(scan.index, scan.key)
    /\ Reading => scan.offset <= MaxLines + 1

\* The entries counted before the cursor are those of the state that the index has.
KnownIds(x, i) == IF Knows(x, i) THEN x.files[i].ids ELSE {}
Resumes ==
    /\ scan.pc = "suffix" => scan.ids = KnownIds(scan.index, scan.key)
    /\ scan.pc = "record" => scan.ids = KnownIds(scan.index, scan.key) \cup scan.found

IndexInv == Typed /\ (\A x \in Indexes : Agrees(x)) /\ Resumes

-----------------------------------------------------------------------------
Named(i) == \E a \in Paths : path[a] = i

\* Files have one name, and those with a name have been written.
DiskInv ==
    /\ \A a, b \in Paths : path[a] = path[b] /\ path[a] # NoFile => a = b
    /\ \A i \in Inodes : IF Named(i) THEN file[i].mtime \in 1 .. writes ELSE file[i] = Empty

\* A file has not become older or shorter since its metadata were read.
NotBefore(size, mtime, f) == f.mtime > mtime \/ (f.mtime = mtime /\ Size(f) >= size)

\* What an index knows of a file: the entries of its prefix.  Unless it was raced, the
\* prefix is that of the file as long as the cursor fits, and the whole file while its
\* metadata are the same.
SameFile(size, mtime, f) == size = Size(f) /\ mtime = f.mtime
StateInv(s, i, d) ==
    /\ s.ids = Countable(s.prefix, d) /\ Len(s.prefix) = s.offset
    /\ s.mtime \in 1 .. writes
    /\ Named(i) => NotBefore(s.size, s.mtime, file[i])
    /\ ~s.raced =>
         /\ Matches(s, file[i].lines) => Prefix(file[i].lines, s.offset) = s.prefix
         /\ Named(i) /\ SameFile(s.size, s.mtime, file[i]) => s.prefix = file[i].lines
StatesInv == \A x \in Indexes : \A i \in Inodes : Knows(x, i) => StateInv(x.files[i], i, x.day)

\* What a scan knows of the file it has opened.
OpenedInv ==
    Opened =>
        /\ scan.mtime \in 1 .. writes
        /\ Named(scan.key) => NotBefore(scan.size, scan.mtime, file[scan.key])
        /\ still => /\ path[scan.at] = scan.key
                    /\ SameFile(scan.size, scan.mtime, file[scan.key])
CursorInv ==
    scan.pc = "cursor" =>
        /\ 2 * Known.offset <= scan.size
        /\ still => file[scan.key].lines # <<>> /\ Known.header = file[scan.key].lines[1]
ReadingInv ==
    Reading =>
        /\ scan.ids = Countable(scan.prefix, scan.index.day)
        /\ Len(scan.prefix) = scan.offset
        /\ still /\ ~scan.raced =>
             Prefix(file[scan.key].lines, Len(scan.prefix)) = scan.prefix
SuffixInv ==
    /\ scan.pc = "suffix" => 2 * scan.offset <= scan.size
    /\ scan.pc = "record" /\ ~scan.raced /\ Named(scan.key)
          /\ SameFile(scan.size, scan.mtime, file[scan.key]) =>
              scan.prefix = file[scan.key].lines
ScanInv == OpenedInv /\ CursorInv /\ ReadingInv /\ SuffixInv

FastPathInv == DiskInv /\ StatesInv /\ ScanInv

\* While nothing changes, the files that are done are counted as they are.
Exact(x, a) ==
    path[a] # NoFile /\ file[path[a]].lines # <<>> =>
        /\ Knows(x, path[a])
        /\ ~x.files[path[a]].raced =>
             x.files[path[a]].ids = Countable(file[path[a]].lines, x.day)
QuietInv ==
    quiet /\ scan.pc # "idle" =>
        /\ Opened => still
        /\ \A a \in scan.todo : path[a] # NoFile
        /\ \A i \in Inodes : Knows(scan.index, i) => Named(i)
        /\ \A a \in Paths \ scan.todo : ~(Opened /\ a = scan.at) => Exact(scan.index, a)

-----------------------------------------------------------------------------
(* The operators on lines.                                                 *)

\* A part of a file consists of its lines.
LEMMA PartsAreLines ==
    ASSUME NEW s \in Seq(Line), NEW m \in Nat, NEW n \in Nat
    PROVE  /\ SubSeq(s, m + 1, Least(n, Len(s))) \in Seq(Line)
           /\ Len(SubSeq(s, m + 1, Least(n, Len(s)))) =
                IF m < Least(n, Len(s)) THEN Least(n, Len(s)) - m ELSE 0
           /\ Prefix(s, n) \in Seq(Line)
           /\ Len(Prefix(s, n)) = Least(n, Len(s))
           /\ Before(s, n) \in Seq(Line)
  <1>1. /\ Len(s) \in Nat /\ Least(n, Len(s)) \in 0 .. Len(s)
        /\ \A i \in 1 .. Len(s) : s[i] \in Line
    BY LenProperties, ElementOfSeq DEF Least
  <1>2. ASSUME NEW k \in Nat, k >= 1
        PROVE  /\ SubSeq(s, k, Least(n, Len(s))) \in Seq(Line)
               /\ Len(SubSeq(s, k, Least(n, Len(s)))) =
                    IF k <= Least(n, Len(s)) THEN Least(n, Len(s)) - k + 1 ELSE 0
    <2>1. k \in Int /\ Least(n, Len(s)) \in Int
          /\ \A i \in k .. Least(n, Len(s)) : s[i] \in Line
      BY <1>1, <1>2
    <2> QED
      BY <2>1, SubSeqProperties
  <1>3. /\ SubSeq(s, m + 1, Least(n, Len(s))) \in Seq(Line)
        /\ Len(SubSeq(s, m + 1, Least(n, Len(s)))) =
             IF m < Least(n, Len(s)) THEN Least(n, Len(s)) - m ELSE 0
    <2>1. m + 1 \in Nat /\ m + 1 >= 1
      OBVIOUS
    <2>2. /\ SubSeq(s, m + 1, Least(n, Len(s))) \in Seq(Line)
          /\ Len(SubSeq(s, m + 1, Least(n, Len(s)))) =
               IF m + 1 <= Least(n, Len(s)) THEN Least(n, Len(s)) - (m + 1) + 1 ELSE 0
      BY <1>2, <2>1
    <2> QED
      BY <1>1, <2>2
  <1>4. Prefix(s, n) \in Seq(Line) /\ Len(Prefix(s, n)) = Least(n, Len(s))
    <2>1. /\ SubSeq(s, 1, Least(n, Len(s))) \in Seq(Line)
          /\ Len(SubSeq(s, 1, Least(n, Len(s)))) =
               IF 1 <= Least(n, Len(s)) THEN Least(n, Len(s)) - 1 + 1 ELSE 0
      BY <1>2
    <2> QED
      BY <1>1, <2>1 DEF Prefix
  <1>5. Before(s, n) \in Seq(Line)
    <2> DEFINE k == IF n > Window THEN n - Window + 1 ELSE 1
    <2>1. k \in Nat /\ k >= 1
      BY PiAssumption DEF PiAssumption
    <2> HIDE DEF k
    <2>2. SubSeq(s, k, Least(n, Len(s))) \in Seq(Line)
      BY <1>2, <2>1
    <2> QED
      BY <2>2 DEF Before, k
  <1> QED
    BY <1>3, <1>4, <1>5

\* The lines before a cursor and those a scan reads after it.
LEMMA PrefixGrows ==
    ASSUME NEW s \in Seq(Line), NEW m \in 0 .. Len(s), NEW n \in m .. Len(s)
    PROVE  Prefix(s, m) \o SubSeq(s, m + 1, n) = Prefix(s, n)
  <1>1. Len(s) \in Nat
    BY LenProperties
  <1>2. Prefix(s, m) = SubSeq(s, 1, m) /\ Prefix(s, n) = SubSeq(s, 1, n)
    BY <1>1 DEF Prefix, Least
  <1>3. 1 \in 1 .. Len(s) + 1 /\ m \in 1 - 1 .. Len(s) /\ n \in m .. Len(s)
    BY <1>1
  <1> QED
    BY <1>2, <1>3, ConcatAdjacentSubSeq

\* Entries are counted line by line, and the header is none.
LEMMA EntriesAdd ==
    ASSUME NEW s \in Seq(Line), NEW t \in Seq(Line), NEW d
    PROVE  /\ Countable(s \o t, d) = Countable(s, d) \cup Countable(t, d)
           /\ Countable(<<>>, d) = {} /\ Countable(s, d) \subseteq Ids
  <1>1. Range(s \o t) = Range(s) \cup Range(t)
    BY RangeConcatenation
  <1>2. Range(<<>>) = {}
    BY DEF Range
  <1> QED
    BY <1>1, <1>2 DEF Countable

\* Two half lines to a line.
LEMMA SizeOfFile ==
    ASSUME NEW f \in SessionFile
    PROVE  /\ Size(f) \in Nat /\ Size(f) \in {2 * Len(f.lines), 2 * Len(f.lines) + 1}
           /\ Size(f) \div 2 = Len(f.lines)
  <1>1. Len(f.lines) \in Nat
    BY DEF SessionFile
  <1>2. Size(f) \in {2 * Len(f.lines), 2 * Len(f.lines) + 1}
    <2>1. CASE f.tail
      BY <1>1, <2>1 DEF Size
    <2>2. CASE ~f.tail
      BY <1>1, <2>2 DEF Size
    <2> QED
      BY <2>1, <2>2
  <1> QED
    BY <1>1, <1>2

-----------------------------------------------------------------------------
(* The operations on an index.                                             *)

LEMMA EmptyIndexAgrees ==
    ASSUME NEW d \in Nat
    PROVE  EmptyIndex(d) \in TokenIndex /\ Agrees(EmptyIndex(d)) /\ EmptyIndex(d).day = d
           /\ \A i \in Inodes : ~Knows(EmptyIndex(d), i)
  BY DEF EmptyIndex, TokenIndex, Agrees, Holders, Knows

\* Files leave an index with what they alone hold.
LEMMA WithoutFilesAgrees ==
    ASSUME NEW x \in TokenIndex, Agrees(x), NEW I
    PROVE  /\ WithoutFiles(x, I) \in TokenIndex /\ Agrees(WithoutFiles(x, I))
           /\ WithoutFiles(x, I).day = x.day
           /\ \A i \in Inodes :
                WithoutFiles(x, I).files[i] = IF i \in I THEN Unknown ELSE x.files[i]
  <1> DEFINE z == WithoutFiles(x, I)
  <1>1. /\ x.files \in [Inodes -> FileState \cup {Unknown}] /\ x.seen \in [Ids -> SUBSET Inodes]
        /\ x.day \in Nat /\ x.refused \in SUBSET Ids
    BY DEF TokenIndex
  <1>2. /\ z.day = x.day /\ z.refused = x.refused
        /\ z.files = [i \in Inodes |-> IF i \in I THEN Unknown ELSE x.files[i]]
        /\ z.seen = [e \in Ids |->
                x.seen[e] \ {i \in I : x.files[i] # Unknown /\ e \in x.files[i].ids}]
        /\ z = [day |-> z.day, files |-> z.files, seen |-> z.seen, refused |-> z.refused]
    <2> DEFINE f == [i \in Inodes |-> IF i \in I THEN Unknown ELSE x.files[i]]
               g == [e \in Ids |->
                        x.seen[e] \ {i \in I : x.files[i] # Unknown /\ e \in x.files[i].ids}]
    <2>1. z = [x EXCEPT !.files = f, !.seen = g]
      BY DEF WithoutFiles
    <2> HIDE DEF f, g, z
    <2>2. z.day = x.day /\ z.refused = x.refused /\ z.files = f /\ z.seen = g
      BY <2>1 DEF TokenIndex
    <2>3. z = [day |-> z.day, files |-> z.files, seen |-> z.seen, refused |-> z.refused]
      BY <2>1 DEF TokenIndex
    <2> QED
      BY <2>2, <2>3 DEF f, g
  <1> HIDE DEF z
  <1>3. z.files \in [Inodes -> FileState \cup {Unknown}] /\ z.seen \in [Ids -> SUBSET Inodes]
    BY <1>1, <1>2
  <1>4. z \in TokenIndex
    BY <1>1, <1>2, <1>3 DEF TokenIndex
  <1>5. Agrees(z)
    <2> SUFFICES ASSUME NEW e \in Ids
                 PROVE  /\ z.seen[e] \subseteq Holders(z, e)
                        /\ e \notin z.refused => z.seen[e] = Holders(z, e)
      BY DEF Agrees
    <2>1. /\ x.seen[e] \subseteq Holders(x, e)
          /\ e \notin x.refused => x.seen[e] = Holders(x, e)
      BY DEF Agrees
    <2>2. Holders(z, e) = Holders(x, e) \ I
      BY <1>2 DEF Holders
    <2>3. z.seen[e] = x.seen[e] \ {i \in I : x.files[i] # Unknown /\ e \in x.files[i].ids}
      BY <1>2
    <2>4. z.seen[e] = x.seen[e] \ I
      BY <2>1, <2>3 DEF Holders
    <2> QED
      BY <1>2, <2>1, <2>2, <2>4
  <1> QED
    BY <1>2, <1>4, <1>5 DEF z

LEMMA WithoutFileAgrees ==
    ASSUME NEW x \in TokenIndex, Agrees(x), NEW k \in Inodes
    PROVE  /\ WithoutFile(x, k) \in TokenIndex /\ Agrees(WithoutFile(x, k))
           /\ WithoutFile(x, k).day = x.day
           /\ \A i \in Inodes :
                WithoutFile(x, k).files[i] = IF i = k THEN Unknown ELSE x.files[i]
  <1> DEFINE z == WithoutFile(x, k)
  <1>1. /\ x.files \in [Inodes -> FileState \cup {Unknown}] /\ x.seen \in [Ids -> SUBSET Inodes]
        /\ x.day \in Nat /\ x.refused \in SUBSET Ids
    BY DEF TokenIndex
  <1>2. /\ z.day = x.day /\ z.refused = x.refused
        /\ z.files = [i \in Inodes |-> IF i = k THEN Unknown ELSE x.files[i]]
        /\ z.seen = [e \in Ids |-> IF x.files[k] # Unknown /\ e \in x.files[k].ids
                                   THEN x.seen[e] \ {k} ELSE x.seen[e]]
        /\ z = [day |-> z.day, files |-> z.files, seen |-> z.seen, refused |-> z.refused]
    <2> DEFINE f == [i \in Inodes |-> IF i = k THEN Unknown ELSE x.files[i]]
               g == [e \in Ids |-> IF x.files[k] # Unknown /\ e \in x.files[k].ids
                                THEN x.seen[e] \ {k} ELSE x.seen[e]]
    <2>1. f = [x.files EXCEPT ![k] = Unknown]
      BY <1>1
    <2>2. z = [x EXCEPT !.files = f, !.seen = g]
      BY <2>1 DEF WithoutFile
    <2> HIDE DEF f, g, z
    <2>3. z.day = x.day /\ z.refused = x.refused /\ z.files = f /\ z.seen = g
      BY <2>2 DEF TokenIndex
    <2>4. z = [day |-> z.day, files |-> z.files, seen |-> z.seen, refused |-> z.refused]
      BY <2>2 DEF TokenIndex
    <2> QED
      BY <2>3, <2>4 DEF f, g
  <1> HIDE DEF z
  <1>3. z.files \in [Inodes -> FileState \cup {Unknown}] /\ z.seen \in [Ids -> SUBSET Inodes]
    BY <1>1, <1>2
  <1>4. z \in TokenIndex
    BY <1>1, <1>2, <1>3 DEF TokenIndex
  <1>5. Agrees(z)
    <2> SUFFICES ASSUME NEW e \in Ids
                 PROVE  /\ z.seen[e] \subseteq Holders(z, e)
                        /\ e \notin z.refused => z.seen[e] = Holders(z, e)
      BY DEF Agrees
    <2>1. /\ x.seen[e] \subseteq Holders(x, e)
          /\ e \notin x.refused => x.seen[e] = Holders(x, e)
      BY DEF Agrees
    <2>2. Holders(z, e) = Holders(x, e) \ {k}
      BY <1>2 DEF Holders
    <2>3. z.seen[e] = x.seen[e] \ {k}
      BY <1>2, <2>1 DEF Holders
    <2> QED
      BY <1>2, <2>1, <2>2, <2>3
  <1> QED
    BY <1>2, <1>4, <1>5 DEF z

\* What Record does to an index.
Stored(x, k, s, found, refused) ==
    [x EXCEPT !.files[k] = s,
              !.seen = [e \in Ids |-> IF e \in found \ refused THEN @[e] \cup {k} ELSE @[e]],
              !.refused = @ \cup refused]
LEMMA StoredAgrees ==
    ASSUME NEW x \in TokenIndex, Agrees(x), NEW k \in Inodes, NEW s \in FileState,
           NEW found \in SUBSET Ids, NEW refused \in SUBSET Ids,
           s.ids = KnownIds(x, k) \cup found
    PROVE  /\ Stored(x, k, s, found, refused) \in TokenIndex
           /\ Agrees(Stored(x, k, s, found, refused))
           /\ Stored(x, k, s, found, refused).day = x.day
           /\ \A i \in Inodes :
                Stored(x, k, s, found, refused).files[i] = IF i = k THEN s ELSE x.files[i]
  <1> DEFINE z == Stored(x, k, s, found, refused)
  <1>0. s # Unknown
    BY DEF FileState, Unknown
  <1>1. /\ x.files \in [Inodes -> FileState \cup {Unknown}] /\ x.seen \in [Ids -> SUBSET Inodes]
        /\ x.day \in Nat /\ x.refused \in SUBSET Ids
    BY DEF TokenIndex
  <1>2. /\ z.day = x.day /\ z.refused = x.refused \cup refused
        /\ z.files = [i \in Inodes |-> IF i = k THEN s ELSE x.files[i]]
        /\ z.seen = [e \in Ids |-> IF e \in found \ refused THEN x.seen[e] \cup {k}
                                                         ELSE x.seen[e]]
        /\ z = [day |-> z.day, files |-> z.files, seen |-> z.seen, refused |-> z.refused]
    <2> DEFINE f == [i \in Inodes |-> IF i = k THEN s ELSE x.files[i]]
               g == [e \in Ids |-> IF e \in found \ refused THEN x.seen[e] \cup {k}
                                                        ELSE x.seen[e]]
               h == x.refused \cup refused
    <2>1. f = [x.files EXCEPT ![k] = s]
      BY <1>1
    <2>2. z = [x EXCEPT !.files = f, !.seen = g, !.refused = h]
      BY <2>1 DEF Stored
    <2> HIDE DEF f, g, h, z
    <2>3. z.day = x.day /\ z.files = f /\ z.seen = g /\ z.refused = h
      BY <2>2 DEF TokenIndex
    <2>4. z = [day |-> z.day, files |-> z.files, seen |-> z.seen, refused |-> z.refused]
      BY <2>2 DEF TokenIndex
    <2> QED
      BY <2>3, <2>4 DEF f, g, h
  <1> HIDE DEF z
  <1>3. /\ z.files \in [Inodes -> FileState \cup {Unknown}] /\ z.seen \in [Ids -> SUBSET Inodes]
        /\ z.refused \in SUBSET Ids
    BY <1>1, <1>2
  <1>4. z \in TokenIndex
    BY <1>1, <1>2, <1>3 DEF TokenIndex
  <1>5. Agrees(z)
    <2> SUFFICES ASSUME NEW e \in Ids
                 PROVE  /\ z.seen[e] \subseteq Holders(z, e)
                        /\ e \notin z.refused => z.seen[e] = Holders(z, e)
      BY DEF Agrees
    <2>1. /\ x.seen[e] \subseteq Holders(x, e)
          /\ e \notin x.refused => x.seen[e] = Holders(x, e)
      BY DEF Agrees
    <2>2. Holders(z, e) = Holders(x, e) \cup (IF e \in found THEN {k} ELSE {})
      <3>1. k \in Holders(x, e) <=> e \in KnownIds(x, k)
        BY DEF Holders, KnownIds, Knows
      <3>2. k \in Holders(z, e) <=> k \in Holders(x, e) \/ e \in found
        BY <1>0, <1>2, <3>1 DEF Holders
      <3>3. \A i \in Inodes \ {k} : i \in Holders(z, e) <=> i \in Holders(x, e)
        BY <1>2 DEF Holders
      <3>4. Holders(z, e) \subseteq Inodes /\ Holders(x, e) \subseteq Inodes
        BY DEF Holders
      <3> QED
        BY <3>2, <3>3, <3>4
    <2>3. z.seen[e] = IF e \in found \ refused THEN x.seen[e] \cup {k} ELSE x.seen[e]
      BY <1>2
    <2>4. e \notin z.refused => e \notin x.refused /\ e \notin refused
      BY <1>2
    <2> QED
      BY <2>1, <2>2, <2>3, <2>4
  <1> QED
    BY <1>2, <1>4, <1>5 DEF z

LEMMA KnownStates ==
    ASSUME NEW x \in TokenIndex, NEW i \in Inodes, Knows(x, i)
    PROVE  x.files[i] \in FileState
  BY DEF TokenIndex, Knows

-----------------------------------------------------------------------------
(* What happens to the session files.                                      *)

\* A file that is written gets a later time, or grows within the same millisecond; it has
\* its place, or gets one that is free.
Wrote(p, i, c, tail, t) ==
    /\ Write(p, i, c, tail, t)
    /\ Len(c) <= MaxLines + 1 /\ (c # <<>> => c[1] \in Headers)
    /\ \/ t = writes + 1
       \/ /\ t = file[i].mtime /\ Named(i)
          /\ Size([lines |-> c, tail |-> tail, mtime |-> t]) > Size(file[i])
    /\ \/ p = path /\ Named(i)
       \/ ~Named(i) /\ \E a \in Paths : p = [path EXCEPT ![a] = i]
Renamed(p) ==
    /\ Link(p)
    /\ \E a \in Paths :
         /\ path[a] # NoFile
         /\ \/ p = [path EXCEPT ![a] = NoFile]
            \/ \E b \in Paths :
                 a # b /\ p = [path EXCEPT ![b] = path[a], ![a] = NoFile]
PathMaps == [Paths -> Inodes \cup {NoFile}]
SomeWrite ==
    \E p \in PathMaps, i \in Inodes, c \in Seq(Line), tail \in BOOLEAN, t \in Nat :
        Wrote(p, i, c, tail, t)
SomeRename == \E p \in PathMaps : Renamed(p)

LEMMA ContentsAreSessions ==
    ASSUME NEW c \in Contents
    PROVE  /\ c \in Seq(Line) /\ Len(c) <= MaxLines + 1 /\ (c # <<>> => c[1] \in Headers)
  <1> DEFINE U == UNION {Injection(1 .. n, Ids) : n \in 0 .. MaxNew}
  <1>1. c \in {Session(h, s) : h \in Headers, s \in U} \/ c = <<>>
    BY DEF Contents
  <1>2. c = <<>> \/ \E h \in Headers : \E s \in U : c = Session(h, s)
    BY <1>1
  <1>3. CASE c = <<>>
    BY <1>3, PiAssumption DEF PiAssumption
  <1>4. ASSUME NEW h \in Headers, NEW n \in 0 .. MaxNew, NEW s \in Injection(1 .. n, Ids),
               c = Session(h, s)
        PROVE  c \in Seq(Line) /\ Len(c) = n + 1 /\ c[1] = h
    <2>1. s \in Seq(Line) /\ Len(s) = n /\ n \in Nat
      <3>1. s \in [1 .. n -> Line] /\ n \in Nat
        BY PiAssumption DEF Injection, Line, PiAssumption
      <3> QED
        BY <3>1
    <2>2. <<h>> \in Seq(Line) /\ Len(<<h>>) = 1 /\ <<h>>[1] = h
      BY DEF Line
    <2> QED
      BY <1>4, <2>1, <2>2, ConcatProperties DEF Session
  <1>5. CASE \E h \in Headers : \E s \in U : c = Session(h, s)
    <2>1. PICK h \in Headers : \E s \in U : c = Session(h, s)
      BY <1>5
    <2>2. PICK s \in U : c = Session(h, s)
      BY <2>1
    <2>3. PICK n \in 0 .. MaxNew : s \in Injection(1 .. n, Ids)
      OBVIOUS
    <2>4. c \in Seq(Line) /\ Len(c) = n + 1 /\ c[1] = h
      BY <1>4, <2>2, <2>3
    <2>5. n \in Nat /\ n <= MaxLines /\ MaxLines \in Nat
      BY PiAssumption DEF PiAssumption
    <2> QED
      BY <2>4, <2>5
  <1> QED
    BY <1>2, <1>3, <1>5

\* Whatever happens to the files is a write or a change of names.
DiskStep ==
    \E a \in Paths :
       \/ \E e \in Ids : AppendLine(a, e)
       \/ AppendPart(a) \/ Remove(a)
       \/ \E b \in Paths : Move(a, b)
       \/ \E c \in Contents : Rewrite(a, c) \/ \E i \in Inodes : Create(a, i, c)

LEMMA DiskSteps ==
    ASSUME Typed, DiskStep
    PROVE  SomeWrite \/ SomeRename
  <1>0. /\ path \in PathMaps /\ file \in [Inodes -> SessionFile] /\ writes \in Nat
        /\ MaxLines \in Nat /\ NoFile \notin Inodes
    BY PiAssumption DEF Typed, PathMaps, PiAssumption
  <1> USE <1>0
  <1>1. PICK a \in Paths :
       \/ \E e \in Ids : AppendLine(a, e)
       \/ AppendPart(a) \/ Remove(a)
       \/ \E b \in Paths : Move(a, b)
       \/ \E c \in Contents : Rewrite(a, c) \/ \E i \in Inodes : Create(a, i, c)
    BY DEF DiskStep
  <1>2. ASSUME path[a] # NoFile
        PROVE  /\ path[a] \in Inodes /\ Named(path[a]) /\ file[path[a]].lines \in Seq(Line)
               /\ file[path[a]].tail \in BOOLEAN /\ file[path[a]].mtime \in Nat
               /\ Len(file[path[a]].lines) \in Nat
               /\ Len(file[path[a]].lines) <= MaxLines + 1
               /\ file[path[a]].lines # <<>> => file[path[a]].lines[1] \in Headers
    <2>1. path[a] \in Inodes /\ Named(path[a])
      BY <1>2 DEF PathMaps, Named
    <2>2. file[path[a]] \in SessionFile
      BY <2>1
    <2> QED
      BY <2>1, <2>2 DEF SessionFile, Typed
  <1>3. ASSUME NEW e \in Ids, AppendLine(a, e) PROVE SomeWrite
    <2> DEFINE f == file[path[a]]  c == Append(f.lines, e)
    <2>1. PICK t \in {f.mtime, writes + 1} : Write(path, path[a], c, FALSE, t)
      BY <1>3 DEF AppendLine
    <2>2. path[a] # NoFile /\ Len(f.lines) \in 1 .. MaxLines
      BY <1>3 DEF AppendLine
    <2>3. /\ c \in Seq(Line) /\ Len(c) = Len(f.lines) + 1 /\ c[1] = f.lines[1] /\ c # <<>>
          /\ f.lines # <<>>
      BY <1>2, <2>2, AppendProperties DEF Line
    <2>4. Size([lines |-> c, tail |-> FALSE, mtime |-> t]) > Size(f)
      <3>1. Size([lines |-> c, tail |-> FALSE, mtime |-> t]) = 2 * Len(c)
        BY <2>3 DEF Size
      <3>2. Size(f) \in {2 * Len(f.lines), 2 * Len(f.lines) + 1}
        <4>1. f \in SessionFile
          BY <1>2, <2>2
        <4> QED
          BY <4>1, SizeOfFile
      <3> HIDE DEF c, f
      <3> QED
        BY <2>2, <2>3, <3>1, <3>2
    <2> HIDE DEF c
    <2>5. t \in Nat /\ (t = writes + 1 \/ t = f.mtime)
      BY <1>2, <2>1, <2>2
    <2>6. Wrote(path, path[a], c, FALSE, t)
      <3>1. Len(c) <= MaxLines + 1 /\ c[1] \in Headers
        BY <1>2, <2>2, <2>3
      <3>2. Named(path[a]) /\ path[a] \in Inodes
        BY <1>2, <2>2
      <3> QED
        BY <2>1, <2>3, <2>4, <2>5, <3>1, <3>2 DEF Wrote
    <2> QED
      BY <1>2, <2>2, <2>3, <2>5, <2>6 DEF SomeWrite
  <1>4. CASE AppendPart(a)
    <2> DEFINE f == file[path[a]]
    <2>1. path[a] # NoFile /\ Write(path, path[a], f.lines, TRUE, writes + 1)
      BY <1>4 DEF AppendPart
    <2>2. Wrote(path, path[a], f.lines, TRUE, writes + 1)
      BY <1>2, <2>1 DEF Wrote
    <2>3. writes + 1 \in Nat
      OBVIOUS
    <2> QED
      BY <1>2, <2>1, <2>2, <2>3 DEF SomeWrite
  <1>5. ASSUME NEW c \in Contents, Rewrite(a, c) PROVE SomeWrite
    <2>1. path[a] # NoFile /\ Write(path, path[a], c, FALSE, writes + 1)
      BY <1>5 DEF Rewrite
    <2>2. Wrote(path, path[a], c, FALSE, writes + 1)
      BY <1>2, <2>1, ContentsAreSessions DEF Wrote
    <2>3. writes + 1 \in Nat
      OBVIOUS
    <2> QED
      BY <1>2, <2>1, <2>2, <2>3, ContentsAreSessions DEF SomeWrite
  <1>6. ASSUME NEW c \in Contents, NEW i \in Inodes, Create(a, i, c) PROVE SomeWrite
    <2> DEFINE p == [path EXCEPT ![a] = i]
    <2>1. /\ ~Named(i) /\ Write(p, i, c, FALSE, writes + 1)
      BY <1>6 DEF Create, Named
    <2>2. Wrote(p, i, c, FALSE, writes + 1)
      BY <2>1, ContentsAreSessions DEF Wrote
    <2>3. writes + 1 \in Nat /\ p \in PathMaps
      BY DEF PathMaps
    <2> QED
      BY <2>2, <2>3, ContentsAreSessions DEF SomeWrite
  <1>7. CASE Remove(a)
    <2>1. Renamed([path EXCEPT ![a] = NoFile]) /\ [path EXCEPT ![a] = NoFile] \in PathMaps
      BY <1>7 DEF Remove, Renamed, PathMaps
    <2> QED
      BY <2>1 DEF SomeRename
  <1>8. ASSUME NEW b \in Paths, Move(a, b) PROVE SomeRename
    <2> DEFINE p == [path EXCEPT ![b] = path[a], ![a] = NoFile]
    <2>1. Renamed(p) /\ p \in PathMaps
      BY <1>8 DEF Move, Renamed, PathMaps
    <2> QED
      BY <2>1 DEF SomeRename
  <1> QED
    BY <1>1, <1>3, <1>4, <1>5, <1>6, <1>7, <1>8

\* The files after a write and after a change of names.
LEMMA FilesAfter ==
    ASSUME NEW f \in [Inodes -> SessionFile], NEW p \in PathMaps
    PROVE  /\ Linked(f, p) \in [Inodes -> SessionFile]
           /\ \A j \in Inodes :
                Linked(f, p)[j] = IF \E a \in Paths : p[a] = j THEN f[j] ELSE Empty
  <1>1. \A j : j \in Range(p) <=> \E a \in Paths : p[a] = j
    BY DEF Range, PathMaps
  <1>2. Empty \in SessionFile
    BY DEF Empty, SessionFile
  <1> QED
    BY <1>1, <1>2 DEF Linked

-----------------------------------------------------------------------------
(* The index agrees with itself.                                           *)

LEMMA StepCases ==
    ASSUME [Next]_vars
    PROVE  \/ DiskStep \/ Midnight \/ Begin \/ ReadHeader \/ ReadCursor \/ ReadSuffix
           \/ Record \/ Save \/ Crash \/ (\E a \in Paths : Stat(a)) \/ UNCHANGED vars
  BY DEF Next, DiskStep

\* What happens to the files leaves the index and the scan alone.
LEMMA DiskStepKeeps ==
    ASSUME IndexInv, DiskStep
    PROVE  /\ UNCHANGED <<today, index, scan>> /\ Disturb
           /\ writes' \in 0 .. MaxWrites /\ writes' >= writes
           /\ path' \in PathMaps /\ file' \in [Inodes -> SessionFile]
           /\ \A i \in Inodes : /\ Len(file'[i].lines) <= MaxLines + 1
                                /\ file'[i].lines # <<>> => file'[i].lines[1] \in Headers
  <1>0. /\ Typed /\ path \in PathMaps /\ file \in [Inodes -> SessionFile] /\ writes \in Nat
        /\ writes <= MaxWrites /\ MaxWrites \in Nat /\ MaxLines \in Nat
        /\ Len(Empty.lines) = 0 /\ Empty.lines = <<>>
    BY PiAssumption DEF IndexInv, Typed, PathMaps, PiAssumption, Empty
  <1>1. CASE SomeWrite
    <2>1. PICK p \in PathMaps, i \in Inodes, c \in Seq(Line), tail \in BOOLEAN, t \in Nat :
             Wrote(p, i, c, tail, t)
      BY <1>1 DEF SomeWrite
    <2> DEFINE new == [lines |-> c, tail |-> tail, mtime |-> t]
               f == [file EXCEPT ![i] = new]
    <2>2. /\ UNCHANGED <<today, index, scan>> /\ Disturb
          /\ writes < MaxWrites /\ writes' = writes + 1 /\ path' = p /\ file' = Linked(f, p)
      BY <2>1 DEF Wrote, Write
    <2>3. new \in SessionFile /\ f \in [Inodes -> SessionFile]
      BY <1>0 DEF SessionFile
    <2>4. \A j \in Inodes : file'[j] \in {new, file[j], Empty}
      <3>1. \A j \in Inodes : f[j] \in {new, file[j]}
        BY <1>0
      <3> HIDE DEF f
      <3>2. \A j \in Inodes : Linked(f, p)[j] \in {f[j], Empty}
        BY <2>3, FilesAfter
      <3> QED
        BY <2>2, <3>1, <3>2
    <2>5. file' \in [Inodes -> SessionFile]
      <3>1. Linked(f, p) \in [Inodes -> SessionFile]
        BY <2>3, FilesAfter
      <3> QED
        BY <2>2, <3>1
    <2>6. Len(c) <= MaxLines + 1 /\ (c # <<>> => c[1] \in Headers)
      BY <2>1 DEF Wrote
    <2>7. ASSUME NEW j \in Inodes
          PROVE  /\ Len(file'[j].lines) <= MaxLines + 1
                 /\ file'[j].lines # <<>> => file'[j].lines[1] \in Headers
      <3>1. CASE file'[j] = new
        BY <2>6, <3>1
      <3>2. CASE file'[j] = file[j]
        BY <1>0, <3>2 DEF Typed
      <3>3. CASE file'[j] = Empty
        BY <1>0, <3>3
      <3> QED
        BY <2>4, <3>1, <3>2, <3>3
    <2>8. writes' \in 0 .. MaxWrites /\ writes' >= writes
      BY <1>0, <2>2
    <2> QED
      BY <2>2, <2>5, <2>7, <2>8
  <1>2. CASE SomeRename
    <2>1. PICK p \in PathMaps : Link(p)
      BY <1>2 DEF SomeRename, Renamed
    <2>2. \A j \in Inodes : file'[j] \in {file[j], Empty}
      BY <1>0, <2>1, FilesAfter DEF Link
    <2>3. file' \in [Inodes -> SessionFile]
      BY <1>0, <2>1, FilesAfter DEF Link
    <2>4. ASSUME NEW j \in Inodes
          PROVE  /\ Len(file'[j].lines) <= MaxLines + 1
                 /\ file'[j].lines # <<>> => file'[j].lines[1] \in Headers
      <3>1. CASE file'[j] = file[j]
        BY <1>0, <3>1 DEF Typed
      <3>2. CASE file'[j] = Empty
        BY <1>0, <3>2
      <3> QED
        BY <2>2, <3>1, <3>2
    <2> QED
      BY <1>0, <2>1, <2>3, <2>4 DEF Link
  <1> QED
    BY <1>0, <1>1, <1>2, DiskSteps

\* What a new index of a scan must satisfy, and nothing else of it.
GoodIndex(x) ==
    /\ x \in TokenIndex /\ Agrees(x)
    /\ \A i \in Inodes : Knows(x, i) => x.files[i].offset <= MaxLines + 1

LEMMA GoodIndexes ==
    ASSUME IndexInv
    PROVE  GoodIndex(index) /\ GoodIndex(scan.index)
  BY DEF IndexInv, Typed, Indexes, GoodIndex, ScanState

\* A scan that goes on to the next file.
LEMMA LeftTyped ==
    ASSUME NEW x, GoodIndex(x), NEW todo \in SUBSET Paths
    PROVE  [NoScan EXCEPT !.pc = "file", !.index = x, !.todo = todo] \in ScanState
  <1>1. 0 \in Nat /\ <<>> \in Seq(Line)
    OBVIOUS
  <1> QED
    BY <1>1 DEF NoScan, ScanState, GoodIndex
LEMMA NoScanTyped == NoScan \in ScanState /\ GoodIndex(NoScan.index)
  <1>1. 0 \in Nat /\ <<>> \in Seq(Line)
    OBVIOUS
  <1>2. GoodIndex(EmptyIndex(0))
    BY <1>1, EmptyIndexAgrees DEF GoodIndex
  <1> QED
    BY <1>1, <1>2 DEF NoScan, ScanState, GoodIndex

\* Begin withdraws what is gone from an index of today, or starts with none.
LEMMA BeginKeeps ==
    ASSUME IndexInv, Begin
    PROVE  /\ scan' \in ScanState /\ GoodIndex(scan'.index) /\ scan'.pc = "file"
           /\ UNCHANGED <<today, disk, index, still>> /\ quiet' = TRUE /\ scan.pc = "idle"
           /\ scan'.todo = {a \in Paths : path[a] # NoFile}
           /\ scan'.at = scan.at
           /\ \A i \in Inodes : Knows(scan'.index, i) =>
                /\ Named(i) /\ Knows(index, i) /\ index.day = scan'.index.day
                /\ scan'.index.files[i] = index.files[i]
  <1>0. Typed /\ GoodIndex(index) /\ today \in Nat /\ scan \in ScanState
    BY GoodIndexes, PiAssumption DEF IndexInv, Typed, PiAssumption
  <1>1. PICK x \in {EmptyIndex(today)} \cup (IF index.day = today THEN {index} ELSE {}) :
           scan' = [scan EXCEPT !.pc = "file",
                       !.index = WithoutFiles(x, Inodes \ {path[a] : a \in Paths}),
                       !.todo = {a \in Paths : path[a] # NoFile}]
    BY DEF Begin
  <1> DEFINE z == WithoutFiles(x, Inodes \ {path[a] : a \in Paths})
  <1>2. GoodIndex(x) /\ \A i \in Inodes : Knows(x, i) => x = index
    <2>1. CASE x = EmptyIndex(today)
      BY <1>0, <2>1, EmptyIndexAgrees DEF GoodIndex
    <2>2. CASE x = index
      BY <1>0, <2>2
    <2> QED
      BY <1>1, <2>1, <2>2
  <1>3. /\ z \in TokenIndex /\ Agrees(z) /\ z.day = x.day
        /\ \A i \in Inodes :
             z.files[i] = IF i \in Inodes \ {path[a] : a \in Paths} THEN Unknown ELSE x.files[i]
    BY <1>2, WithoutFilesAgrees DEF GoodIndex
  <1> HIDE DEF z
  <1>4. \A i \in Inodes : Knows(z, i) =>
          Named(i) /\ Knows(x, i) /\ z.files[i] = x.files[i]
    BY <1>3 DEF Knows, Named
  <1>5. GoodIndex(z)
    BY <1>2, <1>3, <1>4 DEF GoodIndex
  <1>6. /\ scan' \in ScanState /\ scan'.index = z /\ scan'.pc = "file" /\ scan'.at = scan.at
        /\ scan'.todo = {a \in Paths : path[a] # NoFile}
    BY <1>0, <1>1, <1>3 DEF ScanState, z
  <1>7. UNCHANGED <<today, disk, index, still>> /\ quiet' = TRUE /\ scan.pc = "idle"
    BY DEF Begin
  <1> QED
    BY <1>2, <1>3, <1>4, <1>5, <1>6, <1>7

\* Stat passes a file over, or opens it with its metadata.
LEMMA StatKeeps ==
    ASSUME IndexInv, NEW a \in Paths, Stat(a)
    PROVE  /\ scan' \in ScanState /\ scan'.index = scan.index
           /\ a \in scan.todo /\ scan'.todo = scan.todo \ {a} /\ scan.pc = "file"
           /\ UNCHANGED <<today, disk, index, quiet, still>>
           /\ \/ /\ scan'.pc = "file"
                 /\ path[a] = NoFile \/ SameMetadata(scan.index.files[path[a]], file[path[a]])
              \/ /\ scan'.pc = "header" /\ scan'.at = a /\ scan'.key = path[a]
                 /\ path[a] \in Inodes
                 /\ scan'.size = Size(file[path[a]]) /\ scan'.mtime = file[path[a]].mtime
  <1>0. Typed /\ scan \in ScanState /\ path[a] \in Inodes \cup {NoFile}
    BY DEF IndexInv, Typed
  <1>1. /\ a \in scan.todo /\ scan.pc = "file" /\ UNCHANGED <<today, disk, index, quiet, still>>
    BY DEF Stat
  <1> DEFINE rest == [scan EXCEPT !.todo = @ \ {a}]  i == path[a]
  <1>2. /\ rest \in ScanState /\ rest.index = scan.index /\ rest.pc = "file"
        /\ rest.todo = scan.todo \ {a}
    BY <1>0, <1>1 DEF ScanState
  <1>3. CASE i = NoFile \/ SameMetadata(scan.index.files[i], file[i])
    <2>1. scan' = rest
      BY <1>3 DEF Stat
    <2> QED
      BY <1>1, <1>2, <1>3, <2>1
  <1>4. CASE ~(i = NoFile \/ SameMetadata(scan.index.files[i], file[i]))
    <2>1. scan' = [rest EXCEPT !.pc = "header", !.at = a, !.key = i,
                               !.size = Size(file[i]), !.mtime = file[i].mtime]
      BY <1>4 DEF Stat
    <2>2. i \in Inodes /\ file[i] \in SessionFile
      BY <1>0, <1>4 DEF Typed
    <2>3. Size(file[i]) \in Nat /\ file[i].mtime \in Nat
      BY <2>2, SizeOfFile DEF SessionFile
    <2> HIDE DEF rest
    <2>4. /\ scan' \in ScanState /\ scan'.index = rest.index /\ scan'.todo = rest.todo
          /\ scan'.pc = "header" /\ scan'.at = a /\ scan'.key = i
          /\ scan'.size = Size(file[i]) /\ scan'.mtime = file[i].mtime
      BY <1>2, <2>1, <2>2, <2>3 DEF ScanState
    <2> QED
      BY <1>1, <1>2, <2>2, <2>4
  <1> QED
    BY <1>3, <1>4

\* What the scan has of the file in hand stays.
InHand == /\ scan'.at = scan.at /\ scan'.key = scan.key
          /\ scan'.size = scan.size /\ scan'.mtime = scan.mtime
Left(x) == scan'.pc = "file" /\ scan'.index = x /\ scan'.at = NoFile /\ still'

\* A scan that has a file in hand, and what every step that reads of it leaves alone.
LEMMA OpenedScan ==
    ASSUME IndexInv, Opened
    PROVE  /\ Typed /\ scan \in ScanState /\ GoodIndex(scan.index) /\ scan.index \in TokenIndex
           /\ Agrees(scan.index) /\ scan.key \in Inodes /\ scan.at \in Paths
           /\ scan.todo \in SUBSET Paths /\ MaxLines \in Nat /\ NoFile \notin Inodes
           /\ path[scan.at] # NoFile =>
                /\ path[scan.at] \in Inodes /\ Now \in SessionFile /\ Now.lines \in Seq(Line)
                /\ Len(Now.lines) \in Nat /\ Len(Now.lines) <= MaxLines + 1
                /\ Now.lines # <<>> => Now.lines[1] \in Headers
  <1>1. /\ Typed /\ scan \in ScanState /\ GoodIndex(scan.index) /\ scan.index \in TokenIndex
        /\ Agrees(scan.index) /\ scan.key \in Inodes /\ scan.at \in Paths
        /\ scan.todo \in SUBSET Paths /\ MaxLines \in Nat /\ NoFile \notin Inodes
    BY GoodIndexes, PiAssumption DEF IndexInv, Typed, GoodIndex, ScanState, PiAssumption
  <1>2. ASSUME path[scan.at] # NoFile
        PROVE  /\ path[scan.at] \in Inodes /\ Now \in SessionFile
               /\ Len(Now.lines) <= MaxLines + 1
               /\ Now.lines # <<>> => Now.lines[1] \in Headers
    BY <1>1, <1>2 DEF Typed, Now
  <1>3. ASSUME path[scan.at] # NoFile PROVE Now.lines \in Seq(Line) /\ Len(Now.lines) \in Nat
    BY <1>2, <1>3 DEF SessionFile
  <1> QED
    BY <1>1, <1>2, <1>3

LEMMA LeaveKeeps ==
    ASSUME IndexInv, NEW x, GoodIndex(x), Leave(x)
    PROVE  scan' \in ScanState /\ Left(x) /\ GoodIndex(scan'.index) /\ scan'.todo = scan.todo
  <1>1. scan' = [NoScan EXCEPT !.pc = "file", !.index = x, !.todo = scan.todo] /\ still' = TRUE
    BY DEF Leave
  <1>2. scan.todo \in SUBSET Paths
    BY DEF IndexInv, Typed, ScanState
  <1>3. scan' \in ScanState
    BY <1>1, <1>2, LeftTyped
  <1>4. Left(x) /\ scan'.todo = scan.todo /\ scan'.index = x
    BY <1>1 DEF NoScan, Left
  <1> QED
    BY <1>3, <1>4

\* The file is read from its start.
StartsOver ==
    /\ scan'.pc = "suffix" /\ scan'.offset = 0 /\ scan'.prefix = <<>> /\ scan'.ids = {}
    /\ ~scan'.raced /\ scan'.index.day = scan.index.day
    /\ \A i \in Inodes :
         scan'.index.files[i] = IF i = scan.key THEN Unknown ELSE scan.index.files[i]
LEMMA FromStartKeeps ==
    ASSUME IndexInv, Opened, NEW z \in ScanState, z.index = scan.index, scan' = FromStart(z)
    PROVE  /\ scan' \in ScanState /\ GoodIndex(scan'.index) /\ StartsOver
           /\ scan'.todo = z.todo /\ scan'.header = z.header /\ scan'.at = z.at
           /\ scan'.key = z.key /\ scan'.size = z.size /\ scan'.mtime = z.mtime
  <1> DEFINE x == WithoutFile(scan.index, scan.key)
  <1>1. /\ x \in TokenIndex /\ Agrees(x) /\ x.day = scan.index.day
        /\ \A i \in Inodes : x.files[i] = IF i = scan.key THEN Unknown ELSE scan.index.files[i]
    BY OpenedScan, WithoutFileAgrees
  <1>2. scan' = [z EXCEPT !.pc = "suffix", !.index = x, !.offset = 0, !.ids = {},
                          !.prefix = <<>>, !.raced = FALSE]
    BY DEF FromStart
  <1> HIDE DEF x
  <1>3. 0 \in Nat /\ <<>> \in Seq(Line)
    OBVIOUS
  <1>4. /\ scan'.index = x /\ scan'.pc = "suffix" /\ scan'.offset = 0
        /\ scan'.prefix = <<>> /\ scan'.ids = {} /\ ~scan'.raced
    BY <1>2 DEF ScanState
  <1>6. /\ scan'.todo = z.todo /\ scan'.header = z.header /\ scan'.at = z.at
        /\ scan'.key = z.key /\ scan'.size = z.size /\ scan'.mtime = z.mtime
    BY <1>2 DEF ScanState
  <1>7. scan' \in ScanState
    BY <1>1, <1>2, <1>3 DEF ScanState
  <1>5. GoodIndex(x)
    BY <1>1, OpenedScan DEF GoodIndex, Knows
  <1> QED
    BY <1>1, <1>4, <1>5, <1>6, <1>7 DEF StartsOver

\* ReadHeader leaves the file, starts over, or goes on to the cursor.
ToCursor ==
    /\ scan'.pc = "cursor" /\ scan'.index = scan.index /\ Knows(scan.index, scan.key)
    /\ 2 * Known.offset <= scan.size /\ Known.header = Now.lines[1]
LEMMA ReadHeaderKeeps ==
    ASSUME IndexInv, ReadHeader
    PROVE  /\ scan' \in ScanState /\ GoodIndex(scan'.index) /\ scan'.todo = scan.todo
           /\ scan.pc = "header" /\ UNCHANGED <<today, disk, index, quiet>>
           /\ \/ Left(scan.index) /\ (path[scan.at] = NoFile \/ Now.lines = <<>>)
              \/ /\ path[scan.at] # NoFile /\ Now.lines # <<>> /\ UNCHANGED still /\ InHand
                 /\ scan'.header \in Headers
                 /\ StartsOver \/ ToCursor
  <1>0. scan.pc = "header" /\ Opened /\ UNCHANGED <<today, disk, index, quiet>>
    BY DEF ReadHeader, Opened
  <1>1. CASE path[scan.at] = NoFile \/ Now.lines = <<>>
    <2>1. Leave(scan.index)
      BY <1>1 DEF ReadHeader
    <2> QED
      BY <1>0, <1>1, <2>1, LeaveKeeps, GoodIndexes
  <1>2. CASE ~(path[scan.at] = NoFile \/ Now.lines = <<>>)
    <2> DEFINE z == [scan EXCEPT !.header = Now.lines[1]]
               over == \/ Known = Unknown \/ scan.size < 2 * Known.offset
                       \/ Known.header # Now.lines[1]
    <2>1. /\ scan' = IF over THEN FromStart(z) ELSE [z EXCEPT !.pc = "cursor"]
          /\ UNCHANGED still
      BY <1>2 DEF ReadHeader
    <2>2. /\ scan \in ScanState /\ GoodIndex(scan.index) /\ Now.lines[1] \in Headers
          /\ scan.index \in TokenIndex /\ scan.key \in Inodes
      BY <1>0, <1>2, OpenedScan
    <2>3. /\ z \in ScanState /\ z.index = scan.index /\ z.todo = scan.todo
          /\ z.at = scan.at /\ z.key = scan.key /\ z.size = scan.size /\ z.mtime = scan.mtime
          /\ z.header \in Headers
      BY <2>2 DEF ScanState
    <2> HIDE DEF z
    <2>4. CASE over
      <3>1. scan' = FromStart(z)
        BY <2>1, <2>4
      <3>2. /\ scan' \in ScanState /\ GoodIndex(scan'.index) /\ StartsOver
            /\ scan'.todo = z.todo /\ scan'.header = z.header /\ scan'.at = z.at
            /\ scan'.key = z.key /\ scan'.size = z.size /\ scan'.mtime = z.mtime
        BY <1>0, <2>3, <3>1, FromStartKeeps
      <3> QED
        BY <1>0, <1>2, <2>1, <2>3, <3>2 DEF InHand
    <2>5. CASE ~over
      <3>1. scan' = [z EXCEPT !.pc = "cursor"]
        BY <2>1, <2>5
      <3>2. /\ scan' \in ScanState /\ scan'.pc = "cursor" /\ scan'.index = z.index
            /\ scan'.todo = z.todo /\ scan'.header = z.header /\ scan'.at = z.at
            /\ scan'.key = z.key /\ scan'.size = z.size /\ scan'.mtime = z.mtime
        BY <2>3, <3>1 DEF ScanState
      <3>3. /\ Knows(scan.index, scan.key) /\ Known.header = Now.lines[1]
            /\ ~(scan.size < 2 * Known.offset)
        BY <2>5 DEF Known, Knows
      <3>4. Known \in FileState
        BY <2>2, <3>3, KnownStates DEF Known
      <3>5. Known.offset \in Nat /\ scan.size \in Nat
        BY <2>2, <3>4 DEF FileState, ScanState
      <3>6. ToCursor
        BY <2>3, <3>2, <3>3, <3>5 DEF ToCursor
      <3> QED
        BY <1>0, <1>2, <2>1, <2>2, <2>3, <3>2, <3>6 DEF InHand
    <2> QED
      BY <2>4, <2>5
  <1> QED
    BY <1>1, <1>2

\* ReadCursor starts over, or goes on from the state that the index has.
FromState ==
    /\ path[scan.at] # NoFile /\ Known.window = Before(Now.lines, Known.offset)
    /\ scan'.pc = "suffix" /\ scan'.index = scan.index
    /\ scan'.offset = Known.offset /\ scan'.prefix = Known.prefix /\ scan'.ids = Known.ids
    /\ scan'.raced = Known.raced
LEMMA ReadCursorKeeps ==
    ASSUME IndexInv, ReadCursor
    PROVE  /\ scan' \in ScanState /\ GoodIndex(scan'.index) /\ scan'.todo = scan.todo
           /\ scan.pc = "cursor" /\ UNCHANGED <<today, disk, index, quiet, still>>
           /\ Knows(scan.index, scan.key) /\ Known \in FileState
           /\ InHand /\ scan'.header = scan.header
           /\ StartsOver \/ FromState
  <1>0. scan.pc = "cursor" /\ Opened /\ UNCHANGED <<today, disk, index, quiet, still>>
    BY DEF ReadCursor, Opened
  <1>1. /\ scan \in ScanState /\ GoodIndex(scan.index) /\ scan.index \in TokenIndex
        /\ scan.key \in Inodes /\ Typed
    BY <1>0, OpenedScan
  <1>2. Knows(scan.index, scan.key) /\ Known \in FileState
    BY <1>0, <1>1, KnownStates DEF Typed, Known
  <1>3. CASE path[scan.at] # NoFile /\ SameWindow(Known, Now.lines)
    <2>1. scan' = [scan EXCEPT !.pc = "suffix", !.offset = Known.offset, !.ids = Known.ids,
                               !.prefix = Known.prefix, !.raced = Known.raced]
      BY <1>3 DEF ReadCursor
    <2>2. /\ Known.offset \in Nat /\ Known.ids \in SUBSET Ids /\ Known.prefix \in Seq(Line)
          /\ Known.raced \in BOOLEAN
      BY <1>2 DEF FileState
    <2>3. /\ scan' \in ScanState /\ scan'.index = scan.index /\ scan'.todo = scan.todo
          /\ scan'.pc = "suffix" /\ scan'.offset = Known.offset /\ scan'.ids = Known.ids
          /\ scan'.prefix = Known.prefix /\ scan'.raced = Known.raced
          /\ InHand /\ scan'.header = scan.header
      BY <1>1, <2>1, <2>2 DEF ScanState, InHand
    <2>4. FromState
      BY <1>3, <2>3 DEF FromState, SameWindow
    <2> QED
      BY <1>0, <1>1, <1>2, <2>3, <2>4
  <1>4. CASE ~(path[scan.at] # NoFile /\ SameWindow(Known, Now.lines))
    <2>1. scan' = FromStart(scan)
      BY <1>4 DEF ReadCursor
    <2> QED
      BY <1>0, <1>1, <1>2, <2>1, FromStartKeeps DEF InHand
  <1> QED
    BY <1>3, <1>4

\* ReadSuffix leaves the file, or adds what it has read.
New == Suffix(Now.lines)
Found == Countable(New, scan.index.day)
Added ==
    /\ scan'.pc = "record" /\ scan'.index = scan.index
    /\ scan'.offset = scan.offset + Len(New) /\ scan'.found = Found
    /\ scan'.ids = scan.ids \cup Found /\ scan'.prefix = scan.prefix \o New
    /\ scan'.raced = (scan.raced \/ Overtaken)
LEMMA ReadSuffixKeeps ==
    ASSUME IndexInv, ReadSuffix
    PROVE  /\ scan' \in ScanState /\ GoodIndex(scan'.index) /\ scan'.todo = scan.todo
           /\ scan.pc = "suffix" /\ UNCHANGED <<today, disk, index, quiet>>
           /\ \/ Left(scan.index) /\ path[scan.at] = NoFile
              \/ /\ path[scan.at] # NoFile /\ UNCHANGED still /\ InHand /\ Added
                 /\ scan'.header = scan.header /\ New \in Seq(Line) /\ Len(New) \in Nat
                 /\ scan'.offset <= MaxLines + 1
  <1>0. /\ scan.pc = "suffix" /\ Opened /\ Reading /\ UNCHANGED <<today, disk, index, quiet>>
    BY DEF ReadSuffix, Opened, Reading
  <1>1. CASE path[scan.at] = NoFile
    <2>1. Leave(scan.index)
      BY <1>1 DEF ReadSuffix
    <2> QED
      BY <1>0, <1>1, <2>1, LeaveKeeps, GoodIndexes
  <1>2. CASE path[scan.at] # NoFile
    <2>1. /\ scan \in ScanState /\ GoodIndex(scan.index) /\ MaxLines \in Nat
          /\ Now.lines \in Seq(Line) /\ Len(Now.lines) \in Nat
          /\ Len(Now.lines) <= MaxLines + 1 /\ scan.offset <= MaxLines + 1
      BY <1>0, <1>2, OpenedScan DEF Typed
    <2>2. /\ scan.offset \in Nat /\ scan.size \in Nat /\ scan.ids \in SUBSET Ids
          /\ scan.prefix \in Seq(Line) /\ scan.size \div 2 \in Nat /\ scan.raced \in BOOLEAN
      BY <2>1 DEF ScanState
    <2>3. /\ New \in Seq(Line) /\ Len(New) \in Nat
          /\ Len(New) = IF scan.offset < Least(scan.size \div 2, Len(Now.lines))
                        THEN Least(scan.size \div 2, Len(Now.lines)) - scan.offset ELSE 0
      <3>1. /\ New \in Seq(Line)
            /\ Len(New) = IF scan.offset < Least(scan.size \div 2, Len(Now.lines))
                          THEN Least(scan.size \div 2, Len(Now.lines)) - scan.offset ELSE 0
        BY <2>1, <2>2, PartsAreLines DEF New, Suffix
      <3> QED
        BY <3>1
    <2>4. scan.offset + Len(New) \in Nat /\ scan.offset + Len(New) <= MaxLines + 1
      <3>1. Least(scan.size \div 2, Len(Now.lines)) <= MaxLines + 1
            /\ Least(scan.size \div 2, Len(Now.lines)) \in Nat
        BY <2>1, <2>2 DEF Least
      <3> QED
        BY <2>1, <2>2, <2>3, <3>1
    <2>5. /\ Found \in SUBSET Ids /\ scan.prefix \o New \in Seq(Line)
          /\ (scan.raced \/ Overtaken) \in BOOLEAN
      BY <2>2, <2>3, ConcatProperties DEF Found, Countable
    <2>6. /\ scan' = [scan EXCEPT
                !.pc = "record", !.offset = scan.offset + Len(New), !.found = Found,
                !.ids = scan.ids \cup Found, !.prefix = scan.prefix \o New,
                !.raced = scan.raced \/ Overtaken]
          /\ UNCHANGED still
      BY <1>2 DEF ReadSuffix, New, Found, SafeOffset
    <2> DEFINE o == scan.offset + Len(New)  c == scan.ids \cup Found
               p == scan.prefix \o New  b == scan.raced \/ Overtaken
    <2>7. o \in Nat /\ c \in SUBSET Ids /\ p \in Seq(Line) /\ b \in BOOLEAN
      BY <2>2, <2>4, <2>5
    <2>8. scan' = [scan EXCEPT !.pc = "record", !.offset = o, !.found = Found,
                               !.ids = c, !.prefix = p, !.raced = b]
      BY <2>6
    <2> HIDE DEF o, c, p, b
    <2>9. /\ scan' \in ScanState /\ scan'.index = scan.index /\ scan'.todo = scan.todo
          /\ InHand /\ scan'.header = scan.header /\ scan'.pc = "record"
          /\ scan'.offset = o /\ scan'.found = Found /\ scan'.ids = c /\ scan'.prefix = p
          /\ scan'.raced = b
      BY <2>1, <2>5, <2>7, <2>8 DEF ScanState, InHand
    <2>10. Added
      BY <2>9 DEF Added, o, c, p, b
    <2> QED
      BY <1>0, <1>2, <2>1, <2>3, <2>4, <2>6, <2>9, <2>10 DEF o
  <1> QED
    BY <1>1, <1>2

\* Record stores what the scan has of the file.
NewState ==
    [size |-> scan.size, mtime |-> scan.mtime, header |-> scan.header,
     window |-> IF path[scan.at] = NoFile THEN Lost ELSE Before(Now.lines, scan.offset),
     offset |-> scan.offset, ids |-> scan.ids,
     prefix |-> scan.prefix, raced |-> scan.raced \/ Overtaken]
LEMMA RecordKeeps ==
    ASSUME IndexInv, Record
    PROVE  /\ scan' \in ScanState /\ GoodIndex(scan'.index) /\ scan'.todo = scan.todo
           /\ scan.pc = "record" /\ UNCHANGED <<today, disk, index, quiet>>
           /\ Left(scan'.index) /\ NewState \in FileState
           /\ scan'.index.day = scan.index.day
           /\ \A i \in Inodes : scan'.index.files[i] =
                IF i = scan.key THEN NewState ELSE scan.index.files[i]
  <1>0. /\ scan.pc = "record" /\ Opened /\ Reading /\ UNCHANGED <<today, disk, index, quiet>>
    BY DEF Record, Opened, Reading
  <1>1. /\ scan \in ScanState /\ GoodIndex(scan.index) /\ scan.index \in TokenIndex
        /\ Agrees(scan.index) /\ scan.key \in Inodes
        /\ scan.header \in Headers /\ scan.offset <= MaxLines + 1
    BY <1>0, OpenedScan DEF Typed
  <1>2. /\ scan.offset \in Nat /\ scan.size \in Nat /\ scan.mtime \in Nat
        /\ scan.ids \in SUBSET Ids /\ scan.found \in SUBSET Ids /\ scan.prefix \in Seq(Line)
    BY <1>1 DEF ScanState
  <1>3. NewState \in FileState
    <2> DEFINE w == IF path[scan.at] = NoFile THEN Lost ELSE Before(Now.lines, scan.offset)
               b == scan.raced \/ Overtaken
    <2>1. w \in Seq(Line) \cup {Lost}
      BY <1>0, <1>2, OpenedScan, PartsAreLines
    <2>2. b \in BOOLEAN
      OBVIOUS
    <2>3. NewState = [size |-> scan.size, mtime |-> scan.mtime, header |-> scan.header,
                      window |-> w, offset |-> scan.offset, ids |-> scan.ids,
                      prefix |-> scan.prefix, raced |-> b]
      BY DEF NewState
    <2> HIDE DEF w, b
    <2> QED
      BY <1>1, <1>2, <2>1, <2>2, <2>3 DEF FileState
  <1>4. PICK refused \in SUBSET Refusable :
          Leave([Add(scan.index, scan.found, refused) EXCEPT !.files[scan.key] = NewState])
    BY DEF Record, NewState
  <1> DEFINE x == Stored(scan.index, scan.key, NewState, scan.found, refused)
  <1>5. refused \in SUBSET Ids
    BY <1>2 DEF Refusable
  <1>6. /\ x \in TokenIndex /\ Agrees(x) /\ x.day = scan.index.day
        /\ \A i \in Inodes : x.files[i] =
             IF i = scan.key THEN NewState ELSE scan.index.files[i]
    <2>1. NewState.ids = KnownIds(scan.index, scan.key) \cup scan.found
      BY <1>0 DEF NewState, IndexInv, Resumes
    <2> DEFINE n == NewState  y == scan.index  k == scan.key  new == scan.found
    <2>2. /\ y \in TokenIndex /\ Agrees(y) /\ k \in Inodes /\ n \in FileState
          /\ new \in SUBSET Ids /\ refused \in SUBSET Ids /\ n.ids = KnownIds(y, k) \cup new
      BY <1>1, <1>2, <1>3, <1>5, <2>1
    <2> HIDE DEF n, y, k, new
    <2>3. /\ Stored(y, k, n, new, refused) \in TokenIndex
          /\ Agrees(Stored(y, k, n, new, refused))
          /\ Stored(y, k, n, new, refused).day = y.day
          /\ \A i \in Inodes :
               Stored(y, k, n, new, refused).files[i] = IF i = k THEN n ELSE y.files[i]
      BY <2>2, StoredAgrees
    <2> QED
      BY <2>3 DEF n, y, k, new
  <1>7. x = [Add(scan.index, scan.found, refused) EXCEPT !.files[scan.key] = NewState]
    <2> DEFINE n == NewState
    <2> HIDE DEF n
    <2>1. Stored(scan.index, scan.key, n, scan.found, refused) =
            [Add(scan.index, scan.found, refused) EXCEPT !.files[scan.key] = n]
      BY <1>1 DEF Stored, Add, TokenIndex
    <2> QED
      BY <2>1 DEF n
  <1> HIDE DEF x
  <1>8. GoodIndex(x)
    <2>1. NewState.offset <= MaxLines + 1
      BY <1>1 DEF NewState
    <2> QED
      BY <1>1, <1>6, <2>1 DEF GoodIndex, Knows
  <1>9. Leave(x)
    BY <1>4, <1>7
  <1>10. /\ scan' \in ScanState /\ Left(x) /\ GoodIndex(scan'.index) /\ scan'.todo = scan.todo
         /\ scan'.index = x
    BY <1>8, <1>9, LeaveKeeps DEF Left
  <1> QED
    BY <1>0, <1>3, <1>6, <1>10

LEMMA IndexInit ==
    ASSUME Init
    PROVE  IndexInv
  <1>1. GoodIndex(index) /\ GoodIndex(scan.index) /\ scan \in ScanState /\ ~Opened
    <2>1. 1 \in Nat
      OBVIOUS
    <2>2. GoodIndex(EmptyIndex(1))
      BY <2>1, EmptyIndexAgrees DEF GoodIndex
    <2> QED
      BY <2>2, NoScanTyped DEF Init, Opened, NoScan
  <1>2. Empty \in SessionFile /\ Empty.lines = <<>> /\ Len(<<>>) = 0
    BY DEF Empty, SessionFile
  <1>3. /\ path \in PathMaps /\ file \in [Inodes -> SessionFile] /\ today \in 1 .. LastDay
        /\ writes \in 0 .. MaxWrites /\ quiet \in BOOLEAN /\ still \in BOOLEAN /\ still
    BY <1>2, PiAssumption DEF Init, PathMaps, PiAssumption
  <1>4. \A i \in Inodes : file[i].lines = <<>> /\ Len(file[i].lines) <= MaxLines + 1
    BY <1>2, PiAssumption DEF Init, PiAssumption
  <1>5. ~Reading /\ scan.pc \notin {"suffix", "record", "cursor"}
    BY <1>1 DEF Opened, Reading
  <1> QED
    BY <1>1, <1>3, <1>4, <1>5 DEF IndexInv, Typed, Indexes, GoodIndex, Resumes, PathMaps

\* The files are as they were.
LEMMA SameDisk ==
    ASSUME IndexInv, UNCHANGED disk
    PROVE  /\ path' \in PathMaps /\ file' \in [Inodes -> SessionFile]
           /\ \A i \in Inodes : /\ Len(file'[i].lines) <= MaxLines + 1
                                /\ file'[i].lines # <<>> => file'[i].lines[1] \in Headers
           /\ writes' \in 0 .. MaxWrites
  BY DEF IndexInv, Typed, disk, PathMaps

\* What a scan must satisfy that goes on with the file in hand, or with none.
Going ==
    /\ Opened' => scan'.at \in Paths /\ scan'.key \in Inodes
    /\ (Opened /\ scan.pc # "header")' => scan'.header \in Headers
    /\ scan'.pc = "cursor" => Knows(scan'.index, scan'.key)
    /\ Reading' => scan'.offset <= MaxLines + 1
    /\ Resumes'
LEMMA GoesOn ==
    ASSUME IndexInv, scan' = scan
    PROVE  Going
  BY DEF IndexInv, Typed, Going, Opened, Reading, Resumes, KnownIds, Knows
LEMMA GoesOnWithout ==
    ASSUME scan'.pc \in {"idle", "file"}
    PROVE  Going /\ ~Opened'
  BY DEF Going, Opened, Reading, Resumes
LEMMA GoesOnOver ==
    ASSUME IndexInv, Opened, StartsOver, InHand, scan'.header \in Headers
    PROVE  Going
  <1>1. scan.at \in Paths /\ scan.key \in Inodes /\ MaxLines \in Nat
    BY OpenedScan
  <1>2. /\ scan'.at \in Paths /\ scan'.key \in Inodes /\ scan'.pc = "suffix"
        /\ scan'.offset = 0 /\ scan'.ids = {} /\ ~Knows(scan'.index, scan'.key)
    BY <1>1 DEF StartsOver, InHand, Knows
  <1>3. Resumes'
    BY <1>2 DEF Resumes, KnownIds, Knows
  <1> QED
    BY <1>1, <1>2, <1>3 DEF Going

LEMMA IndexStep ==
    ASSUME IndexInv, [Next]_vars
    PROVE  IndexInv'
  <1>0. /\ Typed /\ GoodIndex(index) /\ GoodIndex(scan.index) /\ scan \in ScanState
        /\ today \in 1 .. LastDay /\ LastDay \in Nat /\ quiet \in BOOLEAN /\ still \in BOOLEAN
        /\ (~Opened => still)
    BY GoodIndexes, PiAssumption DEF IndexInv, Typed, PiAssumption
  <1> DEFINE
        Disk == /\ path' \in PathMaps /\ file' \in [Inodes -> SessionFile]
                /\ \A i \in Inodes : /\ Len(file'[i].lines) <= MaxLines + 1
                                     /\ file'[i].lines # <<>> => file'[i].lines[1] \in Headers
                /\ writes' \in 0 .. MaxWrites
        Rest == /\ today' \in 1 .. LastDay /\ quiet' \in BOOLEAN
                /\ GoodIndex(index') /\ GoodIndex(scan'.index) /\ scan' \in ScanState
        Marked == still' \in BOOLEAN /\ (~Opened' => still')
  <1>1. ASSUME Disk, Rest, Marked, Going PROVE IndexInv'
    <2>1. Typed'
      BY <1>1 DEF Typed, GoodIndex, Indexes, PathMaps, Knows, Going
    <2>2. (\A x \in Indexes : Agrees(x))'
      BY <1>1 DEF GoodIndex, Indexes, Agrees, Holders
    <2> QED
      BY <1>1, <2>1, <2>2 DEF IndexInv, Going
  <1>2. ASSUME scan' = scan, still' = still PROVE Going /\ Marked
    BY <1>0, <1>2, GoesOn DEF Opened
  <1> HIDE DEF Disk, Rest
  <1>3. UNCHANGED disk => Disk
    BY SameDisk DEF Disk
  <1>4. CASE DiskStep
    <2>1. Disk /\ UNCHANGED <<today, index, scan>> /\ Disturb
      BY <1>4, DiskStepKeeps DEF Disk
    <2>2. quiet' \in BOOLEAN /\ Marked
      BY <2>1 DEF Disturb, Opened
    <2>3. Rest
      BY <1>0, <2>1, <2>2 DEF Rest
    <2> QED
      BY <1>1, <2>1, <2>2, <2>3, GoesOn
  <1>5. CASE Midnight
    <2>1. /\ today' \in 1 .. LastDay /\ UNCHANGED <<disk, index, scan, quiet, still>>
      BY <1>0, <1>5 DEF Midnight
    <2>2. Rest
      BY <1>0, <2>1 DEF Rest
    <2> QED
      BY <1>1, <1>2, <1>3, <2>1, <2>2
  <1>6. CASE Begin
    <2>1. Rest
      BY <1>0, <1>6, BeginKeeps DEF Rest
    <2>2. scan'.pc = "file" /\ still' = still /\ scan.pc = "idle" /\ UNCHANGED disk
      BY <1>6, BeginKeeps
    <2>3. Marked
      BY <1>0, <2>2 DEF Opened
    <2> QED
      BY <1>1, <1>3, <2>1, <2>2, <2>3, GoesOnWithout
  <1>7. ASSUME NEW a \in Paths, Stat(a) PROVE IndexInv'
    <2>1. Rest /\ UNCHANGED disk
      BY <1>0, <1>7, StatKeeps DEF Rest
    <2>2. Marked
      <3>1. still' = still /\ scan.pc = "file"
        BY <1>7, StatKeeps
      <3> QED
        BY <1>0, <3>1 DEF Opened
    <2>3. Going
      <3>1. CASE scan'.pc = "file"
        BY <3>1, GoesOnWithout
      <3>2. CASE scan'.pc = "header"
        <4>1. scan'.at \in Paths /\ scan'.key \in Inodes
          BY <1>7, <3>2, StatKeeps
        <4> QED
          BY <3>2, <4>1 DEF Going, Reading, Resumes
      <3> QED
        BY <1>7, <3>1, <3>2, StatKeeps
    <2> QED
      BY <1>1, <1>3, <2>1, <2>2, <2>3
  <1>8. CASE ReadHeader
    <2>1. Rest /\ UNCHANGED disk /\ Opened
      BY <1>0, <1>8, ReadHeaderKeeps DEF Rest, Opened
    <2>2. CASE Left(scan.index)
      <3>1. Going /\ Marked
        BY <2>2, GoesOnWithout DEF Left
      <3> QED
        BY <1>1, <1>3, <2>1, <3>1
    <2>3. CASE ~Left(scan.index)
      <3>1. /\ UNCHANGED still /\ InHand /\ scan'.header \in Headers /\ (StartsOver \/ ToCursor)
        BY <1>8, <2>3, ReadHeaderKeeps
      <3>2. scan.at \in Paths /\ scan.key \in Inodes
        BY <2>1, OpenedScan
      <3>3. Marked
        BY <1>0, <3>1 DEF Opened, StartsOver, ToCursor
      <3>4. CASE StartsOver
        BY <1>1, <1>3, <2>1, <3>1, <3>3, <3>4, GoesOnOver
      <3>5. CASE ToCursor
        <4>1. Going
          BY <3>1, <3>2, <3>5 DEF ToCursor, Going, Reading, Resumes, InHand
        <4> QED
          BY <1>1, <1>3, <2>1, <3>3, <4>1
      <3> QED
        BY <3>1, <3>4, <3>5
    <2> QED
      BY <2>2, <2>3
  <1>9. CASE ReadCursor
    <2>1. Rest /\ UNCHANGED disk /\ UNCHANGED still /\ Opened /\ scan.pc = "cursor"
      BY <1>0, <1>9, ReadCursorKeeps DEF Rest, Opened
    <2>2. /\ InHand /\ scan'.header = scan.header /\ scan.header \in Headers
          /\ scan.at \in Paths /\ scan.key \in Inodes
          /\ Knows(scan.index, scan.key) /\ (StartsOver \/ FromState)
      BY <1>0, <1>9, <2>1, ReadCursorKeeps DEF Typed
    <2>3. Marked
      BY <1>0, <2>1, <2>2 DEF Opened, StartsOver, FromState
    <2>4. CASE StartsOver
      BY <1>1, <1>3, <2>1, <2>2, <2>3, <2>4, GoesOnOver
    <2>5. CASE FromState
      <3>1. Known.offset <= MaxLines + 1
        BY <1>0, <2>2 DEF GoodIndex, Known
      <3>2. scan'.ids = KnownIds(scan'.index, scan'.key)
        BY <2>2, <2>5 DEF FromState, InHand, KnownIds, Known
      <3>3. Resumes'
        BY <2>5, <3>2 DEF FromState, Resumes, KnownIds, Knows
      <3>4. Going
        BY <2>2, <2>5, <3>1, <3>3 DEF FromState, Going, InHand
      <3> QED
        BY <1>1, <1>3, <2>1, <2>3, <3>4
    <2> QED
      BY <2>2, <2>4, <2>5
  <1>10. CASE ReadSuffix
    <2>1. Rest /\ UNCHANGED disk /\ Opened /\ scan.pc = "suffix"
      BY <1>0, <1>10, ReadSuffixKeeps DEF Rest, Opened
    <2>2. CASE Left(scan.index)
      <3>1. Going /\ Marked
        BY <2>2, GoesOnWithout DEF Left
      <3> QED
        BY <1>1, <1>3, <2>1, <3>1
    <2>3. CASE ~Left(scan.index)
      <3>1. /\ UNCHANGED still /\ InHand /\ Added /\ scan'.header = scan.header
            /\ scan'.offset <= MaxLines + 1
        BY <1>10, <2>3, ReadSuffixKeeps
      <3>2. scan.at \in Paths /\ scan.key \in Inodes /\ scan.header \in Headers
        BY <1>0, <2>1 DEF Typed
      <3>3. Marked
        BY <1>0, <2>1, <3>1 DEF Opened, Added
      <3>4. scan.ids = KnownIds(scan.index, scan.key)
        BY <2>1 DEF IndexInv, Resumes
      <3>5. Resumes'
        BY <3>1, <3>4 DEF Added, InHand, Resumes, KnownIds, Knows
      <3>6. Going
        BY <3>1, <3>2, <3>5 DEF Added, InHand, Going
      <3> QED
        BY <1>1, <1>3, <2>1, <3>3, <3>6
    <2> QED
      BY <2>2, <2>3
  <1>11. CASE Record
    <2>1. Rest /\ UNCHANGED disk /\ scan'.pc = "file" /\ Marked
      BY <1>0, <1>11, RecordKeeps DEF Rest, Left
    <2> QED
      BY <1>1, <1>3, <2>1, GoesOnWithout
  <1>12. CASE Save
    <2>1. Rest /\ UNCHANGED disk
      BY <1>0, <1>12, NoScanTyped DEF Save, Rest
    <2>2. scan'.pc = "idle" /\ Marked
      BY <1>12 DEF Save, NoScan
    <2> QED
      BY <1>1, <1>3, <2>1, <2>2, GoesOnWithout
  <1>13. CASE Crash
    <2>1. Rest /\ UNCHANGED disk
      BY <1>0, <1>13, NoScanTyped DEF Crash, Rest
    <2>2. scan'.pc = "idle" /\ Marked
      BY <1>13 DEF Crash, NoScan
    <2> QED
      BY <1>1, <1>3, <2>1, <2>2, GoesOnWithout
  <1>14. CASE UNCHANGED vars
    <2>1. UNCHANGED <<today, path, file, writes, index, scan, quiet, still>>
      BY <1>14 DEF vars
    <2>2. Rest /\ UNCHANGED disk
      BY <1>0, <2>1 DEF Rest, disk
    <2> QED
      BY <1>1, <1>2, <1>3, <2>1, <2>2
  <1> QED
    BY <1>4, <1>5, <1>6, <1>7, <1>8, <1>9, <1>10, <1>11, <1>12, <1>13, <1>14, StepCases

-----------------------------------------------------------------------------
(* The session files and what is known of them.                            *)

\* A file without a name is gone; one with a name is as it was, or newer than anything
\* known of it, and never one that a state mistakes for the file it was made from.
Newer(j) ==
    /\ writes' = writes + 1 /\ Distinguishable(j, file'[j].lines)
    /\ \/ file'[j].mtime = writes + 1
       \/ Named(j) /\ file'[j].mtime = file[j].mtime /\ Size(file'[j]) > Size(file[j])
LEMMA FilesEvolve ==
    ASSUME IndexInv, DiskInv, DiskStep
    PROVE  /\ DiskInv'
           /\ \A j \in Inodes : IF Named(j)'
                                THEN (Named(j) /\ file'[j] = file[j]) \/ Newer(j)
                                ELSE file'[j] = Empty
  <1>0. /\ path \in PathMaps /\ file \in [Inodes -> SessionFile] /\ writes \in Nat
        /\ Typed /\ NoFile \notin Inodes
    BY PiAssumption DEF IndexInv, Typed, PathMaps, PiAssumption
  <1> DEFINE Evolved == \A j \in Inodes : IF Named(j)'
                                THEN (Named(j) /\ file'[j] = file[j]) \/ Newer(j)
                                ELSE file'[j] = Empty
             OneName == \A a, b \in Paths : path'[a] = path'[b] /\ path'[a] # NoFile => a = b
  <1>1. CASE SomeWrite
    <2>1. PICK p \in PathMaps, i \in Inodes, c \in Seq(Line), tail \in BOOLEAN, t \in Nat :
             Wrote(p, i, c, tail, t)
      BY <1>1 DEF SomeWrite
    <2> DEFINE new == [lines |-> c, tail |-> tail, mtime |-> t]
               f == [file EXCEPT ![i] = new]
    <2>2. /\ writes' = writes + 1 /\ path' = p /\ file' = Linked(f, p) /\ Distinguishable(i, c)
      BY <2>1 DEF Wrote, Write
    <2>3. f \in [Inodes -> SessionFile] /\ f[i] = new /\ \A j \in Inodes \ {i} : f[j] = file[j]
          /\ new.lines = c /\ new.mtime = t
      BY <1>0 DEF SessionFile
    <2> HIDE DEF f
    <2>4. \A j \in Inodes : file'[j] = IF Named(j)' THEN f[j] ELSE Empty
      BY <2>2, <2>3, FilesAfter DEF Named
    <2>5. Named(i)' /\ (\A j \in Inodes \ {i} : Named(j)' => Named(j)) /\ OneName
      <3>1. CASE p = path /\ Named(i)
        BY <2>2, <3>1 DEF Named, DiskInv
      <3>2. CASE ~Named(i) /\ \E a \in Paths : p = [path EXCEPT ![a] = i]
        <4>1. PICK a \in Paths : p = [path EXCEPT ![a] = i]
          BY <3>2
        <4>2. \A b \in Paths : path[b] # i
          BY <3>2 DEF Named
        <4>3. \A b \in Paths : path'[b] = IF b = a THEN i ELSE path[b]
          BY <1>0, <2>2, <4>1 DEF PathMaps
        <4>4. OneName
          BY <4>2, <4>3 DEF DiskInv
        <4> QED
          BY <4>3, <4>4 DEF Named
      <3> QED
        BY <2>1, <3>1, <3>2 DEF Wrote
    <2>6. \/ t = writes + 1
          \/ t = file[i].mtime /\ Named(i) /\ Size(new) > Size(file[i])
      BY <2>1 DEF Wrote
    <2>7. Evolved
      <3>1. file'[i] = new
        BY <2>3, <2>4, <2>5
      <3>2. Newer(i)
        BY <2>2, <2>3, <2>6, <3>1 DEF Newer
      <3>3. \A j \in Inodes \ {i} : Named(j)' => Named(j) /\ file'[j] = file[j]
        BY <2>3, <2>4, <2>5
      <3> QED
        BY <2>4, <2>5, <3>2, <3>3
    <2>8. \A j \in Inodes : IF Named(j)' THEN file'[j].mtime \in 1 .. writes' ELSE file'[j] = Empty
      <3>1. file'[i].mtime \in 1 .. writes'
        <4>1. CASE t = writes + 1
          BY <1>0, <2>2, <2>3, <2>4, <2>5, <4>1
        <4>2. CASE t = file[i].mtime /\ Named(i)
          <5>1. t \in 1 .. writes
            BY <4>2 DEF DiskInv
          <5> QED
            BY <1>0, <2>2, <2>3, <2>4, <2>5, <5>1
        <4> QED
          BY <2>6, <4>1, <4>2
      <3>2. \A j \in Inodes \ {i} : Named(j)' => file'[j].mtime \in 1 .. writes'
        <4>1. \A j \in Inodes \ {i} : Named(j)' => file'[j].mtime \in 1 .. writes
          BY <2>3, <2>4, <2>5 DEF DiskInv
        <4> QED
          BY <1>0, <2>2, <4>1
      <3> QED
        BY <2>4, <3>1, <3>2
    <2>9. DiskInv'
      BY <2>5, <2>8 DEF DiskInv
    <2> QED
      BY <2>5, <2>7, <2>9
  <1>2. CASE SomeRename
    <2>1. PICK p \in PathMaps : Renamed(p)
      BY <1>2 DEF SomeRename
    <2>2. path' = p /\ file' = Linked(file, p) /\ writes' = writes
      BY <2>1 DEF Renamed, Link
    <2>3. \A j \in Inodes : file'[j] = IF Named(j)' THEN file[j] ELSE Empty
      BY <1>0, <2>2, FilesAfter DEF Named
    <2>4. (\A j \in Inodes : Named(j)' => Named(j)) /\ OneName
      <3>1. PICK a \in Paths :
             /\ path[a] # NoFile
             /\ \/ p = [path EXCEPT ![a] = NoFile]
                \/ \E b \in Paths :
                     a # b /\ p = [path EXCEPT ![b] = path[a], ![a] = NoFile]
        BY <2>1 DEF Renamed
      <3>2. CASE p = [path EXCEPT ![a] = NoFile]
        <4>1. \A d \in Paths : path'[d] = IF d = a THEN NoFile ELSE path[d]
          BY <1>0, <2>2, <3>2 DEF PathMaps
        <4> QED
          BY <1>0, <4>1 DEF Named, DiskInv
      <3>3. ASSUME NEW b \in Paths, a # b,
                   p = [path EXCEPT ![b] = path[a], ![a] = NoFile]
            PROVE  (\A j \in Inodes : Named(j)' => Named(j)) /\ OneName
        <4>1. \A d \in Paths :
                path'[d] = IF d = a THEN NoFile ELSE IF d = b THEN path[a] ELSE path[d]
          BY <1>0, <2>2, <3>3 DEF PathMaps
        <4>2. \A j \in Inodes : Named(j)' => Named(j)
          BY <1>0, <4>1 DEF Named
        <4>3. OneName
          BY <4>1 DEF DiskInv
        <4> QED
          BY <4>2, <4>3
      <3> QED
        BY <3>1, <3>2, <3>3
    <2>5. Evolved
      BY <2>3, <2>4
    <2>6. DiskInv'
      BY <2>2, <2>3, <2>4 DEF DiskInv
    <2> QED
      BY <2>4, <2>5, <2>6
  <1> QED
    BY <1>0, <1>1, <1>2, DiskSteps

LEMMA DiskStepBasics ==
    ASSUME IndexInv, DiskStep
    PROVE  /\ UNCHANGED <<index, scan>> /\ scan \in ScanState
           /\ writes \in Nat /\ writes' \in Nat /\ writes' >= writes
  <1>1. UNCHANGED <<index, scan>> /\ writes' \in 0 .. MaxWrites /\ writes' >= writes
    BY DiskStepKeeps
  <1>2. scan \in ScanState /\ writes \in 0 .. MaxWrites
    BY DEF IndexInv, Typed
  <1> QED
    BY <1>1, <1>2

\* What is written is newer than all that is known of the file.
LEMMA NewerThanKnown ==
    ASSUME IndexInv, DiskInv, DiskStep, NEW i \in Inodes, Newer(i),
           NEW size \in Nat, NEW mtime \in 1 .. writes,
           Named(i) => NotBefore(size, mtime, file[i])
    PROVE  NotBefore(size, mtime, file'[i]) /\ ~SameFile(size, mtime, file'[i])
  <1>0. writes \in Nat /\ mtime \in Nat /\ mtime <= writes
    BY DiskStepBasics
  <1>1. file[i] \in SessionFile /\ file'[i] \in SessionFile
    BY DiskStepKeeps DEF IndexInv, Typed
  <1>2. /\ Size(file[i]) \in Nat /\ Size(file'[i]) \in Nat
        /\ file[i].mtime \in Nat /\ file'[i].mtime \in Nat
    BY <1>1, SizeOfFile DEF SessionFile
  <1>3. CASE file'[i].mtime = writes + 1
    <2>1. file'[i].mtime > mtime
      BY <1>0, <1>3
    <2> QED
      BY <1>0, <1>2, <2>1 DEF NotBefore, SameFile
  <1>4. CASE Named(i) /\ file'[i].mtime = file[i].mtime /\ Size(file'[i]) > Size(file[i])
    <2>1. file'[i].mtime > mtime \/ (file'[i].mtime = mtime /\ Size(file'[i]) > size)
      BY <1>0, <1>2, <1>4 DEF NotBefore
    <2> QED
      BY <1>0, <1>2, <2>1 DEF NotBefore, SameFile
  <1> QED
    BY <1>3, <1>4 DEF Newer

\* A write makes no state wrong.
LEMMA StatesOutliveWrites ==
    ASSUME IndexInv, DiskInv, StatesInv, DiskStep
    PROVE  StatesInv'
  <1>0. UNCHANGED <<index, scan>> /\ writes \in Nat /\ writes' \in Nat /\ writes' >= writes
    BY DiskStepBasics
  <1> SUFFICES ASSUME NEW x \in Indexes, NEW i \in Inodes, Knows(x, i)
               PROVE  StateInv(x.files[i], i, x.day)'
    BY <1>0 DEF StatesInv, Indexes, Knows
  <1> DEFINE s == x.files[i]
  <1>1. /\ StateInv(s, i, x.day) /\ s.size \in Nat /\ s.mtime \in 1 .. writes
        /\ s \in {index.files[i], scan.index.files[i]}
    <2>1. x \in TokenIndex
      BY DEF Indexes, IndexInv, Typed, ScanState
    <2>2. s \in FileState
      BY <2>1, KnownStates
    <2>3. s \in {index.files[i], scan.index.files[i]}
      BY DEF Indexes
    <2>4. StateInv(s, i, x.day)
      BY DEF StatesInv
    <2> HIDE DEF s
    <2> QED
      BY <2>2, <2>3, <2>4 DEF StateInv, FileState
  <1> HIDE DEF s
  <1>2. /\ s.ids = Countable(s.prefix, x.day) /\ Len(s.prefix) = s.offset
        /\ s.mtime \in 1 .. writes'
    BY <1>0, <1>1 DEF StateInv
  <1>3. CASE ~Named(i)'
    <2>1. file'[i] = Empty
      BY <1>3, FilesEvolve
    <2>2. ~Matches(s, file'[i].lines)
      BY <2>1 DEF Matches, Empty
    <2> QED
      BY <1>0, <1>2, <1>3, <2>2 DEF StateInv, s
  <1>4. CASE Named(i)' /\ Named(i) /\ file'[i] = file[i]
    BY <1>0, <1>1, <1>2, <1>4 DEF StateInv, s
  <1>5. CASE Named(i)' /\ Newer(i)
    <2>1. Matches(s, file'[i].lines) /\ ~s.raced => Prefix(file'[i].lines, s.offset) = s.prefix
      BY <1>1, <1>5 DEF Newer, Distinguishable
    <2>2. NotBefore(s.size, s.mtime, file'[i]) /\ ~SameFile(s.size, s.mtime, file'[i])
      <3>1. Named(i) => NotBefore(s.size, s.mtime, file[i])
        BY <1>1 DEF StateInv
      <3> QED
        BY <1>1, <1>5, <3>1, NewerThanKnown
    <2> QED
      BY <1>0, <1>2, <2>1, <2>2 DEF StateInv, s
  <1> QED
    BY <1>3, <1>4, <1>5, FilesEvolve

\* Neither does it make wrong what a scan knows of the file it has open.
LEMMA OpenedOutlivesWrites ==
    ASSUME IndexInv, DiskInv, ScanInv, DiskStep
    PROVE  ScanInv'
  <1>0. /\ UNCHANGED <<index, scan>> /\ writes \in Nat /\ writes' \in Nat /\ writes' >= writes
        /\ Opened' = Opened /\ Reading' = Reading /\ Known' = Known
        /\ scan \in ScanState /\ scan.size \in Nat /\ scan.mtime \in Nat
        /\ still' = ~Opened
    BY DiskStepBasics, DiskStepKeeps DEF Opened, Reading, Known, ScanState, Disturb
  <1>1. CASE ~Opened
    BY <1>0, <1>1 DEF ScanInv, OpenedInv, CursorInv, ReadingInv, SuffixInv, Opened, Reading
  <1>2. CASE Opened
    <2> DEFINE k == scan.key
    <2>1. /\ k \in Inodes /\ scan.mtime \in 1 .. writes /\ scan.mtime \in 1 .. writes'
          /\ Named(k) => NotBefore(scan.size, scan.mtime, file[k])
      BY <1>0, <1>2 DEF IndexInv, Typed, ScanInv, OpenedInv
    <2>2. ASSUME Newer(k)
          PROVE  /\ NotBefore(scan.size, scan.mtime, file'[k])
                 /\ ~SameFile(scan.size, scan.mtime, file'[k])
      <3> DEFINE z == scan.size  t == scan.mtime  i == k
      <3>1. /\ i \in Inodes /\ Newer(i) /\ z \in Nat /\ t \in 1 .. writes
            /\ Named(i) => NotBefore(z, t, file[i])
        BY <1>0, <2>1, <2>2
      <3> HIDE DEF z, t, i
      <3>2. NotBefore(z, t, file'[i]) /\ ~SameFile(z, t, file'[i])
        BY <3>1, NewerThanKnown
      <3> QED
        BY <3>2 DEF z, t, i
    <2>3. Named(k)' => (Named(k) /\ file'[k] = file[k]) \/ Newer(k)
      <3>1. \A i \in Inodes : Named(i)' => (Named(i) /\ file'[i] = file[i]) \/ Newer(i)
        BY FilesEvolve
      <3> QED
        BY <1>0, <2>1, <3>1
    <2>4. OpenedInv'
      BY <1>0, <1>2, <2>1, <2>2, <2>3 DEF OpenedInv
    <2>5. CursorInv'
      BY <1>0, <1>2 DEF CursorInv, ScanInv
    <2>6. ReadingInv'
      BY <1>0, <1>2 DEF ReadingInv, ScanInv
    <2>7. SuffixInv'
      BY <1>0, <2>2, <2>3 DEF SuffixInv, ScanInv
    <2> QED
      BY <2>4, <2>5, <2>6, <2>7 DEF ScanInv
  <1> QED
    BY <1>1, <1>2

\* Reading on from a cursor that fits: the new state's prefix is that of the file, and
\* the whole of it when the scan reads to its end.
LEMMA ReadOn ==
    ASSUME NEW s \in Seq(Line), NEW start \in Nat, NEW half \in Nat,
           NEW prefix \in Seq(Line), start <= Len(s) => Prefix(s, start) = prefix
    PROVE  LET new == SubSeq(s, start + 1, Least(half, Len(s)))
           IN  /\ start + Len(new) <= Len(s) => Prefix(s, start + Len(new)) = prefix \o new
               /\ half = Len(s) /\ start <= half => prefix \o new = s
  <1> DEFINE L == Least(half, Len(s))
             new == SubSeq(s, start + 1, Least(half, Len(s)))
  <1>1. Len(s) \in Nat /\ L \in 0 .. Len(s) /\ (half = Len(s) => L = half)
    BY LenProperties DEF Least
  <1>2. new \in Seq(Line) /\ Len(new) = IF start < L THEN L - start ELSE 0
    BY PartsAreLines
  <1>3. Prefix(s, Len(s)) = s
    BY <1>1, SubSeqFull DEF Prefix, Least
  <1> DEFINE Goal == /\ start + Len(new) <= Len(s) => Prefix(s, start + Len(new)) = prefix \o new
                     /\ half = Len(s) /\ start <= half => prefix \o new = s
  <1> SUFFICES Goal
    OBVIOUS
  <1> HIDE DEF new
  <1>4. CASE start < L
    <2>1. start \in 0 .. Len(s) /\ L \in start .. Len(s) /\ start + Len(new) = L
      BY <1>1, <1>2, <1>4
    <2>2. Prefix(s, start) \o new = Prefix(s, L)
      BY <2>1, PrefixGrows DEF new
    <2>3. Prefix(s, start) = prefix
      BY <1>1, <2>1
    <2> QED
      BY <1>1, <1>3, <2>1, <2>2, <2>3
  <1>5. CASE ~(start < L)
    <2>1. Len(new) = 0 /\ new = <<>> /\ start + Len(new) = start
      BY <1>2, <1>5, EmptySeq
    <2>2. prefix \o new = prefix
      BY <2>1, ConcatEmptySeq
    <2>3. half = Len(s) /\ start <= half => start = Len(s)
      BY <1>1, <1>5
    <2> QED
      BY <1>1, <1>3, <2>1, <2>2, <2>3
  <1> QED
    BY <1>4, <1>5

\* The file in hand, when the path is read of again and nothing shows that it was another.
LEMMA HandUnlessOvertaken ==
    ASSUME IndexInv, ScanInv, Reading, path[scan.at] # NoFile, ~scan.raced, ~Overtaken
    PROVE  /\ path[scan.at] = scan.key /\ Now = file[scan.key]
           /\ Prefix(file[scan.key].lines, scan.offset) = scan.prefix
           /\ scan.offset <= Len(file[scan.key].lines)
  <1>1. Opened /\ Len(scan.prefix) = scan.offset
    BY DEF Reading, Opened, ScanInv, ReadingInv
  <1>2. scan.key \in Inodes /\ scan \in ScanState /\ scan.offset \in Nat
    BY <1>1, OpenedScan DEF ScanState
  <1>3. path[scan.at] = scan.key /\ Prefix(file[scan.key].lines, scan.offset) = scan.prefix
    <2>1. CASE still
      BY <1>1, <2>1 DEF ScanInv, OpenedInv, ReadingInv
    <2>2. CASE ~still
      BY <1>1, <2>2 DEF Overtaken, Now
    <2> QED
      BY <2>1, <2>2
  <1>4. Now = file[scan.key]
    BY <1>3 DEF Now
  <1>5. Len(Prefix(Now.lines, scan.offset)) = Least(scan.offset, Len(Now.lines))
        /\ Len(Now.lines) \in Nat
    BY <1>1, <1>2, OpenedScan, PartsAreLines
  <1>6. scan.offset <= Len(Now.lines)
    BY <1>1, <1>2, <1>3, <1>4, <1>5 DEF Least
  <1> QED
    BY <1>3, <1>4, <1>6

\* What ReadSuffix adds is what the file holds, unless it was overtaken.
LEMMA ReadSuffixSound ==
    ASSUME IndexInv, ScanInv, ReadSuffix, path[scan.at] # NoFile
    PROVE  ScanInv'
  <1> DEFINE k == scan.key  f == file[k]
  <1>0. /\ scan.pc = "suffix" /\ Opened /\ Reading /\ path' = path /\ file' = file
        /\ writes' = writes /\ UNCHANGED still /\ InHand /\ Added
        /\ New \in Seq(Line) /\ Len(New) \in Nat
    BY ReadSuffixKeeps DEF Opened, Reading, disk, Left
  <1>1. /\ scan.offset \in Nat /\ scan.size \in Nat /\ scan.size \div 2 \in Nat
        /\ scan.prefix \in Seq(Line) /\ k \in Inodes /\ f \in SessionFile
    BY <1>0, OpenedScan DEF ScanState, Typed
  <1>2. f.lines \in Seq(Line) /\ Len(f.lines) \in Nat /\ Size(f) \div 2 = Len(f.lines)
    <2>1. Size(f) \div 2 = Len(f.lines)
      BY <1>1, SizeOfFile
    <2> HIDE DEF f
    <2> QED
      BY <1>1, <2>1 DEF SessionFile
  <1>3. /\ Len(scan.prefix) = scan.offset /\ scan.ids = Countable(scan.prefix, scan.index.day)
    BY <1>0 DEF ScanInv, ReadingInv
  <1>4. /\ scan'.prefix = scan.prefix \o New /\ scan'.offset = scan.offset + Len(New)
        /\ Len(scan'.prefix) = scan'.offset
        /\ scan'.ids = Countable(scan'.prefix, scan'.index.day)
        /\ scan'.key = k /\ scan'.size = scan.size /\ scan'.mtime = scan.mtime
        /\ scan'.raced = (scan.raced \/ Overtaken)
    <2>1. Len(scan.prefix \o New) = Len(scan.prefix) + Len(New)
      BY <1>0, <1>1, ConcatProperties
    <2>2. Countable(scan.prefix \o New, scan.index.day) =
            Countable(scan.prefix, scan.index.day) \cup Countable(New, scan.index.day)
      BY <1>0, <1>1, EntriesAdd
    <2> QED
      BY <1>0, <1>3, <2>1, <2>2 DEF Added, InHand, Found
  <1>5. ASSUME ~scan'.raced
        PROVE  /\ Prefix(f.lines, Len(scan'.prefix)) = scan'.prefix
               /\ scan.size = Size(f) => scan'.prefix = f.lines
    <2> DEFINE s == f.lines  start == scan.offset  half == scan.size \div 2
               prefix == scan.prefix
    <2>1. ~scan.raced /\ ~Overtaken
      BY <1>4, <1>5
    <2>2. Now = f /\ Prefix(s, start) = prefix /\ start <= Len(s)
      BY <1>0, <2>1, HandUnlessOvertaken
    <2>3. New = SubSeq(s, start + 1, Least(half, Len(s)))
      BY <2>2 DEF New, Suffix
    <2>4. s \in Seq(Line) /\ start \in Nat /\ half \in Nat /\ prefix \in Seq(Line)
      BY <1>1, <1>2
    <2>5. scan.size = Size(f) => half = Len(s)
      BY <1>2
    <2> HIDE DEF s, start, half, prefix
    <2>6. /\ start + Len(New) <= Len(s) => Prefix(s, start + Len(New)) = prefix \o New
          /\ half = Len(s) /\ start <= half => prefix \o New = s
      <3> DEFINE new == SubSeq(s, start + 1, Least(half, Len(s)))
      <3>1. /\ start + Len(new) <= Len(s) => Prefix(s, start + Len(new)) = prefix \o new
            /\ half = Len(s) /\ start <= half => prefix \o new = s
        BY <2>2, <2>4, ReadOn, ZenonT(40)
      <3>2. New = new
        BY <2>3
      <3> QED
        BY <3>1, <3>2, Zenon
    <2>7. start + Len(New) <= Len(s)
      <3>1. Len(New) = IF start < Least(half, Len(s)) THEN Least(half, Len(s)) - start ELSE 0
        BY <2>3, <2>4, PartsAreLines
      <3>2. Least(half, Len(s)) <= Len(s) /\ Len(s) \in Nat /\ Least(half, Len(s)) \in Nat
        BY <2>4, LenProperties DEF Least
      <3> QED
        BY <2>2, <2>4, <3>1, <3>2
    <2>8. prefix \o New = scan'.prefix /\ start + Len(New) = Len(scan'.prefix)
      BY <1>4 DEF prefix, start
    <2>9. Prefix(s, Len(scan'.prefix)) = scan'.prefix
      BY <2>6, <2>7, <2>8
    <2>10. half = Len(s) => scan'.prefix = s
      BY <2>2, <2>6, <2>8
    <2> QED
      BY <2>5, <2>9, <2>10 DEF s
  <1>6. OpenedInv'
    BY <1>0 DEF ScanInv, OpenedInv, InHand, Named
  <1>7. scan'.pc = "record"
    BY <1>0 DEF Added
  <1>8. CursorInv'
    BY <1>7 DEF CursorInv
  <1> HIDE DEF f
  <1>9. ReadingInv'
    BY <1>0, <1>4, <1>5 DEF ReadingInv, f
  <1>10. SuffixInv'
    BY <1>0, <1>4, <1>5, <1>7 DEF SuffixInv, SameFile, f
  <1> QED
    BY <1>6, <1>8, <1>9, <1>10 DEF ScanInv

\* The state that Record stores is true of the file that was read.
LEMMA NewStateSound ==
    ASSUME IndexInv, ScanInv, Record
    PROVE  StateInv(NewState, scan.key, scan.index.day)
  <1> DEFINE k == scan.key  f == file[k]
  <1>0. scan.pc = "record" /\ Opened /\ Reading /\ NewState \in FileState
    BY RecordKeeps DEF Opened, Reading
  <1>1. scan.offset \in Nat /\ k \in Inodes /\ f \in SessionFile
    BY <1>0, OpenedScan DEF ScanState, Typed
  <1>2. /\ NewState.size = scan.size /\ NewState.mtime = scan.mtime
        /\ NewState.window = (IF path[scan.at] = NoFile THEN Lost
                              ELSE Before(Now.lines, scan.offset))
        /\ NewState.offset = scan.offset /\ NewState.prefix = scan.prefix
        /\ NewState.ids = scan.ids /\ NewState.raced = (scan.raced \/ Overtaken)
    BY DEF NewState
  <1>3. f.lines \in Seq(Line)
    BY <1>1 DEF SessionFile
  <1> HIDE DEF f
  <1>4. /\ scan.ids = Countable(scan.prefix, scan.index.day)
        /\ Len(scan.prefix) = scan.offset /\ scan.mtime \in 1 .. writes
        /\ Named(k) => NotBefore(scan.size, scan.mtime, f)
    BY <1>0 DEF ScanInv, ReadingInv, OpenedInv, f
  <1>5. ASSUME ~scan.raced, ~Overtaken, Matches(NewState, f.lines)
        PROVE  Prefix(f.lines, scan.offset) = scan.prefix
    <2>1. path[scan.at] # NoFile
      <3> SUFFICES ASSUME path[scan.at] = NoFile PROVE FALSE
        OBVIOUS
      <3>1. Lost = Before(f.lines, scan.offset)
        BY <1>2, <1>5 DEF Matches
      <3>2. Before(f.lines, scan.offset) \in Seq(Line)
        BY <1>1, <1>3, PartsAreLines
      <3>3. Lost[1] = NoFile /\ Len(Lost) = 1 /\ NoFile \notin Line
        BY PiAssumption DEF Lost, Line, PiAssumption
      <3>4. Lost[1] \in Line
        BY <3>1, <3>2, <3>3, ElementOfSeq
      <3> QED
        BY <3>3, <3>4
    <2> QED
      BY <1>0, <1>5, <2>1, HandUnlessOvertaken DEF f
  <1>6. ASSUME ~scan.raced, Named(k), SameFile(scan.size, scan.mtime, f)
        PROVE  scan.prefix = f.lines
    BY <1>0, <1>6 DEF ScanInv, SuffixInv, f
  <1> QED
    BY <1>2, <1>4, <1>5, <1>6 DEF StateInv, f

LEMMA FastPathInit ==
    ASSUME Init
    PROVE  FastPathInv /\ QuietInv
  <1>1. scan.pc = "idle" /\ \A x \in Indexes : \A i \in Inodes : ~Knows(x, i)
    <2>1. 0 \in Nat /\ 1 \in Nat
      OBVIOUS
    <2> QED
      BY <2>1, EmptyIndexAgrees DEF Init, Indexes, NoScan
  <1>2. \A i \in Inodes : ~Named(i) /\ file[i] = Empty
    BY PiAssumption DEF Init, Named, PiAssumption
  <1>3. DiskInv
    BY <1>2 DEF Init, DiskInv
  <1>4. ScanInv
    BY <1>1 DEF ScanInv, OpenedInv, CursorInv, ReadingInv, SuffixInv, Opened, Reading
  <1> QED
    BY <1>1, <1>3, <1>4 DEF FastPathInv, QuietInv, StatesInv

\* An index of which every state is true.
TrueIndex(x) == \A i \in Inodes : Knows(x, i) => StateInv(x.files[i], i, x.day)

\* While the files are as they were, only new states need a look.
LEMMA FastPathKept ==
    ASSUME DiskInv, UNCHANGED disk, TrueIndex(index'), TrueIndex(scan'.index), ScanInv'
    PROVE  FastPathInv'
  <1>1. path' = path /\ file' = file /\ writes' = writes
    BY DEF disk
  <1>2. DiskInv' /\ \A i : Named(i)' <=> Named(i)
    BY <1>1 DEF DiskInv, Named
  <1>3. ASSUME NEW s, NEW i, NEW d, StateInv(s, i, d)
        PROVE  /\ s.ids = Countable(s.prefix, d) /\ Len(s.prefix) = s.offset
               /\ s.mtime \in 1 .. writes'
               /\ Named(i)' => NotBefore(s.size, s.mtime, file'[i])
               /\ ~s.raced =>
                    /\ Matches(s, file'[i].lines) => Prefix(file'[i].lines, s.offset) = s.prefix
                    /\ Named(i)' /\ SameFile(s.size, s.mtime, file'[i]) =>
                         s.prefix = file'[i].lines
    BY <1>1, <1>2, <1>3 DEF StateInv
  <1>4. ASSUME NEW x \in {index', scan'.index}, NEW i \in Inodes, Knows(x, i)
        PROVE  StateInv(x.files[i], i, x.day)
    BY <1>4 DEF TrueIndex
  <1>5. ASSUME NEW x \in {index', scan'.index}, NEW i \in Inodes, Knows(x, i)
        PROVE  StateInv(x.files[i], i, x.day)'
    <2> DEFINE s == x.files[i]  d == x.day
    <2>1. StateInv(s, i, d)
      BY <1>4, <1>5
    <2> HIDE DEF s, d
    <2>2. StateInv(s, i, d)'
      BY <1>3, <2>1 DEF StateInv
    <2> QED
      BY <2>2 DEF s, d
  <1>6. StatesInv'
    BY <1>5 DEF StatesInv, Indexes, Knows
  <1> QED
    BY <1>2, <1>6 DEF FastPathInv

\* A scan with no file in hand.
LEMMA NothingInHand ==
    ASSUME scan'.pc \in {"idle", "file"}
    PROVE  ScanInv'
  BY DEF ScanInv, OpenedInv, CursorInv, ReadingInv, SuffixInv, Opened, Reading

\* A scan that has read nothing of the file in hand.
LEMMA OverSound ==
    ASSUME IndexInv, ScanInv, TrueIndex(scan.index), Opened, UNCHANGED <<disk, still>>,
           StartsOver, InHand
    PROVE  ScanInv' /\ TrueIndex(scan'.index)
  <1>0. /\ scan'.pc = "suffix" /\ scan'.offset = 0 /\ scan'.prefix = <<>> /\ scan'.ids = {}
        /\ path' = path /\ file' = file /\ writes' = writes
        /\ scan \in ScanState /\ scan.size \in Nat /\ scan'.size = scan.size
        /\ scan'.key = scan.key /\ scan.key \in Inodes
    BY OpenedScan DEF StartsOver, InHand, disk, ScanState
  <1>1. OpenedInv'
    BY <1>0 DEF ScanInv, OpenedInv, InHand, Named
  <1>2. CursorInv' /\ SuffixInv'
    BY <1>0 DEF CursorInv, SuffixInv
  <1>3. ReadingInv'
    <2> DEFINE s == file[scan.key].lines
    <2>1. s \in Seq(Line)
      BY <1>0 DEF IndexInv, Typed, SessionFile
    <2> HIDE DEF s
    <2>2. 0 \in Nat /\ Len(s) \in Nat /\ Least(0, Len(s)) = 0
      BY <2>1, LenProperties DEF Least
    <2>3. Prefix(s, 0) \in Seq(Line) /\ Len(Prefix(s, 0)) = Least(0, Len(s))
      BY <2>1, <2>2, PartsAreLines
    <2>4. Prefix(s, 0) = <<>>
      BY <2>2, <2>3, EmptySeq
    <2>5. Countable(<<>>, scan'.index.day) = {}
      BY <2>1, EntriesAdd
    <2> QED
      BY <1>0, <2>4, <2>5 DEF ReadingInv, s
  <1>4. TrueIndex(scan'.index)
    BY DEF StartsOver, TrueIndex, Knows
  <1> QED
    BY <1>1, <1>2, <1>3, <1>4 DEF ScanInv

LEMMA FastPathStep ==
    ASSUME IndexInv, FastPathInv, [Next]_vars
    PROVE  FastPathInv'
  <1>0. /\ DiskInv /\ ScanInv /\ StatesInv /\ IndexInv' /\ scan \in ScanState
        /\ TrueIndex(index) /\ TrueIndex(scan.index)
    BY IndexStep DEF FastPathInv, StatesInv, Indexes, TrueIndex, IndexInv, Typed
  <1>1. ASSUME UNCHANGED <<disk, index, scan, still>>
        PROVE  FastPathInv'
    <2>1. UNCHANGED <<path, file, writes, index, scan, still>>
      BY <1>1 DEF disk
    <2>2. ScanInv'
      BY <1>0, <2>1
         DEF ScanInv, OpenedInv, CursorInv, ReadingInv, SuffixInv, Opened, Reading, Known, Named
    <2> QED
      BY <1>0, <1>1, <2>1, <2>2, FastPathKept
  <1>2. ASSUME UNCHANGED disk, scan'.pc \in {"idle", "file"},
               TrueIndex(index'), TrueIndex(scan'.index)
        PROVE  FastPathInv'
    BY <1>0, <1>2, NothingInHand, FastPathKept
  <1>3. TrueIndex(NoScan.index)
    <2>1. 0 \in Nat
      OBVIOUS
    <2> QED
      BY <2>1, EmptyIndexAgrees DEF TrueIndex, NoScan
  <1>4. CASE DiskStep
    BY <1>0, <1>4, FilesEvolve, StatesOutliveWrites, OpenedOutlivesWrites DEF FastPathInv
  <1>5. CASE Midnight
    BY <1>1, <1>5 DEF Midnight
  <1>6. CASE Begin
    <2>1. \A i \in Inodes : Knows(scan'.index, i) =>
            /\ Knows(index, i) /\ index.day = scan'.index.day
            /\ scan'.index.files[i] = index.files[i]
      BY <1>6, BeginKeeps
    <2>2. TrueIndex(scan'.index)
      BY <1>0, <2>1 DEF TrueIndex
    <2> QED
      BY <1>0, <1>2, <1>6, <2>2, BeginKeeps
  <1>7. ASSUME NEW a \in Paths, Stat(a) PROVE FastPathInv'
    <2>1. /\ UNCHANGED <<disk, index>> /\ scan'.index = scan.index
          /\ path' = path /\ file' = file /\ writes' = writes
      BY <1>7, StatKeeps DEF disk
    <2>2. CASE scan'.pc = "file"
      BY <1>0, <1>2, <2>1, <2>2
    <2>3. CASE scan'.pc = "header"
      <3>1. /\ scan'.at = a /\ scan'.key = path[a] /\ path[a] \in Inodes
            /\ scan'.size = Size(file[path[a]]) /\ scan'.mtime = file[path[a]].mtime
        BY <1>7, <2>3, StatKeeps
      <3>2. file[path[a]] \in SessionFile /\ file[path[a]].mtime \in 1 .. writes
        BY <1>0, <3>1 DEF DiskInv, Named, IndexInv, Typed
      <3>3. /\ NotBefore(scan'.size, scan'.mtime, file[path[a]])
            /\ SameFile(scan'.size, scan'.mtime, file[path[a]])
        BY <3>1, <3>2, SizeOfFile DEF NotBefore, SameFile, SessionFile
      <3>4. OpenedInv'
        BY <2>1, <3>1, <3>2, <3>3 DEF OpenedInv
      <3>5. ScanInv'
        BY <2>3, <3>4 DEF ScanInv, CursorInv, ReadingInv, SuffixInv, Reading
      <3> QED
        BY <1>0, <2>1, <3>5, FastPathKept
    <2> QED
      BY <1>7, <2>2, <2>3, StatKeeps
  <1>8. CASE ReadHeader
    <2>1. /\ UNCHANGED <<disk, index>> /\ path' = path /\ file' = file /\ writes' = writes
          /\ scan.pc = "header" /\ Opened
      BY <1>8, ReadHeaderKeeps DEF disk, Opened
    <2>2. CASE Left(scan.index)
      BY <1>0, <1>2, <2>1, <2>2 DEF Left
    <2>3. CASE ~Left(scan.index)
      <3>1. /\ path[scan.at] # NoFile /\ Now.lines # <<>> /\ UNCHANGED still /\ InHand
            /\ StartsOver \/ ToCursor
        BY <1>8, <2>3, ReadHeaderKeeps
      <3>2. CASE StartsOver
        <4>1. ScanInv' /\ TrueIndex(scan'.index)
          BY <1>0, <2>1, <3>1, <3>2, OverSound
        <4> QED
          BY <1>0, <2>1, <4>1, FastPathKept
      <3>3. CASE ToCursor
        <4>1. OpenedInv'
          BY <1>0, <2>1, <3>1 DEF ScanInv, OpenedInv, InHand, Named
        <4>2. /\ scan'.pc = "cursor" /\ scan'.index = scan.index
              /\ scan'.key = scan.key /\ scan'.size = scan.size
              /\ 2 * Known.offset <= scan.size /\ Known.header = Now.lines[1]
          BY <3>1, <3>3 DEF ToCursor, InHand
        <4>3. still' => path[scan.at] = scan.key /\ Now = file[scan.key]
          BY <1>0, <2>1, <3>1 DEF ScanInv, OpenedInv, Now
        <4>4. Known' = Known
          BY <4>2 DEF Known
        <4>5. CursorInv'
          BY <2>1, <3>1, <4>2, <4>3, <4>4 DEF CursorInv
        <4>6. ScanInv'
          BY <4>1, <4>2, <4>5 DEF ScanInv, ReadingInv, SuffixInv, Reading
        <4> QED
          BY <1>0, <2>1, <4>2, <4>6, FastPathKept
      <3> QED
        BY <3>1, <3>2, <3>3
    <2> QED
      BY <2>2, <2>3
  <1>9. CASE ReadCursor
    <2>1. /\ UNCHANGED <<disk, index, still>> /\ path' = path /\ file' = file
          /\ writes' = writes /\ scan.pc = "cursor" /\ Opened /\ InHand
          /\ Known \in FileState /\ (StartsOver \/ FromState)
      BY <1>9, ReadCursorKeeps DEF disk, Opened
    <2>2. CASE StartsOver
      <3>1. ScanInv' /\ TrueIndex(scan'.index)
        BY <1>0, <2>1, <2>2, OverSound
      <3> QED
        BY <1>0, <2>1, <3>1, FastPathKept
    <2>3. CASE FromState
      <3> DEFINE k == scan.key  f == file[k]
      <3>1. /\ path[scan.at] # NoFile /\ Known.window = Before(Now.lines, Known.offset)
            /\ scan'.pc = "suffix" /\ scan'.index = scan.index /\ scan'.key = k
            /\ scan'.offset = Known.offset /\ scan'.prefix = Known.prefix
            /\ scan'.ids = Known.ids /\ scan'.raced = Known.raced /\ scan'.size = scan.size
        BY <2>1, <2>3 DEF FromState, InHand
      <3>2. /\ k \in Inodes /\ f \in SessionFile /\ Len(f.lines) \in Nat
            /\ Size(f) \in {2 * Len(f.lines), 2 * Len(f.lines) + 1}
            /\ scan.size \in Nat /\ Known.offset \in Nat
        <4>1. k \in Inodes /\ f \in SessionFile
          BY <2>1, OpenedScan DEF Typed
        <4>2. scan.size \in Nat
          BY <1>0 DEF ScanState
        <4>3. Known.offset \in Nat
          BY <2>1 DEF FileState
        <4> HIDE DEF f
        <4>4. Len(f.lines) \in Nat
          BY <4>1 DEF SessionFile
        <4> QED
          BY <4>1, <4>2, <4>3, <4>4, SizeOfFile
      <3>3. StateInv(Known, k, scan.index.day) /\ Known # Unknown
        BY <1>0, <2>1, <3>2, <1>9, ReadCursorKeeps DEF TrueIndex, Knows, Known
      <3>4. 2 * Known.offset <= scan.size
        BY <1>0, <2>1 DEF ScanInv, CursorInv
      <3>5. ASSUME still, ~Known.raced
            PROVE  Prefix(f.lines, Len(Known.prefix)) = Known.prefix
        <4>1. /\ path[scan.at] = k /\ Now = f /\ SameFile(scan.size, scan.mtime, f)
              /\ f.lines # <<>> /\ Known.header = f.lines[1]
          <5>1. path[scan.at] = k /\ Now = f /\ SameFile(scan.size, scan.mtime, f)
            BY <1>0, <2>1, <3>5 DEF ScanInv, OpenedInv, Now
          <5>2. f.lines # <<>> /\ Known.header = f.lines[1]
            BY <1>0, <2>1, <3>5 DEF ScanInv, CursorInv
          <5> QED
            BY <5>1, <5>2
        <4>2. Known.offset <= Len(f.lines)
          <5>1. scan.size = Size(f)
            BY <4>1 DEF SameFile
          <5> HIDE DEF f
          <5> QED
            BY <3>2, <3>4, <5>1
        <4>3. Matches(Known, f.lines)
          BY <3>1, <3>3, <4>1, <4>2 DEF Matches
        <4> QED
          BY <3>3, <3>5, <4>3 DEF StateInv
      <3>6. /\ Known.ids = Countable(Known.prefix, scan.index.day)
            /\ Len(Known.prefix) = Known.offset
        BY <3>3 DEF StateInv
      <3>7. OpenedInv'
        BY <1>0, <2>1 DEF ScanInv, OpenedInv, InHand, Named
      <3>8. CursorInv' /\ SuffixInv'
        BY <3>1, <3>4 DEF CursorInv, SuffixInv
      <3>9. ReadingInv'
        BY <2>1, <3>1, <3>5, <3>6 DEF ReadingInv
      <3>10. ScanInv'
        BY <3>7, <3>8, <3>9 DEF ScanInv
      <3> QED
        BY <1>0, <2>1, <3>1, <3>10, FastPathKept
    <2> QED
      BY <2>1, <2>2, <2>3
  <1>10. CASE ReadSuffix
    <2>1. UNCHANGED <<disk, index>>
      BY <1>10, ReadSuffixKeeps
    <2>2. CASE path[scan.at] = NoFile
      <3>1. Left(scan.index)
        BY <1>10, <2>2, ReadSuffixKeeps
      <3> QED
        BY <1>0, <1>2, <2>1, <3>1 DEF Left
    <2>3. CASE path[scan.at] # NoFile
      <3>1. ScanInv'
        BY <1>0, <1>10, <2>3, ReadSuffixSound
      <3>2. scan'.index = scan.index
        BY <1>10, <2>3, ReadSuffixKeeps DEF Added
      <3> QED
        BY <1>0, <2>1, <3>1, <3>2, FastPathKept
    <2> QED
      BY <2>2, <2>3
  <1>11. CASE Record
    <2>1. /\ UNCHANGED <<disk, index>> /\ scan'.pc = "file"
          /\ scan'.index.day = scan.index.day
          /\ \A i \in Inodes : scan'.index.files[i] =
               IF i = scan.key THEN NewState ELSE scan.index.files[i]
      BY <1>11, RecordKeeps DEF Left
    <2>2. StateInv(NewState, scan.key, scan.index.day)
      BY <1>0, <1>11, NewStateSound
    <2>3. TrueIndex(scan'.index)
      <3>1. \A i \in Inodes : i # scan.key /\ Knows(scan'.index, i) => Knows(scan.index, i)
        BY <2>1 DEF Knows
      <3> QED
        BY <1>0, <2>1, <2>2, <3>1 DEF TrueIndex
    <2> QED
      BY <1>0, <1>2, <2>1, <2>3
  <1>12. CASE Save
    BY <1>0, <1>2, <1>3, <1>12 DEF Save, NoScan
  <1>13. CASE Crash
    BY <1>0, <1>2, <1>3, <1>13 DEF Crash, NoScan
  <1>14. CASE UNCHANGED vars
    BY <1>1, <1>14 DEF vars, disk
  <1> QED
    BY <1>4, <1>5, <1>6, <1>7, <1>8, <1>9, <1>10, <1>11, <1>12, <1>13, <1>14, StepCases

-----------------------------------------------------------------------------
(* A scan during which no file changes.                                    *)

\* QuietInv of the next state, said of files that are as they were.
LEMMA QuietKept ==
    ASSUME UNCHANGED disk, Opened' => still',
           \A a \in scan'.todo : path[a] # NoFile,
           \A i \in Inodes : Knows(scan'.index, i) => Named(i),
           \A a \in Paths \ scan'.todo :
               ~(Opened' /\ a = scan'.at) => Exact(scan'.index, a)
    PROVE  QuietInv'
  <1>1. path' = path /\ file' = file
    BY DEF disk
  <1> QED
    BY <1>1 DEF QuietInv, Exact, Named, Knows

LEMMA QuietStep ==
    ASSUME IndexInv, FastPathInv, QuietInv, [Next]_vars
    PROVE  QuietInv'
  <1>0. /\ Typed /\ DiskInv /\ ScanInv /\ scan \in ScanState /\ scan.todo \in SUBSET Paths
        /\ NoFile \notin Inodes /\ TrueIndex(scan.index)
    BY PiAssumption
       DEF FastPathInv, StatesInv, TrueIndex, Indexes, IndexInv, Typed, ScanState, PiAssumption
  <1>1. CASE scan'.pc = "idle" \/ ~quiet'
    BY <1>1 DEF QuietInv
  <1> SUFFICES ASSUME scan'.pc # "idle", quiet' PROVE QuietInv'
    BY <1>1
  <1>2. ASSUME quiet, scan.pc # "idle"
        PROVE  /\ \A a \in scan.todo : path[a] # NoFile
               /\ \A i \in Inodes : Knows(scan.index, i) => Named(i)
               /\ Opened => still
               /\ \A a \in Paths \ scan.todo :
                    ~(Opened /\ a = scan.at) => Exact(scan.index, a)
    BY <1>2 DEF QuietInv
  <1>3. ASSUME UNCHANGED <<disk, scan, quiet, still>> PROVE QuietInv'
    <2>1. UNCHANGED disk /\ scan' = scan /\ quiet' = quiet /\ still' = still
      BY <1>3
    <2>2. quiet /\ scan.pc # "idle" /\ (Opened' <=> Opened)
      BY <2>1 DEF Opened
    <2> QED
      BY <1>2, <2>1, <2>2, QuietKept
  \* A file other than the one in hand, whatever becomes of the state of that one.
  <1>4. ASSUME Opened, quiet, scan'.index.day = scan.index.day,
               \A i \in Inodes \ {scan.key} : scan'.index.files[i] = scan.index.files[i]
        PROVE  /\ \A i \in Inodes : Knows(scan'.index, i) => Named(i)
               /\ \A a \in Paths \ scan.todo : a # scan.at => Exact(scan'.index, a)
               /\ scan.at \in Paths /\ scan.key \in Inodes /\ path[scan.at] = scan.key /\ still
               /\ SameFile(scan.size, scan.mtime, file[scan.key]) /\ Named(scan.key)
               /\ \A a \in scan.todo : path[a] # NoFile
    <2>1. /\ scan.at \in Paths /\ scan.key \in Inodes /\ scan.pc # "idle"
      BY <1>0, <1>4 DEF Typed, Opened
    <2>2. /\ path[scan.at] = scan.key /\ still
          /\ SameFile(scan.size, scan.mtime, file[scan.key])
      BY <1>0, <1>2, <1>4, <2>1 DEF ScanInv, OpenedInv
    <2>3. Named(scan.key)
      BY <2>1, <2>2 DEF Named
    <2>4. \A i \in Inodes : Knows(scan'.index, i) => Named(i)
      BY <1>2, <1>4, <2>1, <2>3 DEF Knows
    <2>5. ASSUME NEW a \in Paths \ scan.todo, a # scan.at PROVE Exact(scan'.index, a)
      <3>1. Exact(scan.index, a)
        BY <1>2, <1>4, <2>1, <2>5
      <3>2. path[a] # NoFile => path[a] \in Inodes \ {scan.key}
        BY <1>0, <2>1, <2>2, <2>5 DEF DiskInv, Typed
      <3> QED
        BY <1>4, <3>1, <3>2 DEF Exact, Knows
    <2> QED
      BY <1>2, <1>4, <2>1, <2>2, <2>3, <2>4, <2>5
  \* The file in hand goes on being read.
  <1>5. ASSUME Opened, quiet, UNCHANGED <<disk, still>>, InHand, scan'.todo = scan.todo, Opened',
               scan'.index.day = scan.index.day,
               \A i \in Inodes \ {scan.key} : scan'.index.files[i] = scan.index.files[i]
        PROVE  QuietInv'
    <2>1. UNCHANGED disk /\ still' = still /\ scan'.at = scan.at
      BY <1>5 DEF InHand
    <2> QED
      BY <1>4, <1>5, <2>1, QuietKept
  \* The file in hand is left.
  <1>6. ASSUME Opened, quiet, UNCHANGED disk, Left(scan'.index), scan'.todo = scan.todo,
               scan'.index.day = scan.index.day,
               \A i \in Inodes \ {scan.key} : scan'.index.files[i] = scan.index.files[i],
               Exact(scan'.index, scan.at)
        PROVE  QuietInv'
    <2>1. still' /\ ~Opened'
      BY <1>6 DEF Left, Opened
    <2>2. \A a \in Paths \ scan'.todo : Exact(scan'.index, a)
      BY <1>4, <1>6
    <2> QED
      BY <1>4, <1>6, <2>1, <2>2, QuietKept
  <1>7. CASE DiskStep
    <2>1. scan' = scan /\ quiet' = (scan.pc = "idle")
      BY <1>7, DiskStepKeeps DEF Disturb
    <2> QED
      BY <2>1
  <1>8. CASE Midnight
    BY <1>3, <1>8 DEF Midnight
  <1>9. CASE Begin
    <2>1. /\ UNCHANGED disk /\ scan'.pc = "file" /\ scan'.todo = {a \in Paths : path[a] # NoFile}
          /\ \A i \in Inodes : Knows(scan'.index, i) => Named(i)
      BY <1>9, BeginKeeps
    <2>2. ~Opened' /\ \A a \in Paths \ scan'.todo : Exact(scan'.index, a)
      BY <2>1 DEF Exact, Opened
    <2> QED
      BY <2>1, <2>2, QuietKept
  <1>10. ASSUME NEW a \in Paths, Stat(a) PROVE QuietInv'
    <2>1. /\ UNCHANGED disk /\ quiet /\ still' = still /\ scan.pc = "file" /\ ~Opened
          /\ a \in scan.todo /\ scan'.todo = scan.todo \ {a} /\ scan'.index = scan.index
      BY <1>10, StatKeeps DEF Opened
    <2>2. /\ path[a] # NoFile /\ path[a] \in Inodes /\ Named(path[a]) /\ still
          /\ \A b \in scan'.todo : path[b] # NoFile
          /\ \A i \in Inodes : Knows(scan'.index, i) => Named(i)
          /\ \A b \in Paths \ scan.todo : Exact(scan'.index, b)
      BY <1>0, <1>2, <2>1 DEF Typed, Named
    <2>3. CASE scan'.pc = "file"
      <3> DEFINE s == scan.index.files[path[a]]
      <3>1. SameMetadata(s, file[path[a]])
        BY <1>10, <2>2, <2>3, StatKeeps
      <3>2. Knows(scan.index, path[a])
        BY <3>1 DEF SameMetadata, Knows
      <3>3. StateInv(s, path[a], scan.index.day)
        BY <1>0, <2>2, <3>2 DEF TrueIndex
      <3>4. ~s.raced => s.ids = Countable(file[path[a]].lines, scan.index.day)
        BY <2>2, <3>1, <3>3 DEF StateInv, SameMetadata, SameFile
      <3>5. Exact(scan'.index, a)
        BY <2>1, <3>2, <3>4 DEF Exact
      <3>6. ~Opened' /\ \A b \in Paths \ scan'.todo : Exact(scan'.index, b)
        BY <2>1, <2>2, <2>3, <3>5 DEF Opened
      <3> QED
        BY <2>1, <2>2, <3>6, QuietKept
    <2>4. CASE scan'.pc = "header"
      <3>1. scan'.at = a /\ Opened'
        BY <1>10, <2>4, StatKeeps DEF Opened
      <3>2. \A b \in Paths \ scan'.todo : b # a => Exact(scan'.index, b)
        BY <2>1, <2>2
      <3> QED
        BY <2>1, <2>2, <3>1, <3>2, QuietKept
    <2> QED
      BY <1>10, <2>3, <2>4, StatKeeps
  <1>11. CASE ReadHeader
    <2>1. /\ UNCHANGED disk /\ quiet /\ scan.pc = "header" /\ Opened /\ scan'.todo = scan.todo
      BY <1>11, ReadHeaderKeeps DEF Opened
    <2>2. CASE Left(scan.index)
      <3>1. scan'.index = scan.index /\ (path[scan.at] = NoFile \/ Now.lines = <<>>)
        BY <1>11, <2>2, ReadHeaderKeeps DEF Left, InHand, StartsOver, ToCursor
      <3>2. Exact(scan'.index, scan.at)
        BY <3>1 DEF Exact, Now
      <3> QED
        BY <1>6, <2>1, <2>2, <3>1, <3>2
    <2>3. CASE ~Left(scan.index)
      <3>1. UNCHANGED still /\ InHand /\ (StartsOver \/ ToCursor)
        BY <1>11, <2>3, ReadHeaderKeeps
      <3> QED
        BY <1>5, <2>1, <3>1 DEF StartsOver, ToCursor, Opened
    <2> QED
      BY <2>2, <2>3
  <1>12. CASE ReadCursor
    <2>1. /\ UNCHANGED disk /\ UNCHANGED still /\ quiet /\ scan.pc = "cursor" /\ Opened
          /\ scan'.todo = scan.todo /\ InHand /\ (StartsOver \/ FromState)
      BY <1>12, ReadCursorKeeps DEF Opened
    <2> QED
      BY <1>5, <2>1 DEF StartsOver, FromState, Opened
  <1>13. CASE ReadSuffix
    <2>1. /\ UNCHANGED disk /\ quiet /\ scan.pc = "suffix" /\ Opened /\ scan'.todo = scan.todo
      BY <1>13, ReadSuffixKeeps DEF Opened
    <2>2. path[scan.at] # NoFile
      <3>1. still /\ scan.key \in Inodes
        BY <1>0, <1>2, <2>1 DEF Typed
      <3> QED
        BY <1>0, <2>1, <3>1 DEF ScanInv, OpenedInv
    <2>3. UNCHANGED still /\ InHand /\ Added
      BY <1>13, <2>2, ReadSuffixKeeps
    <2> QED
      BY <1>5, <2>1, <2>3 DEF Added, Opened
  <1>14. CASE Record
    <2>1. /\ UNCHANGED disk /\ quiet /\ scan.pc = "record" /\ Opened /\ scan'.todo = scan.todo
          /\ Left(scan'.index) /\ NewState \in FileState
          /\ scan'.index.day = scan.index.day
          /\ \A i \in Inodes : scan'.index.files[i] =
               IF i = scan.key THEN NewState ELSE scan.index.files[i]
      BY <1>14, RecordKeeps DEF Opened
    <2>2. /\ scan.key \in Inodes /\ path[scan.at] = scan.key /\ Named(scan.key)
          /\ SameFile(scan.size, scan.mtime, file[scan.key])
      BY <1>4, <2>1
    <2>3. StateInv(NewState, scan.key, scan.index.day)
      BY <1>0, <1>14, NewStateSound
    <2>4. NewState.size = scan.size /\ NewState.mtime = scan.mtime /\ NewState # Unknown
      BY DEF NewState, Unknown
    <2>5. ~NewState.raced => NewState.ids = Countable(file[scan.key].lines, scan.index.day)
      BY <2>2, <2>3, <2>4 DEF StateInv
    <2>6. Exact(scan'.index, scan.at)
      <3> DEFINE n == NewState
      <3>1. /\ scan'.index.files[scan.key] = n /\ n # Unknown
            /\ ~n.raced => n.ids = Countable(file[scan.key].lines, scan.index.day)
        BY <2>1, <2>2, <2>4, <2>5
      <3> HIDE DEF n
      <3> QED
        BY <2>1, <2>2, <3>1 DEF Exact, Knows
    <2> QED
      BY <1>6, <2>1, <2>6
  <1>15. CASE Save \/ Crash
    <2>1. scan' = NoScan /\ NoScan.pc = "idle"
      BY <1>15 DEF Save, Crash, NoScan
    <2> QED
      BY <2>1
  <1>16. CASE UNCHANGED vars
    BY <1>3, <1>16 DEF vars, disk
  <1> QED
    BY <1>7, <1>8, <1>9, <1>10, <1>11, <1>12, <1>13, <1>14, <1>15, <1>16, StepCases

-----------------------------------------------------------------------------
(* What the project claims of the index.                                   *)

LEMMA IndexInvariant == Spec => []IndexInv
  <1>1. Init => IndexInv
    BY IndexInit
  <1>2. IndexInv /\ [Next]_vars => IndexInv'
    BY IndexStep
  <1> QED
    BY <1>1, <1>2, PTL DEF Spec

LEMMA ScanInvariant == Spec => [](IndexInv /\ FastPathInv /\ QuietInv)
  <1>1. Init => FastPathInv /\ QuietInv
    BY FastPathInit
  <1>2. IndexInv /\ FastPathInv /\ QuietInv /\ [Next]_vars => FastPathInv' /\ QuietInv'
    BY FastPathStep, QuietStep
  <1> QED
    BY <1>1, <1>2, IndexInvariant, PTL DEF Spec

\* No offset that an index stores passes the longest file, and the entries it counts are
\* entries, whatever becomes of the files while they are scanned.
THEOREM IndexTypes == Spec => []TypeOK
  <1>1. IndexInv => TypeOK
    <2> SUFFICES ASSUME IndexInv PROVE TypeOK
      OBVIOUS
    <2>1. Typed /\ MaxLines \in Nat
      BY PiAssumption DEF IndexInv, PiAssumption
    <2>2. ASSUME NEW x \in Indexes, NEW i \in Inodes, x.files[i] # Unknown
          PROVE  x.files[i].offset \in 0 .. MaxLines + 1 /\ x.files[i].ids \subseteq Ids
      <3>1. x \in TokenIndex /\ Knows(x, i)
        BY <2>1, <2>2 DEF Typed, ScanState, Indexes, Knows
      <3>2. x.files[i] \in FileState
        BY <3>1, KnownStates
      <3>3. x.files[i].offset \in Nat /\ x.files[i].offset <= MaxLines + 1
        BY <2>1, <3>1, <3>2 DEF Typed, FileState
      <3> QED
        BY <2>1, <3>2, <3>3 DEF FileState
    <2>3. scan.pc \in {"idle", "file", "header", "cursor", "suffix", "record"}
      BY <2>1 DEF Typed, ScanState
    <2> QED
      BY <2>1, <2>2, <2>3 DEF TypeOK, Typed
  <1> QED
    BY <1>1, IndexInvariant, PTL

\* add_entry and remove_file_sources keep the two directions of the index together: an
\* entry names exactly the files whose state counts it, or fewer if it was refused once, in
\* the index on disk and in the one a scan works on, with no assumption about the files.
THEOREM DirectionsAgree == Spec => []SourcesAgree
  <1>1. IndexInv => \A x \in Indexes : Agrees(x)
    BY DEF IndexInv
  <1>2. TypeOK /\ (\A x \in Indexes : Agrees(x)) => SourcesAgree
    BY DEF SourcesAgree, Agrees
  <1> QED
    BY <1>1, <1>2, IndexInvariant, IndexTypes, PTL

\* process_file does not open a file whose size and time are those of the index, and then
\* the index has exactly its entries, whatever happened to the files between any two system
\* calls of the scans before.  Left out, and said by raced: a state whose lines were written
\* over, or their file replaced, between two reads of the path (the entries are then kept
\* under the fingerprint of the new lines).  Left out by Distinguishable: contents that
\* differ only before the window of a fingerprint.
THEOREM FastPathIsSound == Spec => []FastPathSound
  <1>1. IndexInv /\ FastPathInv => FastPathSound
    <2> SUFFICES ASSUME IndexInv, FastPathInv, NEW a \in Paths, path[a] # NoFile,
                        SameMetadata(index.files[path[a]], file[path[a]]),
                        ~index.files[path[a]].raced
                 PROVE  index.files[path[a]].ids = Countable(file[path[a]].lines, index.day)
      BY DEF FastPathSound
    <2> DEFINE s == index.files[path[a]]
    <2>1. path[a] \in Inodes /\ Named(path[a]) /\ Knows(index, path[a])
      BY DEF IndexInv, Typed, Named, SameMetadata, Knows
    <2>2. StateInv(s, path[a], index.day)
      BY <2>1 DEF FastPathInv, StatesInv, Indexes
    <2> QED
      BY <2>1, <2>2 DEF StateInv, SameMetadata, SameFile
  <1> QED
    BY <1>1, ScanInvariant, PTL

\* "Cache JSON is an optimization, never evidence": when no file changes during a scan that
\* has come to its end, update_pi_index counts of every file that has a header and no raced
\* state what it would count with no index, and nothing of files that are gone, whatever
\* was saved, lost or half read before.  Refused entries and, by Distinguishable, contents
\* that differ only before the window of a fingerprint are left out.
THEOREM QuietScanIsRebuild == Spec => []ScanIsRebuild
  <1>1. IndexInv /\ QuietInv => ScanIsRebuild
    <2> DEFINE x == scan.index
    <2> SUFFICES ASSUME IndexInv, QuietInv, QuietScanDone
                 PROVE  /\ \A e \in Ids : x.seen[e] \subseteq Range(path)
                        /\ \A i \in Readable : Raced(x.files[i]) \/ AsRebuilt(x, i)
      BY DEF ScanIsRebuild
    <2>1. /\ \A i \in Inodes : Knows(x, i) => Named(i)
          /\ \A a \in Paths : Exact(x, a)
      BY DEF QuietInv, QuietScanDone, Opened
    <2>2. /\ Agrees(x) /\ path \in PathMaps
      BY DEF IndexInv, Indexes, Typed, PathMaps
    <2>3. \A i \in Inodes : Named(i) <=> i \in Range(path)
      BY <2>2 DEF Named, Range, PathMaps
    <2>4. ASSUME NEW e \in Ids PROVE x.seen[e] \subseteq Range(path)
      <3>1. x.seen[e] \subseteq Holders(x, e)
        BY <2>2 DEF Agrees
      <3> QED
        BY <2>1, <2>3, <3>1 DEF Holders, Knows
    <2>5. ASSUME NEW i \in Readable, ~Raced(x.files[i]) PROVE AsRebuilt(x, i)
      <3>1. i \in Inodes /\ Named(i) /\ file[i].lines # <<>> /\ i # NoFile
        BY <2>3, PiAssumption DEF Readable, PiAssumption
      <3>2. PICK a \in Paths : path[a] = i
        BY <3>1 DEF Named
      <3>3. Knows(x, i) /\ x.files[i].ids = Countable(file[i].lines, x.day)
        BY <2>1, <2>5, <3>1, <3>2 DEF Exact, Raced, Knows
      <3>4. \A e \in Ids \ x.refused : i \in x.seen[e] <=> e \in x.files[i].ids
        BY <2>2, <3>1, <3>3 DEF Agrees, Holders, Knows
      <3>5. \A e \in Countable(file[i].lines, x.day) : e \in Ids
        BY DEF Countable
      <3> HIDE DEF x
      <3> QED
        BY <3>3, <3>4, <3>5 DEF AsRebuilt
    <2> QED
      BY <2>4, <2>5
  <1> QED
    BY <1>1, ScanInvariant, PTL
=============================================================================
