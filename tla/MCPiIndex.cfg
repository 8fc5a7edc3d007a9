\* Two session files, two inodes, entries of two days, one of which may be too much for the
\* totals; three writes, the third under MCBound.
SPECIFICATION Spec
CONSTANTS
    x = x
    y = y
    z = z
    h1 = h1
    Paths = {a, b}
    Inodes = {i1, i2}
    NoFile = NoFile
    Headers = {h1}
    Ids = {x, y, z}
    day <- MCDays
    Huge = {z}
    Window = 1
    LastDay = 2
    MaxLines = 2
    MaxNew = 1
    MaxWrites = 3
SYMMETRY Symmetry
CONSTRAINT MCBound
INVARIANT SourcesAgree
INVARIANT FastPathSound
INVARIANT ScanIsRebuild
