\* One session file that is written over between two reads of a scan.
SPECIFICATION Spec
CONSTANTS
    x = x
    y = y
    z = z
    h1 = h1
    Paths = {a}
    Inodes = {i1}
    NoFile = NoFile
    Headers = {h1}
    Ids = {x, y}
    day <- MCOneDay
    Huge = {}
    Window = 1
    LastDay = 1
    MaxLines = 2
    MaxNew = 1
    MaxWrites = 3
INVARIANT EditsAreDetected
