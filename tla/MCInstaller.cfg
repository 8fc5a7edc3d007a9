\* Two or three commands in a row on eleven desktops, with failures, deaths and edits.
SPECIFICATION DesktopSpec
CONSTANTS
    UserTokens <- MCUserTokens
    Naming <- MCNaming
    Tolerated <- MCTolerated
    Additions <- MCAdditions
    Scenarios <- MCDesktops
    MaxSecond = 1
CHECK_DEADLOCK FALSE
INVARIANT CommandKeepsPromise
INVARIANT AuthoredIsKept
INVARIANT UserTextSurvives
INVARIANT BarSeesWhole
