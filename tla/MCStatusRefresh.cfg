\* Two processes on one status.json, or one with a clock that may be set back.
SPECIFICATION FairSpec
CONSTANTS
    p1 = p1
    p2 = p2
    claude = claude
    codex = codex
    codexB = codexB
    claudeFamily = claudeFamily
    codexFamily = codexFamily
    Procs = {p1, p2}
    Families = {claudeFamily, codexFamily}
    Accounts = {claude, codex, codexB}
    family <- MCFamily
    primary <- MCPrimary
    Grace = 1
    Environments <- SharedOrAlone
INVARIANT HonestAge
INVARIANT EachAccountOnce
PROPERTY NoSilentTimeout
PROPERTY FreshMeansFresh
PROPERTY KeepsRecentData
PROPERTY RefreshCompletes
