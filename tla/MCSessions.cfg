\* Four scenarios: four tabs moved, pinned and closed; two tabs with commands and
\* shells; two tabs of either profile walking through two commands of history; two
\* tabs printing three pieces into a terminal of two, with the find window open.
SPECIFICATION MCSpec
CONSTANTS
    p = p
    q = q
    Profiles = {p, q}
    ClosedLimit = 1
    Scrollback = 2
    MaxRuntimes = 4
    MaxRuns = 2
    MaxOutput = 3
    MaxHistory = 2
INVARIANTS
    PinnedFirst
    TabsDistinct
    LinesPrivate
    RunsAgree
    OutputPrivate
    FindAccurate
PROPERTIES
    SelectionKept
    RunsReported
\* Without tabs left to open the user may have nothing to do.
CHECK_DEADLOCK FALSE
