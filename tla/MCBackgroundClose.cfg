\* Two tabs: type in the one, close the other with its close button.
SPECIFICATION FairSpec
CONSTANTS
    Profiles = {p}
    ClosedLimit = 1
    Scrollback = 1
    MaxRuntimes = 2
    MaxRuns = 0
    MaxOutput = 0
PROPERTY BackgroundCloseKeepsDraft
CHECK_DEADLOCK FALSE
