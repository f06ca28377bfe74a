\* Two tabs and three transports, enough for a replacement of a replacement.  The
\* program stops when the window is closed.
SPECIFICATION Spec
CONSTANTS
    Tabs = {a, b}
    Transports = {t1, t2, t3}
    NoTransport = NoTransport
INVARIANTS
    ExclusiveOwnership
    NoOrphan
PROPERTIES
    RunningKept
    ExitReleased
CHECK_DEADLOCK FALSE
