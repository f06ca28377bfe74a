\* Two chunks per stream through a channel of one, one retry of Start, and a write:
\* readers block on the full channel while closing and exiting race.
SPECIFICATION Spec
CONSTANTS
    OutputBuffer = 1
    MaxChunks = 2
    MaxStarts = 2
    MaxWrites = 1
INVARIANT NoSendAfterClose
PROPERTIES
    ImplementsShell
    CloseIsReported
\* A session that has ended is done.
CHECK_DEADLOCK FALSE
