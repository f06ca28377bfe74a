\* Two connections, three records and a command of three pieces of output, which
\* starts before any of the records and may see one of another session.
SPECIFICATION Spec
CONSTANTS
    ChannelSize = 1
    PipeSize = 2
    MaxPieces = 3
    Connections = {alpha, beta}
    AnyConnection = AnyConnection
    NoFile = NoFile
    NoSource = NoSource
    MaxEntries = 3
    MaxBefore = 0
    MaxDuring = 1
INVARIANTS
    KeptEntriesStored
    Chronological
    LoadsNewest
    ResultComplete
PROPERTY
    CommandReturns
