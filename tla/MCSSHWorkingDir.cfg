\* A connection with a working directory whose remote shell is gone when Start
\* writes the cd command.
SPECIFICATION FailingSpec
CONSTANTS
    OutputBuffer = 1
    MaxChunks = 0
    MaxStarts = 1
    MaxWrites = 0
PROPERTY FailedStartReturns
CHECK_DEADLOCK FALSE
