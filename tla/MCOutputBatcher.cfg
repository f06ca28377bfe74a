\* Two producers, two distinguishable fragments, four Enqueue and two AfterFlush
\* calls: enough for output to arrive in every window of drain twice over.
SPECIFICATION FairSpec
CONSTANTS
    Callers = {stdout, stderr}
    Fragments = {x, y}
    Callbacks = {done}
    MaxFragments = 4
    MaxCallbacks = 2
INVARIANT SingleCallback
PROPERTY OrderedDelivery
\* A program that has produced all of its output is done.
CHECK_DEADLOCK FALSE
