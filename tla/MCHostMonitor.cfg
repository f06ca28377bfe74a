\* Two monitored tabs and one that is not; two samples of the first, one of the
\* second.  The program stops when the window is closed, so a state without a
\* successor is legal.
SPECIFICATION Spec
CONSTANTS
    l1 = l1
    l2 = l2
    s1 = s1
    NoTab = NoTab
    Tabs = {l1, l2, s1}
    Local = {l1, l2}
    MaxSamples <- SampleBounds
INVARIANTS
    SidebarIsActiveTab
    LatestShown
    MonitorsAgree
PROPERTY
    StopEnds
CHECK_DEADLOCK FALSE
