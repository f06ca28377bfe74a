\* Two attempts at two hosts whose servers may present either of two keys; three
\* processes that may draw either of two master keys.
SPECIFICATION MCSpec
CONSTANTS
    Attempts = {a1, a2}
    Hosts = {h1, h2}
    Keys = {k1, k2}
    NoKey = NoKey
    Processes = {p1, p2, p3}
    MasterKeys = {m1, m2}
    Absent = Absent
    Invalid = Invalid
INVARIANTS
    ConnectedIsApproved
    OneMasterKey
    KeyKept
PROPERTY TrustKept
