\* Two profiles, one of them the default of a first start, with two contents each; two
\* callbacks queued by the user on top of those the callbacks queue themselves.
SPECIFICATION Spec
CONSTANTS
    alpha = alpha
    beta = beta
    old = old
    new = new
    Profiles = {alpha, beta}
    Contents = {old, new}
    Absent = Absent
    NoFile = NoFile
    NoProfile = NoProfile
    Defaults <- FirstStart
    MaxTimeouts = 2
INVARIANTS
    MemoryIsDatabase
    NoFalseSuccess
    DeletedStaysDeleted
PROPERTIES
    LoadKeeps
    SavedEditorRespectsDeletion
