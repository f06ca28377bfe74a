\* One window's rows are older than the other's: delete in the launcher, edit in the
\* manager.
SPECIFICATION Spec
CONSTANTS
    alpha = alpha
    beta = beta
    old = old
    new = new
    Profiles = {alpha, beta}
    Contents = {old}
    Absent = Absent
    NoFile = NoFile
    NoProfile = NoProfile
    Defaults <- FirstStart
    MaxTimeouts = 1
PROPERTY EditorNeverRecreates
