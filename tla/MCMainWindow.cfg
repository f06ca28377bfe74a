SPECIFICATION MCSpec
CONSTANTS
    Stock <- MCStock
    Queries <- MCQueries
    Limit = 2
    MaxClock = 2
    Languages = {"en", "zh"}
    Preferences = {1, 2}
    MinFont = 2
    MaxFont = 4
    DefaultFont = 3
INVARIANTS
    RowsFresh
    SearchSound
    SettingsInForce
    WindowCurrent
PROPERTIES
    StartupKeepsActive
CHECK_DEADLOCK FALSE
