\* Two PUTs at once and no crash.
SPECIFICATION Spec
CONSTANTS
    cascade = cascade
    pinned = pinned
    unknown = unknown
    Puts = {p1, p2}
    Settings = {cascade, pinned, unknown}
    Valid = {cascade, pinned}
    Default = cascade
    Bytes <- MCBytes
    Text <- MCText
    Layouts <- MCLayouts
    MaxCrashes = 0
CHECK_DEADLOCK FALSE
INVARIANTS
    AcceptedEditsPersist
