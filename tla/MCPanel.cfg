\* One page with two saves, or with one and another client with one PUT; one
\* crash.  The system stops when they are used up.
SPECIFICATION PanelSpec
CONSTANTS
    Puts = {p1, p2, other}
    PanelPuts = {p1, p2}
    Opening = opening
    Settings <- MCSettings
    Valid <- MCValid
    Default <- MCDefault
    Bytes <- MCBytes
    Text <- MCText
    Layouts <- MCLayouts
    Offered <- MCOffered
    MaxCrashes = 1
SYMMETRY MCSymmetry
CONSTRAINT TwoPuts
CHECK_DEADLOCK FALSE
INVARIANTS
    PanelTypeOK
    LonePutSurvives
    FailedPutIsApplied
    PanelTellsTheTruth
PROPERTIES
    RegisterSpec
