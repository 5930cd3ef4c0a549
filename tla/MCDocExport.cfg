\* Three requests, two ticks of retention: two prunes race for one entry, and a restart; the system stops when the requests and the clock are used up.
SPECIFICATION Spec
CONSTANTS
    Requests = {r1, r2, r3}
    Retention = 2
    MaxTime = 3
    MaxRestarts = 1
SYMMETRY MCSymmetry
CHECK_DEADLOCK FALSE
INVARIANTS
    TypeOK
    LinksWorkUntilExpiry
    NoFileLeaks
    EntriesHaveFiles
    ServedIsFresh
