\* Two prunes race for one expired entry.
SPECIFICATION Spec
CONSTANTS
    Requests = {r1, r2, r3}
    Retention = 1
    MaxTime = 1
    MaxRestarts = 0
CHECK_DEADLOCK FALSE
INVARIANTS
    DownloadsAreFoundOrNot
