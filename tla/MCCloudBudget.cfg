\* Two permits, two callers, an hour of three ticks, six ticks of time:
\* two whole windows pass, with reservations out of order inside them.
SPECIFICATION Spec
CONSTANTS
    Callers = {c1, c2}
    Cap = 2
    Hour = 3
    MaxStall = 1
    MaxTime = 6
SYMMETRY CallerSymmetry
INVARIANTS
    TypeOK
    BudgetNeverExceeded
    WindowCap
    IInv
PROPERTIES
    NothingStaleCounted
    PoolSpec
