\* The least staleTTL that validateLimits accepts, below the floor of the reaper's
\* interval; two sweeps in a row may fail.
SPECIFICATION Spec
CONSTANTS
    DBTimeout = 3
    PerObject = 4
    Bookkeeping = 2
    StaleTTL = 9
    Minute = 10
    MaxMissed = 2
PROPERTIES
    TakenOnlyIfAnswerSlow
INVARIANTS
    StuckRowIsCaught
