\* A burst of rows for two workers.
SPECIFICATION FairSpec
CONSTANTS
    Worker = {w1, w2}
    Row = {r1, r2}
    NoRow = NoRow
    MaxErrors = 1
INVARIANTS
    NoLostWakeup
PROPERTIES
    PollingIsEnough
    Drains
