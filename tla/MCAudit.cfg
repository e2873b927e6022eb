SPECIFICATION Spec
CONSTANTS
    PageSize = 2
    Id <- MCId
    Name <- MCName
    Writer = {w1}
    Kinds <- MCKinds
    Samples = {0, 2}
    Starts = {3}
    Ledgers = {{2, 4}}
    Losses = {{}, {4}}
    Shelves <- MCShelves
    MaxSorted = 2
    Budget = 1
INVARIANTS FailureHasCause GreenMeansAudited NewestManifest
PROPERTIES AuditEnds
