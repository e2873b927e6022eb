SPECIFICATION Spec
CONSTANTS
    PageSize = 2
    Item <- MCItem
    Target <- MCTarget
    Codec <- MCCodec
    Ledgers <- MCLedgers
    Corpora <- MCCorpora
    Dirs <- MCDirs
    Flaky = {2}
    Magic = {2}
    Commands = {"reconcile"}
    Starts = {3, 5}
    Samples = {0, 2}
    Concurrency = 2
    Budget = 1
    MaxRuns <- MCMaxRuns
INVARIANTS RepairFailureIsGenuine
