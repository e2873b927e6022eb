SPECIFICATION Spec
CONSTANTS
    PageSize = 2
    Item <- MCItem
    Target <- MCTarget
    Codec <- MCCodec
    Ledgers <- MCLedgers
    Corpora <- MCCorpora
    Dirs <- MCDirs
    Flaky = {2}
    Magic = {2}
    Commands = {"backfill", "reconcile", "restore all", "drill"}
    Starts = {3, 5}
    Samples = {0, 2}
    Concurrency = 2
    Budget = 1
    MaxRuns <- MCMaxRuns
INVARIANTS FailureIsGenuine GreenMeansCovered OncePerPass
PROPERTIES SuccessIsReal LastSuccessKept Exits
