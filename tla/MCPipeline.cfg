\* Two jobs of one process share the breaker and the ledger; a content with a malformed hash.
SPECIFICATION PipelineSpec
CONSTANTS
    p1 = p1
    Target = {t1}
    Content = {c1, c2}
    Malformed = {c2}
    Job = {j1, j2}
    Pod = {p1}
    PodOf <- OnePod
    Broken = {}
    Faults = {"store", "source", "gone", "timeout", "db", "panic"}
    Threshold = 1
    Cooldown = 1
SYMMETRY Symmetry
INVARIANTS
    StoredIsReal
PROPERTIES
    LedgerNeverRegresses
