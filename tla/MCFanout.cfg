\* Two targets, each of them healthy or not, and up to two chunks.
SPECIFICATION FairSpec
CONSTANTS
    Target = {t1, t2}
    MaxChunks = 2
INVARIANTS
    CommitIsComplete
    OkIsCommitted
    BufferNotReused
    Isolation
PROPERTIES
    BarrierReleases
    Returns
