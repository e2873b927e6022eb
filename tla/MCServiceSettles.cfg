\* Faults stop at some time; claims do not outlive staleTTL under their worker.
SPECIFICATION FairSpec
CONSTANTS
    w1 = w1  w2 = w2  p1 = p1  p2 = p2  r1 = r1  r2 = r2  c1 = c1
    NoRow = NoRow  Nobody = Nobody
    Target = {t1}
    Content = {c1}
    Malformed = {}
    Job = {w1, w2}
    Pod = {p1, p2}
    PodOf <- TwoPods
    Broken = {}
    Faults = {"store", "db", "crash", "shutdown"}
    Threshold = 1
    Cooldown = 1
    MaxAttempts = 2
    MaxDeliveries = 2
    Row = {r1}
    ContentOf <- SameContent
    Rank <- OnlyOne
    Stray = {}
    LeaseRespected = TRUE
INVARIANTS
    ExclusiveClaim
PROPERTIES
    ShutdownCostsNoAttempt
    EveryRowSettles
