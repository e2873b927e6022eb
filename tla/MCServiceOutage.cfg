\* One of two targets is down for good; two workers of one pod, two
\* rows, of which one is stray.
SPECIFICATION Spec
CONSTANTS
    w1 = w1  w2 = w2  p1 = p1  p2 = p2  r1 = r1  r2 = r2  c1 = c1
    NoRow = NoRow  Nobody = Nobody
    Target = {t1, t2}
    Content = {c1}
    Malformed = {}
    Job = {w1, w2}
    Pod = {p1}
    PodOf <- OnePod
    Broken = {t1}
    Faults = {}
    Threshold = 2
    Cooldown = 1
    MaxAttempts = 3
    MaxDeliveries = 2
    Row = {r1, r2}
    ContentOf <- SameContent
    Rank <- OneThenTwo
    Stray = {r2}
    LeaseRespected = TRUE
INVARIANTS
    OutageNeverDeadLetters
    VerdictGate
