\* A store may outlast two cooldowns, as by default (60 s against
\* 30 min per object), so that three probes can be on their way at once.
SPECIFICATION Spec
CONSTANTS
    Target = {t1, t2}
    Worker = {w1, w2, w3}
    Threshold = 2
    Cooldown = 2
    MaxStore = 4
SYMMETRY Symmetry
INVARIANTS
    OpenIffTripped
    ProbesAreSpaced
