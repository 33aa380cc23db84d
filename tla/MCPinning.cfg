\* Two VMs that get each other's thread ids, two requests, two changes.
CONSTANTS
    CPUs = {c1, c2}
    VMs = {v1, v2}
    Tasks = {t1, t2}
    Handlers = {h1, h2}
    MaxSize = 2
    MaxChanges = 2
    Nobody = Nobody
SPECIFICATION Spec
SYMMETRY Symmetry
INVARIANTS TypeOK PinnedOrBlamed LeftAlone
