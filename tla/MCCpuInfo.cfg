CONSTANTS
    CPUs = {0, 1, 2}
    VMs = {vm1, vm2}
    MaxRequest = 3
    Updaters = {u1, u2}
SPECIFICATION Spec
SYMMETRY Symmetry
INVARIANTS
    TypeOK
    SelectionsFromCache
    AnswerExact
    EvenDistribution
    RoundRobin
PROPERTIES
    TurnsAreGrants
    ImplementsAffinityMap
