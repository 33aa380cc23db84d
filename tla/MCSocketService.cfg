\* systemd's process and one by hand, two VMs; four starts by hand, stops or
\* failures.
CONSTANTS
    Processes = {unit, hand}
    Unit = unit
    VMs = {1, 2}
    NoFile = NoFile
    Dead = Dead
    MaxEvents = 4
SPECIFICATION FairSpec
INVARIANTS
    TypeOK
    AloneIsReachable
    AloneStarts
PROPERTIES
    UnitComesUp
    LinesTrue
    ReassignEnds
