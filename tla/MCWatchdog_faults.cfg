CONSTANTS
    CPUs = {c0, c1, c2}
    MaxChanges = 4
    MaxInFlight = 3
    SocketBuffer = 2
    Faults = {"startup", "unbound", "foreign", "silent", "timeout", "slow", "restart"}
    EventBufferSize = 1
    JobBufferSize = 1
    Window = 1
SPECIFICATION FairSpec
CHECK_DEADLOCK FALSE
INVARIANTS
    TypeOK
    StaleOnlyForAKnownCause
PROPERTIES
    CurrentOrBlamed
