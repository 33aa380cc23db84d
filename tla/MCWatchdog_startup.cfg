CONSTANTS
    CPUs = {c0, c1}
    MaxChanges = 3
    MaxInFlight = 2
    SocketBuffer = 4
    Faults = {"startup"}
    EventBufferSize = 2
    JobBufferSize = 1
    Window = 1
SPECIFICATION FairSpec
CHECK_DEADLOCK FALSE
PROPERTY EventuallyCurrent
