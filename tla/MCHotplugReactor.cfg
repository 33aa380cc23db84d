CONSTANTS
    EventBufferSize = 2
    JobBufferSize = 2
    Window = 2
SPECIFICATION ReactorFairSpec
INVARIANTS
    ReactorTypeOK
    NoLostWakeup
PROPERTIES
    QuietBeforeJob
    CalmIsServed
    StopEnds
