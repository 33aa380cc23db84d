\* The default configuration: 10 retries, 10 s sleep, 30 s timeout, 2 min for
\* a calculation; everything may happen.
CONSTANTS
    VMs = {v1}
    SocketRetry = 10
    SocketSleep = 2
    SocketTimeout = 6
    Deadline = 1
    MaxRanking = 24
    PingOnPreStart = TRUE
    Faults = {"crash", "overrun", "stop", "slow", "error", "die"}
SPECIFICATION FairSpec
INVARIANTS TypeOK ServedAfterStart
PROPERTIES NoEarlyEnd HookEnds
