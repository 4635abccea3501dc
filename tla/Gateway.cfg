\* Ticks of half a second and a window of two: entries of one window leave
\* while others stay.  The watcher goes through each of its sleeps, and the
\* clock goes on after the longest of them.
CONSTANTS
    ApiKeys = {k1}
    Hosts = {h1}
    Paths = {"chat", "ocr"}
    Limit <- MCLimit
    Second = 2
    Window = 4
    MaxTime = 6
    Requests = {r1}
    Serves <- MCServes
    Preload = {"vllm"}
    Idle = 2
    Check = 1
SPECIFICATION GatewaySpec
INVARIANTS GatewayTypeOK WithinLimit FreedInTime RetryAfterKeptOnWidest
PROPERTIES RefusedForCause
CHECK_DEADLOCK FALSE
