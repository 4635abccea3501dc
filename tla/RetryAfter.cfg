\* One caller without a key, on the two paths.
CONSTANTS
    ApiKeys = {}
    Hosts = {h1}
    Paths = {"chat", "ocr"}
    Limit <- MCLimit
    Second = 2
    Window = 4
    MaxTime = 8
SPECIFICATION Spec
INVARIANTS RetryAfterKept
CHECK_DEADLOCK FALSE
