\* One Docling request at work, one that waits for the lock.
CONSTANTS
    DoclingReqs = {d1, d2}
    OcrReqs = {}
    ColPaliReqs = {}
    OcrPreloaded = FALSE
SPECIFICATION WatchSpec
INVARIANTS WithinReach
