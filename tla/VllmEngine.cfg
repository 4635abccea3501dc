\* Two calls with their three attempts; a batch of 0, 1, 2 (one chunk), 3, 4
\* (two chunks) or 5 (refused) prompts.
CONSTANTS
    Calls = {c1, c2}
    Batches = {b1}
    MaxLen = 5
    MaxSeqs = 2
    ChunkSize = 0
SPECIFICATION MCSpec
INVARIANTS TypeOK NoZombie BatchComplete SeqsBounded
PROPERTIES JobsEnd EveryoneAnswered
