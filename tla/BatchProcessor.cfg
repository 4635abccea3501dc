\* Slices of three items, two at work at a time; five items are two slices.
CONSTANTS
    Batches = {b1}
    MaxLen = 5
    BatchSize = 3
    MaxConcurrent = 2
SPECIFICATION FairSpec
INVARIANTS TypeOK BatchComplete Throttled
PROPERTIES EveryoneAnswered
