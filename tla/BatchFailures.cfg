\* One batch of at most two items, in one slice.
CONSTANTS
    Batches = {b1}
    MaxLen = 2
    BatchSize = 3
    MaxConcurrent = 2
SPECIFICATION Spec
INVARIANTS FailuresEndBatch
