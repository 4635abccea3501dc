\* Four coroutines: one at work, one handed the permit, two behind it.
CONSTANT Reqs = {r1, r2, r3, r4}
SPECIFICATION FairSpec
INVARIANTS TypeOK OnePermit GradRestored
PROPERTIES EveryoneAnswered MutexSpec
