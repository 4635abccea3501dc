\* Four coroutines: one inside, one woken or timed out, two queued behind it.
CONSTANT Reqs = {r1, r2, r3, r4}
SPECIFICATION FairSpec
INVARIANTS TypeOK MutualExclusion NoLostWakeup
PROPERTIES NoOvertaking NoStarvation MutexSpec
