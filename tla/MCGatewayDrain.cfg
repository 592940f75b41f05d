CONSTANTS
    Calls = {r1, r2}
    Probes = {p1}
SPECIFICATION ProcFairSpec
INVARIANT DrainedUnlessLate
CHECK_DEADLOCK FALSE
