SPECIFICATION Spec
CONSTANTS
    Schedule <- MCSchedule
    RunArms <- MCArms
    Quotas <- MCQuotas
    Machines <- MCMachines
    MaxAttempts = 2
    MaxLag <- MCMaxLag
    MaxLate = 1
    MaxFaults = 1
    MaxMeddling = 1
    MaxErrors = 1
    DefaultGraces = {2, 3}
    MaxCanaries = 1
    MaxChanges = 1
    MaxSkew = 1
INVARIANT StandsOnContrast
INVARIANT LedgerHasNoHole
INVARIANT ChargesAreTrue
INVARIANT ChargesWithinOccupancy
INVARIANT ForeignUntouched
INVARIANT ReleasedMeansEmpty
INVARIANT RecordReadsBack
INVARIANT SuccessIsWhole
CHECK_DEADLOCK FALSE
