SPECIFICATION CanarySpec
CONSTANTS
    DefaultGraces = {3}
    MaxCanaries = 1
    MaxChanges = 0
    MaxSkew = 1
INVARIANT SurvivorIsReal
CHECK_DEADLOCK FALSE
