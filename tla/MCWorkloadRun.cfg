SPECIFICATION Spec
CONSTANTS
    Specs <- MCSpecs
    NoRun = NoRun
    UnhealthyStates <- MCUnhealthyStates
    MaxGap = 4
    MaxGeneration = 2
    MaxTrail = 3
    MaxStart = 1
    Horizon = 7
    MaxRestarts = 1
INVARIANTS NoVerdictAcrossHole VerdictJudgesDeclaredSpec VerdictIsInTheTrail NoRunForgotten
CHECK_DEADLOCK FALSE
