SPECIFICATION HealthFairSpec
CONSTANTS
    Names = {h1, h2}
    OtherTaints = {cordon}
    Budgets <- MCBudgets
INVARIANTS QuarantineWasEnforced
PROPERTIES QuarantineConverges DeletionCompletes
CHECK_DEADLOCK FALSE
