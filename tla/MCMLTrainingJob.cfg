SPECIFICATION Spec
CONSTANTS
    Budgets <- MCBudgets
INVARIANTS SeriesHasRecord SettledIsRight
CHECK_DEADLOCK FALSE
