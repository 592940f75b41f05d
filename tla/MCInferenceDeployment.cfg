SPECIFICATION Spec
CONSTANTS
    Replicas = {0, 1}
    Versions = {v1, v2}
    Policies = {p1}
    Tenants = {team1}
    None = None
    Other = Other
    Budgets <- MCBudgets
SYMMETRY Symmetry
INVARIANTS SettledIsRight ReadyWasServed
CHECK_DEADLOCK FALSE
