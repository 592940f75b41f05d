SPECIFICATION Spec
CONSTANTS
    p1 = p1
    p2 = p2
    ns1 = ns1
    None = None
    Other = Other
    Policies = {p1, p2}
    Tenants = {team1}
    NamespaceOf <- OneNamespace
    Limits = {1}
    Scenarios <- MCScenarios
INVARIANTS SettledIsRight CeilingIsGuarded
CHECK_DEADLOCK FALSE
