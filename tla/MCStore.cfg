CONSTANTS
    Tenants <- MCTenants
    Callers <- MCCallers
    Domains = {"d"}
    Names <- MCNames
    Ids = {1, 2, 3}
    Null = Null
    Seeds <- MCSeeds
    Focuses <- MCFocuses
    MaxCalls = 2
    MaxTime = 2
SPECIFICATION Spec
VIEW Explored
INVARIANTS ReadsAgree PagesComplete
PROPERTY RefinesSql
CHECK_DEADLOCK FALSE
