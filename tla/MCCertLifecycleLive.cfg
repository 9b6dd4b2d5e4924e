SPECIFICATION FairSpec
CONSTANTS
    Certs = {c1, c2, c3}
    Instances = {i1}
    Callers = {a1}
    Importers = {a1}
    None = None
    Workers = 2
    MaxCalls = 1
    MaxFaults = 2
    Num = 2
    Den = 3
    Long = 7
    MaxTTL = 40
CHECK_DEADLOCK FALSE
PROPERTIES
    EligibleIsRenewed
