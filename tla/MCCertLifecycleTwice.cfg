SPECIFICATION Spec
CONSTANTS
    Certs = {c1, c2, c3}
    Instances = {i1, i2}
    Callers = {a1}
    Importers = {}
    None = None
    Workers = 2
    MaxCalls = 1
    MaxFaults = 0
    Num = 2
    Den = 3
    Long = 7
    MaxTTL = 40
CHECK_DEADLOCK FALSE
INVARIANTS
    RenewedAtMostOnce
