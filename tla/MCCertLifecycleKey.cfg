SPECIFICATION Spec
CONSTANTS
    Certs = {c1}
    Instances = {i1}
    Callers = {a1, a2}
    Importers = {}
    None = None
    Workers = 2
    MaxCalls = 3
    MaxFaults = 0
    Num = 2
    Den = 3
    Long = 7
    MaxTTL = 40
CHECK_DEADLOCK FALSE
PROPERTIES
    ClearedKeyStays
