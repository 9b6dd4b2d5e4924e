SPECIFICATION Spec
CONSTANTS
    Certs = {c1, c2, c3}
    Instances = {i1}
    Callers = {a1, a2}
    Importers = {a1, a2}
    None = None
    Workers = 2
    MaxCalls = 2
    MaxFaults = 1
    Num = 2
    Den = 3
    Long = 7
    MaxTTL = 40
SYMMETRY Symmetry
CHECK_DEADLOCK FALSE
INVARIANTS
    TypeOK
    RevokedIsListed
    SupersededBySuccessor
    RenewalKey
    OncePerInstance
