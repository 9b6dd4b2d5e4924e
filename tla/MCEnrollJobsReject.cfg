SPECIFICATION Spec
CONSTANTS
    Requests = {r1}
    Jobs = {j1}
    Certs = {c1, c2}
    Handlers = {h1, h2}
    Workers = {w1, w2}
    None = None
    MaxAttempts = 2
    Batch = 2
    Lease = 1
    Skew = 1
    MaxTime = 2
    MaxRetries = 1
    MaxFaults = 0
CHECK_DEADLOCK FALSE
PROPERTIES
    RejectsOnlyPending
