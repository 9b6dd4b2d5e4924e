SPECIFICATION FairSpec
CONSTANTS
    Requests = {r1, r2}
    Jobs = {j1, j2}
    Certs = {c1}
    Handlers = {h1}
    Workers = {w1, w2}
    None = None
    MaxAttempts = 1
    Batch = 1
    Lease = 1
    Skew = 1
    MaxTime = 2
    MaxRetries = 1
    MaxFaults = 0
CHECK_DEADLOCK FALSE
PROPERTIES
    JobSettles
