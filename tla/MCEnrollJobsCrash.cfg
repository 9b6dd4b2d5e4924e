SPECIFICATION FairSpec
CONSTANTS
    Requests = {r1, r2}
    Jobs = {j1}
    Certs = {c1}
    Handlers = {h1}
    Workers = {w1, w2}
    None = None
    MaxAttempts = 2
    Batch = 2
    Lease = 1
    Skew = 1
    MaxTime = 3
    MaxRetries = 1
    MaxFaults = 1
CHECK_DEADLOCK FALSE
PROPERTIES
    ExpiredLeaseReclaimed
