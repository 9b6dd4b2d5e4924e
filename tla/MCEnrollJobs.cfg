SPECIFICATION Spec
CONSTANTS
    Requests = {r1}
    Jobs = {j1, j2}
    Certs = {c1, c2}
    Handlers = {h1, h2}
    Workers = {w1, w2}
    None = None
    MaxAttempts = 1
    Batch = 2
    Lease = 1
    Skew = 0
    MaxTime = 1
    MaxRetries = 2
    MaxFaults = 1
SYMMETRY Symmetry
CHECK_DEADLOCK FALSE
INVARIANTS
    TypeOK
    AttemptsBounded
    LeaseIffProcessing
    ResultIsOwnCertificate
    IssuedHasCertificate
    OneCertificatePerQueueing
