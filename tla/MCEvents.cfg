SPECIFICATION MCSpec
CONSTANTS
    s1 = s1
    s2 = s2
    s3 = s3
    s4 = s4
    s5 = s5
    u1 = u1
    u2 = u2
    Subs = {s1, s2}
    Users = {u1, u2}
    UserOf <- MCUserOf
    Resuming = {s1}
    None = None
    PerUser = 2
    PerTenant = 3
    Buffer = 1
    MaxLen = 1
    ReadCount = 2
    MaxEvents = 2
    MaxLoad = 2
    Flushers = {f1}
    Closers = {c1, c2}
    f1 = f1
    c1 = c1
    c2 = c2
    Queue = 2
    Batch = 2
    MaxRecords = 4
    Nobody = Nobody
    Endpoints = {1, 2, 3}
    NameOf <- MCNameOf
    Types = {"issued", "other"}
    Pubs = {1}
    Tries = 3
    Budget = 3
    Recipients = {"a", "A", "b"}
    Payloads <- MCPayloads
    Fold <- MCFold
    MaxRecipients = 3
    MaxRetry = 1
    MaxHooks = 3
    Kinds = {"net", "conn", "self", "agent"}
    Life = 6
    RenewBefore = 0
    Hour = 2
    MaxOut = 2
    MaxAttempts = 2
    MaxRotations = 1
    Tokened = FALSE
    AutoApprove = TRUE
    Granted = TRUE
    NoSVID = NoSVID
CHECK_DEADLOCK FALSE
INVARIANTS
    HubTypes
    HubCounts
    QueuedOnce
    LiveComplete
    ClosedIsOver
    FlushSettles
    DeliveryTrue
    DigestTrue
    ServedAlive
    VersionNamesRoots
PROPERTY EventRead
