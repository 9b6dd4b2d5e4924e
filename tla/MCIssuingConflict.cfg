SPECIFICATION MCSpec
CONSTANTS
    None = None
    Nil = Nil
    adm = adm
    usr = usr
    Admins <- MCAdmins
    Users <- MCUsers
    RolesOf <- MCRolesOf
    Domains <- MCDomains
    IssuerInputs <- MCIssuerInputs
    GrantInputs <- MCGrantInputs
    SecretInputs <- MCSecretInputs
    Backups <- MCBackups
    Seeds <- MCSeeds
    MaxCalls = 3
    MaxTime = 2
    CRLPage = 2
    BadSerials <- MCBadSerials
    o1 = o1
    o2 = o2
    f1 = f1
    Orders = {o1, o2}
    Foreign = {f1}
    ProviderOf <- MCProviderOf
    Inputs <- MCInputs
    Leaves <- MCLeaves
    Lower <- MCLower
    Zones <- MCZones
    MaxDomains = 2
    MaxChain = 1
    MaxFaults = 1
    MaxStarted = 2
CHECK_DEADLOCK FALSE
INVARIANTS LoserGetsWinner
