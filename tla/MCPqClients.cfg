\* PqClients: lost answers, retries, restarts, a lagging node.
SPECIFICATION Spec
CONSTANTS
    s1 = s1
    o1 = o1
    o2 = o2
    kA = kA
    d1 = d1
    d2 = d2
    c1 = c1
    f1 = f1
    p1 = p1
    Nobody = Nobody
    Address <- MCAddress
    ObjId <- MCObjId
    PubKey <- MCPubKey
    PkLen <- MCPkLen
    Digest <- MCDigest
    Signable <- MCSignable
    U64Max = 2
    MaxCmds = 0
    KeyPolicy = "any"
    Call <- MCCall
    Expects <- MCExpects
    Closed <- MCClosed
    Client <- MCClient
    Sponsor = s1
    Intent <- MCIntent
    Splices <- MCSplices
    Allowed <- MCAllowed
    MaxAttempts = 2
    Form <- MCForm
    Wallet = s1
    PageKey = kA
    DemoDigest = d1
    Consumed = "consume"
    Process <- MCProcess
    Account = s1
    SeedKey <- MCSeedKey
    MaxClicks = 1
INVARIANT SuccessIsTrue NonceReadBack UsedOncePerIdentity
PROPERTY FailureIsFinal
CHECK_DEADLOCK FALSE
