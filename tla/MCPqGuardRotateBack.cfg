\* PqGuard with holders that keep a key to one identity and may rotate back to it.
SPECIFICATION GuardSpec
CONSTANTS
    a1 = a1
    a2 = a2
    o1 = o1
    o2 = o2
    kA = kA
    kB = kB
    kC = kC
    d1 = d1
    d2 = d2
    Nobody = Nobody
    Address <- MCAddress
    ObjId <- MCObjId
    PubKey <- MCPubKey
    PkLen <- MCPkLen
    Digest <- MCDigest
    Signable <- MCSignable
    U64Max = 2
    MaxCmds = 3
    KeyPolicy = "onePerIdentity"
INVARIANT SingleUse
