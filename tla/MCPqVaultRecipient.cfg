\* PqVault: the recipient of a withdrawal.
SPECIFICATION VaultSpec
CONSTANTS
    a1 = a1
    a2 = a2
    o1 = o1
    o2 = o2
    kA = kA
    kB = kB
    v1 = v1
    Nobody = Nobody
    Address <- MCAddress
    ObjId <- MCObjId
    PubKey <- MCPubKey
    PkLen <- MCPkLen
    Digest <- MCDigest
    Signable <- MCSignable
    VaultId <- MCVaultId
    Funds <- MCFunds
    U64Max <- MCU64Max
    MaxCmds = 3
    KeyPolicy = "fresh"
SYMMETRY Symmetry
INVARIANT PaidToSignedRecipient
