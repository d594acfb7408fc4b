\* PqAccounts: transactions, envelopes, attestations and two lists of three holders.
SPECIFICATION Spec
CONSTANTS
    Server = {ks}
    NativeKey <- MCNativeKey
    WalletKey <- MCWalletKey
    CoKey <- MCCoKey
    PageKey <- MCPageKey
    Sponsored = {"create"}
    Label <- MCLabel
    Bound <- MCBound
    MaxEffort = 5
    MaxLists = 2
INVARIANT VerifiedIffVouched LogTellsState ServersFollow CoSigned PreflightAgrees
CHECK_DEADLOCK FALSE
