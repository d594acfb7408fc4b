\* Signatures at reduced parameters.
SPECIFICATION Spec
CONSTANTS
    N = 2
    LG_W = 2
    LEN_2 = 3
    H_PRIME = 2
    D = 2
    A = 2
    K = 3
    A128 = 3
    MAX_CTX = 8
    Sha <- MCSha
    Seed <- MCSeed
    Messages <- MCMessages
    Redirected <- MCRedirected
INVARIANT RoundTrip Rejects Agree NoChainDominates
CHECK_DEADLOCK FALSE
