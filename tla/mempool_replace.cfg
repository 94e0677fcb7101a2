\* One request at a time, nothing fails and nothing expires.
SPECIFICATION RpcSpec
CONSTANTS
    Ids = {1, 2, 3}
    Hashes = {h1, h2, h3}
    Keys = {k1, k2}
    KeyOf <- MCKeyOf
    NoHash = NoHash
    Faults = {}
    MaxFaults = 0
    Clients = {c1}
    MaxMempoolSize = 3
    ZeroNonce <- MCZeroNonce
    Priority <- MCPriority
    MaxFee <- MCMaxFee
    h1 = h1
    h2 = h2
    h3 = h3
    k1 = k1
    k2 = k2
INVARIANT
    NoPendingRivals
