\* Two overlapping calls of any kind; failures, expiry and the bundler's removal of keys.
SPECIFICATION RpcSpec
CONSTANTS
    Ids = {1, 2, 3}
    Hashes = {h1, h2, h3}
    Keys = {k1, k2}
    KeyOf <- MCKeyOf
    NoHash = NoHash
    Faults = {"crash", "db", "redis", "expiry"}
    MaxFaults = 1
    Clients = {c1, c2}
    MaxMempoolSize = 1
    ZeroNonce <- MCZeroNonce
    Priority <- MCPriority
    MaxFee <- MCMaxFee
    h1 = h1
    h2 = h2
    h3 = h3
    k1 = k1
    k2 = k2
CHECK_DEADLOCK FALSE
SYMMETRY ClientSymmetry
INVARIANTS
    RpcTypeOK
    RedisIsBacked
    OvershootIsBounded
    DuplicatesAreBounded
    SeenStaysFound
    SeenIsNeverRefused
