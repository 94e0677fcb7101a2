\* One process: a bundle loop beside the calls of a client; failures of both halves.
SPECIFICATION Spec
CONSTANTS
    Ids = {1, 2}
    Hashes = {h1, h2}
    Keys = {k1}
    KeyOf <- MCKeyOf
    NoHash = NoHash
    Faults = {"crash", "db", "redis", "lostAck"}
    MaxFaults = 1
    Clients = {c1}
    MaxMempoolSize = 1
    ZeroNonce = {}
    Priority <- MCPriority
    MaxFee <- MCMaxFee
    Procs = {p1}
    Loops = {l1}
    Owner <- MCOwner
    Bundles = {b1, b2}
    NoLoop = NoLoop
    NoBundle = NoBundle
    MaxOpsPerBundle = 1
    Gas <- MCGas
    MaxSafeGas = 2
    TtlOutlivesBundle = FALSE
    ServedBy <- MCServedBy
    CallFaults = {"crash", "db", "expiry"}
    MaxCallFaults = 1
    p1 = p1
    l1 = l1
    c1 = c1
    h1 = h1
    h2 = h2
    k1 = k1
SYMMETRY BundleSymmetry
CHECK_DEADLOCK FALSE
INVARIANTS
    TypeOK
PROPERTIES
    ImplementsJsonRpc
    ImplementsBundler
