\* Every kind of failure; the lock may run out under a loop that holds it.
SPECIFICATION Spec
CONSTANTS
    Ids = {1, 2}
    Hashes = {h1, h2}
    Keys = {k1, k2}
    KeyOf <- MCKeyOf
    NoHash = NoHash
    Faults = {"crash", "db", "redis", "rpc", "lostAck", "revert"}
    MaxFaults = 1
    Procs = {p1, p2}
    Loops = {l1, l2}
    Owner <- MCOwner
    Bundles = {b1, b2}
    NoLoop = NoLoop
    NoBundle = NoBundle
    MaxOpsPerBundle = 2
    Gas <- MCGas
    MaxSafeGas = 2
    TtlOutlivesBundle = FALSE
    p1 = p1
    p2 = p2
    l1 = l1
    l2 = l2
    h1 = h1
    h2 = h2
    k1 = k1
    k2 = k2
CHECK_DEADLOCK FALSE
SYMMETRY BundleSymmetry
INVARIANTS
    TypeOK
    ConfirmedIsExecuted
    NonceConfirmedOnce
PROPERTY
    BundleNeverGoesBack
