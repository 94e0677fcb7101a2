\* One dApp, bundles of one operation.
SPECIFICATION Spec
CONSTANTS
    DApps = {d1}
    Tokens = {usd}
    Paymasters = {paymaster}
    This = paymaster
    Amounts = {11, 22}
    MaxHeld = 33
    FeePercent = 12
    FeeDenominator = 100
    Scale = 20
    Feeds = {feed}
    NoFeed = NoFeed
    Prices = {0, 2, 40}
    MaxCost = 2
    PostOpGas = 1
    MaxOps = 1
    MaxEther = 3
    NoSnapshot = NoSnapshot
INVARIANT
    ValidatedIsCovered
