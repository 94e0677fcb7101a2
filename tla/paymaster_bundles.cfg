\* Two dApps with budgets in one token, bundles of up to two operations.
SPECIFICATION Spec
CONSTANTS
    DApps = {d1, d2}
    Tokens = {usd}
    Paymasters = {paymaster}
    This = paymaster
    Amounts = {22}
    MaxHeld = 44
    FeePercent = 12
    FeeDenominator = 100
    Scale = 20
    Feeds = {feed, other}
    NoFeed = NoFeed
    Prices = {0, 2, 40}
    MaxCost = 2
    PostOpGas = 1
    MaxOps = 2
    MaxEther = 3
    NoSnapshot = NoSnapshot
SYMMETRY BudgetSymmetry
INVARIANTS
    TypeOK
    TreasuryIsSolvent
    NeverOvercharged
    DepositIsReplenished
