\* Strategies without money.
SPECIFICATION Spec
CONSTANTS
    u1 = u1
    u2 = u2
    cUSD = cUSD
    cEUR = cEUR
    s1 = s1
    s2 = s2
    s3 = s3
    Nobody = Nobody
    ThisVault = ThisVault
    Moving = {4}
    FullScale = 4
    MaxSupply = 8
    MaxWord = 60
    Accounts = {u1}
    Deployable = {}
    Amounts = {}
    Approvals = {}
    Supplies = {}
    Assets = {cUSD}
    Strategies = {s1}
    Choosers = {}
    Deposits = {}
    MaxDeposits = 1
    Redemptions = {}
    Gains = {}
    Trustees = {}
    RedeemFees = {}
    TrusteeFees = {}
    Buffers = {}
    SupplyDiffs = {}
    Thresholds = {0}
    MaxHeld = 6
    Supports <- AllAssets
    Unit <- Eighteen
    Prices <- PriceSets
INVARIANTS
    DefaultStrategiesApproved
