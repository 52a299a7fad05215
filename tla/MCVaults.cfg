\* The constants of the instance with two strategies and one asset worth 1.
SPECIFICATION SpecOfOne
CONSTANTS
    u1 = u1
    u2 = u2
    cUSD = cUSD
    cEUR = cEUR
    s1 = s1
    s2 = s2
    s3 = s3
    Nobody = Nobody
    ThisVault = ThisVault
    Moving = {1, 3}
    FullScale = 4
    MaxSupply = 12
    MaxWord = 40
    Accounts = {u1}
    Deployable = {}
    Amounts = {}
    Approvals = {}
    Supplies = {}
    Assets = {cUSD}
    Strategies = {s1, s2}
    Choosers = {}
    Deposits = {4}
    MaxDeposits = 2
    Redemptions = {}
    Gains = {2}
    Trustees = {}
    RedeemFees = {}
    TrusteeFees = {}
    Buffers = {3}
    SupplyDiffs = {}
    Thresholds = {0}
    MaxHeld = 9
    Supports <- AllAssets
    Unit <- Eighteen
    Prices <- PriceSets
INVARIANTS
    StrategyListsAgree
    TypesKept
    OutputsAreWorthIt
PROPERTIES
    NobodyDilutes
    NothingIsLeft
    BufferIsKept
    FeeIsPaid
