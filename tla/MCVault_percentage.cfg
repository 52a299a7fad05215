\* A trustee that never is a contract.
SPECIFICATION Spec
CONSTANTS
    u1 = u1
    u2 = u2
    cUSD = cUSD
    cEUR = cEUR
    s1 = s1
    s2 = s2
    s3 = s3
    Nobody = Nobody
    ThisVault = ThisVault
    Moving = {1, 3}
    FullScale = 12
    MaxSupply = 40
    MaxWord = 600
    Accounts = {u1, u2}
    Deployable = {}
    Amounts = {}
    Approvals = {}
    Supplies = {}
    Assets = {cUSD}
    Strategies = {}
    Choosers = {}
    Deposits = {12}
    MaxDeposits = 1
    Redemptions = {}
    Gains = {24}
    Trustees = {u2}
    RedeemFees = {}
    TrusteeFees = {5000}
    Buffers = {}
    SupplyDiffs = {1}
    Thresholds = {0}
    MaxHeld = 36
    Supports <- AllAssets
    Unit <- Eighteen
    Prices <- PriceSets
PROPERTIES
    TrusteeReceivesItsPercentage
