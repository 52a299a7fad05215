\* The parts of the web application with two accounts and two coins.
SPECIFICATION DappSpec
CONSTANTS
    alice = alice
    bob = bob
    dai = dai
    usdc = usdc
    None = None
    Unset = Unset
    NotLoaded = NotLoaded
    NoSplit = NoSplit
    Coins = {dai, usdc}
    MaxAmount = 1
    MaxMints = 2
    MaxEdits <- EditsOf
    Accounts = {alice, bob}
    MaxChanges = 3
    MaxVersion = 1
    MaxFaults = 1
    MaxLoads = 1
    MaxBalance = 2
    MaxCalls = 2
    MaxMounts = 2
    MaxRedeems = 2
    MaxSteps = 3
    MaxOusd = 4
    mintAnimationLimit = 1
INVARIANTS
    SignerIsConnected
    MintFormTrue
    RedeemFormTrue
PROPERTIES
    StoreFollowsAccount
    NothingComesBack
    FormsEnd
CHECK_DEADLOCK FALSE
