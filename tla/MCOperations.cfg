\* Three claimants and two files; the constants of the other parts are in the
\* modules.
SPECIFICATION OperationsSpec
CONSTANTS
    alice = alice
    bob = bob
    carol = carol
    xavier = xavier
    NoFile = NoFile
    NoArgument = NoArgument
    Accounts = {alice, bob, carol}
    MaxClaim = 2
    Csvs <- ClaimFiles
    BatchSize = 2
    MaxRuns = 2
    MaxFunds = 4
    MaxPeriods = 1
    FullScale = 4
    Stakers = {alice, bob}
    Stakes <- Staked
    Tariffs <- RatesInTurn
    Lists <- Drops
    DropDuration = 1
    DropRate = 2
    MAX_STAKES = 3
    MaxStaked = 3
    MaxTime = 3
    MaxSupplied = 2
    Users = {alice, bob}
    tester = bob
    Unit = 6
    Tokens <- TokensOf
    Campaigns <- TwoCampaigns
    MaxBlock = 3
    MaxChanges = 2
    MaxCampaigns = 2
    Funding = 8
    Scripts = {1, 2}
    Menu <- Asked
    Deployments <- TwoNetworks
    MaxVersion = 1
    Variables = {"a", "b"}
    MaxVariables = 2
    MaxDeployments = 3
    Contracts = {"Vault", "OUSD", "MockDAI"}
    Skipped = {"MockDAI"}
    Arguments <- ByName
    MaxStarts = 2
    MaxFaults = 1
INVARIANTS
    ClaimsCovered
    UndisturbedSucceeds
    StakingTrue
    LiquidityTrue
    ProposalsTrue
    OpenIsConfigured
    VerificationTrue
    TranslationsTrue
PROPERTIES
    UploadIsTrue
    NothingUndone
    ToolsEnd
CHECK_DEADLOCK FALSE
