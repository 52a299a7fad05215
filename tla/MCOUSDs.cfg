\* One account that may gain and lose code, one that never has any; no allowances.
SPECIFICATION SpecOfOne
CONSTANTS
    c1 = c1
    c2 = c2
    e1 = e1
    Accounts = {c1, e1}
    Deployable = {c1}
    FullScale = 2
    MaxSupply = 3
    MaxWord = 4
    Amounts = {1}
    Approvals = {0}
    Supplies = {3}
INVARIANTS
    TypeOK
    RatesMatchOptions
    RebasingCreditsBacked
PROPERTIES
    TransferWithinValue
    ChangingSidesPaysNothing
    ImplementsPolicy
    OthersBalancesKept
    AllowancesBoundSpenders
