\* The history kept for an account, against what the listener's comment promises.
SPECIFICATION FairSpec
CONSTANTS
    alice = alice
    bob = bob
    mint1 = mint1
    mint2 = mint2
    redeem1 = redeem1
    error1 = error1
    NoAccount = NoAccount
    Accounts = {alice, bob}
    Hashes = {mint1, mint2, redeem1}
    Errors = {error1}
    Sender <- MCSender
    Nonce <- MCNonce
    Type <- MCType
    MaxSwitches = 4
PROPERTIES
    HistoryKept
CHECK_DEADLOCK FALSE
