\* Two accounts with the same nonce, a transaction, its replacement and a request
\* that fails; the account changes or the page reloads three times.
SPECIFICATION WebSpec
CONSTANTS
    None = None
    alice = alice
    bob = bob
    mint1 = mint1
    mint2 = mint2
    redeem1 = redeem1
    error1 = error1
    NoAccount = NoAccount
    Accounts = {alice, bob}
    Hashes = {mint1, mint2, redeem1}
    Errors = {error1}
    Sender <- MCSender
    Nonce <- MCNonce
    Type <- MCType
    MaxSwitches = 3
    Vendors = {"MetaMask", "Ledger"}
    MaxClicks = 2
    MaxFaults = 1
    MaxMoves = 1
    MaxReloads = 1
INVARIANTS
    HistoryTrue
    ConnectionTrue
    PageTrue
PROPERTIES
    SpinnersStop
    ButtonsComeBack
CHECK_DEADLOCK FALSE
