--------------------------------- MODULE Web ---------------------------------
(***************************************************************************)
(* Two parts of the web application beside each other: the history of       *)
(* transactions, whose state is the module's own, and the connection of a   *)
(* wallet, an instance.  They share nothing but the accounts.               *)
(***************************************************************************)
EXTENDS Transactions

\* The connection.
CONSTANTS Vendors, None, MaxClicks, MaxFaults, MaxMoves, MaxReloads

VARIABLES web3, activations, eager, eagerConnect, address, connectorIcon, widget,
          ledgerPath, wallet, funded, ownBrowser, wanted, clicks, faults, moves, reloads

C == INSTANCE Connection WITH MaxSwitches <- MaxMoves, switches <- moves

ASSUME VendorsAssumption == "MetaMask" \in Vendors

connVars == <<web3, activations, eager, eagerConnect, address, connectorIcon, widget,
              ledgerPath, wallet, funded, ownBrowser, wanted, clicks, faults, moves,
              reloads>>

\* The account of the application is the one connected, nobody is connected
\* against their wish, and the Ledger's account is the right one.
ConnectionTrue == C!TypeOK /\ C!SignedIn /\ C!StaysDisconnected /\ C!LedgerIsFunded
=============================================================================
