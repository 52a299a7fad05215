------------------------------- MODULE MCDapp -------------------------------
(* Two accounts, two coins and small bounds; the values are in the cfg.        *)
EXTENDS Dapp

CONSTANTS alice, bob, dai, usdc

\* Fewer edits of the mint form where the wallet is on a phone.
EditsOf == [mobile \in BOOLEAN |-> IF mobile THEN 1 ELSE 2]
=============================================================================
