------------------------------- MODULE MCVault -------------------------------
(* A small instance of the vault: a stablecoin worth 1 and one that moves. *)
EXTENDS Vault, TLC

CONSTANTS u1, u2, cUSD, cEUR, s1, s2, s3, Moving

PriceSets == [a \in Assets |-> IF a = cUSD THEN {FullScale} ELSE Moving]

AllAssets == [s \in Strategies |-> Assets]

Eighteen == [a \in Assets |-> FullScale]
=============================================================================
