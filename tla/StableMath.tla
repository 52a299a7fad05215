----------------------------- MODULE StableMath -----------------------------
(***************************************************************************)
(* Fixed-point arithmetic of contracts/utils/StableMath.sol.  A precise     *)
(* unit is a natural number scaled by FullScale (1e18 in the contracts).    *)
(* Every quotient truncates, as EVM division does.                          *)
(***************************************************************************)
EXTENDS Integers

CONSTANT FullScale

ASSUME FullScaleAssumption == FullScale \in Nat \ {0}

MulTruncate(x, y) == (x * y) \div FullScale

DivPrecisely(x, y) == (x * FullScale) \div y
=============================================================================
