-------------------------------- MODULE Tally --------------------------------
(***************************************************************************)
(* The total of a function from a finite set to the natural numbers,        *)
(* without recursion: f[x] units are put down for every x and the units     *)
(* are counted.  Stated this way the total obeys the library's theorems on  *)
(* cardinalities (see ArithmeticProofs), which a fold does not.             *)
(***************************************************************************)
EXTENDS Integers, FiniteSets

UnitsOf(f, x) == {x} \X (1 .. f[x])

Units(f) == UNION {UnitsOf(f, x) : x \in DOMAIN f}

Total(f) == Cardinality(Units(f))
=============================================================================
