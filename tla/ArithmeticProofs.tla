-------------------------- MODULE ArithmeticProofs --------------------------
(***************************************************************************)
(* The arithmetic the proofs of the contracts rest on: how the total of a   *)
(* function changes when the function changes at one or two points, with    *)
(* the values bounded, as storage words are, so that the units lie in a     *)
(* finite product; that the fold of a function is its total, whatever its   *)
(* points are called and however they are parted; induction and powers of   *)
(* two; and what rounding down does to fixed-point products and quotients.  *)
(***************************************************************************)
EXTENDS Tally, StableMath, Functions, FiniteSetTheorems, TLAPS

\* A total of words is a natural number.
LEMMA TotalType ==
    ASSUME NEW S, IsFiniteSet(S), NEW B \in Nat, NEW f \in [S -> 0 .. B]
    PROVE  IsFiniteSet(Units(f)) /\ Total(f) \in Nat
<1>1. IsFiniteSet(1 .. B)
  BY FS_Interval
<1>2. IsFiniteSet(S \X (1 .. B))
  BY <1>1, FS_Product
<1>3. Units(f) \subseteq S \X (1 .. B)
  BY DEF Units, UnitsOf
<1>4. IsFiniteSet(Units(f))
  BY <1>2, <1>3, FS_Subset
<1> QED
  BY <1>4, FS_CardinalityType DEF Total

\* The units of one point are as many as its value.
LEMMA UnitsOfPoint ==
    ASSUME NEW S, NEW B \in Nat, NEW f \in [S -> 0 .. B], NEW x \in S
    PROVE  IsFiniteSet(UnitsOf(f, x)) /\ Cardinality(UnitsOf(f, x)) = f[x]
<1>1. f[x] \in Nat
  OBVIOUS
<1>2. IsFiniteSet({x}) /\ Cardinality({x}) = 1
  BY FS_Singleton
<1>3. IsFiniteSet(1 .. f[x]) /\ Cardinality(1 .. f[x]) = f[x]
  BY <1>1, FS_Interval
<1>4. /\ IsFiniteSet({x} \X (1 .. f[x]))
      /\ Cardinality({x} \X (1 .. f[x])) = Cardinality({x}) * Cardinality(1 .. f[x])
  BY <1>2, <1>3, FS_Product
<1> QED
  BY <1>1, <1>2, <1>3, <1>4 DEF UnitsOf

UnitsElsewhere(f, x) == {u \in Units(f) : u[1] # x}

\* The total is the value at a point plus what the other points hold.
LEMMA TotalSplit ==
    ASSUME NEW S, IsFiniteSet(S), NEW B \in Nat, NEW f \in [S -> 0 .. B], NEW x \in S
    PROVE  /\ Cardinality(UnitsElsewhere(f, x)) \in Nat
           /\ Total(f) = Cardinality(UnitsElsewhere(f, x)) + f[x]
<1> DEFINE rest == UnitsElsewhere(f, x)
<1>1. IsFiniteSet(Units(f))
  BY TotalType
<1>2. IsFiniteSet(rest) /\ Cardinality(rest) \in Nat
  BY <1>1, FS_Subset, FS_CardinalityType DEF UnitsElsewhere
<1>3. Units(f) = rest \union UnitsOf(f, x)
  BY DEF Units, UnitsOf, UnitsElsewhere
<1>4. rest \cap UnitsOf(f, x) = {}
  BY DEF UnitsOf, UnitsElsewhere
<1>5. IsFiniteSet(UnitsOf(f, x)) /\ Cardinality(UnitsOf(f, x)) = f[x]
  BY UnitsOfPoint
<1>6. Cardinality(rest \union UnitsOf(f, x))
        = Cardinality(rest) + Cardinality(UnitsOf(f, x)) - Cardinality(rest \cap UnitsOf(f, x))
  BY <1>2, <1>5, FS_Union
<1>7. Cardinality(rest \cap UnitsOf(f, x)) = 0
  BY <1>4, FS_EmptySet
<1>8. f[x] \in Nat
  OBVIOUS
<1> QED
  BY <1>2, <1>3, <1>5, <1>6, <1>7, <1>8 DEF Total

\* No single value exceeds the total.
LEMMA TotalBoundsPoint ==
    ASSUME NEW S, IsFiniteSet(S), NEW B \in Nat, NEW f \in [S -> 0 .. B], NEW x \in S
    PROVE  f[x] <= Total(f)
<1>1. f[x] \in Nat
  OBVIOUS
<1> QED
  BY <1>1, TotalSplit

\* A change at one point changes the total by as much.
LEMMA TotalChange ==
    ASSUME NEW S, IsFiniteSet(S), NEW B \in Nat,
           NEW f \in [S -> 0 .. B], NEW g \in [S -> 0 .. B], NEW x \in S,
           \A y \in S \ {x} : g[y] = f[y]
    PROVE  Total(g) = Total(f) - f[x] + g[x]
<1> DEFINE rest(h) == UnitsElsewhere(h, x)
<1>1. rest(f) = rest(g)
  BY DEF Units, UnitsOf, UnitsElsewhere
<1>2. Cardinality(rest(f)) \in Nat /\ Total(f) = Cardinality(rest(f)) + f[x]
  BY TotalSplit
<1>3. Cardinality(rest(g)) \in Nat /\ Total(g) = Cardinality(rest(g)) + g[x]
  BY TotalSplit
<1>4. f[x] \in Nat /\ g[x] \in Nat
  OBVIOUS
<1> QED
  BY <1>1, <1>2, <1>3, <1>4

\* A change at two points changes the total by the two changes.
LEMMA TotalChangeTwo ==
    ASSUME NEW S, IsFiniteSet(S), NEW B \in Nat,
           NEW f \in [S -> 0 .. B], NEW g \in [S -> 0 .. B],
           NEW x \in S, NEW y \in S, x # y,
           \A z \in S \ {x, y} : g[z] = f[z]
    PROVE  Total(g) = Total(f) - f[x] - f[y] + g[x] + g[y]
<1> DEFINE h == [f EXCEPT ![x] = g[x]]
<1>1. h \in [S -> 0 .. B]
  OBVIOUS
<1>2. h[x] = g[x] /\ h[y] = f[y] /\ \A z \in S \ {x} : h[z] = f[z]
  OBVIOUS
<1>3. \A z \in S \ {y} : g[z] = h[z]
  OBVIOUS
<1> HIDE DEF h
<1>4. Total(h) = Total(f) - f[x] + h[x]
  BY <1>1, <1>2, TotalChange
<1>5. Total(g) = Total(h) - h[y] + g[y]
  BY <1>1, <1>3, TotalChange
<1>6. f[x] \in Nat /\ f[y] \in Nat /\ g[x] \in Nat /\ g[y] \in Nat
  OBVIOUS
<1>7. Total(f) \in Nat
  BY TotalType
<1> QED
  BY <1>2, <1>4, <1>5, <1>6, <1>7

\* The total of zeros is zero.
LEMMA TotalZero ==
    ASSUME NEW S, NEW f \in [S -> {0}]
    PROVE  Total(f) = 0
<1>1. Units(f) = {}
  BY DEF Units, UnitsOf
<1> QED
  BY <1>1, FS_EmptySet DEF Total

UnitsOutside(f, T) == {u \in Units(f) : u[1] \notin T}

\* The total is that of the values on a part plus that of the others.
LEMMA TotalOfPart ==
    ASSUME NEW S, IsFiniteSet(S), NEW B \in Nat, NEW f \in [S -> 0 .. B], NEW T \in SUBSET S
    PROVE  /\ Cardinality(UnitsOutside(f, T)) \in Nat
           /\ Total(Restrict(f, T)) \in Nat
           /\ Total(f) = Cardinality(UnitsOutside(f, T)) + Total(Restrict(f, T))
<1> DEFINE out == UnitsOutside(f, T)
           in == Units(Restrict(f, T))
<1>1. IsFiniteSet(Units(f))
  BY TotalType
<1>2. IsFiniteSet(out) /\ Cardinality(out) \in Nat
  BY <1>1, FS_Subset, FS_CardinalityType DEF UnitsOutside
<1>3. Units(f) = out \union in
  BY DEF Units, UnitsOf, UnitsOutside, Restrict
<1>4. out \cap in = {}
  BY DEF Units, UnitsOf, UnitsOutside, Restrict
<1>5. IsFiniteSet(in) /\ Cardinality(in) \in Nat
  BY <1>1, <1>3, FS_Subset, FS_CardinalityType
<1>6. Cardinality(out \union in)
        = Cardinality(out) + Cardinality(in) - Cardinality(out \cap in)
  BY <1>2, <1>5, FS_Union
<1>7. Cardinality(out \cap in) = 0
  BY <1>4, FS_EmptySet
<1> QED
  BY <1>2, <1>3, <1>5, <1>6, <1>7 DEF Total

\* The values of h in place of those of f on the domain of h.
Replaced(f, h) == [x \in DOMAIN f |-> IF x \in DOMAIN h THEN h[x] ELSE f[x]]

\* When the values on a part are replaced, the total changes by the difference of
\* the totals of that part.
LEMMA TotalReplaced ==
    ASSUME NEW S, IsFiniteSet(S), NEW B \in Nat, NEW f \in [S -> 0 .. B],
           NEW T \in SUBSET S, NEW h \in [T -> 0 .. B]
    PROVE  /\ Replaced(f, h) \in [S -> 0 .. B]
           /\ Total(Replaced(f, h)) = Total(f) + Total(h) - Total(Restrict(f, T))
<1> DEFINE g == Replaced(f, h)
<1>1. g \in [S -> 0 .. B]
  BY DEF Replaced
<1>2. Restrict(g, T) = h
  BY DEF Restrict, Replaced
<1>3. UnitsOutside(g, T) = UnitsOutside(f, T)
  BY DEF UnitsOutside, Units, UnitsOf, Replaced
<1> HIDE DEF g
<1>4. Cardinality(UnitsOutside(g, T)) \in Nat /\ Total(Restrict(g, T)) \in Nat
      /\ Total(g) = Cardinality(UnitsOutside(g, T)) + Total(Restrict(g, T))
  BY <1>1, TotalOfPart
<1>5. Cardinality(UnitsOutside(f, T)) \in Nat /\ Total(Restrict(f, T)) \in Nat
      /\ Total(f) = Cardinality(UnitsOutside(f, T)) + Total(Restrict(f, T))
  BY TotalOfPart
<1>6. Total(g) = Total(f) + Total(h) - Total(Restrict(f, T))
  BY <1>2, <1>3, <1>4, <1>5
<1> QED
  BY <1>1, <1>6 DEF g

\* Where g is nowhere below f and the totals agree, the functions agree.
LEMMA EqualTotals ==
    ASSUME NEW S, IsFiniteSet(S), NEW B \in Nat,
           NEW f \in [S -> 0 .. B], NEW g \in [S -> 0 .. B],
           \A x \in S : f[x] <= g[x],
           Total(f) = Total(g)
    PROVE  f = g
<1>1. Units(f) \subseteq Units(g)
  BY DEF Units, UnitsOf
<1>2. IsFiniteSet(Units(g))
  BY TotalType
<1>3. Units(f) = Units(g)
  BY <1>1, <1>2, FS_Subset DEF Total
<1>4. ASSUME NEW x \in S PROVE f[x] = g[x]
  <2>1. SUFFICES ASSUME f[x] < g[x] PROVE FALSE
    OBVIOUS
  <2>2. <<x, g[x]>> \in Units(g)
    BY <2>1 DEF Units, UnitsOf
  <2>3. <<x, g[x]>> \notin Units(f)
    BY <2>1 DEF Units, UnitsOf
  <2> QED
    BY <1>3, <2>2, <2>3
<1> QED
  BY <1>4
-----------------------------------------------------------------------------
(* The community modules sum a function by a fold.  The fold has the value of   *)
(* the total, so that what is proved of totals holds of it.                    *)

\* Any function from a finite set to the natural numbers is bounded.
LEMMA TotalBounds ==
    ASSUME NEW S, IsFiniteSet(S), NEW f \in [S -> Nat]
    PROVE  Total(f) \in Nat /\ f \in [S -> 0 .. Total(f)]
<1> DEFINE all == {UnitsOf(f, x) : x \in S}
           units == [x \in S |-> UnitsOf(f, x)]
<1>1. ASSUME NEW x \in S
      PROVE  IsFiniteSet(UnitsOf(f, x)) /\ Cardinality(UnitsOf(f, x)) = f[x]
  <2>1. f \in [S -> Nat] /\ f[x] \in Nat
    OBVIOUS
  <2>2. IsFiniteSet({x}) /\ Cardinality({x}) = 1
    BY FS_Singleton
  <2>3. IsFiniteSet(1 .. f[x]) /\ Cardinality(1 .. f[x]) = f[x]
    BY <2>1, FS_Interval
  <2>4. /\ IsFiniteSet({x} \X (1 .. f[x]))
        /\ Cardinality({x} \X (1 .. f[x])) = Cardinality({x}) * Cardinality(1 .. f[x])
    BY <2>2, <2>3, FS_Product
  <2> QED
    BY <2>1, <2>2, <2>3, <2>4 DEF UnitsOf
<1>2. IsFiniteSet(all)
  <2>1. units \in Surjection(S, all)
    BY DEF Surjection
  <2> QED
    BY <2>1, FS_Surjection
<1>3. IsFiniteSet(Units(f))
  <2>1. \A T \in all : IsFiniteSet(T)
    BY <1>1
  <2>2. Units(f) = UNION all
    BY DEF Units
  <2> QED
    BY <1>2, <2>1, <2>2, FS_UNION
<1>4. Total(f) \in Nat
  BY <1>3, FS_CardinalityType DEF Total
<1>5. ASSUME NEW x \in S PROVE f[x] \in 0 .. Total(f)
  <2>1. UnitsOf(f, x) \subseteq Units(f)
    BY DEF Units
  <2>2. f[x] <= Total(f)
    BY <1>1, <1>3, <2>1, FS_Subset DEF Total
  <2> QED
    BY <1>4, <2>2
<1> QED
  BY <1>4, <1>5

Pick(s) == CHOOSE x \in s : TRUE

\* The sums over all parts of D, as a fold computes them.
Summing(f, D, g) ==
    g = [s \in SUBSET D |-> IF s = {} THEN 0 ELSE f[Pick(s)] + g[s \ {Pick(s)}]]

\* A fold over a function's values is such a function's value.
LEMMA SumIsFold ==
    ASSUME NEW f, NEW D
    PROVE  SumFunctionOnSet(f, D) = (CHOOSE g : Summing(f, D, g))[D]
  BY DEF SumFunctionOnSet, FoldFunctionOnSet, MapThenFoldSet, Pick, Summing

\* The total over a part is a value of that part and the total over the rest of it.
LEMMA TotalStep ==
    ASSUME NEW D, IsFiniteSet(D), NEW f \in [D -> Nat], NEW s \in SUBSET D, NEW x \in s
    PROVE  /\ Total(Restrict(f, s \ {x})) \in Nat
           /\ f[x] \in Nat
           /\ Total(Restrict(f, s)) = f[x] + Total(Restrict(f, s \ {x}))
<1> DEFINE rest == s \ {x}
           fs == Restrict(f, s)
<1>1. PICK B \in Nat : f \in [D -> 0 .. B]
  BY TotalBounds
<1>2. IsFiniteSet(s) /\ fs \in [s -> 0 .. B] /\ fs[x] = f[x] /\ f[x] \in Nat
  BY <1>1, FS_Subset DEF Restrict
<1>3. Units(Restrict(f, rest)) = UnitsElsewhere(fs, x)
  BY DEF Units, UnitsOf, UnitsElsewhere, Restrict
<1>4. Total(fs) = Cardinality(UnitsElsewhere(fs, x)) + fs[x]
      /\ Cardinality(UnitsElsewhere(fs, x)) \in Nat
  BY <1>2, TotalSplit
<1> QED
  BY <1>2, <1>3, <1>4 DEF Total

\* The totals of the parts are such a function.
LEMMA TotalsAreSums ==
    ASSUME NEW D, IsFiniteSet(D), NEW f \in [D -> Nat]
    PROVE  Summing(f, D, [s \in SUBSET D |-> Total(Restrict(f, s))])
<1> DEFINE g == [s \in SUBSET D |-> Total(Restrict(f, s))]
<1>1. g[{}] = 0
  <2>1. Restrict(f, {}) \in [{} -> {0}]
    BY DEF Restrict
  <2> QED
    BY <2>1, TotalZero
<1>2. ASSUME NEW s \in SUBSET D, s # {}
      PROVE  g[s] = f[Pick(s)] + g[s \ {Pick(s)}]
  <2>1. Pick(s) \in s
    BY <1>2 DEF Pick
  <2> QED
    BY <2>1, TotalStep
<1>3. \A s \in SUBSET D : g[s] = IF s = {} THEN 0 ELSE f[Pick(s)] + g[s \ {Pick(s)}]
  BY <1>1, <1>2
<1>4. g = [s \in SUBSET D |-> g[s]]
  OBVIOUS
<1> HIDE DEF g
<1>5. g = [s \in SUBSET D |-> IF s = {} THEN 0 ELSE f[Pick(s)] + g[s \ {Pick(s)}]]
  BY <1>3, <1>4
<1> QED
  BY <1>5 DEF g, Summing

\* There is only one.
LEMMA SumsAreUnique ==
    ASSUME NEW D, IsFiniteSet(D), NEW f, NEW g, NEW h, Summing(f, D, g), Summing(f, D, h)
    PROVE  g[D] = h[D]
<1> DEFINE bad == {s \in SUBSET D : g[s] # h[s]}
<1>1. SUFFICES ASSUME g[D] # h[D] PROVE FALSE
  OBVIOUS
<1>2. bad \subseteq FiniteSubsetsOf(D) /\ bad # {}
  BY <1>1, FS_Subset DEF FiniteSubsetsOf
<1>3. PICK s \in bad : \A t \in bad : <<t, s>> \notin StrictSubsetOrdering(D)
  BY <1>2, FS_StrictSubsetOrderingWellFounded, WFMin
<1> DEFINE x == Pick(s)
           rest == s \ {x}
<1>4. /\ g[s] = IF s = {} THEN 0 ELSE f[x] + g[rest]
      /\ h[s] = IF s = {} THEN 0 ELSE f[x] + h[rest]
  BY DEF Summing
<1>5. s # {} /\ g[rest] # h[rest]
  BY <1>3, <1>4
<1>6. x \in s
  BY <1>5 DEF Pick
<1> HIDE DEF x
<1>7. rest \in bad /\ <<rest, s>> \in StrictSubsetOrdering(D)
  BY <1>5, <1>6 DEF StrictSubsetOrdering
<1> QED
  BY <1>3, <1>7

\* A fold over the values of a function on a finite set is its total.
LEMMA SumIsTotal ==
    ASSUME NEW D, IsFiniteSet(D), NEW f \in [D -> Nat]
    PROVE  SumFunction(f) = Total(f) /\ SumFunction(f) \in Nat
<1> DEFINE g == [s \in SUBSET D |-> Total(Restrict(f, s))]
           chosen == CHOOSE k : Summing(f, D, k)
<1>1. Summing(f, D, g)
  BY TotalsAreSums
<1>2. Summing(f, D, chosen)
  BY <1>1, Zenon
<1>3. chosen[D] = g[D]
  BY <1>1, <1>2, SumsAreUnique, Zenon
<1>4. g[D] = Total(f)
  <2>1. Restrict(f, D) = f
    BY DEF Restrict
  <2> QED
    BY <2>1
<1>5. SumFunction(f) = chosen[D]
  BY SumIsFold DEF SumFunction
<1> QED
  BY <1>3, <1>4, <1>5, TotalBounds

\* A sum of sums, and of multiples: what is so at every point is so of the totals.
LEMMA SumLinear ==
    ASSUME NEW D, IsFiniteSet(D), NEW c \in Nat,
           NEW f \in [D -> Nat], NEW g \in [D -> Nat], NEW h \in [D -> Nat],
           \A x \in D : h[x] = c * f[x] + g[x]
    PROVE  SumFunction(h) = c * SumFunction(f) + SumFunction(g)
<1> DEFINE total(k, s) == Total(Restrict(k, s))
           bad == {s \in SUBSET D : total(h, s) # c * total(f, s) + total(g, s)}
<1>0. ASSUME NEW k \in [D -> Nat], NEW s \in SUBSET D, NEW x \in s
      PROVE  total(k, s \ {x}) \in Nat /\ k[x] \in Nat
             /\ total(k, s) = k[x] + total(k, s \ {x})
  BY TotalStep
<1>1. \A k \in [D -> Nat] : SumFunction(k) = total(k, D)
  <2>1. \A k \in [D -> Nat] : Restrict(k, D) = k
    BY DEF Restrict
  <2> QED
    BY <2>1, SumIsTotal
<1>2. SUFFICES ASSUME bad # {} PROVE FALSE
  BY <1>1
<1>3. bad \subseteq FiniteSubsetsOf(D)
  BY FS_Subset DEF FiniteSubsetsOf
<1>4. PICK s \in bad : \A t \in bad : <<t, s>> \notin StrictSubsetOrdering(D)
  BY <1>2, <1>3, FS_StrictSubsetOrderingWellFounded, WFMin
<1>5. s # {}
  <2>1. \A k \in [D -> Nat] : total(k, {}) = 0
    <3>1. \A k : Restrict(k, {}) \in [{} -> {0}]
      BY DEF Restrict
    <3> QED
      BY <3>1, TotalZero
  <2>2. c * 0 + 0 = 0
    OBVIOUS
  <2>3. total(h, {}) = c * total(f, {}) + total(g, {})
    BY <2>1, <2>2
  <2> QED
    BY <2>3
<1>6. PICK x \in s : TRUE
  BY <1>5
<1> DEFINE rest == s \ {x}
<1>7. s \in SUBSET D /\ rest \in SUBSET D /\ <<rest, s>> \in StrictSubsetOrdering(D)
  BY <1>6 DEF StrictSubsetOrdering
<1>8. rest \notin bad
  BY <1>4, <1>7
<1>9. ASSUME NEW k \in [D -> Nat]
      PROVE  total(k, rest) \in Nat /\ k[x] \in Nat /\ total(k, s) = k[x] + total(k, rest)
  BY <1>0, <1>6, <1>7
<1> HIDE DEF total
<1>10. /\ total(h, rest) = c * total(f, rest) + total(g, rest)
       /\ total(h, s) # c * total(f, s) + total(g, s)
       /\ h[x] = c * f[x] + g[x]
  BY <1>6, <1>7, <1>8
<1> DEFINE F == total(f, rest)
           G == total(g, rest)
<1>11. F \in Nat /\ G \in Nat /\ f[x] \in Nat /\ g[x] \in Nat
  BY <1>9
<1>12. total(h, s) = (c * f[x] + g[x]) + (c * F + G)
  BY <1>9, <1>10
<1>13. c * total(f, s) + total(g, s) = c * (f[x] + F) + (g[x] + G)
  BY <1>9
<1> HIDE DEF F, G
<1>14. (c * f[x] + g[x]) + (c * F + G) = c * (f[x] + F) + (g[x] + G)
  BY <1>11
<1> QED
  BY <1>10, <1>12, <1>13, <1>14

\* The sum of the sums of two values.
LEMMA SumPlus ==
    ASSUME NEW D, IsFiniteSet(D),
           NEW f \in [D -> Nat], NEW g \in [D -> Nat], NEW h \in [D -> Nat],
           \A x \in D : h[x] = f[x] + g[x]
    PROVE  SumFunction(h) = SumFunction(f) + SumFunction(g)
<1>1. \A x \in D : h[x] = 1 * f[x] + g[x]
  OBVIOUS
<1>2. SumFunction(h) = 1 * SumFunction(f) + SumFunction(g)
  BY <1>1, SumLinear
<1>3. SumFunction(f) \in Nat
  BY SumIsTotal
<1> QED
  BY <1>2, <1>3

\* Where g is nowhere below f, its sum is not below that of f.
LEMMA SumMonotone ==
    ASSUME NEW D, IsFiniteSet(D), NEW f \in [D -> Nat], NEW g \in [D -> Nat],
           \A x \in D : f[x] <= g[x]
    PROVE  SumFunction(f) <= SumFunction(g)
<1>1. Units(f) \subseteq Units(g)
  BY DEF Units, UnitsOf
<1>2. PICK B \in Nat : g \in [D -> 0 .. B]
  BY TotalBounds
<1>3. IsFiniteSet(Units(g))
  BY <1>2, TotalType
<1> QED
  BY <1>1, <1>3, FS_Subset, SumIsTotal DEF Total

\* The sum of equal values.
LEMMA SumConstant ==
    ASSUME NEW D, IsFiniteSet(D), NEW c \in Nat
    PROVE  SumFunction([x \in D |-> c]) = Cardinality(D) * c
<1> DEFINE f == [x \in D |-> c]
<1>1. Units(f) = D \X (1 .. c)
  BY DEF Units, UnitsOf
<1>2. IsFiniteSet(1 .. c) /\ Cardinality(1 .. c) = c
  BY FS_Interval
<1>3. Cardinality(D \X (1 .. c)) = Cardinality(D) * c
  BY <1>2, FS_Product
<1> QED
  BY <1>1, <1>3, SumIsTotal DEF Total

\* A change at one point changes the sum by as much.
LEMMA SumChange ==
    ASSUME NEW D, IsFiniteSet(D), NEW f \in [D -> Nat], NEW g \in [D -> Nat], NEW x \in D,
           \A y \in D \ {x} : g[y] = f[y]
    PROVE  SumFunction(g) = SumFunction(f) - f[x] + g[x]
<1>1. /\ Total(f) \in Nat /\ f \in [D -> 0 .. Total(f)]
      /\ Total(g) \in Nat /\ g \in [D -> 0 .. Total(g)]
  BY TotalBounds
<1> DEFINE B == Total(f) + Total(g)
<1>2. B \in Nat /\ f \in [D -> 0 .. B] /\ g \in [D -> 0 .. B]
  BY <1>1
<1> HIDE DEF B
<1>3. Total(g) = Total(f) - f[x] + g[x]
  BY <1>2, TotalChange
<1> QED
  BY <1>3, SumIsTotal

\* What is zero need not be summed.
LEMMA SumOfPart ==
    ASSUME NEW D, IsFiniteSet(D), NEW f \in [D -> Nat], NEW T \in SUBSET D,
           \A x \in D \ T : f[x] = 0
    PROVE  SumFunction(Restrict(f, T)) = SumFunction(f)
<1>1. Restrict(f, T) \in [T -> Nat] /\ IsFiniteSet(T)
  BY FS_Subset DEF Restrict
<1>2. Units(Restrict(f, T)) = Units(f)
  BY DEF Units, UnitsOf, Restrict
<1> QED
  BY <1>1, <1>2, SumIsTotal DEF Total

\* A table can be summed by rows or by columns.
LEMMA SumOfTable ==
    ASSUME NEW D, IsFiniteSet(D), NEW E, IsFiniteSet(E), NEW f \in [D -> [E -> Nat]]
    PROVE  SumFunction([x \in D |-> SumFunction(f[x])])
              = SumFunction([y \in E |-> SumFunction([x \in D |-> f[x][y]])])
<1> DEFINE rows == [x \in D |-> SumFunction(f[x])]
           column(y) == [x \in D |-> f[x][y]]
           columns(s) == [y \in E |-> Total(Restrict(column(y), s))]
           left(s) == Total(Restrict(rows, s))
           right(s) == SumFunction(columns(s))
           bad == {s \in SUBSET D : left(s) # right(s)}
<1>1. rows \in [D -> Nat] /\ \A y \in E : column(y) \in [D -> Nat]
  BY SumIsTotal
<1>2. ASSUME NEW s \in SUBSET D PROVE columns(s) \in [E -> Nat]
  <2>1. IsFiniteSet(s) /\ \A y \in E : Restrict(column(y), s) \in [s -> Nat]
    BY <1>1, FS_Subset DEF Restrict
  <2> QED
    BY <2>1, TotalBounds
<1>3. left(D) = SumFunction(rows)
      /\ right(D) = SumFunction([y \in E |-> SumFunction([x \in D |-> f[x][y]])])
  <2>1. \A k \in [D -> Nat] : Restrict(k, D) = k /\ SumFunction(k) = Total(k)
    BY SumIsTotal DEF Restrict
  <2>2. columns(D) = [y \in E |-> SumFunction([x \in D |-> f[x][y]])]
    BY <1>1, <2>1
  <2> QED
    BY <1>1, <2>1, <2>2
<1>4. SUFFICES ASSUME bad # {} PROVE FALSE
  BY <1>3
<1>5. bad \subseteq FiniteSubsetsOf(D)
  BY FS_Subset DEF FiniteSubsetsOf
<1>6. PICK s \in bad : \A t \in bad : <<t, s>> \notin StrictSubsetOrdering(D)
  BY <1>4, <1>5, FS_StrictSubsetOrderingWellFounded, WFMin
<1>7. s # {}
  <2>1. \A k \in [D -> Nat] : Total(Restrict(k, {})) = 0
    <3>1. \A k : Restrict(k, {}) \in [{} -> {0}]
      BY DEF Restrict
    <3> QED
      BY <3>1, TotalZero
  <2>2. left({}) = 0 /\ columns({}) = [y \in E |-> 0]
    BY <1>1, <2>1
  <2>3. SumFunction([y \in E |-> 0]) = 0
    <3>1. Cardinality(E) \in Nat
      BY FS_CardinalityType
    <3>2. SumFunction([y \in E |-> 0]) = Cardinality(E) * 0
      BY SumConstant
    <3> QED
      BY <3>1, <3>2
  <2>4. left({}) = right({})
    BY <2>2, <2>3
  <2> QED
    BY <2>4
<1>8. PICK x \in s : TRUE
  BY <1>7
<1> DEFINE rest == s \ {x}
<1>9. s \in SUBSET D /\ x \in D /\ rest \in SUBSET D /\ <<rest, s>> \in StrictSubsetOrdering(D)
  BY <1>8 DEF StrictSubsetOrdering
<1>10. left(rest) = right(rest)
  BY <1>6, <1>9
<1>11. left(s) = SumFunction(f[x]) + left(rest) /\ left(rest) \in Nat
  BY <1>1, <1>8, <1>9, TotalStep
<1>12. \A y \in E : columns(s)[y] = f[x][y] + columns(rest)[y]
  <2>1. ASSUME NEW y \in E
        PROVE  columns(s)[y] = f[x][y] + columns(rest)[y]
    <3> DEFINE c == column(y)
    <3>1. c \in [D -> Nat] /\ c[x] = f[x][y]
      BY <1>1, <1>9
    <3> HIDE DEF c
    <3>2. c[x] \in Nat /\ Total(Restrict(c, s)) = c[x] + Total(Restrict(c, rest))
      BY <1>8, <1>9, <3>1, TotalStep
    <3>3. columns(s)[y] = Total(Restrict(c, s)) /\ columns(rest)[y] = Total(Restrict(c, rest))
      BY DEF c
    <3> QED
      BY <3>1, <3>2, <3>3
  <2> QED
    BY <2>1
<1>13. columns(s) \in [E -> Nat] /\ columns(rest) \in [E -> Nat] /\ f[x] \in [E -> Nat]
  BY <1>2, <1>9
<1>14. right(s) = SumFunction(f[x]) + right(rest)
  <2> DEFINE all == columns(s)
             others == columns(rest)
             row == f[x]
  <2>1. \A y \in E : all[y] = row[y] + others[y]
    BY <1>12
  <2>2. all \in [E -> Nat] /\ others \in [E -> Nat] /\ row \in [E -> Nat]
    BY <1>13
  <2> HIDE DEF all, others, row
  <2>3. SumFunction(all) = SumFunction(row) + SumFunction(others)
    BY <2>1, <2>2, SumPlus
  <2> QED
    BY <2>3 DEF all, others, row
<1> HIDE DEF columns
<1>15. SumFunction(f[x]) \in Nat
  BY <1>13, SumIsTotal
<1> QED
  BY <1>6, <1>10, <1>11, <1>14, <1>15

\* A sum does not depend on what its terms are called.
LEMMA SumRenamed ==
    ASSUME NEW D, IsFiniteSet(D), NEW E, NEW m \in Bijection(D, E), NEW g \in [E -> Nat]
    PROVE  SumFunction([x \in D |-> g[m[x]]]) = SumFunction(g)
<1> DEFINE f == [x \in D |-> g[m[x]]]
<1>1. m \in [D -> E] /\ IsInjective(m) /\ \A y \in E : \E x \in D : m[x] = y
  BY DEF Bijection, Injection, Surjection
<1>2. IsFiniteSet(E)
  BY FS_Surjection DEF Bijection
<1>3. f \in [D -> Nat] /\ \A x \in D : f[x] = g[m[x]]
  BY <1>1
<1> HIDE DEF f
<1>4. SumFunction(f) = Cardinality(Units(f)) /\ SumFunction(g) = Cardinality(Units(g))
  BY <1>2, <1>3, SumIsTotal DEF Total
<1>5. IsFiniteSet(Units(f))
  <2>1. PICK B \in Nat : f \in [D -> 0 .. B]
    BY <1>3, TotalBounds
  <2> QED
    BY <2>1, TotalType
<1> DEFINE renamed == [u \in Units(f) |-> <<m[u[1]], u[2]>>]
<1>6. \A u \in Units(f) : u = <<u[1], u[2]>> /\ u[1] \in D /\ u[2] \in 1 .. f[u[1]]
  BY <1>3 DEF Units, UnitsOf
<1>7. \A x \in D : \A n \in 1 .. f[x] : <<x, n>> \in Units(f)
  BY <1>3 DEF Units, UnitsOf
<1>8. \A u \in Units(g) : u = <<u[1], u[2]>> /\ u[1] \in E /\ u[2] \in 1 .. g[u[1]]
  BY DEF Units, UnitsOf
<1>9. \A y \in E : \A n \in 1 .. g[y] : <<y, n>> \in Units(g)
  BY DEF Units, UnitsOf
<1>10. renamed \in [Units(f) -> Units(g)]
  BY <1>1, <1>3, <1>6, <1>9
<1>11. IsInjective(renamed)
  <2> SUFFICES ASSUME NEW u \in Units(f), NEW w \in Units(f), renamed[u] = renamed[w]
               PROVE  u = w
    BY DEF IsInjective
  <2>1. m[u[1]] = m[w[1]] /\ u[2] = w[2]
    OBVIOUS
  <2>2. u[1] = w[1]
    BY <1>1, <1>6, <2>1 DEF IsInjective
  <2> QED
    BY <1>6, <2>1, <2>2
<1>12. \A w \in Units(g) : \E u \in Units(f) : renamed[u] = w
  <2> SUFFICES ASSUME NEW w \in Units(g) PROVE \E u \in Units(f) : renamed[u] = w
    OBVIOUS
  <2>1. w = <<w[1], w[2]>> /\ w[1] \in E /\ w[2] \in 1 .. g[w[1]]
    BY <1>8
  <2>2. PICK x \in D : m[x] = w[1]
    BY <1>1, <2>1
  <2>3. <<x, w[2]>> \in Units(f)
    BY <1>3, <1>7, <2>1, <2>2
  <2>4. renamed[<<x, w[2]>>] = w
    BY <2>1, <2>2, <2>3
  <2> QED
    BY <2>3, <2>4
<1> HIDE DEF renamed
<1>13. ExistsBijection(Units(f), Units(g))
  BY <1>10, <1>11, <1>12 DEF ExistsBijection, Bijection, Injection, Surjection
<1>14. Cardinality(Units(f)) = Cardinality(Units(g))
  BY <1>5, <1>13, FS_Bijection
<1> QED
  BY <1>4, <1>14 DEF f

\* One term can be taken out of a sum.
LEMMA SumSplit ==
    ASSUME NEW D, IsFiniteSet(D), NEW f \in [D -> Nat], NEW x \in D
    PROVE  /\ SumFunction(Restrict(f, D \ {x})) \in Nat
           /\ SumFunction(f) = f[x] + SumFunction(Restrict(f, D \ {x}))
<1> DEFINE rest == Restrict(f, D \ {x})
<1>1. rest \in [D \ {x} -> Nat] /\ IsFiniteSet(D \ {x}) /\ Restrict(f, D) = f
  BY FS_Subset DEF Restrict
<1>2. Total(Restrict(f, D)) = f[x] + Total(rest)
  BY TotalStep
<1> HIDE DEF rest
<1> QED
  BY <1>1, <1>2, SumIsTotal DEF rest

\* A sum of which one term at most is not zero is that term.
LEMMA SumOfOne ==
    ASSUME NEW D, IsFiniteSet(D), NEW f \in [D -> Nat], NEW x \in D,
           \A y \in D \ {x} : f[y] = 0
    PROVE  SumFunction(f) = f[x]
<1> DEFINE zeros == [y \in D |-> 0]
<1>1. zeros \in [D -> Nat] /\ zeros[x] = 0 /\ \A y \in D \ {x} : f[y] = zeros[y]
  OBVIOUS
<1>2. SumFunction(zeros) = 0
  <2>1. Cardinality(D) \in Nat
    BY FS_CardinalityType
  <2>2. SumFunction(zeros) = Cardinality(D) * 0
    BY SumConstant
  <2> QED
    BY <2>1, <2>2
<1> HIDE DEF zeros
<1>3. SumFunction(f) = SumFunction(zeros) - zeros[x] + f[x]
  BY <1>1, SumChange
<1> QED
  BY <1>1, <1>2, <1>3

\* Where a sum of naturals is zero, so is each of them.
LEMMA SumOfZeros ==
    ASSUME NEW D, IsFiniteSet(D), NEW f \in [D -> Nat], SumFunction(f) <= 0
    PROVE  \A x \in D : f[x] = 0
<1> SUFFICES ASSUME NEW x \in D PROVE f[x] = 0
  OBVIOUS
<1>1. /\ SumFunction(Restrict(f, D \ {x})) \in Nat
      /\ SumFunction(f) = f[x] + SumFunction(Restrict(f, D \ {x}))
  BY SumSplit
<1>2. f[x] \in Nat
  OBVIOUS
<1> QED
  BY <1>1, <1>2

\* The same of a function that takes its values from another.
LEMMA SumNamedAnew ==
    ASSUME NEW D, IsFiniteSet(D), NEW E, NEW m \in Bijection(D, E), NEW g \in [E -> Nat],
           NEW f \in [D -> Nat], \A x \in D : f[x] = g[m[x]]
    PROVE  SumFunction(f) = SumFunction(g)
<1>1. f = [x \in D |-> g[m[x]]]
  OBVIOUS
<1>2. SumFunction([x \in D |-> g[m[x]]]) = SumFunction(g)
  BY SumRenamed
<1> QED
  BY <1>1, <1>2

\* A sum over two parts.
LEMMA SumOfParts ==
    ASSUME NEW D, IsFiniteSet(D), NEW f \in [D -> Nat], NEW T \in SUBSET D
    PROVE  /\ SumFunction(Restrict(f, T)) \in Nat /\ SumFunction(Restrict(f, D \ T)) \in Nat
           /\ SumFunction(f) = SumFunction(Restrict(f, T)) + SumFunction(Restrict(f, D \ T))
<1> DEFINE g == [x \in D |-> IF x \in T THEN f[x] ELSE 0]
           h == [x \in D |-> IF x \in T THEN 0 ELSE f[x]]
<1>1. /\ g \in [D -> Nat] /\ h \in [D -> Nat]
      /\ \A x \in D : f[x] = g[x] + h[x]
      /\ \A x \in D \ T : g[x] = 0
      /\ \A x \in D \ (D \ T) : h[x] = 0
      /\ Restrict(g, T) = Restrict(f, T) /\ Restrict(h, D \ T) = Restrict(f, D \ T)
  BY DEF Restrict
<1> HIDE DEF g, h
<1>2. SumFunction(f) = SumFunction(g) + SumFunction(h)
  BY <1>1, SumPlus
<1>3. SumFunction(Restrict(f, T)) = SumFunction(g)
  BY <1>1, SumOfPart
<1>4. SumFunction(Restrict(f, D \ T)) = SumFunction(h)
  <2>1. D \ T \in SUBSET D
    OBVIOUS
  <2> QED
    BY <1>1, <2>1, SumOfPart
<1>5. SumFunction(g) \in Nat /\ SumFunction(h) \in Nat
  BY <1>1, SumIsTotal
<1> QED
  BY <1>2, <1>3, <1>4, <1>5
-----------------------------------------------------------------------------
(* Naturals: the least of some, induction over them, and powers of two.     *)
\* A set of naturals has a least element.
LEMMA LeastNatural ==
    ASSUME NEW T \in SUBSET Nat, T # {}
    PROVE  \E n \in T : \A k \in T : n <= k
<1> DEFINE below(n) == 0 .. n
           initials == {below(n) : n \in T}
<1>1. \A n \in Nat : IsFiniteSet(below(n)) /\ below(n) \in SUBSET Nat
  BY FS_Interval
<1>2. initials \subseteq FiniteSubsetsOf(Nat) /\ initials # {}
  BY <1>1 DEF FiniteSubsetsOf
<1>3. PICK s \in initials : \A t \in initials : <<t, s>> \notin StrictSubsetOrdering(Nat)
  BY <1>2, FS_StrictSubsetOrderingWellFounded, WFMin
<1>4. PICK n \in T : s = below(n)
  OBVIOUS
<1>5. ASSUME NEW k \in T, k < n PROVE FALSE
  <2>1. below(k) \in initials /\ below(k) \subseteq below(n) /\ n \in below(n) \ below(k)
    BY <1>5
  <2>2. <<below(k), s>> \in StrictSubsetOrdering(Nat)
    BY <1>1, <1>4, <2>1 DEF StrictSubsetOrdering
  <2> QED
    BY <1>3, <2>1, <2>2
<1> QED
  BY <1>5

\* Induction over the naturals, for a set of them.
LEMMA ByInduction ==
    ASSUME NEW T, 0 \in T, \A n \in Nat : n \in T => n + 1 \in T
    PROVE  Nat \subseteq T
<1> DEFINE bad == Nat \ T
<1>1. SUFFICES ASSUME bad # {} PROVE FALSE
  OBVIOUS
<1>2. PICK n \in bad : \A k \in bad : n <= k
  BY <1>1, LeastNatural
<1>3. n # 0 /\ n - 1 \in Nat /\ n - 1 \notin bad
  BY <1>2
<1> QED
  BY <1>3

\* With one element more there are twice as many subsets.
LEMMA SubsetsDoubled ==
    ASSUME NEW S, IsFiniteSet(S), NEW x, x \notin S
    PROVE  /\ Cardinality(SUBSET S) \in Nat
           /\ Cardinality(SUBSET (S \cup {x})) = 2 * Cardinality(SUBSET S)
<1> DEFINE old == SUBSET S
           new == (SUBSET (S \cup {x})) \ old
           with == [s \in old |-> s \cup {x}]
<1>1. ASSUME NEW s \in old PROVE s \cup {x} \in new /\ x \notin s
  <2>1. s \subseteq S /\ x \in s \cup {x}
    OBVIOUS
  <2>2. s \cup {x} \subseteq S \cup {x} /\ ~(s \cup {x} \subseteq S)
    BY <2>1
  <2> QED
    BY <2>1, <2>2
<1>2. with \in [old -> new]
  BY <1>1
<1>3. IsInjective(with)
  <2> SUFFICES ASSUME NEW s \in old, NEW t \in old, with[s] = with[t] PROVE s = t
    BY DEF IsInjective
  <2>1. s \cup {x} = t \cup {x}
    OBVIOUS
  <2> QED
    BY <1>1, <2>1
<1>4. ASSUME NEW t \in new PROVE \E s \in old : with[s] = t
  <2>0. t \subseteq S \cup {x} /\ ~(t \subseteq S)
    OBVIOUS
  <2>1. x \in t /\ t \ {x} \in old
    BY <2>0
  <2>2. with[t \ {x}] = (t \ {x}) \cup {x}
    BY <2>1
  <2>3. (t \ {x}) \cup {x} = t
    BY <2>1
  <2> QED
    BY <2>1, <2>2, <2>3
<1>5. IsFiniteSet(old) /\ Cardinality(old) \in Nat
  BY FS_SUBSET, FS_CardinalityType
<1>6. old \cup new = SUBSET (S \cup {x}) /\ old \cap new = {}
  <2>1. old \subseteq SUBSET (S \cup {x})
    OBVIOUS
  <2> HIDE DEF old
  <2> QED
    BY <2>1
<1> HIDE DEF with, old, new
<1>7. ExistsBijection(old, new)
  BY <1>2, <1>3, <1>4 DEF ExistsBijection, Bijection, Injection, Surjection
<1>8. IsFiniteSet(new) /\ Cardinality(new) = Cardinality(old)
  BY <1>5, <1>7, FS_Bijection
<1>9. Cardinality(old \cup new) = Cardinality(old) + Cardinality(new) - Cardinality(old \cap new)
  BY <1>5, <1>8, FS_Union
<1>10. Cardinality(old \cap new) = 0
  BY <1>6, FS_EmptySet
<1> QED
  <2>1. Cardinality(old \cup new) = 2 * Cardinality(old)
    BY <1>5, <1>8, <1>9, <1>10
  <2> QED
    BY <1>5, <1>6, <2>1 DEF old

\* The powers of two.
LEMMA PowersOfTwo ==
    /\ 2 ^ 0 = 1
    /\ \A n \in Nat : 2 ^ n \in Nat \ {0} /\ 2 ^ (n + 1) = 2 * 2 ^ n
<1>1. ASSUME NEW n \in Nat
      PROVE  /\ IsFiniteSet(SUBSET (1 .. n)) /\ Cardinality(SUBSET (1 .. n)) = 2 ^ n
             /\ Cardinality(SUBSET (1 .. n)) \in Nat
  <2>1. IsFiniteSet(1 .. n) /\ Cardinality(1 .. n) = n
    BY FS_Interval
  <2>2. IsFiniteSet(SUBSET (1 .. n)) /\ Cardinality(SUBSET (1 .. n)) = 2 ^ Cardinality(1 .. n)
    BY <2>1, FS_SUBSET
  <2> QED
    BY <2>1, <2>2, FS_CardinalityType
<1>2. 2 ^ 0 = 1
  <2>1. SUBSET (1 .. 0) = {{}}
    OBVIOUS
  <2> QED
    BY <1>1, <2>1, FS_Singleton
<1>3. ASSUME NEW n \in Nat PROVE 2 ^ (n + 1) = 2 * 2 ^ n
  <2>1. IsFiniteSet(1 .. n) /\ n + 1 \notin 1 .. n /\ 1 .. n + 1 = (1 .. n) \cup {n + 1}
    BY FS_Interval
  <2>2. Cardinality(SUBSET (1 .. n + 1)) = 2 * Cardinality(SUBSET (1 .. n))
    BY <2>1, SubsetsDoubled
  <2>3. Cardinality(SUBSET (1 .. n + 1)) = 2 ^ (n + 1)
    BY <1>1
  <2> QED
    BY <1>1, <2>2, <2>3
<1>4. ASSUME NEW n \in Nat PROVE 2 ^ n # 0
  <2>1. {} \in SUBSET (1 .. n)
    OBVIOUS
  <2> QED
    BY <1>1, <2>1, FS_EmptySet
<1> QED
  BY <1>1, <1>2, <1>3, <1>4

(***************************************************************************)
(* Rounding.                                                               *)
(***************************************************************************)

USE FullScaleAssumption

\* The order of products.
LEMMA TimesMonotone ==
    ASSUME NEW k \in Nat, NEW a \in Int, NEW b \in Int, a <= b
    PROVE  k * a <= k * b
  OBVIOUS

\* A positive factor can be cancelled.
LEMMA TimesCancel ==
    ASSUME NEW k \in Nat \ {0}, NEW a \in Int, NEW b \in Int, k * a < k * b
    PROVE  a < b
<1>1. ASSUME b <= a PROVE FALSE
  BY <1>1, TimesMonotone
<1> QED
  BY <1>1

\* A quotient lies between its neighbours.
LEMMA DivBounds ==
    ASSUME NEW n \in Int, NEW d \in Nat \ {0}
    PROVE  /\ n \div d \in Int
           /\ d * (n \div d) <= n
           /\ n < d * ((n \div d) + 1)
  OBVIOUS

\* A quotient of naturals is the largest number that fits.
LEMMA DivAtLeast ==
    ASSUME NEW n \in Int, NEW d \in Nat \ {0}, NEW q \in Int, d * q <= n
    PROVE  q <= n \div d
<1>1. n \div d \in Int /\ n < d * ((n \div d) + 1)
  BY DivBounds
<1>2. d * q < d * ((n \div d) + 1)
  BY <1>1
<1>3. q < (n \div d) + 1
  BY <1>1, <1>2, TimesCancel
<1> QED
  BY <1>1, <1>3

\* A quotient is below whatever is too large.
LEMMA DivLess ==
    ASSUME NEW n \in Int, NEW d \in Nat \ {0}, NEW q \in Int, n < d * q
    PROVE  n \div d < q
<1>1. n \div d \in Int /\ d * (n \div d) <= n
  BY DivBounds
<1>2. d * (n \div d) < d * q
  BY <1>1
<1> QED
  BY <1>1, <1>2, TimesCancel

\* A larger number has no smaller a quotient.
LEMMA DivMonotone ==
    ASSUME NEW n \in Int, NEW m \in Int, NEW d \in Nat \ {0}, n <= m
    PROVE  n \div d <= m \div d
<1>1. n \div d \in Int /\ d * (n \div d) <= n
  BY DivBounds
<1>2. d * (n \div d) <= m
  BY <1>1
<1> QED
  BY <1>1, <1>2, DivAtLeast

\* A larger amount is worth no less.
LEMMA WorthMonotone ==
    ASSUME NEW x \in Nat, NEW y \in Nat, x <= y, NEW rate \in Nat \ {0}
    PROVE  /\ DivPrecisely(x, rate) \in Nat /\ DivPrecisely(y, rate) \in Nat
           /\ DivPrecisely(x, rate) <= DivPrecisely(y, rate)
<1>1. x * FullScale \in Nat /\ y * FullScale \in Nat
  OBVIOUS
<1>2. x * FullScale <= y * FullScale
  BY TimesMonotone
<1>3. DivPrecisely(x, rate) \in Int /\ DivPrecisely(y, rate) \in Int
  BY <1>1, DivBounds DEF DivPrecisely
<1>4. rate * DivPrecisely(x, rate) <= x * FullScale
  BY <1>1, DivBounds DEF DivPrecisely
<1>5. DivPrecisely(x, rate) <= DivPrecisely(y, rate)
  BY <1>1, <1>2, <1>3, <1>4, DivAtLeast DEF DivPrecisely
<1>6. 0 <= DivPrecisely(x, rate) /\ 0 <= DivPrecisely(y, rate)
  <2>1. rate * 0 = 0
    OBVIOUS
  <2> QED
    BY <1>1, <2>1, DivAtLeast DEF DivPrecisely
<1> QED
  BY <1>3, <1>5, <1>6

\* The units that are worth an amount, rounded down, are worth no more than it:
\* adding them gives no more, and removing them takes no more.
LEMMA UnitsWorthAmount ==
    ASSUME NEW x \in Nat, NEW rate \in Nat \ {0}, NEW v \in Nat,
           NEW units \in Nat, units * FullScale <= v * rate
    PROVE  /\ DivPrecisely(x + units, rate) <= DivPrecisely(x, rate) + v
           /\ units <= x => DivPrecisely(x, rate) - v <= DivPrecisely(x - units, rate)
<1> DEFINE before == DivPrecisely(x, rate)
<1>1. x * FullScale \in Nat /\ (x + units) * FullScale \in Nat
  OBVIOUS
<1>2. /\ before \in Int /\ rate * before <= x * FullScale
      /\ x * FullScale < rate * (before + 1)
  BY <1>1, DivBounds DEF DivPrecisely
<1> HIDE DEF before
<1>3. DivPrecisely(x + units, rate) < before + v + 1
  <2>1. (x + units) * FullScale = x * FullScale + units * FullScale
    OBVIOUS
  <2>2. rate * (before + v + 1) = rate * (before + 1) + v * rate
    BY <1>2
  <2>3. (x + units) * FullScale < rate * (before + v + 1)
    BY <1>1, <1>2, <2>1, <2>2
  <2> QED
    BY <1>1, <1>2, <2>3, DivLess DEF DivPrecisely
<1>4. ASSUME units <= x PROVE before - v <= DivPrecisely(x - units, rate)
  <2>1. (x - units) * FullScale = x * FullScale - units * FullScale
    OBVIOUS
  <2>2. rate * (before - v) = rate * before - v * rate
    BY <1>2
  <2>3. rate * (before - v) <= (x - units) * FullScale
    BY <1>1, <1>2, <2>1, <2>2
  <2>4. (x - units) * FullScale \in Int /\ before - v \in Int
    BY <1>2
  <2> QED
    BY <2>3, <2>4, DivAtLeast DEF DivPrecisely
<1>5. DivPrecisely(x + units, rate) \in Int
  BY <1>1, DivBounds DEF DivPrecisely
<1> QED
  BY <1>2, <1>3, <1>4, <1>5 DEF before

\* MulTruncate finds such units.
LEMMA MulTruncateBounds ==
    ASSUME NEW v \in Nat, NEW rate \in Nat
    PROVE  /\ MulTruncate(v, rate) \in Nat
           /\ MulTruncate(v, rate) * FullScale <= v * rate
<1>1. v * rate \in Nat
  OBVIOUS
<1>2. /\ MulTruncate(v, rate) \in Int /\ FullScale * MulTruncate(v, rate) <= v * rate
  BY <1>1, DivBounds DEF MulTruncate
<1>3. FullScale * 0 <= v * rate
  BY <1>1
<1>4. 0 <= MulTruncate(v, rate)
  BY <1>1, <1>3, DivAtLeast DEF MulTruncate
<1> QED
  BY <1>2, <1>4

\* Units converted from one rate to another, rounded down, are worth no more
\* than before, and less by at most what one unit is worth, rounded up.
LEMMA ConvertedUnits ==
    ASSUME NEW x \in Nat, NEW old \in Nat \ {0}, NEW new \in Nat \ {0}
    PROVE  LET y == (x * new) \div old
           IN  /\ y \in Nat
               /\ DivPrecisely(y, new) <= DivPrecisely(x, old)
               /\ DivPrecisely(x, old) <= DivPrecisely(y, new) + DivPrecisely(1, new) + 1
<1> DEFINE y == (x * new) \div old
           before == DivPrecisely(x, old)
           after == DivPrecisely(y, new)
           one == DivPrecisely(1, new)
<1>1. x * new \in Nat /\ x * FullScale \in Nat
  OBVIOUS
<1>2. y \in Int /\ old * y <= x * new /\ x * new < old * (y + 1)
  BY <1>1, DivBounds
<1>3. y \in Nat
  <2>1. old * 0 <= x * new
    BY <1>1
  <2> QED
    BY <1>1, <1>2, <2>1, DivAtLeast
<1>4. before \in Int /\ old * before <= x * FullScale
  BY <1>1, DivBounds DEF DivPrecisely
<1> HIDE DEF y
<1>5. y * FullScale \in Nat
  BY <1>3
<1>6. /\ after \in Int /\ new * after <= y * FullScale
      /\ y * FullScale < new * (after + 1)
  BY <1>5, DivBounds DEF DivPrecisely
<1>7. one \in Int /\ FullScale < new * (one + 1)
  BY DivBounds DEF DivPrecisely
<1> HIDE DEF after, one
<1>8. after <= before
  <2>1. old * (new * after) <= old * (y * FullScale)
    BY <1>5, <1>6, TimesMonotone
  <2>2. FullScale * (old * y) <= FullScale * (x * new)
    BY <1>1, <1>2, TimesMonotone
  <2>3. old * (y * FullScale) = FullScale * (old * y)
    BY <1>3
  <2>4. old * (new * after) = new * (old * after)
    BY <1>6
  <2>5. FullScale * (x * new) = new * (x * FullScale)
    OBVIOUS
  <2>6. new * (old * after) <= new * (x * FullScale)
    <3>1. new * (old * after) <= FullScale * (old * y)
      BY ONLY <2>1, <2>3, <2>4
    <3>2. new * (old * after) <= FullScale * (x * new)
      <4>1. /\ new * (old * after) \in Int /\ FullScale * (old * y) \in Int
            /\ FullScale * (x * new) \in Int
        BY <1>1, <1>3, <1>6
      <4> QED
        BY ONLY <2>2, <3>1, <4>1
    <3> QED
      BY ONLY <2>5, <3>2
  <2>7. ~(x * FullScale < old * after)
    <3>1. ASSUME x * FullScale < old * after PROVE FALSE
      <4>1. old * after \in Int
        BY <1>6
      <4>2. x * FullScale + 1 <= old * after
        BY <1>1, <3>1, <4>1
      <4>3. new * (x * FullScale + 1) <= new * (old * after)
        BY <1>1, <4>1, <4>2, TimesMonotone
      <4>4. new * (x * FullScale + 1) = new * (x * FullScale) + new
        BY <1>1
      <4> QED
        BY <1>1, <2>6, <4>1, <4>3, <4>4
    <3> QED
      BY <3>1
  <2>8. old * after \in Int
    BY <1>6
  <2>9. old * after <= x * FullScale
    BY <1>1, <2>7, <2>8
  <2> QED
    BY <1>1, <1>6, <2>9, DivAtLeast DEF DivPrecisely
<1>9. before <= after + one + 1
  <2>1. new * (old * before) <= new * (x * FullScale)
    BY <1>1, <1>4, TimesMonotone
  <2>2. FullScale * (x * new) < FullScale * (old * (y + 1))
    BY <1>1, <1>2, <1>3
  <2>3. new * (old * before) = old * (new * before)
    BY <1>4
  <2>4. FullScale * (old * (y + 1)) = old * (y * FullScale + FullScale)
    BY <1>3
  <2>5. new * (x * FullScale) = FullScale * (x * new)
    OBVIOUS
  <2>6. old * (new * before) < old * (y * FullScale + FullScale)
    BY <1>3, <1>4, <2>1, <2>2, <2>3, <2>4, <2>5
  <2>7. new * before \in Int /\ y * FullScale + FullScale \in Int
    BY <1>4, <1>5
  <2>8. new * before < y * FullScale + FullScale
    BY <2>6, <2>7, TimesCancel
  <2>9. new * before < new * (after + 1) + new * (one + 1)
    BY <1>4, <1>5, <1>6, <1>7, <2>8
  <2>10. new * (after + 1) + new * (one + 1) = new * (after + one + 2)
    BY <1>6, <1>7
  <2>11. before < after + one + 2
    BY <1>4, <1>6, <1>7, <2>9, <2>10, TimesCancel
  <2> QED
    BY <1>4, <1>6, <1>7, <2>11
<1> QED
  BY <1>3, <1>8, <1>9 DEF y, after, one

\* Units minted for an amount are worth no more than it, and less than what one
\* unit is worth, rounded up, less.
LEMMA UnitsMinted ==
    ASSUME NEW x \in Nat, NEW rate \in Nat \ {0}, NEW v \in Nat
    PROVE  LET units == MulTruncate(v, rate)
           IN  /\ DivPrecisely(x + units, rate) <= DivPrecisely(x, rate) + v
               /\ DivPrecisely(x, rate) + v
                     <= DivPrecisely(x + units, rate) + DivPrecisely(1, rate) + 1
<1> DEFINE units == MulTruncate(v, rate)
           before == DivPrecisely(x, rate)
           after == DivPrecisely(x + units, rate)
           one == DivPrecisely(1, rate)
<1>1. units \in Nat /\ units * FullScale <= v * rate /\ v * rate < FullScale * (units + 1)
  <2>1. v * rate \in Nat
    OBVIOUS
  <2> QED
    BY <2>1, MulTruncateBounds, DivBounds DEF MulTruncate
<1> HIDE DEF units
<1>2. after <= before + v
  BY <1>1, UnitsWorthAmount
<1>3. before \in Int /\ rate * before <= x * FullScale
  BY DivBounds DEF DivPrecisely
<1>4. after \in Int /\ (x + units) * FullScale < rate * (after + 1)
  BY <1>1, DivBounds DEF DivPrecisely
<1>5. one \in Int /\ FullScale < rate * (one + 1)
  BY DivBounds DEF DivPrecisely
<1> HIDE DEF before, after, one
<1>6. before + v < after + one + 2
  <2>1. rate * (before + v) = rate * before + v * rate
    BY <1>3
  <2>2. (x + units) * FullScale = x * FullScale + units * FullScale
    BY <1>1
  <2>3. FullScale * (units + 1) = units * FullScale + FullScale
    BY <1>1
  <2>4. rate * (after + one + 2) = rate * (after + 1) + rate * (one + 1)
    BY <1>4, <1>5
  <2>5. rate * (before + v) < rate * (after + one + 2)
    <3>1. /\ rate * before \in Int /\ v * rate \in Int /\ x * FullScale \in Int
          /\ units * FullScale \in Int /\ rate * (after + 1) \in Int /\ rate * (one + 1) \in Int
      BY <1>1, <1>3, <1>4, <1>5
    <3> QED
      BY <1>1, <1>3, <1>4, <1>5, <2>1, <2>2, <2>3, <2>4, <3>1
  <2> QED
    BY <1>3, <1>4, <1>5, <2>5, TimesCancel
<1> QED
  BY <1>2, <1>3, <1>4, <1>5, <1>6 DEF units, before, after, one

\* At a rate that was rounded down, units are worth at least what the rate was
\* computed for.
LEMMA RateRoundedDown ==
    ASSUME NEW c \in Nat, NEW d \in Nat \ {0}, DivPrecisely(c, d) > 0
    PROVE  DivPrecisely(c, DivPrecisely(c, d)) \in Int /\ d <= DivPrecisely(c, DivPrecisely(c, d))
<1> DEFINE rate == DivPrecisely(c, d)
<1>1. c * FullScale \in Int
  OBVIOUS
<1>2. rate \in Int /\ d * rate <= c * FullScale
  BY <1>1, DivBounds DEF DivPrecisely
<1>3. rate \in Nat \ {0}
  BY <1>2
<1> HIDE DEF rate
<1>4. rate * d <= c * FullScale
  BY <1>2
<1>5. (c * FullScale) \div rate \in Int /\ d <= (c * FullScale) \div rate
  BY <1>1, <1>3, <1>4, DivBounds, DivAtLeast
<1>6. DivPrecisely(c, rate) = (c * FullScale) \div rate
  BY DEF DivPrecisely
<1> QED
  BY <1>5, <1>6 DEF rate

\* By as little is the rate rounded down that they are worth more than that by less
\* than what one unit of the rate makes of it.
LEMMA RateOvershoots ==
    ASSUME NEW c \in Nat, NEW d \in Nat \ {0}, DivPrecisely(c, d) > 0
    PROVE  LET rate == DivPrecisely(c, d)
           IN  /\ rate \in Nat \ {0}
               /\ DivPrecisely(c, rate) \in Int
               /\ DivPrecisely(c, rate) <= d + d \div rate
<1> DEFINE rate == DivPrecisely(c, d)
           worth == DivPrecisely(c, rate)
           over == d \div rate
<1>1. c * FullScale \in Int
  OBVIOUS
<1>2. rate \in Int /\ c * FullScale < d * (rate + 1)
  BY <1>1, DivBounds DEF DivPrecisely
<1>3. rate \in Nat \ {0}
  BY <1>2
<1> HIDE DEF rate
<1>4. worth \in Int /\ rate * worth <= c * FullScale
  BY <1>1, <1>3, DivBounds DEF DivPrecisely
<1>5. over \in Int /\ d < rate * (over + 1)
  BY <1>3, DivBounds
<1> HIDE DEF worth, over
<1>6. rate * worth < rate * (d + over + 1)
  <2>1. d * (rate + 1) = rate * d + d
    BY <1>3
  <2>2. rate * (d + over + 1) = rate * d + rate * (over + 1)
    BY <1>3, <1>5
  <2>3. rate * worth \in Int /\ rate * d \in Int /\ rate * (over + 1) \in Int
    BY <1>3, <1>4, <1>5
  <2> QED
    BY <1>1, <1>2, <1>4, <1>5, <2>1, <2>2, <2>3
<1>7. worth < d + over + 1
  BY <1>3, <1>4, <1>5, <1>6, TimesCancel
<1> QED
  BY <1>3, <1>4, <1>5, <1>7 DEF rate, worth, over

\* A rate of at most the scale: the units of an amount are no more than the amount,
\* and a balance's units are all of the units but, at most, one.
LEMMA UnitsAtPar ==
    ASSUME NEW rate \in Nat \ {0}, rate <= FullScale, NEW v \in Nat
    PROVE  /\ MulTruncate(v, rate) \in Nat /\ MulTruncate(v, rate) <= v
           /\ v - MulTruncate(DivPrecisely(v, rate), rate) \in {0, 1}
<1> DEFINE b == DivPrecisely(v, rate)
           units == MulTruncate(b, rate)
<1>1. MulTruncate(v, rate) \in Nat /\ MulTruncate(v, rate) <= v
  <2>1. v * rate \in Nat /\ v * rate <= v * FullScale
    BY TimesMonotone
  <2>2. v * rate < FullScale * (v + 1)
    BY <2>1
  <2>3. MulTruncate(v, rate) < v + 1
    BY <2>1, <2>2, DivLess DEF MulTruncate
  <2> QED
    BY <2>3, MulTruncateBounds
<1>2. b \in Int /\ rate * b <= v * FullScale /\ v * FullScale < rate * (b + 1)
  BY DivBounds DEF DivPrecisely
<1>3. b \in Nat
  <2>1. rate * 0 <= v * FullScale
    OBVIOUS
  <2>2. 0 <= b
    BY <2>1, DivAtLeast DEF DivPrecisely
  <2> QED
    BY <1>2, <2>2
<1> HIDE DEF b
<1>4. units \in Nat /\ units <= v
  <2>1. b * rate \in Nat /\ b * rate < FullScale * (v + 1)
    BY <1>2, <1>3
  <2>2. units < v + 1
    BY <1>3, <2>1, DivLess DEF MulTruncate
  <2> QED
    BY <1>3, <2>2, MulTruncateBounds
<1>5. v - 1 <= units
  <2>1. rate * (b + 1) = b * rate + rate /\ FullScale * (v - 1) = v * FullScale - FullScale
    BY <1>3
  <2>2. FullScale * (v - 1) <= b * rate
    BY <1>2, <1>3, <2>1
  <2> QED
    BY <1>3, <2>2, DivAtLeast DEF MulTruncate
<1> QED
  BY <1>1, <1>4, <1>5 DEF b

\* The rate of fewer credits than there is supply for them is at most the scale.
LEMMA RateAtPar ==
    ASSUME NEW c \in Nat, NEW d \in Nat \ {0}, c <= d
    PROVE  DivPrecisely(c, d) <= FullScale
<1>1. c * FullScale <= d * FullScale /\ c * FullScale \in Nat
  BY TimesMonotone
<1>2. c * FullScale < d * (FullScale + 1)
  BY <1>1
<1>3. DivPrecisely(c, d) < FullScale + 1
  BY <1>1, <1>2, DivLess DEF DivPrecisely
<1>4. DivPrecisely(c, d) \in Int
  BY <1>1, DivBounds DEF DivPrecisely
<1> QED
  BY <1>3, <1>4
=============================================================================
