-------------------------- MODULE VaultValueProofs --------------------------
(***************************************************************************)
(* No call of the vault takes value from behind the supply, for any assets, *)
(* strategies, prices and arguments: but for a unit of value for each asset *)
(* it leaves the surplus of the value over the supply as it was, or it has  *)
(* rebased, and the supply is the value up to what the rounded rate makes.  *)
(* And redeemAll leaves its caller nothing.                                 *)
(*                                                                         *)
(* The code sums the value strategy by strategy over a list.  Here it is    *)
(* summed asset by asset over the set of approved strategies, so that a     *)
(* call can be looked at for one asset at a time.                           *)
(***************************************************************************)
EXTENDS VaultProofs

USE FullScaleAssumption

\* What strategies of a set hold of an asset is worth so much.
CountedBy(h, a, T) == SumFunction([s \in T |-> CountedIn(h, a, s)])

\* What is counted of an asset, wherever it lies.
AssetValue(h, a) == ValueOf(a, h[ThisVault][a]) + CountedBy(h, a, vault.approved)

\* Two amounts together are worth no less than apart.
LEMMA MergedFloors ==
    ASSUME NEW U \in Nat \ {0}, NEW p \in Nat, NEW x \in Nat, NEW y \in Nat
    PROVE  /\ (x * p) \div U \in Nat /\ (y * p) \div U \in Nat /\ ((x + y) * p) \div U \in Nat
           /\ (x * p) \div U + (y * p) \div U <= ((x + y) * p) \div U
<1> DEFINE A == (x * p) \div U
           B == (y * p) \div U
<1>1. x * p \in Nat /\ y * p \in Nat /\ (x + y) * p \in Nat /\ (x + y) * p = x * p + y * p
  OBVIOUS
<1>2. A \in Nat /\ B \in Nat /\ ((x + y) * p) \div U \in Nat /\ U * A <= x * p /\ U * B <= y * p
  BY <1>1, DivBounds
<1> HIDE DEF A, B
<1>3. U * (A + B) <= (x + y) * p
  <2>1. U * (A + B) = U * A + U * B /\ U * A \in Int /\ U * B \in Int
    BY <1>2
  <2> QED
    BY <1>1, <1>2, <2>1
<1>4. A + B <= ((x + y) * p) \div U
  BY <1>1, <1>2, <1>3, DivAtLeast
<1> QED
  BY <1>2, <1>4 DEF A, B

\* What is moved from one amount to another takes at most one unit of the value of
\* the two.
LEMMA MovedFloors ==
    ASSUME NEW U \in Nat \ {0}, NEW p \in Nat, NEW x \in Nat, NEW y \in Nat, NEW z \in Nat, z <= x
    PROVE  (x * p) \div U + (y * p) \div U <= ((x - z) * p) \div U + ((y + z) * p) \div U + 1
<1> DEFINE A == (x * p) \div U
           B == (y * p) \div U
           A2 == ((x - z) * p) \div U
           B2 == ((y + z) * p) \div U
<1>1. /\ x * p \in Nat /\ y * p \in Nat /\ (x - z) * p \in Int /\ (y + z) * p \in Int
      /\ (x - z) * p + (y + z) * p = x * p + y * p
  <2>1. (x - z) * p = x * p - z * p /\ (y + z) * p = y * p + z * p
    OBVIOUS
  <2>2. x * p \in Nat /\ y * p \in Nat /\ z * p \in Nat
    OBVIOUS
  <2> QED
    BY <2>1, <2>2
<1>2. /\ A \in Int /\ B \in Int /\ A2 \in Int /\ B2 \in Int
      /\ U * A <= x * p /\ U * B <= y * p
      /\ (x - z) * p < U * (A2 + 1) /\ (y + z) * p < U * (B2 + 1)
  BY <1>1, DivBounds
<1> HIDE DEF A, B, A2, B2
<1>3. U * (A + B) < U * (A2 + B2 + 2)
  <2>1. /\ U * (A + B) = U * A + U * B
        /\ U * (A2 + B2 + 2) = U * (A2 + 1) + U * (B2 + 1)
    BY <1>2
  <2>2. /\ U * A \in Int /\ U * B \in Int /\ U * (A2 + 1) \in Int /\ U * (B2 + 1) \in Int
    BY <1>2
  <2> QED
    BY <1>1, <1>2, <2>1, <2>2
<1>4. A + B < A2 + B2 + 2
  BY <1>2, <1>3, TimesCancel
<1> QED
  BY <1>2, <1>4 DEF A, B, A2, B2

\* Amounts are worth no more one by one than as a sum.
LEMMA SummedFloors ==
    ASSUME NEW D, IsFiniteSet(D), NEW f \in [D -> Nat], NEW g \in [D -> Nat],
           NEW U \in Nat \ {0}, NEW p \in Nat, \A x \in D : g[x] = (f[x] * p) \div U
    PROVE  SumFunction(g) <= (SumFunction(f) * p) \div U
<1> DEFINE zeros == [x \in D |-> 0]
           scaled == [x \in D |-> U * g[x] + zeros[x]]
           products == [x \in D |-> p * f[x] + zeros[x]]
<1>1. zeros \in [D -> Nat] /\ scaled \in [D -> Nat] /\ products \in [D -> Nat]
  OBVIOUS
<1>2. \A x \in D : scaled[x] <= products[x]
  <2> SUFFICES ASSUME NEW x \in D PROVE U * g[x] <= p * f[x]
    BY <1>1
  <2>1. f[x] \in Nat /\ g[x] = (f[x] * p) \div U
    OBVIOUS
  <2>2. f[x] * p \in Int /\ p * f[x] = f[x] * p
    BY <2>1
  <2> QED
    BY <2>1, <2>2, DivBounds
<1>3. SumFunction(zeros) = 0
  <2>1. Cardinality(D) \in Nat /\ SumFunction(zeros) = Cardinality(D) * 0
    BY FS_CardinalityType, SumConstant
  <2> QED
    BY <2>1
<1>4. \A x \in D : scaled[x] = U * g[x] + zeros[x]
  OBVIOUS
<1>5. \A x \in D : products[x] = p * f[x] + zeros[x]
  OBVIOUS
<1> HIDE DEF zeros, scaled, products
<1>6. SumFunction(scaled) = U * SumFunction(g) + SumFunction(zeros)
  BY <1>1, <1>4, SumLinear
<1>7. SumFunction(products) = p * SumFunction(f) + SumFunction(zeros)
  BY <1>1, <1>5, SumLinear
<1>8. SumFunction(scaled) <= SumFunction(products)
  BY <1>1, <1>2, SumMonotone
<1>9. SumFunction(f) \in Nat /\ SumFunction(g) \in Nat
  BY SumIsTotal
<1> DEFINE F == SumFunction(f)
           G == SumFunction(g)
<1>10. F \in Nat /\ G \in Nat /\ G \in Int /\ U * G + 0 <= p * F + 0
  BY <1>3, <1>6, <1>7, <1>8, <1>9
<1> HIDE DEF F, G
<1>11. U * G <= F * p /\ F * p \in Int
  BY <1>10
<1> DEFINE n == F * p
<1>12. n \in Int /\ U * G <= n
  BY <1>11
<1> HIDE DEF n
<1>13. G <= n \div U
  BY <1>10, <1>12, DivAtLeast, Zenon
<1> QED
  BY <1>13 DEF F, G, n

\* Nothing is worth nothing.
LEMMA ValueOfNothing ==
    ASSUME Priced, NEW a \in Assets
    PROVE  ValueOf(a, 0) = 0
<1>1. Unit[a] \in Nat \ {0} /\ price[a] \in Nat
  BY AssetsAssumption DEF Priced
<1>2. 0 * price[a] = 0 /\ 0 \div Unit[a] = 0
  BY <1>1
<1> QED
  BY <1>2 DEF ValueOf

\* The same for amounts of an asset at its price.
LEMMA ValueMerged ==
    ASSUME Priced, NEW a \in Assets, NEW x \in Nat, NEW y \in Nat
    PROVE  ValueOf(a, x) + ValueOf(a, y) <= ValueOf(a, x + y)
<1>1. Unit[a] \in Nat \ {0} /\ price[a] \in Nat
  BY AssetsAssumption DEF Priced
<1> QED
  BY <1>1, MergedFloors DEF ValueOf

\* Of two amounts of an asset, moving a part from one to the other loses at most a unit.
LEMMA ValueMoved ==
    ASSUME Priced, NEW a \in Assets, NEW x \in Nat, NEW y \in Nat, NEW z \in Nat, z <= x
    PROVE  ValueOf(a, x) + ValueOf(a, y) <= ValueOf(a, x - z) + ValueOf(a, y + z) + 1
<1>1. Unit[a] \in Nat \ {0} /\ price[a] \in Nat
  BY AssetsAssumption DEF Priced
<1> QED
  BY <1>1, MovedFloors DEF ValueOf

\* Amounts valued one by one are worth no more than their sum.
LEMMA ValueSummed ==
    ASSUME Priced, NEW a \in Assets, NEW D, IsFiniteSet(D), NEW f \in [D -> Nat]
    PROVE  SumFunction([x \in D |-> ValueOf(a, f[x])]) <= ValueOf(a, SumFunction(f))
<1> DEFINE g == [x \in D |-> ValueOf(a, f[x])]
<1>1. Unit[a] \in Nat \ {0} /\ price[a] \in Nat
  BY AssetsAssumption DEF Priced
<1>2. g \in [D -> Nat]
  BY AmountTypes
<1>3. \A x \in D : g[x] = (f[x] * price[a]) \div Unit[a]
  BY DEF ValueOf
<1> HIDE DEF g
<1>4. SumFunction(g) <= (SumFunction(f) * price[a]) \div Unit[a]
  BY <1>1, <1>2, <1>3, SummedFloors
<1> QED
  BY <1>4 DEF g, ValueOf

\* Strategies that are approved are finitely many, and what they hold is counted.
LEMMA CountedTypes ==
    ASSUME Priced, NEW h \in Holdings, NEW a \in Assets, NEW T \in SUBSET Strategies
    PROVE  /\ IsFiniteSet(T) /\ ThisVault \notin Strategies
           /\ \A s \in T : h[s][a] \in Nat /\ CountedIn(h, a, s) \in Nat
           /\ CountedBy(h, a, T) \in Nat
           /\ h[ThisVault][a] \in Nat /\ ValueOf(a, h[ThisVault][a]) \in Nat
<1>1. IsFiniteSet(T) /\ ThisVault \notin Strategies
  BY StrategiesAssumption, AssetsAssumption, FS_Subset
<1>2. \A p \in Places : h[p][a] \in Nat
  BY DEF Holdings
<1>3. \A s \in T : h[s][a] \in Nat /\ CountedIn(h, a, s) \in Nat
  BY <1>2, PlacesKnown, AmountTypes DEF CountedIn
<1>4. CountedBy(h, a, T) \in Nat
  <2> DEFINE f == [s \in T |-> CountedIn(h, a, s)]
  <2>1. f \in [T -> Nat]
    BY <1>3
  <2> HIDE DEF f
  <2>2. SumFunction(f) \in Nat
    BY <1>1, <2>1, SumIsTotal
  <2> QED
    BY <2>2 DEF CountedBy, f
<1> QED
  BY <1>1, <1>2, <1>3, <1>4, PlacesKnown, AmountTypes

\* The list that is walked and the set of approved strategies count the same.
LEMMA CountedBySet ==
    ASSUME Priced, StrategyListsAgree, NEW h \in Holdings, NEW a \in Assets
    PROVE  Counted(h, a) = CountedBy(h, a, vault.approved)
<1> DEFINE list == vault.allStrategies
           D == DOMAIN list
           T == vault.approved
           g == [s \in T |-> CountedIn(h, a, s)]
<1>1. vault \in VaultStorage /\ T \in SUBSET Strategies /\ IsFiniteSet(D)
  BY ListsFinite DEF Priced, VaultStorage
<1>2. list \in Bijection(D, T)
  <2>1. list \in Seq(Strategies)
    BY <1>1 DEF VaultStorage, StrategyLists
  <2>2. IsInjective(list) /\ T = ToSet(list)
    BY DEF StrategyListsAgree
  <2>3. T = {list[i] : i \in D}
    BY <2>1, <2>2 DEF ToSet
  <2>4. list \in [D -> T]
    BY <2>1, <2>3
  <2> HIDE DEF D, T, list
  <2> QED
    BY <2>2, <2>3, <2>4 DEF Bijection, Injection, Surjection
<1>3. g \in [T -> Nat]
  BY <1>1, CountedTypes
<1>4. Counted(h, a) = SumFunction([i \in D |-> g[list[i]]])
  <2>1. \A i \in D : list[i] \in T
    BY <1>2 DEF Bijection, Injection
  <2>2. [i \in D |-> CountedIn(h, a, list[i])] = [i \in D |-> g[list[i]]]
    BY <2>1
  <2> QED
    BY <2>2 DEF Counted
<1> HIDE DEF D, list, T, g
<1>5. SumFunction([i \in D |-> g[list[i]]]) = SumFunction(g)
  BY <1>1, <1>2, <1>3, SumRenamed
<1> QED
  BY <1>4, <1>5 DEF CountedBy, g, T

\* The value is that of the assets, wherever they lie.
LEMMA ValueByAssets ==
    Priced /\ StrategyListsAgree => \A h \in Holdings :
        /\ IsFiniteSet(Supported) /\ Supported \subseteq Assets
        /\ \A a \in Supported : AssetValue(h, a) \in Nat
        /\ TotalValue(h) = SumFunction([a \in Supported |-> AssetValue(h, a)])
<1> SUFFICES ASSUME Priced, StrategyListsAgree, NEW h \in Holdings
             PROVE  /\ IsFiniteSet(Supported) /\ Supported \subseteq Assets
                    /\ \A a \in Supported : AssetValue(h, a) \in Nat
                    /\ TotalValue(h) = SumFunction([a \in Supported |-> AssetValue(h, a)])
  OBVIOUS
<1> DEFINE D == Supported
           v == [a \in D |-> ValueOf(a, h[ThisVault][a])]
           t == [a \in D |-> Counted(h, a)]
           w == [a \in D |-> AssetValue(h, a)]
<1>1. IsFiniteSet(D) /\ D \subseteq Assets /\ vault.approved \in SUBSET Strategies
  BY ListsFinite DEF Priced, VaultStorage
<1>2. ASSUME NEW a \in D
      PROVE  /\ ValueOf(a, h[ThisVault][a]) \in Nat /\ Counted(h, a) \in Nat
             /\ AssetValue(h, a) = ValueOf(a, h[ThisVault][a]) + Counted(h, a)
  BY <1>1, CountedTypes, CountedBySet DEF AssetValue
<1>3. v \in [D -> Nat] /\ t \in [D -> Nat] /\ w \in [D -> Nat] /\ \A a \in D : w[a] = v[a] + t[a]
  BY <1>2
<1>4. \A a \in D : AssetValue(h, a) \in Nat
  BY <1>2
<1>5. TotalValueInVault(h) = SumFunction(v)
  BY DEF TotalValueInVault
<1>6. TotalValueInStrategies(h) = SumFunction(t)
  BY CountedByAssets
<1>7. SumFunction(w) = SumFunction(v) + SumFunction(t)
  <2> HIDE DEF v, t, w, D
  <2> QED
    BY <1>1, <1>3, SumPlus
<1> QED
  BY <1>1, <1>4, <1>5, <1>6, <1>7 DEF TotalValue

\* The same in the next state.
LEMMA ValueByAssetsNext ==
    (Priced /\ StrategyListsAgree => \A h \in Holdings :
        /\ IsFiniteSet(Supported) /\ Supported \subseteq Assets
        /\ \A a \in Supported : AssetValue(h, a) \in Nat
        /\ TotalValue(h) = SumFunction([a \in Supported |-> AssetValue(h, a)]))'
  BY ValueByAssets, PTL

\* What is added asset by asset, but for one unit of value each, is added in all.
LEMMA ValueAdded ==
    ASSUME Priced, StrategyListsAgree, NEW h \in Holdings, NEW k \in Holdings,
           NEW g \in [Supported -> Nat],
           \A a \in Supported : AssetValue(h, a) + g[a] <= AssetValue(k, a) + 1
    PROVE  /\ TotalValue(h) \in Nat /\ TotalValue(k) \in Nat /\ SumFunction(g) \in Nat /\ Dust \in Nat
           /\ TotalValue(h) + SumFunction(g) <= TotalValue(k) + Dust
<1> DEFINE D == Supported
           v == [a \in D |-> AssetValue(h, a)]
           w == [a \in D |-> AssetValue(k, a)]
           ones == [a \in D |-> 1]
           left == [a \in D |-> v[a] + g[a]]
           right == [a \in D |-> w[a] + ones[a]]
<1>1. /\ IsFiniteSet(D)
      /\ \A a \in D : AssetValue(h, a) \in Nat /\ AssetValue(k, a) \in Nat
      /\ TotalValue(h) = SumFunction(v) /\ TotalValue(k) = SumFunction(w)
  BY ValueByAssets
<1>2. /\ v \in [D -> Nat] /\ w \in [D -> Nat] /\ ones \in [D -> Nat]
      /\ left \in [D -> Nat] /\ right \in [D -> Nat]
  BY <1>1
<1>3. \A a \in D : left[a] = v[a] + g[a]
  OBVIOUS
<1>4. \A a \in D : right[a] = w[a] + ones[a]
  OBVIOUS
<1>5. \A a \in D : left[a] <= right[a]
  BY <1>1
<1>6. SumFunction(ones) = Dust /\ Dust \in Nat
  <2>1. Cardinality(D) \in Nat /\ SumFunction(ones) = Cardinality(D) * 1
    BY <1>1, FS_CardinalityType, SumConstant
  <2> QED
    BY <2>1 DEF Dust
<1> HIDE DEF v, w, ones, left, right
<1>7. SumFunction(left) = SumFunction(v) + SumFunction(g)
  BY <1>1, <1>2, <1>3, SumPlus
<1>8. SumFunction(right) = SumFunction(w) + SumFunction(ones)
  BY <1>1, <1>2, <1>4, SumPlus
<1>9. SumFunction(left) <= SumFunction(right)
  BY <1>1, <1>2, <1>5, SumMonotone
<1>10. SumFunction(v) \in Nat /\ SumFunction(w) \in Nat /\ SumFunction(g) \in Nat
  BY <1>1, <1>2, SumIsTotal
<1> QED
  BY <1>1, <1>6, <1>7, <1>8, <1>9, <1>10

\* So a loss of one unit for each asset is the most a call loses that loses no more
\* of any one.
LEMMA ValueKept ==
    ASSUME Priced, StrategyListsAgree, NEW h \in Holdings, NEW k \in Holdings,
           \A a \in Supported : AssetValue(h, a) <= AssetValue(k, a) + 1
    PROVE  /\ TotalValue(h) \in Nat /\ TotalValue(k) \in Nat /\ Dust \in Nat
           /\ TotalValue(h) <= TotalValue(k) + Dust
<1> DEFINE zeros == [a \in Supported |-> 0]
<1>1. \A a \in Supported : AssetValue(h, a) \in Nat /\ AssetValue(k, a) \in Nat
  BY ValueByAssets
<1>2. zeros \in [Supported -> Nat] /\ \A a \in Supported : zeros[a] = 0
  OBVIOUS
<1> HIDE DEF zeros
<1>3. \A a \in Supported : AssetValue(h, a) + zeros[a] <= AssetValue(k, a) + 1
  BY <1>1, <1>2
<1>4. /\ TotalValue(h) \in Nat /\ TotalValue(k) \in Nat /\ SumFunction(zeros) \in Nat /\ Dust \in Nat
      /\ TotalValue(h) + SumFunction(zeros) <= TotalValue(k) + Dust
  BY <1>2, <1>3, ValueAdded
<1> QED
  BY <1>4

\* What comes to the vault and stays there adds its value.
LEMMA ValueReceived ==
    ASSUME Priced, NEW h \in Holdings, NEW k \in Holdings, NEW a \in Assets, NEW x \in Nat,
           k[ThisVault][a] = h[ThisVault][a] + x, \A s \in Strategies : k[s][a] = h[s][a]
    PROVE  AssetValue(h, a) + ValueOf(a, x) <= AssetValue(k, a)
<1>1. vault.approved \in SUBSET Strategies
  BY DEF Priced, VaultStorage
<1>2. CountedBy(h, a, vault.approved) = CountedBy(k, a, vault.approved)
  <2>1. \A s \in vault.approved : CountedIn(h, a, s) = CountedIn(k, a, s)
    BY <1>1 DEF CountedIn
  <2>2. [s \in vault.approved |-> CountedIn(h, a, s)] = [s \in vault.approved |-> CountedIn(k, a, s)]
    BY <2>1
  <2> QED
    BY <2>2 DEF CountedBy
<1>3. /\ h[ThisVault][a] \in Nat /\ ValueOf(a, h[ThisVault][a]) \in Nat /\ ValueOf(a, x) \in Nat
      /\ ValueOf(a, k[ThisVault][a]) \in Nat /\ CountedBy(k, a, vault.approved) \in Nat
  BY <1>1, CountedTypes, AmountTypes
<1>4. ValueOf(a, h[ThisVault][a]) + ValueOf(a, x) <= ValueOf(a, k[ThisVault][a])
  BY <1>3, ValueMerged
<1> QED
  BY <1>2, <1>3, <1>4 DEF AssetValue

\* One strategy has another amount, and the others the same.
LEMMA CountedChange ==
    ASSUME Priced, NEW h \in Holdings, NEW k \in Holdings, NEW a \in Assets, NEW d \in vault.approved,
           \A s \in vault.approved \ {d} : CountedIn(k, a, s) = CountedIn(h, a, s)
    PROVE  CountedBy(k, a, vault.approved)
              = CountedBy(h, a, vault.approved) - CountedIn(h, a, d) + CountedIn(k, a, d)
<1> DEFINE T == vault.approved
           f == [s \in T |-> CountedIn(h, a, s)]
           g == [s \in T |-> CountedIn(k, a, s)]
<1>1. T \in SUBSET Strategies
  BY DEF Priced, VaultStorage
<1>2. IsFiniteSet(T) /\ f \in [T -> Nat] /\ g \in [T -> Nat]
  BY <1>1, CountedTypes
<1>3. \A s \in T \ {d} : g[s] = f[s]
  OBVIOUS
<1> HIDE DEF f, g, T
<1>4. d \in T
  BY DEF T
<1>5. SumFunction(g) = SumFunction(f) - f[d] + g[d]
  BY <1>2, <1>3, <1>4, SumChange
<1> QED
  BY <1>5 DEF f, g, T, CountedBy

\* A deposit into a strategy that is approved and holds the asset takes at most one
\* unit of the asset's value.
LEMMA ValueDeposited ==
    ASSUME Priced, NEW h \in Holdings, NEW modifier \in 1 .. FullScale, NEW a \in Supported,
           LET d == vault.assetDefaultStrategies[a]
           IN  d # Nobody => d \in vault.approved /\ a \in Supports[d]
    PROVE  AssetValue(h, a) <= AssetValue(Deposited(h, modifier), a) + 1
<1> DEFINE k == Deposited(h, modifier)
           d == vault.assetDefaultStrategies[a]
           T == vault.approved
<1>1. vault \in VaultStorage /\ T \in SUBSET Strategies /\ a \in Assets
  BY ListsFinite DEF Priced, VaultStorage
<1>2. k \in Holdings
  BY <1>1, DepositTyped
<1>3. PICK x \in Nat :
        /\ x <= h[ThisVault][a]
        /\ k[ThisVault][a] = h[ThisVault][a] - x
        /\ \/ d = Nobody /\ x = 0 /\ \A s \in Strategies : k[s][a] = h[s][a]
           \/ /\ d \in Strategies /\ k[d][a] = h[d][a] + x
              /\ \A s \in Strategies \ {d} : k[s][a] = h[s][a]
  BY DepositMoves
<1> HIDE DEF k
<1>4. CASE d = Nobody /\ x = 0 /\ \A s \in Strategies : k[s][a] = h[s][a]
  <2>1. k[ThisVault][a] = h[ThisVault][a] + 0 /\ ValueOf(a, 0) = 0
    <3>1. h[ThisVault][a] \in Nat
      BY <1>1, CountedTypes
    <3> QED
      BY <1>1, <1>3, <1>4, <3>1, ValueOfNothing
  <2>2. AssetValue(h, a) + ValueOf(a, 0) <= AssetValue(k, a)
    BY <1>1, <1>2, <1>4, <2>1, ValueReceived
  <2>3. AssetValue(h, a) \in Int /\ AssetValue(k, a) \in Int
    BY <1>1, <1>2, CountedTypes DEF AssetValue
  <2> QED
    BY <2>1, <2>2, <2>3 DEF k
<1>5. CASE /\ d \in Strategies /\ k[d][a] = h[d][a] + x
           /\ \A s \in Strategies \ {d} : k[s][a] = h[s][a]
  <2>1. d \in T /\ a \in Supports[d]
    BY <1>5, AssetsAssumption
  <2>2. \A s \in T \ {d} : CountedIn(k, a, s) = CountedIn(h, a, s)
    BY <1>1, <1>5 DEF CountedIn
  <2>3. CountedBy(k, a, T) = CountedBy(h, a, T) - CountedIn(h, a, d) + CountedIn(k, a, d)
    BY <1>1, <1>2, <2>1, <2>2, CountedChange
  <2>4. CountedIn(h, a, d) = ValueOf(a, h[d][a]) /\ CountedIn(k, a, d) = ValueOf(a, h[d][a] + x)
    BY <1>5, <2>1 DEF CountedIn
  <2>5. /\ h[ThisVault][a] \in Nat /\ h[d][a] \in Nat
        /\ CountedBy(h, a, T) \in Nat /\ CountedBy(k, a, T) \in Nat
        /\ CountedIn(h, a, d) \in Nat /\ CountedIn(k, a, d) \in Nat
        /\ ValueOf(a, h[ThisVault][a]) \in Nat /\ ValueOf(a, k[ThisVault][a]) \in Nat
    BY <1>1, <1>2, <2>1, CountedTypes
  <2>6. ValueOf(a, h[ThisVault][a]) + ValueOf(a, h[d][a])
           <= ValueOf(a, h[ThisVault][a] - x) + ValueOf(a, h[d][a] + x) + 1
    BY <1>1, <1>3, <2>5, ValueMoved
  <2> HIDE DEF T, d
  <2>7. AssetValue(h, a) <= AssetValue(k, a) + 1
    BY <1>3, <2>3, <2>4, <2>5, <2>6 DEF AssetValue, T
  <2> QED
    BY <2>7 DEF k
<1> QED
  BY <1>3, <1>4, <1>5

\* Rewards add to the vault.
LEMMA ValueHarvested ==
    ASSUME Priced, NEW h \in Holdings, NEW k \in Harvested(h), NEW a \in Assets
    PROVE  k \in Holdings /\ AssetValue(h, a) <= AssetValue(k, a)
<1>1. k \in Holdings /\ h[ThisVault][a] <= k[ThisVault][a] /\ \A s \in Strategies : k[s][a] = h[s][a]
  BY HarvestAdds
<1>2. vault.approved \in SUBSET Strategies
  BY DEF Priced, VaultStorage
<1>3. h[ThisVault][a] \in Nat /\ k[ThisVault][a] \in Nat
      /\ AssetValue(h, a) \in Int /\ AssetValue(k, a) \in Int
  BY <1>1, <1>2, CountedTypes DEF AssetValue
<1> DEFINE x == k[ThisVault][a] - h[ThisVault][a]
<1>4. x \in Nat /\ k[ThisVault][a] = h[ThisVault][a] + x
  BY <1>1, <1>3
<1> HIDE DEF x
<1>5. AssetValue(h, a) + ValueOf(a, x) <= AssetValue(k, a) /\ ValueOf(a, x) \in Nat
  BY <1>1, <1>4, ValueReceived, AmountTypes
<1> QED
  BY <1>1, <1>3, <1>5

\* A strategy is made the default only of an asset it has a platform token for.
DefaultsSupport ==
    \A a \in Assets : LET d == vault.assetDefaultStrategies[a] IN d # Nobody => a \in Supports[d]

\* An allocation takes at most one unit of the value of each asset.
LEMMA ValueAllocated ==
    ASSUME Priced, DefaultStrategiesApproved, DefaultsSupport,
           NEW h \in Holdings, NEW k \in Allocated(h), NEW a \in Supported
    PROVE  k \in Holdings /\ AssetValue(h, a) <= AssetValue(k, a) + 1
<1> DEFINE modifier == VaultBufferModifier(h)
           m == Deposited(h, modifier)
<1>1. vault.approved \in SUBSET Strategies /\ a \in Assets /\ modifier \in Int /\ modifier <= FullScale
  BY ListsFinite, ModifierTyped DEF Priced, VaultStorage
<1>2. k \in Holdings
  BY AllocateTyped
<1>3. AssetValue(h, a) \in Nat /\ AssetValue(k, a) \in Nat
  BY <1>1, <1>2, CountedTypes DEF AssetValue
<1>4. CASE modifier <= 0
  <2>1. k = h
    BY <1>1, <1>4 DEF Allocated
  <2> QED
    BY <1>2, <1>3, <2>1
<1>5. CASE modifier > 0
  <2>1. k = m \/ k \in Harvested(m)
    BY <1>1, <1>5 DEF Allocated
  <2>2. m \in Holdings
    BY <1>1, <1>5, DepositTyped DEF Priced
  <2>3. LET d == vault.assetDefaultStrategies[a]
        IN  d # Nobody => d \in vault.approved /\ a \in Supports[d]
    BY <1>1 DEF DefaultStrategiesApproved, DefaultsSupport
  <2>4. AssetValue(h, a) <= AssetValue(m, a) + 1
    BY <1>1, <1>5, <2>3, ValueDeposited
  <2> HIDE DEF m
  <2>5. AssetValue(m, a) \in Nat
    BY <1>1, <2>2, CountedTypes DEF AssetValue
  <2>6. AssetValue(m, a) <= AssetValue(k, a)
    BY <1>1, <2>1, <2>2, <2>5, ValueHarvested
  <2> QED
    BY <1>2, <1>3, <2>4, <2>5, <2>6
<1> QED
  BY <1>1, <1>4, <1>5

\* What is withdrawn from approved strategies is worth no less in the vault.
LEMMA ValueWithdrawn ==
    ASSUME Priced, NEW h \in Holdings, NEW S \in SUBSET vault.approved, NEW a \in Assets
    PROVE  /\ AllWithdrawn(h, S) \in Holdings
           /\ AssetValue(h, a) <= AssetValue(AllWithdrawn(h, S), a)
<1> DEFINE k == AllWithdrawn(h, S)
           T == vault.approved
           all == [s \in S |-> h[s][a]]
           values == [s \in S |-> ValueOf(a, all[s])]
           f == [s \in T |-> CountedIn(h, a, s)]
           out == [s \in T |-> IF s \in S THEN CountedIn(h, a, s) ELSE 0]
           stay == [s \in T |-> CountedIn(k, a, s)]
<1>1. T \in SUBSET Strategies /\ S \in SUBSET Strategies
  BY DEF Priced, VaultStorage
<1>2. IsFiniteSet(S) /\ IsFiniteSet(T) /\ ThisVault \notin Strategies
  BY <1>1, CountedTypes
<1>3. k \in Holdings
  BY <1>1, <1>2, WithdrawTyped
<1>4. /\ k[ThisVault][a] = h[ThisVault][a] + SumFunction(all)
      /\ \A s \in Strategies : k[s][a] = IF s \in S THEN 0 ELSE h[s][a]
  BY <1>2, PlacesKnown DEF AllWithdrawn
<1>5. \A s \in Strategies : h[s][a] \in Nat /\ CountedIn(h, a, s) \in Nat /\ CountedIn(k, a, s) \in Nat
  <2> HIDE DEF k
  <2> QED
    BY <1>3, CountedTypes
<1> HIDE DEF k
<1>6. /\ all \in [S -> Nat] /\ f \in [T -> Nat] /\ out \in [T -> Nat] /\ stay \in [T -> Nat]
  BY <1>1, <1>5
<1>7. values \in [S -> Nat]
  BY <1>1, <1>5, AmountTypes
<1>8. SumFunction(values) <= ValueOf(a, SumFunction(all))
  <2> HIDE DEF all
  <2> QED
    BY <1>2, <1>6, ValueSummed
<1>9. \A s \in T : f[s] = out[s] + stay[s]
  <2> SUFFICES ASSUME NEW s \in T PROVE CountedIn(h, a, s) = out[s] + CountedIn(k, a, s)
    OBVIOUS
  <2>1. CASE s \in S
    <3>1. CountedIn(k, a, s) = 0
      BY <1>1, <1>4, <2>1, ValueOfNothing DEF CountedIn
    <3> QED
      BY <1>1, <1>5, <2>1, <3>1
  <2>2. CASE s \notin S
    <3>1. CountedIn(k, a, s) = CountedIn(h, a, s)
      BY <1>1, <1>4, <2>2 DEF CountedIn
    <3> QED
      BY <1>1, <1>5, <2>2, <3>1
  <2> QED
    BY <2>1, <2>2
<1>10. Restrict(out, S) \in [S -> Nat] /\ \A s \in S : Restrict(out, S)[s] <= values[s]
  <2> SUFFICES ASSUME NEW s \in S
               PROVE  Restrict(out, S)[s] \in Nat /\ Restrict(out, S)[s] <= values[s]
    BY DEF Restrict
  <2>1. s \in T /\ s \in Strategies
    BY <1>1
  <2>2. Restrict(out, S)[s] = CountedIn(h, a, s) /\ values[s] = ValueOf(a, h[s][a])
    BY <2>1 DEF Restrict
  <2>3. ValueOf(a, h[s][a]) \in Nat
    BY <1>5, <2>1, AmountTypes
  <2>4. CountedIn(h, a, s) \in Nat /\ CountedIn(h, a, s) <= ValueOf(a, h[s][a])
    BY <1>5, <2>1, <2>3 DEF CountedIn
  <2> QED
    BY <2>2, <2>4
<1>11. \A s \in T \ S : out[s] = 0
  OBVIOUS
<1>12. /\ CountedBy(h, a, T) = SumFunction(f) /\ CountedBy(k, a, T) = SumFunction(stay)
  BY DEF CountedBy
<1> DEFINE part == Restrict(out, S)
<1> HIDE DEF all, values, f, out, stay, T
<1>13. SumFunction(f) = SumFunction(out) + SumFunction(stay)
  BY <1>2, <1>6, <1>9, SumPlus
<1>14. SumFunction(part) = SumFunction(out)
  <2>1. S \in SUBSET T
    BY DEF T
  <2> QED
    BY <1>2, <1>6, <1>11, <2>1, SumOfPart
<1>15. SumFunction(part) <= SumFunction(values)
  <2>1. part \in [S -> Nat] /\ \A s \in S : part[s] <= values[s]
    BY <1>10
  <2> HIDE DEF part
  <2> QED
    BY <1>2, <1>7, <2>1, SumMonotone
<1>16. /\ SumFunction(all) \in Nat /\ SumFunction(values) \in Nat
       /\ SumFunction(out) \in Nat /\ SumFunction(stay) \in Nat
  BY <1>2, <1>6, <1>7, SumIsTotal
<1>17. h[ThisVault][a] \in Nat /\ ValueOf(a, h[ThisVault][a]) \in Nat
       /\ ValueOf(a, k[ThisVault][a]) \in Nat /\ ValueOf(a, SumFunction(all)) \in Nat
  BY <1>1, <1>3, <1>16, CountedTypes, AmountTypes DEF T
<1>18. ValueOf(a, h[ThisVault][a]) + ValueOf(a, SumFunction(all)) <= ValueOf(a, k[ThisVault][a])
  BY <1>4, <1>16, <1>17, ValueMerged
<1> DEFINE V == ValueOf(a, h[ThisVault][a])
           V2 == ValueOf(a, k[ThisVault][a])
<1>19. V + SumFunction(f) <= V2 + SumFunction(stay)
  BY <1>8, <1>13, <1>14, <1>15, <1>16, <1>17, <1>18
<1>20. AssetValue(h, a) <= AssetValue(k, a)
  BY <1>12, <1>19 DEF AssetValue, T
<1> QED
  BY <1>3, <1>20 DEF k

\* What strategies hand each other takes at most one unit of the asset's value.
LEMMA ValueReallocated ==
    ASSUME Priced, NEW h \in Holdings, NEW from \in vault.approved, NEW to \in vault.approved,
           NEW b \in Assets, b \in Supports[to], NEW x \in Nat, h[from][b] >= x, NEW a \in Assets
    PROVE  /\ Move(h, from, to, b, x) \in Holdings
           /\ AssetValue(h, a) <= AssetValue(Move(h, from, to, b, x), a) + 1
<1> DEFINE k == Move(h, from, to, b, x)
           T == vault.approved
           f == [s \in T |-> CountedIn(h, a, s)]
           g == [s \in T |-> CountedIn(k, a, s)]
           V == ValueOf(a, h[ThisVault][a])
<1>1. T \in SUBSET Strategies /\ from \in Strategies /\ to \in Strategies /\ ThisVault \notin Strategies
  BY AssetsAssumption DEF Priced, VaultStorage
<1>2. k \in Holdings
  BY <1>1, PlacesKnown, MoveTyped
<1>3. h[from][b] \in Nat /\ h[to][b] \in Nat /\ \A p \in Places, c \in Assets : h[p][c] \in Nat
  BY <1>1, PlacesKnown DEF Holdings
<1>4. /\ k[ThisVault] = h[ThisVault]
      /\ \A s \in Strategies, c \in Assets : c # b \/ s \notin {from, to} => k[s][c] = h[s][c]
      /\ from # to => k[from][b] = h[from][b] - x /\ k[to][b] = h[to][b] + x
      /\ from = to => k[from][b] = h[from][b]
  <2>1. \A p \in Places : h[p] \in [Assets -> Nat]
    BY DEF Holdings
  <2> QED
    BY <1>1, <1>3, <2>1, PlacesKnown DEF Move, Holdings
<1>5. AssetValue(h, a) \in Nat /\ AssetValue(k, a) \in Nat /\ V \in Nat
  <2> HIDE DEF k
  <2> QED
    BY <1>1, <1>2, CountedTypes DEF AssetValue
<1>6. k[ThisVault][a] = h[ThisVault][a]
  BY <1>4
<1> HIDE DEF k
<1>7. CASE a # b \/ from = to
  <2>1. \A s \in T : k[s][a] = h[s][a]
    BY <1>1, <1>4, <1>7
  <2>2. f = g
    BY <2>1 DEF CountedIn
  <2>3. AssetValue(h, a) = AssetValue(k, a)
    BY <1>6, <2>2 DEF AssetValue, CountedBy
  <2> QED
    BY <1>2, <1>5, <2>3 DEF k
<1>8. CASE a = b /\ from # to
  <2>1. /\ \A s \in T \ {from, to} : k[s][a] = h[s][a]
        /\ k[from][a] = h[from][a] - x /\ k[to][a] = h[to][a] + x
    BY <1>1, <1>4, <1>8
  <2> DEFINE half == [f EXCEPT ![from] = g[from]]
  <2>2. \A s \in T : CountedIn(h, a, s) \in Nat /\ CountedIn(k, a, s) \in Nat
    BY <1>1, <1>2, CountedTypes
  <2>3. IsFiniteSet(T) /\ f \in [T -> Nat] /\ g \in [T -> Nat] /\ half \in [T -> Nat]
    BY <1>1, <2>2, CountedTypes
  <2>4. \A s \in T \ {from} : half[s] = f[s]
    OBVIOUS
  <2>5. \A s \in T \ {to} : g[s] = half[s]
    BY <2>1 DEF CountedIn
  <2>6. half[from] = g[from] /\ half[to] = f[to]
    BY <1>8
  <2>7. f[from] = CountedIn(h, a, from) /\ g[from] = CountedIn(k, a, from)
        /\ f[to] = ValueOf(a, h[to][a]) /\ g[to] = ValueOf(a, h[to][a] + x)
    BY <1>8, <2>1 DEF CountedIn
  <2>8. CountedBy(h, a, T) = SumFunction(f) /\ CountedBy(k, a, T) = SumFunction(g)
    BY DEF CountedBy
  <2>9. ValueOf(a, h[to][a]) <= ValueOf(a, h[to][a] + x)
        /\ ValueOf(a, h[to][a]) \in Nat /\ ValueOf(a, h[to][a] + x) \in Nat
    <3> DEFINE y == h[to][a]
    <3>1. y \in Nat /\ y + x \in Nat /\ y <= y + x
      BY <1>3, <1>8
    <3> HIDE DEF y
    <3>2. ValueOf(a, y) <= ValueOf(a, y + x) /\ ValueOf(a, y) \in Nat /\ ValueOf(a, y + x) \in Nat
      BY <3>1, ValueMonotone, AmountTypes
    <3> QED
      BY <3>2 DEF y
  <2>10. f[from] + f[to] <= g[from] + g[to] + 1
    <3>1. CASE a \in Supports[from]
      <4>1. ValueOf(a, h[from][a]) + ValueOf(a, h[to][a])
              <= ValueOf(a, h[from][a] - x) + ValueOf(a, h[to][a] + x) + 1
        BY <1>3, <1>8, ValueMoved
      <4> QED
        BY <2>1, <2>7, <3>1, <4>1 DEF CountedIn
    <3>2. CASE a \notin Supports[from]
      BY <2>7, <2>9, <3>2 DEF CountedIn
    <3> QED
      BY <3>1, <3>2
  <2> HIDE DEF f, g, half, T
  <2>11. from \in T /\ to \in T
    BY DEF T
  <2>12. SumFunction(half) = SumFunction(f) - f[from] + half[from]
    BY <2>3, <2>4, <2>11, SumChange
  <2>13. SumFunction(g) = SumFunction(half) - half[to] + g[to]
    BY <2>3, <2>5, <2>11, SumChange
  <2>14. SumFunction(f) \in Nat /\ SumFunction(half) \in Nat /\ SumFunction(g) \in Nat
         /\ f[from] \in Nat /\ f[to] \in Nat /\ g[from] \in Nat /\ g[to] \in Nat
    BY <2>3, <2>11, SumIsTotal
  <2>15. V + SumFunction(f) <= V + SumFunction(g) + 1
    BY <1>5, <2>6, <2>10, <2>12, <2>13, <2>14
  <2>16. AssetValue(h, a) <= AssetValue(k, a) + 1
    BY <1>6, <2>8, <2>15 DEF AssetValue, T
  <2> QED
    BY <1>2, <2>16 DEF k
<1> QED
  BY <1>7, <1>8

\* Only setAssetDefaultStrategy makes a strategy the default of an asset, and it asks
\* whether the strategy has a platform token for it.
LEMMA DefaultsInit == Init => DefaultsSupport
  BY DEF Init, DefaultsSupport

\* Every step keeps it.
LEMMA DefaultsStep == VInv /\ DefaultsSupport /\ [Next]_vars => DefaultsSupport'
<1> SUFFICES ASSUME VInv, DefaultsSupport, [Next]_vars PROVE DefaultsSupport'
  OBVIOUS
<1>0. vault \in VaultStorage
  BY DEF VInv, Priced
<1>1. ASSUME vault'.assetDefaultStrategies = vault.assetDefaultStrategies PROVE DefaultsSupport'
  BY <1>1 DEF DefaultsSupport
<1>2. CASE UNCHANGED vault
  BY <1>1, <1>2
<1>3. CASE Configure
  <2>1. vault'.assetDefaultStrategies = vault.assetDefaultStrategies
    BY <1>0, <1>3 DEF Configure, SetVault, VaultStorage, SetRedeemFeeBps, SetVaultBuffer,
                      SetAutoAllocateThreshold, SetRebaseThreshold, SetMaxSupplyDiff,
                      SetTrusteeAddress, SetTrusteeFeeBps, PauseRebase, UnpauseRebase,
                      PauseCapital, UnpauseCapital
  <2> QED
    BY <1>1, <2>1
<1>4. ASSUME NEW a \in Assets, SupportAsset(a) PROVE DefaultsSupport'
  <2>1. vault'.assetDefaultStrategies = vault.assetDefaultStrategies
    BY <1>0, <1>4 DEF SupportAsset, SetVault, VaultStorage
  <2> QED
    BY <1>1, <2>1
<1>5. ASSUME NEW s \in Strategies, ApproveStrategy(s) PROVE DefaultsSupport'
  <2>1. vault'.assetDefaultStrategies = vault.assetDefaultStrategies
    BY <1>0, <1>5 DEF ApproveStrategy, SetVault, VaultStorage
  <2> QED
    BY <1>1, <2>1
<1>6. ASSUME NEW s \in Strategies, RemoveStrategy(s) PROVE DefaultsSupport'
  <2> DEFINE shorter == Without(vault.allStrategies, s)
             rest == vault.approved \ {s}
  <2>1. vault' = [vault EXCEPT !.allStrategies = shorter, !.approved = rest]
    BY <1>6 DEF RemoveStrategy
  <2> HIDE DEF shorter, rest
  <2>2. vault'.assetDefaultStrategies = vault.assetDefaultStrategies
    BY <1>0, <2>1 DEF VaultStorage
  <2> QED
    BY <1>1, <2>2
<1>7. ASSUME NEW a \in Assets, NEW s \in Strategies, SetAssetDefaultStrategy(a, s)
      PROVE  DefaultsSupport'
  <2>1. /\ a \in Supports[s]
        /\ vault' = [vault EXCEPT !.assetDefaultStrategies[a] = s]
    BY <1>7 DEF SetAssetDefaultStrategy, SetVault
  <2>2. \A b \in Assets : vault'.assetDefaultStrategies[b]
                             = IF b = a THEN s ELSE vault.assetDefaultStrategies[b]
    BY <1>0, <2>1 DEF VaultStorage
  <2> QED
    BY <2>1, <2>2 DEF DefaultsSupport
<1>8. ASSUME Administer, vault' # vault PROVE DefaultsSupport'
  BY <1>4, <1>5, <1>6, <1>7, <1>8 DEF Administer, TransferToken, WithdrawAllFromStrategy,
     WithdrawAllFromStrategies, Reallocate, Harvest
<1>9. ASSUME Users \/ Holders \/ World \/ UNCHANGED vars PROVE UNCHANGED vault
  BY <1>9 DEF Users, Holders, World, vars, Mint, Redeem, RedeemAll, RedeemFrom, Allocate, Rebase,
              PriceMoves, Earn, Lose
<1> QED
  BY <1>2, <1>3, <1>8, <1>9 DEF Next

\* All of the invariant.
LEMMA SpecDefaults == Spec => [](VInv /\ ListInv /\ DefaultsSupport)
  BY VInvInit, ListInvInit, DefaultsInit, VInvStep, ListInvStep, DefaultsStep, PTL DEF Spec

\* Where assets, strategies and prices are as before, so is what is held worth.
LEMMA SameValue ==
    ASSUME UNCHANGED price, vault'.allAssets = vault.allAssets,
           vault'.allStrategies = vault.allStrategies
    PROVE  TotalValue(held)' = TotalValue(held')
  BY DEF TotalValue, TotalValueInVault, TotalValueInStrategies, TotalValueInStrategy,
         Supported, ValueOf

\* An asset that is supported now is counted from now on.
LEMMA AssetAdds ==
    ASSUME VInv, VInv', ListInv, ListInv', NEW a \in Assets, SupportAsset(a)
    PROVE  TotalValue(held)' \in Nat /\ TotalValue(held) <= TotalValue(held)'
<1> DEFINE D == Supported'
           g == [b \in D |-> AssetValue(held, b)']
           f == [b \in Supported |-> AssetValue(held, b)]
<1>1. /\ a \notin Supported /\ UNCHANGED <<held, price>>
      /\ vault' = [vault EXCEPT !.allAssets = Append(vault.allAssets, a)]
  BY DEF SupportAsset, SetVault
<1>2. vault \in VaultStorage /\ held \in Holdings /\ held' \in Holdings' /\ Priced /\ Priced'
      /\ StrategyListsAgree /\ StrategyListsAgree'
  BY DEF VInv, ListInv, Priced
<1>3. /\ vault'.allAssets = Append(vault.allAssets, a) /\ vault'.approved = vault.approved
  BY <1>1, <1>2 DEF VaultStorage
<1>4. D \ {a} = Supported /\ a \in D
  <2>1. vault.allAssets \in Seq(Assets)
    BY <1>2 DEF VaultStorage, AssetLists
  <2> DEFINE list == vault.allAssets
             longer == Append(list, a)
  <2>2. /\ DOMAIN list = 1 .. Len(list) /\ Len(list) \in Nat
        /\ DOMAIN longer = 1 .. Len(list) + 1
        /\ longer[Len(list) + 1] = a /\ \A i \in 1 .. Len(list) : longer[i] = list[i]
    BY <2>1
  <2>3. Supported = {list[i] : i \in DOMAIN list} /\ D = {longer[i] : i \in DOMAIN longer}
    BY <1>3 DEF Supported, ToSet
  <2> HIDE DEF longer, list, D
  <2> QED
    BY <1>1, <2>2, <2>3
<1>5. \A b \in Supported : AssetValue(held, b)' = AssetValue(held, b)
  BY <1>1, <1>3 DEF AssetValue, CountedBy, CountedIn, ValueOf
<1>6. Restrict(g, D \ {a}) = f
  BY <1>4, <1>5 DEF Restrict
<1>7. TotalValue(held) = SumFunction(f)
  BY <1>2, ValueByAssets
<1>8. IsFiniteSet(D) /\ g \in [D -> Nat] /\ TotalValue(held)' = SumFunction(g)
  <2>1. /\ IsFiniteSet(Supported') /\ \A b \in Supported' : AssetValue(held, b)' \in Nat
        /\ TotalValue(held)' = SumFunction([b \in Supported' |-> AssetValue(held, b)'])
    BY <1>2, ValueByAssetsNext
  <2> QED
    BY <2>1
<1> HIDE DEF g, f, D
<1>9. /\ SumFunction(Restrict(g, D \ {a})) \in Nat
      /\ SumFunction(g) = g[a] + SumFunction(Restrict(g, D \ {a}))
      /\ g[a] \in Nat
  BY <1>4, <1>8, SumSplit
<1> QED
  BY <1>6, <1>7, <1>8, <1>9

\* A strategy that is approved now is counted from now on.
LEMMA StrategyAdds ==
    ASSUME VInv, VInv', ListInv, ListInv', NEW s \in Strategies, ApproveStrategy(s)
    PROVE  TotalValue(held)' \in Nat /\ TotalValue(held) <= TotalValue(held)'
<1> DEFINE D == Supported
           g == [b \in D |-> AssetValue(held, b)']
           f == [b \in D |-> AssetValue(held, b)]
<1>1. /\ s \notin vault.approved /\ UNCHANGED <<held, price>>
      /\ vault' = [vault EXCEPT !.allStrategies = Append(vault.allStrategies, s),
                                !.approved = vault.approved \union {s}]
  BY DEF ApproveStrategy, SetVault
<1>2. vault \in VaultStorage /\ held \in Holdings /\ held' \in Holdings' /\ Priced /\ Priced'
      /\ StrategyListsAgree /\ StrategyListsAgree' /\ vault.approved \in SUBSET Strategies
  <2>1. vault \in VaultStorage /\ held \in Holdings /\ held' \in Holdings' /\ Priced /\ Priced'
        /\ StrategyListsAgree /\ StrategyListsAgree'
    BY DEF VInv, ListInv, Priced
  <2>2. vault.approved \in SUBSET Strategies
    BY <2>1 DEF VaultStorage
  <2> QED
    BY <2>1, <2>2
<1>3. /\ vault'.allAssets = vault.allAssets /\ vault'.approved = vault.approved \union {s}
  BY <1>1, <1>2 DEF VaultStorage
<1>4. Supported' = Supported
  BY <1>3 DEF Supported
<1>5. ASSUME NEW b \in D PROVE AssetValue(held, b) <= AssetValue(held, b)'
  <2> DEFINE T == vault.approved \union {s}
             c == [t \in T |-> CountedIn(held, b, t)]
  <2>1. b \in Assets /\ T \in SUBSET Strategies
    BY <1>2, ListsFinite
  <2>2. IsFiniteSet(T) /\ c \in [T -> Nat] /\ s \in T /\ T \ {s} = vault.approved
        /\ ValueOf(b, held[ThisVault][b]) \in Nat
    BY <1>1, <1>2, <2>1, CountedTypes
  <2>3. Restrict(c, T \ {s}) = [t \in vault.approved |-> CountedIn(held, b, t)]
    BY <2>2 DEF Restrict
  <2>4. \A t : CountedIn(held, b, t)' = CountedIn(held, b, t)
    BY <1>1 DEF CountedIn, ValueOf
  <2>5. AssetValue(held, b)' = ValueOf(b, held[ThisVault][b]) + SumFunction(c)
    BY <1>1, <1>3, <2>4 DEF AssetValue, CountedBy, ValueOf
  <2>6. AssetValue(held, b) = ValueOf(b, held[ThisVault][b]) + SumFunction(Restrict(c, T \ {s}))
    BY <2>3 DEF AssetValue, CountedBy
  <2> HIDE DEF c, T
  <2>7. /\ SumFunction(Restrict(c, T \ {s})) \in Nat /\ c[s] \in Nat
        /\ SumFunction(c) = c[s] + SumFunction(Restrict(c, T \ {s}))
    BY <2>2, SumSplit
  <2> QED
    BY <2>2, <2>5, <2>6, <2>7
<1>6. IsFiniteSet(D) /\ f \in [D -> Nat] /\ TotalValue(held) = SumFunction(f)
  <2>1. /\ IsFiniteSet(Supported) /\ \A b \in Supported : AssetValue(held, b) \in Nat
        /\ TotalValue(held) = SumFunction([b \in Supported |-> AssetValue(held, b)])
    BY <1>2, ValueByAssets
  <2> QED
    BY <2>1
<1>7. g \in [D -> Nat] /\ TotalValue(held)' = SumFunction(g)
  <2>1. /\ \A b \in Supported' : AssetValue(held, b)' \in Nat
        /\ TotalValue(held)' = SumFunction([b \in Supported' |-> AssetValue(held, b)'])
    BY <1>2, ValueByAssetsNext
  <2> QED
    BY <1>4, <2>1
<1>8. \A b \in D : f[b] <= g[b]
  BY <1>5
<1> HIDE DEF g, f, D
<1> QED
  BY <1>6, <1>7, <1>8, SumMonotone, SumIsTotal

\* A strategy that is removed has handed out what it had, and is counted no more.
LEMMA StrategyLeaves ==
    ASSUME VInv, VInv', ListInv, ListInv', NEW s \in Strategies, RemoveStrategy(s)
    PROVE  /\ TotalValue(held) \in Nat /\ TotalValue(held)' \in Nat /\ Dust \in Nat
           /\ TotalValue(held) <= TotalValue(held)' + Dust
<1> DEFINE k == AllWithdrawn(held, {s})
           shorter == Without(vault.allStrategies, s)
           rest == vault.approved \ {s}
<1>1. /\ s \in vault.approved /\ UNCHANGED price /\ held' \in Harvested(k)
      /\ vault' = [vault EXCEPT !.allStrategies = shorter, !.approved = rest]
  BY DEF RemoveStrategy
<1>2. vault \in VaultStorage /\ held \in Holdings /\ held' \in Holdings /\ Priced /\ Priced'
      /\ StrategyListsAgree /\ StrategyListsAgree' /\ vault.approved \in SUBSET Strategies
  <2>1. vault \in VaultStorage /\ held \in Holdings /\ held' \in Holdings /\ Priced /\ Priced'
        /\ StrategyListsAgree /\ StrategyListsAgree'
    BY DEF VInv, ListInv, Priced, Holdings, Places
  <2>2. vault.approved \in SUBSET Strategies
    BY <2>1 DEF VaultStorage
  <2> QED
    BY <2>1, <2>2
<1> HIDE DEF shorter
<1>3. /\ vault'.allAssets = vault.allAssets /\ vault'.approved = rest
  <2> HIDE DEF rest
  <2> QED
    BY <1>1, <1>2 DEF VaultStorage
<1>4. Supported' = Supported /\ Supported \subseteq Assets
  BY <1>2, <1>3, ListsFinite DEF Supported
<1>5. k \in Holdings /\ \A a \in Assets : AssetValue(held, a) <= AssetValue(k, a)
  <2>1. {s} \in SUBSET vault.approved
    BY <1>1
  <2>2. k \in Holdings
    BY <1>2, <2>1, FS_Singleton, WithdrawTyped
  <2>3. \A a \in Assets : AssetValue(held, a) <= AssetValue(k, a)
    BY <1>2, <2>1, ValueWithdrawn
  <2> QED
    BY <2>2, <2>3
<1>6. \A a \in Assets : k[s][a] = 0
  BY <1>2, AssetsAssumption, PlacesKnown DEF AllWithdrawn
<1> HIDE DEF k
<1>7. \A a \in Assets : held'[s][a] = 0 /\ AssetValue(k, a) <= AssetValue(held', a)
  BY <1>1, <1>2, <1>5, <1>6, HarvestAdds, ValueHarvested
<1>8. ASSUME NEW a \in Supported
      PROVE  /\ AssetValue(held, a) <= AssetValue(held', a) + 1
             /\ AssetValue(held, a)' = AssetValue(held', a)
  <2>1. a \in Assets
    BY <1>4
  <2>2. AssetValue(held, a) \in Nat /\ AssetValue(k, a) \in Nat /\ AssetValue(held', a) \in Nat
    BY <1>2, <1>5, <2>1, CountedTypes DEF AssetValue
  <2> DEFINE T == vault.approved
             c == [t \in T |-> CountedIn(held', a, t)]
  <2>3. IsFiniteSet(T) /\ c \in [T -> Nat] /\ s \in T
    BY <1>1, <1>2, <2>1, CountedTypes
  <2>4. c[s] = 0
    <3>1. CountedIn(held', a, s) = 0
      BY <1>2, <1>7, <2>1, ValueOfNothing DEF CountedIn
    <3> QED
      BY <2>3, <3>1
  <2>5. Restrict(c, T \ {s}) = [t \in rest |-> CountedIn(held', a, t)]
    BY DEF Restrict
  <2>6. AssetValue(held', a) = ValueOf(a, held'[ThisVault][a]) + SumFunction(c)
    BY DEF AssetValue, CountedBy
  <2>7. AssetValue(held, a)' = ValueOf(a, held'[ThisVault][a]) + SumFunction(Restrict(c, T \ {s}))
    <3>1. \A t : CountedIn(held, a, t)' = CountedIn(held', a, t)
      BY <1>1 DEF CountedIn, ValueOf
    <3>2. ValueOf(a, held[ThisVault][a])' = ValueOf(a, held'[ThisVault][a])
      BY <1>1 DEF ValueOf
    <3>3. [t \in vault'.approved |-> CountedIn(held, a, t)'] = [t \in rest |-> CountedIn(held', a, t)]
      BY <1>3, <3>1
    <3> QED
      BY <2>5, <3>2, <3>3 DEF AssetValue, CountedBy
  <2> HIDE DEF c, T
  <2>8. SumFunction(c) = SumFunction(Restrict(c, T \ {s}))
    <3>1. /\ SumFunction(Restrict(c, T \ {s})) \in Nat
          /\ SumFunction(c) = c[s] + SumFunction(Restrict(c, T \ {s}))
      BY <2>3, SumSplit
    <3> QED
      BY <2>4, <3>1
  <2> QED
    BY <1>5, <1>7, <2>1, <2>2, <2>6, <2>7, <2>8
<1>9. /\ TotalValue(held) \in Nat /\ TotalValue(held') \in Nat /\ Dust \in Nat
      /\ TotalValue(held) <= TotalValue(held') + Dust
  BY <1>2, <1>8, ValueKept
<1>10. TotalValue(held)' = TotalValue(held')
  <2>1. TotalValue(held') = SumFunction([a \in Supported |-> AssetValue(held', a)])
    BY <1>2, ValueByAssets
  <2>2. TotalValue(held)' = SumFunction([a \in Supported' |-> AssetValue(held, a)'])
    BY <1>2, ValueByAssetsNext DEF Holdings, Places
  <2>3. [a \in Supported' |-> AssetValue(held, a)'] = [a \in Supported |-> AssetValue(held', a)]
    BY <1>4, <1>8
  <2> QED
    BY <2>1, <2>2, <2>3
<1> QED
  BY <1>9, <1>10

\* No call of the governor or the strategist takes more from the value than a unit
\* for each asset.
LEMMA AdministerKeepsValue ==
    ASSUME VInv, VInv', ListInv, ListInv', Administer
    PROVE  /\ token' = token
           /\ TotalValue(held) \in Nat /\ TotalValue(held)' \in Nat /\ Dust \in Nat
           /\ TotalValue(held) <= TotalValue(held)' + Dust
<1> DEFINE Kept == /\ TotalValue(held) \in Nat /\ TotalValue(held)' \in Nat /\ Dust \in Nat
                   /\ TotalValue(held) <= TotalValue(held)' + Dust
<1>1. token' = token
  BY DEF Administer, SupportAsset, TransferToken, ApproveStrategy, RemoveStrategy,
         WithdrawAllFromStrategy, SetAssetDefaultStrategy, Reallocate,
         WithdrawAllFromStrategies, Harvest, SetVault, tokenVars
<1>2. /\ vault \in VaultStorage /\ held \in Holdings /\ held' \in Holdings /\ Priced
      /\ StrategyListsAgree /\ vault.approved \in SUBSET Strategies
      /\ IsFiniteSet(Supported) /\ Supported \subseteq Assets
      /\ vault.approved = ToSet(vault.allStrategies)
      /\ TotalValue(held) \in Nat /\ Dust \in Nat
  <2>1. vault \in VaultStorage /\ held \in Holdings /\ held' \in Holdings /\ Priced
        /\ StrategyListsAgree
    BY DEF VInv, ListInv, Priced, Holdings, Places
  <2> QED
    BY <2>1, ListsFinite, ValueTypes, FS_CardinalityType DEF VaultStorage, StrategyListsAgree, Dust
<1>3. \A a \in Supported : AssetValue(held, a) \in Nat /\ AssetValue(held', a) \in Nat
  BY <1>2, ValueByAssets
<1>4. ASSUME UNCHANGED <<vault, price>>,
             \A a \in Supported : AssetValue(held, a) <= AssetValue(held', a) + 1
      PROVE  Kept
  BY <1>2, <1>4, ValueKept, SameValue
<1>5. ASSUME UNCHANGED <<held, price>>, vault'.allAssets = vault.allAssets,
             vault'.allStrategies = vault.allStrategies
      PROVE  Kept
  BY <1>2, <1>5, SameValue
<1>6. ASSUME NEW a \in Assets, SupportAsset(a) PROVE Kept
  BY <1>2, <1>6, AssetAdds
<1>7. ASSUME NEW s \in Strategies, ApproveStrategy(s) PROVE Kept
  BY <1>2, <1>7, StrategyAdds
<1>8. ASSUME NEW s \in Strategies, RemoveStrategy(s) PROVE Kept
  BY <1>8, StrategyLeaves
<1>9. ASSUME NEW a \in Assets, NEW s \in Strategies, SetAssetDefaultStrategy(a, s) PROVE Kept
  <2>1. vault' = [vault EXCEPT !.assetDefaultStrategies[a] = s] /\ UNCHANGED <<held, price>>
    BY <1>9 DEF SetAssetDefaultStrategy, SetVault
  <2>2. vault'.allAssets = vault.allAssets /\ vault'.allStrategies = vault.allStrategies
    BY <1>2, <2>1 DEF VaultStorage
  <2> QED
    BY <1>5, <2>1, <2>2
<1>10. ASSUME NEW a \in Assets, NEW x \in Gains, TransferToken(a, x) PROVE Kept
  <2>1. a \notin Supported /\ held' = [held EXCEPT ![ThisVault][a] = @ - x]
        /\ UNCHANGED <<vault, price>>
    BY <1>10 DEF TransferToken
  <2>2. \A p \in Places, b \in Supported : held'[p][b] = held[p][b]
    BY <1>2, <2>1, PlacesKnown DEF Holdings
  <2>3. \A b \in Supported : AssetValue(held, b) = AssetValue(held', b)
    <3> SUFFICES ASSUME NEW b \in Supported PROVE AssetValue(held, b) = AssetValue(held', b)
      OBVIOUS
    <3>1. \A s \in vault.approved : CountedIn(held, b, s) = CountedIn(held', b, s)
      BY <1>2, <2>2, PlacesKnown DEF CountedIn
    <3>2. [s \in vault.approved |-> CountedIn(held, b, s)]
            = [s \in vault.approved |-> CountedIn(held', b, s)]
      BY <3>1
    <3>3. held'[ThisVault][b] = held[ThisVault][b]
      BY <2>2, PlacesKnown
    <3> QED
      BY <3>2, <3>3 DEF AssetValue, CountedBy
  <2>4. \A b \in Supported : AssetValue(held, b) <= AssetValue(held', b) + 1
    BY <1>3, <2>3
  <2> QED
    BY <1>4, <2>1, <2>4
<1>11. ASSUME NEW S \in SUBSET vault.approved, held' = AllWithdrawn(held, S), UNCHANGED <<vault, price>>
       PROVE  Kept
  <2>1. \A a \in Assets : AssetValue(held, a) <= AssetValue(held', a)
    BY <1>2, <1>11, ValueWithdrawn
  <2>2. \A a \in Supported : AssetValue(held, a) <= AssetValue(held', a) + 1
    BY <1>2, <1>3, <2>1
  <2> QED
    BY <1>4, <1>11, <2>2
<1>12. ASSUME NEW s \in Strategies, WithdrawAllFromStrategy(s) PROVE Kept
  <2>1. {s} \in SUBSET vault.approved /\ held' = AllWithdrawn(held, {s}) /\ UNCHANGED <<vault, price>>
    BY <1>12 DEF WithdrawAllFromStrategy
  <2> QED
    BY <1>11, <2>1
<1>13. ASSUME WithdrawAllFromStrategies PROVE Kept
  <2>1. held' = AllWithdrawn(held, vault.approved) /\ UNCHANGED <<vault, price>>
    BY <1>2, <1>13 DEF WithdrawAllFromStrategies
  <2> QED
    BY <1>11, <2>1
<1>14. ASSUME NEW s \in Strategies, NEW to \in Strategies, NEW a \in Assets, NEW x \in Gains,
              Reallocate(s, to, a, x)
       PROVE  Kept
  <2>1. /\ s \in vault.approved /\ to \in vault.approved /\ a \in Supports[to]
        /\ held[s][a] >= x /\ held' = Move(held, s, to, a, x) /\ UNCHANGED <<vault, price>>
        /\ x \in Nat
    BY <1>14, ArgumentsAssumption DEF Reallocate
  <2>2. \A b \in Assets : AssetValue(held, b) <= AssetValue(held', b) + 1
    BY <1>2, <2>1, ValueReallocated
  <2> QED
    BY <1>2, <1>4, <2>1, <2>2
<1>15. ASSUME Harvest PROVE Kept
  <2>1. held' \in Harvested(held) /\ UNCHANGED <<vault, price>>
    BY <1>15 DEF Harvest
  <2>2. \A a \in Assets : AssetValue(held, a) <= AssetValue(held', a)
    BY <1>2, <2>1, ValueHarvested
  <2>3. \A a \in Supported : AssetValue(held, a) <= AssetValue(held', a) + 1
    BY <1>2, <1>3, <2>2
  <2> QED
    BY <1>4, <2>1, <2>3
<1> HIDE DEF Kept
<1>16. Kept
  BY <1>6, <1>7, <1>8, <1>9, <1>10, <1>12, <1>13, <1>14, <1>15 DEF Administer
<1> QED
  BY <1>1, <1>16 DEF Kept
-----------------------------------------------------------------------------
(* The token, when the vault drives it.                                      *)

\* The supply is the value, but for the credits a rebase gives for less than a unit
\* of the rate.
CaughtUp(t, value) ==
    /\ t.rebasingCreditsPerToken \in Nat \ {0}
    /\ t.totalSupply <= value + t.totalSupply \div t.rebasingCreditsPerToken

\* A rebase changes nothing, or changes the supply to the value, above the supply of
\* the token after the fee, if one is paid.
LEMMA RebasedParts ==
    ASSUME vault \in VaultStorage, NEW t, Sound(t), NEW value \in Nat, NEW u \in Rebased(t, value)
    PROVE  \/ u = t
           \/ \E p : /\ Sound(p) /\ p.totalSupply < value /\ u \in Token!SupplyChanged(p, value)
                   /\ \/ p = t
                      \/ /\ vault.trustee \in Accounts
                         /\ \E fee \in Nat : p \in Token!Minted(t, vault.trustee, fee)
<1> DEFINE yield == value - t.totalSupply
           fee == (yield * vault.trusteeFeeBps) \div 10000
           feePaid ==
            CASE vault.trustee = Nobody \/ yield <= 0 -> {t}
              [] vault.trustee # Nobody /\ yield > 0 /\ fee > 0 /\ yield > fee ->
                    Token!Minted(t, vault.trustee, fee)
              [] vault.trustee # Nobody /\ yield > 0 /\ fee = 0 -> {t}
              [] OTHER -> {}
<1>1. t.totalSupply \in Nat /\ vault.trusteeFeeBps \in Nat /\ vault.trustee \in Accounts \union {Nobody}
      /\ yield \in Int
  BY SoundTypes, TrusteeTypes
<1>2. yield > 0 => fee \in Nat
  <2>1. yield > 0 => yield * vault.trusteeFeeBps \in Nat
    BY <1>1
  <2> QED
    BY <1>1, <2>1
<1>3. CASE t.totalSupply = 0
  BY <1>3 DEF Rebased
<1>4. CASE t.totalSupply # 0
  <2>1. PICK p \in feePaid :
            u \in IF value > p.totalSupply THEN Token!SupplyChanged(p, value) ELSE {p}
    BY <1>4 DEF Rebased
  <2>2. \/ p = t
        \/ /\ vault.trustee \in Accounts /\ fee \in Nat /\ fee < yield
           /\ p \in Token!Minted(t, vault.trustee, fee)
    <3> HIDE DEF yield, fee
    <3> QED
      BY <1>1, <1>2, <2>1
  <2>3. Sound(p) /\ p.totalSupply \in Nat
    <3> HIDE DEF feePaid, fee, yield
    <3>1. Sound(p)
      BY <2>2, CallsSound
    <3> QED
      BY <3>1, SoundTypes
  <2>4. p = t \/ p.totalSupply < value
    <3>1. ASSUME p # t PROVE p.totalSupply = t.totalSupply + fee /\ fee < yield /\ fee \in Nat
      <4> HIDE DEF feePaid, fee, yield
      <4>1. vault.trustee \in Accounts /\ fee \in Nat /\ fee < yield
            /\ p \in TokenProofs!Minted(t, vault.trustee, fee)
        BY <2>2, <3>1, SameMint
      <4>2. TokenProofs!Sound(t)
        BY DEF Sound
      <4> QED
        BY <4>1, <4>2, TokenProofs!SupplyMinted, TokenAssumptions
    <3> HIDE DEF fee
    <3> QED
      BY <1>1, <3>1
  <2> HIDE DEF feePaid, fee, yield
  <2>5. value \in Int /\ p.totalSupply \in Int
    BY <2>3
  <2>6. CASE value > p.totalSupply
    <3>1. u \in Token!SupplyChanged(p, value) /\ p.totalSupply < value
      BY <2>1, <2>5, <2>6
    <3> QED
      BY <2>2, <2>3, <3>1
  <2>7. CASE ~(value > p.totalSupply)
    BY <2>1, <2>4, <2>5, <2>7
  <2> QED
    BY <2>6, <2>7
<1> QED
  BY <1>3, <1>4

\* So the supply is the value, up to the rounded rate.
LEMMA RebasedCatchesUp ==
    ASSUME vault \in VaultStorage, NEW t, Sound(t), NEW value \in Nat, NEW u \in Rebased(t, value)
    PROVE  u = t \/ CaughtUp(u, value)
<1> SUFFICES ASSUME NEW p, Sound(p), p.totalSupply < value, u \in Token!SupplyChanged(p, value)
             PROVE  CaughtUp(u, value)
  BY RebasedParts
<1>1. u \in TokenProofs!SupplyChanged(p, value) /\ TokenProofs!Sound(p) /\ p.totalSupply \in Nat
  BY SameChangeSupply, SoundTypes DEF Sound
<1>2. \/ u = p /\ u.totalSupply = value
      \/ /\ u.rebasingCreditsPerToken \in Nat \ {0}
         /\ u.totalSupply <= value + u.totalSupply \div u.rebasingCreditsPerToken
  BY <1>1, TokenProofs!SupplyOvershoots, TokenAssumptions
<1> QED
  BY <1>1, <1>2 DEF CaughtUp

\* A call that rebases on a condition.
LEMMA MaybeCaughtUp ==
    ASSUME vault \in VaultStorage, NEW t, Sound(t), NEW value \in Nat, NEW condition,
           NEW u \in RebasedIf(condition, t, value)
    PROVE  Sound(u) /\ (u = t \/ (~vault.rebasePaused /\ CaughtUp(u, value)))
<1>1. u = t \/ (~vault.rebasePaused /\ u \in Rebased(t, value))
  BY DEF RebasedIf
<1> QED
  BY <1>1, RebasedSound, RebasedCatchesUp

\* What is minted or burned is added to the supply, or taken from it.
LEMMA MintedSupply ==
    ASSUME NEW t, Sound(t), NEW a \in Accounts, NEW v \in Nat, NEW u \in Token!Minted(t, a, v)
    PROVE  /\ u.totalSupply = t.totalSupply + v
           /\ u.rebasingCreditsPerToken = t.rebasingCreditsPerToken
<1>1. u \in TokenProofs!Minted(t, a, v) /\ TokenProofs!Sound(t)
  BY SameMint DEF Sound
<1> QED
  BY <1>1, TokenProofs!SupplyMinted, TokenAssumptions

\* A burn takes its value from the supply and leaves the rate.
LEMMA BurnedSupply ==
    ASSUME NEW t, Sound(t), NEW a \in Accounts, NEW v \in Nat, NEW u \in Token!Burned(t, a, v)
    PROVE  /\ u.totalSupply = t.totalSupply - v
           /\ u.rebasingCreditsPerToken = t.rebasingCreditsPerToken
<1>1. u \in TokenProofs!Burned(t, a, v) /\ TokenProofs!Sound(t)
  BY SameBurn DEF Sound
<1> QED
  BY <1>1, TokenProofs!SupplyBurned, TokenAssumptions

\* A smaller supply overshoots less, by no more than what is gone and one.
LEMMA OvershootLeft ==
    ASSUME NEW x \in Nat, NEW y \in Nat, NEW r \in Nat \ {0}
    PROVE  /\ x \div r \in Nat /\ (x + y) \div r \in Nat
           /\ x \div r <= (x + y) \div r
           /\ (x + y) \div r <= x \div r + y + 1
<1> DEFINE q == x \div r
<1>1. q \in Nat /\ x < r * (q + 1) /\ (x + y) \div r \in Nat /\ q <= (x + y) \div r
  BY DivBounds, DivMonotone
<1>2. x + y < r * (q + y + 1)
  <2>1. y * 1 <= y * r
    BY TimesMonotone
  <2>2. r * (q + y + 1) = r * (q + 1) + y * r
    BY <1>1
  <2> QED
    BY <1>1, <2>1, <2>2
<1>3. (x + y) \div r < q + y + 1
  BY <1>1, <1>2, DivLess
<1> QED
  BY <1>1, <1>3
-----------------------------------------------------------------------------
(* Users.                                                                    *)

\* What is brought, deposit by deposit, is worth no less together: the minter is
\* not paid for what rounding would make of the whole.
LEMMA BroughtValue ==
    ASSUME Priced, NEW n \in Nat, NEW d \in [1 .. n -> Assets \X Deposits],
           \A i \in DOMAIN d : d[i][1] \in Supported
    PROVE  \E g \in [Supported -> Nat] :
              /\ PriceAdjusted(d) = SumFunction(g)
              /\ \A a \in Supported :
                    g[a] <= ValueOf(a, SumFunction([i \in DOMAIN d |->
                                          IF d[i][1] = a THEN d[i][2] ELSE 0]))
<1> DEFINE D == DOMAIN d
           amount(a) == [i \in D |-> IF d[i][1] = a THEN d[i][2] ELSE 0]
           entry(i, a) == ValueOf(a, amount(a)[i])
           table == [i \in D |-> [a \in Supported |-> entry(i, a)]]
           g == [a \in Supported |-> SumFunction([i \in D |-> table[i][a]])]
<1>1. /\ IsFiniteSet(D) /\ IsFiniteSet(Supported) /\ Supported \subseteq Assets
      /\ \A i \in D : d[i][1] \in Supported /\ d[i][2] \in Nat
  <2>1. D = 1 .. n /\ IsFiniteSet(1 .. n)
    BY FS_Interval
  <2>2. \A x \in Deposits : x \in Nat
    BY ArgumentTypes
  <2> QED
    BY <2>1, <2>2, ListsFinite DEF Priced
<1>2. \A a \in Supported : amount(a) \in [D -> Nat]
  BY <1>1
<1>3. \A i \in D, a \in Supported : entry(i, a) \in Nat
  <2> SUFFICES ASSUME NEW i \in D, NEW a \in Supported PROVE entry(i, a) \in Nat
    OBVIOUS
  <2>1. amount(a)[i] \in Nat /\ a \in Assets
    BY <1>1, <1>2
  <2> HIDE DEF amount
  <2> QED
    BY <2>1, AmountTypes
<1>4. table \in [D -> [Supported -> Nat]]
  <2> HIDE DEF entry
  <2> QED
    BY <1>3
<1>5. \A i \in D : SumFunction(table[i]) = ValueOf(d[i][1], d[i][2])
  <2> SUFFICES ASSUME NEW i \in D PROVE SumFunction(table[i]) = ValueOf(d[i][1], d[i][2])
    OBVIOUS
  <2>1. table[i] \in [Supported -> Nat] /\ d[i][1] \in Supported
    BY <1>1, <1>4
  <2>2. ASSUME NEW a \in Supported \ {d[i][1]} PROVE table[i][a] = 0
    <3>1. amount(a)[i] = 0 /\ a \in Assets
      BY <1>1
    <3> HIDE DEF amount
    <3>2. entry(i, a) = 0
      BY <3>1, ValueOfNothing
    <3> HIDE DEF entry
    <3> QED
      BY <3>2
  <2>3. table[i][d[i][1]] = ValueOf(d[i][1], d[i][2])
    <3>1. amount(d[i][1])[i] = d[i][2]
      OBVIOUS
    <3> HIDE DEF amount
    <3> QED
      BY <2>1, <3>1
  <2> DEFINE row == table[i]
             x == d[i][1]
  <2>4. row \in [Supported -> Nat] /\ x \in Supported /\ \A y \in Supported \ {x} : row[y] = 0
    <3> HIDE DEF table
    <3> QED
      BY <2>1, <2>2
  <2> HIDE DEF table, row, x
  <2>5. SumFunction(row) = row[x]
    BY <1>1, <2>4, SumOfOne
  <2> QED
    BY <2>3, <2>5 DEF row, x
<1>6. PriceAdjusted(d) = SumFunction([i \in D |-> SumFunction(table[i])])
  <2> HIDE DEF table
  <2>1. [i \in D |-> SumFunction(table[i])] = [i \in D |-> ValueOf(d[i][1], d[i][2])]
    BY <1>5
  <2> QED
    BY <2>1 DEF PriceAdjusted
<1>7. \A a \in Supported : g[a] <= ValueOf(a, SumFunction(amount(a)))
  <2> SUFFICES ASSUME NEW a \in Supported PROVE g[a] <= ValueOf(a, SumFunction(amount(a)))
    OBVIOUS
  <2>1. [i \in D |-> table[i][a]] = [i \in D |-> entry(i, a)]
    <3> HIDE DEF entry
    <3> QED
      OBVIOUS
  <2>2. a \in Assets /\ amount(a) \in [D -> Nat]
    BY <1>1, <1>2
  <2> HIDE DEF amount, table
  <2>3. SumFunction([i \in D |-> ValueOf(a, amount(a)[i])]) <= ValueOf(a, SumFunction(amount(a)))
    BY <1>1, <2>2, ValueSummed
  <2> QED
    BY <2>1, <2>3
<1>8. g \in [Supported -> Nat]
  <2> SUFFICES ASSUME NEW a \in Supported PROVE SumFunction([i \in D |-> table[i][a]]) \in Nat
    OBVIOUS
  <2> DEFINE column == [i \in D |-> table[i][a]]
  <2>1. column \in [D -> Nat]
    <3> HIDE DEF table
    <3> QED
      BY <1>4
  <2> HIDE DEF column
  <2>2. SumFunction(column) \in Nat
    BY <1>1, <2>1, SumIsTotal
  <2> QED
    BY <2>2 DEF column
<1> HIDE DEF table
<1>9. PriceAdjusted(d) = SumFunction(g)
  <2> HIDE DEF D
  <2>1. SumFunction([i \in D |-> SumFunction(table[i])]) = SumFunction(g)
    BY <1>1, <1>4, SumOfTable
  <2> QED
    BY <1>6, <2>1
<1> HIDE DEF g
<1> QED
  BY <1>7, <1>8, <1>9

\* What is minted is backed by what is brought, wherever it then lies.
LEMMA MintBacked ==
    ASSUME VInv, ListInv, DefaultsSupport, DefaultStrategiesApproved,
           NEW user \in Accounts, NEW n \in Nat, NEW d \in [1 .. n -> Assets \X Deposits],
           Mint(user, d)
    PROVE  /\ TotalValue(held) \in Nat /\ TotalValue(held') \in Nat /\ Dust \in Nat
           /\ PriceAdjusted(d) \in Nat
           /\ TotalValue(held) + PriceAdjusted(d) <= TotalValue(held') + Dust
<1> DEFINE brought(a) == SumFunction([i \in DOMAIN d |-> IF d[i][1] = a THEN d[i][2] ELSE 0])
           received == [held EXCEPT ![ThisVault] = [a \in Assets |-> @[a] + brought(a)]]
<1>1. Priced /\ held \in Holdings /\ StrategyListsAgree /\ Supported \subseteq Assets
      /\ ThisVault \notin Strategies
  <2>1. Priced /\ held \in Holdings /\ StrategyListsAgree /\ vault \in VaultStorage
    BY DEF VInv, ListInv
  <2> QED
    BY <2>1, ListsFinite, AssetsAssumption
<1>2. (held' \in Allocated(received) \/ held' = received) /\ \A i \in DOMAIN d : d[i][1] \in Supported
  BY DEF Mint
<1>3. PriceAdjusted(d) \in Nat /\ \A a \in Assets : brought(a) \in Nat
  <2>1. PriceAdjusted(d) \in Nat
    BY <1>1, DepositsTyped
  <2>2. ASSUME NEW a \in Assets PROVE brought(a) \in Nat
    BY <1>1, DepositsTyped
  <2> HIDE DEF brought
  <2> QED
    BY <2>1, <2>2
<1>4. PICK g \in [Supported -> Nat] :
         /\ PriceAdjusted(d) = SumFunction(g)
         /\ \A a \in Supported : g[a] <= ValueOf(a, brought(a))
  BY <1>1, <1>2, BroughtValue
<1> HIDE DEF brought
<1>5. /\ received \in Holdings
      /\ \A a \in Assets : received[ThisVault][a] = held[ThisVault][a] + brought(a)
      /\ \A s \in Strategies, a \in Assets : received[s][a] = held[s][a]
  BY <1>1, <1>3, PlacesKnown DEF Holdings
<1> HIDE DEF received
<1>6. held' \in Holdings
  BY <1>1, <1>2, <1>5, AllocateTyped
<1>7. ASSUME NEW a \in Supported PROVE AssetValue(held, a) + g[a] <= AssetValue(held', a) + 1
  <2>1. a \in Assets /\ brought(a) \in Nat
    BY <1>1, <1>3
  <2>2. AssetValue(held, a) + ValueOf(a, brought(a)) <= AssetValue(received, a)
    BY <1>1, <1>5, <2>1, ValueReceived
  <2>3. /\ AssetValue(held, a) \in Nat /\ AssetValue(received, a) \in Nat
        /\ AssetValue(held', a) \in Nat
    BY <1>1, <1>5, <1>6, ValueByAssets
  <2>4. AssetValue(received, a) <= AssetValue(held', a) + 1
    <3>1. CASE held' \in Allocated(received)
      BY <1>1, <1>5, <3>1, ValueAllocated
    <3>2. CASE held' = received
      BY <2>3, <3>2
    <3> QED
      BY <1>2, <3>1, <3>2
  <2>5. ValueOf(a, brought(a)) \in Nat /\ g[a] \in Nat /\ g[a] <= ValueOf(a, brought(a))
    BY <1>1, <1>4, <2>1, AmountTypes
  <2> QED
    BY <2>2, <2>3, <2>4, <2>5
<1>8. /\ TotalValue(held) \in Nat /\ TotalValue(held') \in Nat /\ Dust \in Nat
      /\ TotalValue(held) + SumFunction(g) <= TotalValue(held') + Dust
  BY <1>1, <1>6, <1>7, ValueAdded
<1> QED
  BY <1>3, <1>4, <1>8

\* Where nothing was added, and of no asset anything is gone, all lies where it was.
LEMMA NothingPaid ==
    ASSUME held \in Holdings, held' \in Holdings,
           \A p \in Places, a \in Assets : held'[p][a] <= held[p][a],
           \A a \in Assets : PaidOut(a) <= 0
    PROVE  held' = held
<1>1. ASSUME NEW p \in Places, NEW a \in Assets PROVE held'[p][a] = held[p][a]
  <2> DEFINE paid == [q \in Places |-> held[q][a] - held'[q][a]]
  <2>1. \A q \in Places : held[q][a] \in Nat /\ held'[q][a] \in Nat /\ held'[q][a] <= held[q][a]
    BY DEF Holdings
  <2>2. paid \in [Places -> Nat]
    BY <2>1
  <2>3. IsFiniteSet(Places)
    BY StrategiesAssumption, FS_Singleton, FS_Union DEF Places
  <2>4. SumFunction(paid) <= 0
    BY DEF PaidOut
  <2> HIDE DEF paid
  <2>5. paid[p] = 0
    BY <2>2, <2>3, <2>4, SumOfZeros
  <2> QED
    BY <2>1, <2>5 DEF paid
<1> QED
  BY <1>1 DEF Holdings

\* The token and the value, before and after a call.
SurplusKept ==
    \/ Surplus' >= Surplus - Dust
    \/ ~vault.rebasePaused /\ Surplus' >= -(Overshoot' + Dust)

\* The surplus after a call that leaves the vault's storage and the prices.
LEMMA SurplusNext ==
    ASSUME UNCHANGED <<vault, price>>
    PROVE  /\ Surplus' = TotalValue(held') - token'.totalSupply
           /\ Overshoot' = token'.totalSupply \div token'.rebasingCreditsPerToken + 1
<1>1. TotalValue(held)' = TotalValue(held')
  BY SameValue
<1> QED
  BY <1>1 DEF Surplus, Overshoot

\* The supply of a sound token and its rate.
LEMMA RateTypes ==
    ASSUME NEW t, Sound(t)
    PROVE  t.totalSupply \in Nat /\ t.rebasingCreditsPerToken \in Nat \ {0}
  BY DEF Sound, TokenProofs!Sound, TokenProofs!Storage, TokenProofs!RatesMatch

\* A supply that had caught up with the value, and what is minted for as much of it.
LEMMA CaughtUpAndMinted ==
    ASSUME UNCHANGED <<vault, price>>, ~vault.rebasePaused, Dust \in Nat,
           NEW value \in Nat, TotalValue(held') \in Nat, NEW t, CaughtUp(t, value),
           t.totalSupply \in Nat, NEW minted \in Nat,
           token'.totalSupply = t.totalSupply + minted,
           token'.rebasingCreditsPerToken = t.rebasingCreditsPerToken,
           value + minted <= TotalValue(held') + Dust
    PROVE  SurplusKept
<1> DEFINE supply == t.totalSupply
           rate == t.rebasingCreditsPerToken
           q == supply \div rate
           r == (supply + minted) \div rate
<1>1. rate \in Nat \ {0} /\ supply <= value + q
  BY DEF CaughtUp
<1>2. q \in Nat /\ r \in Nat /\ q <= r
  <2> HIDE DEF rate, supply
  <2> QED
    BY <1>1, OvershootLeft DEF supply
<1>3. Surplus' = TotalValue(held') - (supply + minted) /\ Overshoot' = r + 1
  BY SurplusNext
<1> HIDE DEF q, r, supply
<1>4. Surplus' >= -(Overshoot' + Dust)
  BY <1>1, <1>2, <1>3 DEF supply
<1> QED
  BY <1>4 DEF SurplusKept

\* A supply that had caught up with the value, and what is burned.
LEMMA CaughtUpAndBurned ==
    ASSUME UNCHANGED <<vault, price>>, ~vault.rebasePaused, Dust \in Nat,
           TotalValue(held') \in Nat, NEW t, CaughtUp(t, TotalValue(held')),
           t.totalSupply \in Nat, NEW burned \in Nat, Sound(token'),
           token'.totalSupply = t.totalSupply - burned,
           token'.rebasingCreditsPerToken = t.rebasingCreditsPerToken
    PROVE  SurplusKept
<1> DEFINE supply == token'.totalSupply
           rate == t.rebasingCreditsPerToken
           q == (supply + burned) \div rate
           r == supply \div rate
<1>1. supply \in Nat /\ t.totalSupply = supply + burned
  BY RateTypes
<1>2. rate \in Nat \ {0} /\ supply + burned <= TotalValue(held') + q
  BY <1>1 DEF CaughtUp
<1>3. q \in Nat /\ r \in Nat /\ q <= r + burned + 1
  <2> HIDE DEF rate, supply
  <2> QED
    BY <1>1, <1>2, OvershootLeft
<1>4. Surplus' = TotalValue(held') - supply /\ Overshoot' = r + 1
  BY SurplusNext
<1> HIDE DEF q, r, supply
<1>5. Surplus' >= -(Overshoot' + Dust)
  BY <1>1, <1>2, <1>3, <1>4
<1> QED
  BY <1>5 DEF SurplusKept

\* Minting.
LEMMA MintKeepsSurplus ==
    ASSUME VInv, ListInv, DefaultsSupport, DefaultStrategiesApproved, VInv',
           NEW user \in Accounts, NEW n \in Nat, NEW d \in [1 .. n -> Assets \X Deposits],
           Mint(user, d)
    PROVE  SurplusKept
<1>1. UNCHANGED <<vault, price>>
  BY DEF Mint
<1>2. /\ vault \in VaultStorage /\ Sound(token) /\ Sound(token')
      /\ token.totalSupply \in Nat
  <2>1. vault \in VaultStorage /\ Sound(token) /\ Sound(token')
    BY DEF VInv, Priced, TokenProofs!Inv, Sound
  <2> QED
    BY <2>1, RateTypes
<1>3. /\ TotalValue(held) \in Nat /\ TotalValue(held') \in Nat /\ Dust \in Nat
      /\ PriceAdjusted(d) \in Nat
      /\ TotalValue(held) + PriceAdjusted(d) <= TotalValue(held') + Dust
  BY MintBacked
<1> DEFINE condition == SumFunction([i \in DOMAIN d |-> Scaled(d[i][1], d[i][2])])
                           >= vault.rebaseThreshold
<1>4. PICK t \in RebasedIf(condition, token, TotalValue(held)) :
          token' \in Token!Minted(t, user, PriceAdjusted(d))
  BY DEF Mint
<1> HIDE DEF condition
<1>5. Sound(t) /\ (t = token \/ (~vault.rebasePaused /\ CaughtUp(t, TotalValue(held))))
  BY <1>2, <1>3, <1>4, MaybeCaughtUp
<1>6. /\ token'.totalSupply = t.totalSupply + PriceAdjusted(d)
      /\ token'.rebasingCreditsPerToken = t.rebasingCreditsPerToken
      /\ t.totalSupply \in Nat /\ t.rebasingCreditsPerToken \in Nat \ {0}
  BY <1>3, <1>4, <1>5, MintedSupply, RateTypes
<1>7. CASE t = token
  <2>1. Surplus' = TotalValue(held') - token'.totalSupply
    BY <1>1, SurplusNext
  <2>2. Surplus' >= Surplus - Dust
    BY <1>2, <1>3, <1>6, <1>7, <2>1 DEF Surplus
  <2> QED
    BY <2>2 DEF SurplusKept
<1>8. CASE ~vault.rebasePaused /\ CaughtUp(t, TotalValue(held))
  BY <1>1, <1>3, <1>6, <1>8, CaughtUpAndMinted
<1> QED
  BY <1>5, <1>7, <1>8

\* A redemption that pays nothing.
LEMMA RedeemKeepsSurplus ==
    ASSUME VInv, VInv', \A a \in Assets : PaidOut(a) <= 0,
           NEW condition, NEW t \in RebasedIf(condition, token, TotalValue(held)),
           NEW user \in Accounts, NEW amount \in Nat, RedeemFrom(t, user, amount)
    PROVE  SurplusKept
<1>1. UNCHANGED <<vault, price>>
  BY DEF RedeemFrom
<1>2. /\ vault \in VaultStorage /\ Priced /\ held \in Holdings /\ held' \in Holdings
      /\ Sound(token) /\ Sound(token') /\ token.totalSupply \in Nat
      /\ IsFiniteSet(Supported)
  <2>1. /\ vault \in VaultStorage /\ Priced /\ held \in Holdings /\ held' \in Holdings
        /\ Sound(token) /\ Sound(token')
    BY DEF VInv, Priced, TokenProofs!Inv, Sound, Holdings, Places
  <2> QED
    BY <2>1, RateTypes, ListsFinite
<1>3. TotalValue(held) \in Nat /\ TotalValue(held') \in Nat /\ Dust \in Nat
  BY <1>2, ValueTypes, FS_CardinalityType DEF Dust
<1>4. held' = held
  <2>1. /\ AfterFee(amount) >= 0 /\ TotalBalance(held) > 0 /\ TotalOutputRatio(held) > 0
        /\ held' \in Paid(held, RedeemOutputs(held, amount))
    BY DEF RedeemFrom
  <2>2. RedeemOutputs(held, amount) \in [Supported -> Nat]
    BY <1>2, <2>1, OutputTypes
  <2>3. \A p \in Places, a \in Assets : held'[p][a] <= held[p][a]
    BY <1>2, <2>1, <2>2, PaidLess
  <2> QED
    BY <1>2, <2>3, NothingPaid
<1>5. PICK u \in Token!Burned(t, user, amount) :
          token' \in RebasedIf(amount > vault.rebaseThreshold, u, TotalValue(held'))
  BY DEF RedeemFrom
<1>6. Sound(t) /\ (t = token \/ (~vault.rebasePaused /\ CaughtUp(t, TotalValue(held))))
  BY <1>2, <1>3, MaybeCaughtUp
<1>7. /\ Sound(u) /\ u.totalSupply = t.totalSupply - amount
      /\ u.rebasingCreditsPerToken = t.rebasingCreditsPerToken
      /\ t.totalSupply \in Nat
  BY <1>5, <1>6, CallsSound, BurnedSupply, RateTypes
<1>8. token' = u \/ (~vault.rebasePaused /\ CaughtUp(token', TotalValue(held')))
  <2> DEFINE again == amount > vault.rebaseThreshold
  <2>1. token' \in RebasedIf(again, u, TotalValue(held'))
    BY <1>5
  <2> HIDE DEF again
  <2> QED
    BY <1>2, <1>3, <1>7, <2>1, MaybeCaughtUp
<1>9. CASE token' = u /\ t = token
  <2>1. Surplus' = TotalValue(held') - token'.totalSupply
    BY <1>1, SurplusNext
  <2>2. Surplus' >= Surplus - Dust
    BY <1>2, <1>3, <1>4, <1>7, <1>9, <2>1 DEF Surplus
  <2> QED
    BY <2>2 DEF SurplusKept
<1>10. CASE token' = u /\ ~vault.rebasePaused /\ CaughtUp(t, TotalValue(held))
  BY <1>1, <1>2, <1>3, <1>4, <1>7, <1>10, CaughtUpAndBurned
<1>11. CASE ~vault.rebasePaused /\ CaughtUp(token', TotalValue(held'))
  <2>1. token'.totalSupply \in Nat /\ 0 \in Nat /\ token'.totalSupply = token'.totalSupply + 0
    BY <1>2, RateTypes
  <2> QED
    BY <1>1, <1>3, <1>11, <2>1, CaughtUpAndMinted
<1> QED
  BY <1>6, <1>8, <1>9, <1>10, <1>11

\* Every call of a user, or of a holder.
LEMMA UsersKeepSurplus ==
    ASSUME VInv, ListInv, DefaultsSupport, DefaultStrategiesApproved, VInv',
           \A a \in Assets : PaidOut(a) <= 0, Users
    PROVE  SurplusKept
<1>1. /\ vault \in VaultStorage /\ Priced /\ StrategyListsAgree
      /\ held \in Holdings /\ held' \in Holdings
      /\ Sound(token) /\ Sound(token') /\ IsFiniteSet(Supported)
  <2>1. /\ vault \in VaultStorage /\ Priced /\ held \in Holdings /\ held' \in Holdings
        /\ Sound(token) /\ Sound(token') /\ StrategyListsAgree
    BY DEF VInv, ListInv, Priced, TokenProofs!Inv, Sound, Holdings, Places
  <2> QED
    BY <2>1, ListsFinite
<1>2. TotalValue(held) \in Nat /\ TotalValue(held') \in Nat /\ Dust \in Nat
      /\ token.totalSupply \in Nat
  BY <1>1, ValueTypes, RateTypes, FS_CardinalityType DEF Dust
<1>3. ASSUME NEW u \in Accounts, NEW n \in 1 .. MaxDeposits,
             NEW d \in [1 .. n -> Assets \X Deposits], Mint(u, d)
      PROVE  SurplusKept
  BY <1>3, MintKeepsSurplus
<1>4. ASSUME NEW u \in Accounts, NEW x \in Redemptions, Redeem(u, x) PROVE SurplusKept
  <2> DEFINE condition == x > vault.rebaseThreshold
  <2>1. PICK t \in RebasedIf(condition, token, TotalValue(held)) : RedeemFrom(t, u, x)
    BY <1>4 DEF Redeem
  <2>2. x \in Nat
    BY ArgumentsAssumption
  <2> HIDE DEF condition
  <2> QED
    BY <2>1, <2>2, RedeemKeepsSurplus
<1>5. ASSUME NEW u \in Accounts, RedeemAll(u) PROVE SurplusKept
  <2> DEFINE condition == Token!BalanceOf(token, u) > vault.rebaseThreshold
  <2>1. PICK t \in RebasedIf(condition, token, TotalValue(held)) :
            RedeemFrom(t, u, Token!BalanceOf(t, u))
    BY <1>5 DEF RedeemAll
  <2> HIDE DEF condition
  <2>2. Token!BalanceOf(t, u) \in Nat
    BY <1>1, <1>2, <2>1, MaybeCaughtUp, BalanceTyped
  <2> QED
    BY <2>1, <2>2, RedeemKeepsSurplus
<1>6. CASE Allocate
  <2>1. held' \in Allocated(held) /\ UNCHANGED <<token, vault, price>>
    BY <1>6 DEF Allocate, tokenVars
  <2>2. \A a \in Supported : AssetValue(held, a) <= AssetValue(held', a) + 1
    BY <1>1, <2>1, ValueAllocated
  <2>3. TotalValue(held) <= TotalValue(held') + Dust
    BY <1>1, <2>2, ValueKept
  <2>4. Surplus' = TotalValue(held') - token'.totalSupply
    BY <2>1, SurplusNext
  <2>5. Surplus' >= Surplus - Dust
    BY <1>2, <2>1, <2>3, <2>4 DEF Surplus
  <2> QED
    BY <2>5 DEF SurplusKept
<1>7. CASE Rebase
  <2>1. /\ ~vault.rebasePaused /\ token' \in Rebased(token, TotalValue(held))
        /\ UNCHANGED <<vault, held, price>>
    BY <1>7 DEF Rebase
  <2>2. CASE token' = token
    <3>1. Surplus' = TotalValue(held') - token'.totalSupply
      BY <2>1, SurplusNext
    <3>2. Surplus' >= Surplus - Dust
      BY <1>2, <2>1, <2>2, <3>1 DEF Surplus
    <3> QED
      BY <3>2 DEF SurplusKept
  <2>3. CASE CaughtUp(token', TotalValue(held'))
    <3>1. token'.totalSupply \in Nat /\ 0 \in Nat /\ token'.totalSupply = token'.totalSupply + 0
      BY <1>1, RateTypes
    <3> QED
      BY <1>2, <2>1, <2>3, <3>1, CaughtUpAndMinted
  <2>4. token' = token \/ CaughtUp(token', TotalValue(held'))
    BY <1>1, <1>2, <2>1, RebasedCatchesUp
  <2> QED
    BY <2>2, <2>3, <2>4
<1> QED
  BY <1>3, <1>4, <1>5, <1>6, <1>7 DEF Users

\* A step that leaves the value, the supply and what they are counted by.
LEMMA SurplusLeft ==
    ASSUME VInv, token'.totalSupply = token.totalSupply, UNCHANGED <<held, price>>,
           vault'.allAssets = vault.allAssets, vault'.allStrategies = vault.allStrategies
    PROVE  SurplusKept
<1>1. /\ vault \in VaultStorage /\ Priced /\ held \in Holdings /\ Sound(token)
  BY DEF VInv, Priced, TokenProofs!Inv, Sound
<1>2. TotalValue(held) \in Nat /\ token.totalSupply \in Nat /\ Dust \in Nat
  BY <1>1, ValueTypes, RateTypes, ListsFinite, FS_CardinalityType DEF Dust
<1>3. TotalValue(held)' = TotalValue(held)
  BY SameValue
<1>4. Surplus' >= Surplus - Dust
  BY <1>2, <1>3 DEF Surplus
<1> QED
  BY <1>4 DEF SurplusKept

\* No call that pays nothing out lowers the value behind the supply by more than
\* what is rounded: not minting, with however many deposits and whatever rebase and
\* allocation in its course, not a redemption of nothing, no call of a holder and none
\* of the governor or the strategist; save that a rebase hands the surplus out, and
\* then the supply exceeds the value by no more than the rounded rate makes it.
THEOREM NoCallDilutes == Spec => [][KeepsValue]_vars
<1>1. ASSUME VInv, ListInv, DefaultsSupport, VInv', ListInv', Next
      PROVE  KeepsValue
  <2> SUFFICES ASSUME ~World, DefaultStrategiesApproved, \A a \in Assets : PaidOut(a) <= 0
               PROVE  SurplusKept
    BY DEF KeepsValue, SurplusKept
  <2>1. CASE Users
    BY <1>1, <2>1, UsersKeepSurplus
  <2>2. CASE Holders
    <3>1. PICK a \in Choosers : Token!By(a)
      BY <2>2 DEF Holders
    <3>2. a \in Accounts /\ TokenProofs!By(a) /\ TokenProofs!Inv
      BY <1>1, <3>1, SameBy, ArgumentsAssumption DEF VInv
    <3>3. token'.totalSupply = token.totalSupply
      BY <3>2, TokenProofs!BySupply, TokenAssumptions
    <3>4. UNCHANGED <<vault, held, price>>
      BY <2>2 DEF Holders
    <3> QED
      BY <1>1, <3>3, <3>4, SurplusLeft
  <2>3. CASE Configure
    <3>1. /\ token' = token /\ UNCHANGED <<held, price>>
          /\ vault'.allAssets = vault.allAssets /\ vault'.allStrategies = vault.allStrategies
      <4>1. vault \in VaultStorage
        BY <1>1 DEF ListInv
      <4> QED
        BY <2>3, <4>1
        DEF Configure, SetVault, SetRedeemFeeBps, SetVaultBuffer, SetAutoAllocateThreshold,
            SetRebaseThreshold, SetMaxSupplyDiff, SetTrusteeAddress, SetTrusteeFeeBps,
            PauseRebase, UnpauseRebase, PauseCapital, UnpauseCapital, tokenVars, VaultStorage
    <3> QED
      BY <1>1, <3>1, SurplusLeft
  <2>4. CASE Administer
    <3>1. /\ token' = token
          /\ TotalValue(held) \in Nat /\ TotalValue(held)' \in Nat /\ Dust \in Nat
          /\ TotalValue(held) <= TotalValue(held)' + Dust
      BY <1>1, <2>4, AdministerKeepsValue
    <3>2. token.totalSupply \in Nat
      <4>1. Sound(token)
        BY <1>1 DEF VInv, TokenProofs!Inv, Sound
      <4> QED
        BY <4>1, RateTypes
    <3>3. Surplus' >= Surplus - Dust
      BY <3>1, <3>2 DEF Surplus
    <3> QED
      BY <3>3 DEF SurplusKept
  <2> QED
    BY <1>1, <2>1, <2>2, <2>3, <2>4 DEF Next
<1>2. VInv /\ ListInv /\ DefaultsSupport /\ [Next]_vars => [KeepsValue]_vars
  BY <1>1, VInvStep, ListInvStep
<1> QED
  BY <1>2, SpecDefaults, PTL DEF Spec
-----------------------------------------------------------------------------
(* What redeemAll leaves.                                                    *)

\* A rebase keeps what a credit is worth at a unit or more, where no migration and no
\* cap comes in between.
LEMMA RebasedAtPar ==
    ASSUME vault \in VaultStorage, NEW t, Sound(t), t.totalSupply <= MaxSupply,
           Token!Touch(t, vault.trustee) = t, TokenProofs!AtPar(t),
           NEW value \in Nat, NEW u \in Rebased(t, value),
           NEW a \in Accounts, Token!CreditsPerToken(t, a) <= FullScale
    PROVE  Token!CreditsPerToken(u, a) <= FullScale
<1> SUFFICES ASSUME NEW p, Sound(p), p.totalSupply < value, u \in Token!SupplyChanged(p, value),
                    \/ p = t
                    \/ /\ vault.trustee \in Accounts
                       /\ \E fee \in Nat : p \in Token!Minted(t, vault.trustee, fee)
             PROVE  Token!CreditsPerToken(u, a) <= FullScale
  BY RebasedParts
<1>1. TokenProofs!Sound(t) /\ TokenProofs!Sound(p) /\ u \in TokenProofs!SupplyChanged(p, value)
  BY SameChangeSupply DEF Sound
<1>2. /\ p.nonRebasingCreditsPerToken = t.nonRebasingCreditsPerToken
      /\ t.rebasingCreditsPerToken <= FullScale => TokenProofs!AtPar(p)
      /\ p.totalSupply <= MaxSupply
  <2>1. CASE p = t
    BY <2>1
  <2>2. ASSUME vault.trustee \in Accounts, NEW fee \in Nat, p \in Token!Minted(t, vault.trustee, fee)
        PROVE  /\ p.nonRebasingCreditsPerToken = t.nonRebasingCreditsPerToken
               /\ t.rebasingCreditsPerToken <= FullScale => TokenProofs!AtPar(p)
               /\ p.totalSupply <= MaxSupply
    <3>1. p \in TokenProofs!Minted(t, vault.trustee, fee)
      BY <2>2, SameMint
    <3>2. TokenProofs!Touch(t, vault.trustee) = t
      BY DEF Token!Touch, TokenProofs!Touch, Token!Frozen, TokenProofs!Frozen,
             Token!IsNonRebasing, TokenProofs!IsNonRebasing, Token!BalanceOf, TokenProofs!BalanceOf,
             Token!CreditsPerToken, TokenProofs!CreditsPerToken,
             Token!DivPrecisely, TokenProofs!DivPrecisely
    <3>3. p.totalSupply <= MaxSupply
      <4>1. p.totalSupply < MaxSupply
        BY <2>2 DEF Token!Minted
      <4> QED
        BY <4>1, SoundTypes, TokenAssumption
    <3> QED
      BY <1>1, <2>2, <3>1, <3>2, <3>3, TokenProofs!MintAtPar, TokenAssumptions
  <2> QED
    BY <2>1, <2>2
<1>3. u.nonRebasingCreditsPerToken = p.nonRebasingCreditsPerToken
  BY <1>1, TokenProofs!SupplyReached, TokenAssumptions
<1>4. CASE t.nonRebasingCreditsPerToken[a] # 0
  BY <1>2, <1>3, <1>4 DEF Token!CreditsPerToken
<1>5. CASE t.nonRebasingCreditsPerToken[a] = 0
  <2>1. t.rebasingCreditsPerToken <= FullScale
    BY <1>5 DEF Token!CreditsPerToken
  <2>2. TokenProofs!AtPar(p) /\ p.totalSupply <= MaxSupply /\ value > p.totalSupply
    <3>1. p.totalSupply \in Nat
      BY SoundTypes
    <3> QED
      BY <1>2, <2>1, <3>1
  <2>3. u.rebasingCreditsPerToken <= FullScale
    BY <1>1, <2>2, TokenProofs!RateStaysAtPar, TokenAssumptions
  <2> QED
    BY <1>2, <1>3, <1>5, <2>3 DEF Token!CreditsPerToken
<1> QED
  BY <1>4, <1>5

\* A rebase gives credits to nobody but the trustee.
LEMMA RebasedOthers ==
    ASSUME vault \in VaultStorage, NEW t, Sound(t), NEW value \in Nat, NEW u \in Rebased(t, value),
           NEW a \in Accounts \ {vault.trustee}
    PROVE  u.creditBalances[a] = t.creditBalances[a]
<1> SUFFICES ASSUME NEW p, Sound(p), u \in Token!SupplyChanged(p, value),
                    \/ p = t
                    \/ /\ vault.trustee \in Accounts
                       /\ \E fee \in Nat : p \in Token!Minted(t, vault.trustee, fee)
             PROVE  u.creditBalances[a] = t.creditBalances[a]
  BY RebasedParts
<1>1. TokenProofs!Sound(t) /\ TokenProofs!Sound(p) /\ u \in TokenProofs!SupplyChanged(p, value)
  BY SameChangeSupply DEF Sound
<1>2. u.creditBalances = p.creditBalances
  BY <1>1, TokenProofs!SupplyReached, TokenAssumptions
<1>3. ASSUME vault.trustee \in Accounts, NEW fee \in Nat, p \in Token!Minted(t, vault.trustee, fee)
      PROVE  p.creditBalances[a] = t.creditBalances[a]
  <2>1. p \in TokenProofs!Minted(t, vault.trustee, fee)
    BY <1>3, SameMint
  <2> QED
    BY <1>1, <1>3, <2>1, TokenProofs!MintOthers, TokenAssumptions
<1> QED
  BY <1>2, <1>3

\* redeemAll leaves its caller no balance, as long as a credit is worth at least a unit of
\* the token (RedeemsAll says it in these terms), the supply is not above its cap and the
\* trustee not a contract that the call itself would migrate: the cap cuts the supply that
\* the credits share, and a migration takes a rounded balance from it.
THEOREM RedeemAllLeavesNothing ==
    Spec => [][Token!TotalSupplyIsBelowMaxSupply /\ Token!Touch(token, vault.trustee) = token
                  => RedeemsAll]_vars
<1>1. ASSUME VInv, VInv', Token!TotalSupplyIsBelowMaxSupply, Token!Touch(token, vault.trustee) = token,
             NEW u \in Accounts \ {vault.trustee}, Token!BalanceOf(token', u) > 0,
             Token!CreditsPerToken(token, u) <= FullScale,
             token.rebasingCredits <= token.totalSupply - token.nonRebasingSupply,
             RedeemAll(u)
      PROVE  FALSE
  <2>1. /\ vault \in VaultStorage /\ Priced /\ held \in Holdings /\ held' \in Holdings
        /\ Sound(token) /\ Sound(token')
    BY <1>1 DEF VInv, Priced, TokenProofs!Inv, Sound, Holdings, Places
  <2>2. TotalValue(held) \in Nat /\ TotalValue(held') \in Nat
    BY <2>1, ValueTypes
  <2> DEFINE condition == Token!BalanceOf(token, u) > vault.rebaseThreshold
  <2>3. PICK t \in RebasedIf(condition, token, TotalValue(held)) :
            RedeemFrom(t, u, Token!BalanceOf(t, u))
    BY <1>1 DEF RedeemAll
  <2> HIDE DEF condition
  <2>4. Sound(t) /\ (t = token \/ t \in Rebased(token, TotalValue(held)))
    BY <2>1, <2>2, <2>3, MaybeCaughtUp DEF RebasedIf
  <2>5. Token!CreditsPerToken(t, u) <= FullScale
    <3>1. TokenProofs!AtPar(token) /\ token.totalSupply <= MaxSupply
      BY <1>1 DEF TokenProofs!AtPar, Token!TotalSupplyIsBelowMaxSupply
    <3> QED
      BY <1>1, <2>1, <2>2, <2>4, <3>1, RebasedAtPar
  <2> DEFINE amount == Token!BalanceOf(t, u)
             again == amount > vault.rebaseThreshold
  <2>6. PICK w \in Token!Burned(t, u, amount) : token' \in RebasedIf(again, w, TotalValue(held'))
    BY <2>3 DEF RedeemFrom
  <2>7. amount > 0 /\ amount \in Nat
    BY <2>3, <2>4, BalanceTyped DEF RedeemFrom
  <2>8. w.creditBalances[u] = 0
    <3>1. /\ TokenProofs!Sound(t) /\ w \in TokenProofs!Burned(t, u, TokenProofs!BalanceOf(t, u))
          /\ TokenProofs!BalanceOf(t, u) # 0 /\ TokenProofs!CreditsPerToken(t, u) <= FullScale
      BY <2>4, <2>5, <2>6, <2>7, SameBurn, SameBalances DEF Sound
    <3> QED
      BY <3>1, TokenProofs!BurnAll, TokenAssumptions
  <2> HIDE DEF again, amount
  <2>9. Sound(w)
    BY <2>4, <2>6, <2>7, CallsSound
  <2>10. token' = w \/ token' \in Rebased(w, TotalValue(held'))
    BY <2>6 DEF RebasedIf
  <2>11. token'.creditBalances[u] = 0
    BY <2>1, <2>2, <2>8, <2>9, <2>10, RebasedOthers
  <2>12. Token!BalanceOf(token', u) = 0
    BY <2>11 DEF Token!BalanceOf
  <2> QED
    BY <1>1, <2>12
<1>2. VInv /\ ListInv /\ [Next]_vars =>
        [Token!TotalSupplyIsBelowMaxSupply /\ Token!Touch(token, vault.trustee) = token
            => RedeemsAll]_vars
  BY <1>1, VInvStep DEF RedeemsAll
<1> QED
  BY <1>2, SpecVInv, PTL DEF Spec
=============================================================================
