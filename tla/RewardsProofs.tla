---------------------------- MODULE RewardsProofs ----------------------------
(***************************************************************************)
(* Staking counts what it owes, pays it once and accepts a voucher only for *)
(* a leaf of the published list, whatever its length; the claims contract   *)
(* keeps its total and can pay what it owes in a claim period, and          *)
(* compensationSync.js says only what is true; liquidity mining gives each  *)
(* user their share of each block and can pay it; for any stakers, lists,   *)
(* accounts, files, users, campaigns and bounds.                            *)
(***************************************************************************)
EXTENDS Rewards, ArithmeticProofs, SequenceTheorems

-----------------------------------------------------------------------------
(* Staking: the trees of air drops.                                         *)
\* What the definition of the levels asks of a function.
Leveled(list, n, g) ==
    g = [d \in 0 .. n |-> IF d = 0 THEN Stk!getLeaves(list)
                          ELSE Stk!reduceMerkleBranches(g[d - 1])]

\* There is such a function.
LEMMA LevelsExist ==
    ASSUME NEW list, NEW n \in Nat
    PROVE  \E g : Leveled(list, n, g)
<1> DEFINE T == {k \in Nat : \E g : Leveled(list, k, g)}
<1>1. 0 \in T
  <2> DEFINE g == [d \in 0 .. 0 |-> Stk!getLeaves(list)]
  <2>1. Leveled(list, 0, g)
    BY DEF Leveled
  <2> QED
    BY <2>1
<1>2. ASSUME NEW k \in Nat, k \in T PROVE k + 1 \in T
  <2>1. PICK g : Leveled(list, k, g)
    BY <1>2
  <2> DEFINE h == [d \in 0 .. k + 1 |-> IF d <= k THEN g[d]
                                        ELSE Stk!reduceMerkleBranches(g[k])]
             e(d) == IF d = 0 THEN Stk!getLeaves(list) ELSE Stk!reduceMerkleBranches(h[d - 1])
  <2>2. ASSUME NEW d \in 0 .. k
        PROVE  g[d] = IF d = 0 THEN Stk!getLeaves(list) ELSE Stk!reduceMerkleBranches(g[d - 1])
    BY <2>1 DEF Leveled
  <2>3. ASSUME NEW d \in 0 .. k + 1 PROVE h[d] = e(d)
    <3>1. CASE d <= k
      <4>1. d \in 0 .. k /\ h[d] = g[d] /\ (d # 0 => h[d - 1] = g[d - 1])
        BY <3>1
      <4> QED
        BY <2>2, <4>1
    <3>2. CASE d > k
      <4>1. d = k + 1 /\ h[d] = Stk!reduceMerkleBranches(g[k]) /\ h[k] = g[k] /\ d - 1 = k /\ d # 0
        BY <3>2
      <4> QED
        BY <4>1
    <3> QED
      BY <3>1, <3>2
  <2>4. h = [d \in 0 .. k + 1 |-> e(d)]
    BY <2>3
  <2>5. Leveled(list, k + 1, h)
    BY <2>4 DEF Leveled
  <2> QED
    BY <2>5
<1> HIDE DEF T
<1>3. Nat \subseteq T
  BY <1>1, <1>2, ByInduction
<1> QED
  BY <1>3 DEF T

\* The levels are as they are defined.
LEMMA LevelsAre ==
    ASSUME NEW list, Len(list) \in Nat
    PROVE  /\ DOMAIN Stk!levels(list) = 0 .. Len(list)
           /\ Stk!levels(list)[0] = Stk!getLeaves(list)
           /\ \A d \in 1 .. Len(list) :
                 Stk!levels(list)[d] = Stk!reduceMerkleBranches(Stk!levels(list)[d - 1])
<1> DEFINE tree == Stk!levels(list)
<1>1. tree = CHOOSE g : Leveled(list, Len(list), g)
  BY DEF Stk!levels, Leveled
<1>2. Leveled(list, Len(list), tree)
  BY <1>1, LevelsExist
<1> HIDE DEF tree
<1>3. tree = [d \in 0 .. Len(list) |-> IF d = 0 THEN Stk!getLeaves(list)
                                       ELSE Stk!reduceMerkleBranches(tree[d - 1])]
  BY <1>2 DEF Leveled
<1>4. DOMAIN tree = 0 .. Len(list)
  BY <1>3
<1>5. ASSUME NEW d \in 0 .. Len(list)
      PROVE  tree[d] = IF d = 0 THEN Stk!getLeaves(list) ELSE Stk!reduceMerkleBranches(tree[d - 1])
  BY <1>3
<1> QED
  BY <1>4, <1>5 DEF tree

\* A row of m entries.
Row(s, m) == m \in Nat \ {0} /\ s = [i \in 1 .. m |-> s[i]]

\* A function on the first numbers is a sequence.
LEMMA IsSequence ==
    ASSUME NEW s, NEW m \in Nat, s = [i \in 1 .. m |-> s[i]]
    PROVE  Len(s) = m /\ \E S : s \in Seq(S)
<1> DEFINE S == {s[i] : i \in 1 .. m}
<1>1. s \in [1 .. m -> S] /\ DOMAIN s = 1 .. m
  OBVIOUS
<1>2. s \in Seq(S)
  BY <1>1, SeqDef
<1>3. Len(s) \in Nat /\ DOMAIN s = 1 .. Len(s)
  BY <1>2, LenProperties
<1>4. Len(s) = m
  BY <1>1, <1>3
<1> QED
  BY <1>2, <1>4

\* A row is one.
LEMMA RowIsSequence ==
    ASSUME NEW s, NEW m, Row(s, m)
    PROVE  /\ Len(s) = m /\ m \in Nat \ {0} /\ DOMAIN s = 1 .. m
           /\ \E S : s \in Seq(S)
<1>1. m \in Nat \ {0} /\ s = [i \in 1 .. m |-> s[i]]
  BY DEF Row
<1> QED
  BY <1>1, IsSequence

\* One level up, from a row whose last entry is doubled if it has no partner.
LEMMA Reduced ==
    ASSUME NEW s, NEW m, Row(s, m)
    PROVE  LET r == Stk!reduceMerkleBranches(s)
           IN  /\ Row(r, (m + 1) \div 2)
               /\ \A i \in 1 .. (m + 1) \div 2 :
                     /\ 2 * i - 1 \in 1 .. m
                     /\ r[i] = <<s[2 * i - 1], s[IF 2 * i <= m THEN 2 * i ELSE 2 * i - 1]>>
<1> DEFINE paired == IF m % 2 = 1 THEN Append(s, s[m]) ELSE s
           r == Stk!reduceMerkleBranches(s)
           half == (m + 1) \div 2
<1>1. Len(s) = m /\ m \in Nat \ {0} /\ DOMAIN s = 1 .. m
  BY RowIsSequence
<1>2. PICK S : s \in Seq(S)
  BY RowIsSequence
<1>3. s[m] \in S
  BY <1>1, <1>2, ElementOfSeq
<1>4. /\ Len(Append(s, s[m])) = m + 1
      /\ \A i \in 1 .. m : Append(s, s[m])[i] = s[i]
      /\ Append(s, s[m])[m + 1] = s[m]
  BY <1>1, <1>2, <1>3, AppendProperties
<1>5. half \in Nat \ {0} /\ Len(paired) = 2 * half
  <2>1. m % 2 = 1 => half \in Nat \ {0} /\ m + 1 = 2 * half
    BY <1>1
  <2>2. m % 2 # 1 => half \in Nat \ {0} /\ m = 2 * half
    BY <1>1
  <2> QED
    BY <1>1, <1>4, <2>1, <2>2
<1>6. \A i \in 1 .. m : paired[i] = s[i]
  BY <1>4
<1>7. r = [i \in 1 .. Len(paired) \div 2 |-> <<paired[2 * i - 1], paired[2 * i]>>]
  BY <1>1 DEF Stk!reduceMerkleBranches, Stk!Last
<1>8. Len(paired) \div 2 = half
  <2> HIDE DEF half, paired
  <2>1. (2 * half) \div 2 = half
    BY <1>5
  <2> QED
    BY <1>5, <2>1
<1>9. r = [i \in 1 .. half |-> <<paired[2 * i - 1], paired[2 * i]>>]
  BY <1>7, <1>8
<1>10. Row(r, half)
  BY <1>5, <1>9 DEF Row
<1>11. ASSUME NEW i \in 1 .. half
       PROVE  /\ 2 * i - 1 \in 1 .. m
              /\ r[i] = <<s[2 * i - 1], s[IF 2 * i <= m THEN 2 * i ELSE 2 * i - 1]>>
  <2>1. i \in Int /\ r[i] = <<paired[2 * i - 1], paired[2 * i]>>
    BY <1>5, <1>9
  <2>2. 2 * i - 1 \in 1 .. m
    BY <1>1, <2>1
  <2>3. paired[2 * i] = s[IF 2 * i <= m THEN 2 * i ELSE 2 * i - 1]
    <3>1. CASE 2 * i <= m
      <4>1. 2 * i \in 1 .. m
        BY <1>1, <2>1, <3>1
      <4> QED
        BY <1>6, <3>1, <4>1
    <3>2. CASE ~(2 * i <= m)
      <4>1. 2 * i - 1 = m /\ 2 * i = m + 1 /\ m % 2 = 1
        BY <1>1, <2>1, <2>2, <3>2
      <4> QED
        BY <1>4, <3>2, <4>1
    <3> QED
      BY <3>1, <3>2
  <2> QED
    BY <1>6, <2>1, <2>2, <2>3
<1> QED
  BY <1>10, <1>11

\* A list of one air drop or more.
IsList(list) == Len(list) \in Nat \ {0} /\ DOMAIN list = 1 .. Len(list)

\* Every level is a row, half as long as the one below, rounded up.
LEMMA LevelsAreRows ==
    ASSUME NEW list, IsList(list), NEW d \in 0 .. Len(list)
    PROVE  LET tree == Stk!levels(list)
           IN  /\ Row(tree[d], Len(tree[d]))
               /\ d = 0 => Len(tree[d]) = Len(list)
               /\ d # 0 => Len(tree[d]) = (Len(tree[d - 1]) + 1) \div 2
<1> DEFINE tree == Stk!levels(list)
           n == Len(list)
           T == {k \in Nat : k <= n => Row(tree[k], Len(tree[k]))}
<1>0. n \in Nat \ {0} /\ DOMAIN list = 1 .. n
  BY DEF IsList
<1>1. Row(tree[0], n)
  <2>1. tree[0] = [i \in 1 .. n |-> Stk!hash(i - 1, list[i][1], list[i][2])]
    BY <1>0, LevelsAre DEF Stk!getLeaves
  <2> QED
    BY <1>0, <2>1 DEF Row
<1>2. Len(tree[0]) = n
  BY <1>1, RowIsSequence
<1>3. ASSUME NEW k \in 1 .. n, Row(tree[k - 1], Len(tree[k - 1]))
      PROVE  /\ Row(tree[k], Len(tree[k]))
             /\ Len(tree[k]) = (Len(tree[k - 1]) + 1) \div 2
  <2>1. tree[k] = Stk!reduceMerkleBranches(tree[k - 1])
    BY <1>0, LevelsAre
  <2>2. Row(tree[k], (Len(tree[k - 1]) + 1) \div 2)
    BY <1>3, <2>1, Reduced
  <2> QED
    BY <2>2, RowIsSequence
<1>4. 0 \in T
  BY <1>1, <1>2
<1>5. ASSUME NEW k \in Nat, k \in T PROVE k + 1 \in T
  <2>1. SUFFICES ASSUME k + 1 <= n PROVE Row(tree[k + 1], Len(tree[k + 1]))
    OBVIOUS
  <2>2. k + 1 \in 1 .. n /\ Row(tree[(k + 1) - 1], Len(tree[(k + 1) - 1]))
    BY <1>0, <1>5, <2>1
  <2> QED
    BY <1>3, <2>2
<1> HIDE DEF T
<1>6. Nat \subseteq T
  BY <1>4, <1>5, ByInduction
<1>7. \A k \in 0 .. n : Row(tree[k], Len(tree[k]))
  BY <1>0, <1>6 DEF T
<1>8. d # 0 => d \in 1 .. n /\ d - 1 \in 0 .. n
  BY <1>0
<1> QED
  BY <1>2, <1>3, <1>7, <1>8

\* The depth is that of the first level of one node.
LEMMA DepthIs ==
    ASSUME NEW list, IsList(list)
    PROVE  LET tree == Stk!levels(list)
               top == Stk!depth(tree)
           IN  /\ top \in 0 .. Len(list) /\ Len(tree[top]) = 1
               /\ \A d \in 0 .. Len(list) : d < top => Len(tree[d]) > 1
<1> DEFINE tree == Stk!levels(list)
           n == Len(list)
           len(d) == Len(tree[d])
           single == {d \in DOMAIN tree : len(d) <= 1}
           T == {k \in Nat : k <= n => len(k) <= 1 \/ len(k) + k <= n}
<1>0. n \in Nat \ {0} /\ DOMAIN tree = 0 .. n
  BY LevelsAre DEF IsList
<1>1. \A d \in 0 .. n :
         /\ len(d) \in Nat \ {0}
         /\ d = 0 => len(d) = n
         /\ d # 0 => len(d) = (len(d - 1) + 1) \div 2
  BY LevelsAreRows DEF Row
<1>2. Stk!depth(tree) = CHOOSE x \in single : \A y \in single : x <= y
  BY DEF Stk!depth, Stk!Min
<1> HIDE DEF tree, n, len
<1>3. 0 \in T
  BY <1>0, <1>1
<1>4. ASSUME NEW k \in Nat, k \in T PROVE k + 1 \in T
  <2>1. SUFFICES ASSUME k + 1 <= n PROVE len(k + 1) <= 1 \/ len(k + 1) + (k + 1) <= n
    OBVIOUS
  <2>2. k \in 0 .. n /\ k + 1 \in 0 .. n /\ (k + 1) - 1 = k
    BY <1>0, <2>1
  <2>3. len(k) \in Nat \ {0} /\ len(k + 1) = (len(k) + 1) \div 2
    BY <1>1, <2>2
  <2>4. len(k) <= 1 \/ len(k) + k <= n
    BY <1>0, <1>4, <2>1
  <2> QED
    BY <1>0, <2>3, <2>4
<1>5. n \in T
  <2> HIDE DEF T
  <2> QED
    BY <1>0, <1>3, <1>4, ByInduction
<1>6. n \in single
  BY <1>0, <1>1, <1>5
<1>7. single \in SUBSET Nat /\ single # {}
  BY <1>0, <1>6
<1>8. PICK m \in single : \A k \in single : m <= k
  BY <1>7, LeastNatural
<1> DEFINE top == Stk!depth(tree)
<1>9. top \in single /\ \A y \in single : top <= y
  BY <1>2, <1>8
<1> HIDE DEF top
<1>10. top \in 0 .. n /\ len(top) = 1
  <2>1. top \in 0 .. n /\ len(top) <= 1
    BY <1>0, <1>9
  <2>2. len(top) \in Nat \ {0}
    BY <1>1, <2>1
  <2> QED
    BY <2>1, <2>2
<1>11. ASSUME NEW d \in 0 .. n, d < top PROVE len(d) > 1
  <2>0. d \in Nat /\ top \in Nat
    BY <1>0, <1>10
  <2>1. len(d) \in Nat \ {0}
    BY <1>1
  <2>2. d \notin single
    BY <1>9, <1>11, <2>0
  <2> QED
    BY <1>0, <2>1, <2>2
<1> QED
  BY <1>10, <1>11 DEF tree, n, len, top

\* What the definition of the nodes above a leaf asks of a function.
Climbed(leaf, index, proof, n, g) ==
    g = [d \in 0 .. n |-> IF d = 0 THEN leaf
                          ELSE IF Stk!PathAt(index, d - 1) % 2 = 1 THEN <<proof[d], g[d - 1]>>
                          ELSE <<g[d - 1], proof[d]>>]

\* There is such a function.
LEMMA NodesExist ==
    ASSUME NEW leaf, NEW index, NEW proof, NEW n \in Nat
    PROVE  \E g : Climbed(leaf, index, proof, n, g)
<1> DEFINE T == {k \in Nat : \E g : Climbed(leaf, index, proof, k, g)}
           right(d) == Stk!PathAt(index, d - 1) % 2 = 1
<1>1. 0 \in T
  <2> DEFINE g == [d \in 0 .. 0 |-> leaf]
  <2>1. Climbed(leaf, index, proof, 0, g)
    BY DEF Climbed
  <2> QED
    BY <2>1
<1>2. ASSUME NEW k \in Nat, k \in T PROVE k + 1 \in T
  <2>1. PICK g : Climbed(leaf, index, proof, k, g)
    BY <1>2
  <2> DEFINE up(f, d) == IF d = 0 THEN leaf
                         ELSE IF right(d) THEN <<proof[d], f[d - 1]>> ELSE <<f[d - 1], proof[d]>>
             last == up(g, k + 1)
             h == [d \in 0 .. k + 1 |-> IF d <= k THEN g[d] ELSE last]
  <2>2. ASSUME NEW d \in 0 .. k PROVE g[d] = up(g, d)
    BY <2>1 DEF Climbed
  <2>3. ASSUME NEW d \in 0 .. k + 1 PROVE h[d] = up(h, d)
    <3>1. CASE d <= k
      <4>1. d \in 0 .. k /\ h[d] = g[d] /\ (d # 0 => h[d - 1] = g[d - 1])
        BY <3>1
      <4>2. up(h, d) = up(g, d)
        BY <4>1
      <4> QED
        BY <2>2, <4>1, <4>2
    <3>2. CASE d > k
      <4>1. d = k + 1 /\ ~(d <= k) /\ k \in 0 .. k + 1 /\ k <= k /\ (k + 1) - 1 = k
        BY <3>2
      <4>2. h[d] = last /\ h[k] = g[k]
        <5> HIDE DEF last
        <5> QED
          BY <4>1
      <4> HIDE DEF h
      <4>3. up(h, k + 1) = last
        BY <4>1, <4>2
      <4> QED
        BY <4>1, <4>2, <4>3
    <3> QED
      BY <3>1, <3>2
  <2>4. h = [d \in 0 .. k + 1 |-> up(h, d)]
    BY <2>3
  <2>5. Climbed(leaf, index, proof, k + 1, h)
    BY <2>4 DEF Climbed
  <2> QED
    BY <2>5
<1> HIDE DEF T
<1>3. Nat \subseteq T
  BY <1>1, <1>2, ByInduction
<1> QED
  BY <1>3 DEF T

\* The nodes above a leaf are as they are defined.
LEMMA NodesAre ==
    ASSUME NEW leaf, NEW index, NEW proof, Len(proof) \in Nat
    PROVE  LET node == Stk!NodesAbove(leaf, index, proof)
           IN  /\ node[0] = leaf
               /\ \A d \in 1 .. Len(proof) :
                     node[d] = IF Stk!PathAt(index, d - 1) % 2 = 1 THEN <<proof[d], node[d - 1]>>
                               ELSE <<node[d - 1], proof[d]>>
<1> DEFINE node == Stk!NodesAbove(leaf, index, proof)
           n == Len(proof)
           up(f, d) == IF d = 0 THEN leaf
                       ELSE IF Stk!PathAt(index, d - 1) % 2 = 1 THEN <<proof[d], f[d - 1]>>
                       ELSE <<f[d - 1], proof[d]>>
<1>1. node = CHOOSE g : Climbed(leaf, index, proof, n, g)
  BY DEF Stk!NodesAbove, Climbed
<1>2. Climbed(leaf, index, proof, n, node)
  BY <1>1, NodesExist
<1> HIDE DEF node
<1>3. node = [d \in 0 .. n |-> up(node, d)]
  BY <1>2 DEF Climbed
<1>4. \A d \in 0 .. n : node[d] = up(node, d)
  BY <1>3
<1>5. 0 \in 0 .. n /\ \A d \in 1 .. n : d \in 0 .. n /\ d # 0
  OBVIOUS
<1>6. node[0] = leaf
  BY <1>4, <1>5
<1>7. ASSUME NEW d \in 1 .. n
      PROVE  node[d] = IF Stk!PathAt(index, d - 1) % 2 = 1 THEN <<proof[d], node[d - 1]>>
                       ELSE <<node[d - 1], proof[d]>>
  <2>1. node[d] = up(node, d)
    BY <1>4, <1>5
  <2> QED
    BY <1>5, <2>1
<1> QED
  BY <1>6, <1>7 DEF node

\* A path moves up by halves.
LEMMA PathUp ==
    ASSUME NEW index \in Nat
    PROVE  /\ Stk!PathAt(index, 0) = index
           /\ \A d \in Nat : /\ Stk!PathAt(index, d) \in Nat
                             /\ Stk!PathAt(index, d + 1) = Stk!PathAt(index, d) \div 2
<1>1. Stk!PathAt(index, 0) = index
  BY PowersOfTwo DEF Stk!PathAt
<1>2. ASSUME NEW d \in Nat
      PROVE  Stk!PathAt(index, d) \in Nat /\ Stk!PathAt(index, d + 1) = Stk!PathAt(index, d) \div 2
  <2>1. PICK P \in Nat \ {0} : P = 2 ^ d /\ 2 ^ (d + 1) = 2 * P
    BY PowersOfTwo
  <2> DEFINE q == index \div P
             r == q \div 2
  <2>2. q \in Int /\ P * q <= index /\ index < P * (q + 1)
    BY DivBounds
  <2>3. 0 <= q
    BY <2>2, DivAtLeast
  <2> HIDE DEF q
  <2>4. r \in Nat /\ 2 * r <= q /\ q + 1 <= 2 * (r + 1)
    BY <2>2, <2>3
  <2> HIDE DEF r
  <2>5. P * (2 * r) <= P * q /\ P * (q + 1) <= P * (2 * (r + 1))
    BY <2>2, <2>4, TimesMonotone
  <2>6. (2 * P) * r = P * (2 * r) /\ (2 * P) * (r + 1) = P * (2 * (r + 1)) /\ 2 * P \in Nat \ {0}
    BY <2>4
  <2>7. P * q \in Int /\ P * (q + 1) \in Int /\ P * (2 * r) \in Int /\ P * (2 * (r + 1)) \in Int
    BY <2>2, <2>4
  <2>8. (2 * P) * r <= index /\ index < (2 * P) * (r + 1)
    BY <2>2, <2>5, <2>6, <2>7
  <2>9. PICK D \in Nat \ {0} : D = 2 * P
    BY <2>6
  <2>10. D * r <= index /\ index < D * (r + 1) /\ r \in Int /\ r + 1 \in Int
    BY <2>4, <2>8, <2>9
  <2>11. r <= index \div D
    BY <2>10, DivAtLeast
  <2>12. index \div D < r + 1
    BY <2>10, DivLess
  <2>13. index \div D \in Int
    BY DivBounds
  <2>14. index \div D = r
    BY <2>10, <2>11, <2>12, <2>13
  <2>15. Stk!PathAt(index, d) = q /\ Stk!PathAt(index, d + 1) = index \div D
    BY <2>1, <2>9 DEF Stk!PathAt, q
  <2> QED
    BY <2>2, <2>3, <2>14, <2>15 DEF r
<1> QED
  BY <1>1, <1>2

\* The paths from the leaves stay within the levels, and a tree is deep enough for
\* its leaves.
LEMMA PathsFit ==
    ASSUME NEW list, IsList(list), NEW d \in 0 .. Len(list)
    PROVE  LET tree == Stk!levels(list)
           IN  /\ \A index \in 0 .. Len(list) - 1 : Stk!PathAt(index, d) < Len(tree[d])
               /\ Len(list) <= Len(tree[d]) * 2 ^ d
<1> DEFINE tree == Stk!levels(list)
           n == Len(list)
           len(k) == Len(tree[k])
           fits(k) == /\ \A index \in 0 .. n - 1 : Stk!PathAt(index, k) < len(k)
                      /\ n <= len(k) * 2 ^ k
           T == {k \in Nat : k <= n => fits(k)}
<1>0. n \in Nat \ {0}
  BY DEF IsList
<1>1. \A k \in 0 .. n :
         /\ len(k) \in Nat \ {0}
         /\ k = 0 => len(k) = n
         /\ k # 0 => len(k) = (len(k - 1) + 1) \div 2
  BY LevelsAreRows DEF Row
<1> HIDE DEF tree, n, len
<1>2. 0 \in T
  <2>1. len(0) = n
    BY <1>0, <1>1
  <2>2. n <= len(0) * 2 ^ 0
    BY <1>0, <2>1, PowersOfTwo
  <2>3. ASSUME NEW index \in 0 .. n - 1 PROVE Stk!PathAt(index, 0) < len(0)
    <3>1. index \in Nat /\ index < n
      BY <1>0
    <3> QED
      BY <2>1, <3>1, PathUp
  <2> QED
    BY <2>2, <2>3
<1>3. ASSUME NEW k \in Nat, k \in T PROVE k + 1 \in T
  <2>1. SUFFICES ASSUME k + 1 <= n PROVE fits(k + 1)
    OBVIOUS
  <2>2. k \in 0 .. n /\ k + 1 \in 0 .. n /\ (k + 1) - 1 = k /\ k + 1 # 0
    BY <1>0, <2>1
  <2>3. len(k) \in Nat \ {0} /\ len(k + 1) = (len(k) + 1) \div 2
    BY <1>1, <2>2
  <2>4. fits(k)
    BY <1>0, <1>3, <2>1
  <2>5. ASSUME NEW index \in 0 .. n - 1 PROVE Stk!PathAt(index, k + 1) < len(k + 1)
    <3>1. index \in Nat
      BY <1>0
    <3>2. PICK p \in Nat : p = Stk!PathAt(index, k) /\ Stk!PathAt(index, k + 1) = p \div 2
      BY <3>1, PathUp
    <3>3. p < len(k)
      BY <2>4, <3>2
    <3> QED
      BY <2>3, <3>2, <3>3
  <2>6. n <= len(k + 1) * 2 ^ (k + 1)
    <3>1. PICK P \in Nat \ {0} : P = 2 ^ k /\ 2 ^ (k + 1) = 2 * P
      BY PowersOfTwo
    <3>2. PICK m \in Nat \ {0} : m = len(k)
      BY <2>3
    <3>3. PICK h \in Nat : h = len(k + 1) /\ m <= 2 * h
      BY <2>3, <3>2
    <3>4. P * m <= P * (2 * h)
      BY <3>3, TimesMonotone, SMTT(30)
    <3>5. m * P = P * m /\ h * (2 * P) = P * (2 * h)
      OBVIOUS
    <3>6. n <= m * P
      BY <2>4, <3>1, <3>2
    <3>7. n <= h * (2 * P)
      BY <1>0, <3>4, <3>5, <3>6
    <3> QED
      BY <3>1, <3>3, <3>7
  <2> QED
    BY <2>5, <2>6
<1>4. d \in Nat /\ d <= n
  BY <1>0 DEF n
<1>5. Nat \subseteq T
  <2> HIDE DEF T
  <2> QED
    BY <1>2, <1>3, ByInduction
<1>6. fits(d)
  BY <1>4, <1>5
<1> QED
  BY <1>6 DEF tree, n, len

\* Who proves a leaf of a tree, proves one of its list: whatever the proof, every
\* node on the way down from the root is one of the tree.
LEMMA TreeSound ==
    ASSUME NEW list, IsList(list), NEW account, NEW voucher,
           Stk!verifyMerkleSignature(Stk!computeRootHash(list), account, voucher)
    PROVE  \E i \in 1 .. Len(list) : list[i][1] = account /\ list[i][2] = voucher.amount
<1> DEFINE tree == Stk!levels(list)
           top == Stk!depth(tree)
           leaf == Stk!hash(voucher.index, account, voucher.amount)
           proof == voucher.proof
           node == Stk!NodesAbove(leaf, voucher.index, proof)
           n == Len(list)
           known(d) == \E i \in 1 .. Len(tree[d]) : node[d] = tree[d][i]
           T == {k \in Nat : k <= top => known(top - k)}
<1>1. n \in Nat \ {0} /\ top \in 0 .. n /\ Len(tree[top]) = 1
  BY DepthIs DEF IsList
<1>2. Len(proof) = top /\ node[top] = tree[top][1]
  BY DEF Stk!verifyMerkleSignature, Stk!computeRootHash
<1>3. /\ node[0] = leaf
      /\ \A d \in 1 .. top : \E x : node[d] = <<x, node[d - 1]>> \/ node[d] = <<node[d - 1], x>>
  <2>1. Len(proof) \in Nat
    BY <1>1, <1>2
  <2>2. node[0] = leaf
    BY <2>1, NodesAre
  <2>3. \A d \in 1 .. top :
           node[d] = IF Stk!PathAt(voucher.index, d - 1) % 2 = 1 THEN <<proof[d], node[d - 1]>>
                     ELSE <<node[d - 1], proof[d]>>
    BY <1>2, <2>1, NodesAre
  <2> HIDE DEF node, proof
  <2> QED
    BY <2>2, <2>3
<1>4. ASSUME NEW d \in 1 .. top, known(d) PROVE known(d - 1)
  <2> DEFINE below == tree[d - 1]
             m == Len(below)
  <2>1. d \in 1 .. n /\ d - 1 \in 0 .. n
    BY <1>1
  <2>2. Row(below, m) /\ tree[d] = Stk!reduceMerkleBranches(below)
    BY <1>1, <2>1, LevelsAreRows, LevelsAre
  <2>3. Len(tree[d]) = (m + 1) \div 2
    <3>1. Row(tree[d], (m + 1) \div 2)
      BY <2>2, Reduced
    <3> QED
      BY <3>1, RowIsSequence
  <2>4. PICK i \in 1 .. Len(tree[d]) : node[d] = tree[d][i]
    BY <1>4
  <2>5. /\ 2 * i - 1 \in 1 .. m
        /\ tree[d][i] = <<below[2 * i - 1], below[IF 2 * i <= m THEN 2 * i ELSE 2 * i - 1]>>
    <3>1. \A k \in 1 .. (m + 1) \div 2 :
             /\ 2 * k - 1 \in 1 .. m
             /\ tree[d][k] = <<below[2 * k - 1], below[IF 2 * k <= m THEN 2 * k ELSE 2 * k - 1]>>
      BY <2>2, Reduced, Zenon
    <3> HIDE DEF m, below, tree, node
    <3> QED
      BY <2>3, <3>1, Zenon
  <2>6. PICK j \in 1 .. m : tree[d][i] = <<below[2 * i - 1], below[j]>>
    <3>1. (IF 2 * i <= m THEN 2 * i ELSE 2 * i - 1) \in 1 .. m
      <4>1. m \in Nat /\ i \in Int
        BY <2>2, <2>3 DEF Row
      <4> QED
        BY <2>5, <4>1
    <3> QED
      BY <2>5, <3>1
  <2>7. PICK x : node[d] = <<x, node[d - 1]>> \/ node[d] = <<node[d - 1], x>>
    BY <1>3
  <2> HIDE DEF node, tree
  <2>8. node[d - 1] = below[2 * i - 1] \/ node[d - 1] = below[j]
    BY <2>4, <2>6, <2>7
  <2> QED
    BY <2>5, <2>8
<1>5. 0 \in T
  <2>1. top - 0 = top /\ 1 \in 1 .. 1
    BY <1>1
  <2> QED
    BY <1>1, <1>2, <2>1
<1>6. ASSUME NEW k \in Nat, k \in T PROVE k + 1 \in T
  <2>1. SUFFICES ASSUME k + 1 <= top PROVE known(top - (k + 1))
    OBVIOUS
  <2>2. top - k \in 1 .. top /\ k <= top /\ (top - k) - 1 = top - (k + 1)
    BY <1>1, <2>1
  <2>3. known(top - k)
    BY <1>6, <2>2
  <2>4. known((top - k) - 1)
    BY <1>4, <2>2, <2>3
  <2> QED
    BY <2>2, <2>4
<1>7. known(0)
  <2>1. Nat \subseteq T
    <3> HIDE DEF T
    <3> QED
      BY <1>5, <1>6, ByInduction
  <2>2. top \in T /\ top <= top /\ top - top = 0
    BY <1>1, <2>1
  <2> HIDE DEF known
  <2>3. known(top - top)
    BY <2>2
  <2> QED
    BY <2>2, <2>3
<1>8. Len(tree[0]) = n /\ tree[0] = [i \in 1 .. n |-> Stk!hash(i - 1, list[i][1], list[i][2])]
  <2>1. 0 \in 0 .. n
    BY <1>1
  <2> QED
    BY <1>1, <2>1, LevelsAreRows, LevelsAre DEF IsList, Stk!getLeaves
<1>9. PICK i \in 1 .. n : leaf = Stk!hash(i - 1, list[i][1], list[i][2])
  BY <1>3, <1>7, <1>8
<1>10. account = list[i][1] /\ voucher.amount = list[i][2]
  BY <1>9 DEF Stk!hash
<1> QED
  BY <1>10

\* And every voucher airDrop.js files is accepted under the root it prints.
LEMMA TreeComplete ==
    ASSUME NEW list, IsList(list), NEW i \in 1 .. Len(list), NEW voucher,
           voucher.index = i - 1, voucher.amount = list[i][2],
           voucher.proof = Stk!computeMerkleProof(list, i - 1)
    PROVE  Stk!verifyMerkleSignature(Stk!computeRootHash(list), list[i][1], voucher)
<1> DEFINE tree == Stk!levels(list)
           top == Stk!depth(tree)
           index == i - 1
           leaf == Stk!hash(index, list[i][1], list[i][2])
           proof == Stk!computeMerkleProof(list, index)
           node == Stk!NodesAbove(leaf, index, proof)
           n == Len(list)
           path(d) == Stk!PathAt(index, d)
           T == {k \in Nat : k <= top => node[k] = tree[k][path(k) + 1]}
<1>1. /\ n \in Nat \ {0} /\ top \in 0 .. n /\ Len(tree[top]) = 1
      /\ index \in Nat /\ index \in 0 .. n - 1
  BY DepthIs DEF IsList
<1>2. proof = [d \in 1 .. top |-> Stk!Sibling(path(d - 1), tree[d - 1])]
  BY DEF Stk!computeMerkleProof
<1>3. Len(proof) = top
  <2>1. proof = [d \in 1 .. top |-> proof[d]] /\ top \in Nat
    BY <1>1, <1>2
  <2> QED
    BY <2>1, IsSequence
<1>4. /\ node[0] = leaf
      /\ \A d \in 1 .. top : node[d] = IF path(d - 1) % 2 = 1 THEN <<proof[d], node[d - 1]>>
                                       ELSE <<node[d - 1], proof[d]>>
  BY <1>1, <1>3, NodesAre
<1>5. 0 \in T
  <2>1. tree[0][index + 1] = leaf
    <3>1. tree[0] = [j \in 1 .. n |-> Stk!hash(j - 1, list[j][1], list[j][2])]
      BY <1>1, LevelsAre DEF IsList, Stk!getLeaves
    <3>2. index + 1 = i
      OBVIOUS
    <3> HIDE DEF tree
    <3> QED
      BY <3>1, <3>2
  <2>2. path(0) = index
    BY <1>1, PathUp
  <2> QED
    BY <1>4, <2>1, <2>2
<1>6. ASSUME NEW k \in Nat, k \in T PROVE k + 1 \in T
  <2>1. SUFFICES ASSUME k + 1 <= top PROVE node[k + 1] = tree[k + 1][path(k + 1) + 1]
    OBVIOUS
  <2>2. /\ k \in 0 .. n /\ k + 1 \in 1 .. top /\ k + 1 \in 1 .. n /\ (k + 1) - 1 = k
        /\ k <= top
    BY <1>1, <2>1
  <2> DEFINE below == tree[k]
             m == Len(below)
  <2>3. PICK p \in Nat : p = path(k) /\ path(k + 1) = p \div 2 /\ p < m
    <3>1. path(k) \in Nat /\ path(k + 1) = path(k) \div 2
      BY <1>1, PathUp
    <3>2. path(k) < m
      BY <1>1, <2>2, PathsFit
    <3> QED
      BY <3>1, <3>2
  <2>4. Row(below, m) /\ tree[k + 1] = Stk!reduceMerkleBranches(below)
    BY <1>1, <2>2, LevelsAreRows, LevelsAre
  <2>5. m \in Nat /\ p \div 2 \in Nat /\ p \div 2 + 1 \in 1 .. (m + 1) \div 2
    <3>1. m \in Nat \ {0}
      BY <2>4 DEF Row
    <3> HIDE DEF m
    <3> QED
      BY <2>3, <3>1
  <2>6. PICK q \in Nat : q = p \div 2 /\ (p = 2 * q \/ p = 2 * q + 1)
    BY <2>5
  <2>7. tree[k + 1][q + 1]
          = <<below[2 * (q + 1) - 1],
              below[IF 2 * (q + 1) <= m THEN 2 * (q + 1) ELSE 2 * (q + 1) - 1]>>
    <3>1. q + 1 \in 1 .. (m + 1) \div 2
      BY <2>5, <2>6
    <3>2. \A at \in 1 .. (m + 1) \div 2 :
             tree[k + 1][at]
               = <<below[2 * at - 1], below[IF 2 * at <= m THEN 2 * at ELSE 2 * at - 1]>>
      BY <2>4, Reduced, Zenon
    <3> HIDE DEF m, below, tree
    <3> QED
      BY <3>1, <3>2, Zenon
  <2>8. node[k + 1] = IF p % 2 = 1 THEN <<proof[k + 1], node[k]>> ELSE <<node[k], proof[k + 1]>>
    BY <1>4, <2>2, <2>3
  <2>9. node[k] = below[p + 1]
    BY <1>6, <2>2, <2>3
  <2>10. proof[k + 1] = below[1 + IF p % 2 = 1 THEN p - 1 ELSE IF p + 1 < m THEN p + 1 ELSE p]
    <3>1. proof[k + 1] = Stk!Sibling(path((k + 1) - 1), tree[(k + 1) - 1])
      BY <1>2, <2>2
    <3>2. proof[k + 1] = Stk!Sibling(p, below)
      BY <2>2, <2>3, <3>1
    <3> QED
      BY <3>2 DEF Stk!Sibling
  <2> HIDE DEF node, tree, proof, path, m, below
  <2>11. node[k + 1] = tree[k + 1][q + 1]
    <3>1. CASE p = 2 * q + 1
      <4>1. p % 2 = 1 /\ 2 * (q + 1) - 1 = 1 + (p - 1) /\ 2 * (q + 1) = p + 1 /\ p + 1 <= m
        BY <2>3, <2>5, <3>1
      <4>2. tree[k + 1][q + 1] = <<below[1 + (p - 1)], below[p + 1]>>
        BY <2>7, <4>1
      <4>3. node[k + 1] = <<below[1 + (p - 1)], below[p + 1]>>
        BY <2>8, <2>9, <2>10, <4>1
      <4> QED
        BY <4>2, <4>3
    <3>2. CASE p = 2 * q
      <4>1. p % 2 # 1 /\ 2 * (q + 1) - 1 = p + 1 /\ 2 * (q + 1) = 1 + (p + 1) /\ 1 + p = p + 1
            /\ (p + 1 < m <=> 1 + (p + 1) <= m)
        BY <2>3, <2>5, <3>2
      <4>2. tree[k + 1][q + 1] = <<below[p + 1], below[IF p + 1 < m THEN 1 + (p + 1) ELSE p + 1]>>
        BY <2>7, <4>1
      <4>3. node[k + 1] = <<below[p + 1], below[IF p + 1 < m THEN 1 + (p + 1) ELSE p + 1]>>
        BY <2>8, <2>9, <2>10, <4>1
      <4> QED
        BY <4>2, <4>3
    <3> QED
      BY <2>6, <3>1, <3>2
  <2> QED
    BY <2>3, <2>6, <2>11
<1>7. node[top] = tree[top][path(top) + 1]
  <2>1. Nat \subseteq T
    <3> HIDE DEF T
    <3> QED
      BY <1>5, <1>6, ByInduction
  <2> QED
    BY <1>1, <2>1
<1>8. path(top) = 0
  <2>1. path(top) \in Nat /\ path(top) < 1
    <3>1. path(top) \in Nat
      BY <1>1, PathUp
    <3>2. path(top) < Len(tree[top])
      BY <1>1, PathsFit
    <3> QED
      BY <1>1, <3>1, <3>2
  <2> QED
    BY <2>1
<1>9. index < 2 ^ top
  <2>1. n <= Len(tree[top]) * 2 ^ top
    BY <1>1, PathsFit
  <2>2. 2 ^ top \in Nat
    BY <1>1, PowersOfTwo
  <2> QED
    BY <1>1, <2>1, <2>2
<1>10. node[top] = tree[top][1]
  BY <1>7, <1>8
<1> QED
  BY <1>3, <1>9, <1>10 DEF Stk!verifyMerkleSignature, Stk!computeRootHash
-----------------------------------------------------------------------------
(* Staking: the stakes of one account, and what is put in among them.        *)
\* Where an entry is when one was put in at p.
Shifted(i, p) == IF i < p THEN i ELSE i + 1

\* Of n + 1 places, p is new; those in U are in V, where they are now.
PutIn(n, p, U, V) ==
    /\ n \in Nat /\ p \in 1 .. n + 1
    /\ U \subseteq 1 .. n /\ V \subseteq 1 .. n + 1 /\ p \in V
    /\ \A i \in 1 .. n : i \in U <=> Shifted(i, p) \in V

\* The sum with a term put in between the others.
LEMMA SumInserted ==
    ASSUME NEW n, NEW p, NEW U, NEW V, PutIn(n, p, U, V),
           NEW f \in [U -> Nat], NEW g \in [V -> Nat], \A i \in U : g[Shifted(i, p)] = f[i]
    PROVE  SumFunction(g) = SumFunction(f) + g[p] /\ SumFunction(f) \in Nat
<1> DEFINE rest == V \ {p}
           m == [i \in U |-> Shifted(i, p)]
           h == Restrict(g, rest)
<1>1. IsFiniteSet(V) /\ IsFiniteSet(U) /\ p \in V
  <2>1. n \in Nat /\ U \subseteq 1 .. n /\ V \subseteq 1 .. n + 1 /\ p \in V
    BY DEF PutIn
  <2>2. IsFiniteSet(1 .. n)
    BY <2>1, FS_Interval
  <2>3. IsFiniteSet(1 .. n + 1)
    BY <2>1, FS_Interval
  <2> QED
    BY <2>1, <2>2, <2>3, FS_Subset
<1>2. SumFunction(h) \in Nat /\ SumFunction(g) = g[p] + SumFunction(h)
  BY <1>1, SumSplit
<1>3. h \in [rest -> Nat] /\ \A x \in rest : h[x] = g[x]
  BY DEF Restrict
<1>4. ASSUME NEW i \in U
      PROVE  i \in Int /\ Shifted(i, p) \in rest
  <2>1. n \in Nat /\ p \in Int /\ i \in 1 .. n
    BY DEF PutIn
  <2>2. Shifted(i, p) \in V
    BY <2>1 DEF PutIn
  <2> QED
    BY <2>1, <2>2 DEF Shifted
<1>5. m \in [U -> rest]
  BY <1>4
<1>6. IsInjective(m)
  <2> SUFFICES ASSUME NEW i \in U, NEW j \in U, m[i] = m[j] PROVE i = j
    BY DEF IsInjective
  <2>1. i \in Int /\ j \in Int /\ Shifted(i, p) = Shifted(j, p) /\ p \in Int
    BY <1>4 DEF PutIn
  <2> QED
    BY <2>1 DEF Shifted
<1>7. ASSUME NEW k \in rest PROVE \E i \in U : m[i] = k
  <2> DEFINE i == IF k < p THEN k ELSE k - 1
  <2>1. n \in Nat /\ p \in 1 .. n + 1 /\ k \in 1 .. n + 1 /\ k # p
    BY DEF PutIn
  <2>2. i \in 1 .. n /\ Shifted(i, p) = k
    BY <2>1 DEF Shifted
  <2> HIDE DEF i
  <2>3. i \in U
    BY <2>2 DEF PutIn
  <2> QED
    BY <2>2, <2>3
<1>8. m \in Bijection(U, rest)
  BY <1>5, <1>6, <1>7 DEF Bijection, Injection, Surjection
<1>9. \A i \in U : f[i] = h[m[i]]
  BY <1>3, <1>4
<1>10. g[p] \in Nat
  BY <1>1
<1> HIDE DEF m, h, rest
<1>11. SumFunction(f) = SumFunction(h)
  BY <1>1, <1>3, <1>8, <1>9, SumNamedAnew
<1> QED
  BY <1>2, <1>10, <1>11

\* What is inserted into a sequence, and where the others are then.
LEMMA InsertedAt ==
    ASSUME NEW S, NEW s \in Seq(S), NEW p \in 1 .. Len(s) + 1, NEW e \in S
    PROVE  LET t == Stk!InsertAt(s, p, e)
           IN  /\ t \in Seq(S) /\ Len(t) = Len(s) + 1 /\ t[p] = e
               /\ \A i \in 1 .. Len(s) : t[IF i < p THEN i ELSE i + 1] = s[i]
<1> DEFINE n == Len(s)
           before == SubSeq(s, 1, p - 1)
           after == SubSeq(s, p, n)
           first == before \o <<e>>
<1>1. n \in Nat /\ \A i \in 1 .. n : s[i] \in S
  BY LenProperties, ElementOfSeq
<1> HIDE DEF n
<1>2. p \in 1 .. n + 1
  BY DEF n
<1>3. before \in Seq(S) /\ Len(before) = p - 1 /\ \A i \in 1 .. p - 1 : before[i] = s[i]
  <2>1. 1 \in Int /\ p - 1 \in Int /\ \A i \in 1 .. p - 1 : s[i] \in S
    BY <1>1, <1>2
  <2>2. /\ before \in Seq(S) /\ Len(before) = IF 1 <= p - 1 THEN (p - 1) - 1 + 1 ELSE 0
        /\ \A i \in 1 .. (p - 1) - 1 + 1 : before[i] = s[1 + i - 1]
    BY <2>1, SubSeqProperties
  <2>3. \A i \in 1 .. p - 1 : i \in 1 .. (p - 1) - 1 + 1 /\ 1 + i - 1 = i
    BY <1>2
  <2> HIDE DEF before
  <2> QED
    BY <1>2, <2>2, <2>3
<1>4. after \in Seq(S) /\ Len(after) = n + 1 - p /\ \A i \in 1 .. n + 1 - p : after[i] = s[p + i - 1]
  <2>1. n \in Int /\ p \in Int /\ \A i \in p .. n : s[i] \in S
    BY <1>1, <1>2
  <2>2. /\ after \in Seq(S) /\ Len(after) = IF p <= n THEN n - p + 1 ELSE 0
        /\ \A i \in 1 .. n - p + 1 : after[i] = s[p + i - 1]
    BY <2>1, SubSeqProperties
  <2>3. n - p + 1 = n + 1 - p /\ (~(p <= n) => n + 1 - p = 0)
    BY <1>1, <1>2
  <2> HIDE DEF after
  <2> QED
    BY <2>2, <2>3
<1>5. <<e>> \in Seq(S) /\ Len(<<e>>) = 1 /\ <<e>>[1] = e
  OBVIOUS
<1> HIDE DEF before, after
<1>6. /\ first \in Seq(S) /\ Len(first) = p
      /\ \A i \in 1 .. p - 1 : first[i] = s[i]
      /\ first[p] = e
  <2>1. /\ first \in Seq(S) /\ Len(first) = Len(before) + Len(<<e>>)
        /\ \A i \in 1 .. Len(before) + Len(<<e>>) :
              first[i] = IF i <= Len(before) THEN before[i] ELSE <<e>>[i - Len(before)]
    BY <1>3, <1>5, ConcatProperties
  <2> HIDE DEF first
  <2>2. Len(before) = p - 1 /\ Len(<<e>>) = 1
    BY <1>3, <1>5
  <2>3. Len(first) = p
    BY <1>2, <2>1, <2>2
  <2>4. ASSUME NEW i \in 1 .. p - 1 PROVE first[i] = s[i]
    <3>1. i \in 1 .. (p - 1) + 1 /\ i <= p - 1
      BY <1>2
    <3> QED
      BY <1>3, <2>1, <2>2, <3>1
  <2>5. first[p] = e
    <3>1. p \in 1 .. (p - 1) + 1 /\ ~(p <= p - 1) /\ p - (p - 1) = 1
      BY <1>2
    <3> QED
      BY <1>5, <2>1, <2>2, <3>1
  <2> QED
    BY <2>1, <2>3, <2>4, <2>5
<1> HIDE DEF first
<1> DEFINE t == first \o after
<1>7. /\ t \in Seq(S) /\ Len(t) = n + 1
      /\ \A i \in 1 .. n + 1 : t[i] = IF i <= p THEN first[i] ELSE after[i - p]
  <2>1. /\ t \in Seq(S) /\ Len(t) = Len(first) + Len(after)
        /\ \A i \in 1 .. Len(first) + Len(after) :
              t[i] = IF i <= Len(first) THEN first[i] ELSE after[i - Len(first)]
    BY <1>4, <1>6, ConcatProperties
  <2> HIDE DEF t
  <2>2. Len(first) = p /\ Len(after) = n + 1 - p /\ p + (n + 1 - p) = n + 1
    BY <1>1, <1>2, <1>4, <1>6
  <2> QED
    BY <2>1, <2>2
<1>8. t[p] = e
  <2> HIDE DEF t
  <2> QED
    BY <1>2, <1>6, <1>7
<1>9. ASSUME NEW i \in 1 .. n PROVE t[IF i < p THEN i ELSE i + 1] = s[i]
  <2> HIDE DEF t
  <2>1. CASE i < p
    <3>1. i \in 1 .. n + 1 /\ i <= p /\ i \in 1 .. p - 1
      BY <1>1, <1>2, <2>1
    <3> QED
      BY <1>6, <1>7, <2>1, <3>1
  <2>2. CASE ~(i < p)
    <3>1. i + 1 \in 1 .. n + 1 /\ ~(i + 1 <= p) /\ (i + 1) - p \in 1 .. n + 1 - p
          /\ p + ((i + 1) - p) - 1 = i
      BY <1>1, <1>2, <2>2
    <3>2. t[i + 1] = after[(i + 1) - p]
      BY <1>7, <3>1
    <3>3. after[(i + 1) - p] = s[i]
      BY <1>4, <3>1
    <3> QED
      BY <2>2, <3>2, <3>3
  <2> QED
    BY <2>1, <2>2
<1>10. Stk!InsertAt(s, p, e) = t
  BY DEF Stk!InsertAt, first, before, after, n
<1> QED
  BY <1>7, <1>8, <1>9, <1>10 DEF n

\* The instance sums up as the library does.
LEMMA SameStakingSum ==
    ASSUME NEW f
    PROVE  Stk!SumFunction(f) = SumFunction(f)
  BY DEF Stk!SumFunction, SumFunction, Stk!SumFunctionOnSet, SumFunctionOnSet,
         Stk!FoldFunctionOnSet, FoldFunctionOnSet, Stk!MapThenFoldSet, MapThenFoldSet

\* The stakes not paid, what each is promised, and the rewards among that of those
\* that came through the token.
UnpaidOf(s) == {i \in DOMAIN s : ~s[i].paid}

Expected(s) == [i \in UnpaidOf(s) |-> Stk!totalExpected(s[i])]

SentReward(x) == IF x.sent THEN Stk!Reward(x) ELSE 0

SentRewards(s) == [i \in UnpaidOf(s) |-> SentReward(s[i])]

\* Stakes are in the order in which they end, and the first of them are paid, which
\* have ended.
Ordered(s, time) ==
    \A i \in DOMAIN s :
        /\ s[i].paid => s[i].end < time
        /\ \A j \in DOMAIN s : i <= j => s[i].end <= s[j].end /\ (s[j].paid => s[i].paid)

\* The types of what is promised.
LEMMA RewardType ==
    ASSUME NEW x \in Stk!Stake
    PROVE  /\ x.amount \in Nat /\ x.end \in Nat /\ x.rate \in Nat
           /\ x.paid \in BOOLEAN /\ x.sent \in BOOLEAN /\ x.stakeType \in {0, 1}
           /\ Stk!Reward(x) \in Nat /\ Stk!totalExpected(x) = x.amount + Stk!Reward(x)
           /\ Stk!totalExpected(x) \in Nat /\ SentReward(x) \in Nat
<1>1. /\ x.amount \in Nat /\ x.end \in Nat /\ x.rate \in Nat
      /\ x.paid \in BOOLEAN /\ x.sent \in BOOLEAN /\ x.stakeType \in {0, 1}
  BY DEF Stk!Stake
<1>2. PICK p \in Nat : p = x.amount * x.rate
  BY <1>1
<1>3. p \div FullScale \in Nat
  <2>1. FullScale \in Nat \ {0} /\ 0 \in Int /\ FullScale * 0 <= p
    BY FullScaleAssumption
  <2>2. 0 <= p \div FullScale /\ p \div FullScale \in Int
    BY <2>1, DivAtLeast, DivBounds
  <2> QED
    BY <2>2
<1>4. Stk!Reward(x) = p \div FullScale
  BY <1>2 DEF Stk!Reward, Stk!MulTruncate
<1> QED
  BY <1>1, <1>3, <1>4 DEF Stk!totalExpected, SentReward

\* The stakes of an account have their types, and so do the sums over them.
LEMMA StakesTypes ==
    ASSUME NEW s \in Seq(Stk!Stake)
    PROVE  /\ Len(s) \in Nat /\ DOMAIN s = 1 .. Len(s)
           /\ \A i \in DOMAIN s : s[i] \in Stk!Stake
           /\ IsFiniteSet(UnpaidOf(s)) /\ UnpaidOf(s) \subseteq 1 .. Len(s)
           /\ Expected(s) \in [UnpaidOf(s) -> Nat] /\ SumFunction(Expected(s)) \in Nat
           /\ SentRewards(s) \in [UnpaidOf(s) -> Nat] /\ SumFunction(SentRewards(s)) \in Nat
<1>1. Len(s) \in Nat /\ DOMAIN s = 1 .. Len(s) /\ \A i \in DOMAIN s : s[i] \in Stk!Stake
  BY LenProperties, ElementOfSeq
<1>2. UnpaidOf(s) \subseteq 1 .. Len(s)
  BY <1>1 DEF UnpaidOf
<1>3. IsFiniteSet(UnpaidOf(s))
  <2>1. IsFiniteSet(1 .. Len(s))
    BY <1>1, FS_Interval
  <2> QED
    BY <1>2, <2>1, FS_Subset
<1>4. Expected(s) \in [UnpaidOf(s) -> Nat]
  BY <1>1, RewardType DEF UnpaidOf, Expected
<1>5. SentRewards(s) \in [UnpaidOf(s) -> Nat]
  BY <1>1, RewardType DEF UnpaidOf, SentRewards
<1>6. SumFunction(Expected(s)) \in Nat
  BY <1>3, <1>4, SumIsTotal
<1>7. SumFunction(SentRewards(s)) \in Nat
  BY <1>3, <1>5, SumIsTotal
<1> QED
  BY <1>1, <1>2, <1>3, <1>4, <1>5, <1>6, <1>7

\* A new stake goes between those that end before and those that end later, none of
\* which is paid: the entry it is written into is not marked.
LEMMA InsertedWhere ==
    ASSUME NEW s \in Seq(Stk!Stake), NEW time \in Nat, Ordered(s, time),
           NEW new \in Stk!Stake, ~new.paid, time <= new.end
    PROVE  \E p \in 1 .. Len(s) + 1 :
              /\ Stk!Inserted(s, new) = Stk!InsertAt(s, p, new)
              /\ \A i \in DOMAIN s : /\ i < p => s[i].end <= new.end
                                     /\ ~(i < p) => s[i].end > new.end /\ ~s[i].paid
<1> DEFINE later == {i \in DOMAIN s : s[i].end > new.end}
           place == IF later = {} THEN Len(s) + 1 ELSE Stk!Min(later)
           written == [new EXCEPT !.paid = place <= Len(s) /\ s[place].paid]
<1>1. /\ Len(s) \in Nat /\ DOMAIN s = 1 .. Len(s)
      /\ \A i \in DOMAIN s : s[i].end \in Nat /\ s[i].paid \in BOOLEAN
      /\ new.end \in Nat
  BY StakesTypes, RewardType
<1>2. Stk!Inserted(s, new) = Stk!InsertAt(s, place, written)
  BY DEF Stk!Inserted
<1>3. /\ place \in 1 .. Len(s) + 1
      /\ \A i \in DOMAIN s : (i < place => i \notin later) /\ (~(i < place) => i \in later)
  <2>1. CASE later = {}
    <3>1. place = Len(s) + 1
      BY <2>1
    <3>2. \A i \in DOMAIN s : i < Len(s) + 1 /\ i \notin later
      BY <1>1, <2>1
    <3> QED
      BY <1>1, <3>1, <3>2
  <2>2. CASE later # {}
    <3>1. place = CHOOSE x \in later : \A y \in later : x <= y
      BY <2>2 DEF Stk!Min
    <3>2. later \in SUBSET Nat
      BY <1>1
    <3>3. \E x \in later : \A y \in later : x <= y
      BY <2>2, <3>2, LeastNatural
    <3>4. place \in later /\ \A y \in later : place <= y
      BY <3>1, <3>3
    <3> HIDE DEF place
    <3>5. place \in 1 .. Len(s) /\ s[place].end > new.end
      BY <1>1, <3>4
    <3>6. ASSUME NEW i \in DOMAIN s, i < place PROVE i \notin later
      BY <1>1, <3>4, <3>5, <3>6
    <3>7. ASSUME NEW i \in DOMAIN s, ~(i < place) PROVE i \in later
      <4>1. place <= i
        BY <1>1, <3>5, <3>7
      <4>2. s[place].end <= s[i].end
        BY <1>1, <3>5, <4>1 DEF Ordered
      <4>3. s[place].end \in Nat /\ s[i].end \in Nat
        BY <1>1, <3>5
      <4> QED
        BY <1>1, <3>5, <4>2, <4>3
    <3> QED
      BY <1>1, <3>5, <3>6, <3>7
  <2> QED
    BY <2>1, <2>2
<1> HIDE DEF place
<1>4. \A i \in DOMAIN s : i \in later => s[i].end > new.end /\ ~s[i].paid
  BY <1>1 DEF Ordered
<1>5. ~(place <= Len(s) /\ s[place].paid)
  <2>1. SUFFICES ASSUME place <= Len(s) PROVE ~s[place].paid
    OBVIOUS
  <2>2. place \in DOMAIN s /\ ~(place < place)
    BY <1>1, <1>3, <2>1
  <2> QED
    BY <1>3, <1>4, <2>2
<1>6. written = new
  BY <1>5 DEF Stk!Stake
<1>7. \A i \in DOMAIN s : i \notin later => s[i].end <= new.end
  BY <1>1
<1> QED
  BY <1>2, <1>3, <1>4, <1>6, <1>7

\* A stake more: the order is kept, what is promised grows by what the new one is
\* promised, and the others are what they were.
LEMMA StakeAdded ==
    ASSUME NEW s \in Seq(Stk!Stake), NEW time \in Nat, Ordered(s, time),
           NEW new \in Stk!Stake, ~new.paid, time <= new.end
    PROVE  LET t == Stk!Inserted(s, new)
           IN  /\ t \in Seq(Stk!Stake) /\ Ordered(t, time) /\ Len(t) = Len(s) + 1
               /\ SumFunction(Expected(t)) = SumFunction(Expected(s)) + Stk!totalExpected(new)
               /\ SumFunction(SentRewards(t)) = SumFunction(SentRewards(s)) + SentReward(new)
               /\ \E p \in DOMAIN t :
                     /\ t[p] = new
                     /\ \A k \in DOMAIN t : k # p =>
                           \E i \in DOMAIN s : t[k] = s[i] /\ k = Shifted(i, p)
<1> DEFINE t == Stk!Inserted(s, new)
           n == Len(s)
<1>1. /\ n \in Nat /\ DOMAIN s = 1 .. n
      /\ \A i \in DOMAIN s : s[i] \in Stk!Stake /\ s[i].end \in Nat /\ s[i].paid \in BOOLEAN
  BY StakesTypes, RewardType
<1>2. PICK p \in 1 .. n + 1 :
         /\ t = Stk!InsertAt(s, p, new)
         /\ \A i \in DOMAIN s : /\ i < p => s[i].end <= new.end
                                /\ ~(i < p) => s[i].end > new.end /\ ~s[i].paid
  BY InsertedWhere
<1> HIDE DEF t
<1>3. /\ t \in Seq(Stk!Stake) /\ Len(t) = n + 1 /\ t[p] = new
      /\ \A i \in 1 .. n : t[Shifted(i, p)] = s[i]
  BY <1>2, InsertedAt DEF Shifted
<1> HIDE DEF n
<1>4. DOMAIN t = 1 .. n + 1 /\ p \in DOMAIN t
  BY <1>2, <1>3, LenProperties
<1>5. ASSUME NEW k \in DOMAIN t, k # p
      PROVE  \E i \in DOMAIN s : t[k] = s[i] /\ k = Shifted(i, p)
  <2> DEFINE i == IF k < p THEN k ELSE k - 1
  <2>1. k \in Int /\ p \in Int /\ 1 <= k /\ k <= n + 1 /\ 1 <= p /\ p <= n + 1
    BY <1>1, <1>2, <1>4
  <2>2. i \in 1 .. n /\ k = Shifted(i, p)
    BY <1>1, <1>5, <2>1 DEF Shifted
  <2> QED
    BY <1>1, <1>3, <2>2
<1>6. new.end \in Nat /\ new.paid = FALSE
  BY RewardType
<1>7. ASSUME NEW k \in DOMAIN t, NEW l \in DOMAIN t
      PROVE  /\ t[k].paid => t[k].end < time
             /\ k <= l => t[k].end <= t[l].end /\ (t[l].paid => t[k].paid)
  <2>1. CASE k = p /\ l = p
    BY <1>3, <1>6, <2>1
  <2>2. CASE k = p /\ l # p
    <3>1. PICK j \in DOMAIN s : t[l] = s[j] /\ l = Shifted(j, p)
      BY <1>5, <2>2
    <3>2. j < p => ~(k <= l)
      BY <1>1, <1>2, <2>2, <3>1 DEF Shifted
    <3>3. /\ j \in DOMAIN s /\ s[j].end \in Nat /\ s[j].paid \in BOOLEAN
          /\ ~(j < p) => s[j].end > new.end /\ ~s[j].paid
      BY <1>1, <1>2
    <3> QED
      BY <1>3, <1>6, <2>2, <3>1, <3>2, <3>3
  <2>3. CASE k # p /\ l = p
    <3>1. PICK i \in DOMAIN s : t[k] = s[i] /\ k = Shifted(i, p)
      BY <1>5, <2>3
    <3>2. ~(i < p) => ~(k <= l)
      BY <1>1, <1>2, <2>3, <3>1 DEF Shifted
    <3>3. i < p => s[i].end <= new.end
      BY <1>2
    <3>4. s[i].paid => s[i].end < time
      BY DEF Ordered
    <3> QED
      BY <1>3, <1>6, <2>3, <3>1, <3>2, <3>3, <3>4
  <2>4. CASE k # p /\ l # p
    <3>1. PICK i \in DOMAIN s : t[k] = s[i] /\ k = Shifted(i, p)
      BY <1>5, <2>4
    <3>2. PICK j \in DOMAIN s : t[l] = s[j] /\ l = Shifted(j, p)
      BY <1>5, <2>4
    <3>3. k <= l => i <= j
      BY <1>1, <1>2, <3>1, <3>2 DEF Shifted
    <3>4. /\ s[i].paid => s[i].end < time
          /\ i <= j => s[i].end <= s[j].end /\ (s[j].paid => s[i].paid)
      BY DEF Ordered
    <3> QED
      BY <3>1, <3>2, <3>3, <3>4
  <2> QED
    BY <2>1, <2>2, <2>3, <2>4
<1>8. Ordered(t, time)
  BY <1>7 DEF Ordered
<1>9. PutIn(n, p, UnpaidOf(s), UnpaidOf(t))
  <2>1. p \in UnpaidOf(t)
    BY <1>3, <1>4, <1>6 DEF UnpaidOf
  <2>2. ASSUME NEW i \in 1 .. n PROVE i \in UnpaidOf(s) <=> Shifted(i, p) \in UnpaidOf(t)
    <3>1. Shifted(i, p) \in DOMAIN t
      BY <1>1, <1>2, <1>4 DEF Shifted
    <3> QED
      BY <1>1, <1>3, <3>1 DEF UnpaidOf
  <2>3. UnpaidOf(s) \subseteq 1 .. n /\ UnpaidOf(t) \subseteq 1 .. n + 1
    BY <1>1, <1>4 DEF UnpaidOf
  <2> QED
    BY <1>1, <1>2, <2>1, <2>2, <2>3 DEF PutIn
<1>10. /\ p \in UnpaidOf(t)
       /\ \A i \in UnpaidOf(s) : i \in 1 .. n /\ Shifted(i, p) \in UnpaidOf(t) /\ t[Shifted(i, p)] = s[i]
  <2>1. \A i \in UnpaidOf(s) : i \in 1 .. n
    BY <1>1 DEF UnpaidOf
  <2> QED
    BY <1>3, <1>9, <2>1 DEF PutIn
<1>11. SumFunction(Expected(t)) = SumFunction(Expected(s)) + Stk!totalExpected(new)
  <2>1. Expected(s) \in [UnpaidOf(s) -> Nat]
    BY StakesTypes
  <2>2. Expected(t) \in [UnpaidOf(t) -> Nat]
    BY <1>3, StakesTypes
  <2>3. \A i \in UnpaidOf(s) : Expected(t)[Shifted(i, p)] = Expected(s)[i]
    BY <1>10 DEF Expected
  <2>4. Expected(t)[p] = Stk!totalExpected(new)
    BY <1>3, <1>10 DEF Expected
  <2>5. SumFunction(Expected(t)) = SumFunction(Expected(s)) + Expected(t)[p]
    BY <1>9, <2>1, <2>2, <2>3, SumInserted
  <2> QED
    BY <2>4, <2>5
<1>12. SumFunction(SentRewards(t)) = SumFunction(SentRewards(s)) + SentReward(new)
  <2>1. SentRewards(s) \in [UnpaidOf(s) -> Nat]
    BY StakesTypes
  <2>2. SentRewards(t) \in [UnpaidOf(t) -> Nat]
    BY <1>3, StakesTypes
  <2>3. \A i \in UnpaidOf(s) : SentRewards(t)[Shifted(i, p)] = SentRewards(s)[i]
    BY <1>10 DEF SentRewards
  <2>4. SentRewards(t)[p] = SentReward(new)
    BY <1>3, <1>10 DEF SentRewards
  <2>5. SumFunction(SentRewards(t)) = SumFunction(SentRewards(s)) + SentRewards(t)[p]
    BY <1>9, <2>1, <2>2, <2>3, SumInserted
  <2> QED
    BY <2>4, <2>5
<1>13. t \in Seq(Stk!Stake) /\ Len(t) = Len(s) + 1
  BY <1>3 DEF n
<1> QED
  BY <1>3, <1>4, <1>5, <1>8, <1>11, <1>12, <1>13 DEF t


\* Stakes s before an exit and t after it, which pays what was due.
PaidOff(s, t, due, time) ==
    /\ t \in Seq(Stk!Stake) /\ Ordered(t, time)
    /\ DOMAIN t = DOMAIN s
    /\ \A i \in DOMAIN t : /\ t[i].paid <=> s[i].end < time
                           /\ t[i] = [s[i] EXCEPT !.paid = t[i].paid]
    /\ SumFunction(due) \in Nat
    /\ SumFunction(Expected(s)) = SumFunction(Expected(t)) + SumFunction(due)

\* An exit pays every stake that has ended, and what is promised shrinks by what
\* those not paid before were promised.
LEMMA StakesPaid ==
    ASSUME NEW s \in Seq(Stk!Stake), NEW time \in Nat, Ordered(s, time), NEW P,
           P = {i \in DOMAIN s : s[i].end < time /\ \A j \in i .. Len(s) :
                                     ~(s[j].end < time /\ s[j].paid)}
    PROVE  PaidOff(s, Stk!Marked(s, P), [i \in P |-> Stk!totalExpected(s[i])], time)
<1> DEFINE t == Stk!Marked(s, P)
           n == Len(s)
           due == [i \in P |-> Stk!totalExpected(s[i])]
<1>1. /\ n \in Nat /\ DOMAIN s = 1 .. n
      /\ \A i \in DOMAIN s : s[i] \in Stk!Stake /\ s[i].end \in Nat /\ s[i].paid \in BOOLEAN
  BY StakesTypes, RewardType
<1>2. ASSUME NEW i \in DOMAIN s PROVE i \in P <=> s[i].end < time /\ ~s[i].paid
  <2>1. ASSUME i \in P PROVE s[i].end < time /\ ~s[i].paid
    <3>1. s[i].end < time /\ \A j \in i .. n : ~(s[j].end < time /\ s[j].paid)
      BY <2>1
    <3>2. i \in i .. n
      BY <1>1
    <3> QED
      BY <3>1, <3>2
  <2>2. ASSUME s[i].end < time, ~s[i].paid PROVE i \in P
    <3>1. ASSUME NEW j \in i .. n PROVE ~s[j].paid
      <4>1. j \in DOMAIN s /\ i <= j
        BY <1>1
      <4> QED
        BY <2>2, <4>1 DEF Ordered
    <3> QED
      BY <2>2, <3>1
  <2> QED
    BY <2>1, <2>2
<1>3. DOMAIN t = DOMAIN s
  BY DEF Stk!Marked
<1>4. ASSUME NEW i \in DOMAIN s
      PROVE  /\ t[i] \in Stk!Stake
             /\ t[i].paid <=> s[i].end < time
             /\ t[i] = [s[i] EXCEPT !.paid = t[i].paid]
             /\ t[i].end = s[i].end /\ t[i].amount = s[i].amount /\ t[i].rate = s[i].rate
  <2>1. t[i] = [s[i] EXCEPT !.paid = s[i].paid \/ i \in P]
    BY DEF Stk!Marked
  <2>2. (s[i].paid \/ i \in P) <=> s[i].end < time
    BY <1>2 DEF Ordered
  <2>3. PICK b \in BOOLEAN : b = (s[i].paid \/ i \in P)
    OBVIOUS
  <2>4. s[i] \in Stk!Stake /\ t[i] = [s[i] EXCEPT !.paid = b]
    BY <1>1, <2>1, <2>3
  <2> HIDE DEF t
  <2>5. t[i] \in Stk!Stake /\ t[i].paid = b
        /\ t[i].end = s[i].end /\ t[i].amount = s[i].amount /\ t[i].rate = s[i].rate
    BY <2>4 DEF Stk!Stake
  <2>6. t[i].paid <=> s[i].end < time
    BY <2>2, <2>3, <2>5
  <2> QED
    BY <2>4, <2>5, <2>6
<1>5. t \in Seq(Stk!Stake)
  <2>1. t \in [1 .. n -> Stk!Stake]
    BY <1>1, <1>4 DEF Stk!Marked
  <2> QED
    BY <1>1, <2>1, SeqDef
<1> HIDE DEF t
<1>6. Ordered(t, time)
  <2> SUFFICES ASSUME NEW i \in DOMAIN s
               PROVE  /\ t[i].paid => t[i].end < time
                      /\ \A j \in DOMAIN s :
                            i <= j => t[i].end <= t[j].end /\ (t[j].paid => t[i].paid)
    BY <1>3 DEF Ordered
  <2>1. t[i].paid => t[i].end < time
    BY <1>4
  <2>2. ASSUME NEW j \in DOMAIN s, i <= j
        PROVE  t[i].end <= t[j].end /\ (t[j].paid => t[i].paid)
    <3>1. s[i].end <= s[j].end /\ s[i].end \in Nat /\ s[j].end \in Nat
      BY <1>1, <2>2 DEF Ordered
    <3>2. s[j].end < time => s[i].end < time
      BY <3>1
    <3> QED
      BY <1>4, <3>1, <3>2
  <2> QED
    BY <2>1, <2>2
<1>7. P \subseteq UnpaidOf(s) /\ UnpaidOf(t) = UnpaidOf(s) \ P
  <2>1. P \subseteq DOMAIN s
    OBVIOUS
  <2>2. \A i \in DOMAIN s : t[i].paid <=> s[i].paid \/ i \in P
    BY <1>2, <1>4 DEF Ordered
  <2> QED
    BY <1>2, <1>3, <2>1, <2>2 DEF UnpaidOf
<1>8. Restrict(Expected(s), P) = due
  BY <1>7 DEF Restrict, Expected
<1>9. Restrict(Expected(s), UnpaidOf(s) \ P) = Expected(t)
  <2>1. ASSUME NEW i \in UnpaidOf(t)
        PROVE  i \in UnpaidOf(s) /\ Stk!totalExpected(t[i]) = Stk!totalExpected(s[i])
    <3>1. i \in UnpaidOf(s) /\ i \in DOMAIN s
      BY <1>7 DEF UnpaidOf
    <3> QED
      BY <1>4, <3>1 DEF Stk!totalExpected, Stk!Reward
  <2> QED
    BY <1>7, <2>1 DEF Restrict, Expected
<1>10. IsFiniteSet(UnpaidOf(s)) /\ Expected(s) \in [UnpaidOf(s) -> Nat]
  BY StakesTypes
<1>11. /\ SumFunction(due) \in Nat /\ SumFunction(Expected(t)) \in Nat
       /\ SumFunction(Expected(s)) = SumFunction(due) + SumFunction(Expected(t))
  <2>1. P \in SUBSET UnpaidOf(s)
    BY <1>7
  <2> HIDE DEF due
  <2>2. /\ SumFunction(Restrict(Expected(s), P)) \in Nat
        /\ SumFunction(Restrict(Expected(s), UnpaidOf(s) \ P)) \in Nat
        /\ SumFunction(Expected(s)) = SumFunction(Restrict(Expected(s), P))
              + SumFunction(Restrict(Expected(s), UnpaidOf(s) \ P))
    BY <1>10, <2>1, SumOfParts
  <2> QED
    BY <1>8, <1>9, <2>2
<1>12. \A i \in DOMAIN t : /\ t[i].paid <=> s[i].end < time
                           /\ t[i] = [s[i] EXCEPT !.paid = t[i].paid]
  BY <1>3, <1>4
<1>13. SumFunction(Expected(s)) = SumFunction(Expected(t)) + SumFunction(due)
  BY <1>11
<1> HIDE DEF due
<1> QED
  BY <1>3, <1>5, <1>6, <1>11, <1>12, <1>13 DEF PaidOff, t, due
-----------------------------------------------------------------------------
(* Staking: the inductive invariant, and that every step keeps it.           *)
\* A list grants an account an amount.
Granted(a, amount) == \E list \in Lists : \E i \in DOMAIN list : list[i] = <<a, amount>>

\* An account has one air drop at most, which was granted to it.
DropsKept(stakes) ==
    \A a \in Stakers : \A i \in DOMAIN stakes[a] :
        stakes[a][i].stakeType = 1 =>
            /\ Granted(a, stakes[a][i].amount)
            /\ \A j \in DOMAIN stakes[a] : stakes[a][j].stakeType = 1 => i = j

\* What the accounts are promised, and what of it is uncovered at most.
OwedFor(stakes) == [a \in Stakers |-> SumFunction(Expected(stakes[a]))]
Owed(stakes) == SumFunction(OwedFor(stakes))

SentFor(stakes) == [a \in Stakers |-> SumFunction(SentRewards(stakes[a]))]
Sent(stakes) == SumFunction(SentFor(stakes))

\* The root before one is set, and what airDrop.js files for a list.
NoRoot == [hash |-> <<>>, depth |-> 0]

Filed(list) == [list |-> list, root |-> Stk!computeRootHash(list),
                vouchers |-> Stk!airDropPayouts(list)]

\* The inductive invariant.
StakingInv ==
    /\ Stk!TypeOK
    /\ \A a \in Stakers : Ordered(userStakes[a], now)
    /\ DropsKept(userStakes)
    /\ totalOutstanding = Owed(userStakes)
    /\ totalOutstanding - ogn <= Sent(userStakes)
    /\ dropRoot = NoRoot \/ \E list \in Lists : dropRoot = Stk!computeRootHash(list)
    /\ \A drop \in published : \E list \in Lists : drop = Filed(list)

\* The lists of air drops have an entry at least, each for an amount.
LEMMA ListsAre ==
    ASSUME NEW list \in Lists
    PROVE  /\ IsList(list)
           /\ \A i \in DOMAIN list : list[i] = <<list[i][1], list[i][2]>> /\ list[i][2] \in Nat
  BY ListsAssumption DEF IsList

\* The sums are of naturals.
LEMMA OwedTypes ==
    ASSUME NEW stakes \in [Stakers -> Seq(Stk!Stake)]
    PROVE  /\ OwedFor(stakes) \in [Stakers -> Nat] /\ Owed(stakes) \in Nat
           /\ SentFor(stakes) \in [Stakers -> Nat] /\ Sent(stakes) \in Nat
<1>1. OwedFor(stakes) \in [Stakers -> Nat] /\ SentFor(stakes) \in [Stakers -> Nat]
  BY StakesTypes DEF OwedFor, SentFor
<1>2. IsFiniteSet(Stakers)
  BY StakersAssumption
<1> QED
  BY <1>1, <1>2, SumIsTotal DEF Owed, Sent

\* The stakes of one account change.
LEMMA OwedChange ==
    ASSUME NEW stakes \in [Stakers -> Seq(Stk!Stake)], NEW a \in Stakers,
           NEW t \in Seq(Stk!Stake)
    PROVE  LET after == [stakes EXCEPT ![a] = t]
           IN  /\ after \in [Stakers -> Seq(Stk!Stake)]
               /\ after[a] = t /\ \A b \in Stakers \ {a} : after[b] = stakes[b]
               /\ Owed(after) = Owed(stakes) - SumFunction(Expected(stakes[a]))
                                   + SumFunction(Expected(t))
               /\ Sent(after) = Sent(stakes) - SumFunction(SentRewards(stakes[a]))
                                   + SumFunction(SentRewards(t))
<1> DEFINE after == [stakes EXCEPT ![a] = t]
<1>1. /\ after \in [Stakers -> Seq(Stk!Stake)]
      /\ after[a] = t /\ \A b \in Stakers \ {a} : after[b] = stakes[b]
  OBVIOUS
<1> HIDE DEF after
<1>2. IsFiniteSet(Stakers)
  BY StakersAssumption
<1>3. /\ OwedFor(stakes) \in [Stakers -> Nat] /\ OwedFor(after) \in [Stakers -> Nat]
      /\ SentFor(stakes) \in [Stakers -> Nat] /\ SentFor(after) \in [Stakers -> Nat]
  BY <1>1, OwedTypes
<1>4. \A b \in Stakers \ {a} : OwedFor(after)[b] = OwedFor(stakes)[b]
  BY <1>1 DEF OwedFor
<1>5. \A b \in Stakers \ {a} : SentFor(after)[b] = SentFor(stakes)[b]
  BY <1>1 DEF SentFor
<1>6. /\ Owed(after) = Owed(stakes) - OwedFor(stakes)[a] + OwedFor(after)[a]
      /\ Sent(after) = Sent(stakes) - SentFor(stakes)[a] + SentFor(after)[a]
  <2> DEFINE f == OwedFor(stakes)
             g == OwedFor(after)
             h == SentFor(stakes)
             k == SentFor(after)
  <2>1. f \in [Stakers -> Nat] /\ g \in [Stakers -> Nat] /\ \A b \in Stakers \ {a} : g[b] = f[b]
    BY <1>3, <1>4
  <2>2. h \in [Stakers -> Nat] /\ k \in [Stakers -> Nat] /\ \A b \in Stakers \ {a} : k[b] = h[b]
    BY <1>3, <1>5
  <2> HIDE DEF f, g, h, k
  <2>3. SumFunction(g) = SumFunction(f) - f[a] + g[a]
    BY <1>2, <2>1, SumChange, ZenonT(60)
  <2>4. SumFunction(k) = SumFunction(h) - h[a] + k[a]
    BY <1>2, <2>2, SumChange, ZenonT(60)
  <2> QED
    BY <2>3, <2>4 DEF Owed, Sent, f, g, h, k
<1>7. /\ OwedFor(stakes)[a] = SumFunction(Expected(stakes[a]))
      /\ SentFor(stakes)[a] = SumFunction(SentRewards(stakes[a]))
      /\ OwedFor(after)[a] = SumFunction(Expected(t))
      /\ SentFor(after)[a] = SumFunction(SentRewards(t))
  BY <1>1 DEF OwedFor, SentFor
<1> QED
  BY <1>1, <1>6, <1>7 DEF after

\* What _stake does: r is the reward, and surplus what it may leave uncovered.
StakedFor(amount, r, surplus) ==
    /\ userStakes' \in [Stakers -> Seq(Stk!Stake)]
    /\ \A b \in Stakers : Ordered(userStakes'[b], now)
    /\ DropsKept(userStakes')
    /\ totalOutstanding' \in Nat /\ totalOutstanding' = totalOutstanding + (amount + r)
    /\ totalOutstanding' = Owed(userStakes')
    /\ Sent(userStakes') \in Nat
    /\ Sent(userStakes') = Sent(userStakes) + surplus

\* Writing a stake keeps what is promised and the total in step.
LEMMA StakeForSound ==
    ASSUME StakingInv, NEW a \in Stakers, NEW stakeType \in {0, 1}, NEW duration \in Nat,
           NEW rate \in Nat, NEW amount \in Nat, NEW sent \in BOOLEAN,
           Stk!stakeFor(a, stakeType, duration, rate, amount, sent),
           stakeType = 1 => ~Stk!airDroppedStakeClaimed(a) /\ Granted(a, amount)
    PROVE  \E r \in Nat : StakedFor(amount, r, IF sent THEN r ELSE 0)
<1> DEFINE new == [amount |-> amount, end |-> now + duration, rate |-> rate, paid |-> FALSE,
                   stakeType |-> stakeType, sent |-> sent]
           s == userStakes[a]
           t == Stk!Inserted(s, new)
           r == Stk!Reward(new)
<1>1. /\ userStakes \in [Stakers -> Seq(Stk!Stake)] /\ now \in Nat
      /\ totalOutstanding \in Nat /\ totalOutstanding = Owed(userStakes)
      /\ s \in Seq(Stk!Stake) /\ Ordered(s, now)
  BY StakersAssumption DEF StakingInv, Stk!TypeOK
<1>2. new \in Stk!Stake /\ ~new.paid /\ now <= new.end
  BY <1>1 DEF Stk!Stake
<1>3. /\ userStakes' = [userStakes EXCEPT ![a] = t]
      /\ totalOutstanding' = totalOutstanding + Stk!totalExpected(new)
  BY DEF Stk!stakeFor
<1>4. /\ r \in Nat /\ Stk!totalExpected(new) = amount + r
      /\ SentReward(new) = IF sent THEN r ELSE 0
  BY <1>2, RewardType DEF SentReward
<1>5. /\ new.stakeType = stakeType /\ new.amount = amount
  OBVIOUS
<1> HIDE DEF new, r
<1>6. /\ t \in Seq(Stk!Stake) /\ Ordered(t, now)
      /\ SumFunction(Expected(t)) = SumFunction(Expected(s)) + Stk!totalExpected(new)
      /\ SumFunction(SentRewards(t)) = SumFunction(SentRewards(s)) + SentReward(new)
  BY <1>1, <1>2, StakeAdded
<1>7. PICK p \in DOMAIN t :
         /\ t[p] = new
         /\ \A k \in DOMAIN t : k # p => \E i \in DOMAIN s : t[k] = s[i] /\ k = Shifted(i, p)
  BY <1>1, <1>2, StakeAdded
<1> HIDE DEF t
<1>8. /\ userStakes' \in [Stakers -> Seq(Stk!Stake)]
      /\ userStakes'[a] = t /\ \A b \in Stakers \ {a} : userStakes'[b] = userStakes[b]
      /\ Owed(userStakes') = Owed(userStakes) - SumFunction(Expected(s)) + SumFunction(Expected(t))
      /\ Sent(userStakes') = Sent(userStakes) - SumFunction(SentRewards(s))
                                + SumFunction(SentRewards(t))
  BY <1>1, <1>3, <1>6, OwedChange
<1>9. /\ SumFunction(Expected(s)) \in Nat /\ SumFunction(SentRewards(s)) \in Nat
      /\ Sent(userStakes) \in Nat /\ Owed(userStakes) \in Nat
  BY <1>1, StakesTypes, OwedTypes
<1>10. totalOutstanding' = Owed(userStakes') /\ totalOutstanding' = totalOutstanding + (amount + r)
       /\ totalOutstanding' \in Nat
  <2>1. /\ Stk!totalExpected(new) = amount + r /\ amount + r \in Nat
        /\ Owed(userStakes') = totalOutstanding + Stk!totalExpected(new)
    BY <1>1, <1>4, <1>6, <1>8, <1>9
  <2> QED
    BY <1>1, <1>3, <2>1
<1>11. Sent(userStakes') = Sent(userStakes) + SentReward(new) /\ Sent(userStakes') \in Nat
  <2>1. SentReward(new) \in Nat
    BY <1>4
  <2> QED
    BY <1>6, <1>8, <1>9, <2>1
<1>12. \A b \in Stakers : Ordered(userStakes'[b], now)
  BY <1>6, <1>8 DEF StakingInv
<1>13. DropsKept(userStakes')
  <2> SUFFICES ASSUME NEW b \in Stakers, NEW k \in DOMAIN userStakes'[b],
                      userStakes'[b][k].stakeType = 1
               PROVE  /\ Granted(b, userStakes'[b][k].amount)
                      /\ \A l \in DOMAIN userStakes'[b] :
                            userStakes'[b][l].stakeType = 1 => k = l
    BY DEF DropsKept
  <2>1. CASE b # a
    <3>1. userStakes'[b] = userStakes[b]
      BY <1>8, <2>1
    <3> QED
      BY <3>1 DEF StakingInv, DropsKept
  <2>2. CASE b = a
    <3>1. userStakes'[b] = t
      BY <1>8, <2>2
    <3>2. ASSUME NEW i \in DOMAIN s, s[i].stakeType = 1
          PROVE  /\ stakeType # 1 /\ Granted(a, s[i].amount)
                 /\ \A j \in DOMAIN s : s[j].stakeType = 1 => i = j
      <4>1. Stk!airDroppedStakeClaimed(a)
        BY <3>2 DEF Stk!airDroppedStakeClaimed
      <4> QED
        BY <3>2, <4>1 DEF StakingInv, DropsKept
    <3>3. Granted(b, t[k].amount)
      <4>1. CASE k = p
        BY <1>5, <1>7, <2>2, <3>1, <4>1
      <4>2. CASE k # p
        <5>1. PICK i \in DOMAIN s : t[k] = s[i]
          BY <1>7, <3>1, <4>2
        <5> QED
          BY <2>2, <3>1, <3>2, <5>1
      <4> QED
        BY <4>1, <4>2
    <3>4. ASSUME NEW l \in DOMAIN t, t[l].stakeType = 1 PROVE k = l
      <4>1. CASE k = p /\ l = p
        BY <4>1
      <4>2. CASE k # p /\ l = p
        <5>1. PICK i \in DOMAIN s : t[k] = s[i]
          BY <1>7, <3>1, <4>2
        <5> QED
          BY <1>5, <1>7, <3>1, <3>2, <3>4, <4>2, <5>1
      <4>3. CASE k = p /\ l # p
        <5>1. PICK i \in DOMAIN s : t[l] = s[i]
          BY <1>7, <4>3
        <5> QED
          BY <1>5, <1>7, <3>1, <3>2, <3>4, <4>3, <5>1
      <4>4. CASE k # p /\ l # p
        <5>1. PICK i \in DOMAIN s : t[k] = s[i] /\ k = Shifted(i, p)
          BY <1>7, <3>1, <4>4
        <5>2. PICK j \in DOMAIN s : t[l] = s[j] /\ l = Shifted(j, p)
          BY <1>7, <4>4
        <5>3. i = j
          BY <3>1, <3>2, <3>4, <5>1, <5>2
        <5> QED
          BY <5>1, <5>2, <5>3
      <4> QED
        BY <4>1, <4>2, <4>3, <4>4
    <3> QED
      BY <3>1, <3>3, <3>4
  <2> QED
    BY <2>1, <2>2
<1>14. StakedFor(amount, r, IF sent THEN r ELSE 0)
  BY <1>4, <1>8, <1>10, <1>11, <1>12, <1>13 DEF StakedFor
<1> QED
  BY <1>4, <1>14

\* Before anybody stakes nothing is owed.
LEMMA StakingInit == Stk!Init => StakingInv
<1> SUFFICES ASSUME Stk!Init PROVE StakingInv
  OBVIOUS
<1>1. /\ now = 0 /\ userStakes = [a \in Stakers |-> <<>>] /\ totalOutstanding = 0
      /\ paused = FALSE /\ tariff = 1 /\ dropRoot = NoRoot /\ published = {} /\ ogn = 0
  BY DEF Stk!Init, NoRoot
<1>2. userStakes \in [Stakers -> Seq(Stk!Stake)]
  BY <1>1
<1>3. ASSUME NEW a \in Stakers PROVE userStakes[a] = <<>> /\ DOMAIN userStakes[a] = {}
  BY <1>1
<1>4. Stk!TypeOK
  <2>1. tariff \in DOMAIN Tariffs
    BY <1>1, TariffsAssumption
  <2>2. now \in 0 .. MaxTime
    BY <1>1, StakersAssumption
  <2>3. dropRoot.depth \in Nat
    BY <1>1 DEF NoRoot
  <2> QED
    BY <1>1, <1>2, <2>1, <2>2, <2>3 DEF Stk!TypeOK
<1>5. (\A a \in Stakers : Ordered(userStakes[a], now)) /\ DropsKept(userStakes)
  BY <1>3 DEF Ordered, DropsKept
<1>6. Owed(userStakes) = 0
  <2>1. ASSUME NEW a \in Stakers PROVE OwedFor(userStakes)[a] = 0
    <3>1. OwedFor(userStakes)[a] = SumFunction(Expected(<<>>))
      BY <1>3 DEF OwedFor
    <3>2. Expected(<<>>) \in [{} -> Nat] /\ IsFiniteSet({}) /\ Expected(<<>>) = [i \in {} |-> 0]
      BY FS_EmptySet DEF Expected, UnpaidOf
    <3>3. SumFunction([i \in {} |-> 0]) = Cardinality({}) * 0
      BY <3>2, SumConstant
    <3>4. Cardinality({}) = 0
      BY FS_EmptySet
    <3> QED
      BY <3>1, <3>2, <3>3, <3>4
  <2>2. OwedFor(userStakes) = [a \in Stakers |-> 0]
    BY <2>1 DEF OwedFor
  <2>3. IsFiniteSet(Stakers) /\ Cardinality(Stakers) \in Nat
    BY StakersAssumption, FS_CardinalityType
  <2>4. SumFunction([a \in Stakers |-> 0]) = Cardinality(Stakers) * 0
    BY <2>3, SumConstant
  <2> QED
    BY <2>2, <2>3, <2>4 DEF Owed
<1>7. Sent(userStakes) \in Nat
  BY <1>2, OwedTypes
<1>8. totalOutstanding - ogn <= Sent(userStakes)
  BY <1>1, <1>7
<1> QED
  BY <1>1, <1>4, <1>5, <1>6, <1>8 DEF StakingInv

\* The parts of the invariant no staker's call can disturb.
LEMMA StakersCall ==
    ASSUME StakingInv, UNCHANGED <<now, paused, tariff, dropRoot, published>>,
           userStakes' \in [Stakers -> Seq(Stk!Stake)],
           \A b \in Stakers : Ordered(userStakes'[b], now), DropsKept(userStakes'),
           totalOutstanding' \in Nat, ogn' \in Nat,
           totalOutstanding' = Owed(userStakes'),
           totalOutstanding' - ogn' <= Sent(userStakes')
    PROVE  StakingInv'
<1>1. Stk!TypeOK'
  BY DEF StakingInv, Stk!TypeOK
<1>2. \A b \in Stakers : Ordered(userStakes'[b], now')
  OBVIOUS
<1>3. /\ dropRoot' = NoRoot \/ \E list \in Lists : dropRoot' = Stk!computeRootHash(list)
      /\ \A drop \in published' : \E list \in Lists : drop = Filed(list)
  BY DEF StakingInv
<1>4. (\A b \in Stakers : Ordered(userStakes[b], now))' /\ DropsKept(userStakes)'
  BY <1>2 DEF DropsKept
<1>5. (totalOutstanding = Owed(userStakes))' /\ (totalOutstanding - ogn <= Sent(userStakes))'
  BY DEF Owed, OwedFor, Sent, SentFor
<1> QED
  BY <1>1, <1>3, <1>4, <1>5 DEF StakingInv, NoRoot, Filed

\* Staking, with the check that the contract can pay all and without it.
LEMMA StakeSound ==
    ASSUME StakingInv, NEW a \in Stakers, NEW amount \in Stakes[a],
           NEW duration \in DOMAIN Stk!rates,
           Stk!stake(a, amount, duration) \/ Stk!stakeWithSender(a, amount, duration)
    PROVE  StakingInv'
<1>1. /\ amount \in Nat /\ duration \in Nat /\ Stk!rates[duration] \in Nat
      /\ totalOutstanding \in Nat /\ ogn \in Nat
      /\ userStakes \in [Stakers -> Seq(Stk!Stake)]
  <2>1. tariff \in DOMAIN Tariffs
    BY DEF StakingInv, Stk!TypeOK
  <2> QED
    BY <2>1, StakersAssumption, TariffsAssumption DEF StakingInv, Stk!TypeOK, Stk!rates
<1>2. PICK sent \in BOOLEAN :
         /\ Stk!stakeWithChecks(a, amount, duration, sent)
         /\ ~sent => Stk!requireLiquidity
  BY DEF Stk!stake, Stk!stakeWithSender
<1>3. /\ Stk!stakeFor(a, 0, duration, Stk!rates[duration], amount, sent)
      /\ ogn' = ogn + amount
  BY <1>2 DEF Stk!stakeWithChecks
<1>4. UNCHANGED <<now, paused, tariff, dropRoot, published>>
  BY <1>3 DEF Stk!stakeFor
<1>5. PICK r \in Nat : StakedFor(amount, r, IF sent THEN r ELSE 0)
  <2>1. 0 \in {0, 1} /\ ~(0 = 1)
    OBVIOUS
  <2> QED
    BY <1>1, <1>3, <2>1, StakeForSound
<1>6. /\ userStakes' \in [Stakers -> Seq(Stk!Stake)]
      /\ \A b \in Stakers : Ordered(userStakes'[b], now)
      /\ DropsKept(userStakes')
      /\ totalOutstanding' \in Nat /\ totalOutstanding' = totalOutstanding + (amount + r)
      /\ totalOutstanding' = Owed(userStakes')
      /\ Sent(userStakes') \in Nat
      /\ Sent(userStakes') = Sent(userStakes) + IF sent THEN r ELSE 0
  BY <1>5 DEF StakedFor
<1>7. totalOutstanding' - ogn' <= Sent(userStakes')
  <2>1. PICK before \in Nat : before = Sent(userStakes)
    BY <1>1, OwedTypes
  <2>2. totalOutstanding - ogn <= before
    BY <2>1 DEF StakingInv
  <2>3. CASE sent
    <3>1. Sent(userStakes') = before + r
      BY <1>6, <2>1, <2>3
    <3> QED
      BY <1>1, <1>3, <1>6, <2>2, <3>1
  <2>4. CASE ~sent
    <3>1. ogn' >= totalOutstanding'
      BY <1>2, <2>4 DEF Stk!requireLiquidity
    <3> QED
      BY <1>1, <1>3, <1>6, <3>1
  <2> QED
    BY <2>3, <2>4
<1>8. ogn' \in Nat
  BY <1>1, <1>3
<1> QED
  BY <1>4, <1>6, <1>7, <1>8, StakersCall

\* What is in the files.
LEMMA VoucherIs ==
    ASSUME StakingInv, NEW voucher \in Stk!Vouchers
    PROVE  voucher.amount \in Nat
<1>1. PICK drop \in published : voucher \in drop.vouchers
  BY DEF Stk!Vouchers
<1>2. PICK list \in Lists : drop = Filed(list)
  BY DEF StakingInv
<1>3. voucher \in Stk!airDropPayouts(list)
  BY <1>1, <1>2 DEF Filed
<1>4. PICK i \in DOMAIN list : voucher.amount = list[i][2]
  BY <1>3 DEF Stk!airDropPayouts
<1> QED
  BY <1>4, ListsAre

\* An air drop that is accepted was granted.
LEMMA AcceptedIsGranted ==
    ASSUME StakingInv, NEW a, NEW voucher, Stk!verifyMerkleSignature(dropRoot, a, voucher)
    PROVE  Granted(a, voucher.amount)
<1>1. CASE dropRoot = NoRoot
  <2> DEFINE leaf == Stk!hash(voucher.index, a, voucher.amount)
             node == Stk!NodesAbove(leaf, voucher.index, voucher.proof)
  <2>1. Len(voucher.proof) = 0 /\ <<>> = node[Len(voucher.proof)]
    BY <1>1 DEF Stk!verifyMerkleSignature, NoRoot
  <2>2. node[0] = leaf
    BY <2>1, NodesAre
  <2>3. <<>> = leaf
    BY <2>1, <2>2
  <2>4. leaf # <<>>
    BY DEF Stk!hash
  <2> QED
    BY <2>3, <2>4
<1>2. CASE \E list \in Lists : dropRoot = Stk!computeRootHash(list)
  <2>1. PICK list \in Lists : dropRoot = Stk!computeRootHash(list)
    BY <1>2
  <2>2. IsList(list)
    BY ListsAre
  <2>3. PICK i \in 1 .. Len(list) : list[i][1] = a /\ list[i][2] = voucher.amount
    BY <2>1, <2>2, TreeSound
  <2>4. i \in DOMAIN list /\ list[i] = <<list[i][1], list[i][2]>>
    BY <2>2, ListsAre DEF IsList
  <2> QED
    BY <2>3, <2>4 DEF Granted
<1> QED
  BY <1>1, <1>2 DEF StakingInv

\* An air drop claimed is covered, the first of its account and granted to it.
LEMMA DropSound ==
    ASSUME StakingInv, NEW a \in Stakers, NEW voucher \in Stk!Vouchers,
           Stk!airDroppedStake(a, voucher)
    PROVE  StakingInv'
<1>1. /\ Stk!verifyMerkleSignature(dropRoot, a, voucher) /\ ~Stk!airDroppedStakeClaimed(a)
      /\ Stk!stakeFor(a, 1, DropDuration, DropRate, voucher.amount, FALSE)
      /\ ogn' = ogn /\ ogn' >= totalOutstanding'
  BY DEF Stk!airDroppedStake, Stk!requireLiquidity
<1>2. voucher.amount \in Nat /\ DropDuration \in Nat /\ DropRate \in Nat /\ ogn \in Nat
  BY VoucherIs, ListsAssumption DEF StakingInv, Stk!TypeOK
<1>3. Granted(a, voucher.amount)
  BY <1>1, AcceptedIsGranted
<1>4. UNCHANGED <<now, paused, tariff, dropRoot, published>>
  BY <1>1 DEF Stk!stakeFor
<1>5. PICK r \in Nat : StakedFor(voucher.amount, r, IF FALSE THEN r ELSE 0)
  <2>1. 1 \in {0, 1} /\ FALSE \in BOOLEAN
    OBVIOUS
  <2> QED
    BY <1>1, <1>2, <1>3, <2>1, StakeForSound
<1>6. /\ userStakes' \in [Stakers -> Seq(Stk!Stake)]
      /\ \A b \in Stakers : Ordered(userStakes'[b], now)
      /\ DropsKept(userStakes')
      /\ totalOutstanding' \in Nat
      /\ totalOutstanding' = Owed(userStakes')
      /\ Sent(userStakes') \in Nat
  BY <1>5 DEF StakedFor
<1>7. totalOutstanding' - ogn' <= Sent(userStakes')
  BY <1>1, <1>2, <1>6
<1> QED
  BY <1>1, <1>2, <1>4, <1>6, <1>7, StakersCall

\* An exit pays what it takes off the total.
LEMMA ExitSound ==
    ASSUME StakingInv, NEW a \in Stakers, Stk!exit(a)
    PROVE  /\ StakingInv'
           /\ \A b \in Stakers \ {a} : userStakes'[b] = userStakes[b]
           /\ \A i \in DOMAIN userStakes'[a] :
                 userStakes'[a][i].paid <=> userStakes'[a][i].end < now
<1>1. PICK s : s = userStakes[a]
  OBVIOUS
<1>2. PICK P : P = Stk!Payable(a)
  OBVIOUS
<1>3. PICK t : t = Stk!Marked(s, P)
  OBVIOUS
<1>4. PICK due : due = [i \in P |-> Stk!totalExpected(s[i])]
  OBVIOUS
<1>5. /\ userStakes \in [Stakers -> Seq(Stk!Stake)] /\ now \in Nat
      /\ totalOutstanding \in Nat /\ totalOutstanding = Owed(userStakes) /\ ogn \in Nat
      /\ s \in Seq(Stk!Stake) /\ Ordered(s, now)
  BY <1>1, StakersAssumption DEF StakingInv, Stk!TypeOK
<1>6. SumFunction(due) = Stk!SumFunction([i \in Stk!Payable(a) |-> Stk!totalExpected(userStakes[a][i])])
  BY <1>1, <1>2, <1>4, SameStakingSum
<1>7. userStakes' = [userStakes EXCEPT ![a] = t]
  BY <1>1, <1>2, <1>3 DEF Stk!exit
<1>8. /\ SumFunction(due) <= ogn
      /\ totalOutstanding' = totalOutstanding - SumFunction(due)
      /\ ogn' = ogn - SumFunction(due)
      /\ ogn' >= totalOutstanding'
      /\ UNCHANGED <<now, paused, tariff, dropRoot, published>>
  BY <1>6 DEF Stk!exit, Stk!requireLiquidity
<1>9. P = {i \in DOMAIN s : s[i].end < now /\ \A j \in i .. Len(s) : ~(s[j].end < now /\ s[j].paid)}
  BY <1>1, <1>2 DEF Stk!Payable, Stk!Ended
<1>10. PaidOff(s, t, due, now)
  <2>1. PaidOff(s, Stk!Marked(s, P), [i \in P |-> Stk!totalExpected(s[i])], now)
    BY <1>5, <1>9, StakesPaid
  <2> QED
    BY <1>3, <1>4, <2>1
<1>11. t \in Seq(Stk!Stake) /\ Ordered(t, now) /\ DOMAIN t = DOMAIN s
  BY <1>10 DEF PaidOff
<1>12. \A i \in DOMAIN t : /\ t[i].paid <=> s[i].end < now
                          /\ t[i] = [s[i] EXCEPT !.paid = t[i].paid]
  BY <1>10 DEF PaidOff
<1>13. /\ SumFunction(due) \in Nat
       /\ SumFunction(Expected(s)) = SumFunction(Expected(t)) + SumFunction(due)
  BY <1>10 DEF PaidOff
<1>14. /\ userStakes' \in [Stakers -> Seq(Stk!Stake)]
       /\ userStakes'[a] = t /\ \A b \in Stakers \ {a} : userStakes'[b] = userStakes[b]
  BY <1>11, <1>5, <1>7
<1>15. Owed(userStakes') = Owed(userStakes) - SumFunction(Expected(s)) + SumFunction(Expected(t))
  <2>1. userStakes \in [Stakers -> Seq(Stk!Stake)] /\ t \in Seq(Stk!Stake)
    BY <1>5, <1>11
  <2> QED
    BY <1>1, <1>7, <2>1, OwedChange, ZenonT(60)
<1>16. Owed(userStakes') \in Nat /\ Sent(userStakes') \in Nat
  BY <1>14, OwedTypes
<1>17. SumFunction(Expected(s)) \in Nat /\ SumFunction(Expected(t)) \in Nat
  BY <1>5, <1>11, StakesTypes
<1>18. PICK q \in Nat : q = SumFunction(due)
  BY <1>13
<1>19. /\ totalOutstanding' = Owed(userStakes') /\ totalOutstanding' \in Nat
       /\ ogn' \in Nat /\ totalOutstanding' - ogn' <= Sent(userStakes')
  <2>1. PICK before \in Nat, after \in Nat :
           before = SumFunction(Expected(s)) /\ after = SumFunction(Expected(t))
    BY <1>17
  <2>2. before = after + q
    BY <1>13, <1>18, <2>1
  <2>3. totalOutstanding \in Nat /\ totalOutstanding = Owed(userStakes) /\ ogn \in Nat
    BY <1>5
  <2>4. Owed(userStakes') = Owed(userStakes) - before + after /\ Owed(userStakes') \in Nat
        /\ Sent(userStakes') \in Nat
    BY <1>15, <1>16, <2>1
  <2>5. /\ q <= ogn /\ totalOutstanding' = totalOutstanding - q /\ ogn' = ogn - q
        /\ ogn' >= totalOutstanding'
    BY <1>8, <1>18
  <2>6. Owed(userStakes') = totalOutstanding - q
    BY <2>2, <2>3, <2>4
  <2> QED
    BY <2>3, <2>4, <2>5, <2>6
<1>20. \A b \in Stakers : Ordered(userStakes'[b], now)
  BY <1>11, <1>14 DEF StakingInv
<1>21. ASSUME NEW i \in DOMAIN t
       PROVE  t[i].stakeType = s[i].stakeType /\ t[i].amount = s[i].amount /\ t[i].end = s[i].end
  <2>1. i \in DOMAIN s /\ s[i] \in Stk!Stake
    BY <1>5, <1>11, StakesTypes
  <2>2. t[i] = [s[i] EXCEPT !.paid = t[i].paid]
    BY <1>12
  <2> QED
    BY <2>1, <2>2 DEF Stk!Stake
<1>22. DropsKept(userStakes')
  <2> SUFFICES ASSUME NEW b \in Stakers, NEW k \in DOMAIN userStakes'[b],
                      userStakes'[b][k].stakeType = 1
               PROVE  /\ Granted(b, userStakes'[b][k].amount)
                      /\ \A l \in DOMAIN userStakes'[b] :
                            userStakes'[b][l].stakeType = 1 => k = l
    BY DEF DropsKept
  <2>1. CASE b # a
    <3>1. userStakes'[b] = userStakes[b]
      BY <1>14, <2>1
    <3> QED
      BY <3>1 DEF StakingInv, DropsKept
  <2>2. CASE b = a
    <3>1. userStakes'[b] = t
      BY <1>14, <2>2
    <3>2. s[k].stakeType = 1 /\ k \in DOMAIN s
      BY <1>11, <1>21, <3>1
    <3>3. Granted(a, s[k].amount) /\ \A l \in DOMAIN s : s[l].stakeType = 1 => k = l
      BY <1>1, <3>2 DEF StakingInv, DropsKept
    <3> QED
      BY <1>11, <1>21, <2>2, <3>1, <3>3
  <2> QED
    BY <2>1, <2>2
<1>23. StakingInv'
  BY <1>8, <1>14, <1>19, <1>20, <1>22, StakersCall
<1>24. \A i \in DOMAIN userStakes'[a] : userStakes'[a][i].paid <=> userStakes'[a][i].end < now
  BY <1>11, <1>12, <1>14, <1>21
<1> QED
  BY <1>14, <1>23, <1>24

\* Every step of the contract, of the scripts and of the governor keeps the invariant.
LEMMA StakingNext ==
    StakingInv /\ [Stk!Next]_(Stk!stakingVars) => StakingInv'
<1> SUFFICES ASSUME StakingInv, [Stk!Next]_(Stk!stakingVars) PROVE StakingInv'
  OBVIOUS
<1>1. /\ now \in 0 .. MaxTime /\ MaxTime \in Nat
      /\ userStakes \in [Stakers -> Seq(Stk!Stake)]
      /\ totalOutstanding \in Nat /\ ogn \in Nat /\ MaxSupplied \in Nat
      /\ Sent(userStakes) \in Nat
      /\ totalOutstanding - ogn <= Sent(userStakes)
  <2>1. userStakes \in [Stakers -> Seq(Stk!Stake)]
    BY DEF StakingInv, Stk!TypeOK
  <2>2. Sent(userStakes) \in Nat
    BY <2>1, OwedTypes
  <2> QED
    BY <2>1, <2>2, StakersAssumption DEF StakingInv, Stk!TypeOK
<1>2. CASE \E a \in Stakers : \E amount \in Stakes[a], duration \in DOMAIN Stk!rates :
              Stk!stake(a, amount, duration) \/ Stk!stakeWithSender(a, amount, duration)
  BY <1>2, StakeSound
<1>3. CASE \E a \in Stakers, voucher \in Stk!Vouchers : Stk!airDroppedStake(a, voucher)
  BY <1>3, DropSound
<1>4. CASE \E a \in Stakers : Stk!exit(a)
  BY <1>4, ExitSound
<1>5. CASE Stk!setPaused
  <2>1. paused' \in BOOLEAN
        /\ UNCHANGED <<now, userStakes, totalOutstanding, tariff, dropRoot, published, ogn>>
    BY <1>5 DEF Stk!setPaused
  <2>2. Stk!TypeOK'
    BY <2>1 DEF StakingInv, Stk!TypeOK
  <2> QED
    BY <2>1, <2>2 DEF StakingInv, DropsKept, Owed, OwedFor, Sent, SentFor
<1>6. CASE Stk!setDurationRates
  <2>1. tariff < Len(Tariffs) /\ tariff' = tariff + 1
        /\ UNCHANGED <<now, userStakes, totalOutstanding, paused, dropRoot, published, ogn>>
    BY <1>6 DEF Stk!setDurationRates
  <2>2. tariff' \in DOMAIN Tariffs
    BY <2>1, TariffsAssumption DEF StakingInv, Stk!TypeOK
  <2>3. Stk!TypeOK'
    BY <2>1, <2>2 DEF StakingInv, Stk!TypeOK
  <2> QED
    BY <2>1, <2>3 DEF StakingInv, DropsKept, Owed, OwedFor, Sent, SentFor
<1>7. CASE \E list \in Lists : Stk!setAirDropRoot(list)
  <2>1. PICK list \in Lists : Stk!setAirDropRoot(list)
    BY <1>7
  <2>2. dropRoot' = Stk!computeRootHash(list)
        /\ UNCHANGED <<now, userStakes, totalOutstanding, paused, tariff, published, ogn>>
    BY <2>1 DEF Stk!setAirDropRoot
  <2>3. dropRoot'.depth \in Nat
    <3>1. IsList(list)
      BY ListsAre
    <3>2. Stk!depth(Stk!levels(list)) \in Nat
      BY <3>1, DepthIs
    <3>3. Stk!computeRootHash(list).depth = Stk!depth(Stk!levels(list))
      BY DEF Stk!computeRootHash
    <3> QED
      BY <2>2, <3>2, <3>3
  <2>4. Stk!TypeOK'
    BY <2>2, <2>3 DEF StakingInv, Stk!TypeOK
  <2> QED
    BY <2>2, <2>4 DEF StakingInv, DropsKept, Owed, OwedFor, Sent, SentFor
<1>8. CASE \E list \in Lists : Stk!airDrop(list)
  <2>1. PICK list \in Lists : Stk!airDrop(list)
    BY <1>8
  <2>2. published' = {Filed(list)}
        /\ UNCHANGED <<now, userStakes, totalOutstanding, paused, tariff, dropRoot, ogn>>
    BY <2>1 DEF Stk!airDrop, Filed
  <2>3. Filed(list).list = list
    BY DEF Filed
  <2>4. {drop.list : drop \in published'} \subseteq Lists
    BY <2>2, <2>3
  <2>5. Stk!TypeOK'
    BY <2>2, <2>4 DEF StakingInv, Stk!TypeOK
  <2>6. \A drop \in published' : \E l \in Lists : drop = Filed(l)
    BY <2>2
  <2> QED
    BY <2>2, <2>5, <2>6 DEF StakingInv, DropsKept, Owed, OwedFor, Sent, SentFor, Filed
<1>9. CASE Stk!Supply
  <2>1. ogn < MaxSupplied /\ ogn' = MaxSupplied
        /\ UNCHANGED <<now, userStakes, totalOutstanding, paused, tariff, dropRoot, published>>
    BY <1>9 DEF Stk!Supply
  <2>2. ogn' \in Nat /\ totalOutstanding' - ogn' <= Sent(userStakes')
    BY <1>1, <2>1
  <2>3. Stk!TypeOK'
    BY <2>1, <2>2 DEF StakingInv, Stk!TypeOK
  <2> QED
    BY <2>1, <2>2, <2>3 DEF StakingInv, DropsKept, Owed, OwedFor, Sent, SentFor
<1>10. CASE Stk!Tick
  <2>1. now < MaxTime /\ now' = now + 1
        /\ UNCHANGED <<userStakes, totalOutstanding, paused, tariff, dropRoot, published, ogn>>
    BY <1>10 DEF Stk!Tick
  <2>2. now' \in 0 .. MaxTime
    BY <1>1, <2>1
  <2>3. Stk!TypeOK'
    BY <2>1, <2>2 DEF StakingInv, Stk!TypeOK
  <2>4. ASSUME NEW a \in Stakers PROVE Ordered(userStakes[a], now + 1)
    <3> DEFINE s == userStakes[a]
    <3>1. Ordered(s, now)
      BY DEF StakingInv
    <3>2. ASSUME NEW i \in DOMAIN s PROVE s[i].end \in Nat
      BY <1>1, <3>2, StakesTypes, RewardType
    <3>3. ASSUME NEW i \in DOMAIN s, s[i].paid PROVE s[i].end < now + 1
      <4>1. s[i].end < now
        BY <3>1, <3>3 DEF Ordered
      <4> QED
        BY <1>1, <3>2, <4>1
    <3> QED
      BY <3>1, <3>3 DEF Ordered
  <2> QED
    BY <2>1, <2>3, <2>4 DEF StakingInv, DropsKept, Owed, OwedFor, Sent, SentFor
<1>11. CASE UNCHANGED Stk!stakingVars
  <2>1. UNCHANGED <<now, userStakes, totalOutstanding, paused, tariff, dropRoot, published, ogn>>
    BY <1>11 DEF Stk!stakingVars
  <2>2. Stk!TypeOK'
    BY <2>1 DEF StakingInv, Stk!TypeOK
  <2> QED
    BY <2>1, <2>2 DEF StakingInv, DropsKept, Owed, OwedFor, Sent, SentFor
<1> QED
  BY <1>2, <1>3, <1>4, <1>5, <1>6, <1>7, <1>8, <1>9, <1>10, <1>11 DEF Stk!Next

\* What the invariant says of the contract.
LEMMA StakingFollows == StakingInv => StakingTrue
<1> SUFFICES ASSUME StakingInv PROVE StakingTrue
  OBVIOUS
<1>1. Stk!OutstandingIsOwed
  <2>1. ASSUME NEW a \in Stakers PROVE Stk!Promised(a) = OwedFor(userStakes)[a]
    <3>1. [i \in Stk!Unpaid(a) |-> Stk!totalExpected(userStakes[a][i])] = Expected(userStakes[a])
      BY DEF Stk!Unpaid, Expected, UnpaidOf
    <3> QED
      BY <3>1, SameStakingSum DEF Stk!Promised, OwedFor
  <2>2. [a \in Stakers |-> Stk!Promised(a)] = OwedFor(userStakes)
    BY <2>1 DEF OwedFor
  <2> QED
    BY <2>2, SameStakingSum DEF StakingInv, Stk!OutstandingIsOwed, Owed
<1>2. Stk!ShortfallIsSent
  <2>1. ASSUME NEW a \in Stakers PROVE Stk!Unchecked(a) = SentFor(userStakes)[a]
    <3>1. [i \in Stk!Unpaid(a) |->
              IF userStakes[a][i].sent THEN Stk!Reward(userStakes[a][i]) ELSE 0]
          = SentRewards(userStakes[a])
      BY DEF Stk!Unpaid, SentRewards, SentReward, UnpaidOf
    <3> QED
      BY <3>1, SameStakingSum DEF Stk!Unchecked, SentFor
  <2>2. [a \in Stakers |-> Stk!Unchecked(a)] = SentFor(userStakes)
    BY <2>1 DEF SentFor
  <2> QED
    BY <2>2, SameStakingSum DEF StakingInv, Stk!ShortfallIsSent, Sent
<1>3. Stk!DropsAreGranted
  <2> DEFINE drops(a) == {i \in DOMAIN userStakes[a] : userStakes[a][i].stakeType = 1}
  <2>1. ASSUME NEW a \in Stakers PROVE Stk!Cardinality(drops(a)) <= 1
    <3>1. \A i, j \in drops(a) : i = j
      BY DEF StakingInv, DropsKept
    <3>2. Stk!Cardinality(drops(a)) = Cardinality(drops(a))
      BY DEF Stk!Cardinality, Cardinality
    <3> HIDE DEF drops
    <3>3. CASE drops(a) = {}
      <4>1. Cardinality({}) = 0
        BY FS_EmptySet
      <4> QED
        BY <3>2, <3>3, <4>1
    <3>4. CASE drops(a) # {}
      <4>1. PICK i : drops(a) = {i}
        BY <3>1, <3>4
      <4>2. Cardinality({i}) = 1
        BY FS_Singleton
      <4> QED
        BY <3>2, <4>1, <4>2
    <3> QED
      BY <3>3, <3>4
  <2>2. ASSUME NEW a \in Stakers, NEW i \in drops(a)
        PROVE  \E list \in Lists : <<a, userStakes[a][i].amount>> \in Stk!Range(list)
    <3>1. PICK list \in Lists : \E k \in DOMAIN list : list[k] = <<a, userStakes[a][i].amount>>
      BY <2>2 DEF StakingInv, DropsKept, Granted
    <3> QED
      BY <3>1 DEF Stk!Range
  <2> QED
    BY <2>1, <2>2 DEF Stk!DropsAreGranted
<1>4. Stk!VouchersAccepted
  <2> SUFFICES ASSUME NEW drop \in published, dropRoot = drop.root,
                      NEW voucher \in drop.vouchers
               PROVE  Stk!verifyMerkleSignature(dropRoot, voucher.address, voucher)
    BY DEF Stk!VouchersAccepted
  <2>1. PICK list \in Lists : drop = Filed(list)
    BY DEF StakingInv
  <2>2. dropRoot = Stk!computeRootHash(list) /\ voucher \in Stk!airDropPayouts(list)
    BY <2>1 DEF Filed
  <2>3. IsList(list)
    BY ListsAre
  <2>4. PICK i \in DOMAIN list :
           /\ voucher.index = i - 1 /\ voucher.amount = list[i][2]
           /\ voucher.proof = Stk!computeMerkleProof(list, i - 1)
           /\ voucher.address = list[i][1]
    BY <2>2 DEF Stk!airDropPayouts
  <2>5. i \in 1 .. Len(list)
    BY <2>3 DEF IsList
  <2>6. Stk!verifyMerkleSignature(Stk!computeRootHash(list), list[i][1], voucher)
    BY <2>3, <2>4, <2>5, TreeComplete
  <2> QED
    BY <2>2, <2>4, <2>6
<1> QED
  BY <1>1, <1>2, <1>3, <1>4 DEF StakingInv, StakingTrue

\* Whatever is staked, dropped and set, the total of the contract is what it promised
\* for the stakes not paid, short only by rewards of stakes that came through the
\* token; an account has one air drop, which was granted to it; and every voucher of
\* the list whose root is set is accepted.
THEOREM StakingAlwaysTrue == Stk!Spec => []StakingTrue
<1>1. Stk!Spec => []StakingInv
  BY StakingInit, StakingNext, PTL DEF Stk!Spec
<1> QED
  BY <1>1, StakingFollows, PTL

\* An account was paid for a stake.
WasPaid(a) == \E i \in DOMAIN userStakes[a] : userStakes'[a][i].paid /\ ~userStakes[a][i].paid

\* Nobody is paid for a stake when one is put in front of others.
LEMMA StakingPaysNobody ==
    ASSUME StakingInv, NEW a \in Stakers, NEW stakeType \in {0, 1}, NEW duration \in Nat,
           NEW rate \in Nat, NEW amount \in Nat, NEW sent \in BOOLEAN,
           Stk!stakeFor(a, stakeType, duration, rate, amount, sent)
    PROVE  \A b \in Stakers : ~WasPaid(b)
<1>1. PICK new : new = [amount |-> amount, end |-> now + duration, rate |-> rate,
                        paid |-> FALSE, stakeType |-> stakeType, sent |-> sent]
  OBVIOUS
<1>2. PICK s : s = userStakes[a]
  OBVIOUS
<1>3. PICK t : t = Stk!Inserted(s, new)
  OBVIOUS
<1>4. /\ userStakes \in [Stakers -> Seq(Stk!Stake)] /\ now \in Nat
      /\ s \in Seq(Stk!Stake) /\ Ordered(s, now)
  BY <1>2, StakersAssumption DEF StakingInv, Stk!TypeOK
<1>5. new \in Stk!Stake /\ ~new.paid /\ now <= new.end
  BY <1>1, <1>4 DEF Stk!Stake
<1>6. userStakes' = [userStakes EXCEPT ![a] = t]
  BY <1>1, <1>2, <1>3 DEF Stk!stakeFor
<1>7. userStakes'[a] = t /\ \A b \in Stakers \ {a} : userStakes'[b] = userStakes[b]
  BY <1>4, <1>6
<1>8. t \in Seq(Stk!Stake) /\ Ordered(t, now) /\ Len(t) = Len(s) + 1
  BY <1>3, <1>4, <1>5, StakeAdded
<1>9. PICK p \in DOMAIN t :
         /\ t[p] = new
         /\ \A k \in DOMAIN t : k # p => \E i \in DOMAIN s : t[k] = s[i] /\ k = Shifted(i, p)
  BY <1>3, <1>4, <1>5, StakeAdded
<1>10. /\ Len(s) \in Nat /\ DOMAIN s = 1 .. Len(s)
       /\ Len(t) \in Nat /\ DOMAIN t = 1 .. Len(t)
  BY <1>4, <1>8, StakesTypes
<1>11. ASSUME NEW i \in DOMAIN s, t[i].paid, ~s[i].paid, i \in DOMAIN t PROVE FALSE
  <2>1. i # p
    BY <1>5, <1>9, <1>11
  <2>2. PICK k \in DOMAIN s : t[i] = s[k] /\ i = Shifted(k, p)
    BY <1>9, <1>11, <2>1
  <2>3. i # k
    BY <1>11, <2>2
  <2>4. p <= i
    BY <1>9, <1>10, <2>2, <2>3 DEF Shifted
  <2>5. t[p].paid
    BY <1>8, <1>9, <1>11, <2>4 DEF Ordered
  <2> QED
    BY <1>5, <1>9, <2>5
<1>12. DOMAIN s \subseteq DOMAIN t
  BY <1>8, <1>10
<1> QED
  BY <1>2, <1>7, <1>11, <1>12 DEF WasPaid

\* What an exit forgets nothing says of a step.
ForgetsNothing ==
    \A a \in Stakers :
        WasPaid(a) => \A i \in DOMAIN userStakes'[a] :
                         Stk!Ended(userStakes'[a][i]) => userStakes'[a][i].paid

\* Only an exit pays for stakes, and it pays for all that ended.
LEMMA StepForgetsNothing ==
    ASSUME StakingInv, [Stk!Next]_(Stk!stakingVars)
    PROVE  ForgetsNothing
<1>1. CASE \E a \in Stakers : \E amount \in Stakes[a], duration \in DOMAIN Stk!rates :
              Stk!stake(a, amount, duration) \/ Stk!stakeWithSender(a, amount, duration)
  <2>1. PICK a \in Stakers : \E amount \in Stakes[a], duration \in DOMAIN Stk!rates :
              Stk!stake(a, amount, duration) \/ Stk!stakeWithSender(a, amount, duration)
    BY <1>1
  <2>2. PICK amount \in Stakes[a], duration \in DOMAIN Stk!rates :
              Stk!stake(a, amount, duration) \/ Stk!stakeWithSender(a, amount, duration)
    BY <2>1
  <2>3. amount \in Nat /\ duration \in Nat /\ Stk!rates[duration] \in Nat
    <3>1. tariff \in DOMAIN Tariffs
      BY DEF StakingInv, Stk!TypeOK
    <3> QED
      BY <3>1, StakersAssumption, TariffsAssumption DEF Stk!rates
  <2>4. PICK sent \in BOOLEAN : Stk!stakeFor(a, 0, duration, Stk!rates[duration], amount, sent)
    BY <2>2 DEF Stk!stake, Stk!stakeWithSender, Stk!stakeWithChecks
  <2>5. 0 \in {0, 1}
    OBVIOUS
  <2>6. \A b \in Stakers : ~WasPaid(b)
    BY <2>3, <2>4, <2>5, StakingPaysNobody
  <2> QED
    BY <2>6 DEF ForgetsNothing
<1>2. CASE \E a \in Stakers, voucher \in Stk!Vouchers : Stk!airDroppedStake(a, voucher)
  <2>1. PICK a \in Stakers, voucher \in Stk!Vouchers : Stk!airDroppedStake(a, voucher)
    BY <1>2
  <2>2. voucher.amount \in Nat /\ DropDuration \in Nat /\ DropRate \in Nat
    BY VoucherIs, ListsAssumption
  <2>3. Stk!stakeFor(a, 1, DropDuration, DropRate, voucher.amount, FALSE)
    BY <2>1 DEF Stk!airDroppedStake
  <2>4. 1 \in {0, 1} /\ FALSE \in BOOLEAN
    OBVIOUS
  <2>5. \A b \in Stakers : ~WasPaid(b)
    BY <2>2, <2>3, <2>4, StakingPaysNobody
  <2> QED
    BY <2>5 DEF ForgetsNothing
<1>3. CASE \E a \in Stakers : Stk!exit(a)
  <2>1. PICK a \in Stakers : Stk!exit(a)
    BY <1>3
  <2>2. /\ \A b \in Stakers \ {a} : userStakes'[b] = userStakes[b]
        /\ \A i \in DOMAIN userStakes'[a] :
              userStakes'[a][i].paid <=> userStakes'[a][i].end < now
    BY <2>1, ExitSound
  <2>3. ASSUME NEW b \in Stakers, WasPaid(b) PROVE b = a
    BY <2>2, <2>3 DEF WasPaid
  <2> QED
    BY <2>2, <2>3 DEF ForgetsNothing, Stk!Ended
<1>4. CASE UNCHANGED userStakes
  BY <1>4 DEF ForgetsNothing, WasPaid
<1>5. CASE \/ Stk!setPaused \/ Stk!setDurationRates
           \/ \E list \in Lists : Stk!setAirDropRoot(list) \/ Stk!airDrop(list)
           \/ Stk!Supply \/ Stk!Tick
  <2>1. UNCHANGED userStakes
    BY <1>5 DEF Stk!setPaused, Stk!setDurationRates, Stk!setAirDropRoot, Stk!airDrop,
                Stk!Supply, Stk!Tick
  <2> QED
    BY <1>4, <2>1
<1>6. CASE UNCHANGED Stk!stakingVars
  BY <1>4, <1>6 DEF Stk!stakingVars
<1> QED
  BY <1>1, <1>2, <1>3, <1>5, <1>6 DEF Stk!Next

\* After an exit that paid anything no stake of the account that ended is unpaid,
\* though it looks no further than the first stake it finds paid.
THEOREM ExitsForgetNothing == Stk!Spec => Stk!ExitForgetsNothing
<1>1. Stk!Spec => []StakingInv
  BY StakingInit, StakingNext, PTL DEF Stk!Spec
<1>2. StakingInv /\ [Stk!Next]_(Stk!stakingVars) => [ForgetsNothing]_(Stk!stakingVars)
  BY StepForgetsNothing
<1>3. Stk!Spec => [][ForgetsNothing]_(Stk!stakingVars)
  BY <1>1, <1>2, PTL DEF Stk!Spec
<1> QED
  BY <1>3 DEF Stk!ExitForgetsNothing, ForgetsNothing, WasPaid
-----------------------------------------------------------------------------
(***************************************************************************)
(* Liquidity mining.  The proofs count in units of 1 / (Unit * FullScale),  *)
(* in which neither the contract's accumulator nor the exact entitlement   *)
(* rounds.                                                                 *)
(***************************************************************************)
\* The instance sums up as the library does.
LEMMA SameSum ==
    ASSUME NEW f
    PROVE  L!SumFunction(f) = SumFunction(f)
  BY DEF L!SumFunction, SumFunction, L!SumFunctionOnSet, SumFunctionOnSet,
         L!FoldFunctionOnSet, FoldFunctionOnSet, L!MapThenFoldSet, MapThenFoldSet

\* No value exceeds the sum.
LEMMA SumBoundsPoint ==
    ASSUME NEW D, IsFiniteSet(D), NEW f \in [D -> Nat], NEW x \in D
    PROVE  f[x] <= SumFunction(f)
<1>1. f \in [D -> 0 .. Total(f)]
  BY TotalBounds
<1> QED
  BY <1>1, SumIsTotal

\* What B people share in B equal parts.
LEMMA SharedExactly ==
    ASSUME NEW U \in Nat, NEW B \in Nat \ {0}, U % B = 0
    PROVE  U \div B \in Nat /\ B * (U \div B) = U
  OBVIOUS

\* The entitlement to a block is not rounded.
LEMMA ExactShare ==
    ASSUME NEW B \in Nat \ {0}, NEW P \in Nat, NEW c \in Nat
    PROVE  (c * (B * P)) \div B = c * P
<1> DEFINE n == c * P
<1>1. n \in Nat /\ c * (B * P) = B * n
  OBVIOUS
<1> HIDE DEF n
<1>2. B * n < B * (n + 1) /\ B * n \in Int
  BY <1>1
<1>3. (B * n) \div B < n + 1
  BY <1>1, <1>2, DivLess
<1>4. n <= (B * n) \div B
  BY <1>1, DivAtLeast
<1>5. (B * n) \div B \in Int
  BY <1>1, <1>2, DivBounds
<1>6. (B * n) \div B = n
  BY <1>1, <1>3, <1>4, <1>5
<1> QED
  BY <1>1, <1>6 DEF n

\* An increment of the accumulator is the exact one, rounded once.
LEMMA RoundedOnce ==
    ASSUME NEW n \in Nat, NEW B \in Nat \ {0}, NEW P \in Nat
    PROVE  LET k == n \div B
           IN  /\ k \in Nat
               /\ k * (B * P) <= n * P
               /\ n * P <= k * (B * P) + B * P
<1> DEFINE k == n \div B
<1>1. k \in Int /\ B * k <= n /\ n < B * (k + 1)
  BY DivBounds
<1>2. k \in Nat
  BY <1>1
<1> HIDE DEF k
<1>3. P * (B * k) <= P * n
  BY <1>1, <1>2, TimesMonotone
<1>4. P * n <= P * (B * (k + 1))
  BY <1>1, <1>2, TimesMonotone
<1>5. /\ k * (B * P) = P * (B * k)
      /\ n * P = P * n
      /\ P * (B * (k + 1)) = k * (B * P) + B * P
  BY <1>2
<1> QED
  BY <1>2, <1>3, <1>4, <1>5 DEF k

\* What a user's tokens are worth before and after an update of the accumulator.
LEMMA SharesUpdated ==
    ASSUME NEW U \in Nat, NEW v \in Nat, NEW w \in Nat, NEW i \in Nat, NEW a \in Nat, NEW most \in Nat,
           w <= v, v <= w + i * U, a <= most
    PROVE  a * w <= a * v /\ a * v <= a * w + i * U * most
<1>1. a * w <= a * v
  BY TimesMonotone
<1>2. a * v <= a * (w + i * U)
  BY TimesMonotone
<1>3. (i * U) * a <= (i * U) * most
  BY TimesMonotone
<1> QED
  BY <1>1, <1>2, <1>3

\* A deposit is put down as a debt, rounded down.
LEMMA DepositShare ==
    ASSUME NEW U \in Nat, NEW acc \in Nat, NEW a \in Nat, NEW x \in Nat, NEW h \in Int
    PROVE  LET q == MulTruncate(x, acc)
               before == (U * FullScale) * h + a * (U * acc)
               after == (U * FullScale) * (h - q) + (a + x) * (U * acc)
           IN  q \in Nat /\ before <= after /\ after <= before + U * FullScale
<1> DEFINE q == MulTruncate(x, acc)
<1>1. x * acc \in Nat
  OBVIOUS
<1>2. q \in Int /\ FullScale * q <= x * acc /\ x * acc < FullScale * (q + 1)
  BY <1>1, DivBounds, FullScaleAssumption DEF MulTruncate
<1>3. q \in Nat
  BY MulTruncateBounds
<1> HIDE DEF q
<1>4. U * (FullScale * q) <= U * (x * acc)
  BY <1>1, <1>2, <1>3, TimesMonotone, FullScaleAssumption
<1>5. U * (x * acc) <= U * (FullScale * (q + 1))
  BY <1>1, <1>2, <1>3, TimesMonotone, FullScaleAssumption
<1>6. /\ (U * FullScale) * (h - q) = (U * FullScale) * h - U * (FullScale * q)
      /\ (a + x) * (U * acc) = a * (U * acc) + U * (x * acc)
      /\ U * (FullScale * (q + 1)) = U * (FullScale * q) + U * FullScale
  BY <1>3, FullScaleAssumption
<1> QED
  BY <1>3, <1>4, <1>5, <1>6, FullScaleAssumption DEF q

\* A withdrawal takes from the debt, rounded down; a claim is paid as it is put down.
LEMMA WithdrawShare ==
    ASSUME NEW U \in Nat, NEW acc \in Nat, NEW a \in Nat, NEW x \in 0 .. a, NEW h \in Int
    PROVE  LET q == MulTruncate(x, acc)
               before == (U * FullScale) * h + a * (U * acc)
               after == (U * FullScale) * (h + q) + (a - x) * (U * acc)
           IN  q \in Nat /\ after <= before /\ before <= after + U * FullScale
<1> DEFINE q == MulTruncate(x, acc)
<1>1. x * acc \in Nat
  OBVIOUS
<1>2. q \in Int /\ FullScale * q <= x * acc /\ x * acc < FullScale * (q + 1)
  BY <1>1, DivBounds, FullScaleAssumption DEF MulTruncate
<1>3. q \in Nat
  BY MulTruncateBounds
<1> HIDE DEF q
<1>4. U * (FullScale * q) <= U * (x * acc)
  BY <1>1, <1>2, <1>3, TimesMonotone, FullScaleAssumption
<1>5. U * (x * acc) <= U * (FullScale * (q + 1))
  BY <1>1, <1>2, <1>3, TimesMonotone, FullScaleAssumption
<1>6. /\ (U * FullScale) * (h + q) = (U * FullScale) * h + U * (FullScale * q)
      /\ (a - x) * (U * acc) = a * (U * acc) - U * (x * acc)
      /\ U * (FullScale * (q + 1)) = U * (FullScale * q) + U * FullScale
  BY <1>3, FullScaleAssumption
<1> QED
  BY <1>3, <1>4, <1>5, <1>6, FullScaleAssumption DEF q
-----------------------------------------------------------------------------
\* The blocks to be counted at the next update, and what they bring.
Multiplier ==
    IF block <= pool.lastRewardBlock \/ endBlock <= pool.lastRewardBlock THEN 0
    ELSE (IF block < endBlock THEN block ELSE endBlock) - pool.lastRewardBlock
Brought == (Multiplier * rewardPerBlock) * FullScale
Increment == IF pool.balance = 0 THEN 0 ELSE Brought \div pool.balance
Accumulated == pool.accRewardPerShare + Increment

\* What one pair token has brought so far, not rounded at the next update.
PerToken == IF pool.balance = 0 THEN 0 ELSE Unit \div pool.balance
Worth == Unit * pool.accRewardPerShare + Brought * PerToken

\* What a user was paid and is owed.
Value(u) == (Unit * FullScale) * (paid[u] - userInfo[u].rewardDebt) + userInfo[u].amount * Worth

\* A campaign that lies ahead starts where rewards do.
BlocksInOrder ==
    /\ startBlock <= pool.lastRewardBlock
    /\ block < pool.lastRewardBlock => startBlock = pool.lastRewardBlock
    /\ block < endBlock => startBlock <= endBlock

Extra == IF testing = "mint" THEN 1 ELSE 0

\* No pair token is counted twice, and what users have deposited is there.
TokensCounted ==
    /\ \A u \in Users :
          wallet[u] + userInfo[u].amount + (IF u = tester THEN Extra ELSE 0) <= Tokens[u] + 1
    /\ L!Deposited <= pool.balance
    /\ pool.balance + SumFunction(wallet) + Extra <= L!Supply

\* Each user's share, up to what deposits, withdrawals and updates round.
AtMostTheShare(u) ==
    Value(u) <= FullScale * entitled[u] + (Unit * FullScale) * deposits[u]
AtLeastTheShare(u) ==
    pool.balance = L!Deposited =>
        FullScale * entitled[u]
            <= Value(u) + (Unit * FullScale) * withdrawals[u] + (updates * Unit) * (Tokens[u] + 1)
Shared == ~stoppedLate => \A u \in Users : AtMostTheShare(u) /\ AtLeastTheShare(u)

\* The types a step needs.
LEMMA LiquidityTypes ==
    ASSUME L!TypeOK
    PROVE  /\ block \in Nat
           /\ pool.balance \in Nat /\ pool.lastRewardBlock \in Nat /\ pool.accRewardPerShare \in Nat
           /\ rewardPerBlock \in Nat /\ endBlock \in Nat /\ startBlock \in Nat
           /\ totalRewardDebt \in Int /\ reward \in Nat /\ updates \in Nat
           /\ \A u \in Users :
                 /\ userInfo[u].amount \in Nat /\ userInfo[u].rewardDebt \in Int
                 /\ wallet[u] \in Nat /\ entitled[u] \in Nat /\ paid[u] \in Nat
                 /\ deposits[u] \in Nat /\ withdrawals[u] \in Nat
<1>1. block \in Nat
  BY UsersAssumption DEF L!TypeOK
<1> QED
  BY <1>1 DEF L!TypeOK

\* What the next update counts are numbers.
LEMMA AccumulatorTypes ==
    ASSUME L!TypeOK
    PROVE  /\ Multiplier \in Nat /\ Brought \in Nat
           /\ Increment \in Nat /\ Accumulated \in Nat
<1>0. FullScale \in Nat \ {0}
  BY FullScaleAssumption
<1>1. Multiplier \in Nat
  BY LiquidityTypes DEF Multiplier
<1>2. Multiplier * rewardPerBlock \in Nat
  BY <1>1, LiquidityTypes
<1>3. Brought \in Nat
  BY <1>0, <1>2 DEF Brought
<1>4. ASSUME pool.balance # 0 PROVE Brought \div pool.balance \in Nat
  BY <1>3, <1>4, LiquidityTypes, RoundedOnce
<1>5. Increment \in Nat
  BY <1>4 DEF Increment
<1> QED
  BY <1>1, <1>3, <1>5, LiquidityTypes DEF Accumulated

\* The sum of the deposits is a number.
LEMMA DepositedType ==
    ASSUME L!TypeOK
    PROVE  LET amounts == [u \in Users |-> userInfo[u].amount]
           IN  /\ amounts \in [Users -> Nat]
               /\ L!Deposited = SumFunction(amounts) /\ L!Deposited \in Nat
<1> DEFINE amounts == [u \in Users |-> userInfo[u].amount]
<1>1. amounts \in [Users -> Nat]
  BY LiquidityTypes
<1>2. L!Deposited = SumFunction(amounts)
  BY SameSum DEF L!Deposited
<1>3. SumFunction(amounts) \in Nat
  BY <1>1, SumIsTotal, UsersAssumption
<1> QED
  BY <1>1, <1>2, <1>3

\* There is a pair token, and Unit is a multiple of every number of them.
LEMMA SupplyType ==
    L!Supply \in Nat \ {0} /\ Unit \in Nat \ {0} /\ \A n \in 1 .. L!Supply : Unit % n = 0
<1>1. SumFunction(Tokens) \in Nat
  BY SumIsTotal, UsersAssumption
<1>2. L!Supply = SumFunction(Tokens) + 1
  BY SameSum DEF L!Supply
<1> QED
  BY <1>1, <1>2, UnitAssumption

\* The exact parts of the pool.
LEMMA PoolShared ==
    ASSUME L!TypeOK, TokensCounted
    PROVE  /\ PerToken \in Nat /\ Worth \in Nat
           /\ pool.balance <= L!Supply
           /\ pool.balance # 0 => pool.balance * PerToken = Unit
<1>1. SumFunction(wallet) \in Nat
  BY SumIsTotal, UsersAssumption DEF L!TypeOK
<1>2. Extra \in Nat
  BY DEF Extra
<1>3. pool.balance <= L!Supply
  BY <1>1, <1>2, LiquidityTypes, SupplyType DEF TokensCounted
<1>4. ASSUME pool.balance # 0
      PROVE  PerToken \in Nat /\ pool.balance * PerToken = Unit
  <2>1. pool.balance \in 1 .. L!Supply
    BY <1>3, <1>4, LiquidityTypes, SupplyType
  <2>2. Unit % pool.balance = 0
    BY <2>1, SupplyType
  <2> QED
    BY <1>4, <2>2, LiquidityTypes, SupplyType, SharedExactly DEF PerToken
<1>5. PerToken \in Nat
  BY <1>4 DEF PerToken
<1>6. Unit * pool.accRewardPerShare \in Nat /\ Brought * PerToken \in Nat
  BY <1>5, LiquidityTypes, AccumulatorTypes, SupplyType
<1> QED
  BY <1>3, <1>4, <1>5, <1>6 DEF Worth

\* The same as an implication.
LEMMA PoolSharedAlways ==
    L!TypeOK /\ TokensCounted =>
       /\ PerToken \in Nat /\ Worth \in Nat
       /\ pool.balance # 0 => pool.balance * PerToken = Unit
  BY PoolShared

\* It holds after a step, too.
LEMMA PoolSharedNext ==
    (L!TypeOK /\ TokensCounted =>
       /\ PerToken \in Nat /\ Worth \in Nat
       /\ pool.balance # 0 => pool.balance * PerToken = Unit)'
  BY PoolSharedAlways, PTL

\* What updatePool makes of the pool; if nothing, no block was to be counted.
LEMMA PoolNow ==
    ASSUME L!TypeOK
    PROVE  /\ L!updatePool =
                [balance |-> pool.balance,
                 lastRewardBlock |-> IF block <= pool.lastRewardBlock \/ endBlock <= pool.lastRewardBlock
                                     THEN pool.lastRewardBlock ELSE block,
                 accRewardPerShare |-> Accumulated]
           /\ L!updatePool = pool => Multiplier = 0
<1>1. CASE block <= pool.lastRewardBlock \/ endBlock <= pool.lastRewardBlock
  <2>1. Multiplier = 0 /\ Brought = 0
    BY <1>1, LiquidityTypes, FullScaleAssumption DEF Multiplier, Brought
  <2>2. pool.balance # 0 => 0 \div pool.balance = 0
    BY LiquidityTypes
  <2>3. Accumulated = pool.accRewardPerShare
    BY <2>1, <2>2, LiquidityTypes DEF Accumulated, Increment
  <2> QED
    BY <1>1, <2>1, <2>3 DEF L!updatePool, L!TypeOK
<1>2. CASE ~(block <= pool.lastRewardBlock \/ endBlock <= pool.lastRewardBlock)
  <2>1. L!getCampaignMultiplier = Multiplier
    BY <1>2, LiquidityTypes DEF L!getCampaignMultiplier, Multiplier
  <2>2. pool.balance # 0 => L!Accrued = Increment
    BY <2>1 DEF L!Accrued, Increment, Brought, L!DivPrecisely
  <2>0. /\ pool \in [balance : Nat, lastRewardBlock : Nat, accRewardPerShare : Nat]
        /\ pool.accRewardPerShare \in Nat
    BY DEF L!TypeOK
  <2>3. L!updatePool = [pool EXCEPT !.lastRewardBlock = block, !.accRewardPerShare = Accumulated]
    <3>1. L!updatePool = [pool EXCEPT !.lastRewardBlock = block,
                            !.accRewardPerShare = IF pool.balance = 0 THEN pool.accRewardPerShare
                                                  ELSE pool.accRewardPerShare + L!Accrued]
      BY <1>2, <2>0 DEF L!updatePool
    <3>2. Accumulated = IF pool.balance = 0 THEN pool.accRewardPerShare
                        ELSE pool.accRewardPerShare + L!Accrued
      BY <2>0, <2>2 DEF Accumulated, Increment
    <3> QED
      BY <3>1, <3>2
  <2>4. L!updatePool # pool
    <3>1. L!updatePool.lastRewardBlock = block
      BY <2>0, <2>3
    <3> QED
      BY <1>2, <3>1, LiquidityTypes
  <2> QED
    BY <1>2, <2>0, <2>3, <2>4
<1> QED
  BY <1>1, <1>2

\* What a user is owed is their part of the accumulator less their debt, before the
\* update and after it.
LEMMA PendingNow ==
    ASSUME L!TypeOK, NEW u \in Users
    PROVE  /\ L!Pending(u) = MulTruncate(userInfo[u].amount, Accumulated) - userInfo[u].rewardDebt
           /\ L!Owed(u, L!updatePool) = L!Pending(u)
           /\ L!Pending(u) \in Int
<1>1. L!updatePool.accRewardPerShare = Accumulated
  BY PoolNow
<1>2. pool.accRewardPerShare + (IF block > pool.lastRewardBlock /\ pool.balance # 0 THEN L!Accrued ELSE 0)
         = Accumulated
  <2>1. CASE block > pool.lastRewardBlock /\ pool.balance # 0
    <3>1. L!getCampaignMultiplier = Multiplier
      BY <2>1, LiquidityTypes DEF L!getCampaignMultiplier, Multiplier
    <3> QED
      BY <2>1, <3>1, LiquidityTypes DEF L!Accrued, Accumulated, Increment, Brought, L!DivPrecisely
  <2>2. CASE ~(block > pool.lastRewardBlock /\ pool.balance # 0)
    <3>1. ASSUME pool.balance # 0 PROVE Brought \div pool.balance = 0
      <4>1. Multiplier = 0
        BY <2>2, <3>1, LiquidityTypes DEF Multiplier
      <4> QED
        BY <3>1, <4>1, LiquidityTypes, FullScaleAssumption DEF Brought
    <3> QED
      BY <2>2, <3>1, LiquidityTypes DEF Accumulated, Increment
  <2> QED
    BY <2>1, <2>2
<1>3. MulTruncate(userInfo[u].amount, Accumulated) \in Nat
  BY LiquidityTypes, AccumulatorTypes, MulTruncateBounds
<1> QED
  BY <1>1, <1>2, <1>3, LiquidityTypes DEF L!Pending, L!Owed, L!MulTruncate, MulTruncate
-----------------------------------------------------------------------------
(* Updates of the accumulator.                                              *)

Updated ==
    /\ pool' \in [balance : Nat, lastRewardBlock : Nat, accRewardPerShare : Nat]
    /\ pool'.accRewardPerShare = Accumulated
    /\ Multiplier' = 0
    /\ \/ updates' = updates + 1
       \/ updates' = updates /\ Multiplier = 0

\* An update counts all blocks, whatever else the call does to the balance.
LEMMA UpdateEffect ==
    ASSUME L!TypeOK, NEW c \in Int, pool.balance + c \in Nat,
           L!Update(c), UNCHANGED <<block, endBlock>>
    PROVE  /\ Updated
           /\ pool'.balance = pool.balance + c
           /\ BlocksInOrder /\ startBlock' = startBlock => BlocksInOrder'
<1>1. /\ pool' = [balance |-> pool.balance + c,
                  lastRewardBlock |-> IF block <= pool.lastRewardBlock \/ endBlock <= pool.lastRewardBlock
                                      THEN pool.lastRewardBlock ELSE block,
                  accRewardPerShare |-> Accumulated]
      /\ updates' = IF L!updatePool = pool THEN updates ELSE updates + 1
  BY PoolNow DEF L!Update, L!Counted
<1>2. Multiplier' = 0
  BY <1>1, LiquidityTypes DEF Multiplier
<1>3. pool' \in [balance : Nat, lastRewardBlock : Nat, accRewardPerShare : Nat]
  BY <1>1, LiquidityTypes, AccumulatorTypes
<1>4. Updated
  BY <1>1, <1>2, <1>3, PoolNow DEF Updated
<1>5. ASSUME BlocksInOrder, startBlock' = startBlock PROVE BlocksInOrder'
  BY <1>1, <1>5, LiquidityTypes DEF BlocksInOrder
<1> QED
  BY <1>1, <1>4, <1>5

\* An update rounds down what a token brings, by less than 1 / FullScale.
LEMMA WorthUpdated ==
    ASSUME L!TypeOK, TokensCounted, Updated, rewardPerBlock' \in Nat
    PROVE  /\ Worth' \in Nat /\ Worth' = Unit * Accumulated
           /\ updates' - updates \in Nat
           /\ Worth' <= Worth /\ Worth <= Worth' + (updates' - updates) * Unit
<1>0. FullScale \in Nat \ {0} /\ Unit \in Nat \ {0}
  BY FullScaleAssumption, SupplyType
<1>1. Brought' = 0
  <2>1. Multiplier' = 0
    BY DEF Updated
  <2>2. \A n \in Nat : (0 * n) * FullScale = 0
    BY <1>0
  <2> QED
    BY <2>1, <2>2 DEF Brought
<1>2. PerToken' \in Int
  <2>1. pool'.balance \in Nat
    BY DEF Updated
  <2> QED
    BY <1>0, <2>1 DEF PerToken
<1>3. Worth' = Unit * Accumulated /\ Worth' \in Nat
  BY <1>0, <1>1, <1>2, AccumulatorTypes DEF Worth, Updated
<1>4. Worth' = Unit * pool.accRewardPerShare + Unit * Increment
  BY <1>0, <1>3, LiquidityTypes, AccumulatorTypes DEF Accumulated
<1>5. /\ Unit * Increment <= Brought * PerToken
      /\ Brought * PerToken <= Unit * Increment + (updates' - updates) * Unit
  <2>1. CASE Multiplier = 0
    <3>1. Brought = 0
      BY <1>0, <2>1, LiquidityTypes DEF Brought
    <3>2. Increment = 0
      BY <3>1, LiquidityTypes DEF Increment
    <3>3. updates' - updates \in Nat
      BY LiquidityTypes DEF Updated
    <3>4. (updates' - updates) * Unit \in Nat
      BY <1>0, <3>3
    <3> QED
      BY <1>0, <3>1, <3>2, <3>4, PoolShared
  <2>2. CASE pool.balance = 0
    <3>1. Increment = 0 /\ PerToken = 0 /\ Brought \in Nat
      BY <2>2, AccumulatorTypes DEF Increment, PerToken
    <3>2. updates' - updates \in Nat
      BY LiquidityTypes DEF Updated
    <3>3. (updates' - updates) * Unit \in Nat
      BY <1>0, <3>2
    <3> QED
      BY <1>0, <3>1, <3>3
  <2>3. CASE Multiplier # 0 /\ pool.balance # 0
    <3>1. updates' - updates = 1
      BY <2>3, LiquidityTypes DEF Updated
    <3>2. /\ pool.balance * PerToken = Unit /\ PerToken \in Nat
          /\ Brought \in Nat /\ pool.balance \in Nat \ {0}
      BY <2>3, PoolShared, AccumulatorTypes, LiquidityTypes
    <3>3. Increment = Brought \div pool.balance
      BY <2>3 DEF Increment
    <3>4. /\ Increment * Unit <= Brought * PerToken
          /\ Brought * PerToken <= Increment * Unit + Unit
      BY <3>2, <3>3, RoundedOnce
    <3> QED
      BY <1>0, <3>1, <3>4, AccumulatorTypes
  <2> QED
    BY <2>1, <2>2, <2>3
<1>6. updates' - updates \in Nat
  BY LiquidityTypes DEF Updated
<1>7. /\ Unit * pool.accRewardPerShare \in Nat /\ Unit * Increment \in Nat
      /\ Brought * PerToken \in Nat /\ (updates' - updates) * Unit \in Nat
  BY <1>0, <1>6, LiquidityTypes, AccumulatorTypes, PoolShared
<1> QED
  BY <1>3, <1>4, <1>5, <1>6, <1>7 DEF Worth
-----------------------------------------------------------------------------
(* The shares of the users.                                                 *)

\* What a user has is a number of units.
LEMMA ValueType ==
    L!TypeOK /\ TokensCounted => \A v \in Users : Value(v) \in Int
<1> SUFFICES ASSUME L!TypeOK, TokensCounted, NEW v \in Users
             PROVE  Value(v) \in Int
  OBVIOUS
<1>1. Unit * FullScale \in Nat
  BY SupplyType, FullScaleAssumption
<1>2. paid[v] - userInfo[v].rewardDebt \in Int /\ userInfo[v].amount \in Nat
  BY LiquidityTypes
<1>3. Worth \in Nat
  BY PoolShared
<1>4. (Unit * FullScale) * (paid[v] - userInfo[v].rewardDebt) \in Int /\ userInfo[v].amount * Worth \in Nat
  BY <1>1, <1>2, <1>3
<1> QED
  BY <1>1, <1>4 DEF Value

\* It is one after a step, too.
LEMMA ValueTypeNext ==
    (L!TypeOK /\ TokensCounted => \A v \in Users : Value(v) \in Int)'
  BY ValueType, PTL

\* Shares are kept by a step that adds to what a user has no more than a deposit
\* rounds, and takes no more than withdrawals and updates round.
LEMMA SharedAfter ==
    ASSUME Shared, L!TypeOK, L!TypeOK', TokensCounted, TokensCounted',
           UNCHANGED entitled, stoppedLate => stoppedLate', updates' - updates \in Nat,
           \A v \in Users :
              Value(v)' <= Value(v) + (Unit * FullScale) * (deposits'[v] - deposits[v]),
           (pool.balance = L!Deposited)' =>
              /\ pool.balance = L!Deposited
              /\ \A v \in Users :
                    Value(v) <= Value(v)' + (Unit * FullScale) * (withdrawals'[v] - withdrawals[v])
                                          + ((updates' - updates) * Unit) * (Tokens[v] + 1)
    PROVE  Shared'
<1>1. SUFFICES ASSUME ~stoppedLate', ~stoppedLate, NEW v \in Users
               PROVE  AtMostTheShare(v)' /\ AtLeastTheShare(v)'
  BY DEF Shared
<1>2. AtMostTheShare(v) /\ AtLeastTheShare(v)
  BY <1>1 DEF Shared
<1>3. /\ Value(v) \in Int /\ Unit * FullScale \in Nat
      /\ Value(v)' \in Int
  BY ValueType, ValueTypeNext, SupplyType, FullScaleAssumption
<1>4. /\ deposits[v] \in Nat /\ withdrawals[v] \in Nat /\ entitled[v] \in Nat
      /\ deposits'[v] \in Nat /\ withdrawals'[v] \in Nat
      /\ updates \in Nat /\ updates' \in Nat
  BY DEF L!TypeOK
<1>5. Tokens[v] \in Nat /\ Unit \in Nat /\ FullScale \in Nat
  BY UsersAssumption, SupplyType, FullScaleAssumption
<1> DEFINE S == Unit * FullScale
           most == Tokens[v] + 1
<1>6. S * deposits'[v] = S * deposits[v] + S * (deposits'[v] - deposits[v])
  BY <1>3, <1>4
<1>7. S * withdrawals'[v] = S * withdrawals[v] + S * (withdrawals'[v] - withdrawals[v])
  BY <1>3, <1>4
<1>8. (updates' * Unit) * most = (updates * Unit) * most + ((updates' - updates) * Unit) * most
  BY <1>4, <1>5
<1>9. /\ S * deposits[v] \in Int /\ S * (deposits'[v] - deposits[v]) \in Int
      /\ S * withdrawals[v] \in Int /\ S * (withdrawals'[v] - withdrawals[v]) \in Int
      /\ (updates * Unit) * most \in Int /\ ((updates' - updates) * Unit) * most \in Int
      /\ FullScale * entitled[v] \in Int
  BY <1>3, <1>4, <1>5
<1>10. AtMostTheShare(v)'
  BY <1>2, <1>3, <1>6, <1>9 DEF AtMostTheShare
<1>11. AtLeastTheShare(v)'
  BY <1>2, <1>3, <1>7, <1>8, <1>9 DEF AtLeastTheShare
<1> QED
  BY <1>10, <1>11

\* A user's value at an update of the accumulator.
LEMMA ValueUpdated ==
    ASSUME L!TypeOK, TokensCounted, Updated, rewardPerBlock' \in Nat, NEW v \in Users
    PROVE  LET settled == (Unit * FullScale) * (paid[v] - userInfo[v].rewardDebt)
                         + userInfo[v].amount * (Unit * Accumulated)
           IN  /\ settled \in Int
               /\ settled <= Value(v)
               /\ Value(v) <= settled + ((updates' - updates) * Unit) * (Tokens[v] + 1)
<1> DEFINE a == userInfo[v].amount
           h == (Unit * FullScale) * (paid[v] - userInfo[v].rewardDebt)
           i == updates' - updates
           most == Tokens[v] + 1
           w == Unit * Accumulated
<1>1. w \in Nat /\ i \in Nat /\ w <= Worth /\ Worth <= w + i * Unit /\ Worth \in Nat
  BY WorthUpdated, PoolShared
<1>2. a \in Nat /\ most \in Nat /\ a <= most /\ Unit \in Nat
  BY LiquidityTypes, UsersAssumption, SupplyType DEF TokensCounted, Extra
<1>3. a * w <= a * Worth /\ a * Worth <= a * w + i * Unit * most
  BY <1>1, <1>2, SharesUpdated
<1>4. h \in Int
  <2>1. Unit * FullScale \in Int /\ paid[v] - userInfo[v].rewardDebt \in Int
    BY LiquidityTypes, SupplyType, FullScaleAssumption
  <2> QED
    BY <2>1
<1>5. a * w \in Int /\ a * Worth \in Int /\ i * Unit * most \in Int
  BY <1>1, <1>2
<1> QED
  BY <1>3, <1>4, <1>5 DEF Value

\* A user's tokens, debt and payment change after an update of the accumulator.
Moved(u, c, d, pay) ==
    /\ Updated /\ pool'.balance = pool.balance + c
    /\ userInfo' = [userInfo EXCEPT ![u] = [amount |-> @.amount + c, rewardDebt |-> @.rewardDebt + d]]
    /\ totalRewardDebt' = totalRewardDebt + d
    /\ reward' = reward - pay /\ paid' = [paid EXCEPT ![u] = @ + pay]
    /\ UNCHANGED <<block, rewardPerBlock, endBlock, startBlock, entitled, stoppedLate>>

\* The sum of the deposits moves as the one deposit does.
LEMMA AmountMoved ==
    ASSUME L!TypeOK, L!TypeOK', NEW u \in Users, NEW c \in Int,
           userInfo'[u].amount = userInfo[u].amount + c,
           \A v \in Users \ {u} : userInfo'[v].amount = userInfo[v].amount
    PROVE  L!Deposited' = L!Deposited + c
<1> DEFINE f == [v \in Users |-> userInfo[v].amount]
           g == [v \in Users |-> userInfo'[v].amount]
<1>1. f \in [Users -> Nat] /\ g \in [Users -> Nat] /\ g[u] = f[u] + c
  BY DEF L!TypeOK
<1>2. \A v \in Users \ {u} : g[v] = f[v]
  OBVIOUS
<1>3. SumFunction(g) = SumFunction(f) - f[u] + g[u]
  BY <1>1, <1>2, SumChange, UsersAssumption
<1>4. SumFunction(f) \in Nat
  BY <1>1, SumIsTotal, UsersAssumption
<1>5. L!Deposited = SumFunction(f) /\ L!Deposited' = SumFunction(g)
  BY SameSum DEF L!Deposited
<1> QED
  BY <1>1, <1>3, <1>4, <1>5

\* Shares are kept where one user's tokens, debt and payment change.
LEMMA MovedShares ==
    ASSUME Shared, L!TypeOK, L!TypeOK', TokensCounted, TokensCounted',
           NEW u \in Users, NEW c \in Int, NEW d \in Int, NEW pay \in Int, Moved(u, c, d, pay),
           \A v \in Users \ {u} : deposits'[v] = deposits[v] /\ withdrawals'[v] = withdrawals[v],
           LET a == userInfo[u].amount
               h == paid[u] - userInfo[u].rewardDebt
               before == (Unit * FullScale) * h + a * (Unit * Accumulated)
               after == (Unit * FullScale) * (h + pay - d) + (a + c) * (Unit * Accumulated)
           IN  /\ after <= before + (Unit * FullScale) * (deposits'[u] - deposits[u])
               /\ before <= after + (Unit * FullScale) * (withdrawals'[u] - withdrawals[u])
    PROVE  Shared'
<1> DEFINE settled(v) == (Unit * FullScale) * (paid[v] - userInfo[v].rewardDebt)
                        + userInfo[v].amount * (Unit * Accumulated)
           S == Unit * FullScale
<1>0. rewardPerBlock' \in Nat /\ S \in Nat /\ Accumulated \in Nat /\ Unit \in Nat
  <2>1. rewardPerBlock' \in Nat /\ Accumulated \in Nat
    BY LiquidityTypes, AccumulatorTypes DEF Moved
  <2>2. S \in Nat /\ Unit \in Nat
    BY SupplyType, FullScaleAssumption
  <2> QED
    BY <2>1, <2>2
<1>1. Worth' = Unit * Accumulated /\ updates' - updates \in Nat
  BY <1>0, WorthUpdated DEF Moved
<1>2. ASSUME NEW v \in Users
      PROVE  /\ settled(v) \in Int /\ settled(v) <= Value(v)
             /\ Value(v) <= settled(v) + ((updates' - updates) * Unit) * (Tokens[v] + 1)
  BY <1>0, ValueUpdated DEF Moved
<1>3. ASSUME NEW v \in Users
      PROVE  /\ Value(v)' <= settled(v) + S * (deposits'[v] - deposits[v])
             /\ settled(v) <= Value(v)' + S * (withdrawals'[v] - withdrawals[v])
  <2>1. CASE v = u
    <3> DEFINE a == userInfo[u].amount
               h == paid[u] - userInfo[u].rewardDebt
    <3>1. a \in Nat /\ h \in Int
      BY LiquidityTypes
    <3>2. /\ userInfo'[u].amount = a + c
          /\ paid'[u] - userInfo'[u].rewardDebt = h + pay - d
      BY LiquidityTypes DEF Moved, L!TypeOK
    <3>3. Value(u)' = S * (h + pay - d) + (a + c) * (Unit * Accumulated)
      BY <1>1, <3>2 DEF Value
    <3> QED
      BY <2>1, <3>3
  <2>2. CASE v # u
    <3>1. userInfo'[v] = userInfo[v] /\ paid'[v] = paid[v]
      BY <2>2 DEF Moved, L!TypeOK
    <3>2. Value(v)' = settled(v)
      BY <1>1, <3>1 DEF Value
    <3>3. S * (deposits'[v] - deposits[v]) = 0 /\ S * (withdrawals'[v] - withdrawals[v]) = 0
      BY <1>0, <2>2, LiquidityTypes
    <3>4. settled(v) \in Int
      BY <1>2
    <3> HIDE DEF settled, S
    <3> QED
      BY <3>2, <3>3, <3>4
  <2> QED
    BY <2>1, <2>2
<1>4. L!Deposited' = L!Deposited + c
  <2>1. /\ userInfo'[u].amount = userInfo[u].amount + c
        /\ \A v \in Users \ {u} : userInfo'[v].amount = userInfo[v].amount
    BY DEF Moved, L!TypeOK
  <2> QED
    BY <2>1, AmountMoved
<1>5. (pool.balance = L!Deposited)' => pool.balance = L!Deposited
  BY <1>4, DepositedType, LiquidityTypes DEF Moved
<1>6. ASSUME NEW v \in Users
      PROVE  /\ Value(v) \in Int /\ Value(v)' \in Int
             /\ S * (deposits'[v] - deposits[v]) \in Int
             /\ ((updates' - updates) * Unit) * (Tokens[v] + 1) \in Int
             /\ S * (withdrawals'[v] - withdrawals[v]) \in Int
  <2>1. Value(v) \in Int /\ Value(v)' \in Int
    BY ValueType, ValueTypeNext
  <2>2. deposits'[v] - deposits[v] \in Int /\ withdrawals'[v] - withdrawals[v] \in Int
    BY DEF L!TypeOK
  <2> QED
    BY <1>0, <1>1, <2>1, <2>2, UsersAssumption
<1>7. ASSUME NEW v \in Users
      PROVE  /\ Value(v)' <= Value(v) + S * (deposits'[v] - deposits[v])
             /\ Value(v) <= Value(v)' + S * (withdrawals'[v] - withdrawals[v])
                              + ((updates' - updates) * Unit) * (Tokens[v] + 1)
  <2> HIDE DEF settled, S
  <2> QED
    BY <1>2, <1>3, <1>6
<1> QED
  BY <1>1, <1>5, <1>7, SharedAfter DEF Moved

\* A deposit takes nothing from anybody's share: its debt is rounded down once.
LEMMA DepositShares ==
    ASSUME Shared, L!TypeOK, L!TypeOK', TokensCounted, TokensCounted',
           NEW u \in Users, NEW x \in Nat,
           Moved(u, x, MulTruncate(x, Accumulated), 0),
           deposits' = [deposits EXCEPT ![u] = @ + 1], UNCHANGED withdrawals
    PROVE  Shared'
<1> DEFINE a == userInfo[u].amount
           h == paid[u] - userInfo[u].rewardDebt
           S == Unit * FullScale
           W == Unit * Accumulated
           q == MulTruncate(x, Accumulated)
           before == S * h + a * W
           after == S * (h + 0 - q) + (a + x) * W
<1>1. a \in Nat /\ h \in Int /\ Accumulated \in Nat /\ Unit \in Nat /\ S \in Nat /\ W \in Nat
  BY LiquidityTypes, AccumulatorTypes, SupplyType, FullScaleAssumption
<1>2. q \in Nat
  BY <1>1, MulTruncateBounds
<1>3. /\ S * h + a * W <= S * (h - q) + (a + x) * W
      /\ S * (h - q) + (a + x) * W <= S * h + a * W + S
  BY <1>1, DepositShare
<1>4. h + 0 - q = h - q
  BY <1>1, <1>2
<1>5. deposits'[u] - deposits[u] = 1 /\ withdrawals'[u] - withdrawals[u] = 0
  BY DEF L!TypeOK
<1>6. S * (deposits'[u] - deposits[u]) = S /\ S * (withdrawals'[u] - withdrawals[u]) = 0
  BY <1>1, <1>5
<1>7. \A v \in Users \ {u} : deposits'[v] = deposits[v] /\ withdrawals'[v] = withdrawals[v]
  BY DEF L!TypeOK
<1>8. S * (h - q) + (a + x) * W \in Int
  BY <1>1, <1>2
<1>9. /\ after <= before + S * (deposits'[u] - deposits[u])
      /\ before <= after + S * (withdrawals'[u] - withdrawals[u])
  BY <1>3, <1>4, <1>6, <1>8
<1> QED
  BY <1>2, <1>7, <1>9, MovedShares

\* A withdrawal leaves the others their shares, and its user all but what it rounds.
LEMMA WithdrawShares ==
    ASSUME Shared, L!TypeOK, L!TypeOK', TokensCounted, TokensCounted',
           NEW u \in Users, NEW x \in 0 .. userInfo[u].amount, NEW pay \in Nat,
           Moved(u, -x, pay - MulTruncate(x, Accumulated), pay),
           withdrawals' = [withdrawals EXCEPT ![u] = @ + 1], UNCHANGED deposits
    PROVE  Shared'
<1> DEFINE a == userInfo[u].amount
           h == paid[u] - userInfo[u].rewardDebt
           S == Unit * FullScale
           W == Unit * Accumulated
           q == MulTruncate(x, Accumulated)
           before == S * h + a * W
           after == S * (h + pay - (pay - q)) + (a + (-x)) * W
<1>1. a \in Nat /\ h \in Int /\ Accumulated \in Nat /\ Unit \in Nat /\ S \in Nat /\ W \in Nat
  BY LiquidityTypes, AccumulatorTypes, SupplyType, FullScaleAssumption
<1>2. x \in Nat /\ q \in Nat
  BY <1>1, MulTruncateBounds
<1>3. /\ S * (h + q) + (a - x) * W <= S * h + a * W
      /\ S * h + a * W <= S * (h + q) + (a - x) * W + S
  BY <1>1, WithdrawShare
<1>4. h + pay - (pay - q) = h + q /\ a + (-x) = a - x
  BY <1>1, <1>2
<1>5. deposits'[u] - deposits[u] = 0 /\ withdrawals'[u] - withdrawals[u] = 1
  BY DEF L!TypeOK
<1>6. S * (deposits'[u] - deposits[u]) = 0 /\ S * (withdrawals'[u] - withdrawals[u]) = S
  BY <1>1, <1>5
<1>7. \A v \in Users \ {u} : deposits'[v] = deposits[v] /\ withdrawals'[v] = withdrawals[v]
  BY DEF L!TypeOK
<1>8. S * h + a * W \in Int
  BY <1>1, <1>2
<1>9. /\ after <= before + S * (deposits'[u] - deposits[u])
      /\ before <= after + S * (withdrawals'[u] - withdrawals[u])
  BY <1>3, <1>4, <1>6, <1>8
<1>10. -x \in Int /\ pay - q \in Int
  BY <1>2
<1> QED
  BY <1>7, <1>9, <1>10, MovedShares

\* The governor and doUpdatePool count blocks and leave the users as they are.
Recounted ==
    /\ Updated /\ pool'.balance = pool.balance
    /\ UNCHANGED <<block, userInfo, totalRewardDebt, reward, entitled, paid, deposits, withdrawals>>

\* An update alone keeps the shares.
LEMMA RecountShares ==
    ASSUME Shared, L!TypeOK, L!TypeOK', TokensCounted, TokensCounted',
           Recounted, stoppedLate => stoppedLate'
    PROVE  Shared'
<1>1. rewardPerBlock' \in Nat
  BY DEF L!TypeOK
<1>2. Worth' = Unit * Accumulated /\ updates' - updates \in Nat
  BY <1>1, WorthUpdated DEF Recounted
<1>3. Unit * FullScale \in Nat
  BY SupplyType, FullScaleAssumption
<1>4. ASSUME NEW v \in Users
      PROVE  /\ Value(v)' <= Value(v) + (Unit * FullScale) * (deposits'[v] - deposits[v])
             /\ Value(v) <= Value(v)' + (Unit * FullScale) * (withdrawals'[v] - withdrawals[v])
                              + ((updates' - updates) * Unit) * (Tokens[v] + 1)
  <2>1. /\ Value(v)' <= Value(v)
        /\ Value(v) <= Value(v)' + ((updates' - updates) * Unit) * (Tokens[v] + 1)
    <3>1. Value(v)' = (Unit * FullScale) * (paid[v] - userInfo[v].rewardDebt)
                         + userInfo[v].amount * (Unit * Accumulated)
      BY <1>2 DEF Value, Recounted
    <3> QED
      BY <1>1, <3>1, ValueUpdated DEF Recounted
  <2>2. deposits'[v] - deposits[v] = 0 /\ withdrawals'[v] - withdrawals[v] = 0
    BY LiquidityTypes DEF Recounted
  <2>3. Value(v) \in Int /\ Value(v)' \in Int
    BY ValueType, ValueTypeNext
  <2>4. (Unit * FullScale) * 0 = 0
    BY <1>3
  <2>5. ((updates' - updates) * Unit) * (Tokens[v] + 1) \in Int
    BY <1>2, SupplyType, UsersAssumption
  <2> QED
    BY <2>1, <2>2, <2>3, <2>4, <2>5
<1>5. L!Deposited' = L!Deposited
  BY DEF L!Deposited, Recounted
<1> QED
  BY <1>2, <1>4, <1>5, SharedAfter DEF Recounted

\* The pool, the campaign and the block stand still.
Still == UNCHANGED <<block, pool, rewardPerBlock, endBlock, startBlock, entitled, updates,
                     deposits, withdrawals, stoppedLate>>

\* As long as the pool stands still, tokens are worth the same.
LEMMA StillWorth ==
    ASSUME UNCHANGED <<block, pool, rewardPerBlock, endBlock>>
    PROVE  Multiplier' = Multiplier /\ Brought' = Brought /\ PerToken' = PerToken /\ Worth' = Worth
<1>1. Multiplier' = Multiplier /\ PerToken' = PerToken
  BY DEF Multiplier, PerToken
<1>2. Brought' = Brought
  BY <1>1 DEF Brought
<1> QED
  BY <1>1, <1>2 DEF Worth

\* As long as nobody deposits or is paid, shares stay.
LEMMA StillShares ==
    ASSUME Shared, Still, UNCHANGED <<userInfo, paid>>
    PROVE  Shared'
<1>1. Worth' = Worth
  BY StillWorth DEF Still
<1>2. L!Deposited' = L!Deposited
  BY DEF L!Deposited
<1>3. ASSUME NEW v \in Users PROVE Value(v)' = Value(v)
  BY <1>1 DEF Value
<1> QED
  BY <1>2, <1>3 DEF Still, Shared, AtMostTheShare, AtLeastTheShare

\* A claim pays what it takes from the user's due.
LEMMA ClaimShares ==
    ASSUME Shared, L!TypeOK, TokensCounted, NEW u \in Users, NEW pay \in Int, Still,
           userInfo' = [userInfo EXCEPT ![u] = [amount |-> @.amount + 0,
                                                rewardDebt |-> @.rewardDebt + pay]],
           paid' = [paid EXCEPT ![u] = @ + pay]
    PROVE  Shared' /\ L!Deposited' = L!Deposited
<1>1. Worth' = Worth
  BY StillWorth DEF Still
<1>2. ASSUME NEW v \in Users
      PROVE  /\ userInfo'[v].amount = userInfo[v].amount
             /\ paid'[v] - userInfo'[v].rewardDebt = paid[v] - userInfo[v].rewardDebt
  <2>1. CASE v = u
    BY <2>1, LiquidityTypes DEF L!TypeOK
  <2>2. CASE v # u
    BY <2>2 DEF L!TypeOK
  <2> QED
    BY <2>1, <2>2
<1>3. L!Deposited' = L!Deposited
  <2>1. [v \in Users |-> userInfo'[v].amount] = [v \in Users |-> userInfo[v].amount]
    BY <1>2
  <2> QED
    BY <2>1 DEF L!Deposited
<1>4. ASSUME NEW v \in Users PROVE Value(v)' = Value(v)
  BY <1>1, <1>2 DEF Value
<1> QED
  BY <1>3, <1>4 DEF Still, Shared, AtMostTheShare, AtLeastTheShare

\* A share of more tokens is no larger.
LEMMA MoreToShare ==
    ASSUME NEW U \in Nat, NEW B \in Nat, NEW P \in Nat, NEW Q \in Nat,
           B * P = U, (B + 1) * Q = U, B # 0
    PROVE  Q <= P
<1>1. ASSUME P + 1 <= Q PROVE FALSE
  <2>1. (B + 1) * (P + 1) <= (B + 1) * Q
    BY <1>1, TimesMonotone
  <2>2. (B + 1) * (P + 1) = B * P + B + P + 1
    OBVIOUS
  <2>3. B * P \in Nat
    OBVIOUS
  <2> QED
    BY <2>1, <2>2, <2>3
<1> QED
  BY <1>1

\* If the deposits sum up to nothing each is nothing.
LEMMA NothingDeposited ==
    ASSUME L!TypeOK, L!Deposited = 0, NEW v \in Users
    PROVE  userInfo[v].amount = 0
<1> DEFINE amounts == [w \in Users |-> userInfo[w].amount]
<1>1. amounts \in [Users -> Nat] /\ SumFunction(amounts) = 0
  BY DepositedType
<1>2. amounts[v] <= SumFunction(amounts)
  BY <1>1, SumBoundsPoint, UsersAssumption
<1> QED
  BY <1>1, <1>2

\* A token sent to the contract takes a share of blocks not counted yet: the users'
\* tokens bring no more than before.
LEMMA GiftShares ==
    ASSUME Shared, L!TypeOK, L!TypeOK', TokensCounted, TokensCounted',
           pool' = [pool EXCEPT !.balance = @ + 1],
           UNCHANGED <<block, rewardPerBlock, endBlock, userInfo, entitled, paid,
                       deposits, withdrawals, stoppedLate>>
    PROVE  Shared'
<1>1. L!Deposited' = L!Deposited
  BY DEF L!Deposited
<1>2. /\ pool'.balance = pool.balance + 1 /\ pool.balance \in Nat
      /\ pool'.accRewardPerShare = pool.accRewardPerShare
      /\ pool'.lastRewardBlock = pool.lastRewardBlock
  BY DEF L!TypeOK
<1>3. (pool.balance # L!Deposited)'
  BY <1>1, <1>2, DepositedType DEF TokensCounted
<1>4. Brought' = Brought
  <2>1. Multiplier' = Multiplier
    BY <1>2 DEF Multiplier
  <2> QED
    BY <2>1 DEF Brought
<1>5. ASSUME NEW v \in Users PROVE Value(v)' <= Value(v)
  <2>1. userInfo[v].amount * Worth' <= userInfo[v].amount * Worth
    <3>1. CASE pool.balance = 0
      <4>1. L!Deposited = 0
        BY <3>1, DepositedType DEF TokensCounted
      <4>2. userInfo[v].amount = 0
        BY <4>1, NothingDeposited
      <4>3. Worth \in Nat /\ Worth' \in Nat
        BY PoolShared, PoolSharedNext
      <4> QED
        BY <4>2, <4>3
    <3>2. CASE pool.balance # 0
      <4>1. /\ pool.balance * PerToken = Unit /\ PerToken \in Nat
            /\ (pool.balance + 1) * PerToken' = Unit /\ PerToken' \in Nat
        BY <1>2, <3>2, PoolShared, PoolSharedNext
      <4>2. PerToken' <= PerToken
        BY <1>2, <3>2, <4>1, SupplyType, MoreToShare
      <4>3. Brought * PerToken' <= Brought * PerToken
        BY <4>1, <4>2, AccumulatorTypes, TimesMonotone
      <4>4. /\ Unit * pool.accRewardPerShare \in Nat /\ Brought * PerToken' \in Nat
            /\ Brought * PerToken \in Nat
        BY <4>1, LiquidityTypes, SupplyType, AccumulatorTypes
      <4>5. Worth' <= Worth /\ Worth' \in Int /\ Worth \in Int
        BY <1>2, <1>4, <4>3, <4>4 DEF Worth
      <4> QED
        BY <4>5, LiquidityTypes, TimesMonotone
    <3> QED
      BY <3>1, <3>2
  <2>2. /\ (Unit * FullScale) * (paid[v] - userInfo[v].rewardDebt) \in Int
        /\ userInfo[v].amount * Worth' \in Int /\ userInfo[v].amount * Worth \in Int
    <3>1. Worth \in Nat /\ Worth' \in Nat
      BY PoolShared, PoolSharedNext
    <3>2. Unit * FullScale \in Int /\ paid[v] - userInfo[v].rewardDebt \in Int
      BY LiquidityTypes, SupplyType, FullScaleAssumption
    <3> QED
      BY <3>1, <3>2, LiquidityTypes
  <2> QED
    BY <2>1, <2>2 DEF Value
<1>6. ASSUME NEW v \in Users, ~stoppedLate PROVE AtMostTheShare(v)'
  <2>1. AtMostTheShare(v)
    BY <1>6 DEF Shared
  <2>2. Value(v) \in Int /\ Value(v)' \in Int
    BY ValueType, ValueTypeNext
  <2>3. FullScale * entitled[v] + (Unit * FullScale) * deposits[v] \in Int
    BY LiquidityTypes, SupplyType, FullScaleAssumption
  <2> QED
    BY <1>5, <2>1, <2>2, <2>3 DEF AtMostTheShare
<1> QED
  BY <1>3, <1>6 DEF Shared, AtLeastTheShare

\* A block of the campaign comes to those that are counted, and is no longer ahead.
LEMMA TickEffect ==
    ASSUME L!TypeOK, BlocksInOrder, block' = block + 1,
           UNCHANGED <<pool, rewardPerBlock, endBlock, startBlock>>
    PROVE  LET counts == IF startBlock <= block /\ block < endBlock THEN 1 ELSE 0
           IN  /\ Multiplier' = Multiplier + counts
               /\ L!Ahead' = L!Ahead - counts
               /\ L!Ahead \in Nat
               /\ BlocksInOrder'
<1>1. /\ block \in Nat /\ pool.lastRewardBlock \in Nat /\ endBlock \in Nat /\ startBlock \in Nat
      /\ startBlock <= pool.lastRewardBlock
      /\ block < pool.lastRewardBlock => startBlock = pool.lastRewardBlock
      /\ block < endBlock => startBlock <= endBlock
  BY LiquidityTypes DEF BlocksInOrder
<1>2. CASE startBlock <= block /\ block < endBlock
  <2>1. pool.lastRewardBlock <= block
    BY <1>1, <1>2
  <2>2. Multiplier = block - pool.lastRewardBlock
    BY <1>1, <1>2, <2>1 DEF Multiplier
  <2>3. Multiplier' = block + 1 - pool.lastRewardBlock
    BY <1>1, <1>2, <2>1 DEF Multiplier
  <2>4. L!Ahead = endBlock - block /\ L!Ahead' = endBlock - (block + 1)
    BY <1>1, <1>2 DEF L!Ahead
  <2> QED
    BY <1>1, <1>2, <2>2, <2>3, <2>4 DEF BlocksInOrder
<1>3. CASE ~(startBlock <= block /\ block < endBlock)
  <2>1. Multiplier' = Multiplier
    BY <1>1, <1>3 DEF Multiplier
  <2>2. L!Ahead' = L!Ahead /\ L!Ahead \in Nat
    BY <1>1, <1>3 DEF L!Ahead
  <2>3. Multiplier \in Nat
    BY AccumulatorTypes
  <2> QED
    BY <1>1, <1>3, <2>1, <2>2, <2>3 DEF BlocksInOrder
<1> QED
  BY <1>2, <1>3

\* A block brings each token its part of the rate, as the user is entitled to.
LEMMA TickShares ==
    ASSUME Shared, L!TypeOK, L!TypeOK', TokensCounted, TokensCounted', BlocksInOrder, L!Tick,
           UNCHANGED <<pool, rewardPerBlock, endBlock, startBlock, updates, userInfo, paid,
                       deposits, withdrawals, stoppedLate>>
    PROVE  Shared'
<1> DEFINE counts == IF startBlock <= block /\ block < endBlock THEN 1 ELSE 0
           more(v) == counts * ((rewardPerBlock * userInfo[v].amount) * PerToken)
<1>0. /\ rewardPerBlock \in Nat /\ FullScale \in Nat /\ PerToken \in Nat /\ Worth \in Nat
      /\ counts \in Nat /\ Multiplier \in Nat /\ Unit * FullScale \in Nat
      /\ Unit * pool.accRewardPerShare \in Nat
  BY LiquidityTypes, AccumulatorTypes, PoolShared, SupplyType, FullScaleAssumption
<1>1. Multiplier' = Multiplier + counts
  BY TickEffect DEF L!Tick
<1>2. PerToken' = PerToken
  BY DEF PerToken
<1>3. Worth' = Worth + (counts * rewardPerBlock) * FullScale * PerToken
  <2>1. Brought' = Brought + (counts * rewardPerBlock) * FullScale
    <3> HIDE DEF counts
    <3>1. ((Multiplier + counts) * rewardPerBlock) * FullScale
            = (Multiplier * rewardPerBlock) * FullScale + (counts * rewardPerBlock) * FullScale
      BY <1>0
    <3> QED
      BY <1>1, <3>1 DEF Brought
  <2>2. Brought \in Nat /\ (counts * rewardPerBlock) * FullScale \in Nat
    <3> HIDE DEF counts
    <3> QED
      BY <1>0, AccumulatorTypes
  <2> HIDE DEF counts
  <2>3. Brought' * PerToken' = Brought * PerToken + (counts * rewardPerBlock) * FullScale * PerToken
    BY <1>0, <1>2, <2>1, <2>2
  <2>4. Brought * PerToken \in Nat /\ (counts * rewardPerBlock) * FullScale * PerToken \in Nat
    BY <1>0, <2>2
  <2> QED
    BY <1>0, <2>3, <2>4 DEF Worth
<1>4. ASSUME NEW v \in Users
      PROVE  /\ more(v) \in Nat
             /\ Value(v)' = Value(v) + FullScale * more(v)
             /\ entitled'[v] = entitled[v] + more(v)
  <2> DEFINE a == userInfo[v].amount
  <2>1. a \in Nat /\ paid[v] - userInfo[v].rewardDebt \in Int /\ entitled[v] \in Nat
    BY LiquidityTypes
  <2>2. more(v) \in Nat
    BY <1>0, <2>1
  <2>3. Value(v)' = Value(v) + FullScale * more(v)
    <3> HIDE DEF counts
    <3>1. a * (Worth + (counts * rewardPerBlock) * FullScale * PerToken)
            = a * Worth + FullScale * (counts * ((rewardPerBlock * a) * PerToken))
      BY <1>0, <2>1
    <3>2. /\ (Unit * FullScale) * (paid[v] - userInfo[v].rewardDebt) \in Int
          /\ a * Worth \in Int
          /\ FullScale * (counts * ((rewardPerBlock * a) * PerToken)) \in Int
      BY <1>0, <2>1
    <3> QED
      BY <1>3, <3>1, <3>2 DEF Value
  <2>4. entitled'[v] = entitled[v] + more(v)
    <3>1. CASE startBlock <= block /\ block < endBlock /\ pool.balance > 0
      <4>1. pool.balance * PerToken = Unit /\ pool.balance \in Nat \ {0}
        BY <3>1, PoolShared, LiquidityTypes
      <4>2. rewardPerBlock * a \in Nat
        BY <1>0, <2>1
      <4>3. ((rewardPerBlock * a) * Unit) \div pool.balance = (rewardPerBlock * a) * PerToken
        BY <1>0, <4>1, <4>2, ExactShare
      <4>4. entitled'[v] = entitled[v] + (rewardPerBlock * a * Unit) \div pool.balance
        BY <3>1 DEF L!Tick
      <4>5. counts = 1 /\ (rewardPerBlock * a) * PerToken \in Nat
        BY <1>0, <3>1, <4>2
      <4> QED
        BY <4>3, <4>4, <4>5
    <3>2. CASE ~(startBlock <= block /\ block < endBlock /\ pool.balance > 0)
      <4>1. entitled' = entitled
        BY <3>2 DEF L!Tick
      <4>2. counts = 0 \/ PerToken = 0
        BY <3>2, LiquidityTypes DEF PerToken
      <4>3. rewardPerBlock * a \in Nat
        BY <1>0, <2>1
      <4>4. more(v) = 0
        <5> HIDE DEF counts
        <5> QED
          BY <1>0, <4>2, <4>3
      <4> QED
        BY <2>1, <4>1, <4>4
    <3> QED
      BY <3>1, <3>2
  <2> QED
    BY <2>2, <2>3, <2>4
<1>5. L!Deposited' = L!Deposited
  BY DEF L!Deposited
<1>6. ASSUME NEW v \in Users, ~stoppedLate
      PROVE  AtMostTheShare(v)' /\ AtLeastTheShare(v)'
  <2>1. AtMostTheShare(v) /\ AtLeastTheShare(v)
    BY <1>6 DEF Shared
  <2>2. /\ Value(v) \in Int /\ FullScale * entitled[v] \in Int /\ FullScale * more(v) \in Int
        /\ FullScale * entitled'[v] = FullScale * entitled[v] + FullScale * more(v)
        /\ (Unit * FullScale) * deposits[v] \in Int /\ (Unit * FullScale) * withdrawals[v] \in Int
        /\ (updates * Unit) * (Tokens[v] + 1) \in Int
    <3>1. more(v) \in Nat /\ entitled'[v] = entitled[v] + more(v)
      BY <1>4
    <3> HIDE DEF more
    <3>2. Value(v) \in Int
      BY ValueType
    <3>3. updates \in Nat /\ Unit \in Nat /\ Tokens[v] + 1 \in Nat
      BY LiquidityTypes, SupplyType, UsersAssumption
    <3>4. (updates * Unit) * (Tokens[v] + 1) \in Int
      BY <3>3
    <3>5. entitled[v] \in Nat /\ deposits[v] \in Nat /\ withdrawals[v] \in Nat
      BY LiquidityTypes
    <3> QED
      BY <1>0, <3>1, <3>2, <3>4, <3>5
  <2> HIDE DEF more
  <2>3. AtMostTheShare(v)'
    BY <1>4, <2>1, <2>2 DEF AtMostTheShare
  <2>4. AtLeastTheShare(v)'
    BY <1>4, <1>5, <2>1, <2>2 DEF AtLeastTheShare
  <2> QED
    BY <2>3, <2>4
<1> QED
  BY <1>6 DEF Shared
-----------------------------------------------------------------------------
(* Types, tokens and blocks.                                                *)

ScriptTypes ==
    /\ starting \in {"idle", "transfer", "waiting", "funded", "done"}
    /\ testing \in {"idle", "mint", "deposit", "look", "advance", "advanced", "exit",
                    "done", "failed"}
    /\ changes \in 0 .. MaxChanges /\ campaigns \in 0 .. MaxCampaigns

\* Pair tokens go from a user to the contract, or back.
LEMMA TokensMoved ==
    ASSUME L!TypeOK, L!TypeOK', TokensCounted, NEW u \in Users, NEW c \in Int,
           pool'.balance = pool.balance + c,
           userInfo'[u].amount = userInfo[u].amount + c,
           \A v \in Users \ {u} : userInfo'[v].amount = userInfo[v].amount,
           wallet' = [wallet EXCEPT ![u] = @ - c],
           Extra' <= Extra
    PROVE  TokensCounted'
<1>1. L!Deposited' = L!Deposited + c
  BY AmountMoved
<1>2. wallet \in [Users -> Nat] /\ wallet' \in [Users -> Nat]
      /\ wallet'[u] = wallet[u] - c /\ \A v \in Users \ {u} : wallet'[v] = wallet[v]
  BY DEF L!TypeOK
<1>3. SumFunction(wallet') = SumFunction(wallet) - wallet[u] + wallet'[u]
  <2>1. \A f, g \in [Users -> Nat] :
           (\A v \in Users \ {u} : g[v] = f[v]) => SumFunction(g) = SumFunction(f) - f[u] + g[u]
    BY SumChange, UsersAssumption
  <2> QED
    BY <1>2, <2>1
<1>4. SumFunction(wallet) \in Nat /\ L!Deposited \in Nat /\ pool.balance \in Nat
      /\ Extra \in Nat /\ Extra' \in Nat /\ L!Supply \in Nat
  BY <1>2, SumIsTotal, UsersAssumption, DepositedType, LiquidityTypes, SupplyType DEF Extra
<1>5. pool'.balance + SumFunction(wallet') + Extra' <= L!Supply
  BY <1>2, <1>3, <1>4 DEF TokensCounted
<1>6. ASSUME NEW v \in Users
      PROVE  wallet'[v] + userInfo'[v].amount + (IF v = tester THEN Extra' ELSE 0) <= Tokens[v] + 1
  <2>1. wallet[v] \in Nat /\ userInfo[v].amount \in Nat /\ Tokens[v] \in Nat
    BY LiquidityTypes, UsersAssumption
  <2>2. wallet'[v] + userInfo'[v].amount = wallet[v] + userInfo[v].amount
    BY <1>2, <2>1
  <2> QED
    BY <1>4, <2>1, <2>2 DEF TokensCounted
<1>7. (L!Deposited <= pool.balance)'
  BY <1>1, <1>4 DEF TokensCounted
<1> QED
  BY <1>5, <1>6, <1>7 DEF TokensCounted

\* No pair token moves.
LEMMA TokensStill ==
    ASSUME L!TypeOK, TokensCounted, UNCHANGED wallet, pool'.balance = pool.balance,
           \A v \in Users : userInfo'[v].amount = userInfo[v].amount,
           Extra' <= Extra
    PROVE  TokensCounted' /\ L!Deposited' = L!Deposited
<1>1. L!Deposited' = L!Deposited
  BY DEF L!Deposited
<1>2. SumFunction(wallet) \in Nat
  BY SumIsTotal, UsersAssumption DEF L!TypeOK
<1>3. pool.balance \in Nat /\ Extra \in Nat /\ Extra' \in Nat /\ L!Supply \in Nat
  BY LiquidityTypes, SupplyType DEF Extra
<1>4. pool'.balance + SumFunction(wallet') + Extra' <= L!Supply
  BY <1>2, <1>3 DEF TokensCounted
<1>5. ASSUME NEW v \in Users
      PROVE  wallet'[v] + userInfo'[v].amount + (IF v = tester THEN Extra' ELSE 0) <= Tokens[v] + 1
  BY <1>3, LiquidityTypes, UsersAssumption DEF TokensCounted
<1> QED
  BY <1>1, <1>4, <1>5 DEF TokensCounted

\* What a deposit does, in numbers.
LEMMA DepositEffect ==
    ASSUME L!TypeOK, BlocksInOrder, ScriptTypes',
           NEW u \in Users, NEW x \in Nat, L!deposit(u, x),
           UNCHANGED <<block, rewardPerBlock, endBlock, startBlock, entitled, stoppedLate>>
    PROVE  /\ Moved(u, x, MulTruncate(x, Accumulated), 0)
           /\ L!TypeOK' /\ BlocksInOrder'
<1> DEFINE q == MulTruncate(x, Accumulated)
<1>1. q \in Nat
  BY AccumulatorTypes, MulTruncateBounds
<1>2. L!Update(x) /\ L!Indebt(u, x, q)
  <2>1. L!updatePool.accRewardPerShare = Accumulated
    BY PoolNow
  <2>2. L!MulTruncate(x, L!updatePool.accRewardPerShare) = q
    BY <2>1 DEF L!MulTruncate, MulTruncate
  <2> QED
    BY <2>2 DEF L!deposit
<1>3. /\ Updated /\ pool'.balance = pool.balance + x /\ BlocksInOrder'
  BY <1>2, UpdateEffect, LiquidityTypes
<1>4. x <= wallet[u] /\ reward' = reward /\ paid' = paid /\ withdrawals' = withdrawals
      /\ wallet' = [wallet EXCEPT ![u] = @ - x] /\ deposits' = [deposits EXCEPT ![u] = @ + 1]
  BY DEF L!deposit
<1>5. Moved(u, x, q, 0)
  <2>1. reward' = reward - 0 /\ paid' = [paid EXCEPT ![u] = @ + 0]
    BY <1>4 DEF L!TypeOK
  <2> QED
    BY <1>2, <1>3, <2>1 DEF Moved, L!Indebt
<1>6. userInfo' \in [Users -> [amount : Nat, rewardDebt : Int]] /\ totalRewardDebt' \in Int
  BY <1>1, <1>2 DEF L!Indebt, L!TypeOK
<1>7. pool' \in [balance : Nat, lastRewardBlock : Nat, accRewardPerShare : Nat] /\ updates' \in Nat
  BY <1>3, LiquidityTypes DEF Updated
<1>8. wallet' \in [Users -> Nat] /\ deposits' \in [Users -> Nat]
  BY <1>4 DEF L!TypeOK
<1> QED
  BY <1>3, <1>4, <1>5, <1>6, <1>7, <1>8 DEF L!TypeOK, ScriptTypes

\* What a withdrawal does, in numbers.
LEMMA WithdrawEffect ==
    ASSUME L!TypeOK, TokensCounted, BlocksInOrder, ScriptTypes',
           NEW u \in Users, NEW x \in 0 .. userInfo[u].amount, NEW claiming \in BOOLEAN,
           L!withdraw(u, x, claiming),
           UNCHANGED <<block, rewardPerBlock, endBlock, startBlock, entitled, stoppedLate>>
    PROVE  LET pay == IF claiming THEN L!Pending(u) ELSE 0
           IN  /\ pay \in 0 .. reward
               /\ Moved(u, -x, pay - MulTruncate(x, Accumulated), pay)
               /\ L!TypeOK' /\ BlocksInOrder'
<1> DEFINE q == MulTruncate(x, Accumulated)
           pay == IF claiming THEN L!Pending(u) ELSE 0
<1>0. x \in Nat /\ userInfo[u].amount \in Nat
  BY LiquidityTypes
<1>1. q \in Nat /\ x \in Nat /\ userInfo[u].amount \in Nat
  BY <1>0, AccumulatorTypes, MulTruncateBounds
<1>2. pay \in Int
  BY PendingNow
<1>3. L!Update(-x) /\ L!Indebt(u, -x, pay - q) /\ L!Pay(u, pay) /\ 0 <= pay /\ pay <= reward
  <2>1. L!updatePool.accRewardPerShare = Accumulated
    BY PoolNow
  <2>2. L!MulTruncate(x, L!updatePool.accRewardPerShare) = q
    BY <2>1 DEF L!MulTruncate, MulTruncate
  <2>3. (IF claiming THEN L!Owed(u, L!updatePool) ELSE 0) = pay
    BY PendingNow
  <2> QED
    BY <2>2, <2>3 DEF L!withdraw
<1>4. pool.balance + (-x) \in Nat
  <2> DEFINE amounts == [v \in Users |-> userInfo[v].amount]
  <2>1. amounts \in [Users -> Nat] /\ L!Deposited = SumFunction(amounts) /\ L!Deposited \in Nat
    BY DepositedType
  <2>2. amounts[u] <= SumFunction(amounts)
    BY <2>1, SumBoundsPoint, UsersAssumption
  <2> QED
    BY <1>1, <2>1, <2>2, LiquidityTypes DEF TokensCounted
<1>5. /\ Updated /\ pool'.balance = pool.balance + (-x) /\ BlocksInOrder'
  BY <1>1, <1>3, <1>4, UpdateEffect, LiquidityTypes
<1>6. /\ wallet' = [wallet EXCEPT ![u] = @ + x]
      /\ withdrawals' = [withdrawals EXCEPT ![u] = @ + 1] /\ deposits' = deposits
  BY DEF L!withdraw
<1>7. Moved(u, -x, pay - q, pay)
  BY <1>3, <1>5 DEF Moved, L!Indebt, L!Pay
<1>8. userInfo' \in [Users -> [amount : Nat, rewardDebt : Int]] /\ totalRewardDebt' \in Int
  <2>1. userInfo[u].amount + (-x) \in Nat /\ userInfo[u].rewardDebt + (pay - q) \in Int
    BY <1>1, <1>2, LiquidityTypes
  <2>2. userInfo' = [userInfo EXCEPT ![u] = [amount |-> userInfo[u].amount + (-x),
                                             rewardDebt |-> userInfo[u].rewardDebt + (pay - q)]]
    BY <1>3 DEF L!Indebt
  <2>3. totalRewardDebt' = totalRewardDebt + (pay - q)
    BY <1>3 DEF L!Indebt
  <2> QED
    BY <1>1, <1>2, <2>1, <2>2, <2>3 DEF L!TypeOK
<1>9. pool' \in [balance : Nat, lastRewardBlock : Nat, accRewardPerShare : Nat] /\ updates' \in Nat
  BY <1>5, LiquidityTypes DEF Updated
<1>10. /\ wallet' \in [Users -> Nat] /\ withdrawals' \in [Users -> Nat] /\ deposits' \in [Users -> Nat]
       /\ reward' \in Nat /\ paid' \in [Users -> Nat]
  BY <1>1, <1>2, <1>3, <1>6 DEF L!TypeOK, L!Pay
<1> QED
  BY <1>2, <1>3, <1>5, <1>7, <1>8, <1>9, <1>10, LiquidityTypes DEF L!TypeOK, ScriptTypes
-----------------------------------------------------------------------------
(* Debts, and what the contract can pay.                                    *)

Plus(k) == IF k > 0 THEN k ELSE 0

\* The contract's tokens that nobody deposited, and what updates round for them.
Given == pool.balance - L!Deposited
Rounding == IF pool.balance = L!Deposited THEN 0 ELSE updates * L!Supply

\* What the next update brings at most, as nobody need have sent tokens when a
\* user claims.
MostPerShare == IF L!Deposited = 0 THEN 0 ELSE Brought \div L!Deposited

\* A user's debt is no more than the shares of their tokens, but for what
\* withdrawals round and for claims before tokens were sent to the contract, which
\* then count blocks the pool had not counted yet, at more than they brought.
Exceeding(u) ==
    FullScale * userInfo[u].rewardDebt
      - (userInfo[u].amount * (pool.accRewardPerShare + MostPerShare) + FullScale * withdrawals[u])
Excess == [u \in Users |-> Plus(Exceeding(u))]

DebtsCounted ==
    totalRewardDebt = SumFunction([u \in Users |-> Plus(userInfo[u].rewardDebt)])
                        - SumFunction([u \in Users |-> Plus(-userInfo[u].rewardDebt)])

NewcomersOweNothing ==
    \A u \in Users : deposits[u] = 0 => userInfo[u].amount = 0 /\ userInfo[u].rewardDebt = 0

ExcessBounded == SumFunction(Excess) <= Given * pool.accRewardPerShare + Rounding

\* The reward covers what is owed and what the campaign is still to bring.
RewardCovers ==
    L!Deposited * pool.accRewardPerShare + SumFunction(Excess)
        + Brought + FullScale * (rewardPerBlock * L!Ahead)
      <= FullScale * reward + FullScale * SumFunction(deposits) + Rounding
           + FullScale * totalRewardDebt

Payable == ~stoppedLate => ExcessBounded /\ RewardCovers

\* The positive part of a number is not below it.
LEMMA PlusBounds ==
    ASSUME NEW k \in Int
    PROVE  Plus(k) \in Nat /\ k <= Plus(k)
  BY DEF Plus

\* The positive part of a sum is no more than the positive part of one and the other.
LEMMA PlusMonotone ==
    ASSUME NEW k \in Int, NEW m \in Nat, NEW n \in Int, k <= m + n
    PROVE  Plus(k) <= m + Plus(n)
  BY DEF Plus

\* The amounts Payable compares are numbers.
LEMMA ExcessTypes ==
    ASSUME L!TypeOK, TokensCounted
    PROVE  /\ Given \in Nat /\ Rounding \in Nat /\ MostPerShare \in Nat
           /\ \A u \in Users : Exceeding(u) \in Int
           /\ Excess \in [Users -> Nat] /\ SumFunction(Excess) \in Nat
           /\ SumFunction(deposits) \in Nat /\ L!Deposited \in Nat /\ Brought \in Nat
           /\ FullScale \in Nat \ {0}
<1>1. L!Deposited \in Nat /\ pool.balance \in Nat /\ Brought \in Nat /\ FullScale \in Nat \ {0}
      /\ pool.accRewardPerShare \in Nat /\ updates \in Nat /\ L!Supply \in Nat
  BY DepositedType, LiquidityTypes, AccumulatorTypes, FullScaleAssumption, SupplyType
<1>2. Given \in Nat
  BY <1>1 DEF Given, TokensCounted
<1>3. Rounding \in Nat
  BY <1>1 DEF Rounding
<1>4. MostPerShare \in Nat
  <2>1. ASSUME L!Deposited # 0 PROVE Brought \div L!Deposited \in Nat
    BY <1>1, <2>1, RoundedOnce
  <2> QED
    BY <2>1 DEF MostPerShare
<1>5. ASSUME NEW u \in Users PROVE Exceeding(u) \in Int
  <2>1. userInfo[u].amount \in Nat /\ userInfo[u].rewardDebt \in Int /\ withdrawals[u] \in Nat
    BY LiquidityTypes
  <2>2. /\ FullScale * userInfo[u].rewardDebt \in Int /\ FullScale * withdrawals[u] \in Int
        /\ userInfo[u].amount * (pool.accRewardPerShare + MostPerShare) \in Int
    BY <1>1, <1>4, <2>1
  <2> QED
    BY <2>2 DEF Exceeding
<1>6. Excess \in [Users -> Nat]
  BY <1>5, PlusBounds DEF Excess
<1>7. SumFunction(Excess) \in Nat
  BY <1>6, SumIsTotal, UsersAssumption
<1>8. SumFunction(deposits) \in Nat
  BY SumIsTotal, UsersAssumption DEF L!TypeOK
<1> QED
  BY <1>1, <1>2, <1>3, <1>4, <1>5, <1>6, <1>7, <1>8

\* So is the number of blocks ahead.
LEMMA AheadType ==
    L!TypeOK /\ BlocksInOrder => L!Ahead \in Nat
  BY LiquidityTypes DEF L!Ahead, BlocksInOrder

\* After a step, too.
LEMMA AheadTypeNext ==
    (L!TypeOK /\ BlocksInOrder => L!Ahead \in Nat)'
  BY AheadType, PTL

\* The same as an implication.
LEMMA ExcessTypesAlways ==
    L!TypeOK /\ TokensCounted =>
       /\ Given \in Nat /\ Rounding \in Nat /\ MostPerShare \in Nat
       /\ \A u \in Users : Exceeding(u) \in Int
       /\ Excess \in [Users -> Nat] /\ SumFunction(Excess) \in Nat
       /\ SumFunction(deposits) \in Nat /\ L!Deposited \in Nat /\ Brought \in Nat
  BY ExcessTypes

\* They are after a step, too.
LEMMA ExcessTypesNext ==
    (L!TypeOK /\ TokensCounted =>
       /\ Given \in Nat /\ Rounding \in Nat /\ MostPerShare \in Nat
       /\ \A u \in Users : Exceeding(u) \in Int
       /\ Excess \in [Users -> Nat] /\ SumFunction(Excess) \in Nat
       /\ SumFunction(deposits) \in Nat /\ L!Deposited \in Nat /\ Brought \in Nat)'
  BY ExcessTypesAlways, PTL

\* The debts of one user change with their total.
LEMMA DebtMoved ==
    ASSUME L!TypeOK, L!TypeOK', DebtsCounted, NEW u \in Users, NEW d \in Int,
           userInfo'[u].rewardDebt = userInfo[u].rewardDebt + d,
           \A v \in Users \ {u} : userInfo'[v].rewardDebt = userInfo[v].rewardDebt,
           totalRewardDebt' = totalRewardDebt + d
    PROVE  DebtsCounted'
<1> DEFINE p == [v \in Users |-> Plus(userInfo[v].rewardDebt)]
           n == [v \in Users |-> Plus(-userInfo[v].rewardDebt)]
           p1 == [v \in Users |-> Plus(userInfo'[v].rewardDebt)]
           n1 == [v \in Users |-> Plus(-userInfo'[v].rewardDebt)]
<1>1. \A v \in Users : userInfo[v].rewardDebt \in Int /\ userInfo'[v].rewardDebt \in Int
                       /\ -userInfo[v].rewardDebt \in Int /\ -userInfo'[v].rewardDebt \in Int
  BY DEF L!TypeOK
<1>2. p \in [Users -> Nat] /\ n \in [Users -> Nat] /\ p1 \in [Users -> Nat] /\ n1 \in [Users -> Nat]
  BY <1>1, PlusBounds
<1>3. \A v \in Users \ {u} : p1[v] = p[v] /\ n1[v] = n[v]
  OBVIOUS
<1>4. p[u] - n[u] = userInfo[u].rewardDebt /\ p1[u] - n1[u] = userInfo[u].rewardDebt + d
  BY <1>1 DEF Plus
<1>5. totalRewardDebt = SumFunction(p) - SumFunction(n)
  BY DEF DebtsCounted
<1> HIDE DEF p, n, p1, n1
<1>6. SumFunction(p1) = SumFunction(p) - p[u] + p1[u] /\ SumFunction(n1) = SumFunction(n) - n[u] + n1[u]
  BY <1>2, <1>3, SumChange, UsersAssumption
<1>7. SumFunction(p) \in Nat /\ SumFunction(n) \in Nat /\ p[u] \in Nat /\ n[u] \in Nat
      /\ p1[u] \in Nat /\ n1[u] \in Nat /\ userInfo[u].rewardDebt \in Int
  BY <1>1, <1>2, SumIsTotal, UsersAssumption
<1>8. totalRewardDebt' = SumFunction(p1) - SumFunction(n1)
  BY <1>4, <1>5, <1>6, <1>7
<1> QED
  BY <1>8 DEF DebtsCounted, p1, n1

\* A user's debt after an update.
Settling(u) ==
    FullScale * userInfo[u].rewardDebt
      - (userInfo[u].amount * Accumulated + FullScale * withdrawals[u])
Settled == [u \in Users |-> Plus(Settling(u))]

\* A user's shares by the next update are no more than the most they may bring.
LEMMA IncrementBounded ==
    ASSUME L!TypeOK, TokensCounted, NEW v \in Users
    PROVE  userInfo[v].amount * Accumulated
             <= userInfo[v].amount * (pool.accRewardPerShare + MostPerShare)
<1>1. /\ L!Deposited \in Nat /\ pool.balance \in Nat /\ Brought \in Nat /\ MostPerShare \in Nat
      /\ Accumulated \in Nat /\ pool.accRewardPerShare \in Nat /\ Increment \in Nat
      /\ userInfo[v].amount \in Nat
  BY ExcessTypes, LiquidityTypes, AccumulatorTypes
<1>2. CASE L!Deposited = 0
  <2>1. userInfo[v].amount = 0
    BY <1>2, NothingDeposited
  <2> QED
    BY <1>1, <2>1
<1>3. CASE L!Deposited # 0
  <2>1. L!Deposited <= pool.balance /\ pool.balance # 0
    BY <1>1, <1>3 DEF TokensCounted
  <2>2. Increment = Brought \div pool.balance /\ MostPerShare = Brought \div L!Deposited
    BY <1>3, <2>1 DEF Increment, MostPerShare
  <2>3. Increment * L!Deposited <= Increment * pool.balance
    BY <1>1, <2>1, TimesMonotone
  <2>4. pool.balance * Increment <= Brought
    BY <1>1, <2>1, <2>2, DivBounds
  <2>5. L!Deposited * Increment <= Brought
    BY <1>1, <2>3, <2>4
  <2>6. Increment <= MostPerShare
    BY <1>1, <1>3, <2>2, <2>5, DivAtLeast
  <2> QED
    BY <1>1, <2>6, TimesMonotone DEF Accumulated
<1> QED
  BY <1>2, <1>3

\* What updates round where nobody deposited all of the contract's tokens.
Rounded == IF pool.balance = L!Deposited THEN 0 ELSE (updates' - updates) * L!Supply

\* An update takes what it brings to those who deposited, and leaves no more excess
\* than it brings to nobody.
LEMMA SettledBounded ==
    ASSUME L!TypeOK, TokensCounted, Updated
    PROVE  /\ Settled \in [Users -> Nat] /\ SumFunction(Settled) \in Nat /\ Rounded \in Nat
           /\ SumFunction(Settled) + L!Deposited * Increment <= SumFunction(Excess) + Brought
           /\ SumFunction(Settled) <= SumFunction(Excess) + Given * Increment + Rounded
<1> DEFINE D == L!Deposited
           B == pool.balance
           k == Increment
           KD == MostPerShare
           amounts == [u \in Users |-> userInfo[u].amount]
           S == SumFunction(Settled)
           E == SumFunction(Excess)
<1>1. /\ D \in Nat /\ B \in Nat /\ Brought \in Nat /\ KD \in Nat /\ k \in Nat
      /\ Given \in Nat /\ Given = B - D /\ D <= B /\ B <= L!Supply /\ L!Supply \in Nat
      /\ E \in Nat /\ Excess \in [Users -> Nat] /\ FullScale \in Nat
  BY ExcessTypes, LiquidityTypes, AccumulatorTypes, PoolShared, SupplyType DEF TokensCounted, Given
<1>2. amounts \in [Users -> Nat] /\ D = SumFunction(amounts)
  BY DepositedType
<1>3. updates' - updates \in Nat /\ (Multiplier # 0 => updates' - updates = 1)
  BY LiquidityTypes DEF Updated
<1>4. Rounded \in Nat /\ (Multiplier # 0 /\ B # D => Rounded = L!Supply)
  <2>1. (updates' - updates) * L!Supply \in Nat
    BY <1>1, <1>3
  <2>2. Multiplier # 0 => (updates' - updates) * L!Supply = L!Supply
    BY <1>1, <1>3
  <2> QED
    BY <2>1, <2>2 DEF Rounded
<1>5. ASSUME NEW v \in Users
      PROVE  Settling(v) \in Int /\ Settling(v) = Exceeding(v) + amounts[v] * (KD - k)
  <2>1. /\ userInfo[v].amount \in Nat /\ pool.accRewardPerShare \in Nat
        /\ FullScale * userInfo[v].rewardDebt \in Int /\ FullScale * withdrawals[v] \in Int
    BY <1>1, LiquidityTypes
  <2>2. userInfo[v].amount * (pool.accRewardPerShare + KD)
          = userInfo[v].amount * (pool.accRewardPerShare + k) + userInfo[v].amount * (KD - k)
    BY <1>1, <2>1
  <2>3. /\ userInfo[v].amount * (pool.accRewardPerShare + k) \in Int
        /\ userInfo[v].amount * (KD - k) \in Int
    BY <1>1, <2>1
  <2> HIDE DEF KD, k
  <2> QED
    BY <2>1, <2>2, <2>3 DEF Settling, Exceeding, Accumulated, KD, k
<1>6. Settled \in [Users -> Nat] /\ S \in Nat
  <2>1. Settled \in [Users -> Nat]
    BY <1>5, PlusBounds DEF Settled
  <2> QED
    BY <2>1, SumIsTotal, UsersAssumption
<1>7. CASE D = 0
  <2>1. ASSUME NEW v \in Users PROVE Settled[v] <= Excess[v]
    <3>1. amounts[v] = 0
      BY <1>7, NothingDeposited
    <3>2. amounts[v] * (KD - k) = 0
      BY <1>1, <3>1
    <3>3. Settling(v) = Exceeding(v)
      BY <1>5, <3>2, ExcessTypes
    <3> QED
      BY <3>3, <1>1 DEF Settled, Excess
  <2>2. S <= E
    BY <1>1, <1>6, <2>1, SumMonotone, UsersAssumption
  <2>3. D * k = 0 /\ Given * k \in Nat
    BY <1>1, <1>7
  <2> HIDE DEF S, E, D, k
  <2>4. S + D * k <= E + Brought
    BY <1>1, <1>6, <2>2, <2>3
  <2>5. S <= E + Given * k + Rounded
    BY <1>1, <1>4, <1>6, <2>2, <2>3
  <2> QED
    BY <1>4, <1>6, <2>4, <2>5 DEF S, E, D, k
<1>8. CASE D # 0
  <2>1. k = Brought \div B /\ KD = Brought \div D /\ B \in Nat \ {0} /\ D \in Nat \ {0}
    BY <1>1, <1>8 DEF Increment, MostPerShare
  <2>2. B * k <= Brought /\ Brought < B * (k + 1) /\ D * KD <= Brought
    <3> HIDE DEF B, D, k, KD
    <3>1. B * (Brought \div B) <= Brought /\ Brought < B * ((Brought \div B) + 1)
      BY <1>1, <2>1, DivBounds
    <3>2. D * (Brought \div D) <= Brought
      BY <1>1, <2>1, DivBounds
    <3> QED
      BY <2>1, <3>1, <3>2
  <2>3. k <= KD
    <3>1. k * D <= k * B
      BY <1>1, TimesMonotone
    <3>2. D * k <= Brought
      BY <1>1, <2>2, <3>1
    <3> QED
      BY <1>1, <2>1, <3>2, DivAtLeast
  <2>4. S <= (KD - k) * D + E
    <3> DEFINE c == KD - k
               more == [v \in Users |-> c * amounts[v] + Excess[v]]
    <3>1. c \in Nat
      BY <1>1, <2>3
    <3>2. \A v \in Users : c * amounts[v] \in Nat /\ Excess[v] \in Nat /\ amounts[v] \in Nat
      BY <1>1, <1>2, <3>1
    <3>3. more \in [Users -> Nat]
      BY <3>2
    <3>4. SumFunction(more) = c * D + E
      <4>1. \A v \in Users : more[v] = c * amounts[v] + Excess[v]
        OBVIOUS
      <4> HIDE DEF more, c, amounts
      <4> QED
        BY <1>1, <1>2, <3>1, <3>3, <4>1, SumLinear, UsersAssumption
    <3>5. ASSUME NEW v \in Users PROVE Settled[v] <= more[v]
      <4>1. Settling(v) = Exceeding(v) + c * amounts[v]
        BY <1>1, <1>5, <3>1, <3>2
      <4>2. Exceeding(v) \in Int /\ Settling(v) \in Int
        BY ExcessTypes, <1>5
      <4> HIDE DEF c, amounts
      <4>3. Plus(Settling(v)) <= c * amounts[v] + Plus(Exceeding(v))
        BY <3>2, <4>1, <4>2, PlusMonotone
      <4> QED
        BY <4>3 DEF Settled, Excess
    <3>6. S <= SumFunction(more)
      <4> HIDE DEF more
      <4> QED
        BY <1>6, <3>3, <3>5, SumMonotone, UsersAssumption
    <3> QED
      BY <3>4, <3>6
  <2> HIDE DEF S, E, D, B, k, KD
  <2>5. (KD - k) * D = D * KD - D * k /\ D * KD \in Nat /\ D * k \in Nat
    BY <1>1
  <2>6. S + D * k <= E + Brought
    BY <1>1, <1>6, <2>2, <2>4, <2>5
  <2>7. S <= E + Given * k + Rounded
    <3>1. Given * k = B * k - D * k /\ B * k \in Nat
      BY <1>1
    <3>2. Brought < B * k + B
      BY <1>1, <2>2
    <3>3. CASE B = D
      <4>1. KD = k
        BY <2>1, <3>3
      <4>2. (KD - k) * D = 0
        BY <1>1, <4>1
      <4> QED
        BY <1>1, <1>4, <1>6, <2>4, <2>5, <3>1, <3>3, <4>2
    <3>4. CASE B # D /\ Multiplier # 0
      <4>1. Rounded = L!Supply
        BY <1>4, <3>4 DEF B, D
      <4> QED
        BY <1>1, <1>6, <2>2, <2>4, <2>5, <3>1, <3>2, <4>1
    <3>5. CASE Multiplier = 0
      <4>1. Brought = 0
        BY <3>5, LiquidityTypes, <1>1 DEF Brought
      <4>2. 0 \div D = 0 /\ 0 \div B = 0
        BY <2>1
      <4>3. KD = 0 /\ k = 0
        BY <2>1, <4>1, <4>2
      <4>4. (KD - k) * D = 0 /\ Given * k = 0
        BY <1>1, <4>3
      <4> QED
        BY <1>1, <1>4, <1>6, <2>4, <4>4
    <3> QED
      BY <3>3, <3>4, <3>5
  <2> QED
    BY <1>4, <1>6, <2>6, <2>7 DEF S, E, D, B, k, KD
<1> QED
  BY <1>7, <1>8

\* An update makes the excess count against the accumulator what counted against the
\* blocks it had not counted.
LEMMA UpdatedExcess ==
    ASSUME L!TypeOK, L!TypeOK', TokensCounted, TokensCounted', ExcessBounded,
           Updated, NEW c \in Int,
           pool'.balance = pool.balance + c, L!Deposited' = L!Deposited + c,
           \A v \in Users : Excess'[v] <= Settled[v]
    PROVE  /\ SumFunction(Excess)' <= SumFunction(Settled) /\ ExcessBounded'
           /\ Brought' = 0 /\ Rounding' = Rounding + Rounded
<1>1. /\ Given \in Nat /\ Rounding \in Nat /\ Rounded \in Nat /\ Increment \in Nat
      /\ SumFunction(Excess) \in Nat /\ SumFunction(Settled) \in Nat /\ Settled \in [Users -> Nat]
      /\ pool.accRewardPerShare \in Nat
  BY ExcessTypes, SettledBounded, AccumulatorTypes, LiquidityTypes
<1>2. Excess' \in [Users -> Nat] /\ SumFunction(Excess)' \in Nat
  BY ExcessTypesNext
<1>3. SumFunction(Excess)' <= SumFunction(Settled)
  <2>1. \A f, g \in [Users -> Nat] :
           (\A v \in Users : f[v] <= g[v]) => SumFunction(f) <= SumFunction(g)
    BY SumMonotone, UsersAssumption
  <2> QED
    BY <1>1, <1>2, <2>1
<1>4. Brought' = 0
  <2>1. Multiplier' = 0 /\ rewardPerBlock' \in Nat
    BY DEF Updated, L!TypeOK
  <2>2. \A n \in Nat : (0 * n) * FullScale = 0
    BY FullScaleAssumption
  <2> QED
    BY <2>1, <2>2 DEF Brought
<1>5. /\ pool.balance \in Nat /\ L!Deposited \in Nat /\ L!Supply \in Nat
      /\ updates \in Nat /\ updates' \in Nat
  BY LiquidityTypes, DepositedType, SupplyType DEF L!TypeOK
<1>6. Given' = Given
  BY <1>5 DEF Given
<1>7. Rounding' = Rounding + Rounded
  <2>1. pool.balance = L!Deposited <=> (pool.balance = L!Deposited)'
    BY <1>5
  <2>2. updates' * L!Supply = updates * L!Supply + (updates' - updates) * L!Supply
    BY <1>5
  <2>3. L!Supply' = L!Supply
    BY DEF L!Supply
  <2> QED
    BY <2>1, <2>2, <2>3 DEF Rounding, Rounded
<1>8. pool'.accRewardPerShare = pool.accRewardPerShare + Increment
  BY DEF Updated, Accumulated
<1>9. Given * (pool.accRewardPerShare + Increment)
        = Given * pool.accRewardPerShare + Given * Increment
      /\ Given * pool.accRewardPerShare \in Nat /\ Given * Increment \in Nat
  BY <1>1
<1>10. SumFunction(Settled) <= SumFunction(Excess) + Given * Increment + Rounded
  BY SettledBounded
<1>11. SumFunction(Excess)' <= Given * (pool.accRewardPerShare + Increment) + (Rounding + Rounded)
  BY <1>1, <1>2, <1>3, <1>9, <1>10 DEF ExcessBounded
<1>12. ExcessBounded'
  BY <1>6, <1>7, <1>8, <1>11 DEF ExcessBounded
<1> QED
  BY <1>3, <1>4, <1>7, <1>12

\* An update keeps what can be paid, if deposits and campaign pay for what they add.
LEMMA UpdatedPayable ==
    ASSUME L!TypeOK, L!TypeOK', TokensCounted, TokensCounted', BlocksInOrder, BlocksInOrder',
           Payable, stoppedLate => stoppedLate', Updated, NEW c \in Int,
           pool'.balance = pool.balance + c, L!Deposited' = L!Deposited + c,
           \A v \in Users : Excess'[v] <= Settled[v],
           c * Accumulated + FullScale * (rewardPerBlock' * L!Ahead')
               + FullScale * reward + FullScale * SumFunction(deposits) + FullScale * totalRewardDebt
             <= FullScale * (rewardPerBlock * L!Ahead)
                  + FullScale * reward' + FullScale * SumFunction(deposits') + FullScale * totalRewardDebt'
    PROVE  Payable'
<1>1. SUFFICES ASSUME ~stoppedLate, ~stoppedLate', ExcessBounded, RewardCovers
               PROVE  ExcessBounded' /\ RewardCovers'
  BY DEF Payable
<1>2. /\ SumFunction(Excess)' <= SumFunction(Settled) /\ ExcessBounded'
      /\ Brought' = 0 /\ Rounding' = Rounding + Rounded
  BY <1>1, UpdatedExcess
<1>3. SumFunction(Settled) + L!Deposited * Increment <= SumFunction(Excess) + Brought
      /\ SumFunction(Settled) \in Nat /\ Rounded \in Nat
  BY SettledBounded
<1>4. /\ L!Deposited \in Nat /\ Increment \in Nat /\ Accumulated \in Nat /\ FullScale \in Nat
      /\ pool.accRewardPerShare \in Nat /\ Accumulated = pool.accRewardPerShare + Increment
      /\ Rounding \in Nat /\ SumFunction(Excess) \in Nat /\ Brought \in Nat
      /\ SumFunction(deposits) \in Nat /\ reward \in Nat /\ totalRewardDebt \in Int
      /\ rewardPerBlock \in Nat /\ L!Ahead \in Nat
  BY ExcessTypes, AccumulatorTypes, LiquidityTypes, AheadType DEF Accumulated
<1>5. /\ SumFunction(deposits)' \in Nat /\ reward' \in Nat /\ totalRewardDebt' \in Int
      /\ rewardPerBlock' \in Nat /\ L!Ahead' \in Nat /\ SumFunction(Excess)' \in Nat
  BY ExcessTypesNext, AheadTypeNext DEF L!TypeOK
<1>6. (L!Deposited + c) * Accumulated
        = L!Deposited * pool.accRewardPerShare + L!Deposited * Increment + c * Accumulated
  BY <1>4
<1>7. /\ L!Deposited * pool.accRewardPerShare \in Nat /\ L!Deposited * Increment \in Nat
      /\ c * Accumulated \in Int
      /\ FullScale * (rewardPerBlock * L!Ahead) \in Int /\ FullScale * reward \in Int
      /\ FullScale * SumFunction(deposits) \in Int /\ FullScale * totalRewardDebt \in Int
  BY <1>4
<1>8. /\ FullScale * (rewardPerBlock' * L!Ahead') \in Int /\ FullScale * reward' \in Int
      /\ FullScale * SumFunction(deposits)' \in Int /\ FullScale * totalRewardDebt' \in Int
  BY <1>4, <1>5
<1>9. (L!Deposited + c) * Accumulated + SumFunction(Excess)' + 0
          + FullScale * (rewardPerBlock' * L!Ahead')
        <= FullScale * reward' + FullScale * SumFunction(deposits)' + (Rounding + Rounded)
             + FullScale * totalRewardDebt'
  BY <1>1, <1>2, <1>3, <1>4, <1>5, <1>6, <1>7, <1>8 DEF RewardCovers
<1>10. pool'.accRewardPerShare = Accumulated
  BY DEF Updated
<1>11. RewardCovers'
  BY <1>2, <1>9, <1>10 DEF RewardCovers
<1> QED
  BY <1>2, <1>11

\* Right after an update nothing is to be counted.
LEMMA ExceedingUpdated ==
    ASSUME L!TypeOK, L!TypeOK', TokensCounted', Updated, NEW v \in Users
    PROVE  Exceeding(v)' = FullScale * userInfo'[v].rewardDebt
                             - (userInfo'[v].amount * Accumulated + FullScale * withdrawals'[v])
<1>1. Multiplier' = 0 /\ rewardPerBlock' \in Nat /\ pool'.accRewardPerShare = Accumulated
  BY DEF Updated, L!TypeOK
<1>2. \A n \in Nat : (0 * n) * FullScale = 0
  BY FullScaleAssumption
<1>3. Brought' = 0
  BY <1>1, <1>2 DEF Brought
<1>4. L!Deposited' \in Nat
  BY ExcessTypesNext
<1>5. MostPerShare' = 0
  <2>1. \A n \in Nat \ {0} : 0 \div n = 0
    OBVIOUS
  <2> QED
    BY <1>3, <1>4, <2>1 DEF MostPerShare
<1>6. Accumulated + 0 = Accumulated
  BY AccumulatorTypes
<1> QED
  BY <1>1, <1>5, <1>6 DEF Exceeding

\* So does an update with a user's deposit or withdrawal, whose debt pays for it.
LEMMA MovedPayable ==
    ASSUME L!TypeOK, L!TypeOK', TokensCounted, TokensCounted', BlocksInOrder, BlocksInOrder', Payable,
           NEW u \in Users, NEW c \in Int, NEW d \in Int, NEW pay \in Int, Moved(u, c, d, pay),
           \A v \in Users \ {u} : deposits'[v] = deposits[v] /\ withdrawals'[v] = withdrawals[v],
           \/ Exceeding(u)' <= Settling(u)
           \/ Exceeding(u)' <= 0,
           c * Accumulated <= FullScale * (d - pay + (deposits'[u] - deposits[u]))
    PROVE  Payable'
<1>1. Updated /\ pool'.balance = pool.balance + c
  BY DEF Moved
<1>2. L!Deposited' = L!Deposited + c
  <2>1. /\ userInfo'[u].amount = userInfo[u].amount + c
        /\ \A v \in Users \ {u} : userInfo'[v].amount = userInfo[v].amount
    BY DEF Moved, L!TypeOK
  <2> QED
    BY <2>1, AmountMoved
<1>3. ASSUME NEW v \in Users PROVE Excess'[v] <= Settled[v]
  <2>1. Exceeding(v)' \in Int /\ Settling(v) \in Int
    <3>1. /\ userInfo[v].amount \in Nat /\ Accumulated \in Nat /\ FullScale \in Nat
          /\ userInfo[v].rewardDebt \in Int /\ withdrawals[v] \in Nat
      BY LiquidityTypes, AccumulatorTypes, FullScaleAssumption
    <3>2. /\ userInfo[v].amount * Accumulated \in Int /\ FullScale * userInfo[v].rewardDebt \in Int
          /\ FullScale * withdrawals[v] \in Int
      BY <3>1
    <3> QED
      BY <3>2, ExcessTypesNext DEF Settling
  <2>2. CASE v = u
    BY <2>1, <2>2 DEF Excess, Settled, Plus
  <2>3. CASE v # u
    <3>1. userInfo'[v] = userInfo[v] /\ withdrawals'[v] = withdrawals[v]
      BY <2>3 DEF Moved, L!TypeOK
    <3>2. Exceeding(v)' = Settling(v)
      BY <1>1, <3>1, ExceedingUpdated DEF Settling
    <3> QED
      BY <2>1, <3>2 DEF Excess, Settled, Plus
  <2> QED
    BY <2>2, <2>3
<1>4. SumFunction(deposits') = SumFunction(deposits) + (deposits'[u] - deposits[u])
  <2>1. \A f, g \in [Users -> Nat] :
           (\A v \in Users \ {u} : g[v] = f[v]) => SumFunction(g) = SumFunction(f) - f[u] + g[u]
    BY SumChange, UsersAssumption
  <2>2. deposits \in [Users -> Nat] /\ deposits' \in [Users -> Nat]
    BY DEF L!TypeOK
  <2>3. deposits[u] \in Nat /\ deposits'[u] \in Nat /\ SumFunction(deposits) \in Nat
    BY <2>2, SumIsTotal, UsersAssumption
  <2>4. SumFunction(deposits') = SumFunction(deposits) - deposits[u] + deposits'[u]
    BY <2>1, <2>2
  <2> QED
    BY <2>3, <2>4
<1>5. c * Accumulated + FullScale * (rewardPerBlock' * L!Ahead')
          + FullScale * reward + FullScale * SumFunction(deposits) + FullScale * totalRewardDebt
        <= FullScale * (rewardPerBlock * L!Ahead)
             + FullScale * reward' + FullScale * SumFunction(deposits') + FullScale * totalRewardDebt'
  <2> DEFINE more == deposits'[u] - deposits[u]
  <2>1. rewardPerBlock' = rewardPerBlock /\ L!Ahead' = L!Ahead
    BY DEF Moved, L!Ahead
  <2>2. reward' = reward - pay /\ totalRewardDebt' = totalRewardDebt + d
    BY DEF Moved
  <2>3. /\ reward \in Nat /\ totalRewardDebt \in Int /\ SumFunction(deposits) \in Nat
        /\ more \in Int /\ FullScale \in Nat /\ Accumulated \in Nat
        /\ L!Ahead \in Nat /\ rewardPerBlock \in Nat
    BY LiquidityTypes, ExcessTypes, AccumulatorTypes, AheadType DEF L!TypeOK
  <2> HIDE DEF more
  <2>4. /\ FullScale * (reward - pay) = FullScale * reward - FullScale * pay
        /\ FullScale * (totalRewardDebt + d) = FullScale * totalRewardDebt + FullScale * d
        /\ FullScale * (SumFunction(deposits) + more) = FullScale * SumFunction(deposits) + FullScale * more
        /\ FullScale * (d - pay + more) = FullScale * d - FullScale * pay + FullScale * more
    BY <2>3
  <2>5. /\ FullScale * reward \in Int /\ FullScale * pay \in Int /\ FullScale * totalRewardDebt \in Int
        /\ FullScale * d \in Int /\ FullScale * SumFunction(deposits) \in Int
        /\ FullScale * more \in Int /\ c * Accumulated \in Int
        /\ FullScale * (rewardPerBlock * L!Ahead) \in Int
    BY <2>3
  <2>6. c * Accumulated <= FullScale * (d - pay + more)
    BY DEF more
  <2>7. SumFunction(deposits') = SumFunction(deposits) + more
    BY <1>4 DEF more
  <2> QED
    BY <2>1, <2>2, <2>4, <2>5, <2>6, <2>7
<1>6. stoppedLate => stoppedLate'
  BY DEF Moved
<1> QED
  BY <1>1, <1>2, <1>3, <1>5, <1>6, UpdatedPayable

\* A deposit adds a debt for what its tokens would have brought, rounded once.
LEMMA DepositPayable ==
    ASSUME L!TypeOK, L!TypeOK', TokensCounted, TokensCounted', BlocksInOrder, BlocksInOrder', Payable,
           NEW u \in Users, NEW x \in Nat, Moved(u, x, MulTruncate(x, Accumulated), 0),
           deposits' = [deposits EXCEPT ![u] = @ + 1], UNCHANGED withdrawals
    PROVE  Payable'
<1> DEFINE a == userInfo[u].amount
           q == MulTruncate(x, Accumulated)
           acc == Accumulated
<1>1. /\ a \in Nat /\ acc \in Nat /\ FullScale \in Nat \ {0} /\ x * acc \in Nat
      /\ userInfo[u].rewardDebt \in Int /\ withdrawals[u] \in Nat
  BY LiquidityTypes, AccumulatorTypes, FullScaleAssumption
<1>2. q \in Nat /\ FullScale * q <= x * acc /\ x * acc < FullScale * (q + 1)
  <2>1. q \in Nat
    BY <1>1, MulTruncateBounds
  <2>2. FullScale * ((x * acc) \div FullScale) <= x * acc
        /\ x * acc < FullScale * (((x * acc) \div FullScale) + 1)
    <3> HIDE DEF acc
    <3> QED
      BY <1>1, DivBounds
  <2> QED
    BY <2>1, <2>2 DEF MulTruncate
<1>3. /\ userInfo'[u].rewardDebt = userInfo[u].rewardDebt + q /\ userInfo'[u].amount = a + x
      /\ deposits'[u] - deposits[u] = 1 /\ withdrawals'[u] = withdrawals[u]
  BY DEF Moved, L!TypeOK
<1>4. Exceeding(u)' = FullScale * (userInfo[u].rewardDebt + q) - ((a + x) * acc + FullScale * withdrawals[u])
  BY <1>3, ExceedingUpdated DEF Moved
<1> HIDE DEF q, a, acc
<1>5. /\ FullScale * (userInfo[u].rewardDebt + q) = FullScale * userInfo[u].rewardDebt + FullScale * q
      /\ (a + x) * acc = a * acc + x * acc
      /\ FullScale * (q + 1) = FullScale * q + FullScale
  BY <1>1, <1>2
<1>6. /\ FullScale * userInfo[u].rewardDebt \in Int /\ FullScale * q \in Int
      /\ a * acc \in Int /\ FullScale * withdrawals[u] \in Int
  BY <1>1, <1>2
<1>7. Exceeding(u)' <= Settling(u)
  BY <1>1, <1>2, <1>4, <1>5, <1>6 DEF Settling, a, acc
<1>8. x * acc <= FullScale * (q - 0 + (deposits'[u] - deposits[u]))
  BY <1>1, <1>2, <1>3
<1>9. \A v \in Users \ {u} : deposits'[v] = deposits[v] /\ withdrawals'[v] = withdrawals[v]
  BY DEF L!TypeOK
<1>10. Payable'
  BY <1>2, <1>7, <1>8, <1>9, MovedPayable DEF acc, q
<1> QED
  BY <1>10

\* A withdrawal takes no more than its tokens have brought, paid or not.
LEMMA WithdrawPayable ==
    ASSUME L!TypeOK, L!TypeOK', TokensCounted, TokensCounted', BlocksInOrder, BlocksInOrder', Payable,
           NEW u \in Users, NEW x \in 0 .. userInfo[u].amount, NEW pay \in Nat, pay \in {0, L!Pending(u)},
           Moved(u, -x, pay - MulTruncate(x, Accumulated), pay),
           withdrawals' = [withdrawals EXCEPT ![u] = @ + 1], UNCHANGED deposits
    PROVE  Payable'
<1> DEFINE a == userInfo[u].amount
           debt == userInfo[u].rewardDebt
           q == MulTruncate(x, Accumulated)
           acc == Accumulated
           full == MulTruncate(a, acc)
<1>0. a \in Nat /\ acc \in Nat /\ FullScale \in Nat \ {0} /\ debt \in Int /\ withdrawals[u] \in Nat
  BY LiquidityTypes, AccumulatorTypes, FullScaleAssumption
<1>1. x \in Nat /\ x * acc \in Nat /\ a * acc \in Nat
  BY <1>0
<1>2. /\ q \in Nat /\ FullScale * q <= x * acc /\ x * acc < FullScale * (q + 1)
      /\ full \in Nat /\ FullScale * full <= a * acc
  <2>1. q \in Nat /\ full \in Nat
    BY <1>0, <1>1, MulTruncateBounds
  <2> HIDE DEF acc, a
  <2>2. /\ FullScale * ((x * acc) \div FullScale) <= x * acc
        /\ x * acc < FullScale * (((x * acc) \div FullScale) + 1)
        /\ FullScale * ((a * acc) \div FullScale) <= a * acc
    BY <1>0, <1>1, DivBounds
  <2> QED
    BY <2>1, <2>2 DEF MulTruncate, acc
<1>3. /\ userInfo'[u].rewardDebt = debt + (pay - q) /\ userInfo'[u].amount = a + (-x)
      /\ deposits'[u] - deposits[u] = 0 /\ withdrawals'[u] = withdrawals[u] + 1
  BY DEF Moved, L!TypeOK
<1>4. Exceeding(u)' = FullScale * (debt + (pay - q))
                        - ((a + (-x)) * acc + FullScale * (withdrawals[u] + 1))
  BY <1>3, ExceedingUpdated DEF Moved
<1>5. pay = 0 \/ pay = full - debt
  BY PendingNow
<1> HIDE DEF q, a, acc, debt, full
<1>6. /\ FullScale * (debt + (pay - q)) = FullScale * (debt + pay) - FullScale * q
      /\ (a + (-x)) * acc = a * acc - x * acc
      /\ FullScale * (q + 1) = FullScale * q + FullScale
      /\ FullScale * (withdrawals[u] + 1) = FullScale * withdrawals[u] + FullScale
  BY <1>0, <1>1, <1>2
<1>7. /\ FullScale * (debt + pay) \in Int /\ FullScale * q \in Int /\ FullScale * debt \in Int
      /\ FullScale * withdrawals[u] \in Nat
  BY <1>0, <1>1, <1>2
<1>8. ASSUME pay = 0 PROVE Exceeding(u)' <= Settling(u)
  <2>1. FullScale * (debt + pay) = FullScale * debt
    BY <1>0, <1>8
  <2>2. Exceeding(u)' <= Settling(u)
    BY <1>0, <1>1, <1>2, <1>4, <1>6, <1>7, <2>1 DEF Settling, a, acc, debt
  <2> QED
    BY <2>2
<1>9. ASSUME pay = full - debt PROVE Exceeding(u)' <= 0
  <2>1. FullScale * (debt + pay) = FullScale * full /\ FullScale * full \in Int
    <3>1. debt + pay = full
      BY <1>0, <1>2, <1>9
    <3> QED
      BY <1>0, <1>2, <3>1
  <2>2. Exceeding(u)' <= 0
    <3> DEFINE A == a * acc
               X == x * acc
               Q == FullScale * q
               paidOut == FullScale * full
               W == FullScale * withdrawals[u]
    <3>1. Exceeding(u)' = (paidOut - Q) - ((A - X) + (W + FullScale))
      BY <1>4, <1>6, <2>1
    <3>2. paidOut <= A /\ X < Q + FullScale
      BY <1>2, <1>6
    <3>3. A \in Int /\ X \in Int /\ Q \in Int /\ paidOut \in Int /\ W \in Nat /\ FullScale \in Int
      BY <1>0, <1>1, <1>7, <2>1
    <3> HIDE DEF A, X, Q, paidOut, W
    <3> QED
      BY <3>1, <3>2, <3>3
  <2> QED
    BY <2>2
<1>10. (-x) * acc <= FullScale * ((pay - q) - pay + (deposits'[u] - deposits[u]))
  <2>1. (pay - q) - pay + (deposits'[u] - deposits[u]) = -q
    BY <1>2, <1>3
  <2>2. (-x) * acc = -(x * acc) /\ FullScale * (-q) = -(FullScale * q)
    BY <1>0, <1>1, <1>2
  <2> QED
    BY <1>1, <1>2, <1>7, <2>1, <2>2
<1>11. \A v \in Users \ {u} : deposits'[v] = deposits[v] /\ withdrawals'[v] = withdrawals[v]
  BY DEF L!TypeOK
<1>12. -x \in Int /\ pay - q \in Int
  BY <1>1, <1>2
<1>13. Payable'
  BY <1>5, <1>8, <1>9, <1>10, <1>11, <1>12, MovedPayable DEF acc, q
<1> QED
  BY <1>13

\* An update alone leaves deposits and debts.
LEMMA RecountExcess ==
    ASSUME L!TypeOK, L!TypeOK', TokensCounted', Recounted
    PROVE  /\ L!Deposited' = L!Deposited + 0 /\ pool'.balance = pool.balance + 0
           /\ \A v \in Users : Excess'[v] <= Settled[v]
<1>1. L!Deposited' = L!Deposited
  BY DEF L!Deposited, Recounted
<1>2. L!Deposited \in Nat /\ pool.balance \in Nat
  BY DepositedType, LiquidityTypes
<1>3. ASSUME NEW v \in Users PROVE Excess'[v] <= Settled[v]
  <2>1. Exceeding(v)' = Settling(v)
    BY ExceedingUpdated DEF Settling, Recounted
  <2>2. Exceeding(v)' \in Int
    BY ExcessTypesNext
  <2> QED
    BY <2>1, <2>2 DEF Excess, Settled, Plus
<1> QED
  BY <1>1, <1>2, <1>3 DEF Recounted

\* A new campaign is paid for: startCampaign requires it; and one that is stopped
\* promises nothing more.
LEMMA RecountPayable ==
    ASSUME L!TypeOK, L!TypeOK', TokensCounted, TokensCounted', BlocksInOrder, BlocksInOrder', Payable,
           Recounted, UNCHANGED rewardPerBlock, stoppedLate => stoppedLate', L!Ahead' <= L!Ahead
    PROVE  Payable'
<1>1. /\ L!Deposited' = L!Deposited + 0 /\ pool'.balance = pool.balance + 0
      /\ \A v \in Users : Excess'[v] <= Settled[v]
  BY RecountExcess
<1>2. /\ FullScale \in Nat /\ rewardPerBlock \in Nat /\ Accumulated \in Nat
      /\ L!Ahead \in Nat /\ L!Ahead' \in Nat /\ reward \in Nat
      /\ SumFunction(deposits) \in Nat /\ totalRewardDebt \in Int
  BY ExcessTypes, LiquidityTypes, AccumulatorTypes, AheadType, AheadTypeNext
<1>3. PICK ahead \in Nat : ahead = L!Ahead'
  BY <1>2
<1>4. FullScale * (rewardPerBlock * ahead) <= FullScale * (rewardPerBlock * L!Ahead)
  <2>1. ahead <= L!Ahead
    BY <1>3
  <2>2. /\ rewardPerBlock * ahead <= rewardPerBlock * L!Ahead
        /\ rewardPerBlock * ahead \in Nat /\ rewardPerBlock * L!Ahead \in Nat
    BY <1>2, <2>1, TimesMonotone
  <2> QED
    BY <1>2, <2>2, TimesMonotone
<1>5. /\ FullScale * (rewardPerBlock * ahead) \in Int /\ FullScale * (rewardPerBlock * L!Ahead) \in Int
      /\ FullScale * reward \in Int /\ FullScale * SumFunction(deposits) \in Int
      /\ FullScale * totalRewardDebt \in Int /\ 0 * Accumulated = 0
  BY <1>2
<1>6. 0 * Accumulated + FullScale * (rewardPerBlock * ahead)
          + FullScale * reward + FullScale * SumFunction(deposits) + FullScale * totalRewardDebt
        <= FullScale * (rewardPerBlock * L!Ahead)
             + FullScale * reward + FullScale * SumFunction(deposits) + FullScale * totalRewardDebt
  BY <1>4, <1>5
<1>7. /\ rewardPerBlock' = rewardPerBlock /\ reward' = reward /\ deposits' = deposits
      /\ totalRewardDebt' = totalRewardDebt
  BY DEF Recounted
<1>8. 0 * Accumulated + FullScale * (rewardPerBlock' * L!Ahead')
          + FullScale * reward + FullScale * SumFunction(deposits) + FullScale * totalRewardDebt
        <= FullScale * (rewardPerBlock * L!Ahead)
             + FullScale * reward' + FullScale * SumFunction(deposits') + FullScale * totalRewardDebt'
  BY <1>3, <1>6, <1>7, Zenon
<1> QED
  BY <1>1, <1>8, UpdatedPayable DEF Recounted

\* Funds for what is owed and for a campaign, as startCampaign counts them.
LEMMA FundsSuffice ==
    ASSUME NEW B \in Nat, NEW acc \in Nat, NEW rate \in Nat, NEW ahead \in Nat, NEW blocks \in Nat,
           ahead <= blocks, NEW held \in Nat, NEW debt \in Int,
           0 <= MulTruncate(acc, B) - debt,
           rate * blocks + (MulTruncate(acc, B) - debt) <= held
    PROVE  /\ FullScale * (rate * ahead) \in Nat
           /\ FullScale * (rate * ahead) <= FullScale * held
           /\ FullScale * (rate * ahead) + acc * B < FullScale * held + FullScale * debt + FullScale
<1> USE FullScaleAssumption
<1> DEFINE owing == MulTruncate(acc, B)
           product == acc * B
<1>1. product \in Nat
  OBVIOUS
<1>2. owing \in Nat
  BY MulTruncateBounds
<1>3. product < FullScale * (owing + 1)
  <2>1. owing = product \div FullScale
    BY DEF MulTruncate
  <2> HIDE DEF product, owing
  <2> QED
    BY <1>1, <2>1, DivBounds
<1>4. rate * ahead <= rate * blocks /\ rate * ahead \in Nat /\ rate * blocks \in Nat
  BY TimesMonotone
<1> HIDE DEF product, owing
<1> DEFINE campaign == rate * ahead
           total == rate * blocks
<1>5. campaign \in Nat /\ total \in Nat /\ campaign <= total /\ 0 <= owing - debt /\ total + (owing - debt) <= held
  BY <1>4 DEF owing
<1> HIDE DEF campaign, total
<1>6. campaign + owing <= held + debt /\ campaign <= held
  BY <1>2, <1>5
<1>7. FullScale * (campaign + owing) <= FullScale * (held + debt) /\ FullScale * campaign <= FullScale * held
  BY <1>2, <1>5, <1>6, TimesMonotone
<1>8. /\ FullScale * (campaign + owing) = FullScale * campaign + FullScale * owing
      /\ FullScale * (held + debt) = FullScale * held + FullScale * debt
      /\ FullScale * (owing + 1) = FullScale * owing + FullScale
      /\ FullScale * campaign \in Nat
  BY <1>2, <1>5
<1>9. FullScale * owing \in Int /\ FullScale * held \in Int /\ FullScale * debt \in Int
  BY <1>2
<1>10. FullScale * campaign + product < FullScale * held + FullScale * debt + FullScale
  BY <1>1, <1>3, <1>5, <1>7, <1>8, <1>9
<1> QED
  BY <1>7, <1>8, <1>10 DEF campaign, product

\* With those who deposited, a rounding of each deposit is at hand.
LEMMA StartCovered ==
    ASSUME NEW B \in Nat, NEW D \in Nat, NEW acc \in Nat, NEW campaign \in Nat, NEW held \in Nat,
           NEW debt \in Int, NEW excess \in Nat, NEW rounding \in Nat, NEW count \in Nat \ {0},
           campaign + acc * B < FullScale * held + FullScale * debt + FullScale,
           excess <= (B - D) * acc + rounding
    PROVE  D * acc + excess + 0 + campaign
             <= FullScale * held + FullScale * count + rounding + FullScale * debt
<1> USE FullScaleAssumption
<1> DEFINE shares == D * acc
           given == (B - D) * acc
           product == acc * B
           F == FullScale * held
           C == FullScale * count
           T == FullScale * debt
<1>1. shares + given = product /\ shares \in Int /\ given \in Int /\ product \in Int
  OBVIOUS
<1>2. F \in Int /\ C \in Int /\ T \in Int /\ FullScale \in Int
  OBVIOUS
<1>3. FullScale <= C
  <2>1. FullScale * 1 <= FullScale * count
    BY TimesMonotone
  <2> QED
    BY <2>1
<1>4. campaign + product < F + T + FullScale /\ excess <= given + rounding
  OBVIOUS
<1> HIDE DEF shares, given, product, F, C, T
<1>5. shares + excess + 0 + campaign <= F + C + rounding + T
  BY <1>1, <1>2, <1>3, <1>4
<1> QED
  BY <1>5 DEF shares, F, C, T

\* The sum of zeros is zero.
LEMMA ZeroSum ==
    SumFunction([u \in Users |-> 0]) = 0
<1> DEFINE zero == [u \in Users |-> 0]
<1>1. zero \in [Users -> Nat] /\ \A u \in Users : zero[u] = 0
  OBVIOUS
<1> HIDE DEF zero
<1>2. SumFunction(zero) = Cardinality(Users) * 0
  BY SumConstant, UsersAssumption DEF zero
<1>3. Cardinality(Users) \in Nat
  BY UsersAssumption, FS_CardinalityType
<1> QED
  BY <1>2, <1>3 DEF zero

\* A campaign starts with funds for what is owed and for itself.
LEMMA StartPayable ==
    ASSUME L!TypeOK, L!TypeOK', TokensCounted, TokensCounted', BlocksInOrder, BlocksInOrder', Payable,
           DebtsCounted, NewcomersOweNothing,
           Recounted, stoppedLate => stoppedLate', NEW rate \in Nat, NEW from \in Nat, NEW blocks \in Nat,
           L!Startable(rate, from, blocks), rewardPerBlock' = rate, L!Ahead' <= blocks
    PROVE  Payable'
<1> USE FullScaleAssumption
<1>1. SUFFICES ASSUME ~stoppedLate, ~stoppedLate', ExcessBounded, RewardCovers
               PROVE  ExcessBounded' /\ RewardCovers'
  BY DEF Payable
<1>2. /\ ExcessBounded' /\ Brought' = 0
      /\ L!Deposited' = L!Deposited /\ pool'.balance = pool.balance
  <2>1. L!Deposited \in Nat /\ pool.balance \in Nat
    BY DepositedType, LiquidityTypes
  <2>2. ExcessBounded' /\ Brought' = 0
    BY <1>1, RecountExcess, UpdatedExcess DEF Recounted
  <2> QED
    BY <2>1, <2>2, RecountExcess
<1>3. /\ pool.balance \in Nat /\ L!Deposited \in Nat /\ L!Deposited <= pool.balance
      /\ Accumulated \in Nat /\ reward \in Nat /\ totalRewardDebt \in Int
      /\ SumFunction(deposits) \in Nat
      /\ L!Ahead' \in Nat /\ SumFunction(Excess)' \in Nat /\ Rounding' \in Nat
      /\ pool'.accRewardPerShare = Accumulated
  BY ExcessTypes, ExcessTypesNext, LiquidityTypes, AccumulatorTypes, AheadTypeNext
     DEF TokensCounted, Recounted, Updated
<1>4. PICK ahead \in Nat : ahead = L!Ahead'
  BY <1>3
<1>5. PICK excess \in Nat : excess = SumFunction(Excess)'
  BY <1>3
<1>6. PICK rounding \in Nat : rounding = Rounding'
  BY <1>3
<1>7. PICK B \in Nat, D \in Nat, acc \in Nat :
          B = pool.balance /\ D = L!Deposited /\ acc = Accumulated
  BY <1>3
<1>8. PICK held \in Nat, debt \in Int, count \in Nat :
          held = reward /\ debt = totalRewardDebt /\ count = SumFunction(deposits)
  BY <1>3
<1>9. ahead <= blocks
  BY <1>4
<1>10. 0 <= MulTruncate(acc, B) - debt /\ rate * blocks + (MulTruncate(acc, B) - debt) <= held
  <2>1. L!updatePool.accRewardPerShare = Accumulated
    BY PoolNow
  <2>2. L!totalPending = MulTruncate(acc, B) - debt
    BY <1>7, <1>8, <2>1 DEF L!totalPending, L!MulTruncate, MulTruncate
  <2>3. MulTruncate(acc, B) \in Nat /\ rate * blocks \in Nat
    <3>1. MulTruncate(acc, B) \in Nat
      BY MulTruncateBounds
    <3>2. rate * blocks \in Nat
      OBVIOUS
    <3> QED
      BY <3>1, <3>2
  <2>4. 0 <= L!totalPending /\ rate * blocks + L!totalPending <= held
    BY <1>8, <2>2, <2>3 DEF L!Startable
  <2> QED
    BY <2>2, <2>4
<1>11. PICK campaign \in Nat : campaign = FullScale * (rate * ahead)
  BY <1>9, <1>10, FundsSuffice
<1>12. campaign <= FullScale * held
       /\ campaign + acc * B < FullScale * held + FullScale * debt + FullScale
  BY <1>9, <1>10, <1>11, FundsSuffice
<1>13. SUFFICES D * acc + excess + 0 + campaign
                  <= FullScale * held + FullScale * count + rounding + FullScale * debt
  <2>1. /\ reward' = reward /\ totalRewardDebt' = totalRewardDebt /\ deposits' = deposits
        /\ FullScale * (rewardPerBlock' * L!Ahead') = campaign
    BY <1>4, <1>11 DEF Recounted
  <2>2. L!Deposited' = D /\ pool'.accRewardPerShare = acc /\ SumFunction(Excess)' = excess
        /\ Rounding' = rounding /\ reward' = held /\ totalRewardDebt' = debt /\ SumFunction(deposits)' = count
    BY <1>2, <1>3, <1>5, <1>6, <1>7, <1>8, <2>1
  <2> QED
    BY <1>2, <2>1, <2>2 DEF RewardCovers
<1>14. ASSUME count # 0
       PROVE  D * acc + excess + 0 + campaign
                <= FullScale * held + FullScale * count + rounding + FullScale * debt
  <2>1. excess <= (B - D) * acc + rounding
    <3>1. Given' = B - D
      BY <1>2, <1>7 DEF Given
    <3>2. SumFunction(Excess)' <= Given' * pool'.accRewardPerShare + Rounding'
      BY <1>2 DEF ExcessBounded
    <3> QED
      BY <1>3, <1>5, <1>6, <1>7, <3>1, <3>2
  <2> QED
    BY <1>12, <1>14, <2>1, StartCovered
<1>15. ASSUME count = 0
       PROVE  D * acc + excess + 0 + campaign
                <= FullScale * held + FullScale * count + rounding + FullScale * debt
  <2>1. \A v \in Users : deposits[v] = 0
    <3>1. deposits \in [Users -> Nat] /\ SumFunction(deposits) <= 0
      BY <1>8, <1>15 DEF L!TypeOK
    <3> QED
      BY <3>1, SumOfZeros, UsersAssumption
  <2>2. \A v \in Users : userInfo[v].amount = 0 /\ userInfo[v].rewardDebt = 0
    BY <2>1 DEF NewcomersOweNothing
  <2>3. D = 0
    <3>1. [v \in Users |-> userInfo[v].amount] = [v \in Users |-> 0]
      BY <2>2
    <3>2. L!Deposited = SumFunction([v \in Users |-> userInfo[v].amount])
      BY DepositedType
    <3> QED
      BY <1>7, <3>1, <3>2, ZeroSum
  <2>4. debt = 0
    <3>1. [v \in Users |-> Plus(userInfo[v].rewardDebt)] = [v \in Users |-> 0]
          /\ [v \in Users |-> Plus(-userInfo[v].rewardDebt)] = [v \in Users |-> 0]
      BY <2>2 DEF Plus
    <3> QED
      BY <1>8, <3>1, ZeroSum DEF DebtsCounted
  <2>5. excess = 0
    <3>1. ASSUME NEW v \in Users PROVE Exceeding(v)' <= 0 /\ Exceeding(v)' \in Int
      <4>1. userInfo'[v].amount = 0 /\ userInfo'[v].rewardDebt = 0
        BY <2>2 DEF Recounted
      <4>2. PICK w \in Nat : w = withdrawals'[v]
        BY DEF L!TypeOK
      <4>3. 0 * acc = 0 /\ FullScale * w \in Nat /\ FullScale * 0 = 0
        BY <1>7
      <4>4. Exceeding(v)' = FullScale * 0 - (0 * acc + FullScale * w)
        BY <1>7, <4>1, <4>2, ExceedingUpdated DEF Recounted
      <4> QED
        BY <4>3, <4>4
    <3>2. Excess' = [v \in Users |-> 0]
      BY <3>1 DEF Excess, Plus
    <3> QED
      BY <1>5, <3>2, ZeroSum
  <2>6. D * acc = 0 /\ FullScale * debt = 0 /\ FullScale * count = 0 /\ FullScale * held \in Nat
    BY <1>15, <2>3, <2>4
  <2> QED
    BY <1>12, <2>5, <2>6
<1> QED
  BY <1>14, <1>15

\* Without an update, the reward still covers what is owed.
LEMMA KeptPayable ==
    ASSUME L!TypeOK, L!TypeOK', TokensCounted, TokensCounted', BlocksInOrder, BlocksInOrder', Payable,
           stoppedLate => stoppedLate', pool'.accRewardPerShare = pool.accRewardPerShare,
           L!Deposited' = L!Deposited, Rounding <= Rounding', Given <= Given',
           \A v \in Users : Exceeding(v)' <= Exceeding(v) \/ Exceeding(v)' <= 0,
           Brought' + FullScale * (rewardPerBlock' * L!Ahead')
               + FullScale * reward + FullScale * SumFunction(deposits) + FullScale * totalRewardDebt
             <= Brought + FullScale * (rewardPerBlock * L!Ahead)
                  + FullScale * reward' + FullScale * SumFunction(deposits') + FullScale * totalRewardDebt'
    PROVE  Payable'
<1> USE FullScaleAssumption
<1>1. SUFFICES ASSUME ~stoppedLate, ~stoppedLate', ExcessBounded, RewardCovers
               PROVE  ExcessBounded' /\ RewardCovers'
  BY DEF Payable
<1>2. /\ Given \in Nat /\ Rounding \in Nat /\ Excess \in [Users -> Nat] /\ SumFunction(Excess) \in Nat
      /\ L!Deposited \in Nat /\ Brought \in Nat /\ pool.accRewardPerShare \in Nat
      /\ SumFunction(deposits) \in Nat /\ reward \in Nat /\ totalRewardDebt \in Int
      /\ rewardPerBlock \in Nat /\ L!Ahead \in Nat
  BY ExcessTypes, AheadType, LiquidityTypes
<1>3. /\ Given' \in Nat /\ Rounding' \in Nat /\ Excess' \in [Users -> Nat] /\ SumFunction(Excess)' \in Nat
      /\ Brought' \in Nat /\ SumFunction(deposits)' \in Nat /\ reward' \in Nat /\ totalRewardDebt' \in Int
      /\ rewardPerBlock' \in Nat /\ L!Ahead' \in Nat
  BY ExcessTypesNext, AheadTypeNext DEF L!TypeOK
<1>4. SumFunction(Excess)' <= SumFunction(Excess)
  <2>1. ASSUME NEW v \in Users PROVE Excess'[v] <= Excess[v]
    <3>1. Exceeding(v) \in Int /\ Exceeding(v)' \in Int
      BY ExcessTypes, ExcessTypesNext
    <3>2. Exceeding(v)' <= Exceeding(v) \/ Exceeding(v)' <= 0
      OBVIOUS
    <3>3. Excess[v] = Plus(Exceeding(v)) /\ Excess'[v] = Plus(Exceeding(v)')
      BY DEF Excess, Plus
    <3> QED
      BY <3>1, <3>2, <3>3 DEF Plus
  <2>2. \A f, g \in [Users -> Nat] :
           (\A v \in Users : f[v] <= g[v]) => SumFunction(f) <= SumFunction(g)
    BY SumMonotone, UsersAssumption
  <2> QED
    BY <1>2, <1>3, <2>1, <2>2
<1>5. PICK given \in Nat, more \in Nat, acc \in Nat :
          given = Given /\ more = Given' /\ acc = pool.accRewardPerShare
  BY <1>2, <1>3
<1>6. given * acc <= more * acc /\ given * acc \in Nat /\ more * acc \in Nat
  <2>1. acc * given <= acc * more /\ acc * given = given * acc /\ acc * more = more * acc
    BY <1>5, TimesMonotone
  <2> QED
    BY <2>1
<1>7. SumFunction(Excess) <= given * acc + Rounding
  BY <1>1, <1>5 DEF ExcessBounded
<1>8. SumFunction(Excess)' <= more * acc + Rounding'
  BY <1>2, <1>3, <1>4, <1>6, <1>7
<1>9. ExcessBounded'
  BY <1>5, <1>8 DEF ExcessBounded
<1>10. /\ L!Deposited * pool.accRewardPerShare \in Int
       /\ FullScale * (rewardPerBlock * L!Ahead) \in Int /\ FullScale * reward \in Int
       /\ FullScale * SumFunction(deposits) \in Int /\ FullScale * totalRewardDebt \in Int
  BY <1>2
<1>11. /\ FullScale * (rewardPerBlock' * L!Ahead') \in Int /\ FullScale * reward' \in Int
       /\ FullScale * SumFunction(deposits)' \in Int /\ FullScale * totalRewardDebt' \in Int
  BY <1>3
<1>12. L!Deposited * pool.accRewardPerShare + SumFunction(Excess)' + Brought'
           + FullScale * (rewardPerBlock' * L!Ahead')
         <= FullScale * reward' + FullScale * SumFunction(deposits)' + Rounding'
              + FullScale * totalRewardDebt'
  BY <1>1, <1>2, <1>3, <1>4, <1>10, <1>11 DEF RewardCovers
<1>13. RewardCovers'
  BY <1>12 DEF RewardCovers
<1> QED
  BY <1>9, <1>13

\* More in the contract, and the rest as it was, pays the same.
LEMMA StillPayable ==
    ASSUME L!TypeOK, L!TypeOK', TokensCounted, TokensCounted', BlocksInOrder, BlocksInOrder', Payable,
           Still, UNCHANGED <<userInfo, totalRewardDebt>>, reward <= reward'
    PROVE  Payable'
<1> USE FullScaleAssumption
<1>1. L!Deposited' = L!Deposited
  BY DEF L!Deposited
<1>2. Brought' = Brought
  BY StillWorth DEF Still
<1>3. Given' = Given /\ Rounding' = Rounding /\ MostPerShare' = MostPerShare
  BY <1>1, <1>2 DEF Given, Rounding, MostPerShare, Still
<1>4. Given \in Nat /\ Rounding \in Nat /\ Brought \in Nat
  BY ExcessTypes
<1>5. ASSUME NEW v \in Users PROVE Exceeding(v)' <= Exceeding(v)
  <2>1. Exceeding(v)' = Exceeding(v)
    BY <1>3 DEF Exceeding, Still
  <2> QED
    BY <2>1, ExcessTypes
<1>6. L!Ahead' = L!Ahead
  BY DEF L!Ahead, Still
<1>7. /\ rewardPerBlock \in Nat /\ L!Ahead \in Nat /\ reward \in Nat /\ SumFunction(deposits) \in Nat
      /\ totalRewardDebt \in Int
  BY ExcessTypes, AheadType, LiquidityTypes
<1>8. PICK held \in Nat : held = reward'
  BY DEF L!TypeOK
<1>9. FullScale * reward <= FullScale * held
  <2>1. reward <= held
    BY <1>8
  <2> QED
    BY <1>7, <2>1, TimesMonotone
<1>10. /\ FullScale * (rewardPerBlock * L!Ahead) \in Int /\ FullScale * reward \in Int
       /\ FullScale * held \in Int
       /\ FullScale * SumFunction(deposits) \in Int /\ FullScale * totalRewardDebt \in Int
  BY <1>7
<1>11. Brought + FullScale * (rewardPerBlock * L!Ahead)
           + FullScale * reward + FullScale * SumFunction(deposits) + FullScale * totalRewardDebt
         <= Brought + FullScale * (rewardPerBlock * L!Ahead)
              + FullScale * held + FullScale * SumFunction(deposits) + FullScale * totalRewardDebt
  BY <1>4, <1>9, <1>10
<1>12. rewardPerBlock' = rewardPerBlock /\ deposits' = deposits /\ totalRewardDebt' = totalRewardDebt
       /\ pool' = pool /\ stoppedLate' = stoppedLate
  BY DEF Still
<1>13. Brought' + FullScale * (rewardPerBlock' * L!Ahead')
           + FullScale * reward + FullScale * SumFunction(deposits) + FullScale * totalRewardDebt
         <= Brought + FullScale * (rewardPerBlock * L!Ahead)
              + FullScale * reward' + FullScale * SumFunction(deposits') + FullScale * totalRewardDebt'
  BY <1>2, <1>6, <1>8, <1>11, <1>12, Zenon
<1>14. Rounding <= Rounding' /\ Given <= Given'
  BY <1>3, <1>4
<1> QED
  BY <1>1, <1>5, <1>12, <1>13, <1>14, KeptPayable

\* A token sent to the contract takes from what is owed, and adds to what is given.
LEMMA GiftPayable ==
    ASSUME L!TypeOK, L!TypeOK', TokensCounted, TokensCounted', BlocksInOrder, BlocksInOrder', Payable,
           pool' = [pool EXCEPT !.balance = @ + 1],
           UNCHANGED <<block, rewardPerBlock, endBlock, startBlock, updates, userInfo, totalRewardDebt,
                       reward, deposits, withdrawals, stoppedLate>>
    PROVE  Payable'
<1> USE FullScaleAssumption
<1>1. L!Deposited' = L!Deposited
  BY DEF L!Deposited
<1>2. /\ L!Deposited \in Nat /\ pool.balance \in Nat /\ L!Deposited <= pool.balance
      /\ pool'.balance = pool.balance + 1 /\ pool'.accRewardPerShare = pool.accRewardPerShare
      /\ pool'.lastRewardBlock = pool.lastRewardBlock
  BY LiquidityTypes, DepositedType DEF L!TypeOK, TokensCounted
<1>3. Brought' = Brought
  <2>1. Multiplier' = Multiplier
    BY <1>2 DEF Multiplier
  <2> QED
    BY <2>1 DEF Brought
<1>4. MostPerShare' = MostPerShare
  BY <1>1, <1>3 DEF MostPerShare
<1>5. Given' = Given + 1 /\ Rounding \in Nat /\ Rounding' \in Nat /\ Given \in Nat
  <2>1. Given' = Given + 1
    BY <1>1, <1>2 DEF Given
  <2> QED
    BY <2>1, ExcessTypes, ExcessTypesNext
<1>6. Rounding <= Rounding'
  <2>1. Rounding' = updates * L!Supply
    BY <1>1, <1>2 DEF Rounding
  <2>2. Rounding = 0 \/ Rounding = updates * L!Supply
    BY DEF Rounding
  <2>3. 0 <= Rounding'
    BY <1>5
  <2> QED
    BY <1>5, <2>1, <2>2, <2>3
<1>7. ASSUME NEW v \in Users PROVE Exceeding(v)' <= Exceeding(v)
  <2>1. Exceeding(v)' = Exceeding(v)
    BY <1>2, <1>4 DEF Exceeding
  <2> QED
    BY <2>1, ExcessTypes
<1>8. L!Ahead' = L!Ahead
  BY DEF L!Ahead
<1>9. /\ rewardPerBlock \in Nat /\ L!Ahead \in Nat /\ reward \in Nat /\ SumFunction(deposits) \in Nat
      /\ totalRewardDebt \in Int /\ Brought \in Nat
  BY ExcessTypes, AheadType, LiquidityTypes
<1>10. /\ FullScale * (rewardPerBlock * L!Ahead) \in Int /\ FullScale * reward \in Int
       /\ FullScale * SumFunction(deposits) \in Int /\ FullScale * totalRewardDebt \in Int
  BY <1>9
<1>11. Brought + FullScale * (rewardPerBlock * L!Ahead)
           + FullScale * reward + FullScale * SumFunction(deposits) + FullScale * totalRewardDebt
         <= Brought + FullScale * (rewardPerBlock * L!Ahead)
              + FullScale * reward + FullScale * SumFunction(deposits) + FullScale * totalRewardDebt
  BY <1>9, <1>10
<1>12. rewardPerBlock' = rewardPerBlock /\ deposits' = deposits /\ totalRewardDebt' = totalRewardDebt
       /\ reward' = reward /\ stoppedLate' = stoppedLate
  OBVIOUS
<1>13. Brought' + FullScale * (rewardPerBlock' * L!Ahead')
           + FullScale * reward + FullScale * SumFunction(deposits) + FullScale * totalRewardDebt
         <= Brought + FullScale * (rewardPerBlock * L!Ahead)
              + FullScale * reward' + FullScale * SumFunction(deposits') + FullScale * totalRewardDebt'
  BY <1>3, <1>8, <1>11, <1>12, Zenon
<1>14. Given <= Given'
  BY <1>5
<1> QED
  BY <1>1, <1>2, <1>6, <1>7, <1>12, <1>13, <1>14, KeptPayable

\* What a block brings no longer lies ahead.
LEMMA BlockBrought ==
    ASSUME NEW m \in Nat, NEW n \in Nat, NEW rate \in Nat, NEW counts \in 0 .. 1, n - counts \in Nat
    PROVE  /\ ((m + counts) * rate) * FullScale + FullScale * (rate * (n - counts))
                = (m * rate) * FullScale + FullScale * (rate * n)
           /\ (m * rate) * FullScale <= ((m + counts) * rate) * FullScale
           /\ FullScale * (rate * n) \in Nat /\ FullScale * (rate * (n - counts)) \in Nat
<1> USE FullScaleAssumption
<1>1. CASE counts = 0
  BY <1>1
<1>2. CASE counts = 1
  <2> DEFINE a == m * rate
             b == rate * n
  <2>1. a \in Nat /\ b \in Nat
    OBVIOUS
  <2>2. (m + 1) * rate = a + rate /\ rate * (n - 1) = b - rate
    OBVIOUS
  <2>3. rate * (n - 1) \in Nat
    <3>1. \A i, j \in Nat : i * j \in Nat
      OBVIOUS
    <3> QED
      BY <1>2, <3>1
  <2>4. b - rate \in Nat
    BY <2>2, <2>3
  <2> HIDE DEF a, b
  <2>5. (a + rate) * FullScale = a * FullScale + rate * FullScale
        /\ FullScale * (b - rate) = FullScale * b - rate * FullScale
    BY <2>1
  <2>6. a * FullScale \in Nat /\ rate * FullScale \in Nat /\ FullScale * b \in Nat
        /\ FullScale * (b - rate) \in Nat
    <3>1. \A i, j \in Nat : i * j \in Nat
      OBVIOUS
    <3> QED
      BY <2>1, <2>4, <3>1
  <2>7. (a + rate) * FullScale + FullScale * (b - rate) = a * FullScale + FullScale * b
        /\ a * FullScale <= (a + rate) * FullScale
    BY <2>5, <2>6
  <2> QED
    BY <1>2, <2>2, <2>6, <2>7 DEF a, b
<1> QED
  BY <1>1, <1>2

\* A block moves from what is ahead to what was brought.
LEMMA TickPayable ==
    ASSUME L!TypeOK, L!TypeOK', TokensCounted, TokensCounted', BlocksInOrder, Payable, block' = block + 1,
           UNCHANGED <<pool, rewardPerBlock, endBlock, startBlock, updates, userInfo, totalRewardDebt,
                       reward, deposits, withdrawals, stoppedLate>>
    PROVE  Payable'
<1> USE FullScaleAssumption
<1> DEFINE counts == IF startBlock <= block /\ block < endBlock THEN 1 ELSE 0
<1>1. /\ Multiplier' = Multiplier + counts /\ L!Ahead' = L!Ahead - counts
      /\ L!Ahead \in Nat /\ BlocksInOrder'
  BY TickEffect
<1>2. counts \in 0 .. 1
  OBVIOUS
<1> HIDE DEF counts
<1>3. L!Ahead' \in Nat
  BY <1>1, AheadTypeNext
<1>4. /\ rewardPerBlock \in Nat /\ reward \in Nat /\ SumFunction(deposits) \in Nat
      /\ totalRewardDebt \in Int /\ Brought \in Nat /\ Multiplier \in Nat /\ L!Deposited \in Nat
      /\ pool.accRewardPerShare \in Nat /\ MostPerShare \in Nat
  BY ExcessTypes, LiquidityTypes, AccumulatorTypes
<1>5. L!Ahead - counts \in Nat
  BY <1>1, <1>3
<1>6. Brought = (Multiplier * rewardPerBlock) * FullScale
      /\ Brought' = ((Multiplier + counts) * rewardPerBlock) * FullScale
  BY <1>1 DEF Brought
<1>7. PICK m \in Nat, n \in Nat, r \in Nat :
          m = Multiplier /\ n = L!Ahead /\ r = rewardPerBlock
  BY <1>1, <1>4
<1>8. n - counts \in Nat
  BY <1>5, <1>7
<1>9. PICK brought \in Nat, more \in Nat, ahead \in Nat, less \in Nat :
          /\ brought = (m * r) * FullScale /\ more = ((m + counts) * r) * FullScale
          /\ ahead = FullScale * (r * n) /\ less = FullScale * (r * (n - counts))
  <2>1. (m * r) * FullScale \in Nat /\ ((m + counts) * r) * FullScale \in Nat
    <3>1. \A i, j \in Nat : i * j \in Nat
      OBVIOUS
    <3>2. m + counts \in Nat
      BY <1>2
    <3> QED
      BY <3>1, <3>2
  <2> QED
    BY <1>2, <1>8, <2>1, BlockBrought
<1>10. more + less = brought + ahead /\ brought <= more
  BY <1>2, <1>8, <1>9, BlockBrought
<1>11. /\ brought = Brought /\ more = Brought' /\ ahead = FullScale * (rewardPerBlock * L!Ahead)
       /\ less = FullScale * (rewardPerBlock' * L!Ahead')
  <2>1. brought = Brought /\ more = Brought' /\ ahead = FullScale * (rewardPerBlock * L!Ahead)
    BY <1>6, <1>7, <1>9
  <2>2. rewardPerBlock' = rewardPerBlock
    OBVIOUS
  <2>3. less = FullScale * (rewardPerBlock' * L!Ahead')
    BY <1>1, <1>7, <1>9, <2>2, Zenon
  <2> QED
    BY <2>1, <2>3
<1>12. L!Deposited' = L!Deposited
  BY DEF L!Deposited
<1>13. MostPerShare <= MostPerShare'
  <2>1. CASE L!Deposited = 0
    BY <1>4, <1>12, <2>1 DEF MostPerShare
  <2>2. CASE L!Deposited # 0
    <3>1. MostPerShare = brought \div L!Deposited /\ MostPerShare' = more \div L!Deposited
      BY <1>11, <1>12, <2>2 DEF MostPerShare
    <3>2. brought \div L!Deposited <= more \div L!Deposited
      BY <1>4, <1>10, <2>2, DivMonotone
    <3> QED
      BY <3>1, <3>2
  <2> QED
    BY <2>1, <2>2
<1>14. ASSUME NEW v \in Users PROVE Exceeding(v)' <= Exceeding(v)
  <2>1. userInfo[v].amount \in Nat /\ userInfo[v].rewardDebt \in Int /\ withdrawals[v] \in Nat
    BY LiquidityTypes
  <2>2. PICK x \in Nat, acc \in Nat, most \in Nat, new \in Nat :
            /\ x = userInfo[v].amount /\ acc = pool.accRewardPerShare
            /\ most = MostPerShare /\ new = MostPerShare'
    BY <1>4, <2>1, ExcessTypesNext
  <2>3. most <= new
    BY <1>13, <2>2
  <2>4. x * (acc + most) <= x * (acc + new)
    BY <2>3, TimesMonotone
  <2>5. PICK d \in Int, w \in Int : d = FullScale * userInfo[v].rewardDebt /\ w = FullScale * withdrawals[v]
    BY <2>1
  <2>6. x * (acc + most) \in Int /\ x * (acc + new) \in Int
    OBVIOUS
  <2>7. d - (x * (acc + new) + w) <= d - (x * (acc + most) + w)
    BY <2>4, <2>6
  <2>8. Exceeding(v) = d - (x * (acc + most) + w)
    BY <2>2, <2>5 DEF Exceeding
  <2>9. Exceeding(v)' = d - (x * (acc + new) + w)
    BY <2>2, <2>5 DEF Exceeding
  <2> QED
    BY <2>7, <2>8, <2>9
<1>15. Given' = Given /\ Rounding' = Rounding
  BY <1>12 DEF Given, Rounding
<1>16. Given <= Given' /\ Rounding <= Rounding'
  BY <1>15, ExcessTypes
<1>17. /\ FullScale * reward \in Int
       /\ FullScale * SumFunction(deposits) \in Int /\ FullScale * totalRewardDebt \in Int
  BY <1>4
<1>18. more + less + FullScale * reward + FullScale * SumFunction(deposits) + FullScale * totalRewardDebt
         <= brought + ahead
              + FullScale * reward + FullScale * SumFunction(deposits) + FullScale * totalRewardDebt
  BY <1>10, <1>17
<1>19. reward' = reward /\ deposits' = deposits /\ totalRewardDebt' = totalRewardDebt /\ pool' = pool
       /\ stoppedLate' = stoppedLate
  OBVIOUS
<1>20. Brought' + FullScale * (rewardPerBlock' * L!Ahead')
           + FullScale * reward + FullScale * SumFunction(deposits) + FullScale * totalRewardDebt
         <= Brought + FullScale * (rewardPerBlock * L!Ahead)
              + FullScale * reward' + FullScale * SumFunction(deposits') + FullScale * totalRewardDebt'
  BY <1>11, <1>18, <1>19, Zenon
<1> QED
  BY <1>1, <1>12, <1>14, <1>16, <1>19, <1>20, KeptPayable

\* A claim takes from what is owed what it takes from the contract.
LEMMA ClaimPayable ==
    ASSUME L!TypeOK, L!TypeOK', TokensCounted, TokensCounted', BlocksInOrder, BlocksInOrder', Payable,
           NEW u \in Users, L!claim(u), Still
    PROVE  Payable'
<1> USE FullScaleAssumption
<1>1. PICK pay \in Int : pay = L!Pending(u)
  BY PendingNow
<1>2. /\ userInfo' = [userInfo EXCEPT ![u] = [amount |-> @.amount + 0,
                                              rewardDebt |-> @.rewardDebt + pay]]
      /\ totalRewardDebt' = totalRewardDebt + pay /\ reward' = reward - pay
  BY <1>1 DEF L!claim, L!Indebt, L!Pay
<1>3. /\ \A v \in Users : userInfo'[v].amount = userInfo[v].amount
      /\ \A v \in Users \ {u} : userInfo'[v] = userInfo[v]
      /\ userInfo'[u].rewardDebt = userInfo[u].rewardDebt + pay
  BY <1>2, LiquidityTypes DEF L!TypeOK
<1>4. L!Deposited' = L!Deposited
  <2>1. [v \in Users |-> userInfo'[v].amount] = [v \in Users |-> userInfo[v].amount]
    BY <1>3
  <2> QED
    BY <2>1 DEF L!Deposited
<1>5. Brought' = Brought
  BY StillWorth DEF Still
<1>6. Given' = Given /\ Rounding' = Rounding /\ MostPerShare' = MostPerShare
  BY <1>4, <1>5 DEF Given, Rounding, MostPerShare, Still
<1>7. /\ rewardPerBlock \in Nat /\ L!Ahead \in Nat /\ reward \in Nat /\ SumFunction(deposits) \in Nat
      /\ totalRewardDebt \in Int /\ Brought \in Nat /\ pool.accRewardPerShare \in Nat
      /\ MostPerShare \in Nat /\ Accumulated \in Nat
  BY ExcessTypes, AheadType, LiquidityTypes, AccumulatorTypes
<1>8. ASSUME NEW v \in Users \ {u} PROVE Exceeding(v)' <= Exceeding(v)
  <2>1. Exceeding(v)' = Exceeding(v)
    BY <1>3, <1>6 DEF Exceeding, Still
  <2> QED
    BY <2>1, ExcessTypes
<1>9. Exceeding(u)' <= 0
  <2>1. userInfo[u].amount \in Nat /\ userInfo[u].rewardDebt \in Int /\ withdrawals[u] \in Nat
    BY LiquidityTypes
  <2>2. PICK x \in Nat, most \in Nat, acc \in Nat :
            x = userInfo[u].amount /\ most = pool.accRewardPerShare + MostPerShare /\ acc = Accumulated
    BY <1>7, <2>1
  <2>3. PICK full \in Nat : full = MulTruncate(x, acc)
    BY MulTruncateBounds
  <2>4. FullScale * full <= x * acc
    <3>1. MulTruncate(x, acc) * FullScale <= x * acc
      BY MulTruncateBounds
    <3>2. full * FullScale = FullScale * full
      OBVIOUS
    <3> QED
      BY <2>3, <3>1, <3>2
  <2>5. userInfo'[u].rewardDebt = full
    <3>1. pay = full - userInfo[u].rewardDebt
      BY <1>1, <2>2, <2>3, PendingNow
    <3> QED
      BY <1>3, <2>1, <3>1
  <2>6. x * acc <= x * most
    BY <2>2, IncrementBounded
  <2>7. PICK w \in Nat : w = FullScale * withdrawals[u]
    BY <2>1
  <2>8. Exceeding(u)' = FullScale * full - (x * most + w)
    BY <1>3, <1>6, <2>2, <2>5, <2>7 DEF Exceeding, Still
  <2>9. FullScale * full \in Int /\ x * acc \in Int /\ x * most \in Int
    OBVIOUS
  <2>10. FullScale * full - (x * most + w) <= 0
    BY <2>4, <2>6, <2>9
  <2> QED
    BY <2>8, <2>10
<1>10. L!Ahead' = L!Ahead
  BY DEF L!Ahead, Still
<1>11. /\ FullScale * (reward - pay) = FullScale * reward - FullScale * pay
       /\ FullScale * (totalRewardDebt + pay) = FullScale * totalRewardDebt + FullScale * pay
       /\ FullScale * pay \in Int
  BY <1>7
<1>12. /\ FullScale * (rewardPerBlock * L!Ahead) \in Int /\ FullScale * reward \in Int
       /\ FullScale * SumFunction(deposits) \in Int /\ FullScale * totalRewardDebt \in Int
  BY <1>7
<1>13. Brought + FullScale * (rewardPerBlock * L!Ahead)
           + FullScale * reward + FullScale * SumFunction(deposits) + FullScale * totalRewardDebt
         <= Brought + FullScale * (rewardPerBlock * L!Ahead)
              + FullScale * (reward - pay) + FullScale * SumFunction(deposits)
              + FullScale * (totalRewardDebt + pay)
  BY <1>7, <1>11, <1>12
<1>14. rewardPerBlock' = rewardPerBlock /\ deposits' = deposits /\ pool' = pool
       /\ stoppedLate' = stoppedLate
  BY DEF Still
<1>15. Brought' + FullScale * (rewardPerBlock' * L!Ahead')
           + FullScale * reward + FullScale * SumFunction(deposits) + FullScale * totalRewardDebt
         <= Brought + FullScale * (rewardPerBlock * L!Ahead)
              + FullScale * reward' + FullScale * SumFunction(deposits') + FullScale * totalRewardDebt'
  BY <1>2, <1>5, <1>10, <1>13, <1>14, Zenon
<1>16. Given <= Given' /\ Rounding <= Rounding'
  BY <1>6, ExcessTypes
<1> QED
  BY <1>4, <1>8, <1>9, <1>14, <1>15, <1>16, KeptPayable
-----------------------------------------------------------------------------
(* What every step keeps.                                                   *)

LiquidityInv ==
    /\ L!TypeOK /\ TokensCounted /\ BlocksInOrder
    /\ Shared /\ DebtsCounted /\ NewcomersOweNothing /\ Payable

\* Nothing is truncated to nothing.
LEMMA NothingTruncated ==
    ASSUME NEW n \in Nat
    PROVE  MulTruncate(0, n) = 0
<1>1. 0 * n = 0
  OBVIOUS
<1>2. \A d \in Nat \ {0} : 0 \div d = 0
  OBVIOUS
<1> QED
  BY <1>1, <1>2, FullScaleAssumption DEF MulTruncate

\* A deposit keeps the invariant.
LEMMA DepositStep ==
    ASSUME LiquidityInv, ScriptTypes', NEW u \in Users, NEW x \in Nat, L!deposit(u, x), Extra' <= Extra,
           UNCHANGED <<block, rewardPerBlock, endBlock, startBlock, entitled, stoppedLate>>
    PROVE  LiquidityInv'
<1>1. /\ L!TypeOK /\ TokensCounted /\ BlocksInOrder
      /\ Shared /\ DebtsCounted /\ NewcomersOweNothing /\ Payable
  BY DEF LiquidityInv
<1>2. Moved(u, x, MulTruncate(x, Accumulated), 0) /\ L!TypeOK' /\ BlocksInOrder'
  BY <1>1, DepositEffect
<1>3. /\ wallet' = [wallet EXCEPT ![u] = @ - x] /\ deposits' = [deposits EXCEPT ![u] = @ + 1]
      /\ UNCHANGED withdrawals
  BY DEF L!deposit
<1>4. MulTruncate(x, Accumulated) \in Int
  BY <1>1, AccumulatorTypes, MulTruncateBounds
<1>5. /\ pool'.balance = pool.balance + x
      /\ userInfo'[u].amount = userInfo[u].amount + x
      /\ userInfo'[u].rewardDebt = userInfo[u].rewardDebt + MulTruncate(x, Accumulated)
      /\ \A v \in Users \ {u} : userInfo'[v] = userInfo[v]
      /\ totalRewardDebt' = totalRewardDebt + MulTruncate(x, Accumulated)
  BY <1>1, <1>2 DEF Moved, L!TypeOK
<1>6. TokensCounted'
  <2>1. x \in Int /\ \A v \in Users \ {u} : userInfo'[v].amount = userInfo[v].amount
    BY <1>5
  <2>2. /\ pool'.balance = pool.balance + x
        /\ userInfo'[u].amount = userInfo[u].amount + x
        /\ wallet' = [wallet EXCEPT ![u] = @ - x]
    BY <1>3, <1>5
  <2> QED
    BY <1>1, <1>2, <2>1, <2>2, TokensMoved
<1>7. Shared'
  BY <1>1, <1>2, <1>3, <1>6, DepositShares
<1>8. DebtsCounted'
  BY <1>1, <1>2, <1>4, <1>5, DebtMoved
<1>9. NewcomersOweNothing'
  <2> SUFFICES ASSUME NEW v \in Users, deposits'[v] = 0
               PROVE  userInfo'[v].amount = 0 /\ userInfo'[v].rewardDebt = 0
    BY DEF NewcomersOweNothing
  <2>1. deposits[u] \in Nat /\ deposits'[u] = deposits[u] + 1
    BY <1>1, <1>3 DEF L!TypeOK
  <2>2. v # u
    BY <2>1
  <2> QED
    BY <1>1, <1>3, <1>5, <2>2 DEF NewcomersOweNothing, L!TypeOK
<1>10. Payable'
  BY <1>1, <1>2, <1>3, <1>6, DepositPayable
<1> QED
  BY <1>2, <1>6, <1>7, <1>8, <1>9, <1>10 DEF LiquidityInv

\* So does a withdrawal, with a claim or without.
LEMMA WithdrawStep ==
    ASSUME LiquidityInv, ScriptTypes', NEW u \in Users, NEW x \in 0 .. userInfo[u].amount,
           NEW claiming \in BOOLEAN, L!withdraw(u, x, claiming), Extra' <= Extra,
           UNCHANGED <<block, rewardPerBlock, endBlock, startBlock, entitled, stoppedLate>>
    PROVE  LiquidityInv'
<1>1. /\ L!TypeOK /\ TokensCounted /\ BlocksInOrder
      /\ Shared /\ DebtsCounted /\ NewcomersOweNothing /\ Payable
  BY DEF LiquidityInv
<1> DEFINE pay == IF claiming THEN L!Pending(u) ELSE 0
           q == MulTruncate(x, Accumulated)
<1>2. pay \in 0 .. reward /\ Moved(u, -x, pay - q, pay) /\ L!TypeOK' /\ BlocksInOrder'
  BY <1>1, WithdrawEffect
<1>3. x \in Nat /\ userInfo[u].amount \in Nat /\ reward \in Nat
  BY <1>1, LiquidityTypes
<1>4. q \in Int /\ -x \in Int /\ pay \in Nat /\ pay \in {0, L!Pending(u)}
  <2>1. q \in Int
    BY <1>1, <1>3, AccumulatorTypes, MulTruncateBounds
  <2> QED
    BY <1>2, <1>3, <2>1
<1>5. /\ wallet' = [wallet EXCEPT ![u] = @ - (-x)]
      /\ withdrawals' = [withdrawals EXCEPT ![u] = @ + 1] /\ UNCHANGED deposits
  <2>1. /\ wallet' = [wallet EXCEPT ![u] = @ + x]
        /\ withdrawals' = [withdrawals EXCEPT ![u] = @ + 1] /\ UNCHANGED deposits
    BY DEF L!withdraw
  <2>2. wallet[u] - (-x) = wallet[u] + x
    BY <1>1, <1>3, LiquidityTypes
  <2> QED
    BY <2>1, <2>2
<1> HIDE DEF pay, q
<1>6. /\ pool'.balance = pool.balance + (-x)
      /\ userInfo'[u].amount = userInfo[u].amount + (-x)
      /\ userInfo'[u].rewardDebt = userInfo[u].rewardDebt + (pay - q)
      /\ \A v \in Users \ {u} : userInfo'[v] = userInfo[v]
      /\ totalRewardDebt' = totalRewardDebt + (pay - q)
  BY <1>1, <1>2 DEF Moved, L!TypeOK
<1>7. TokensCounted'
  BY <1>1, <1>2, <1>4, <1>5, <1>6, TokensMoved
<1>8. Shared'
  BY <1>1, <1>2, <1>4, <1>5, <1>7, WithdrawShares DEF q
<1>9. DebtsCounted'
  BY <1>1, <1>2, <1>4, <1>6, DebtMoved
<1>10. NewcomersOweNothing'
  <2> SUFFICES ASSUME NEW v \in Users, deposits'[v] = 0
               PROVE  userInfo'[v].amount = 0 /\ userInfo'[v].rewardDebt = 0
    BY DEF NewcomersOweNothing
  <2>1. userInfo[v].amount = 0 /\ userInfo[v].rewardDebt = 0
    BY <1>1, <1>5 DEF NewcomersOweNothing
  <2>2. CASE v = u
    <3>1. x = 0
      BY <1>3, <2>1, <2>2
    <3>2. MulTruncate(0, Accumulated) = 0
      BY <1>1, AccumulatorTypes, NothingTruncated
    <3>3. q = 0
      BY <3>1, <3>2 DEF q
    <3>4. L!Pending(u) = 0
      <4>1. L!Pending(u) = MulTruncate(0, Accumulated) - 0
        BY <1>1, <2>1, <2>2, PendingNow
      <4> QED
        BY <3>2, <4>1
    <3>5. pay = 0
      BY <3>4 DEF pay
    <3> QED
      BY <1>6, <2>1, <2>2, <3>1, <3>3, <3>5
  <2>3. CASE v # u
    BY <1>6, <2>1, <2>3
  <2> QED
    BY <2>2, <2>3
<1>11. Payable'
  BY <1>1, <1>2, <1>4, <1>5, <1>7, WithdrawPayable DEF q
<1> QED
  BY <1>2, <1>7, <1>8, <1>9, <1>10, <1>11 DEF LiquidityInv

\* So does a claim.
LEMMA RewardClaimStep ==
    ASSUME LiquidityInv, ScriptTypes', NEW u \in Users, L!claim(u), Extra' <= Extra,
           UNCHANGED <<block, rewardPerBlock, endBlock, startBlock, entitled, stoppedLate>>
    PROVE  LiquidityInv'
<1>1. /\ L!TypeOK /\ TokensCounted /\ BlocksInOrder
      /\ Shared /\ DebtsCounted /\ NewcomersOweNothing /\ Payable
  BY DEF LiquidityInv
<1>2. Still /\ wallet' = wallet
  BY DEF Still, L!claim
<1>3. PICK pay \in Int : pay = L!Pending(u)
  BY <1>1, PendingNow
<1>4. /\ userInfo' = [userInfo EXCEPT ![u] = [amount |-> @.amount + 0,
                                              rewardDebt |-> @.rewardDebt + pay]]
      /\ totalRewardDebt' = totalRewardDebt + pay /\ reward' = reward - pay
      /\ paid' = [paid EXCEPT ![u] = @ + pay] /\ 0 <= pay /\ pay <= reward
  BY <1>3 DEF L!claim, L!Indebt, L!Pay
<1>5. /\ \A v \in Users : userInfo'[v].amount = userInfo[v].amount
      /\ \A v \in Users \ {u} : userInfo'[v] = userInfo[v]
      /\ userInfo'[u].rewardDebt = userInfo[u].rewardDebt + pay
  BY <1>1, <1>4, LiquidityTypes DEF L!TypeOK
<1>6. L!TypeOK'
  <2>1. userInfo' \in [Users -> [amount : Nat, rewardDebt : Int]] /\ totalRewardDebt' \in Int
    <3>1. userInfo[u].amount + 0 \in Nat /\ userInfo[u].rewardDebt + pay \in Int /\ totalRewardDebt \in Int
      BY <1>1, LiquidityTypes
    <3> QED
      BY <1>1, <1>4, <3>1 DEF L!TypeOK
  <2>2. reward' \in Nat /\ paid' \in [Users -> Nat]
    BY <1>1, <1>4 DEF L!TypeOK
  <2> QED
    BY <1>1, <1>2, <2>1, <2>2, LiquidityTypes DEF L!TypeOK, ScriptTypes, Still
<1>7. TokensCounted'
  <2>1. pool'.balance = pool.balance
    BY <1>2 DEF Still
  <2> QED
    BY <1>1, <1>2, <1>5, <2>1, TokensStill
<1>8. BlocksInOrder'
  BY <1>1, <1>2 DEF BlocksInOrder, Still
<1>9. Shared'
  BY <1>1, <1>2, <1>4, ClaimShares
<1>10. DebtsCounted'
  BY <1>1, <1>4, <1>5, <1>6, DebtMoved
<1>11. NewcomersOweNothing'
  <2> SUFFICES ASSUME NEW v \in Users, deposits'[v] = 0
               PROVE  userInfo'[v].amount = 0 /\ userInfo'[v].rewardDebt = 0
    BY DEF NewcomersOweNothing
  <2>1. userInfo[v].amount = 0 /\ userInfo[v].rewardDebt = 0
    BY <1>1, <1>2 DEF NewcomersOweNothing, Still
  <2>2. CASE v = u
    <3>1. MulTruncate(0, Accumulated) = 0
      BY <1>1, AccumulatorTypes, NothingTruncated
    <3>2. L!Pending(u) = MulTruncate(0, Accumulated) - 0
      BY <1>1, <2>1, <2>2, PendingNow
    <3>3. pay = 0
      BY <1>3, <3>1, <3>2
    <3> QED
      BY <1>5, <2>1, <2>2, <3>3
  <2>3. CASE v # u
    BY <1>5, <2>1, <2>3
  <2> QED
    BY <2>2, <2>3
<1>12. Payable'
  BY <1>1, <1>2, <1>6, <1>7, <1>8, ClaimPayable
<1> QED
  BY <1>6, <1>7, <1>8, <1>9, <1>10, <1>11, <1>12 DEF LiquidityInv

\* The users' accounts are as they were.
LEMMA SameAccounts ==
    ASSUME DebtsCounted, NewcomersOweNothing, UNCHANGED <<userInfo, totalRewardDebt, deposits>>
    PROVE  DebtsCounted' /\ NewcomersOweNothing'
  BY DEF DebtsCounted, NewcomersOweNothing

\* So does a token sent to the contract.
LEMMA GiftStep ==
    ASSUME LiquidityInv, NEW u \in Users, L!Gift(u)
    PROVE  LiquidityInv'
<1>1. /\ L!TypeOK /\ TokensCounted /\ BlocksInOrder
      /\ Shared /\ DebtsCounted /\ NewcomersOweNothing /\ Payable
  BY DEF LiquidityInv
<1>2. /\ changes < MaxChanges /\ changes' = changes + 1 /\ wallet[u] > 0
      /\ wallet' = [wallet EXCEPT ![u] = @ - 1]
      /\ pool' = [pool EXCEPT !.balance = @ + 1]
      /\ UNCHANGED <<block, reward, entitled, updates, userInfo, totalRewardDebt, paid,
                     deposits, withdrawals, rewardPerBlock, endBlock, startBlock, campaigns, stoppedLate,
                     starting, testing>>
  BY DEF L!Gift, L!campaign, L!scripts
<1>3. L!TypeOK'
  <2>1. pool' \in [balance : Nat, lastRewardBlock : Nat, accRewardPerShare : Nat]
    BY <1>1, <1>2 DEF L!TypeOK
  <2>2. wallet' \in [Users -> Nat]
    BY <1>1, <1>2 DEF L!TypeOK
  <2>3. changes' \in 0 .. MaxChanges
    BY <1>1, <1>2, UsersAssumption DEF L!TypeOK
  <2> QED
    BY <1>1, <1>2, <2>1, <2>2, <2>3 DEF L!TypeOK
<1>4. TokensCounted'
  <2>1. wallet \in [Users -> Nat] /\ wallet' \in [Users -> Nat]
        /\ wallet'[u] = wallet[u] - 1 /\ \A v \in Users \ {u} : wallet'[v] = wallet[v]
    BY <1>1, <1>2, <1>3 DEF L!TypeOK
  <2>2. SumFunction(wallet') = SumFunction(wallet) - wallet[u] + wallet'[u]
    <3>1. \A f, g \in [Users -> Nat] :
             (\A v \in Users \ {u} : g[v] = f[v]) => SumFunction(g) = SumFunction(f) - f[u] + g[u]
      BY SumChange, UsersAssumption
    <3> QED
      BY <2>1, <3>1
  <2>3. SumFunction(wallet) \in Nat /\ L!Deposited \in Nat /\ pool.balance \in Nat
        /\ Extra \in Nat /\ L!Supply \in Nat /\ pool'.balance = pool.balance + 1
    BY <1>1, <1>2, <2>1, SumIsTotal, UsersAssumption, DepositedType, LiquidityTypes, SupplyType
       DEF Extra, L!TypeOK
  <2>4. Extra' = Extra /\ L!Deposited' = L!Deposited
    BY <1>2 DEF Extra, L!Deposited
  <2>5. pool'.balance + SumFunction(wallet') + Extra' <= L!Supply /\ L!Deposited' <= pool'.balance
    BY <1>1, <2>1, <2>2, <2>3, <2>4 DEF TokensCounted
  <2>6. ASSUME NEW v \in Users
        PROVE  wallet'[v] + userInfo'[v].amount + (IF v = tester THEN Extra' ELSE 0) <= Tokens[v] + 1
    <3>1. wallet[v] \in Nat /\ userInfo[v].amount \in Nat /\ Tokens[v] \in Nat /\ userInfo' = userInfo
      BY <1>1, <1>2, LiquidityTypes, UsersAssumption
    <3>2. wallet'[v] <= wallet[v] /\ wallet'[v] \in Nat
      BY <2>1, <3>1
    <3> QED
      BY <1>1, <2>3, <2>4, <3>1, <3>2 DEF TokensCounted
  <2> QED
    BY <2>5, <2>6 DEF TokensCounted
<1>5. BlocksInOrder'
  BY <1>1, <1>2 DEF BlocksInOrder, L!TypeOK
<1>6. Shared'
  BY <1>1, <1>2, <1>3, <1>4, GiftShares
<1>7. DebtsCounted' /\ NewcomersOweNothing'
  BY <1>1, <1>2, SameAccounts
<1>8. Payable'
  BY <1>1, <1>2, <1>3, <1>4, <1>5, GiftPayable
<1> QED
  BY <1>3, <1>4, <1>5, <1>6, <1>7, <1>8 DEF LiquidityInv

\* A step that accrues what the blocks so far bring, and changes nobody's tokens.
LEMMA RecountStep ==
    ASSUME LiquidityInv, L!TypeOK', BlocksInOrder', Recounted, UNCHANGED wallet, Extra' <= Extra,
           stoppedLate => stoppedLate'
    PROVE  TokensCounted' /\ Shared' /\ DebtsCounted' /\ NewcomersOweNothing'
<1>1. /\ L!TypeOK /\ TokensCounted /\ BlocksInOrder
      /\ Shared /\ DebtsCounted /\ NewcomersOweNothing /\ Payable
  BY DEF LiquidityInv
<1>2. pool'.balance = pool.balance /\ UNCHANGED <<userInfo, totalRewardDebt, deposits>>
  BY DEF Recounted
<1>3. TokensCounted'
  BY <1>1, <1>2, TokensStill
<1>4. Shared'
  BY <1>1, <1>3, RecountShares
<1> QED
  BY <1>1, <1>2, <1>3, <1>4, SameAccounts

\* So does an update by itself.
LEMMA UpdateStep ==
    ASSUME LiquidityInv, L!doUpdatePool
    PROVE  LiquidityInv'
<1>1. /\ L!TypeOK /\ TokensCounted /\ BlocksInOrder
      /\ Shared /\ DebtsCounted /\ NewcomersOweNothing /\ Payable
  BY DEF LiquidityInv
<1>2. /\ changes < MaxChanges /\ changes' = changes + 1 /\ L!Update(0)
      /\ UNCHANGED <<block, reward, entitled, userInfo, totalRewardDebt, wallet, paid, deposits,
                     withdrawals, rewardPerBlock, endBlock, startBlock, campaigns, stoppedLate,
                     starting, testing>>
  BY DEF L!doUpdatePool, L!users, L!campaign, L!scripts
<1>3. Updated /\ pool'.balance = pool.balance /\ BlocksInOrder'
  <2>1. pool.balance \in Nat
    BY <1>1, LiquidityTypes
  <2>2. Updated /\ pool'.balance = pool.balance + 0 /\ BlocksInOrder'
    BY <1>1, <1>2, <2>1, UpdateEffect
  <2> QED
    BY <2>1, <2>2
<1>4. L!TypeOK'
  <2>1. changes' \in 0 .. MaxChanges
    BY <1>1, <1>2, UsersAssumption DEF L!TypeOK
  <2>2. pool' \in [balance : Nat, lastRewardBlock : Nat, accRewardPerShare : Nat] /\ updates' \in Nat
    BY <1>1, <1>3, LiquidityTypes DEF Updated
  <2> QED
    BY <1>1, <1>2, <2>1, <2>2 DEF L!TypeOK
<1>5. Recounted /\ UNCHANGED wallet /\ Extra' <= Extra
  <2>1. Extra' = Extra /\ Extra \in Nat
    BY <1>2 DEF Extra
  <2> QED
    BY <1>2, <1>3, <2>1 DEF Recounted
<1>6. TokensCounted' /\ Shared' /\ DebtsCounted' /\ NewcomersOweNothing'
  BY <1>2, <1>3, <1>4, <1>5, RecountStep
<1>7. Payable'
  <2>1. L!Ahead' = L!Ahead /\ L!Ahead \in Nat
    BY <1>1, <1>2, AheadType DEF L!Ahead
  <2>2. L!Ahead' <= L!Ahead
    BY <2>1
  <2> QED
    BY <1>1, <1>2, <1>3, <1>4, <1>5, <1>6, <2>2, RecountPayable
<1> QED
  BY <1>3, <1>4, <1>6, <1>7 DEF LiquidityInv

\* So does the end of a campaign, early or late.
LEMMA StopStep ==
    ASSUME LiquidityInv, ScriptTypes', L!stopCampaign, Extra' <= Extra,
           UNCHANGED <<block, reward, entitled, userInfo, totalRewardDebt, wallet, paid, deposits,
                       withdrawals>>
    PROVE  LiquidityInv'
<1>1. /\ L!TypeOK /\ TokensCounted /\ BlocksInOrder
      /\ Shared /\ DebtsCounted /\ NewcomersOweNothing /\ Payable
  BY DEF LiquidityInv
<1>2. /\ L!Update(0) /\ endBlock' = block /\ stoppedLate' = (stoppedLate \/ block > endBlock)
      /\ UNCHANGED <<rewardPerBlock, startBlock>>
  BY DEF L!stopCampaign
<1>3. /\ pool' = [balance |-> pool.balance + 0,
                  lastRewardBlock |-> IF block <= pool.lastRewardBlock \/ endBlock <= pool.lastRewardBlock
                                      THEN pool.lastRewardBlock ELSE block,
                  accRewardPerShare |-> Accumulated]
      /\ updates' = IF L!updatePool = pool THEN updates ELSE updates + 1
  BY <1>1, <1>2, PoolNow DEF L!Update, L!Counted
<1>4. /\ block \in Nat /\ endBlock \in Nat /\ startBlock \in Nat /\ pool.lastRewardBlock \in Nat
      /\ pool.balance \in Nat /\ updates \in Nat /\ Accumulated \in Nat
  BY <1>1, LiquidityTypes, AccumulatorTypes
<1>5. L!TypeOK'
  <2>1. pool' \in [balance : Nat, lastRewardBlock : Nat, accRewardPerShare : Nat] /\ updates' \in Nat
    BY <1>3, <1>4
  <2>2. stoppedLate' \in BOOLEAN
    BY <1>1, <1>2 DEF L!TypeOK
  <2> QED
    BY <1>1, <1>2, <1>4, <2>1, <2>2 DEF L!TypeOK, ScriptTypes
<1>6. BlocksInOrder'
  BY <1>1, <1>2, <1>3, <1>4 DEF BlocksInOrder
<1>7. TokensCounted' /\ DebtsCounted' /\ NewcomersOweNothing'
  <2>1. pool'.balance = pool.balance
    BY <1>3, <1>4
  <2> QED
    BY <1>1, <2>1, TokensStill, SameAccounts
<1>8. CASE block > endBlock
  <2>1. stoppedLate'
    BY <1>2, <1>8
  <2> QED
    BY <1>5, <1>6, <1>7, <2>1 DEF LiquidityInv, Shared, Payable
<1>9. CASE ~(block > endBlock)
  <2>1. Recounted
    <3>1. Multiplier' = 0
      BY <1>2, <1>3, <1>4, <1>9 DEF Multiplier
    <3>2. Updated
      BY <1>1, <1>3, <1>4, <1>5, <3>1, PoolNow DEF Updated, L!TypeOK
    <3> QED
      BY <1>3, <1>4, <3>2 DEF Recounted
  <2>2. stoppedLate => stoppedLate'
    BY <1>2
  <2>3. Shared'
    BY <1>5, <1>6, <2>1, <2>2, RecountStep
  <2>4. L!Ahead' <= L!Ahead
    <3>1. L!Ahead' = 0
      BY <1>2, <1>4 DEF L!Ahead
    <3>2. L!Ahead \in Nat
      BY <1>1, AheadType
    <3> QED
      BY <3>1, <3>2
  <2>5. Payable'
    BY <1>1, <1>2, <1>5, <1>6, <1>7, <2>1, <2>2, <2>4, RecountPayable
  <2> QED
    BY <1>5, <1>6, <1>7, <2>3, <2>5 DEF LiquidityInv
<1> QED
  BY <1>8, <1>9

\* So does the start of a campaign.
LEMMA StartCampaignStep ==
    ASSUME LiquidityInv, ScriptTypes', NEW c \in Campaigns, NEW from \in Nat,
           L!startCampaign(c.rate, from, c.blocks), Extra' <= Extra,
           UNCHANGED <<block, reward, entitled, userInfo, totalRewardDebt, wallet, paid, deposits,
                       withdrawals, stoppedLate>>
    PROVE  LiquidityInv'
<1>1. /\ L!TypeOK /\ TokensCounted /\ BlocksInOrder
      /\ Shared /\ DebtsCounted /\ NewcomersOweNothing /\ Payable
  BY DEF LiquidityInv
<1>2. PICK rate \in Nat, blocks \in Nat : rate = c.rate /\ blocks = c.blocks
  BY UsersAssumption
<1>3. /\ block \in Nat /\ endBlock \in Nat /\ startBlock \in Nat /\ pool.lastRewardBlock \in Nat
      /\ pool.balance \in Nat /\ updates \in Nat /\ Accumulated \in Nat
  BY <1>1, LiquidityTypes, AccumulatorTypes
<1>4. PICK first \in Nat : first = IF from = 0 THEN block ELSE from
  BY <1>3
<1>5. /\ L!Startable(rate, first, blocks)
      /\ pool' = [L!updatePool EXCEPT !.lastRewardBlock = first]
      /\ L!Counted /\ endBlock' = first + blocks /\ rewardPerBlock' = rate /\ startBlock' = first
  BY <1>2, <1>4 DEF L!startCampaign
<1>6. first >= block
  BY <1>5 DEF L!Startable
<1>7. /\ pool' = [balance |-> pool.balance, lastRewardBlock |-> first, accRewardPerShare |-> Accumulated]
      /\ updates' = IF L!updatePool = pool THEN updates ELSE updates + 1
  BY <1>1, <1>5, PoolNow DEF L!Counted
<1>8. L!TypeOK'
  <2>1. pool' \in [balance : Nat, lastRewardBlock : Nat, accRewardPerShare : Nat] /\ updates' \in Nat
        /\ endBlock' \in Nat /\ rewardPerBlock' \in Nat /\ startBlock' \in Nat
    <3>1. pool' \in [balance : Nat, lastRewardBlock : Nat, accRewardPerShare : Nat] /\ updates' \in Nat
      BY <1>3, <1>7
    <3>2. endBlock' \in Nat
      BY <1>5
    <3>3. rewardPerBlock' \in Nat /\ startBlock' \in Nat
      BY <1>5
    <3> QED
      BY <3>1, <3>2, <3>3
  <2> QED
    BY <1>1, <2>1 DEF L!TypeOK, ScriptTypes
<1>9. BlocksInOrder'
  BY <1>3, <1>5, <1>6, <1>7 DEF BlocksInOrder
<1>10. Recounted
  <2>1. Multiplier' = 0
    BY <1>3, <1>6, <1>7 DEF Multiplier
  <2>2. Updated
    BY <1>1, <1>3, <1>7, <1>8, <2>1, PoolNow DEF Updated, L!TypeOK
  <2> QED
    BY <1>7, <2>2 DEF Recounted
<1>11. TokensCounted' /\ Shared' /\ DebtsCounted' /\ NewcomersOweNothing'
  BY <1>8, <1>9, <1>10, RecountStep
<1>12. L!Ahead' <= blocks
  BY <1>3, <1>5, <1>6 DEF L!Ahead
<1>13. Payable'
  BY <1>1, <1>5, <1>8, <1>9, <1>10, <1>11, <1>12, StartPayable
<1> QED
  BY <1>8, <1>9, <1>11, <1>13 DEF LiquidityInv

\* Steps that leave the pool and the accounts alone, and may bring reward.
LEMMA StillStep ==
    ASSUME LiquidityInv, ScriptTypes', UNCHANGED <<block, pool, entitled, updates, userInfo,
                       totalRewardDebt, paid, deposits, withdrawals, rewardPerBlock, endBlock, startBlock,
                       stoppedLate, wallet>>,
           reward' \in Nat, reward <= reward', Extra' <= Extra
    PROVE  LiquidityInv'
<1>1. /\ L!TypeOK /\ TokensCounted /\ BlocksInOrder
      /\ Shared /\ DebtsCounted /\ NewcomersOweNothing /\ Payable
  BY DEF LiquidityInv
<1>2. L!TypeOK'
  BY <1>1 DEF L!TypeOK, ScriptTypes
<1>3. TokensCounted' /\ DebtsCounted' /\ NewcomersOweNothing'
  BY <1>1, TokensStill, SameAccounts
<1>4. BlocksInOrder'
  BY <1>1 DEF BlocksInOrder
<1>5. Still
  BY DEF Still
<1>6. Shared'
  BY <1>1, <1>5, StillShares
<1>7. Payable'
  BY <1>1, <1>2, <1>3, <1>4, <1>5, StillPayable
<1> QED
  BY <1>2, <1>3, <1>4, <1>6, <1>7 DEF LiquidityInv

\* So does the script that adds liquidity, whose pair token Extra counts until it has it.
LEMMA AddLiquidityStep ==
    ASSUME LiquidityInv, ScriptTypes', L!AddLiquidity
    PROVE  LiquidityInv'
<1>1. /\ L!TypeOK /\ TokensCounted /\ BlocksInOrder
      /\ Shared /\ DebtsCounted /\ NewcomersOweNothing /\ Payable
  BY DEF LiquidityInv
<1>2. UNCHANGED <<block, pool, reward, entitled, updates, changes, userInfo,
                  totalRewardDebt, paid, deposits, withdrawals, rewardPerBlock, endBlock, startBlock,
                  campaigns, stoppedLate, starting>>
  BY DEF L!AddLiquidity, L!campaign
<1>3. PICK added \in {0, 1} : wallet' = [wallet EXCEPT ![tester] = @ + added]
  BY DEF L!AddLiquidity
<1>4. Extra = 1 /\ Extra' = 0
  BY DEF L!AddLiquidity, L!Goes, Extra
<1>5. tester \in Users /\ wallet \in [Users -> Nat] /\ wallet' \in [Users -> Nat]
      /\ wallet'[tester] = wallet[tester] + added
      /\ \A v \in Users \ {tester} : wallet'[v] = wallet[v]
  BY <1>1, <1>3, UsersAssumption DEF L!TypeOK
<1>6. L!TypeOK'
  BY <1>1, <1>2, <1>5 DEF L!TypeOK, ScriptTypes
<1>7. L!Deposited' = L!Deposited
  BY <1>2 DEF L!Deposited
<1>8. SumFunction(wallet') = SumFunction(wallet) - wallet[tester] + wallet'[tester]
  <2>1. \A f, g \in [Users -> Nat] :
           (\A v \in Users \ {tester} : g[v] = f[v])
              => SumFunction(g) = SumFunction(f) - f[tester] + g[tester]
    BY <1>5, SumChange, UsersAssumption
  <2> QED
    BY <1>5, <2>1
<1>9. SumFunction(wallet) \in Nat /\ pool.balance \in Nat /\ L!Supply \in Nat /\ wallet[tester] \in Nat
  BY <1>1, <1>5, SumIsTotal, UsersAssumption, LiquidityTypes, SupplyType
<1>10. TokensCounted'
  <2>1. pool'.balance + SumFunction(wallet') + Extra' <= L!Supply
    BY <1>1, <1>2, <1>3, <1>4, <1>5, <1>8, <1>9 DEF TokensCounted
  <2>2. ASSUME NEW v \in Users
        PROVE  wallet'[v] + userInfo'[v].amount + (IF v = tester THEN Extra' ELSE 0) <= Tokens[v] + 1
    <3>1. wallet[v] \in Nat /\ userInfo[v].amount \in Nat /\ Tokens[v] \in Nat
      BY <1>1, LiquidityTypes, UsersAssumption
    <3> QED
      BY <1>1, <1>2, <1>3, <1>4, <1>5, <3>1 DEF TokensCounted
  <2>3. L!Deposited' <= pool'.balance
    BY <1>1, <1>2, <1>7 DEF TokensCounted
  <2> QED
    BY <2>1, <2>2, <2>3 DEF TokensCounted
<1>11. DebtsCounted' /\ NewcomersOweNothing'
  BY <1>1, <1>2, SameAccounts
<1>12. BlocksInOrder'
  BY <1>1, <1>2 DEF BlocksInOrder
<1>13. Still
  BY <1>2 DEF Still
<1>14. Shared'
  BY <1>1, <1>2, <1>13, StillShares
<1>15. Payable'
  <2>1. reward' = reward /\ reward <= reward'
    BY <1>1, <1>2, LiquidityTypes
  <2> QED
    BY <1>1, <1>2, <1>6, <1>10, <1>12, <1>13, <2>1, StillPayable
<1> QED
  BY <1>6, <1>10, <1>11, <1>12, <1>14, <1>15 DEF LiquidityInv

\* So does a block.
LEMMA BlocksMinedStep ==
    ASSUME LiquidityInv, ScriptTypes', L!Mined
    PROVE  LiquidityInv'
<1>1. /\ L!TypeOK /\ TokensCounted /\ BlocksInOrder
      /\ Shared /\ DebtsCounted /\ NewcomersOweNothing /\ Payable
  BY DEF LiquidityInv
<1>2. /\ L!Tick /\ testing' = (IF testing = "advance" THEN "advanced" ELSE testing)
      /\ UNCHANGED <<pool, reward, updates, userInfo, totalRewardDebt, wallet, paid, deposits,
                     withdrawals, rewardPerBlock, endBlock, startBlock, stoppedLate>>
  BY DEF L!Mined, L!users, L!campaign
<1>3. block < MaxBlock /\ block' = block + 1
  BY <1>2 DEF L!Tick
<1>4. entitled' \in [Users -> Nat]
  <2>1. CASE startBlock <= block /\ block < endBlock /\ pool.balance > 0
    <3>1. entitled' = [u \in Users |-> entitled[u]
                         + (rewardPerBlock * userInfo[u].amount * Unit) \div pool.balance]
      BY <1>2, <2>1 DEF L!Tick
    <3>2. ASSUME NEW u \in Users
          PROVE  entitled[u] + (rewardPerBlock * userInfo[u].amount * Unit) \div pool.balance \in Nat
      <4>1. /\ rewardPerBlock \in Nat /\ userInfo[u].amount \in Nat /\ Unit \in Nat /\ entitled[u] \in Nat
            /\ pool.balance \in Nat \ {0}
        BY <1>1, <2>1, LiquidityTypes, SupplyType
      <4>2. rewardPerBlock * userInfo[u].amount * Unit \in Nat
        <5>1. \A i, j \in Nat : i * j \in Nat
          OBVIOUS
        <5> QED
          BY <4>1, <5>1
      <4>3. (rewardPerBlock * userInfo[u].amount * Unit) \div pool.balance \in Nat
        BY <4>1, <4>2, RoundedOnce
      <4> QED
        BY <4>1, <4>3
    <3> QED
      BY <3>1, <3>2
  <2>2. CASE ~(startBlock <= block /\ block < endBlock /\ pool.balance > 0)
    <3>1. entitled' = entitled
      BY <1>2, <2>2 DEF L!Tick
    <3> QED
      BY <1>1, <3>1 DEF L!TypeOK
  <2> QED
    BY <2>1, <2>2
<1>5. L!TypeOK'
  <2>1. block' \in 1 .. MaxBlock
    BY <1>1, <1>3, UsersAssumption DEF L!TypeOK
  <2> QED
    BY <1>1, <1>2, <1>4, <2>1 DEF L!TypeOK, ScriptTypes
<1>6. TokensCounted'
  <2>1. Extra' = Extra /\ Extra \in Nat
    BY <1>2 DEF Extra
  <2>2. Extra' <= Extra
    BY <2>1
  <2> QED
    BY <1>1, <1>2, <2>2, TokensStill
<1>7. BlocksInOrder'
  BY <1>1, <1>2, <1>3, TickEffect
<1>8. Shared'
  BY <1>1, <1>2, <1>5, <1>6, TickShares
<1>9. DebtsCounted' /\ NewcomersOweNothing'
  BY <1>1, <1>2, SameAccounts
<1>10. Payable'
  BY <1>1, <1>2, <1>3, <1>5, <1>6, TickPayable
<1> QED
  BY <1>5, <1>6, <1>7, <1>8, <1>9, <1>10 DEF LiquidityInv

\* So does whatever a user calls.
LEMMA ChangeStep ==
    ASSUME LiquidityInv, NEW u \in Users, L!Change(u)
    PROVE  LiquidityInv'
<1>1. /\ changes < MaxChanges /\ changes' = changes + 1
      /\ UNCHANGED <<block, rewardPerBlock, endBlock, startBlock, entitled, stoppedLate, campaigns,
                     starting, testing>>
  BY DEF L!Change, L!campaign, L!scripts
<1>2. ScriptTypes'
  BY <1>1, UsersAssumption DEF ScriptTypes, LiquidityInv, L!TypeOK
<1>3. Extra' <= Extra
  BY <1>1 DEF Extra
<1>4. ASSUME NEW x \in 1 .. wallet[u], L!deposit(u, x) PROVE LiquidityInv'
  <2>1. x \in Nat
    BY LiquidityTypes DEF LiquidityInv
  <2> QED
    BY <1>1, <1>2, <1>3, <1>4, <2>1, DepositStep
<1>5. ASSUME NEW x \in 0 .. userInfo[u].amount, NEW claiming \in BOOLEAN, L!withdraw(u, x, claiming)
      PROVE  LiquidityInv'
  BY <1>1, <1>2, <1>3, <1>5, WithdrawStep
<1>6. ASSUME L!claim(u) PROVE LiquidityInv'
  BY <1>1, <1>2, <1>3, <1>6, RewardClaimStep
<1> QED
  BY <1>4, <1>5, <1>6 DEF L!Change

\* So does whatever the governor calls.
LEMMA GovernStep ==
    ASSUME LiquidityInv, L!Govern
    PROVE  LiquidityInv'
<1>1. /\ campaigns < MaxCampaigns /\ campaigns' = campaigns + 1
      /\ UNCHANGED <<block, reward, entitled, userInfo, totalRewardDebt, wallet, paid, deposits,
                     withdrawals, changes, starting, testing>>
  BY DEF L!Govern, L!users, L!scripts
<1>2. ScriptTypes'
  BY <1>1, UsersAssumption DEF ScriptTypes, LiquidityInv, L!TypeOK
<1>3. Extra' <= Extra
  BY <1>1 DEF Extra
<1>4. ASSUME NEW c \in Campaigns, NEW from \in {0, block + 1}, L!startCampaign(c.rate, from, c.blocks),
             UNCHANGED stoppedLate
      PROVE  LiquidityInv'
  <2>1. from \in Nat
    BY LiquidityTypes DEF LiquidityInv
  <2> QED
    BY <1>1, <1>2, <1>3, <1>4, <2>1, StartCampaignStep
<1>5. ASSUME L!stopCampaign PROVE LiquidityInv'
  BY <1>1, <1>2, <1>3, <1>5, StopStep
<1> QED
  BY <1>4, <1>5 DEF L!Govern

\* So does the transfer of the rewards to the contract.
LEMMA TransferStep ==
    ASSUME LiquidityInv, L!TransferMined
    PROVE  LiquidityInv'
<1>1. /\ starting' = (IF starting = "transfer" THEN "funded" ELSE "done")
      /\ reward' = reward + Funding
      /\ UNCHANGED <<block, pool, entitled, updates, changes, userInfo, totalRewardDebt, wallet, paid,
                     deposits, withdrawals, rewardPerBlock, endBlock, startBlock, campaigns, stoppedLate,
                     testing>>
  BY DEF L!TransferMined, L!users, L!campaign
<1>2. ScriptTypes'
  BY <1>1 DEF ScriptTypes, LiquidityInv, L!TypeOK
<1>3. Extra' <= Extra
  BY <1>1 DEF Extra
<1>4. reward' \in Nat /\ reward <= reward'
  <2>1. reward \in Nat /\ Funding \in Nat
    BY UsersAssumption DEF LiquidityInv, L!TypeOK
  <2> QED
    BY <1>1, <2>1
<1> QED
  BY <1>1, <1>2, <1>3, <1>4, StillStep

\* So does startLiquidity.js, whose campaign starts or is refused.
LEMMA StartScriptStep ==
    ASSUME LiquidityInv, L!StartScript
    PROVE  LiquidityInv'
<1>1. /\ starting' = (IF starting = "transfer" THEN "waiting" ELSE "done")
      /\ UNCHANGED <<block, reward, entitled, changes, campaigns, stoppedLate, userInfo,
                     totalRewardDebt, wallet, paid, deposits, withdrawals, testing>>
  BY DEF L!StartScript, L!users
<1>2. ScriptTypes'
  BY <1>1 DEF ScriptTypes, LiquidityInv, L!TypeOK
<1>3. Extra' <= Extra
  BY <1>1 DEF Extra
<1>4. ASSUME NEW c \in Campaigns, L!startCampaign(c.rate, 0, c.blocks) PROVE LiquidityInv'
  BY <1>1, <1>2, <1>3, <1>4, StartCampaignStep
<1>5. ASSUME UNCHANGED <<pool, updates, endBlock, rewardPerBlock, startBlock>> PROVE LiquidityInv'
  <2>1. reward' \in Nat /\ reward <= reward'
    BY <1>1, LiquidityTypes DEF LiquidityInv
  <2> QED
    BY <1>1, <1>2, <1>3, <1>5, <2>1, StillStep
<1> QED
  BY <1>4, <1>5 DEF L!StartScript

\* What depositWithdrawLiquidity.js does with the pool is what a user does.
LEMMA TestScriptStep ==
    ASSUME LiquidityInv, L!TestScript
    PROVE  LiquidityInv'
<1>1. L!TypeOK /\ tester \in Users
  BY UsersAssumption DEF LiquidityInv
<1>2. CASE L!AddLiquidity
  <2>1. ScriptTypes'
    BY <1>1, <1>2 DEF L!AddLiquidity, L!Goes, L!campaign, ScriptTypes, L!TypeOK
  <2> QED
    BY <1>2, <2>1, AddLiquidityStep
<1>3. CASE L!TestDeposit
  <2>1. ScriptTypes' /\ Extra' <= Extra
    BY <1>1, <1>3 DEF L!TestDeposit, L!Goes, L!campaign, ScriptTypes, L!TypeOK, Extra
  <2>2. wallet[tester] \in Nat
    BY <1>1, LiquidityTypes
  <2>3. L!deposit(tester, wallet[tester])
        /\ UNCHANGED <<block, rewardPerBlock, endBlock, startBlock, entitled, stoppedLate>>
    BY <1>3 DEF L!TestDeposit, L!campaign
  <2> QED
    BY <1>1, <2>1, <2>2, <2>3, DepositStep
<1>4. CASE L!Look \/ L!MintFails
  <2>1. ScriptTypes' /\ Extra' <= Extra
    BY <1>1, <1>4 DEF L!Look, L!MintFails, L!Goes, L!campaign, ScriptTypes, L!TypeOK, Extra
  <2>2. UNCHANGED <<block, pool, reward, entitled, updates, userInfo, totalRewardDebt, paid, deposits,
                    withdrawals, rewardPerBlock, endBlock, startBlock, stoppedLate, wallet>>
    BY <1>4 DEF L!Look, L!MintFails, L!users, L!campaign
  <2>3. reward' \in Nat /\ reward <= reward'
    BY <1>1, <2>2, LiquidityTypes
  <2> QED
    BY <2>1, <2>2, <2>3, StillStep
<1>5. CASE L!TestExit
  <2>1. ScriptTypes' /\ Extra' <= Extra
    <3>1. testing' \in {"done", "failed"} /\ UNCHANGED <<changes, campaigns, starting>>
      BY <1>5 DEF L!TestExit, L!Goes, L!campaign
    <3>2. Extra' = 0 /\ Extra \in {0, 1}
      BY <3>1 DEF Extra
    <3>3. Extra' <= Extra
      BY <3>2
    <3> QED
      BY <1>1, <3>1, <3>3 DEF ScriptTypes, L!TypeOK
  <2>2. UNCHANGED <<block, rewardPerBlock, endBlock, startBlock, entitled, stoppedLate>>
    BY <1>5 DEF L!TestExit, L!campaign
  <2>3. ASSUME L!withdraw(tester, userInfo[tester].amount, TRUE) PROVE LiquidityInv'
    <3>1. userInfo[tester].amount \in 0 .. userInfo[tester].amount
      BY <1>1, LiquidityTypes
    <3> QED
      BY <1>1, <2>1, <2>2, <2>3, <3>1, WithdrawStep
  <2>4. ASSUME UNCHANGED <<pool, reward, updates, userInfo, totalRewardDebt, wallet, paid, deposits,
                           withdrawals>>
        PROVE  LiquidityInv'
    <3>1. reward' \in Nat /\ reward <= reward'
      BY <1>1, <2>4, LiquidityTypes
    <3> QED
      BY <2>1, <2>2, <2>4, <3>1, StillStep
  <2> QED
    BY <1>5, <2>3, <2>4 DEF L!TestExit, L!users
<1> QED
  BY <1>2, <1>3, <1>4, <1>5 DEF L!TestScript

\* Every step keeps the invariant.
LEMMA LiquidityNext ==
    LiquidityInv /\ [L!Next]_L!liquidityVars => LiquidityInv'
<1> SUFFICES ASSUME LiquidityInv, [L!Next]_L!liquidityVars PROVE LiquidityInv'
  OBVIOUS
<1>1. CASE UNCHANGED L!liquidityVars
  <2>1. UNCHANGED <<block, pool, reward, entitled, updates, userInfo, totalRewardDebt, paid, deposits,
                    withdrawals, rewardPerBlock, endBlock, startBlock, stoppedLate, wallet,
                    changes, campaigns, starting, testing>>
    BY <1>1 DEF L!liquidityVars, L!users, L!campaign, L!scripts
  <2>2. ScriptTypes' /\ Extra' <= Extra
    BY <2>1 DEF ScriptTypes, LiquidityInv, L!TypeOK, Extra
  <2>3. reward' \in Nat /\ reward <= reward'
    BY <2>1, LiquidityTypes DEF LiquidityInv
  <2> QED
    BY <2>1, <2>2, <2>3, StillStep
<1>2. CASE L!Mined
  <2>1. ScriptTypes'
    BY <1>2 DEF L!Mined, L!campaign, ScriptTypes, LiquidityInv, L!TypeOK
  <2> QED
    BY <1>2, <2>1, BlocksMinedStep
<1>3. CASE L!doUpdatePool
  BY <1>3, UpdateStep
<1>4. CASE L!Govern
  BY <1>4, GovernStep
<1>5. ASSUME NEW u \in Users, L!Gift(u) \/ L!Change(u) PROVE LiquidityInv'
  BY <1>5, GiftStep, ChangeStep
<1>6. CASE L!TransferMined
  BY <1>6, TransferStep
<1>7. CASE L!StartScript
  BY <1>7, StartScriptStep
<1>8. CASE L!TestScript
  BY <1>8, TestScriptStep
<1> QED
  BY <1>1, <1>2, <1>3, <1>4, <1>5, <1>6, <1>7, <1>8 DEF L!Next

\* It holds at first.
LEMMA LiquidityInit ==
    L!Init => LiquidityInv
<1> SUFFICES ASSUME L!Init PROVE LiquidityInv
  OBVIOUS
<1> USE FullScaleAssumption
<1>1. /\ block = 1 /\ pool = [balance |-> 0, lastRewardBlock |-> 1, accRewardPerShare |-> 0]
      /\ rewardPerBlock = 0 /\ endBlock = 0 /\ startBlock = 0 /\ totalRewardDebt = 0
      /\ userInfo = [u \in Users |-> [amount |-> 0, rewardDebt |-> 0]]
      /\ reward \in {0, Funding} /\ wallet = Tokens /\ changes = 0 /\ campaigns = 0
      /\ starting \in {"transfer", "idle"} /\ testing \in {"mint", "idle"}
      /\ entitled = [u \in Users |-> 0] /\ paid = [u \in Users |-> 0]
      /\ deposits = [u \in Users |-> 0] /\ withdrawals = [u \in Users |-> 0]
      /\ updates = 0 /\ stoppedLate = FALSE
  BY DEF L!Init
<1>2. L!TypeOK
  <2>1. block \in 1 .. MaxBlock /\ changes \in 0 .. MaxChanges /\ campaigns \in 0 .. MaxCampaigns
    BY <1>1, UsersAssumption
  <2>2. reward \in Nat /\ wallet \in [Users -> Nat]
    BY <1>1, UsersAssumption
  <2>3. pool \in [balance : Nat, lastRewardBlock : Nat, accRewardPerShare : Nat]
    BY <1>1
  <2>4. userInfo \in [Users -> [amount : Nat, rewardDebt : Int]]
    BY <1>1
  <2>5. /\ starting \in {"idle", "transfer", "waiting", "funded", "done"}
        /\ testing \in {"idle", "mint", "deposit", "look", "advance", "advanced", "exit",
                        "done", "failed"}
    BY <1>1
  <2>6. /\ rewardPerBlock \in Nat /\ endBlock \in Nat /\ startBlock \in Nat /\ totalRewardDebt \in Int
        /\ entitled \in [Users -> Nat] /\ paid \in [Users -> Nat]
        /\ deposits \in [Users -> Nat] /\ withdrawals \in [Users -> Nat]
        /\ updates \in Nat
    BY <1>1
  <2>7. stoppedLate \in BOOLEAN
    BY <1>1
  <2> QED
    BY <2>1, <2>2, <2>3, <2>4, <2>5, <2>6, <2>7 DEF L!TypeOK
<1>3. \A u \in Users : userInfo[u].amount = 0 /\ userInfo[u].rewardDebt = 0 /\ entitled[u] = 0
                       /\ paid[u] = 0 /\ deposits[u] = 0 /\ withdrawals[u] = 0
  BY <1>1
<1>4. L!Deposited = 0
  <2>1. [u \in Users |-> userInfo[u].amount] = [u \in Users |-> 0]
    BY <1>3
  <2>2. L!Deposited = SumFunction([u \in Users |-> userInfo[u].amount])
    BY <1>2, DepositedType
  <2> QED
    BY <2>1, <2>2, ZeroSum
<1>5. TokensCounted
  <2>1. L!Supply = SumFunction(Tokens) + 1 /\ SumFunction(Tokens) \in Nat
    BY SameSum, SumIsTotal, UsersAssumption DEF L!Supply
  <2>2. Extra \in 0 .. 1
    BY DEF Extra
  <2>3. pool.balance + SumFunction(wallet) + Extra <= L!Supply /\ L!Deposited <= pool.balance
    BY <1>1, <1>4, <2>1, <2>2
  <2>4. ASSUME NEW u \in Users
        PROVE  wallet[u] + userInfo[u].amount + (IF u = tester THEN Extra ELSE 0) <= Tokens[u] + 1
    <3>1. Tokens[u] \in Nat /\ wallet[u] = Tokens[u] /\ userInfo[u].amount = 0
      BY <1>1, <1>3, UsersAssumption
    <3> QED
      BY <2>2, <3>1
  <2> QED
    BY <2>3, <2>4 DEF TokensCounted
<1>6. BlocksInOrder
  BY <1>1 DEF BlocksInOrder
<1>7. Multiplier = 0 /\ Brought = 0 /\ MostPerShare = 0 /\ L!Ahead = 0
  <2>1. Multiplier = 0
    BY <1>1 DEF Multiplier
  <2>2. (0 * 0) * FullScale = 0
    OBVIOUS
  <2> QED
    BY <1>1, <1>4, <2>1, <2>2 DEF Brought, MostPerShare, L!Ahead
<1>8. Shared
  <2> SUFFICES ASSUME NEW u \in Users PROVE AtMostTheShare(u) /\ AtLeastTheShare(u)
    BY DEF Shared
  <2>1. Value(u) = 0
    <3>1. PICK W \in Nat : W = Worth
      BY <1>2, <1>5, PoolShared
    <3>2. PICK S \in Nat : S = Unit * FullScale
      BY SupplyType
    <3>3. S * (0 - 0) + 0 * W = 0
      OBVIOUS
    <3> QED
      BY <1>3, <3>1, <3>2, <3>3 DEF Value
  <2>2. Unit \in Nat /\ Tokens[u] \in Nat
    BY SupplyType, UsersAssumption
  <2>3. FullScale * 0 = 0 /\ (Unit * FullScale) * 0 = 0
    BY <2>2
  <2>4. (0 * Unit) * (Tokens[u] + 1) = 0
    BY <2>2
  <2> QED
    BY <1>1, <1>3, <2>1, <2>3, <2>4 DEF AtMostTheShare, AtLeastTheShare
<1>9. DebtsCounted
  <2>1. [u \in Users |-> Plus(userInfo[u].rewardDebt)] = [u \in Users |-> 0]
        /\ [u \in Users |-> Plus(-userInfo[u].rewardDebt)] = [u \in Users |-> 0]
    BY <1>3 DEF Plus
  <2> QED
    BY <1>1, <2>1, ZeroSum DEF DebtsCounted
<1>10. NewcomersOweNothing
  BY <1>3 DEF NewcomersOweNothing
<1>11. SumFunction(Excess) = 0
  <2>1. ASSUME NEW u \in Users PROVE Exceeding(u) = 0
    <3>1. FullScale * 0 - (0 * (0 + 0) + FullScale * 0) = 0
      OBVIOUS
    <3> QED
      BY <1>1, <1>3, <1>7, <3>1 DEF Exceeding
  <2>2. Excess = [u \in Users |-> 0]
    BY <2>1 DEF Excess, Plus
  <2> QED
    BY <2>2, ZeroSum
<1>12. Given = 0 /\ Rounding = 0
  BY <1>1, <1>4 DEF Given, Rounding
<1>13. ExcessBounded
  <2>1. 0 * 0 + 0 = 0
    OBVIOUS
  <2> QED
    BY <1>1, <1>11, <1>12, <2>1 DEF ExcessBounded
<1>14. RewardCovers
  <2>1. PICK held \in Nat, count \in Nat : held = reward /\ count = SumFunction(deposits)
    BY <1>2, <1>5, ExcessTypes, LiquidityTypes
  <2>2. FullScale * held \in Nat /\ FullScale * count \in Nat /\ FullScale * (0 * 0) = 0 /\ FullScale * 0 = 0
        /\ 0 * 0 = 0
    OBVIOUS
  <2>3. 0 * 0 + 0 + 0 + FullScale * (0 * 0)
          <= FullScale * held + FullScale * count + 0 + FullScale * 0
    BY <2>2
  <2> QED
    BY <1>1, <1>4, <1>7, <1>11, <1>12, <2>1, <2>3 DEF RewardCovers
<1> QED
  BY <1>2, <1>5, <1>6, <1>8, <1>9, <1>10, <1>13, <1>14 DEF LiquidityInv, Payable

\* It holds at all times.
LEMMA LiquidityAlways ==
    L!Spec => []LiquidityInv
<1>1. L!Init => LiquidityInv
  BY LiquidityInit
<1>2. LiquidityInv /\ [L!Next]_L!liquidityVars => LiquidityInv'
  BY LiquidityNext
<1> QED
  BY <1>1, <1>2, PTL DEF L!Spec
-----------------------------------------------------------------------------
(* What that means for the users.                                           *)

\* A common factor can be left out of a comparison.
LEMMA TimesAtMost ==
    ASSUME NEW k \in Nat \ {0}, NEW a \in Int, NEW b \in Int, k * a <= k * b
    PROVE  a <= b
<1>1. ASSUME b + 1 <= a PROVE FALSE
  <2>1. k * (b + 1) <= k * a
    BY <1>1, TimesMonotone
  <2>2. k * (b + 1) = k * b + k /\ k * b \in Int /\ k * a \in Int
    OBVIOUS
  <2> QED
    BY <2>1, <2>2
<1> QED
  BY <1>1

\* What is shown is the exact worth of a share, rounded once.
LEMMA WorthNow ==
    ASSUME L!TypeOK, TokensCounted
    PROVE  /\ Unit * Accumulated \in Nat /\ Worth \in Nat
           /\ Unit * Accumulated <= Worth /\ Worth <= Unit * Accumulated + Unit
<1>1. /\ Unit \in Nat \ {0} /\ Worth \in Nat /\ PerToken \in Nat
      /\ pool.accRewardPerShare \in Nat /\ Increment \in Nat /\ Brought \in Nat /\ pool.balance \in Nat
  BY SupplyType, PoolShared, LiquidityTypes, AccumulatorTypes
<1>2. Unit * Increment <= Brought * PerToken /\ Brought * PerToken <= Unit * Increment + Unit
  <2>1. CASE pool.balance = 0
    <3>1. Increment = 0 /\ PerToken = 0
      BY <2>1 DEF Increment, PerToken
    <3> QED
      BY <1>1, <3>1
  <2>2. CASE pool.balance # 0
    <3>1. Increment = Brought \div pool.balance /\ pool.balance * PerToken = Unit
      BY <2>2, PoolShared DEF Increment
    <3>2. Increment * Unit <= Brought * PerToken /\ Brought * PerToken <= Increment * Unit + Unit
      BY <1>1, <2>2, <3>1, RoundedOnce
    <3> QED
      BY <1>1, <3>2
  <2> QED
    BY <2>1, <2>2
<1>3. /\ Unit * (pool.accRewardPerShare + Increment) = Unit * pool.accRewardPerShare + Unit * Increment
      /\ Unit * pool.accRewardPerShare \in Nat /\ Unit * Increment \in Nat /\ Brought * PerToken \in Nat
  BY <1>1
<1> QED
  BY <1>1, <1>2, <1>3 DEF Worth, Accumulated

\* What a share is worth, and what is paid for it.
LEMMA PaidForShare ==
    ASSUME NEW U \in Nat, NEW a \in Nat, NEW acc \in Nat, NEW W \in Nat, NEW h \in Int,
           U * acc <= W, W <= U * acc + U
    PROVE  /\ FullScale * (U * (h + MulTruncate(a, acc))) <= (U * FullScale) * h + a * W
           /\ (U * FullScale) * h + a * W
                <= FullScale * (U * (h + MulTruncate(a, acc))) + U * FullScale + U * a
           /\ (U * FullScale) * h + a * W \in Int
<1> USE FullScaleAssumption
<1> DEFINE full == MulTruncate(a, acc)
<1>1. full \in Nat
  BY MulTruncateBounds
<1>2. FullScale * full <= a * acc /\ a * acc <= FullScale * full + FullScale
  <2> DEFINE n == a * acc
  <2>1. n \in Nat /\ full = n \div FullScale
    BY DEF MulTruncate
  <2> HIDE DEF n, full
  <2>2. FullScale * full <= n /\ n < FullScale * (full + 1)
    BY <2>1, DivBounds
  <2>3. FullScale * (full + 1) = FullScale * full + FullScale /\ FullScale * full \in Int
    BY <1>1
  <2>4. FullScale * full <= n /\ n <= FullScale * full + FullScale
    BY <2>1, <2>2, <2>3
  <2> QED
    BY <2>4 DEF n
<1> HIDE DEF full
<1> DEFINE n == a * acc
           m == FullScale * full
<1>3. n \in Nat /\ m \in Nat /\ m <= n /\ n <= m + FullScale
  BY <1>1, <1>2
<1>4. /\ a * (U * acc) <= a * W /\ a * W <= a * (U * acc + U)
      /\ a * (U * acc) = U * n /\ a * (U * acc + U) = U * n + U * a
  BY TimesMonotone
<1>5. FullScale * (U * (h + full)) = (U * FullScale) * h + U * m
  BY <1>1
<1> HIDE DEF n, m
<1>6. U * m <= U * n /\ U * n <= U * (m + FullScale) /\ U * (m + FullScale) = U * m + U * FullScale
  BY <1>3, TimesMonotone
<1>7. U * n \in Int /\ U * m \in Int /\ a * W \in Int /\ U * a \in Int /\ U * FullScale \in Int
      /\ (U * FullScale) * h \in Int
  BY <1>3
<1>8. /\ FullScale * (U * (h + full)) <= (U * FullScale) * h + a * W
      /\ (U * FullScale) * h + a * W <= FullScale * (U * (h + full)) + U * FullScale + U * a
  BY <1>4, <1>5, <1>6, <1>7
<1> QED
  BY <1>7, <1>8 DEF full

\* In whole units of reward: nobody has more than their share and what deposits round.
LEMMA OverpaidNobody ==
    LiquidityInv => L!NobodyOverpaid
<1> SUFFICES ASSUME LiquidityInv, ~stoppedLate, NEW u \in Users
             PROVE  Unit * (L!Have(u) - deposits[u]) <= entitled[u]
  BY DEF L!NobodyOverpaid
<1> USE FullScaleAssumption
<1>1. L!TypeOK /\ TokensCounted /\ AtMostTheShare(u)
  BY DEF LiquidityInv, Shared
<1>2. PICK U \in Nat, W \in Nat, acc \in Nat, a \in Nat, h \in Int, d \in Nat, e \in Nat :
         /\ U = Unit /\ W = Worth /\ acc = Accumulated /\ a = userInfo[u].amount
         /\ h = paid[u] - userInfo[u].rewardDebt /\ d = deposits[u] /\ e = entitled[u]
  <2>1. /\ Unit \in Nat /\ Worth \in Nat /\ Accumulated \in Nat /\ userInfo[u].amount \in Nat
        /\ paid[u] - userInfo[u].rewardDebt \in Int /\ deposits[u] \in Nat
        /\ withdrawals[u] \in Nat /\ entitled[u] \in Nat
    BY <1>1, SupplyType, WorthNow, AccumulatorTypes, LiquidityTypes
  <2> QED
    BY <2>1
<1>3. L!Have(u) = h + MulTruncate(a, acc) /\ MulTruncate(a, acc) \in Nat
  <2>1. MulTruncate(a, acc) \in Nat
    BY MulTruncateBounds
  <2>2. L!Pending(u) = MulTruncate(a, acc) - userInfo[u].rewardDebt
    BY <1>1, <1>2, PendingNow
  <2>3. paid[u] \in Int /\ userInfo[u].rewardDebt \in Int
    BY <1>1, LiquidityTypes
  <2> QED
    BY <1>2, <2>1, <2>2, <2>3 DEF L!Have
<1>4. PICK v \in Int : v = Value(u)
  BY <1>1, ValueType
<1>5. v = (U * FullScale) * h + a * W /\ v <= FullScale * e + (U * FullScale) * d
  BY <1>1, <1>2, <1>4 DEF Value, AtMostTheShare
<1>6. PICK f \in Nat : f = MulTruncate(a, acc)
  BY <1>3
<1>7. FullScale * (U * (h + f)) <= v
  <2>1. U * acc <= W /\ W <= U * acc + U
    BY <1>1, <1>2, WorthNow
  <2> QED
    BY <1>5, <1>6, <2>1, PaidForShare
<1>8. FullScale * (U * (h + f - d)) <= FullScale * e
  <2>1. FullScale * (U * (h + f - d)) = FullScale * (U * (h + f)) - (U * FullScale) * d
    OBVIOUS
  <2>2. FullScale * (U * (h + f)) \in Int /\ (U * FullScale) * d \in Int /\ FullScale * e \in Int
    OBVIOUS
  <2> QED
    BY <1>5, <1>7, <2>1, <2>2
<1>9. U * (h + f - d) <= e
  <2>1. U * (h + f - d) \in Int
    OBVIOUS
  <2> QED
    BY <1>8, <2>1, TimesAtMost
<1> QED
  BY <1>2, <1>3, <1>6, <1>9

\* Nor less, but for what withdrawals and updates round.
LEMMA ForgottenNobody ==
    LiquidityInv => L!NobodyForgotten
<1> SUFFICES ASSUME LiquidityInv, pool.balance = L!Deposited, ~stoppedLate, NEW u \in Users
             PROVE  entitled[u] <= Unit * (L!Have(u) + 1 + withdrawals[u])
                              + ((updates + 1) * Unit * (Tokens[u] + 1)) \div FullScale
  BY DEF L!NobodyForgotten
<1> USE FullScaleAssumption
<1>1. L!TypeOK /\ TokensCounted /\ AtLeastTheShare(u)
  BY DEF LiquidityInv, Shared
<1>2. PICK U \in Nat, W \in Nat, acc \in Nat, a \in Nat, h \in Int, w \in Nat, e \in Nat :
         /\ U = Unit /\ W = Worth /\ acc = Accumulated /\ a = userInfo[u].amount
         /\ h = paid[u] - userInfo[u].rewardDebt /\ w = withdrawals[u] /\ e = entitled[u]
  <2>1. /\ Unit \in Nat /\ Worth \in Nat /\ Accumulated \in Nat /\ userInfo[u].amount \in Nat
        /\ paid[u] - userInfo[u].rewardDebt \in Int /\ deposits[u] \in Nat
        /\ withdrawals[u] \in Nat /\ entitled[u] \in Nat
    BY <1>1, SupplyType, WorthNow, AccumulatorTypes, LiquidityTypes
  <2> QED
    BY <2>1
<1>3. L!Have(u) = h + MulTruncate(a, acc) /\ MulTruncate(a, acc) \in Nat
  <2>1. MulTruncate(a, acc) \in Nat
    BY MulTruncateBounds
  <2>2. L!Pending(u) = MulTruncate(a, acc) - userInfo[u].rewardDebt
    BY <1>1, <1>2, PendingNow
  <2>3. paid[u] \in Int /\ userInfo[u].rewardDebt \in Int
    BY <1>1, LiquidityTypes
  <2> QED
    BY <1>2, <2>1, <2>2, <2>3 DEF L!Have
<1>4. PICK f \in Nat, most \in Nat, i \in Nat : f = MulTruncate(a, acc) /\ most = Tokens[u] + 1 /\ i = updates
  BY <1>1, <1>3, UsersAssumption, LiquidityTypes
<1>5. a <= most
  BY <1>1, <1>2, <1>4, UsersAssumption, LiquidityTypes DEF TokensCounted, Extra
<1>6. PICK v \in Int : v = (U * FullScale) * h + a * W
  BY <1>2
<1>7. FullScale * e <= v + (U * FullScale) * w + (i * U) * most
  BY <1>1, <1>2, <1>4, <1>6 DEF Value, AtLeastTheShare
<1>8. v <= FullScale * (U * (h + f)) + U * FullScale + U * a
  <2>1. U * acc <= W /\ W <= U * acc + U
    BY <1>1, <1>2, WorthNow
  <2> QED
    BY <1>4, <1>6, <2>1, PaidForShare
<1>9. U * a <= U * most
  BY <1>5, TimesMonotone
<1> DEFINE x == U * (h + f + 1 + w)
           y == (i + 1) * U * most
<1>10. FullScale * e <= FullScale * x + y
  <2>1. FullScale * x = FullScale * (U * (h + f)) + U * FullScale + (U * FullScale) * w
    OBVIOUS
  <2>2. y = (i * U) * most + U * most
    OBVIOUS
  <2>3. /\ FullScale * (U * (h + f)) \in Int /\ U * FullScale \in Int /\ (U * FullScale) * w \in Int
        /\ (i * U) * most \in Int /\ U * most \in Int /\ U * a \in Int /\ FullScale * e \in Int
    OBVIOUS
  <2> HIDE DEF x, y
  <2> QED
    BY <1>7, <1>8, <1>9, <2>1, <2>2, <2>3
<1>11. x \in Int /\ y \in Nat
  <2>1. \A j, k \in Nat : j * k \in Nat
    OBVIOUS
  <2>2. i + 1 \in Nat
    OBVIOUS
  <2>3. y \in Nat
    BY <2>1, <2>2
  <2> QED
    BY <2>3
<1> HIDE DEF x, y
<1>12. FullScale * (e - x) <= y
  <2>1. FullScale * (e - x) = FullScale * e - FullScale * x /\ FullScale * e \in Int /\ FullScale * x \in Int
    BY <1>11
  <2> QED
    BY <1>10, <1>11, <2>1
<1>13. e - x <= y \div FullScale /\ y \div FullScale \in Int
  BY <1>11, <1>12, DivAtLeast, DivBounds
<1>14. e <= x + y \div FullScale
  BY <1>11, <1>13
<1>15. x = Unit * (L!Have(u) + 1 + withdrawals[u])
       /\ y = (updates + 1) * Unit * (Tokens[u] + 1)
  BY <1>2, <1>3, <1>4 DEF x, y
<1> QED
  BY <1>2, <1>14, <1>15

\* What a user is owed is no more than their shares, their debt and what they exceed.
LEMMA OwedWithin ==
    ASSUME NEW full \in Nat, NEW debt \in Int, NEW w \in Nat, NEW x \in Nat, NEW most \in Nat,
           FullScale * full <= x * most
    PROVE  FullScale * Plus(full - debt) + FullScale * Plus(debt)
             <= x * most + FullScale * w + Plus(FullScale * debt - (x * most + FullScale * w))
                  + FullScale * Plus(-debt)
<1> USE FullScaleAssumption
<1> DEFINE n == x * most
           d == FullScale * debt
           f == FullScale * full
           v == FullScale * w
<1>1. n \in Nat /\ d \in Int /\ f \in Nat /\ v \in Nat /\ f <= n
  OBVIOUS
<1>2. FullScale * (full - debt) = f - d /\ FullScale * (-debt) = -d /\ FullScale * 0 = 0
  OBVIOUS
<1>3. 0 <= debt => 0 <= d
  <2>1. 0 <= debt => FullScale * 0 <= FullScale * debt
    BY TimesMonotone
  <2> QED
    BY <1>2, <2>1
<1>4. debt <= 0 => d <= 0
  <2>1. debt <= 0 => FullScale * debt <= FullScale * 0
    BY TimesMonotone
  <2> QED
    BY <1>2, <2>1
<1> HIDE DEF n, d, f, v
<1>5. /\ FullScale * Plus(full - debt) = (IF full - debt > 0 THEN f - d ELSE 0)
      /\ FullScale * Plus(debt) = (IF debt > 0 THEN d ELSE 0)
      /\ FullScale * Plus(-debt) = (IF debt < 0 THEN -d ELSE 0)
  BY <1>2 DEF Plus, d
<1>6. (IF full - debt > 0 THEN f - d ELSE 0) + (IF debt > 0 THEN d ELSE 0)
        <= n + v + Plus(d - (n + v)) + (IF debt < 0 THEN -d ELSE 0)
  BY <1>1, <1>3, <1>4 DEF Plus
<1> QED
  BY <1>5, <1>6 DEF n, d, v

Owing == [u \in Users |-> Plus(L!Pending(u))]
Debts == [u \in Users |-> Plus(userInfo[u].rewardDebt)]
Credits == [u \in Users |-> Plus(-userInfo[u].rewardDebt)]

\* And so in all.
LEMMA OwedInAll ==
    ASSUME L!TypeOK, TokensCounted
    PROVE  /\ Owing \in [Users -> Nat] /\ Debts \in [Users -> Nat] /\ Credits \in [Users -> Nat]
           /\ FullScale * SumFunction(Owing) + FullScale * SumFunction(Debts)
                <= L!Deposited * (pool.accRewardPerShare + MostPerShare)
                     + FullScale * SumFunction(withdrawals) + SumFunction(Excess)
                     + FullScale * SumFunction(Credits)
<1> USE FullScaleAssumption
<1> DEFINE amounts == [u \in Users |-> userInfo[u].amount]
<1>1. /\ \A u \in Users : L!Pending(u) \in Int /\ userInfo[u].rewardDebt \in Int
                          /\ -userInfo[u].rewardDebt \in Int
      /\ pool.accRewardPerShare + MostPerShare \in Nat /\ Accumulated \in Nat
  BY PendingNow, LiquidityTypes, ExcessTypes, AccumulatorTypes
<1>2. Owing \in [Users -> Nat] /\ Debts \in [Users -> Nat] /\ Credits \in [Users -> Nat]
  BY <1>1, PlusBounds DEF Owing, Debts, Credits
<1>3. /\ amounts \in [Users -> Nat] /\ L!Deposited = SumFunction(amounts)
      /\ withdrawals \in [Users -> Nat] /\ Excess \in [Users -> Nat]
  BY DepositedType, ExcessTypes DEF L!TypeOK
<1>4. PICK most \in Nat : most = pool.accRewardPerShare + MostPerShare
  BY <1>1
<1> DEFINE due == [u \in Users |-> FullScale * Owing[u] + (FullScale * Debts[u])]
           debt == [u \in Users |-> FullScale * Debts[u] + 0]
           credit == [u \in Users |-> FullScale * Credits[u] + Excess[u]]
           rounded == [u \in Users |-> FullScale * withdrawals[u] + credit[u]]
           covered == [u \in Users |-> most * amounts[u] + rounded[u]]
           zero == [u \in Users |-> 0]
<1>5. \A i, j \in Nat : i * j \in Nat /\ i * j + 0 = i * j
  OBVIOUS
<1>6. /\ due \in [Users -> Nat] /\ debt \in [Users -> Nat] /\ credit \in [Users -> Nat]
      /\ rounded \in [Users -> Nat] /\ covered \in [Users -> Nat] /\ zero \in [Users -> Nat]
  <2>1. FullScale \in Nat
    OBVIOUS
  <2>2. \A i, j, k \in Nat : i * j + k \in Nat
    BY <1>5
  <2>3. \A u \in Users : FullScale * Debts[u] \in Nat /\ Owing[u] \in Nat /\ Debts[u] \in Nat
                         /\ Credits[u] \in Nat /\ Excess[u] \in Nat /\ withdrawals[u] \in Nat
                         /\ amounts[u] \in Nat
    BY <1>2, <1>3, <1>5, <2>1
  <2>4. due \in [Users -> Nat] /\ debt \in [Users -> Nat] /\ credit \in [Users -> Nat]
        /\ zero \in [Users -> Nat]
    BY <2>1, <2>2, <2>3
  <2>5. rounded \in [Users -> Nat]
    BY <2>1, <2>2, <2>3, <2>4
  <2>6. covered \in [Users -> Nat]
    BY <2>2, <2>3, <2>5
  <2> QED
    BY <2>4, <2>5, <2>6
<1>7. ASSUME NEW u \in Users PROVE due[u] <= covered[u]
  <2>1. PICK x \in Nat, d \in Int, w \in Nat, full \in Nat, acc \in Nat :
           /\ x = userInfo[u].amount /\ d = userInfo[u].rewardDebt /\ w = withdrawals[u]
           /\ acc = Accumulated /\ full = MulTruncate(x, acc)
    <3>1. userInfo[u].amount \in Nat /\ userInfo[u].rewardDebt \in Int /\ withdrawals[u] \in Nat
      BY LiquidityTypes
    <3>2. MulTruncate(userInfo[u].amount, Accumulated) \in Nat
      BY <1>1, <3>1, MulTruncateBounds
    <3> QED
      BY <1>1, <3>1, <3>2
  <2>2. FullScale * full <= x * most
    <3>1. MulTruncate(x, acc) * FullScale <= x * acc
      BY MulTruncateBounds
    <3>2. full * FullScale = FullScale * full /\ x * acc \in Int /\ x * most \in Int
      OBVIOUS
    <3>3. x * acc <= x * most
      BY <1>4, <2>1, IncrementBounded
    <3> QED
      BY <2>1, <3>1, <3>2, <3>3
  <2>3. Owing[u] = Plus(full - d) /\ Debts[u] = Plus(d) /\ Credits[u] = Plus(-d)
    <3>1. L!Pending(u) = full - d
      BY <2>1, PendingNow
    <3> QED
      BY <2>1, <3>1 DEF Owing, Debts, Credits
  <2>4. Excess[u] = Plus(FullScale * d - (x * most + FullScale * w))
    <3>1. Exceeding(u) = FullScale * d - (x * most + FullScale * w)
      BY <1>4, <2>1 DEF Exceeding
    <3> QED
      BY <3>1 DEF Excess
  <2>5. due[u] <= x * most + FullScale * w + Excess[u] + FullScale * Credits[u]
    BY <2>2, <2>3, <2>4, OwedWithin
  <2>6. covered[u] = x * most + FullScale * w + Excess[u] + FullScale * Credits[u]
    <3>1. covered[u] = most * x + (FullScale * w + (FullScale * Credits[u] + Excess[u]))
      BY <2>1
    <3>2. most * x = x * most /\ x * most \in Int /\ FullScale * w \in Int
      OBVIOUS
    <3>3. FullScale * Credits[u] \in Int /\ Excess[u] \in Int
      BY <1>2, <1>3
    <3> HIDE DEF covered
    <3> QED
      BY <3>1, <3>2, <3>3
  <2> QED
    BY <2>5, <2>6
<1>8. /\ \A u \in Users : debt[u] = FullScale * Debts[u] + zero[u]
      /\ \A u \in Users : due[u] = FullScale * Owing[u] + debt[u]
      /\ \A u \in Users : credit[u] = FullScale * Credits[u] + Excess[u]
      /\ \A u \in Users : rounded[u] = FullScale * withdrawals[u] + credit[u]
      /\ \A u \in Users : covered[u] = most * amounts[u] + rounded[u]
  <2>1. \A u \in Users : FullScale * Debts[u] + 0 = FullScale * Debts[u]
    BY <1>2, <1>5
  <2> QED
    BY <2>1
<1>9. SumFunction(zero) = 0
  BY ZeroSum
<1> HIDE DEF due, debt, credit, rounded, covered, amounts, zero
<1>10. SumFunction(due) <= SumFunction(covered)
  BY <1>6, <1>7, SumMonotone, UsersAssumption
<1>11. FullScale \in Nat /\ IsFiniteSet(Users)
  BY UsersAssumption
<1>12. SumFunction(debt) = FullScale * SumFunction(Debts) + SumFunction(zero)
  <2>1. Debts \in [Users -> Nat] /\ zero \in [Users -> Nat] /\ debt \in [Users -> Nat]
    BY <1>2, <1>3, <1>6
  <2>2. \A u \in Users : debt[u] = FullScale * Debts[u] + zero[u]
    BY <1>8
  <2> QED
    BY <1>11, <2>1, <2>2, SumLinear
<1>13. SumFunction(due) = FullScale * SumFunction(Owing) + SumFunction(debt)
  <2>1. Owing \in [Users -> Nat] /\ debt \in [Users -> Nat] /\ due \in [Users -> Nat]
    BY <1>2, <1>3, <1>6
  <2>2. \A u \in Users : due[u] = FullScale * Owing[u] + debt[u]
    BY <1>8
  <2> QED
    BY <1>11, <2>1, <2>2, SumLinear
<1>14. SumFunction(credit) = FullScale * SumFunction(Credits) + SumFunction(Excess)
  <2>1. Credits \in [Users -> Nat] /\ Excess \in [Users -> Nat] /\ credit \in [Users -> Nat]
    BY <1>2, <1>3, <1>6
  <2>2. \A u \in Users : credit[u] = FullScale * Credits[u] + Excess[u]
    BY <1>8
  <2> QED
    BY <1>11, <2>1, <2>2, SumLinear
<1>15. SumFunction(rounded) = FullScale * SumFunction(withdrawals) + SumFunction(credit)
  <2>1. withdrawals \in [Users -> Nat] /\ credit \in [Users -> Nat] /\ rounded \in [Users -> Nat]
    BY <1>2, <1>3, <1>6
  <2>2. \A u \in Users : rounded[u] = FullScale * withdrawals[u] + credit[u]
    BY <1>8
  <2> QED
    BY <1>11, <2>1, <2>2, SumLinear
<1>16. SumFunction(covered) = most * SumFunction(amounts) + SumFunction(rounded)
  <2>1. amounts \in [Users -> Nat] /\ rounded \in [Users -> Nat] /\ covered \in [Users -> Nat]
    BY <1>2, <1>3, <1>6
  <2>2. \A u \in Users : covered[u] = most * amounts[u] + rounded[u]
    BY <1>8
  <2> QED
    BY <1>11, <2>1, <2>2, SumLinear
<1>17. /\ SumFunction(Owing) \in Nat /\ SumFunction(Debts) \in Nat /\ SumFunction(Credits) \in Nat
       /\ SumFunction(withdrawals) \in Nat /\ SumFunction(Excess) \in Nat /\ SumFunction(amounts) \in Nat
  BY <1>2, <1>3, SumIsTotal, UsersAssumption
<1>18. /\ FullScale * SumFunction(Owing) \in Int /\ FullScale * SumFunction(Debts) \in Int
       /\ FullScale * SumFunction(Credits) \in Int /\ FullScale * SumFunction(withdrawals) \in Int
       /\ most * SumFunction(amounts) = SumFunction(amounts) * most /\ most * SumFunction(amounts) \in Int
  BY <1>17
<1>19. FullScale * SumFunction(Owing) + FullScale * SumFunction(Debts)
         <= SumFunction(amounts) * most + FullScale * SumFunction(withdrawals) + SumFunction(Excess)
              + FullScale * SumFunction(Credits)
  BY <1>9, <1>10, <1>12, <1>13, <1>14, <1>15, <1>16, <1>17, <1>18
<1> QED
  BY <1>2, <1>3, <1>4, <1>19

\* What the contract has covers what is owed, summed over those who are owed something.
LEMMA CoveredAlways ==
    LiquidityInv => L!Covered
<1> USE FullScaleAssumption
<1> DEFINE owing == {u \in Users : L!Pending(u) > 0}
           owed == [u \in owing |-> L!Pending(u)]
<1> SUFFICES ASSUME LiquidityInv, ~stoppedLate
             PROVE  SumFunction(owed) + rewardPerBlock * L!Ahead
                      <= reward + SumFunction(deposits) + SumFunction(withdrawals) + L!Slack
  BY SameSum DEF L!Covered
<1>1. L!TypeOK /\ TokensCounted /\ BlocksInOrder /\ DebtsCounted /\ RewardCovers
  BY DEF LiquidityInv, Payable
<1>2. /\ Owing \in [Users -> Nat] /\ Debts \in [Users -> Nat] /\ Credits \in [Users -> Nat]
      /\ FullScale * SumFunction(Owing) + FullScale * SumFunction(Debts)
           <= L!Deposited * (pool.accRewardPerShare + MostPerShare)
                + FullScale * SumFunction(withdrawals) + SumFunction(Excess)
                + FullScale * SumFunction(Credits)
  BY <1>1, OwedInAll
<1>3. SumFunction(owed) = SumFunction(Owing)
  <2>1. \A u \in Users : L!Pending(u) \in Int
    BY <1>1, PendingNow
  <2>2. owed = Restrict(Owing, owing)
    BY DEF Restrict, Owing, Plus
  <2>3. owing \in SUBSET Users /\ \A u \in Users \ owing : Owing[u] = 0
    BY <2>1 DEF Owing, Plus
  <2> HIDE DEF owing, owed
  <2> QED
    BY <1>2, <2>2, <2>3, SumOfPart, UsersAssumption
<1> HIDE DEF owed, owing
<1>4. totalRewardDebt = SumFunction(Debts) - SumFunction(Credits)
  BY <1>1 DEF DebtsCounted, Debts, Credits
<1>5. /\ SumFunction(Owing) \in Nat /\ SumFunction(Debts) \in Nat /\ SumFunction(Credits) \in Nat
      /\ SumFunction(withdrawals) \in Nat /\ SumFunction(deposits) \in Nat /\ SumFunction(Excess) \in Nat
      /\ L!Deposited \in Nat /\ pool.accRewardPerShare \in Nat /\ MostPerShare \in Nat /\ Brought \in Nat
      /\ Rounding \in Nat /\ rewardPerBlock \in Nat /\ L!Ahead \in Nat /\ reward \in Nat
  <2>1. SumFunction(Owing) \in Nat /\ SumFunction(Debts) \in Nat /\ SumFunction(Credits) \in Nat
    BY <1>2, SumIsTotal, UsersAssumption
  <2>2. withdrawals \in [Users -> Nat]
    BY <1>1 DEF L!TypeOK
  <2>3. SumFunction(withdrawals) \in Nat
    BY <2>2, SumIsTotal, UsersAssumption
  <2> QED
    BY <1>1, <2>1, <2>3, ExcessTypes, LiquidityTypes, AheadType
<1>6. L!Deposited * MostPerShare <= Brought
  <2>1. CASE L!Deposited = 0
    BY <1>5, <2>1
  <2>2. CASE L!Deposited # 0
    <3>1. MostPerShare = Brought \div L!Deposited
      BY <2>2 DEF MostPerShare
    <3> QED
      BY <1>5, <2>2, <3>1, DivBounds
  <2> QED
    BY <2>1, <2>2
<1>7. /\ L!Deposited * (pool.accRewardPerShare + MostPerShare)
           = L!Deposited * pool.accRewardPerShare + L!Deposited * MostPerShare
      /\ L!Deposited * pool.accRewardPerShare \in Int /\ L!Deposited * MostPerShare \in Int
  BY <1>5
<1>8. PICK campaign \in Nat : campaign = rewardPerBlock * L!Ahead
  BY <1>5
<1>9. PICK o \in Nat, d \in Nat, c \in Nat, w \in Nat, n \in Nat, r \in Nat, g \in Nat :
         /\ o = SumFunction(Owing) /\ d = SumFunction(Debts) /\ c = SumFunction(Credits)
         /\ w = SumFunction(withdrawals) /\ n = SumFunction(deposits) /\ r = reward /\ g = Rounding
  BY <1>5
<1>10. FullScale * campaign + L!Deposited * pool.accRewardPerShare + SumFunction(Excess) + Brought
         <= FullScale * r + FullScale * n + g + FullScale * (d - c)
  <2>1. FullScale * campaign \in Int /\ FullScale * r \in Int /\ FullScale * n \in Int
        /\ FullScale * (d - c) \in Int
    OBVIOUS
  <2>2. L!Deposited * pool.accRewardPerShare + SumFunction(Excess) + Brought + FullScale * campaign
          <= FullScale * r + FullScale * n + g + FullScale * (d - c)
    BY <1>1, <1>4, <1>8, <1>9 DEF RewardCovers
  <2> QED
    BY <1>5, <1>7, <2>1, <2>2
<1>11. FullScale * o + FullScale * d
         <= L!Deposited * pool.accRewardPerShare + Brought + FullScale * w + SumFunction(Excess)
              + FullScale * c
  <2>1. FullScale * o \in Int /\ FullScale * d \in Int /\ FullScale * w \in Int /\ FullScale * c \in Int
    OBVIOUS
  <2>2. FullScale * o + FullScale * d
          <= L!Deposited * (pool.accRewardPerShare + MostPerShare)
               + FullScale * w + SumFunction(Excess) + FullScale * c
    BY <1>2, <1>9
  <2> QED
    BY <1>5, <1>6, <1>7, <2>1, <2>2
<1> DEFINE short == o + campaign - r - n - w
<1>12. FullScale * short <= g /\ short \in Int
  <2>1. FullScale * (d - c) = FullScale * d - FullScale * c
    OBVIOUS
  <2>2. FullScale * short = FullScale * o + FullScale * campaign - FullScale * r - FullScale * n
                              - FullScale * w
    OBVIOUS
  <2>3. /\ FullScale * o \in Int /\ FullScale * d \in Int /\ FullScale * c \in Int
        /\ FullScale * w \in Int /\ FullScale * campaign \in Int /\ FullScale * r \in Int
        /\ FullScale * n \in Int /\ short \in Int
    OBVIOUS
  <2> HIDE DEF short
  <2> QED
    BY <1>5, <1>7, <1>10, <1>11, <2>1, <2>2, <2>3
<1>13. short <= L!Slack /\ L!Slack \in Int
  <2> HIDE DEF short
  <2>1. CASE pool.balance = L!Deposited
    <3>1. L!Slack = 0 /\ g = 0
      BY <1>9, <2>1 DEF L!Slack, Rounding
    <3>2. FullScale * short <= FullScale * 0
      BY <1>12, <3>1
    <3>3. short <= 0
      BY <1>12, <3>2, TimesAtMost
    <3> QED
      BY <3>1, <3>3
  <2>2. CASE pool.balance # L!Deposited
    <3>1. L!Slack = g \div FullScale
      BY <1>9, <2>2 DEF L!Slack, Rounding
    <3>2. short <= g \div FullScale /\ g \div FullScale \in Int
      BY <1>12, DivAtLeast, DivBounds
    <3> QED
      BY <3>1, <3>2
  <2> QED
    BY <2>1, <2>2
<1>14. o + campaign <= r + n + w + L!Slack
  BY <1>13
<1> QED
  BY <1>3, <1>8, <1>9, <1>14

\* However campaigns follow each other, whenever users come, go and claim, and
\* whatever is sent to the contract: each user is paid and owed their share of
\* every block at the rate of its campaign, no more and no less but for what
\* deposits, withdrawals and updates round, and the contract can pay what it owes
\* and what its campaign is still to bring (LiquidityReward.sol).
THEOREM LiquidityAlwaysTrue ==
    L!Spec => []LiquidityTrue
<1>1. LiquidityInv => LiquidityTrue
  BY OverpaidNobody, ForgottenNobody, CoveredAlways DEF LiquidityTrue, LiquidityInv
<1> QED
  BY <1>1, LiquidityAlways, PTL

-----------------------------------------------------------------------------
(***************************************************************************)
(* Compensation claims.                                                    *)
(***************************************************************************)
USE AccountsAssumption, ClaimAssumption, BatchAssumption

\* The script looks only at accounts of its file.
Listed == sync.unread \subseteq DOMAIN sync.csv /\ sync.incorrect \subseteq DOMAIN sync.csv

\* The accounts that were read, and found correct or uploaded since.
Done == DOMAIN sync.csv \ (sync.unread \cup sync.incorrect)

AsInFile(a) == claims[a] = sync.csv[a]

\* The whole file is in the contract, and nothing is on its way to change it.
FileUploaded == pending = <<>> /\ \A a \in DOMAIN sync.csv : AsInFile(a)

OthersHaveClaims == \E a \in Accounts \ DOMAIN sync.csv : claims[a] > 0

\* What a script that nothing disturbs knows at each of its points.
FirstLook ==
    sync.phase = "verify" /\ ~sync.after => pending = <<>> /\ \A a \in Done : AsInFile(a)

SecondLook == sync.phase = "verify" /\ sync.after => FileUploaded /\ sync.incorrect = {}

BeforeBatch == sync.phase = "upload" => pending = <<>> /\ \A a \in DOMAIN sync.csv \ sync.incorrect : AsInFile(a)

\* The batch sent is not yet mined, and will not be reverted; or it is mined.
AfterBatch ==
    sync.phase = "wait" =>
        \/ pending = <<>> /\ \A a \in DOMAIN sync.csv \ sync.incorrect : AsInFile(a)
        \/ /\ CanSetClaims
           /\ Len(pending) = 1
           /\ DOMAIN Head(pending) \subseteq DOMAIN sync.csv
           /\ \A a \in DOMAIN Head(pending) : Head(pending)[a] = sync.csv[a]
           /\ \A a \in DOMAIN sync.csv \ (sync.incorrect \cup DOMAIN Head(pending)) : AsInFile(a)

Failed == sync.phase = "idle" /\ sync.said \in {"Totals do not match", "the total is off"}

AfterFailure == Failed => pending = <<>> /\ OthersHaveClaims

Undisturbed == FirstLook /\ SecondLook /\ BeforeBatch /\ AfterBatch /\ AfterFailure

\* It says something when it ends.
SaysAtEnd == sync.phase # "idle" => sync.said = "nothing"

\* After the last batch nothing is pending: while batches are left some account
\* is incorrect.
LastBatchMined == sync.phase = "upload" /\ sync.incorrect = {} => pending = <<>>

\* In the second look a claim that was read as correct can only have been paid.
NotAboveFile ==
    sync.phase = "verify" /\ sync.after =>
        pending = <<>> /\ \A a \in Done : claims[a] <= sync.csv[a]

ScriptInv ==
    /\ Listed /\ SaysAtEnd /\ LastBatchMined /\ NotAboveFile
    /\ ~disturbed => Undisturbed

Inv == ClaimsCovered /\ ScriptInv
-----------------------------------------------------------------------------
(* Batches and totals.                                                      *)

\* A batch is a function from some accounts to claims.
LEMMA BatchType ==
    ASSUME NEW b
    PROVE  b \in Batch <=> DOMAIN b \subseteq Accounts /\ b \in [DOMAIN b -> 0 .. MaxClaim]
BY DEF Batch

\* The files are batches.
LEMMA FilesAreBatches == Csvs \subseteq Batch
BY CsvAssumption, BatchType

\* Part of a file is a batch.
LEMMA PartOfBatch ==
    ASSUME NEW csv \in Batch, NEW b \in SUBSET DOMAIN csv
    PROVE  [a \in b |-> csv[a]] \in Batch
<1>1. DOMAIN csv \subseteq Accounts /\ \A a \in DOMAIN csv : csv[a] \in 0 .. MaxClaim
  BY BatchType
<1> DEFINE c == [a \in b |-> csv[a]]
<1>2. DOMAIN c = b /\ c \in [b -> 0 .. MaxClaim]
  BY <1>1
<1> HIDE DEF c
<1>3. c \in Batch
  BY <1>1, <1>2, BatchType
<1> QED
  BY <1>3 DEF c

\* setClaims moves the total by what the batch replaces.
LEMMA WithBatch ==
    ASSUME claims \in [Accounts -> 0 .. MaxClaim], NEW batch \in Batch
    PROVE  /\ With(batch) \in [Accounts -> 0 .. MaxClaim]
           /\ Total(With(batch)) = Total(claims) + Total(batch)
                                     - Total([a \in DOMAIN batch |-> claims[a]])
<1>1. DOMAIN batch \subseteq Accounts /\ batch \in [DOMAIN batch -> 0 .. MaxClaim]
  BY BatchType
<1>2. With(batch) = Replaced(claims, batch)
  BY DEF With, Replaced
<1>3. Restrict(claims, DOMAIN batch) = [a \in DOMAIN batch |-> claims[a]]
  BY DEF Restrict
<1> QED
  BY <1>1, <1>2, <1>3, TotalReplaced

\* If the contract has the file's claims, its total is the file's exactly when
\* accounts that are not listed have none.
LEMMA TotalOfFile ==
    ASSUME claims \in [Accounts -> 0 .. MaxClaim], NEW csv \in Batch,
           \A a \in DOMAIN csv : claims[a] = csv[a]
    PROVE  Total(claims) = Total(csv) <=> \A a \in Accounts \ DOMAIN csv : claims[a] = 0
<1> DEFINE none == [a \in Accounts |-> 0]
           file == Replaced(none, csv)
<1>1. DOMAIN csv \subseteq Accounts /\ csv \in [DOMAIN csv -> 0 .. MaxClaim]
  BY BatchType
<1>2. none \in [Accounts -> 0 .. MaxClaim] /\ none \in [Accounts -> {0}]
      /\ Restrict(none, DOMAIN csv) \in [DOMAIN csv -> {0}]
  BY <1>1 DEF Restrict
<1>3. /\ \A a \in Accounts : file[a] = IF a \in DOMAIN csv THEN csv[a] ELSE 0
      /\ \A a \in Accounts : file[a] <= claims[a]
  BY <1>1 DEF Replaced
<1> HIDE DEF none
<1>4. file \in [Accounts -> 0 .. MaxClaim]
      /\ Total(file) = Total(none) + Total(csv) - Total(Restrict(none, DOMAIN csv))
  BY <1>1, <1>2, TotalReplaced
<1>5. Total(none) = 0 /\ Total(Restrict(none, DOMAIN csv)) = 0
  BY <1>2, TotalZero
<1>6. Total(csv) \in Nat
  BY <1>1, FS_Subset, TotalType
<1>7. Total(file) = Total(csv)
  BY <1>4, <1>5, <1>6
<1> HIDE DEF file
<1>8. Total(claims) = Total(csv) => file = claims
  BY <1>3, <1>4, <1>7, EqualTotals
<1>9. (\A a \in Accounts \ DOMAIN csv : claims[a] = 0) => file = claims
  BY <1>1, <1>3, <1>4
<1> QED
  BY <1>1, <1>3, <1>7, <1>8, <1>9

\* While accounts are left there is a next batch.
LEMMA NextBatch ==
    ASSUME NEW accounts, IsFiniteSet(accounts), splitIntoBatches(accounts) = {}
    PROVE  accounts = {}
<1> DEFINE n == Cardinality(accounts)
<1>1. n \in Nat /\ ExistsBijection(1 .. n, accounts)
  BY FS_CardinalityType
<1>2. SUFFICES ASSUME accounts # {} PROVE splitIntoBatches(accounts) # {}
  OBVIOUS
<1>3. CASE n < BatchSize
  BY <1>2, <1>3 DEF splitIntoBatches
<1>4. CASE n >= BatchSize
  <2>1. PICK f : f \in Bijection(1 .. n, accounts)
    BY <1>1 DEF ExistsBijection
  <2> DEFINE b == {f[i] : i \in 1 .. BatchSize}
             g == [i \in 1 .. BatchSize |-> f[i]]
  <2>2. /\ f \in [1 .. n -> accounts]
        /\ \A i, j \in 1 .. n : f[i] = f[j] => i = j
    BY <2>1 DEF Bijection, Injection, IsInjective
  <2>3. 1 .. BatchSize \subseteq 1 .. n
    BY <1>1, <1>4
  <2>4. b \subseteq accounts
    BY <2>2, <2>3
  <2>5. g \in Bijection(1 .. BatchSize, b)
    BY <2>2, <2>3 DEF Bijection, Injection, Surjection, IsInjective
  <2>6. IsFiniteSet(1 .. BatchSize) /\ Cardinality(1 .. BatchSize) = BatchSize
    BY FS_Interval
  <2>7. Cardinality(b) = BatchSize
    BY <2>5, <2>6, FS_Bijection DEF ExistsBijection
  <2>8. f[1] \in b
    OBVIOUS
  <2> HIDE DEF b
  <2> QED
    BY <2>4, <2>7, <2>8 DEF splitIntoBatches
<1> QED
  BY <1>1, <1>3, <1>4
-----------------------------------------------------------------------------
(* The contract's steps.                                                    *)

\* Nothing holds at first but zeros.
LEMMA InvInit == Init => Inv
<1> SUFFICES ASSUME Init PROVE Inv
  OBVIOUS
<1>1. Nobody \in Batch
  <2>1. DOMAIN Nobody = {} /\ Nobody \in [{} -> 0 .. MaxClaim]
    BY DEF Nobody
  <2> QED
    BY <2>1, BatchType
<1>2. TypeOK
  <2>1. sync \in [runs : Nat, phase : {"idle", "verify", "upload", "wait"}, said : Sayings,
                  csv : Batch, doIt : BOOLEAN, after : BOOLEAN,
                  unread : SUBSET Accounts, incorrect : SUBSET Accounts]
    BY <1>1 DEF Init, Sayings
  <2>2. claims \in [Accounts -> 0 .. MaxClaim] /\ pending \in Seq(Batch)
    BY DEF Init
  <2>3. /\ isAdjusterLocked \in BOOLEAN /\ inPeriod \in BOOLEAN /\ disturbed \in BOOLEAN
        /\ totalClaims \in Nat /\ periods \in Nat /\ funds \in Nat
    BY DEF Init
  <2> QED
    BY <2>1, <2>2, <2>3 DEF TypeOK
<1>3. TotalIsSum
  <2>1. claims \in [Accounts -> {0}]
    BY DEF Init
  <2> QED
    BY <2>1, TotalZero DEF Init, TotalIsSum
<1>4. Solvent
  BY DEF Init, Solvent
<1>5. ScriptInv
  BY DEF Init, ScriptInv, Listed, SaysAtEnd, LastBatchMined, NotAboveFile, Undisturbed,
         FirstLook, SecondLook, BeforeBatch, AfterBatch, AfterFailure, Failed
<1> QED
  BY <1>2, <1>3, <1>4, <1>5 DEF Inv, ClaimsCovered

\* What a claim that is paid takes from the total.
LEMMA ClaimTaken ==
    ASSUME TypeOK, TotalIsSum, NEW a \in Accounts, claim(a)
    PROVE  /\ claims' \in [Accounts -> 0 .. MaxClaim]
           /\ totalClaims' \in Nat /\ totalClaims' = Total(claims')
<1>1. claims \in [Accounts -> 0 .. MaxClaim] /\ claims[a] \in Nat
  BY DEF TypeOK
<1>2. /\ claims' \in [Accounts -> 0 .. MaxClaim]
      /\ claims'[a] = 0 /\ \A b \in Accounts \ {a} : claims'[b] = claims[b]
  BY <1>1 DEF claim
<1>3. Total(claims') = Total(claims) - claims[a] + claims'[a]
  BY <1>1, <1>2, TotalChange
<1>4. Total(claims) \in Nat /\ Total(claims') \in Nat
  BY <1>1, <1>2, TotalType
<1> QED
  BY <1>1, <1>2, <1>3, <1>4 DEF claim, TotalIsSum

\* A claim is paid out of the funds and leaves the total by as much.
LEMMA ClaimStep ==
    ASSUME Inv, NEW a \in Accounts, claim(a)
    PROVE  Inv'
<1> USE DEF Inv, ClaimsCovered
<1>1. /\ claims' \in [Accounts -> 0 .. MaxClaim]
      /\ totalClaims' \in Nat /\ totalClaims' = Total(claims')
  BY ClaimTaken
<1>2. TypeOK'
  BY <1>1 DEF TypeOK, claim
<1>3. Solvent'
  BY DEF Solvent, claim, TypeOK
<1>4. ScriptInv'
  <2>1. \A b \in Accounts : claims'[b] <= claims[b]
    BY DEF claim, TypeOK
  <2>2. Done \subseteq Accounts /\ \A b \in Done : sync.csv[b] \in Nat
    BY BatchType DEF Done, TypeOK
  <2>3. NotAboveFile'
    BY <1>1, <2>1, <2>2 DEF ScriptInv, NotAboveFile, Done, claim, TypeOK
  <2> QED
    BY <2>3 DEF ScriptInv, Listed, SaysAtEnd, LastBatchMined, claim
<1> QED
  BY <1>1, <1>2, <1>3, <1>4 DEF TotalIsSum

\* A lock and the start of a period count as disturbances and leave the claims.
LEMMA DisturbanceStep ==
    ASSUME Inv, start \/ \E locked \in BOOLEAN : setAdjusterLock(locked)
    PROVE  Inv'
<1> USE DEF Inv, ClaimsCovered, start, setAdjusterLock
<1>1. TypeOK'
  <2>1. isAdjusterLocked' \in BOOLEAN /\ inPeriod' \in BOOLEAN /\ disturbed' \in BOOLEAN
    BY DEF TypeOK
  <2>2. UNCHANGED <<claims, totalClaims, funds, pending, sync>> /\ periods' \in Nat
    BY DEF TypeOK
  <2> QED
    BY <2>1, <2>2 DEF TypeOK
<1>2. TotalIsSum' /\ Solvent'
  BY DEF TotalIsSum, Solvent
<1>3. ScriptInv'
  BY DEF ScriptInv, Listed, SaysAtEnd, LastBatchMined, NotAboveFile, Done
<1> QED
  BY <1>1, <1>2, <1>3

\* The end of a period, and tokens that come and go outside one, change neither
\* claims nor script; a batch that would be accepted still is.
LEMMA TokensStep ==
    ASSUME Inv, PeriodEnds \/ collect \/ Fund
    PROVE  Inv'
<1> USE DEF Inv, ClaimsCovered, PeriodEnds, collect, Fund
<1>1. TypeOK'
  <2>1. isAdjusterLocked' \in BOOLEAN /\ inPeriod' \in BOOLEAN /\ disturbed' \in BOOLEAN
    BY DEF TypeOK, scriptVars
  <2>2. UNCHANGED <<claims, totalClaims, periods, pending, sync>> /\ funds' \in Nat
    BY DEF TypeOK, scriptVars
  <2> QED
    BY <2>1, <2>2 DEF TypeOK
<1>2. TotalIsSum' /\ Solvent'
  BY DEF TotalIsSum, Solvent, TypeOK, scriptVars
<1>3. /\ UNCHANGED <<claims, pending, sync, disturbed>>
      /\ CanSetClaims => CanSetClaims'
  BY DEF scriptVars, CanSetClaims
<1>4. ScriptInv'
  BY <1>3 DEF ScriptInv, Listed, SaysAtEnd, LastBatchMined, NotAboveFile, Done, Undisturbed,
         FirstLook, SecondLook, FileUploaded, BeforeBatch, AfterBatch, AfterFailure, Failed,
         OthersHaveClaims, AsInFile
<1> QED
  BY <1>1, <1>2, <1>4

\* A batch is mined, or reverted.  In an undisturbed run it can only be the batch
\* the script waits for.
LEMMA MinedStep ==
    ASSUME Inv, setClaims
    PROVE  Inv'
<1> USE DEF Inv, ClaimsCovered
<1> DEFINE batch == Head(pending)
<1>1. /\ pending # <<>> /\ pending \in Seq(Batch)
      /\ batch \in Batch /\ pending' = Tail(pending)
  BY DEF setClaims, TypeOK
<1>2. UNCHANGED <<isAdjusterLocked, inPeriod, periods, funds, sync, disturbed>>
  BY DEF setClaims
<1>3. /\ claims \in [Accounts -> 0 .. MaxClaim]
      /\ DOMAIN batch \subseteq Accounts /\ batch \in [DOMAIN batch -> 0 .. MaxClaim]
  BY <1>1, BatchType DEF TypeOK
<1>4. \/ /\ CanSetClaims /\ claims' = With(batch)
         /\ totalClaims' = totalClaims + Total(batch)
                            - Total([a \in DOMAIN batch |-> claims[a]])
      \/ ~CanSetClaims /\ UNCHANGED <<claims, totalClaims>>
  BY DEF setClaims
<1>5. claims' \in [Accounts -> 0 .. MaxClaim] /\ totalClaims' = Total(claims')
  BY <1>1, <1>3, <1>4, WithBatch DEF TotalIsSum
<1>6. Total(claims') \in Nat
  BY <1>5, TotalType
<1>7. pending' \in Seq(Batch)
  BY <1>1
<1> HIDE DEF batch
<1>8. TypeOK'
  BY <1>2, <1>5, <1>6, <1>7 DEF TypeOK
<1>9. Solvent'
  BY <1>2, <1>4 DEF Solvent, CanSetClaims
<1>10. Listed' /\ SaysAtEnd' /\ LastBatchMined' /\ NotAboveFile'
  BY <1>1, <1>2 DEF ScriptInv, Listed, SaysAtEnd, LastBatchMined, NotAboveFile
<1>11. ASSUME ~disturbed' PROVE Undisturbed'
  <2>1. Undisturbed
    BY <1>2, <1>11 DEF ScriptInv
  <2>2. FirstLook' /\ SecondLook' /\ BeforeBatch' /\ AfterFailure'
    BY <1>1, <1>2, <2>1 DEF Undisturbed, FirstLook, SecondLook, FileUploaded, BeforeBatch,
                           AfterFailure, Failed
  <2>3. AfterBatch'
    <3>1. SUFFICES ASSUME sync.phase = "wait" PROVE AfterBatch'
      BY <1>2 DEF AfterBatch
    <3>2. /\ CanSetClaims /\ Len(pending) = 1
          /\ DOMAIN batch \subseteq DOMAIN sync.csv
          /\ \A a \in DOMAIN batch : batch[a] = sync.csv[a]
          /\ \A a \in DOMAIN sync.csv \ (sync.incorrect \cup DOMAIN batch) :
                claims[a] = sync.csv[a]
      BY <1>1, <2>1, <3>1 DEF Undisturbed, AfterBatch, AsInFile, batch
    <3>3. pending' = <<>>
      BY <1>1, <3>2
    <3>4. DOMAIN sync.csv \subseteq Accounts
      BY BatchType DEF TypeOK
    <3>5. claims' = With(batch)
      BY <1>4, <3>2
    <3>6. \A a \in DOMAIN sync.csv \ sync.incorrect : claims'[a] = sync.csv[a]
      BY <3>2, <3>4, <3>5 DEF With
    <3> QED
      BY <1>2, <3>3, <3>6 DEF AfterBatch, AsInFile
  <2> QED
    BY <2>2, <2>3 DEF Undisturbed
<1> QED
  BY <1>5, <1>8, <1>9, <1>10, <1>11 DEF TotalIsSum, ScriptInv
-----------------------------------------------------------------------------
(* The script's steps.  None touches the contract.                          *)

\* What the script does leaves the books as they are, if the script keeps its type.
LEMMA BooksKept ==
    ASSUME ClaimsCovered, UNCHANGED contractVars, pending' \in Seq(Batch),
           disturbed' \in BOOLEAN,
           sync' \in [runs : Nat, phase : {"idle", "verify", "upload", "wait"},
                        said : Sayings, csv : Batch, doIt : BOOLEAN, after : BOOLEAN,
                        unread : SUBSET Accounts, incorrect : SUBSET Accounts]
    PROVE  ClaimsCovered'
<1>1. UNCHANGED <<claims, totalClaims, isAdjusterLocked, inPeriod, periods, funds>>
  BY DEF contractVars
<1>2. TypeOK'
  BY <1>1 DEF ClaimsCovered, TypeOK
<1>3. TotalIsSum' /\ Solvent'
  BY <1>1 DEF ClaimsCovered, TotalIsSum, Solvent
<1> QED
  BY <1>2, <1>3 DEF ClaimsCovered

\* A run starts: what is still pending counts as a disturbance.
LEMMA StartStep ==
    ASSUME Inv, NEW csv \in Csvs, NEW doIt \in BOOLEAN, compensationSync(csv, doIt)
    PROVE  Inv'
<1>1. csv \in Batch /\ DOMAIN csv \subseteq Accounts
  BY FilesAreBatches, BatchType
<1>2. TypeOK
  BY DEF Inv, ClaimsCovered
<1>3. sync' = [sync EXCEPT !.runs = @ + 1, !.said = "nothing", !.csv = csv, !.doIt = doIt,
                           !.phase = "verify", !.after = FALSE, !.unread = DOMAIN csv,
                           !.incorrect = {}]
  BY <1>2 DEF compensationSync, Verify, TypeOK
<1>4. ClaimsCovered'
  <2>1. /\ UNCHANGED <<contractVars, pending>>
        /\ disturbed' \in BOOLEAN
    BY DEF compensationSync
  <2>2. sync' \in [runs : Nat, phase : {"idle", "verify", "upload", "wait"}, said : Sayings,
                   csv : Batch, doIt : BOOLEAN, after : BOOLEAN,
                   unread : SUBSET Accounts, incorrect : SUBSET Accounts]
    <3>1. sync.runs + 1 \in Nat
      BY <1>2 DEF TypeOK
    <3>2. "nothing" \in Sayings
      BY DEF Sayings
    <3> QED
      BY <1>1, <1>2, <1>3, <3>1, <3>2 DEF TypeOK
  <2> QED
    BY <1>2, <2>1, <2>2, BooksKept DEF Inv, TypeOK
<1>5. Listed' /\ SaysAtEnd' /\ LastBatchMined' /\ NotAboveFile'
  BY <1>2, <1>3 DEF Listed, SaysAtEnd, LastBatchMined, NotAboveFile, TypeOK
<1>6. ~disturbed' => Undisturbed'
  BY <1>2, <1>3 DEF Undisturbed, FirstLook, SecondLook, BeforeBatch, AfterBatch,
                    AfterFailure, Failed, Done, TypeOK, compensationSync
<1> QED
  BY <1>4, <1>5, <1>6 DEF Inv, ScriptInv

\* The claim of one account is read.
LEMMA ReadStep ==
    ASSUME Inv, NEW a \in Accounts, verify(a)
    PROVE  Inv'
<1> USE DEF verify
<1>1. TypeOK
  BY DEF Inv, ClaimsCovered
<1>2. /\ sync' = [sync EXCEPT !.unread = sync'.unread, !.incorrect = sync'.incorrect]
      /\ sync'.unread = sync.unread \ {a}
      /\ sync'.incorrect = IF claims[a] = sync.csv[a] THEN sync.incorrect
                             ELSE sync.incorrect \cup {a}
      /\ UNCHANGED <<claims, pending, disturbed>>
  BY <1>1 DEF TypeOK, contractVars
<1>3. ClaimsCovered'
  BY <1>1, <1>2, BooksKept DEF Inv, TypeOK
<1>4. Listed' /\ SaysAtEnd' /\ LastBatchMined'
  BY <1>1, <1>2 DEF Inv, ScriptInv, Listed, SaysAtEnd, LastBatchMined, TypeOK
<1>5. /\ sync'.csv = sync.csv /\ sync'.phase = "verify" /\ sync'.after = sync.after
      /\ Done' \subseteq Done \cup {a}
      /\ a \in Done' => claims[a] = sync.csv[a]
  BY <1>1, <1>2 DEF Done, TypeOK
<1>6. DOMAIN sync.csv \subseteq Accounts /\ \A b \in DOMAIN sync.csv : sync.csv[b] \in Nat
  BY <1>1, BatchType DEF TypeOK
<1>7. NotAboveFile'
  BY <1>2, <1>5, <1>6 DEF Inv, ScriptInv, Listed, NotAboveFile
<1>8. ASSUME ~disturbed' PROVE Undisturbed'
  <2>1. Undisturbed
    BY <1>2, <1>8 DEF Inv, ScriptInv
  <2>2. FirstLook'
    BY <1>2, <1>5, <2>1 DEF Undisturbed, FirstLook, AsInFile
  <2>3. SecondLook'
    BY <1>2, <1>5, <2>1 DEF Undisturbed, SecondLook, FileUploaded, AsInFile, Inv, ScriptInv,
                           Listed
  <2> QED
    BY <1>5, <2>2, <2>3 DEF Undisturbed, BeforeBatch, AfterBatch, AfterFailure, Failed
<1> QED
  BY <1>3, <1>4, <1>7, <1>8 DEF Inv, ScriptInv

\* Unless something disturbed it, a script whose totals are off although all the
\* accounts of the file are right has found accounts that are not in the file.
LEMMA OthersFound ==
    ASSUME Inv, FileUploaded, totalClaims # Total(sync.csv)
    PROVE  OthersHaveClaims
<1>1. claims \in [Accounts -> 0 .. MaxClaim] /\ sync.csv \in Batch
  BY DEF Inv, ClaimsCovered, TypeOK
<1>2. \E a \in Accounts \ DOMAIN sync.csv : claims[a] # 0
  BY <1>1, TotalOfFile DEF Inv, ClaimsCovered, TotalIsSum, FileUploaded, AsInFile
<1> QED
  BY <1>1, <1>2 DEF OthersHaveClaims

\* The total is read, and the script says something or begins to upload.
LEMMA VerifiedStep ==
    ASSUME Inv, verified
    PROVE  Inv'
<1>1. TypeOK
  BY DEF Inv, ClaimsCovered
<1>2. /\ UNCHANGED <<claims, pending, disturbed>>
      /\ sync.phase = "verify" /\ sync.unread = {}
  BY DEF verified, contractVars
<1>3. /\ sync' = [sync EXCEPT !.phase = sync'.phase, !.said = sync'.said]
      /\ \/ /\ sync'.phase = "idle" /\ sync'.said \in Sayings
            /\ sync'.said = "Totals do not match" => sync.after /\ ~isCorrect
            /\ sync'.said = "the total is off" =>
                  ~sync.after /\ sync.incorrect = {} /\ ~isCorrect
         \/ /\ sync'.phase = "upload" /\ sync'.said = sync.said
            /\ ~sync.after /\ sync.incorrect # {}
  BY <1>1 DEF verified, TypeOK, Says, Sayings
<1>4. ClaimsCovered'
  BY <1>1, <1>2, <1>3, BooksKept DEF Inv, verified, TypeOK
<1>5. Listed' /\ SaysAtEnd' /\ LastBatchMined' /\ NotAboveFile'
  BY <1>1, <1>2, <1>3 DEF Inv, ScriptInv, Listed, SaysAtEnd, LastBatchMined, NotAboveFile, TypeOK
<1>6. ASSUME ~disturbed' PROVE Undisturbed'
  <2>1. Undisturbed
    BY <1>2, <1>6 DEF Inv, ScriptInv
  <2>2. /\ sync'.csv = sync.csv /\ sync'.incorrect = sync.incorrect
        /\ sync'.phase # "verify" /\ sync'.phase # "wait"
    BY <1>1, <1>3 DEF TypeOK
  <2>3. BeforeBatch'
    BY <1>2, <1>3, <2>1, <2>2 DEF Undisturbed, FirstLook, BeforeBatch, Done, AsInFile
  <2>4. ASSUME Failed' PROVE pending' = <<>> /\ OthersHaveClaims'
    <3>1. sync.incorrect = {} /\ FileUploaded /\ ~isCorrect
      BY <1>2, <1>3, <2>1, <2>4 DEF Failed, Undisturbed, FirstLook, SecondLook, FileUploaded, Done
    <3>2. pending = <<>> /\ OthersHaveClaims
      BY <3>1, OthersFound DEF isCorrect, FileUploaded
    <3> QED
      BY <1>2, <2>2, <3>2 DEF OthersHaveClaims
  <2> QED
    BY <2>2, <2>3, <2>4 DEF Undisturbed, FirstLook, SecondLook, AfterBatch, AfterFailure
<1> QED
  BY <1>4, <1>5, <1>6 DEF Inv, ScriptInv

\* A batch is sent, or the upload ends, or it is refused.
LEMMA UploadStep ==
    ASSUME Inv, uploadAccounts
    PROVE  Inv'
<1>1. TypeOK /\ ScriptInv
  BY DEF Inv, ClaimsCovered
<1>2. sync.phase = "upload" /\ UNCHANGED <<claims, disturbed, isAdjusterLocked, inPeriod>>
  BY DEF uploadAccounts, contractVars
<1>3. UNCHANGED contractVars /\ disturbed' = disturbed
  BY DEF uploadAccounts
<1>4. CASE splitIntoBatches(sync.incorrect) = {} /\ sync' = Verify(sync, TRUE) /\ UNCHANGED pending
  <2>1. sync' = [sync EXCEPT !.phase = "verify", !.after = TRUE, !.unread = DOMAIN sync.csv,
                               !.incorrect = {}]
    BY <1>4 DEF Verify
  <2>2. sync.incorrect = {} /\ pending = <<>> /\ pending' = <<>>
    BY <1>1, <1>2, <1>4, NextBatch, FS_Subset DEF TypeOK, ScriptInv, LastBatchMined
  <2>3. DOMAIN sync.csv \subseteq Accounts
    BY <1>1, BatchType DEF TypeOK
  <2>4. ClaimsCovered'
    BY <1>1, <1>3, <2>1, <2>2, <2>3, BooksKept DEF Inv, TypeOK
  <2>5. Listed' /\ SaysAtEnd' /\ LastBatchMined' /\ NotAboveFile'
    BY <1>1, <1>2, <2>1, <2>2 DEF ScriptInv, Listed, SaysAtEnd, LastBatchMined, NotAboveFile,
                                  Done, TypeOK
  <2>6. ~disturbed' => Undisturbed'
    BY <1>1, <1>2, <2>1, <2>2 DEF ScriptInv, Undisturbed, BeforeBatch, FirstLook, SecondLook,
                                  AfterBatch, AfterFailure, Failed, FileUploaded, AsInFile, TypeOK
  <2> QED
    BY <2>4, <2>5, <2>6 DEF Inv, ScriptInv
<1>5. CASE sync' = Says(sync, "error") /\ UNCHANGED pending
  <2>1. sync' = [sync EXCEPT !.phase = "idle", !.said = "error"]
    BY <1>5 DEF Says
  <2>2. ClaimsCovered'
    BY <1>1, <1>3, <1>5, <2>1, BooksKept DEF Inv, TypeOK, Sayings
  <2>3. Listed' /\ SaysAtEnd' /\ LastBatchMined' /\ NotAboveFile'
    BY <1>1, <2>1 DEF ScriptInv, Listed, SaysAtEnd, LastBatchMined, NotAboveFile, TypeOK
  <2>4. Undisturbed'
    BY <1>1, <2>1 DEF Undisturbed, BeforeBatch, FirstLook, SecondLook, AfterBatch,
                      AfterFailure, Failed, TypeOK
  <2> QED
    BY <2>2, <2>3, <2>4 DEF Inv, ScriptInv
<1>6. CASE /\ CanSetClaims
           /\ \E b \in splitIntoBatches(sync.incorrect) :
                 /\ pending' = Append(pending, [a \in b |-> sync.csv[a]])
                 /\ sync' = [sync EXCEPT !.phase = "wait", !.incorrect = @ \ b]
  <2>1. PICK b \in splitIntoBatches(sync.incorrect) :
            /\ pending' = Append(pending, [a \in b |-> sync.csv[a]])
            /\ sync' = [sync EXCEPT !.phase = "wait", !.incorrect = @ \ b]
    BY <1>6
  <2> DEFINE batch == [a \in b |-> sync.csv[a]]
  <2>2. b \subseteq sync.incorrect /\ b \subseteq DOMAIN sync.csv
    BY <1>1 DEF splitIntoBatches, ScriptInv, Listed
  <2>3. batch \in Batch /\ DOMAIN batch = b /\ \A a \in b : batch[a] = sync.csv[a]
    BY <1>1, <2>2, PartOfBatch DEF TypeOK
  <2>4. pending' = Append(pending, batch)
    BY <2>1
  <2> HIDE DEF batch
  <2>5. pending \in Seq(Batch) /\ pending' \in Seq(Batch)
    BY <1>1, <2>3, <2>4 DEF TypeOK
  <2>6. ClaimsCovered'
    BY <1>1, <1>3, <2>1, <2>5, BooksKept DEF Inv, TypeOK
  <2>7. Listed' /\ SaysAtEnd' /\ LastBatchMined' /\ NotAboveFile'
    BY <1>1, <1>2, <2>1 DEF ScriptInv, Listed, SaysAtEnd, LastBatchMined, NotAboveFile, TypeOK
  <2>8. ASSUME ~disturbed' PROVE Undisturbed'
    <3>1. pending = <<>> /\ \A a \in DOMAIN sync.csv \ sync.incorrect : AsInFile(a)
      BY <1>1, <1>2, <2>8 DEF ScriptInv, Undisturbed, BeforeBatch
    <3>2. Len(pending') = 1 /\ Head(pending') = batch
      BY <2>3, <2>4, <3>1
    <3>3. sync'.phase = "wait" /\ sync'.csv = sync.csv /\ sync'.incorrect = sync.incorrect \ b
      BY <1>1, <2>1 DEF TypeOK
    <3>4. CanSetClaims'
      BY <1>2, <1>6 DEF CanSetClaims
    <3>5. AfterBatch'
      BY <1>2, <2>2, <2>3, <3>1, <3>2, <3>3, <3>4 DEF AfterBatch, AsInFile
    <3> QED
      BY <3>3, <3>5 DEF Undisturbed, BeforeBatch, FirstLook, SecondLook, AfterFailure, Failed
  <2> QED
    BY <2>6, <2>7, <2>8 DEF Inv, ScriptInv
<1> QED
  BY <1>4, <1>5, <1>6 DEF uploadAccounts

\* The batch is confirmed.
LEMMA ConfirmedStep ==
    ASSUME Inv, withConfirmation
    PROVE  Inv'
<1> USE DEF withConfirmation
<1>1. TypeOK /\ ScriptInv
  BY DEF Inv, ClaimsCovered
<1>2. /\ sync' = [sync EXCEPT !.phase = "upload"]
      /\ sync.phase = "wait" /\ pending = <<>>
      /\ UNCHANGED <<claims, pending, disturbed>>
  BY DEF contractVars
<1>3. ClaimsCovered'
  BY <1>1, <1>2, BooksKept DEF Inv, TypeOK
<1>4. Listed' /\ SaysAtEnd' /\ LastBatchMined' /\ NotAboveFile'
  BY <1>1, <1>2 DEF ScriptInv, Listed, SaysAtEnd, LastBatchMined, NotAboveFile, TypeOK
<1>5. ~disturbed' => Undisturbed'
  BY <1>1, <1>2 DEF ScriptInv, Undisturbed, BeforeBatch, FirstLook, SecondLook, AfterBatch,
                    AfterFailure, Failed, AsInFile, TypeOK
<1> QED
  BY <1>3, <1>4, <1>5 DEF Inv, ScriptInv

\* A script that dies leaves its batch behind.
LEMMA DeathStep ==
    ASSUME Inv, Die
    PROVE  Inv'
<1> USE DEF Die
<1>1. TypeOK /\ ScriptInv
  BY DEF Inv, ClaimsCovered
<1>2. sync' = [sync EXCEPT !.phase = "idle", !.said = "died"]
  BY DEF Says
<1>3. ClaimsCovered'
  BY <1>1, <1>2, BooksKept DEF Inv, TypeOK, Sayings
<1>4. Listed' /\ SaysAtEnd' /\ LastBatchMined' /\ NotAboveFile'
  BY <1>1, <1>2 DEF ScriptInv, Listed, SaysAtEnd, LastBatchMined, NotAboveFile, TypeOK
<1>5. Undisturbed'
  BY <1>1, <1>2 DEF Undisturbed, BeforeBatch, FirstLook, SecondLook, AfterBatch,
                    AfterFailure, Failed, TypeOK
<1> QED
  BY <1>3, <1>4, <1>5 DEF Inv, ScriptInv
-----------------------------------------------------------------------------
(* The theorems.                                                            *)

\* Every step keeps the invariant.
LEMMA InvStep == Inv /\ [Next]_compensationVars => Inv'
<1> SUFFICES ASSUME Inv, [Next]_compensationVars PROVE Inv'
  OBVIOUS
<1>1. ASSUME NEW a \in Accounts, claim(a) PROVE Inv'
  BY <1>1, ClaimStep
<1>2. ASSUME NEW a \in Accounts, verify(a) PROVE Inv'
  BY <1>2, ReadStep
<1>3. CASE start \/ \E locked \in BOOLEAN : setAdjusterLock(locked)
  BY <1>3, DisturbanceStep
<1>4. CASE setClaims
  BY <1>4, MinedStep
<1>5. CASE PeriodEnds \/ collect \/ Fund
  BY <1>5, TokensStep
<1>6. ASSUME NEW csv \in Csvs, NEW doIt \in BOOLEAN, compensationSync(csv, doIt) PROVE Inv'
  BY <1>6, StartStep
<1>7. CASE verified
  BY <1>7, VerifiedStep
<1>8. CASE uploadAccounts
  BY <1>8, UploadStep
<1>9. CASE withConfirmation
  BY <1>9, ConfirmedStep
<1>10. CASE Die
  BY <1>10, DeathStep
<1>11. CASE UNCHANGED compensationVars
  <2>1. UNCHANGED <<claims, totalClaims, isAdjusterLocked, inPeriod, periods, funds,
                    pending, sync, disturbed>>
    BY <1>11 DEF compensationVars, contractVars, scriptVars
  <2>2. ClaimsCovered'
    BY <2>1 DEF Inv, ClaimsCovered, TypeOK, TotalIsSum, Solvent
  <2>3. ScriptInv'
    BY <2>1 DEF Inv, ScriptInv, Listed, SaysAtEnd, LastBatchMined, NotAboveFile, Done,
           Undisturbed, FirstLook, SecondLook, FileUploaded, BeforeBatch, AfterBatch,
           AfterFailure, Failed, OthersHaveClaims, AsInFile, CanSetClaims
  <2> QED
    BY <2>2, <2>3 DEF Inv
<1> QED
  BY <1>1, <1>2, <1>3, <1>4, <1>5, <1>6, <1>7, <1>8, <1>9, <1>10, <1>11 DEF Next

\* The contract covers its claims, and what the script remembers and said is true, at
\* all times.
THEOREM InvAlways == Spec => []Inv
<1> QED
  BY InvInit, InvStep, PTL DEF Spec

\* The contract's total is the sum of its claims, and in a claim period it can pay
\* every claim that is left and nobody can raise one (CompensationClaims.sol:
\* setClaims, claim, start).
THEOREM ClaimsAlwaysCovered == Spec => []ClaimsCovered
<1>1. Inv => ClaimsCovered
  BY DEF Inv
<1> QED
  BY <1>1, InvAlways, PTL

\* A run of compensationSync.js that nothing disturbs fails only if accounts that
\* its file does not list have claims.
THEOREM UndisturbedRunsSucceed == Spec => []UndisturbedSucceeds
<1>1. Inv => UndisturbedSucceeds
  BY DEF Inv, ScriptInv, UndisturbedSucceeds, SaysAtEnd, Undisturbed, AfterFailure, Failed,
         OthersHaveClaims
<1> QED
  BY <1>1, InvAlways, PTL

\* Only the end of a second look says that the upload was successful.
LEMMA SuccessIsSecondLook ==
    ASSUME Inv, Next, sync.phase # "idle", sync'.said = "Upload successful"
    PROVE  verified /\ isCorrect /\ sync.after
<1>1. TypeOK /\ sync.said = "nothing"
  BY DEF Inv, ClaimsCovered, ScriptInv, SaysAtEnd
<1>2. sync' # sync
  BY <1>1
<1>3. \/ \E a \in Accounts : verify(a)
      \/ verified \/ uploadAccounts \/ withConfirmation \/ Die
  BY <1>2 DEF Next, claim, setAdjusterLock, setClaims, start, PeriodEnds, collect, Fund,
              scriptVars, compensationSync
<1>4. \A a \in Accounts : ~verify(a)
  BY <1>1 DEF verify, TypeOK
<1>5. ~uploadAccounts
  BY <1>1 DEF uploadAccounts, Verify, Says, TypeOK
<1>6. ~withConfirmation /\ ~Die
  BY <1>1 DEF withConfirmation, Die, Says, TypeOK
<1>7. verified
  BY <1>3, <1>4, <1>5, <1>6
<1>8. isCorrect /\ sync.after
  BY <1>1, <1>7 DEF verified, Says, TypeOK
<1> QED
  BY <1>7, <1>8

\* When compensationSync.js says that the upload was successful, nothing is on its
\* way, the total is the file's and no listed account has more than the file says;
\* and if nothing disturbed the run the contract has exactly the claims of the file.
THEOREM UploadIsAlwaysTrue == Spec => UploadIsTrue
<1> DEFINE True ==
        /\ pending = <<>> /\ totalClaims = Total(sync.csv)
        /\ \A a \in DOMAIN sync.csv : claims[a] <= sync.csv[a]
        /\ ~disturbed => \A a \in Accounts :
              claims[a] = IF a \in DOMAIN sync.csv THEN sync.csv[a] ELSE 0
<1>1. ASSUME Inv, Next, sync.phase # "idle", sync'.said = "Upload successful"
      PROVE  True
  <2>1. verified /\ isCorrect /\ sync.after
    BY <1>1, SuccessIsSecondLook
  <2>2. sync.phase = "verify" /\ Done = DOMAIN sync.csv
    BY <2>1 DEF verified, isCorrect, Done
  <2>3. pending = <<>> /\ \A a \in DOMAIN sync.csv : claims[a] <= sync.csv[a]
    BY <1>1, <2>1, <2>2 DEF Inv, ScriptInv, NotAboveFile
  <2>4. totalClaims = Total(sync.csv) /\ totalClaims = Total(claims)
    BY <1>1, <2>1 DEF isCorrect, Inv, ClaimsCovered, TotalIsSum
  <2>5. ASSUME ~disturbed
        PROVE  \A a \in Accounts :
                   claims[a] = IF a \in DOMAIN sync.csv THEN sync.csv[a] ELSE 0
    <3>1. \A a \in DOMAIN sync.csv : claims[a] = sync.csv[a]
      BY <1>1, <2>1, <2>2, <2>5 DEF Inv, ScriptInv, Undisturbed, SecondLook, FileUploaded,
                                    AsInFile
    <3>2. claims \in [Accounts -> 0 .. MaxClaim] /\ sync.csv \in Batch
      BY <1>1 DEF Inv, ClaimsCovered, TypeOK
    <3>3. \A a \in Accounts \ DOMAIN sync.csv : claims[a] = 0
      BY <2>4, <3>1, <3>2, TotalOfFile
    <3> QED
      BY <3>1, <3>3
  <2> QED
    BY <2>3, <2>4, <2>5
<1>2. ASSUME Inv, UNCHANGED compensationVars, sync.phase # "idle",
             sync'.said = "Upload successful"
      PROVE  FALSE
  BY <1>2 DEF Inv, ScriptInv, SaysAtEnd, compensationVars, scriptVars
<1>3. Inv /\ [Next]_compensationVars =>
          [sync.phase # "idle" /\ sync'.said = "Upload successful" => True]_compensationVars
  BY <1>1, <1>2
<1> QED
  BY <1>3, InvAlways, PTL DEF Spec, UploadIsTrue
=============================================================================
