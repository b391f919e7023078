--------------------------- MODULE Tokens_proofs ---------------------------
(***************************************************************************)
(* What holds of the two coins, the existence references, the feeless lane *)
(* and the emission for every set of accounts, every curve and every order *)
(* of extrinsics and blocks: the type invariant, the balance of the        *)
(* references, the rationing of the lane, and that the pallet implements   *)
(* the host ledger and the emission of both coins.                         *)
(***************************************************************************)
EXTENDS Tokens, Sums

-----------------------------------------------------------------------------
(* The arithmetic of tokens-core.                                          *)
LEMMA TotalIsSum ==
  ASSUME NEW D, IsFiniteSet(D), NEW v, DOMAIN v = D, \A x \in D : v[x] \in Int
  PROVE  Total(v) = Sum(v, D)
BY MapThenSumSetIsSum DEF Total

LEMMA TotalNat ==
  ASSUME NEW D, IsFiniteSet(D), NEW v \in [D -> Nat]
  PROVE  Total(v) = Sum(v, D) /\ Total(v) \in Nat
<1>1. DOMAIN v = D /\ \A x \in D : v[x] \in Nat /\ v[x] \in Int
  OBVIOUS
<1> QED
  BY <1>1, TotalIsSum, SumNat

LEMMA MinOfNat ==
  ASSUME NEW x \in Nat, NEW y \in Nat
  PROVE  MinOf(x, y) \in Nat /\ MinOf(x, y) =< x /\ MinOf(x, y) =< y
BY DEF MinOf

(* A part in basis points is at most the whole: the product keeps its name   *)
(* so that the steps below stay linear.                                     *)
BasisParts == 0..10000
Times(x, y) == x * y
PartOfWhole(x, y) == Times(x, y) \in 0..(10000 * x)

LEMMA PartAtMost ==
  ASSUME NEW x \in Nat, NEW y \in BasisParts
  PROVE  PartOfWhole(x, y)
<1>1. PICK z \in Nat : y + z = 10000
  <2>1. 10000 - y \in Nat /\ y + (10000 - y) = 10000
    BY DEF BasisParts
  <2> QED
    BY <2>1
<1>2. y \in Nat
  BY DEF BasisParts
<1>3. x * y \in Nat /\ x * z \in Nat
  BY <1>2
<1>4. x * (y + z) = x * y + x * z
  BY <1>2
<1>5. x * 10000 = x * y + x * z
  BY <1>1, <1>4
<1> QED
  BY <1>3, <1>5 DEF Times, PartOfWhole

(* A burn is part of the fee. *)
LEMMA BurnFits ==
  ASSUME NEW fee \in Nat, NEW bps \in Nat
  PROVE  BurnAmount(fee, bps) \in 0..fee
<1> DEFINE b == MinOf(bps, BasisPoints)
           q == fee \div 10000
           r == fee % 10000
<1>1. b \in BasisParts
  BY DEF MinOf, BasisPoints, BasisParts
<1>2. q \in Nat /\ r \in Nat /\ fee = 10000 * q + r
  OBVIOUS
<1>3. BurnAmount(fee, bps) = Times(q, b) + Times(r, b) \div 10000
  BY DEF BurnAmount, BasisPoints, Times
<1> HIDE DEF b, q, r
<1>4. PartOfWhole(q, b)
  BY <1>1, <1>2, PartAtMost
<1>5. PartOfWhole(r, b)
  BY <1>1, <1>2, PartAtMost
<1>6. Times(r, b) \div 10000 \in 0..r
  BY <1>2, <1>5 DEF PartOfWhole
<1> QED
  BY <1>2, <1>3, <1>4, <1>6 DEF PartOfWhole

(* A sequence that is given by its first element and a rule exists. *)
Unrolled(f, first, rule) ==
  f = [e \in Nat |-> IF e = 0 THEN first ELSE rule[f[e - 1]]]

LEMMA UnrollingExists ==
  ASSUME NEW first, NEW rule
  PROVE  \E f : Unrolled(f, first, rule)
<1> DEFINE Upto(g, n) ==
             g = [e \in 0..n |-> IF e = 0 THEN first ELSE rule[g[e - 1]]]
           Bad == {n \in Nat : ~ \E g : Upto(g, n)}
           Apart(g, h, n) == {e \in 0..n : g[e] # h[e]}
<1>1. ASSUME Bad # {} PROVE FALSE
  <2>1. PICK n \in Bad : \A m \in Bad : n =< m
    <3>1. Bad \in SUBSET Nat
      OBVIOUS
    <3> HIDE DEF Bad
    <3> QED
      BY <1>1, <3>1, LeastCounterexample
  <2>2. n \in Nat /\ ~ \E g : Upto(g, n)
    OBVIOUS
  <2>3. CASE n = 0
    <3>1. Upto([e \in 0..0 |-> first], 0)
      OBVIOUS
    <3> QED
      BY <2>2, <2>3, <3>1
  <2>4. CASE n # 0
    <3>1. n - 1 \in Nat /\ n - 1 \notin Bad
      <4> HIDE DEF Bad
      <4> QED
        BY <2>1, <2>2, <2>4
    <3>2. PICK g : Upto(g, n - 1)
      BY <3>1
    <3> DEFINE h == [e \in 0..n |-> IF e = 0 THEN first ELSE rule[g[e - 1]]]
    <3>3. ASSUME NEW e \in 0..(n - 1) PROVE h[e] = g[e]
      BY <2>2, <3>2
    <3>4. ASSUME NEW e \in 0..n PROVE h[e] = IF e = 0 THEN first ELSE rule[h[e - 1]]
      <4>1. CASE e = 0
        BY <4>1
      <4>2. CASE e # 0
        <5>1. e - 1 \in 0..(n - 1)
          BY <4>2, <2>2
        <5>2. h[e - 1] = g[e - 1]
          BY <5>1, <3>3
        <5> QED
          BY <4>2, <5>2
      <4> QED
        BY <4>1, <4>2
    <3>5. h = [e \in 0..n |-> h[e]]
      OBVIOUS
    <3> HIDE DEF h
    <3>6. Upto(h, n)
      BY <3>4, <3>5
    <3> QED
      BY <2>2, <3>6
  <2> QED
    BY <2>3, <2>4
<1>2. \A n \in Nat : \E g : Upto(g, n)
  BY <1>1
<1>3. ASSUME NEW m \in Nat, NEW n \in Nat, m =< n, NEW g, NEW h, Upto(g, m), Upto(h, n)
      PROVE  \A e \in 0..m : g[e] = h[e]
  <2>1. ASSUME Apart(g, h, m) # {} PROVE FALSE
    <3>1. PICK e \in Apart(g, h, m) : \A k \in Apart(g, h, m) : e =< k
      <4>1. Apart(g, h, m) \in SUBSET Nat
        OBVIOUS
      <4> HIDE DEF Apart
      <4> QED
        BY <2>1, <4>1, LeastCounterexample
    <3>2. e \in 0..m /\ e \in 0..n /\ g[e] # h[e]
      BY <1>3
    <3>3. CASE e = 0
      BY <1>3, <3>2, <3>3
    <3>4. CASE e # 0
      <4>1. e - 1 \in 0..m
        BY <3>2, <3>4
      <4>2. g[e - 1] = h[e - 1]
        BY <3>1, <3>2, <4>1
      <4>3. g[e] = rule[g[e - 1]] /\ h[e] = rule[h[e - 1]]
        BY <1>3, <3>2, <3>4
      <4> QED
        BY <3>2, <4>2, <4>3
    <3> QED
      BY <3>3, <3>4
  <2> QED
    BY <2>1
<1> DEFINE part == [n \in Nat |-> CHOOSE g : Upto(g, n)]
           f == [n \in Nat |-> part[n][n]]
<1>4. \A n \in Nat : Upto(part[n], n)
  BY <1>2
<1> HIDE DEF part
<1>5. ASSUME NEW n \in Nat PROVE f[n] = IF n = 0 THEN first ELSE rule[f[n - 1]]
  <2>1. CASE n = 0
    <3>1. Upto(part[0], 0)
      BY <1>4
    <3>2. part[0][0] = first
      BY <3>1
    <3> QED
      BY <2>1, <3>2
  <2>2. CASE n # 0
    <3>1. n - 1 \in Nat /\ n - 1 =< n /\ n - 1 \in 0..(n - 1) /\ n \in 0..n
      BY <2>2
    <3>2. Upto(part[n - 1], n - 1) /\ Upto(part[n], n)
      BY <1>4, <3>1
    <3>3. part[n - 1][n - 1] = part[n][n - 1]
      <4> HIDE DEF Upto
      <4> QED
        BY <1>3, <3>1, <3>2
    <3>4. part[n][n] = rule[part[n][n - 1]]
      BY <3>1, <3>2, <2>2
    <3> QED
      BY <2>2, <3>1, <3>3, <3>4
  <2> QED
    BY <2>1, <2>2
<1>6. f = [n \in Nat |-> f[n]]
  OBVIOUS
<1> HIDE DEF f
<1>7. Unrolled(f, first, rule)
  BY <1>5, <1>6 DEF Unrolled
<1> QED
  BY <1>7

(* The scheduled tranche starts at the first and decays with every era. *)
Schedule(curve, f) ==
  /\ f \in [Nat -> Nat] /\ f[0] = curve.initial
  /\ \A e \in Nat : f[e + 1] = (f[e] * curve.decay_num) \div curve.decay_den

Decaying(curve) ==
  curve.era_length # 0 /\ curve.decay_num < curve.decay_den /\ curve.decay_num # 0

LEMMA ScheduleIsReward ==
  ASSUME NEW curve \in CurveParams, Decaying(curve)
  PROVE  \E f : /\ Schedule(curve, f)
                /\ \A e \in Nat : ScheduledReward(curve, e) = f[e \div curve.era_length]
<1>0. /\ curve.initial \in Nat /\ curve.decay_num \in Nat /\ curve.decay_den \in Nat \ {0}
      /\ curve.era_length \in Nat \ {0}
  BY DEF CurveParams, Decaying
<1> DEFINE rule == [r \in Nat |-> (r * curve.decay_num) \div curve.decay_den]
           F(f) == f = [e \in Nat |-> IF e = 0 THEN curve.initial
                                      ELSE (f[e - 1] * curve.decay_num) \div curve.decay_den]
<1>r. \A r \in Nat : rule[r] \in Nat /\ rule[r] = (r * curve.decay_num) \div curve.decay_den
  BY <1>0
<1>1. PICK u : Unrolled(u, curve.initial, rule)
  BY UnrollingExists
<1>2. ASSUME NEW f, Unrolled(f, curve.initial, rule) \/ F(f) PROVE f \in [Nat -> Nat]
  <2> DEFINE Bad == {n \in Nat : f[n] \notin Nat}
  <2>1. ASSUME Bad # {} PROVE FALSE
    <3>1. PICK n \in Bad : \A m \in Bad : n =< m
      <4>1. Bad \in SUBSET Nat
        OBVIOUS
      <4> HIDE DEF Bad
      <4> QED
        BY <2>1, <4>1, LeastCounterexample
    <3>2. CASE n = 0
      BY <1>0, <1>2, <3>2 DEF Unrolled
    <3>3. CASE n # 0
      <4>1. n - 1 \in Nat /\ f[n - 1] \in Nat
        BY <3>1, <3>3
      <4>2. f[n] = rule[f[n - 1]] \/ f[n] = (f[n - 1] * curve.decay_num) \div curve.decay_den
        BY <1>2, <3>3 DEF Unrolled
      <4> HIDE DEF rule
      <4>3. f[n] \in Nat
        BY <1>r, <4>1, <4>2
      <4> QED
        BY <4>3
    <3> QED
      BY <3>2, <3>3
  <2>2. f = [n \in Nat |-> f[n]]
    BY <1>2 DEF Unrolled
  <2> QED
    BY <2>1, <2>2
<1>3. F(u)
  <2>1. u \in [Nat -> Nat]
    BY <1>1, <1>2
  <2>2. \A n \in Nat : n # 0 => n - 1 \in Nat /\ u[n - 1] \in Nat
    BY <2>1
  <2> QED
    BY <1>1, <1>r, <2>2 DEF Unrolled
<1> DEFINE reward == CHOOSE f : F(f)
<1>4. F(reward)
  BY <1>3
<1>5. \A e \in Nat : ScheduledReward(curve, e) = reward[e \div curve.era_length]
  BY <1>0 DEF ScheduledReward, Decaying
<1> HIDE DEF reward
<1>6. reward \in [Nat -> Nat]
  <2> HIDE DEF F
  <2> QED
    BY <1>2, <1>4
<1>7. \A e \in Nat : reward[e + 1] = (reward[e] * curve.decay_num) \div curve.decay_den
  BY <1>4
<1>8. Schedule(curve, reward)
  BY <1>4, <1>6, <1>7 DEF Schedule
<1> QED
  BY <1>5, <1>8

LEMMA ScheduledNat ==
  ASSUME NEW curve \in CurveParams, NEW e \in Nat
  PROVE  ScheduledReward(curve, e) \in Nat
<1>0. curve.initial \in Nat /\ curve.decay_num \in Nat /\ curve.decay_den \in Nat /\ curve.era_length \in Nat
  BY DEF CurveParams
<1>1. CASE Decaying(curve)
  <2>1. PICK f : /\ Schedule(curve, f)
                 /\ \A n \in Nat : ScheduledReward(curve, n) = f[n \div curve.era_length]
    BY <1>1, ScheduleIsReward
  <2>2. e \div curve.era_length \in Nat
    BY <1>0, <1>1 DEF Decaying
  <2> QED
    BY <2>1, <2>2 DEF Schedule
<1>2. CASE ~ Decaying(curve)
  BY <1>0, <1>2 DEF Decaying, ScheduledReward
<1> QED
  BY <1>1, <1>2

LEMMA MintNat ==
  ASSUME NEW curve \in CurveParams, NEW e \in Nat, NEW m \in Nat
  PROVE  MintAmount(curve, e, m) \in Nat
<1>1. ScheduledReward(curve, e) \in Nat /\ curve.cap \in Nat
  BY ScheduledNat DEF CurveParams
<1> QED
  BY <1>1 DEF MintAmount, MinOf

-----------------------------------------------------------------------------
(* The split of a pool.                                                    *)
LEMMA LargestOf ==
  ASSUME NEW V \in SUBSET Nat, V # {}, NEW top \in Nat, \A x \in V : x =< top
  PROVE  Max(V) \in V
<1> DEFINE Room == {n \in Nat : \E x \in V : top - x = n}
<1>0. \A x \in V : top - x \in Nat
  OBVIOUS
<1>1. Room \in SUBSET Nat /\ Room # {}
  BY <1>0
<1>2. PICK n \in Room : \A m \in Room : n =< m
  <2> HIDE DEF Room
  <2> QED
    BY <1>1, LeastCounterexample
<1>3. PICK x \in V : top - x = n
  BY <1>2
<1>4. ASSUME NEW y \in V PROVE x >= y
  <2>1. top - y \in Room
    BY <1>0
  <2>2. n =< top - y
    BY <1>2, <2>1
  <2>3. x \in Nat /\ y \in Nat
    OBVIOUS
  <2> QED
    BY <1>3, <2>2, <2>3
<1> QED
  BY <1>3, <1>4 DEF Max

LEMMA ValuesBounded ==
  ASSUME NEW D, IsFiniteSet(D), NEW v \in [D -> Nat]
  PROVE  \A x \in D : v[x] =< Sum(v, D)
<1> SUFFICES ASSUME NEW x \in D PROVE v[x] =< Sum(v, D)
  OBVIOUS
<1>1. Sum(v, D) = v[x] + Sum(v, D \ {x})
  <2>1. \A y \in D : v[y] \in Int
    OBVIOUS
  <2> QED
    BY <2>1, SumTakeOut
<1>2. Sum(v, D \ {x}) \in Nat
  <2>1. IsFiniteSet(D \ {x}) /\ \A y \in D \ {x} : v[y] \in Nat
    BY FS_Subset
  <2> QED
    BY <2>1, SumNat
<1> QED
  BY <1>1, <1>2

LEMMA MedianNat ==
  ASSUME NEW D, IsFiniteSet(D), D # {}, NEW v \in [D -> Nat]
  PROVE  Median(v) \in Nat
<1> DEFINE Vals == {v[i] : i \in DOMAIN v}
           below(w) == {i \in DOMAIN v : v[i] < w}
           V == {w \in Vals : Cardinality(below(w)) =< (Cardinality(DOMAIN v) - 1) \div 2}
<1>1. Vals \in SUBSET Nat /\ Vals # {}
  OBVIOUS
<1>2. PICK least \in Vals : \A w \in Vals : least =< w
  <2> HIDE DEF Vals
  <2> QED
    BY <1>1, LeastCounterexample
<1>3. below(least) = {}
  BY <1>1, <1>2
<1>4. Cardinality(below(least)) = 0
  BY <1>3, FS_EmptySet
<1>5. (Cardinality(DOMAIN v) - 1) \div 2 >= 0
  <2>1. Cardinality(D) \in Nat /\ Cardinality(D) # 0
    BY FS_CardinalityType, FS_EmptySet
  <2> QED
    BY <2>1
<1>6. least \in V
  BY <1>4, <1>5
<1>7. V \in SUBSET Nat /\ \A w \in V : w =< Sum(v, D)
  BY ValuesBounded
<1>8. Sum(v, D) \in Nat
  BY TotalNat
<1> HIDE DEF V
<1>9. Max(V) \in V
  BY <1>6, <1>7, <1>8, LargestOf
<1> QED
  BY <1>7, <1>9 DEF V, Median

LEMMA CappedNat ==
  ASSUME NEW D, IsFiniteSet(D), NEW v \in [D -> Nat], NEW k \in Nat
  PROVE  CapWeights(v, k) \in [D -> Nat]
<1>1. ASSUME NEW i \in D PROVE MinOf(v[i], Median(v) * k) \in Nat
  <2>1. Median(v) \in Nat
    BY MedianNat
  <2>2. Median(v) * k \in Nat
    BY <2>1
  <2> QED
    BY <2>2, MinOfNat
<1> QED
  BY <1>1 DEF CapWeights

LEMMA SplitFits ==
  ASSUME NEW D, IsFiniteSet(D), NEW w \in [D -> Nat], NEW pool \in Nat
  PROVE  /\ SplitServiceReward(pool, w) \in [D -> Nat]
         /\ Total(SplitServiceReward(pool, w)) =< pool
<1> DEFINE total == Total(w)
           shares == [i \in DOMAIN w |-> (pool * w[i]) \div total]
           first == FirstLargest(w)
           given == [shares EXCEPT ![first] = @ + (pool - Total(shares))]
<1>1. total = Sum(w, D)
  BY TotalNat
<1>2. CASE total = 0 \/ pool = 0
  <2> DEFINE none == [i \in DOMAIN w |-> 0]
  <2>1. SplitServiceReward(pool, w) = none
    BY <1>2 DEF SplitServiceReward
  <2>2. none \in [D -> Nat]
    OBVIOUS
  <2>3. \A i \in D : none[i] \in Int /\ none[i] = 0
    OBVIOUS
  <2> HIDE DEF none
  <2>4. Total(none) = Sum(none, D)
    BY <2>2, TotalNat
  <2>5. Sum(none, D) = Sum(none, {})
    <3>1. {} \in SUBSET D /\ \A x \in D \ {} : none[x] = 0
      BY <2>3
    <3> QED
      BY <2>3, <3>1, SumSupport
  <2> QED
    BY <2>1, <2>2, <2>4, <2>5, SumEmpty
<1>3. CASE total # 0 /\ pool # 0
  <2>1. SplitServiceReward(pool, w) = given
    BY <1>3 DEF SplitServiceReward
  <2>2. \A i \in D : shares[i] = (pool * w[i]) \div Sum(w, D)
    BY <1>1
  <2>3. shares = [i \in D |-> shares[i]]
    OBVIOUS
  <2>4. Sum(w, D) # 0
    BY <1>1, <1>3
  <2> HIDE DEF shares, first, total
  <2>5. \A i \in D : shares[i] \in Nat
    <3>1. \A x \in D : w[x] \in Nat
      OBVIOUS
    <3> QED
      BY <2>2, <2>4, <3>1, SharesFit
  <2>6. Sum(shares, D) \in Nat /\ Sum(shares, D) =< pool
    <3>1. \A x \in D : w[x] \in Nat
      OBVIOUS
    <3> QED
      BY <2>2, <2>4, <3>1, SharesFit
  <2>7. shares \in [D -> Nat]
    BY <2>3, <2>5
  <2>8. Total(shares) = Sum(shares, D)
    BY <2>7, TotalNat
  <2>9. CASE first \notin D
    <3>1. given = shares
      BY <2>7, <2>9
    <3> QED
      BY <2>1, <2>6, <2>7, <2>8, <3>1
  <2>10. CASE first \in D
    <3>1. given[first] = shares[first] + (pool - Total(shares)) /\ \A x \in D : x # first => given[x] = shares[x]
      BY <2>7, <2>10
    <3>2. given[first] \in Nat
      BY <2>6, <2>7, <2>8, <2>10, <3>1
    <3>3. given = [x \in D |-> given[x]]
      BY <2>7
    <3> HIDE DEF given
    <3>4. given \in [D -> Nat]
      BY <2>7, <3>1, <3>2, <3>3
    <3>5. Sum(given, D) = Sum(shares, D) - shares[first] + given[first]
      <4>1. \A x \in D : shares[x] \in Int /\ given[x] \in Int /\ (x # first => given[x] = shares[x])
        BY <2>7, <3>1, <3>4
      <4> QED
        BY <2>10, <4>1, SumChanged
    <3>6. Total(given) = Sum(given, D)
      BY <3>4, TotalNat
    <3>7. shares[first] \in Nat
      BY <2>7, <2>10
    <3> QED
      BY <2>1, <2>6, <2>8, <3>1, <3>4, <3>5, <3>6, <3>7
  <2> QED
    BY <2>9, <2>10
<1> QED
  BY <1>2, <1>3

(* The slices of a list, each of one account, are no more than was split,  *)
(* whoever is left out.                                                    *)
LEMMA IncomeFits ==
  ASSUME NEW D, IsFiniteSet(D), NEW shares \in [D -> Nat], NEW list
  PROVE  /\ Income(list, shares) \in [Accounts -> Nat]
         /\ Total(Income(list, shares)) =< Total(shares)
         /\ \A f \in Accounts \cap Founders : Income(list, shares)[f] = 0
<1> DEFINE income == Income(list, shares)
           paid == {a \in Accounts : a \notin Founders /\ \E i \in D : list[i].who = a}
           place == [a \in paid |-> CHOOSE i \in D : list[i].who = a]
<1>0. IsFiniteSet(Accounts) /\ IsFiniteSet(paid)
  BY AmountsAssumption, FS_Subset
<1>1. \A a \in paid : place[a] \in D /\ list[place[a]].who = a /\ income[a] = shares[place[a]]
  BY DEF Income
<1>2. \A a \in Accounts \ paid : income[a] = 0
  BY DEF Income
<1>3. income = [a \in Accounts |-> income[a]]
  BY DEF Income
<1>4. \A f \in Accounts \cap Founders : income[f] = 0
  BY <1>2
<1>5. place = [a \in paid |-> place[a]]
  OBVIOUS
<1>p. paid \in SUBSET Accounts
  OBVIOUS
<1> HIDE DEF income, place, paid
<1>6. income \in [Accounts -> Nat]
  <2>1. \A a \in paid : income[a] \in Nat
    BY <1>1
  <2> QED
    BY <1>2, <1>3, <2>1
<1>7. Sum(income, paid) =< Sum(shares, D)
  <2>1. place \in [paid -> D]
    BY <1>1, <1>5
  <2>2. \A a, b \in paid : place[a] = place[b] => a = b
    BY <1>1
  <2>3. \A a \in paid : income[a] \in Nat /\ income[a] =< shares[place[a]]
    BY <1>1
  <2>4. \A i \in D : shares[i] \in Nat
    OBVIOUS
  <2> QED
    BY <1>0, <2>1, <2>2, <2>3, <2>4, SumInjected
<1>8. Sum(income, Accounts) = Sum(income, paid)
  <2>1. \A a \in Accounts : income[a] \in Int
    BY <1>6
  <2> QED
    BY <1>0, <1>2, <1>p, <2>1, SumSupport
<1>9. Total(income) = Sum(income, Accounts) /\ Total(shares) = Sum(shares, D)
  BY <1>0, <1>6, TotalNat
<1>10. income \in [Accounts -> Nat] /\ Total(income) =< Total(shares)
  BY <1>6, <1>7, <1>8, <1>9
<1> QED
  BY <1>4, <1>10 DEF income

(* What one split of a pool brings the accounts.                           *)
LEMMA SplitIncome ==
  ASSUME NEW D, IsFiniteSet(D), NEW w \in [D -> Nat], NEW pool \in Nat, NEW k \in Nat, NEW list
  PROVE  LET income == Income(list, SplitServiceReward(pool, CapWeights(w, k)))
         IN  /\ income \in [Accounts -> Nat]
             /\ Total(income) \in Nat /\ Total(income) =< pool
             /\ \A f \in Accounts \cap Founders : income[f] = 0
<1> DEFINE shares == SplitServiceReward(pool, CapWeights(w, k))
<1>1. CapWeights(w, k) \in [D -> Nat]
  BY CappedNat
<1>2. shares \in [D -> Nat] /\ Total(shares) =< pool
  BY <1>1, SplitFits
<1> HIDE DEF shares
<1>3. /\ Income(list, shares) \in [Accounts -> Nat]
      /\ Total(Income(list, shares)) =< Total(shares)
      /\ \A f \in Accounts \cap Founders : Income(list, shares)[f] = 0
  BY <1>2, IncomeFits
<1>4. Total(shares) \in Nat
  BY <1>2, TotalNat
<1>5. Total(Income(list, shares)) \in Nat
  BY <1>3, TotalNat, AmountsAssumption
<1> QED
  BY <1>2, <1>3, <1>4, <1>5 DEF shares

-----------------------------------------------------------------------------
(* The parameters. *)
LEMMA Parameters ==
  /\ HlqCurve \in CurveParams /\ SovCurve \in CurveParams
  /\ EraLength \in Nat /\ ServiceCapK \in Nat /\ FeeBurnBps \in Nat /\ HostingShareBps \in Nat
  /\ FeelessEpochBlocks \in Nat /\ FeelessCeiling \in Nat /\ MaxFeelessPerBlock \in Nat
  /\ AllowanceFloor \in Nat /\ ReputedBonus \in Nat /\ AllowanceCap \in Nat
  /\ MaxExtrinsics \in Nat /\ MaxBlock \in Nat
BY LaneAssumption DEF TokensParameters

LEMMA EntryOf ==
  ASSUME NEW R, NEW list \in Seq(R), NEW i \in DOMAIN list
  PROVE  list[i] \in R
OBVIOUS

(* An era's incomes: in all no more than the curves allow, and nothing for *)
(* a founder.                                                              *)
LEMMA EraIncomeFits ==
  ASSUME NEW s \in Services, NEW h \in Hostings, Epoch \in Nat, Minted \in [Coins -> Nat]
  PROVE  LET income == EraIncome(s, h)
         IN  /\ income.host \in [Accounts -> Nat] /\ income.hlq \in [Accounts -> Nat]
             /\ income.sov \in [Accounts -> Nat]
             /\ Total(income.host) \in Nat /\ Total(income.hlq) \in Nat /\ Total(income.sov) \in Nat
             /\ Total(income.host) + Total(income.hlq) =< MintAmount(HlqCurve, Epoch, Minted.hlq)
             /\ Total(income.sov) =< MintAmount(SovCurve, Epoch, Minted.sov)
             /\ \A f \in Accounts \cap Founders :
                  income.host[f] = 0 /\ income.hlq[f] = 0 /\ income.sov[f] = 0
<1> DEFINE serving  == {i \in DOMAIN s : s[i].weight > 0}
           hosting  == {i \in DOMAIN h : h[i].days > 0}
           days     == [i \in hosting |-> h[i].days]
           spot     == [i \in serving |-> s[i].weight]
           enduring == [i \in serving |-> spot[i] * (IF s[i].streak > 1 THEN s[i].streak ELSE 1)]
           tranche  == IF serving = {} /\ hosting = {} THEN 0
                       ELSE MintAmount(HlqCurve, Epoch, Minted.hlq)
           hostPool == IF hosting = {} THEN 0
                       ELSE (tranche * MinOf(HostingShareBps, BasisPoints)) \div BasisPoints
           split(pool, weights) == SplitServiceReward(pool, CapWeights(weights, ServiceCapK))
           sovPool == MintAmount(SovCurve, Epoch, Minted.sov)
<1>1. /\ s \in Seq([who : Accounts, weight : Nat, streak : Nat])
      /\ h \in Seq([who : Accounts, days : Nat])
  BY LaneAssumption DEF TokensParameters
<1>2. IsFiniteSet(serving) /\ IsFiniteSet(hosting)
  <2>1. IsFiniteSet(DOMAIN s) /\ IsFiniteSet(DOMAIN h)
    <3>1. Len(s) \in Nat /\ DOMAIN s = 1..Len(s) /\ Len(h) \in Nat /\ DOMAIN h = 1..Len(h)
      BY <1>1
    <3> QED
      BY <3>1, FS_Interval
  <2>2. serving \in SUBSET DOMAIN s /\ hosting \in SUBSET DOMAIN h
    OBVIOUS
  <2> HIDE DEF serving, hosting
  <2> QED
    BY <2>1, <2>2, FS_Subset
<1>3. days \in [hosting -> Nat] /\ spot \in [serving -> Nat] /\ enduring \in [serving -> Nat]
  <2>0. /\ \A i \in DOMAIN h : h[i].days \in Nat
        /\ \A i \in DOMAIN s : s[i].weight \in Nat /\ s[i].streak \in Nat
    <3> HIDE DEF serving, hosting, days, spot, enduring, tranche, hostPool, split, sovPool
    <3>1. ASSUME NEW i \in DOMAIN h PROVE h[i].days \in Nat
      <4>1. h[i] \in [who : Accounts, days : Nat]
        BY <1>1, EntryOf
      <4> QED
        BY <4>1
    <3>2. ASSUME NEW i \in DOMAIN s PROVE s[i].weight \in Nat /\ s[i].streak \in Nat
      <4>1. s[i] \in [who : Accounts, weight : Nat, streak : Nat]
        BY <1>1, EntryOf
      <4> QED
        BY <4>1
    <3> QED
      BY <3>1, <3>2
  <2>1. \A i \in hosting : h[i].days \in Nat
    BY <2>0
  <2>2. \A i \in serving : s[i].weight \in Nat /\ s[i].streak \in Nat
    BY <2>0
  <2>3. \A i \in serving : enduring[i] \in Nat
    BY <2>2
  <2>4. enduring = [i \in serving |-> enduring[i]]
    OBVIOUS
  <2> HIDE DEF serving, hosting, enduring
  <2> QED
    BY <2>1, <2>2, <2>3, <2>4
<1>4. MintAmount(HlqCurve, Epoch, Minted.hlq) \in Nat /\ sovPool \in Nat
  <2>1. Minted.hlq \in Nat /\ Minted.sov \in Nat
    BY DEF Coins
  <2> QED
    BY <2>1, MintNat, Parameters
<1>5. tranche \in Nat /\ tranche =< MintAmount(HlqCurve, Epoch, Minted.hlq)
  BY <1>4
<1>6. hostPool \in Nat /\ hostPool =< tranche
  <2> DEFINE share == MinOf(HostingShareBps, BasisPoints)
  <2>1. share \in BasisParts
    BY Parameters DEF MinOf, BasisPoints, BasisParts
  <2> HIDE DEF share, tranche
  <2>2. PartOfWhole(tranche, share)
    BY <1>5, <2>1, PartAtMost
  <2>3. Times(tranche, share) \div 10000 \in 0..tranche
    BY <1>5, <2>2 DEF PartOfWhole
  <2>4. hostPool = IF hosting = {} THEN 0 ELSE Times(tranche, share) \div 10000
    BY DEF share, BasisPoints, Times
  <2> HIDE DEF hostPool
  <2> QED
    BY <1>5, <2>3, <2>4
<1>7. /\ EraIncome(s, h).host = Income(h, split(hostPool, days))
      /\ EraIncome(s, h).hlq = Income(s, split(tranche - hostPool, spot))
      /\ EraIncome(s, h).sov = Income(s, split(sovPool, enduring))
  BY DEF EraIncome, ServicePool
<1>8. tranche - hostPool \in Nat
  BY <1>5, <1>6
<1> HIDE DEF serving, hosting, days, spot, enduring, tranche, hostPool, sovPool
<1>9. /\ EraIncome(s, h).host \in [Accounts -> Nat]
      /\ Total(EraIncome(s, h).host) \in Nat /\ Total(EraIncome(s, h).host) =< hostPool
      /\ \A f \in Accounts \cap Founders : EraIncome(s, h).host[f] = 0
  BY <1>2, <1>3, <1>6, <1>7, Parameters, SplitIncome
<1>10. /\ EraIncome(s, h).hlq \in [Accounts -> Nat]
       /\ Total(EraIncome(s, h).hlq) \in Nat /\ Total(EraIncome(s, h).hlq) =< tranche - hostPool
       /\ \A f \in Accounts \cap Founders : EraIncome(s, h).hlq[f] = 0
  BY <1>2, <1>3, <1>7, <1>8, Parameters, SplitIncome
<1>11. /\ EraIncome(s, h).sov \in [Accounts -> Nat]
       /\ Total(EraIncome(s, h).sov) \in Nat /\ Total(EraIncome(s, h).sov) =< sovPool
       /\ \A f \in Accounts \cap Founders : EraIncome(s, h).sov[f] = 0
  BY <1>2, <1>3, <1>4, <1>7, Parameters, SplitIncome
<1>12. Total(EraIncome(s, h).host) + Total(EraIncome(s, h).hlq) =< MintAmount(HlqCurve, Epoch, Minted.hlq)
  BY <1>4, <1>5, <1>6, <1>8, <1>9, <1>10
<1> QED
  BY <1>9, <1>10, <1>11, <1>12 DEF sovPool

-----------------------------------------------------------------------------
(* The record of one account.                                              *)
Records == [hlq : Nat, sov : Nat, sufficients : Nat, nonce : Nat]

(* A reference for the coins, and `own` for having entered by oneself. *)
Balanced(r, own) == r.sufficients = (IF HasCoin(r) THEN 1 ELSE 0) + own

LEMMA CreditedRecord ==
  ASSUME NEW r \in Records, NEW coin \in Coins, NEW amount \in Nat
  PROVE  /\ Credited(r, coin, amount) \in Records
         /\ Credited(r, coin, amount)[coin] = r[coin] + amount
         /\ \A c \in Coins \ {coin} : Credited(r, coin, amount)[c] = r[c]
         /\ Credited(r, coin, amount).nonce = r.nonce
         /\ \A own \in {0, 1} : Balanced(r, own) => Balanced(Credited(r, coin, amount), own)
<1>0. r.hlq \in Nat /\ r.sov \in Nat /\ r.sufficients \in Nat /\ r.nonce \in Nat
  BY DEF Records
<1> DEFINE n == Credited(r, coin, amount)
<1>1. CASE coin = "hlq"
  <2>1. n = [hlq |-> r.hlq + amount, sov |-> r.sov, nonce |-> r.nonce,
             sufficients |-> IF r.hlq + r.sov > 0 \/ amount = 0 THEN r.sufficients ELSE r.sufficients + 1]
    BY <1>1 DEF Credited, Referenced, HasCoin, Records
  <2> HIDE DEF n
  <2>2. n \in Records /\ n[coin] = r[coin] + amount /\ n.sov = r.sov /\ n.nonce = r.nonce
    BY <1>0, <1>1, <2>1 DEF Records
  <2>3. \A own \in {0, 1} : Balanced(r, own) => Balanced(n, own)
    BY <1>0, <2>1 DEF Balanced, HasCoin
  <2>4. \A c \in Coins \ {coin} : c = "sov"
    BY <1>1 DEF Coins
  <2> QED
    BY <2>2, <2>3, <2>4 DEF n
<1>2. CASE coin = "sov"
  <2>1. n = [hlq |-> r.hlq, sov |-> r.sov + amount, nonce |-> r.nonce,
             sufficients |-> IF r.hlq + r.sov > 0 \/ amount = 0 THEN r.sufficients ELSE r.sufficients + 1]
    BY <1>2 DEF Credited, Referenced, HasCoin, Records
  <2> HIDE DEF n
  <2>2. n \in Records /\ n[coin] = r[coin] + amount /\ n.hlq = r.hlq /\ n.nonce = r.nonce
    BY <1>0, <1>2, <2>1 DEF Records
  <2>3. \A own \in {0, 1} : Balanced(r, own) => Balanced(n, own)
    BY <1>0, <2>1 DEF Balanced, HasCoin
  <2>4. \A c \in Coins \ {coin} : c = "hlq"
    BY <1>2 DEF Coins
  <2> QED
    BY <2>2, <2>3, <2>4 DEF n
<1> QED
  BY <1>1, <1>2 DEF Coins

LEMMA ReleasedRecord ==
  ASSUME NEW r \in Records
  PROVE  /\ Released(r) \in Records
         /\ Released(r).hlq = r.hlq /\ Released(r).sov = r.sov
         /\ Released(r).nonce = r.nonce \/ r.sufficients =< 1
         /\ Released(r).sufficients = IF r.sufficients > 1 THEN r.sufficients - 1 ELSE 0
         /\ Balanced(r, 1) => Balanced(Released(r), 0)
<1>0. r.hlq \in Nat /\ r.sov \in Nat /\ r.sufficients \in Nat /\ r.nonce \in Nat
  BY DEF Records
<1>1. Released(r) = [hlq |-> r.hlq, sov |-> r.sov,
                     nonce |-> IF r.sufficients > 1 THEN r.nonce ELSE 0,
                     sufficients |-> IF r.sufficients > 1 THEN r.sufficients - 1 ELSE 0]
  BY DEF Released, Records
<1> QED
  BY <1>0, <1>1 DEF Records, Balanced, HasCoin

LEMMA DebitedRecord ==
  ASSUME NEW r \in Records, NEW coin \in Coins, NEW amount \in Nat \ {0}, amount =< r[coin]
  PROVE  /\ Debited(r, coin, amount) \in Records
         /\ Debited(r, coin, amount)[coin] = r[coin] - amount
         /\ \A c \in Coins \ {coin} : Debited(r, coin, amount)[c] = r[c]
         /\ Debited(r, coin, amount).nonce = r.nonce \/ r.sufficients =< 1
         /\ \A own \in {0, 1} : Balanced(r, own) => Balanced(Debited(r, coin, amount), own)
<1>0. r.hlq \in Nat /\ r.sov \in Nat /\ r.sufficients \in Nat /\ r.nonce \in Nat
  BY DEF Records
<1> DEFINE spent == [r EXCEPT ![coin] = @ - amount]
<1>1. /\ spent \in Records /\ spent[coin] = r[coin] - amount
      /\ \A c \in Coins \ {coin} : spent[c] = r[c]
      /\ spent.nonce = r.nonce /\ spent.sufficients = r.sufficients
  <2>1. CASE coin = "hlq"
    BY <1>0, <2>1 DEF Records, Coins
  <2>2. CASE coin = "sov"
    BY <1>0, <2>2 DEF Records, Coins
  <2> QED
    BY <2>1, <2>2 DEF Coins
<1>2. Debited(r, coin, amount) = IF HasCoin(spent) THEN spent ELSE Released(spent)
  BY DEF Debited
<1> HIDE DEF spent
<1>3. r.hlq + r.sov > 0
  <2>1. coin = "hlq" \/ coin = "sov"
    BY DEF Coins
  <2> QED
    BY <1>0, <2>1
<1>4. CASE HasCoin(spent)
  <2>1. \A own \in {0, 1} : Balanced(r, own) => Balanced(spent, own)
    BY <1>1, <1>3, <1>4 DEF Balanced, HasCoin
  <2> QED
    BY <1>1, <1>2, <1>4, <2>1
<1>5. CASE ~ HasCoin(spent)
  <2>1. /\ Released(spent) \in Records
        /\ Released(spent).hlq = spent.hlq /\ Released(spent).sov = spent.sov
        /\ Released(spent).nonce = spent.nonce \/ spent.sufficients =< 1
        /\ Released(spent).sufficients = IF spent.sufficients > 1 THEN spent.sufficients - 1 ELSE 0
    BY <1>1, ReleasedRecord
  <2>2. \A c \in Coins : Released(spent)[c] = spent[c]
    BY <2>1 DEF Coins
  <2>3. \A own \in {0, 1} : Balanced(r, own) => Balanced(Released(spent), own)
    BY <1>0, <1>1, <1>3, <1>5, <2>1 DEF Balanced, HasCoin
  <2> QED
    BY <1>1, <1>2, <1>5, <2>1, <2>2, <2>3
<1> QED
  BY <1>4, <1>5

LEMMA EnteredRecord ==
  ASSUME NEW r \in Records
  PROVE  /\ Entered(r) \in Records
         /\ Entered(r).hlq = r.hlq /\ Entered(r).sov = r.sov
         /\ Entered(r).nonce = r.nonce + 1
         /\ Entered(r).sufficients >= r.sufficients
         /\ \A own \in {0, 1} :
              Balanced(r, own) => Balanced(Entered(r), IF r.sufficients > 0 THEN own ELSE 1)
<1>0. r.hlq \in Nat /\ r.sov \in Nat /\ r.sufficients \in Nat /\ r.nonce \in Nat
  BY DEF Records
<1>1. Entered(r) = [hlq |-> r.hlq, sov |-> r.sov, nonce |-> r.nonce + 1,
                    sufficients |-> IF r.sufficients > 0 THEN r.sufficients ELSE r.sufficients + 1]
  BY DEF Entered, Referenced, Records
<1> QED
  BY <1>0, <1>1 DEF Records, Balanced, HasCoin

-----------------------------------------------------------------------------
(* Types, and the balance of the references.  A mask on its way in has not *)
(* entered before.                                                         *)
Own(a) == IF a \in born \/ (tx # None /\ tx.newborn /\ tx.who = a) THEN 1 ELSE 0
NewbornApart == tx # None /\ tx.newborn => tx.who \notin born
AccountsInv == TypeOK /\ ReferencesBalanced /\ NewbornApart

LEMMA AccountsBalanced ==
  ASSUME TypeOK
  PROVE  /\ account \in [Accounts -> Records]
         /\ \A a \in Accounts : account[a] \in Records /\ Own(a) \in {0, 1}
         /\ ReferencesBalanced <=> \A a \in Accounts : Balanced(account[a], Own(a))
BY DEF TypeOK, Records, ReferencesBalanced, Balanced, Own

LEMMA GenesisNat ==
  ASSUME NEW coin \in Coins
  PROVE  GenesisTotal(coin) \in Nat
<1> DEFINE v == [a \in Accounts |-> GenesisBalances[a][coin]]
<1>1. v \in [Accounts -> Nat]
  BY AmountsAssumption
<1> HIDE DEF v
<1>2. Total(v) \in Nat
  BY <1>1, AmountsAssumption, TotalNat
<1> QED
  BY <1>2 DEF GenesisTotal, v

LEMMA AccountsInit == Init => AccountsInv
<1> SUFFICES ASSUME Init PROVE AccountsInv
  OBVIOUS
<1>1. \A a \in Accounts : GenesisBalances[a].hlq \in Nat /\ GenesisBalances[a].sov \in Nat
  BY AmountsAssumption DEF Coins
<1>2. account \in [Accounts -> [hlq : Nat, sov : Nat, sufficients : Nat, nonce : Nat]]
  BY <1>1 DEF Init
<1>3. Minted \in [Coins -> Nat]
  BY GenesisNat DEF Init
<1>4. TypeOK
  BY <1>2, <1>3, Parameters DEF Init, TypeOK
<1>5. ASSUME NEW a \in Accounts
      PROVE  account[a].sufficients = (IF HasCoin(account[a]) THEN 1 ELSE 0)
               + (IF a \in born \/ (tx # None /\ tx.newborn /\ tx.who = a) THEN 1 ELSE 0)
  <2>1. /\ account[a].sufficients = (IF GenesisBalances[a] = Zero THEN 0 ELSE 1)
        /\ account[a].hlq = GenesisBalances[a].hlq /\ account[a].sov = GenesisBalances[a].sov
    BY DEF Init
  <2>2. GenesisBalances[a] = [hlq |-> GenesisBalances[a].hlq, sov |-> GenesisBalances[a].sov]
    <3>1. GenesisBalances[a] \in [Coins -> Nat]
      BY AmountsAssumption
    <3> QED
      BY <3>1 DEF Coins
  <2>3. GenesisBalances[a] = Zero <=> GenesisBalances[a].hlq = 0 /\ GenesisBalances[a].sov = 0
    BY <2>2 DEF Zero
  <2>4. HasCoin(account[a]) <=> GenesisBalances[a].hlq + GenesisBalances[a].sov > 0
    BY <2>1 DEF HasCoin
  <2>5. HasCoin(account[a]) <=> GenesisBalances[a] # Zero
    BY <1>1, <2>3, <2>4
  <2>6. account[a].sufficients = IF HasCoin(account[a]) THEN 1 ELSE 0
    BY <2>1, <2>5
  <2>7. ~ (a \in born \/ (tx # None /\ tx.newborn /\ tx.who = a))
    BY DEF Init
  <2> QED
    BY <2>6, <2>7
<1> QED
  BY <1>4, <1>5 DEF AccountsInv, ReferencesBalanced, NewbornApart, Init

LEMMA GrantType ==
  ASSUME TypeOK, NEW who \in Accounts, NEW refTime \in RefTimes,
         CanFeeless(who, refTime), GrantFeeless(who, refTime)
  PROVE  /\ FeelessFirstSeen' \in [Accounts -> Nat \cup {None}]
         /\ FeelessUsed' \in [Accounts -> [epoch : Nat, used : Nat]]
         /\ FeelessWeightThisBlock' \in Nat /\ FeelessCountThisBlock' \in 0..MaxFeelessPerBlock
<1>1. BudgetEpoch \in Nat
  <2>1. number \in Nat /\ FeelessEpochBlocks \in Nat \ {0}
    BY Parameters DEF TypeOK, CanFeeless
  <2> QED
    BY <2>1 DEF BudgetEpoch
<1>2. UsedNow(who) \in Nat
  BY DEF TypeOK, UsedNow
<1>3. refTime \in Nat
  BY AmountsAssumption
<1>4. FeelessUsed' \in [Accounts -> [epoch : Nat, used : Nat]]
  <2>1. [epoch |-> BudgetEpoch, used |-> UsedNow(who) + 1] \in [epoch : Nat, used : Nat]
    BY <1>1, <1>2
  <2> QED
    BY <2>1 DEF TypeOK, GrantFeeless
<1>5. FeelessFirstSeen' \in [Accounts -> Nat \cup {None}]
  BY <1>1 DEF TypeOK, GrantFeeless
<1>6. FeelessWeightThisBlock' \in Nat /\ FeelessCountThisBlock' \in 0..MaxFeelessPerBlock
  BY <1>3, Parameters DEF TypeOK, GrantFeeless, CanFeeless
<1> QED
  BY <1>4, <1>5, <1>6

(* How a step that touches one record keeps the balance. *)
LEMMA OneRecord ==
  ASSUME TypeOK, ReferencesBalanced, NEW who \in Accounts, NEW r \in Records,
         account' = [account EXCEPT ![who] = r],
         Balanced(account[who], Own(who)) => Balanced(r, Own(who)'),
         \A a \in Accounts \ {who} : Own(a)' = Own(a)
  PROVE  /\ account' \in [Accounts -> Records]
         /\ \A a \in Accounts : Balanced(account[a], Own(a))'
<1>1. account \in [Accounts -> Records] /\ \A a \in Accounts : Balanced(account[a], Own(a))
  BY AccountsBalanced
<1>2. account' \in [Accounts -> Records]
  BY <1>1
<1>3. ASSUME NEW a \in Accounts PROVE Balanced(account'[a], Own(a)')
  <2>1. CASE a = who
    BY <1>1, <2>1
  <2>2. CASE a # who
    <3>1. account'[a] = account[a] /\ Own(a)' = Own(a)
      BY <1>1, <2>2
    <3> QED
      BY <1>1, <3>1
  <2> QED
    BY <2>1, <2>2
<1> QED
  BY <1>2, <1>3 DEF Balanced, HasCoin

LEMMA BeginStep ==
  ASSUME AccountsInv, NEW who \in Accounts, NEW call \in Calls, NEW secured \in Nat,
         Begin(who, call, secured)
  PROVE  /\ number' \in 0..MaxBlock /\ author' \in Accounts \cup {None} /\ included' \in 0..MaxExtrinsics
         /\ Minted' \in [Coins -> Nat] /\ Burned' \in Nat /\ Epoch' \in Nat
         /\ tx' \in {None} \cup Transactions /\ born' \subseteq Accounts
         /\ NewbornApart'
         /\ Own(who)' = IF account[who].sufficients > 0 THEN Own(who) ELSE 1
         /\ \A a \in Accounts \ {who} : Own(a)' = Own(a)
         /\ account[who] \in Records /\ Own(who) \in {0, 1} /\ Balanced(account[who], Own(who))
<1>1. tx' \in Transactions
  BY DEF Begin, Transactions
<1>2. tx = None /\ tx'.who = who /\ (tx'.newborn <=> account[who].sufficients = 0) /\ born' = born
  <2>1. account[who].sufficients \in Nat
    BY DEF AccountsInv, TypeOK
  <2>2. tx = None /\ tx'.who = who /\ tx'.newborn = ~(account[who].sufficients > 0) /\ born' = born
    BY DEF Begin, Exists
  <2>3. ~(account[who].sufficients > 0) <=> account[who].sufficients = 0
    BY <2>1
  <2> QED
    BY <2>2, <2>3
<1>3. Balanced(account[who], Own(who)) /\ account[who] \in Records /\ Own(who) \in {0, 1}
  BY AccountsBalanced DEF AccountsInv
<1>4. account[who].sufficients = 0 => who \notin born
  <2>1. account[who].sufficients \in Nat
    BY DEF AccountsInv, TypeOK
  <2>2. account[who].sufficients = 0 => Own(who) = 0
    BY <1>3, <2>1 DEF Balanced
  <2> QED
    BY <2>2 DEF Own
<1>5. NewbornApart'
  BY <1>2, <1>4 DEF NewbornApart
<1>6. tx' # None
  BY <1>1, NoneAssumption
<1>7. Own(who)' = IF account[who].sufficients > 0 THEN Own(who) ELSE 1
  <2>1. account[who].sufficients \in Nat
    BY DEF AccountsInv, TypeOK
  <2>2. CASE account[who].sufficients > 0
    BY <1>2, <1>6, <2>1, <2>2 DEF Own
  <2>3. CASE ~(account[who].sufficients > 0)
    <3>1. account[who].sufficients = 0
      BY <2>1, <2>3
    <3> QED
      BY <1>2, <1>6, <2>3, <3>1 DEF Own
  <2> QED
    BY <2>2, <2>3
<1>8. \A a \in Accounts \ {who} : Own(a)' = Own(a)
  BY <1>2, <1>6 DEF Own
<1>9. /\ number' = number /\ author' = author /\ included' = included + 1 /\ included < MaxExtrinsics
      /\ Minted' = Minted /\ Burned' = Burned /\ Epoch' = Epoch /\ born' = born
  BY DEF Begin, supply
<1>10. included' \in 0..MaxExtrinsics
  BY <1>9, Parameters DEF AccountsInv, TypeOK
<1> QED
  BY <1>1, <1>3, <1>5, <1>7, <1>8, <1>9, <1>10 DEF AccountsInv, TypeOK

LEMMA PrepareFeelessKeeps ==
  ASSUME AccountsInv, NEW who \in Accounts, NEW call \in Calls, PrepareFeeless(who, call)
  PROVE  AccountsInv'
<1> DEFINE r == Entered(account[who])
<1>0. 0 \in Nat /\ Begin(who, call, 0)
  BY DEF PrepareFeeless
<1>1. /\ number' \in 0..MaxBlock /\ author' \in Accounts \cup {None} /\ included' \in 0..MaxExtrinsics
      /\ Minted' \in [Coins -> Nat] /\ Burned' \in Nat /\ Epoch' \in Nat
      /\ tx' \in {None} \cup Transactions /\ born' \subseteq Accounts
      /\ NewbornApart'
  BY <1>0, BeginStep
<1>2. /\ Own(who)' = IF account[who].sufficients > 0 THEN Own(who) ELSE 1
      /\ \A a \in Accounts \ {who} : Own(a)' = Own(a)
      /\ account[who] \in Records /\ Own(who) \in {0, 1} /\ Balanced(account[who], Own(who))
  BY <1>0, BeginStep
<1>3. r \in Records /\ Balanced(r, Own(who)')
  BY <1>2, EnteredRecord
<1>4. account' = [account EXCEPT ![who] = r]
  BY DEF PrepareFeeless
<1> HIDE DEF r
<1>5. account' \in [Accounts -> Records] /\ \A a \in Accounts : Balanced(account[a], Own(a))'
  BY <1>2, <1>3, <1>4, OneRecord DEF AccountsInv
<1>6. /\ FeelessFirstSeen' \in [Accounts -> Nat \cup {None}]
      /\ FeelessUsed' \in [Accounts -> [epoch : Nat, used : Nat]]
      /\ FeelessWeightThisBlock' \in Nat /\ FeelessCountThisBlock' \in 0..MaxFeelessPerBlock
  <2>1. call.refTime \in RefTimes
    BY DEF PrepareFeeless, Rides, Calls
  <2> QED
    BY <2>1, GrantType DEF PrepareFeeless, Rides, AccountsInv
<1>7. granted' \in [Accounts -> Nat]
  BY DEF PrepareFeeless, AccountsInv, TypeOK
<1>8. TypeOK'
  BY <1>1, <1>5, <1>6, <1>7 DEF TypeOK, Records
<1>9. ReferencesBalanced'
  BY <1>5 DEF ReferencesBalanced, Balanced, Own
<1> QED
  BY <1>1, <1>8, <1>9 DEF AccountsInv

LEMMA PreparePayingKeeps ==
  ASSUME AccountsInv, NEW who \in Accounts, NEW call \in Calls, NEW fee \in Fees,
         PreparePaying(who, call, fee)
  PROVE  AccountsInv'
<1> DEFINE e == Entered(account[who])
           r == Debited(e, "hlq", fee)
<1>0. fee \in Nat \ {0} /\ fee \in Nat /\ Begin(who, call, fee) /\ account[who].hlq >= fee
  BY AmountsAssumption DEF PreparePaying
<1>1. /\ number' \in 0..MaxBlock /\ author' \in Accounts \cup {None} /\ included' \in 0..MaxExtrinsics
      /\ Minted' \in [Coins -> Nat] /\ Burned' \in Nat /\ Epoch' \in Nat
      /\ tx' \in {None} \cup Transactions /\ born' \subseteq Accounts
      /\ NewbornApart'
  BY <1>0, BeginStep
<1>2. /\ Own(who)' = IF account[who].sufficients > 0 THEN Own(who) ELSE 1
      /\ \A a \in Accounts \ {who} : Own(a)' = Own(a)
      /\ account[who] \in Records /\ Own(who) \in {0, 1} /\ Balanced(account[who], Own(who))
  BY <1>0, BeginStep
<1>3. e \in Records /\ Balanced(e, Own(who)') /\ e.hlq = account[who].hlq
  BY <1>2, EnteredRecord
<1> HIDE DEF e
<1>4. r \in Records /\ Balanced(r, Own(who)')
  <2>1. "hlq" \in Coins /\ fee =< e["hlq"] /\ Own(who)' \in {0, 1}
    <3>1. account[who].hlq \in Nat /\ e.hlq \in Nat
      BY <1>2, <1>3 DEF Records
    <3> QED
      BY <1>0, <1>2, <1>3, <3>1 DEF Coins
  <2> QED
    BY <1>0, <1>3, <2>1, DebitedRecord
<1>5. account' = [account EXCEPT ![who] = r]
  BY DEF PreparePaying, e
<1> HIDE DEF r
<1>6. account' \in [Accounts -> Records] /\ \A a \in Accounts : Balanced(account[a], Own(a))'
  BY <1>2, <1>4, <1>5, OneRecord DEF AccountsInv
<1>7. /\ FeelessFirstSeen' \in [Accounts -> Nat \cup {None}]
      /\ FeelessUsed' \in [Accounts -> [epoch : Nat, used : Nat]]
      /\ FeelessWeightThisBlock' \in Nat /\ FeelessCountThisBlock' \in 0..MaxFeelessPerBlock
      /\ granted' \in [Accounts -> Nat]
  BY DEF PreparePaying, AccountsInv, TypeOK, feeless
<1>8. TypeOK'
  BY <1>1, <1>6, <1>7 DEF TypeOK, Records
<1>9. ReferencesBalanced'
  BY <1>6 DEF ReferencesBalanced, Balanced, Own
<1> QED
  BY <1>1, <1>8, <1>9 DEF AccountsInv

LEMMA TransferRecords ==
  ASSUME AccountsInv, tx # None, tx.call.kind = "Transfer", CanTransfer(tx.call, tx.who)
  PROVE  LET c == tx.call
             from == account[tx.who]
             to == account[c.to]
         IN  /\ tx.who \in Accounts /\ c.to \in Accounts /\ c.to # tx.who
             /\ c.coin \in Coins /\ c.amount \in Nat \ {0} /\ c.amount =< from[c.coin]
             /\ from \in Records /\ to \in Records
             /\ DoTransfer(c, tx.who) =
                  [[account EXCEPT ![tx.who] = Debited(from, c.coin, c.amount)]
                            EXCEPT ![c.to] = Credited(to, c.coin, c.amount)]
<1>1. tx \in Transactions
  BY DEF AccountsInv, TypeOK
<1>2. tx.who \in Accounts /\ tx.call \in Calls
  BY <1>1 DEF Transactions
<1>3. tx.call.coin \in Coins /\ tx.call.to \in Accounts /\ tx.call.amount \in Nat
  BY <1>2, AmountsAssumption DEF Calls
<1>4. account \in [Accounts -> Records]
  BY AccountsBalanced DEF AccountsInv
<1>5. tx.call.amount > 0 /\ tx.call.to # tx.who /\ account[tx.who][tx.call.coin] >= tx.call.amount
  BY DEF CanTransfer
<1>6. account[tx.who][tx.call.coin] \in Nat
  BY <1>2, <1>3, <1>4 DEF Records, Coins
<1>7. [account EXCEPT ![tx.who] = Debited(account[tx.who], tx.call.coin, tx.call.amount)][tx.call.to] = account[tx.call.to]
  BY <1>2, <1>3, <1>4, <1>5
<1> QED
  BY <1>2, <1>3, <1>4, <1>5, <1>6, <1>7 DEF DoTransfer, Credit

LEMMA DispatchKeeps ==
  ASSUME AccountsInv, Dispatch
  PROVE  AccountsInv'
<1>1. /\ tx # None /\ tx \in Transactions
      /\ \E stage \in {"done", "failed"} : tx' = [tx EXCEPT !.stage = stage]
  BY DEF Dispatch, Dispatched, AccountsInv, TypeOK
<1>2. tx' \in Transactions /\ tx' # None /\ tx'.newborn = tx.newborn /\ tx'.who = tx.who
  BY <1>1, NoneAssumption DEF Transactions
<1>3. /\ UNCHANGED <<number, author, included, Minted, Burned, Epoch, born, granted>>
      /\ UNCHANGED <<FeelessFirstSeen, FeelessUsed, FeelessWeightThisBlock, FeelessCountThisBlock>>
  BY DEF Dispatch, supply, feeless
<1>4. \A a \in Accounts : Own(a)' = Own(a)
  BY <1>1, <1>2, <1>3 DEF Own
<1>5. NewbornApart'
  BY <1>1, <1>2, <1>3 DEF NewbornApart, AccountsInv
<1>6. /\ account \in [Accounts -> Records]
      /\ \A a \in Accounts : Balanced(account[a], Own(a)) /\ Own(a) \in {0, 1}
  BY AccountsBalanced DEF AccountsInv
<1>7. account' \in [Accounts -> Records] /\ \A a \in Accounts : Balanced(account[a], Own(a))'
  <2>1. CASE UNCHANGED account
    <3>1. ASSUME NEW a \in Accounts PROVE Balanced(account'[a], Own(a)')
      BY <1>4, <1>6, <2>1
    <3> QED
      BY <1>6, <2>1, <3>1 DEF Balanced, HasCoin
  <2>2. CASE tx.call.kind = "Transfer" /\ CanTransfer(tx.call, tx.who) /\ account' = DoTransfer(tx.call, tx.who)
    <3> DEFINE c == tx.call
               paid == Debited(account[tx.who], c.coin, c.amount)
               got == Credited(account[c.to], c.coin, c.amount)
    <3>1. /\ tx.who \in Accounts /\ c.to \in Accounts /\ c.to # tx.who
          /\ c.coin \in Coins /\ c.amount \in Nat \ {0} /\ c.amount =< account[tx.who][c.coin]
          /\ account[tx.who] \in Records /\ account[c.to] \in Records
          /\ account' = [[account EXCEPT ![tx.who] = paid] EXCEPT ![c.to] = got]
      BY <1>1, <2>2, TransferRecords
    <3> HIDE DEF c
    <3>2. paid \in Records /\ Balanced(paid, Own(tx.who))
      BY <1>6, <3>1, DebitedRecord
    <3>3. got \in Records /\ Balanced(got, Own(c.to))
      BY <1>6, <3>1, CreditedRecord
    <3> HIDE DEF paid, got
    <3>4. account' \in [Accounts -> Records]
      BY <1>6, <3>1, <3>2, <3>3
    <3>5. ASSUME NEW a \in Accounts PROVE Balanced(account'[a], Own(a)')
      <4>1. CASE a = c.to
        <5>1. account'[a] = got
          BY <1>6, <3>1, <4>1
        <5> QED
          BY <1>4, <3>3, <4>1, <5>1
      <4>2. CASE a # c.to /\ a = tx.who
        <5>1. account'[a] = paid
          BY <1>6, <3>1, <4>2
        <5> QED
          BY <1>4, <3>2, <4>2, <5>1
      <4>3. CASE a # c.to /\ a # tx.who
        <5>1. account'[a] = account[a]
          BY <1>6, <3>1, <4>3
        <5> QED
          BY <1>4, <1>6, <5>1
      <4> QED
        BY <4>1, <4>2, <4>3
    <3> QED
      BY <3>4, <3>5 DEF Balanced, HasCoin
  <2> QED
    BY <2>1, <2>2 DEF Dispatch
<1>8. TypeOK'
  BY <1>2, <1>3, <1>7 DEF TypeOK, Records, AccountsInv
<1>9. ReferencesBalanced'
  BY <1>7 DEF ReferencesBalanced, Balanced, Own
<1> QED
  BY <1>5, <1>8, <1>9 DEF AccountsInv

(* What leaving does to the record of the one who leaves. *)
LEMMA LeavingRecord ==
  ASSUME AccountsInv, tx # None, tx.stage # "prepared",
         born' = Born, tx' = None, NEW who, who = tx.who
  PROVE  /\ tx \in Transactions /\ who \in Accounts /\ tx.secured \in Nat
         /\ Leaving(account[who]) \in Records
         /\ Leaving(account[who]).hlq = account[who].hlq
         /\ Leaving(account[who]).sov = account[who].sov
         /\ Balanced(Leaving(account[who]), Own(who)')
         /\ \A a \in Accounts : Own(a)' \in {0, 1}
         /\ \A a \in Accounts \ {who} : Own(a)' = Own(a)
         /\ born' \subseteq Accounts /\ NewbornApart'
<1> DEFINE r == account[who]
<1>1. tx \in Transactions /\ who \in Accounts /\ tx.secured \in Nat /\ tx.newborn \in BOOLEAN
  BY DEF AccountsInv, TypeOK, Transactions
<1>2. r \in Records /\ Balanced(r, Own(who)) /\ Own(who) \in {0, 1}
  BY <1>1, AccountsBalanced DEF AccountsInv
<1>3. born' \subseteq Accounts
  BY <1>1 DEF Born, AccountsInv, TypeOK
<1>4. \A a \in Accounts : Own(a)' = IF a \in born' THEN 1 ELSE 0
  BY DEF Own
<1>5. \A a \in Accounts \ {who} : Own(a)' = Own(a)
  BY <1>4 DEF Own, Born
<1>6. NewbornApart'
  BY DEF NewbornApart
<1>7. tx.stage = "done" \/ tx.stage = "failed"
  BY <1>1 DEF Transactions
<1>8. /\ Leaving(r) \in Records /\ Leaving(r).hlq = r.hlq /\ Leaving(r).sov = r.sov
      /\ Balanced(Leaving(r), Own(who)')
  <2>1. CASE tx.newborn /\ tx.stage = "failed"
    <3>1. Leaving(r) = Released(r)
      BY <2>1 DEF Leaving
    <3>2. Own(who) = 1
      BY <2>1 DEF Own
    <3>3. Own(who)' = 0
      BY <1>1, <1>4, <2>1 DEF Born, NewbornApart, AccountsInv
    <3> HIDE DEF r
    <3> QED
      BY <1>2, <3>1, <3>2, <3>3, ReleasedRecord
  <2>2. CASE ~(tx.newborn /\ tx.stage = "failed")
    <3>1. Leaving(r) = r
      BY <2>2 DEF Leaving
    <3>2. Own(who)' = Own(who)
      BY <1>1, <1>4, <1>7, <2>2 DEF Born, Own
    <3> HIDE DEF r
    <3> QED
      BY <1>2, <3>1, <3>2
  <2> QED
    BY <2>1, <2>2
<1> QED
  BY <1>1, <1>3, <1>4, <1>5, <1>6, <1>8

LEMMA SettleFeelessKeeps ==
  ASSUME AccountsInv, SettleFeeless
  PROVE  AccountsInv'
<1>w. PICK who : who = tx.who
  OBVIOUS
<1> DEFINE r == Leaving(account[who])
<1>0. /\ tx # None /\ tx.stage # "prepared" /\ born' = Born /\ tx' = None
      /\ account' = [account EXCEPT ![who] = r]
      /\ UNCHANGED <<number, author, included, Minted, Burned, Epoch, granted>>
      /\ UNCHANGED <<FeelessFirstSeen, FeelessUsed, FeelessWeightThisBlock, FeelessCountThisBlock>>
  BY <1>w DEF SettleFeeless, Left, supply, feeless
<1>1. /\ who \in Accounts /\ r \in Records
      /\ Balanced(r, Own(who)')
      /\ \A a \in Accounts \ {who} : Own(a)' = Own(a)
      /\ born' \subseteq Accounts /\ NewbornApart'
  BY <1>0, <1>w, LeavingRecord
<1> HIDE DEF r
<1>2. account' \in [Accounts -> Records] /\ \A a \in Accounts : Balanced(account[a], Own(a))'
  BY <1>0, <1>1, OneRecord DEF AccountsInv
<1>3. TypeOK'
  BY <1>0, <1>1, <1>2 DEF TypeOK, Records, AccountsInv
<1>4. ReferencesBalanced'
  BY <1>2 DEF ReferencesBalanced, Balanced, Own
<1> QED
  BY <1>1, <1>3, <1>4 DEF AccountsInv

(* A settlement in two records: the payer's refund, then the author's      *)
(* share, which may be the same.                                           *)
LEMMA SettlePaidRecords ==
  ASSUME AccountsInv, NEW corrected \in Fees, SettlePaid(corrected), NEW who, who = tx.who
  PROVE  LET fee == MinOf(corrected, tx.secured)
             burn == BurnAmount(fee, FeeBurnBps)
             paid == author # None /\ fee > burn /\ author \notin Founders
             back == Credited(Leaving(account[who]), "hlq", tx.secured - fee)
             refunded == [account EXCEPT ![who] = back]
         IN  /\ fee \in Nat \ {0} /\ fee =< tx.secured /\ burn \in 0..fee /\ tx.secured - fee \in Nat
             /\ back \in Records /\ back.hlq = account[who].hlq + (tx.secured - fee)
             /\ back.sov = account[who].sov
             /\ Balanced(back, Own(who)')
             /\ refunded \in [Accounts -> Records]
             /\ \A a \in Accounts : Balanced(refunded[a], Own(a)')
             /\ paid => author \in Accounts
             /\ account' = IF paid THEN [refunded EXCEPT ![author] = Credited(@, "hlq", fee - burn)]
                           ELSE refunded
             /\ Burned' = Burned + (IF paid THEN burn ELSE fee)
<1> DEFINE fee == MinOf(corrected, tx.secured)
           burn == BurnAmount(fee, FeeBurnBps)
           paid == author # None /\ fee > burn /\ author \notin Founders
           left == Leaving(account[who])
           back == Credited(left, "hlq", tx.secured - fee)
           refunded == [account EXCEPT ![who] = back]
<1>0. /\ tx # None /\ tx.stage # "prepared" /\ tx.secured > 0 /\ born' = Born /\ tx' = None
      /\ FeeSettle(Refunded(fee), fee)
  BY DEF SettlePaid
<1>1. /\ who \in Accounts /\ tx.secured \in Nat /\ left \in Records
      /\ left.hlq = account[who].hlq /\ left.sov = account[who].sov
      /\ Balanced(left, Own(who)')
      /\ \A a \in Accounts : Own(a)' \in {0, 1}
      /\ \A a \in Accounts \ {who} : Own(a)' = Own(a)
  BY <1>0, LeavingRecord
<1>2. fee \in Nat \ {0} /\ fee =< tx.secured /\ tx.secured - fee \in Nat
  <2>1. corrected \in Nat \ {0}
    BY AmountsAssumption
  <2> QED
    BY <1>0, <1>1, <2>1 DEF MinOf
<1> HIDE DEF fee, left
<1>3. burn \in 0..fee
  BY <1>2, BurnFits, Parameters
<1>4. /\ back \in Records /\ back.hlq = left.hlq + (tx.secured - fee) /\ back.sov = left.sov
      /\ Balanced(back, Own(who)')
  <2>1. "hlq" \in Coins /\ "sov" \in Coins \ {"hlq"} /\ Own(who)' \in {0, 1}
    BY <1>1 DEF Coins
  <2> HIDE DEF back
  <2>2. /\ Credited(left, "hlq", tx.secured - fee) \in Records
        /\ Credited(left, "hlq", tx.secured - fee)["hlq"] = left["hlq"] + (tx.secured - fee)
        /\ Credited(left, "hlq", tx.secured - fee)["sov"] = left["sov"]
        /\ Balanced(Credited(left, "hlq", tx.secured - fee), Own(who)')
    <3>1. left \in Records /\ "hlq" \in Coins /\ tx.secured - fee \in Nat
      BY <1>1, <1>2, <2>1
    <3>2. /\ Credited(left, "hlq", tx.secured - fee) \in Records
          /\ Credited(left, "hlq", tx.secured - fee)["hlq"] = left["hlq"] + (tx.secured - fee)
          /\ \A c \in Coins \ {"hlq"} : Credited(left, "hlq", tx.secured - fee)[c] = left[c]
          /\ \A own \in {0, 1} : Balanced(left, own) => Balanced(Credited(left, "hlq", tx.secured - fee), own)
      BY <3>1, CreditedRecord
    <3> QED
      BY <1>1, <2>1, <3>2
  <2> QED
    BY <2>2 DEF back
<1> HIDE DEF back, burn
<1>5. account \in [Accounts -> Records] /\ \A a \in Accounts : Balanced(account[a], Own(a))
  BY AccountsBalanced DEF AccountsInv
<1>6. refunded \in [Accounts -> Records]
  BY <1>1, <1>4, <1>5
<1>7. ASSUME NEW a \in Accounts PROVE Balanced(refunded[a], Own(a)')
  <2>1. CASE a = who
    <3>1. refunded[a] = back
      BY <1>5, <2>1
    <3> HIDE DEF refunded
    <3> QED
      BY <1>4, <2>1, <3>1
  <2>2. CASE a # who
    <3>1. refunded[a] = account[a]
      BY <1>5, <2>2
    <3> HIDE DEF refunded
    <3> QED
      BY <1>1, <1>5, <2>2, <3>1
  <2> QED
    BY <2>1, <2>2
<1>8. paid => author \in Accounts
  BY DEF AccountsInv, TypeOK
<1>9. /\ account' = IF paid THEN [refunded EXCEPT ![author] = Credited(@, "hlq", fee - burn)] ELSE refunded
      /\ Burned' = Burned + (IF paid THEN burn ELSE fee)
  BY <1>0 DEF FeeSettle, Refunded, Credit, back, left, burn
<1> QED
  BY <1>1, <1>2, <1>3, <1>4, <1>6, <1>7, <1>8, <1>9 DEF fee, burn, left, back

LEMMA SettlePaidKeeps ==
  ASSUME AccountsInv, NEW corrected \in Fees, SettlePaid(corrected)
  PROVE  AccountsInv'
<1>w. PICK who : who = tx.who
  OBVIOUS
<1> DEFINE fee == MinOf(corrected, tx.secured)
           burn == BurnAmount(fee, FeeBurnBps)
           paid == author # None /\ fee > burn /\ author \notin Founders
           back == Credited(Leaving(account[who]), "hlq", tx.secured - fee)
           refunded == [account EXCEPT ![who] = back]
           share == Credited(refunded[author], "hlq", fee - burn)
<1>0. /\ tx # None /\ tx.stage # "prepared" /\ born' = Born /\ tx' = None
      /\ UNCHANGED <<number, author, included, Minted, Epoch, granted>>
      /\ UNCHANGED <<FeelessFirstSeen, FeelessUsed, FeelessWeightThisBlock, FeelessCountThisBlock>>
  BY DEF SettlePaid, feeless
<1>1. /\ born' \subseteq Accounts /\ NewbornApart' /\ \A a \in Accounts : Own(a)' \in {0, 1}
  BY <1>0, <1>w, LeavingRecord
<1>2. /\ fee \in Nat \ {0} /\ burn \in 0..fee
      /\ refunded \in [Accounts -> Records]
      /\ \A a \in Accounts : Balanced(refunded[a], Own(a)')
      /\ paid => author \in Accounts
      /\ account' = IF paid THEN [refunded EXCEPT ![author] = share] ELSE refunded
      /\ Burned' = Burned + (IF paid THEN burn ELSE fee)
  BY <1>w, SettlePaidRecords
<1> HIDE DEF fee, burn, refunded, share
<1>3. Burned' \in Nat
  BY <1>2 DEF AccountsInv, TypeOK
<1>4. account' \in [Accounts -> Records] /\ \A a \in Accounts : Balanced(account'[a], Own(a)')
  <2>1. CASE ~ paid
    BY <1>2, <2>1
  <2>2. CASE paid
    <3>1. author \in Accounts /\ fee - burn \in Nat /\ refunded[author] \in Records /\ "hlq" \in Coins
      BY <1>2, <2>2 DEF Coins
    <3>2. share \in Records /\ \A own \in {0, 1} : Balanced(refunded[author], own) => Balanced(share, own)
      BY <3>1, CreditedRecord DEF share
    <3>3. account' = [refunded EXCEPT ![author] = share]
      BY <1>2, <2>2
    <3> HIDE DEF paid
    <3>4. account' \in [Accounts -> Records]
      BY <1>2, <3>1, <3>2, <3>3
    <3>5. ASSUME NEW a \in Accounts PROVE Balanced(account'[a], Own(a)')
      <4>1. CASE a = author
        <5>1. account'[a] = share /\ Balanced(refunded[author], Own(a)') /\ Own(a)' \in {0, 1}
          BY <1>1, <1>2, <3>3, <4>1
        <5> QED
          BY <3>2, <5>1
      <4>2. CASE a # author
        <5>1. account'[a] = refunded[a]
          BY <1>2, <3>3, <4>2
        <5> QED
          BY <1>2, <5>1
      <4> QED
        BY <4>1, <4>2
    <3> QED
      BY <3>4, <3>5
  <2> QED
    BY <2>1, <2>2
<1>5. TypeOK'
  BY <1>0, <1>1, <1>3, <1>4 DEF TypeOK, Records, AccountsInv
<1>6. ReferencesBalanced'
  BY <1>4 DEF ReferencesBalanced, Balanced, Own
<1> QED
  BY <1>1, <1>5, <1>6 DEF AccountsInv

(* What an era pays to one account. *)
EraPaid(r, host, hlq, sov) == Credited(Credited(Credited(r, "hlq", host), "hlq", hlq), "sov", sov)

(* A record before and after a credit, as CreditedRecord relates them. *)
AddedTo(n, r, coin, amount) ==
  /\ n \in Records /\ n[coin] = r[coin] + amount /\ n.nonce = r.nonce
  /\ \A c \in Coins \ {coin} : n[c] = r[c]
  /\ \A own \in {0, 1} : Balanced(r, own) => Balanced(n, own)

LEMMA CreditAdds ==
  ASSUME NEW r \in Records, NEW coin \in Coins, NEW amount \in Nat
  PROVE  AddedTo(Credited(r, coin, amount), r, coin, amount)
BY CreditedRecord DEF AddedTo

LEMMA PaidRecord ==
  ASSUME NEW r \in Records, NEW host \in Nat, NEW hlq \in Nat, NEW sov \in Nat
  PROVE  /\ EraPaid(r, host, hlq, sov) \in Records
         /\ EraPaid(r, host, hlq, sov).hlq = r.hlq + host + hlq
         /\ EraPaid(r, host, hlq, sov).sov = r.sov + sov
         /\ EraPaid(r, host, hlq, sov).nonce = r.nonce
         /\ \A own \in {0, 1} : Balanced(r, own) => Balanced(EraPaid(r, host, hlq, sov), own)
<1> DEFINE r1 == Credited(r, "hlq", host)
           r2 == Credited(r1, "hlq", hlq)
           r3 == Credited(r2, "sov", sov)
<1>0. "hlq" \in Coins /\ "sov" \in Coins /\ "sov" \in Coins \ {"hlq"} /\ "hlq" \in Coins \ {"sov"}
  BY DEF Coins
<1>1. AddedTo(r1, r, "hlq", host)
  BY <1>0, CreditAdds
<1> HIDE DEF r1
<1>2. AddedTo(r2, r1, "hlq", hlq)
  <2>1. r1 \in Records
    BY <1>1 DEF AddedTo
  <2> QED
    BY <1>0, <2>1, CreditAdds
<1> HIDE DEF r2
<1>3. AddedTo(r3, r2, "sov", sov)
  <2>1. r2 \in Records
    BY <1>2 DEF AddedTo
  <2> QED
    BY <1>0, <2>1, CreditAdds
<1> HIDE DEF r3
<1>4. /\ r3 \in Records
      /\ r3.hlq = r.hlq + host + hlq /\ r3.sov = r.sov + sov /\ r3.nonce = r.nonce
      /\ \A own \in {0, 1} : Balanced(r, own) => Balanced(r3, own)
  <2>1. /\ r1.hlq = r.hlq + host /\ r1.sov = r.sov /\ r1.nonce = r.nonce
        /\ \A own \in {0, 1} : Balanced(r, own) => Balanced(r1, own)
    BY <1>0, <1>1 DEF AddedTo
  <2>2. /\ r2.hlq = r1.hlq + hlq /\ r2.sov = r1.sov /\ r2.nonce = r1.nonce
        /\ \A own \in {0, 1} : Balanced(r1, own) => Balanced(r2, own)
    BY <1>0, <1>2 DEF AddedTo
  <2>3. /\ r3.hlq = r2.hlq /\ r3.sov = r2.sov + sov /\ r3.nonce = r2.nonce
        /\ r3 \in Records /\ \A own \in {0, 1} : Balanced(r2, own) => Balanced(r3, own)
    BY <1>0, <1>3 DEF AddedTo
  <2> QED
    BY <2>1, <2>2, <2>3
<1> QED
  BY <1>4 DEF r1, r2, r3, EraPaid

LEMMA EraPays ==
  ASSUME AccountsInv, NEW s \in Services, NEW h \in Hostings, RunEpoch(s, h)
  PROVE  LET income == EraIncome(s, h)
         IN  /\ account' \in [Accounts -> Records]
             /\ \A a \in Accounts :
                  /\ income.host[a] \in Nat /\ income.hlq[a] \in Nat /\ income.sov[a] \in Nat
                  /\ account'[a].hlq = account[a].hlq + income.host[a] + income.hlq[a]
                  /\ account'[a].sov = account[a].sov + income.sov[a]
                  /\ account'[a].nonce = account[a].nonce
                  /\ \A own \in {0, 1} : Balanced(account[a], own) => Balanced(account'[a], own)
             /\ Minted' \in [Coins -> Nat] /\ Epoch' \in Nat
<1> DEFINE income == EraIncome(s, h)
           new(a) == EraPaid(account[a], income.host[a], income.hlq[a], income.sov[a])
<1>0. Epoch \in Nat /\ Minted \in [Coins -> Nat]
  BY DEF AccountsInv, TypeOK
<1>1. /\ income.host \in [Accounts -> Nat] /\ income.hlq \in [Accounts -> Nat]
      /\ income.sov \in [Accounts -> Nat]
      /\ Total(income.host) \in Nat /\ Total(income.hlq) \in Nat /\ Total(income.sov) \in Nat
  BY <1>0, EraIncomeFits
<1>2. /\ account' = [a \in Accounts |-> new(a)]
      /\ Minted' = [hlq |-> Minted.hlq + Total(income.host) + Total(income.hlq),
                    sov |-> Minted.sov + Total(income.sov)]
      /\ Epoch' = Epoch + 1
  BY DEF RunEpoch, EraPaid
<1>3. account \in [Accounts -> Records]
  BY AccountsBalanced DEF AccountsInv
<1> HIDE DEF income
<1>4. ASSUME NEW a \in Accounts
      PROVE  /\ income.host[a] \in Nat /\ income.hlq[a] \in Nat /\ income.sov[a] \in Nat
             /\ new(a) \in Records
             /\ new(a).hlq = account[a].hlq + income.host[a] + income.hlq[a]
             /\ new(a).sov = account[a].sov + income.sov[a]
             /\ new(a).nonce = account[a].nonce
             /\ \A own \in {0, 1} : Balanced(account[a], own) => Balanced(new(a), own)
  <2>1. account[a] \in Records /\ income.host[a] \in Nat /\ income.hlq[a] \in Nat /\ income.sov[a] \in Nat
    BY <1>1, <1>3
  <2>2. PICK r \in Records, x \in Nat, y \in Nat, z \in Nat :
           r = account[a] /\ x = income.host[a] /\ y = income.hlq[a] /\ z = income.sov[a]
    BY <2>1
  <2>3. new(a) = EraPaid(r, x, y, z)
    BY <2>2
  <2>4. /\ EraPaid(r, x, y, z) \in Records
        /\ EraPaid(r, x, y, z).hlq = r.hlq + x + y
        /\ EraPaid(r, x, y, z).sov = r.sov + z
        /\ EraPaid(r, x, y, z).nonce = r.nonce
        /\ \A own \in {0, 1} : Balanced(r, own) => Balanced(EraPaid(r, x, y, z), own)
    BY PaidRecord
  <2> HIDE DEF new
  <2> QED
    BY <2>1, <2>2, <2>3, <2>4
<1>5. Minted' \in [Coins -> Nat] /\ Epoch' \in Nat
  BY <1>0, <1>1, <1>2 DEF Coins
<1> HIDE DEF new
<1>6. \A a \in Accounts : account'[a] = new(a)
  BY <1>2
<1>7. account' \in [Accounts -> Records]
  BY <1>2, <1>4
<1>8. \A a \in Accounts :
        /\ income.host[a] \in Nat /\ income.hlq[a] \in Nat /\ income.sov[a] \in Nat
        /\ account'[a].hlq = account[a].hlq + income.host[a] + income.hlq[a]
        /\ account'[a].sov = account[a].sov + income.sov[a]
        /\ account'[a].nonce = account[a].nonce
        /\ \A own \in {0, 1} : Balanced(account[a], own) => Balanced(account'[a], own)
  BY <1>4, <1>6
<1> QED
  BY <1>5, <1>7, <1>8 DEF income

LEMMA NextBlockKeeps ==
  ASSUME AccountsInv, NextBlock
  PROVE  AccountsInv'
<1>0. /\ tx = None /\ number < MaxBlock /\ number' = number + 1 /\ author' \in Accounts \cup {None}
      /\ FeelessWeightThisBlock' = 0 /\ FeelessCountThisBlock' = 0
      /\ UNCHANGED <<included, Burned, FeelessFirstSeen, FeelessUsed, tx, born>>
      /\ granted' = [a \in Accounts |-> 0] \/ granted' = granted
  BY DEF NextBlock
<1>1. account \in [Accounts -> Records] /\ \A a \in Accounts : Balanced(account[a], Own(a)) /\ Own(a) \in {0, 1}
  BY AccountsBalanced DEF AccountsInv
<1>2. /\ account' \in [Accounts -> Records] /\ Minted' \in [Coins -> Nat] /\ Epoch' \in Nat
      /\ \A a \in Accounts : Balanced(account'[a], Own(a))
  <2>1. CASE UNCHANGED <<account, Minted, Epoch>>
    BY <1>1, <2>1 DEF AccountsInv, TypeOK
  <2>2. CASE \E s \in Services, h \in Hostings : RunEpoch(s, h)
    <3>1. PICK s \in Services, h \in Hostings : RunEpoch(s, h)
      BY <2>2
    <3>2. /\ account' \in [Accounts -> Records] /\ Minted' \in [Coins -> Nat] /\ Epoch' \in Nat
          /\ \A a \in Accounts : \A own \in {0, 1} :
               Balanced(account[a], own) => Balanced(account'[a], own)
      BY <3>1, EraPays
    <3> QED
      BY <1>1, <3>2
  <2> QED
    BY <2>1, <2>2 DEF NextBlock
<1>3. \A a \in Accounts : Own(a)' = Own(a)
  BY <1>0 DEF Own
<1>4. granted' \in [Accounts -> Nat]
  BY <1>0 DEF AccountsInv, TypeOK
<1>5. number' \in 0..MaxBlock /\ 0 \in 0..MaxFeelessPerBlock
  BY <1>0, Parameters DEF AccountsInv, TypeOK
<1>6. TypeOK'
  BY <1>0, <1>2, <1>4, <1>5 DEF TypeOK, Records, AccountsInv
<1>7. \A a \in Accounts : Balanced(account'[a], Own(a)')
  BY <1>2, <1>3
<1>8. ReferencesBalanced'
  BY <1>7 DEF ReferencesBalanced, Balanced, Own
<1> QED
  BY <1>0, <1>6, <1>8 DEF AccountsInv, NewbornApart

LEMMA AccountsStep == AccountsInv /\ [Next]_vars => AccountsInv'
<1> SUFFICES ASSUME AccountsInv, [Next]_vars PROVE AccountsInv'
  OBVIOUS
<1>1. CASE \E who \in Accounts, call \in Calls : PrepareFeeless(who, call)
  BY <1>1, PrepareFeelessKeeps
<1>2. CASE \E who \in Accounts, call \in Calls, fee \in Fees : PreparePaying(who, call, fee)
  BY <1>2, PreparePayingKeeps
<1>3. CASE Dispatch
  BY <1>3, DispatchKeeps
<1>4. CASE SettleFeeless
  BY <1>4, SettleFeelessKeeps
<1>5. CASE \E corrected \in Fees : SettlePaid(corrected)
  BY <1>5, SettlePaidKeeps
<1>6. CASE NextBlock
  BY <1>6, NextBlockKeeps
<1>7. CASE UNCHANGED vars
  BY <1>7 DEF vars, supply, feeless, AccountsInv, TypeOK, Transactions, ReferencesBalanced, HasCoin, NewbornApart
<1> QED
  BY <1>1, <1>2, <1>3, <1>4, <1>5, <1>6, <1>7 DEF Next

LEMMA AccountsAlways == Spec => []AccountsInv
BY AccountsInit, AccountsStep, PTL DEF Spec

(* The state of the two coins, the lane and the extrinsic keeps its types. *)
THEOREM TokensTyped == Spec => []TypeOK
<1>1. AccountsInv => TypeOK
  BY DEF AccountsInv
<1> QED
  BY <1>1, AccountsAlways, PTL

(* References are never leaked nor dropped twice: an account holds one for  *)
(* its coins and one for having entered by itself, through every fee,       *)
(* refund, failed call, transfer and era.                                   *)
THEOREM ReferencesAlwaysBalanced == Spec => []ReferencesBalanced
<1>1. AccountsInv => ReferencesBalanced
  BY DEF AccountsInv
<1> QED
  BY <1>1, AccountsAlways, PTL

-----------------------------------------------------------------------------
(* What each step does to the coins and the nonce of every account.  A mask *)
(* that has entered by itself keeps a reference when its coins are gone.    *)
NonceKept == \A a \in born : account'[a].nonce >= account[a].nonce

LEMMA BornReference ==
  ASSUME AccountsInv, NEW a \in born
  PROVE  /\ a \in Accounts /\ account[a] \in Records /\ account[a].nonce \in Nat
         /\ account[a].sufficients = IF HasCoin(account[a]) THEN 2 ELSE 1
<1>1. a \in Accounts /\ Own(a) = 1
  BY DEF AccountsInv, TypeOK, Own
<1>2. account[a] \in Records /\ Balanced(account[a], 1)
  <2>1. account[a] \in Records /\ Balanced(account[a], Own(a))
    BY <1>1, AccountsBalanced DEF AccountsInv
  <2> QED
    BY <1>1, <2>1
<1> QED
  BY <1>1, <1>2 DEF Balanced, Records

LEMMA PrepareFeelessEffect ==
  ASSUME AccountsInv, NEW who \in Accounts, NEW call \in Calls, PrepareFeeless(who, call)
  PROVE  /\ \A a \in Accounts : account'[a].hlq = account[a].hlq /\ account'[a].sov = account[a].sov
         /\ NonceKept
<1>1. account \in [Accounts -> Records] /\ \A a \in Accounts : account[a] \in Records
  BY AccountsBalanced DEF AccountsInv
<1>2. account' = [account EXCEPT ![who] = Entered(account[who])]
  BY DEF PrepareFeeless
<1>3. /\ Entered(account[who]).hlq = account[who].hlq /\ Entered(account[who]).sov = account[who].sov
      /\ Entered(account[who]).nonce = account[who].nonce + 1
  BY <1>1, EnteredRecord
<1>4. \A a \in Accounts : account'[a] = IF a = who THEN Entered(account[who]) ELSE account[a]
  BY <1>1, <1>2
<1>5. \A a \in born : a \in Accounts /\ account[a].nonce \in Nat
  BY BornReference
<1> QED
  BY <1>3, <1>4, <1>5 DEF NonceKept

LEMMA PreparePayingEffect ==
  ASSUME AccountsInv, NEW who \in Accounts, NEW call \in Calls, NEW fee \in Fees,
         PreparePaying(who, call, fee)
  PROVE  /\ fee \in Nat \ {0} /\ account[who].hlq \in Nat /\ account[who].hlq >= fee
         /\ account'[who].hlq = account[who].hlq - fee
         /\ \A a \in Accounts : account'[a].sov = account[a].sov
         /\ \A a \in Accounts \ {who} : account'[a].hlq = account[a].hlq
         /\ NonceKept
<1> DEFINE e == Entered(account[who])
           r == Debited(e, "hlq", fee)
<1>0. fee \in Nat \ {0} /\ account[who].hlq >= fee
  BY AmountsAssumption DEF PreparePaying
<1>1. account \in [Accounts -> Records] /\ account[who] \in Records /\ account[who].hlq \in Nat
  BY AccountsBalanced DEF AccountsInv, Records
<1>2. /\ e \in Records /\ e.hlq = account[who].hlq /\ e.sov = account[who].sov
      /\ e.nonce = account[who].nonce + 1 /\ e.sufficients >= account[who].sufficients
  BY <1>1, EnteredRecord
<1>c. account' = [account EXCEPT ![who] = r]
  BY DEF PreparePaying
<1> HIDE DEF e
<1>3. /\ r \in Records /\ r["hlq"] = e["hlq"] - fee /\ r["sov"] = e["sov"]
      /\ r.nonce = e.nonce \/ e.sufficients =< 1
  <2>1. "hlq" \in Coins /\ "sov" \in Coins \ {"hlq"} /\ fee =< e["hlq"]
    BY <1>0, <1>1, <1>2 DEF Coins
  <2> QED
    BY <1>0, <1>2, <2>1, DebitedRecord
<1> HIDE DEF r
<1>4. \A a \in Accounts : account'[a] = IF a = who THEN r ELSE account[a]
  BY <1>1, <1>c
<1>5. ASSUME NEW a \in born PROVE account'[a].nonce >= account[a].nonce
  <2>1. a \in Accounts /\ account[a].nonce \in Nat /\ account[a].sov \in Nat
        /\ account[a].sufficients = IF HasCoin(account[a]) THEN 2 ELSE 1
    BY BornReference DEF Records
  <2>2. CASE a = who
    <3>1. account[a].sufficients = 2
      BY <1>0, <1>1, <2>1, <2>2 DEF HasCoin
    <3>2. e.sufficients \in Nat /\ e.sufficients >= 2
      BY <1>2, <2>2, <3>1 DEF Records
    <3> QED
      BY <1>2, <1>3, <1>4, <2>1, <2>2, <3>2
  <2>3. CASE a # who
    BY <1>4, <2>1, <2>3
  <2> QED
    BY <2>2, <2>3
<1> QED
  BY <1>0, <1>1, <1>2, <1>3, <1>4, <1>5 DEF NonceKept

LEMMA DispatchEffect ==
  ASSUME AccountsInv, Dispatch, account' # account
  PROVE  LET c == tx.call
         IN  /\ tx.who \in Accounts /\ c.to \in Accounts /\ c.to # tx.who
             /\ c.coin \in Coins /\ c.amount \in Nat \ {0} /\ c.amount =< account[tx.who][c.coin]
             /\ account'[tx.who][c.coin] = account[tx.who][c.coin] - c.amount
             /\ account'[c.to][c.coin] = account[c.to][c.coin] + c.amount
             /\ \A a \in Accounts, x \in Coins :
                  x # c.coin \/ a \notin {tx.who, c.to} => account'[a][x] = account[a][x]
             /\ NonceKept
<1> DEFINE c == tx.call
           w == tx.who
           paid == Debited(account[w], c.coin, c.amount)
           got == Credited(account[c.to], c.coin, c.amount)
<1>0. account \in [Accounts -> Records]
  BY AccountsBalanced DEF AccountsInv
<1>1. /\ w \in Accounts /\ c.to \in Accounts /\ c.to # w
      /\ c.coin \in Coins /\ c.amount \in Nat \ {0} /\ c.amount =< account[w][c.coin]
      /\ account[w] \in Records /\ account[c.to] \in Records
      /\ account' = [[account EXCEPT ![w] = paid] EXCEPT ![c.to] = got]
  <2>1. tx # None /\ tx.call.kind = "Transfer" /\ CanTransfer(tx.call, tx.who) /\ account' = DoTransfer(tx.call, tx.who)
    BY DEF Dispatch
  <2> QED
    BY <2>1, TransferRecords
<1> HIDE DEF c, w
<1>2. /\ paid[c.coin] = account[w][c.coin] - c.amount
      /\ \A x \in Coins \ {c.coin} : paid[x] = account[w][x]
      /\ paid.nonce = account[w].nonce \/ account[w].sufficients =< 1
  BY <1>1, DebitedRecord
<1>3. /\ got[c.coin] = account[c.to][c.coin] + c.amount
      /\ \A x \in Coins \ {c.coin} : got[x] = account[c.to][x]
      /\ got.nonce = account[c.to].nonce
  BY <1>1, CreditedRecord
<1> HIDE DEF paid, got
<1>4. \A a \in Accounts : account'[a] = IF a = c.to THEN got ELSE IF a = w THEN paid ELSE account[a]
  BY <1>0, <1>1
<1>5. ASSUME NEW a \in Accounts, NEW x \in Coins, x # c.coin \/ a \notin {w, c.to}
      PROVE  account'[a][x] = account[a][x]
  BY <1>2, <1>3, <1>4, <1>5
<1>6. ASSUME NEW a \in born PROVE account'[a].nonce >= account[a].nonce
  <2>1. a \in Accounts /\ account[a].nonce \in Nat /\ account[a] \in Records
        /\ account[a].sufficients = IF HasCoin(account[a]) THEN 2 ELSE 1
    BY BornReference
  <2>2. CASE a = c.to
    BY <1>3, <1>4, <2>1, <2>2
  <2>3. CASE a # c.to /\ a = w
    <3>1. HasCoin(account[a])
      <4>1. account[a].hlq \in Nat /\ account[a].sov \in Nat /\ (c.coin = "hlq" \/ c.coin = "sov")
        BY <1>1, <2>1 DEF Coins, Records
      <4>2. account[a][c.coin] > 0
        BY <1>1, <2>3, <4>1
      <4> QED
        BY <4>1, <4>2 DEF HasCoin
    <3> QED
      BY <1>2, <1>4, <2>1, <2>3, <3>1
  <2>4. CASE a # c.to /\ a # w
    BY <1>4, <2>1, <2>4
  <2> QED
    BY <2>2, <2>3, <2>4
<1>7. account'[w][c.coin] = account[w][c.coin] - c.amount /\ account'[c.to][c.coin] = account[c.to][c.coin] + c.amount
  BY <1>1, <1>2, <1>3, <1>4
<1> QED
  BY <1>1, <1>5, <1>6, <1>7 DEF NonceKept, c, w

LEMMA LeavingKeepsNonce ==
  ASSUME AccountsInv, tx # None, NEW who, who = tx.who, who \in born
  PROVE  Leaving(account[who]) = account[who]
BY DEF AccountsInv, NewbornApart, Leaving

LEMMA SettleFeelessEffect ==
  ASSUME AccountsInv, SettleFeeless
  PROVE  /\ \A a \in Accounts : account'[a].hlq = account[a].hlq /\ account'[a].sov = account[a].sov
         /\ NonceKept
<1>w. PICK who : who = tx.who
  OBVIOUS
<1> DEFINE r == Leaving(account[who])
<1>0. /\ tx # None /\ tx.stage # "prepared" /\ born' = Born /\ tx' = None
      /\ account' = [account EXCEPT ![who] = r]
  BY <1>w DEF SettleFeeless, Left
<1>1. who \in Accounts /\ r.hlq = account[who].hlq /\ r.sov = account[who].sov
  BY <1>0, <1>w, LeavingRecord
<1>2. account \in [Accounts -> Records]
  BY AccountsBalanced DEF AccountsInv
<1>3. who \in born => r = account[who]
  BY <1>0, <1>w, LeavingKeepsNonce
<1> HIDE DEF r
<1>4. \A a \in Accounts : account'[a] = IF a = who THEN r ELSE account[a]
  BY <1>0, <1>2
<1>5. \A a \in born : a \in Accounts /\ account[a].nonce \in Nat
  BY BornReference
<1> QED
  BY <1>1, <1>3, <1>4, <1>5 DEF NonceKept

(* What the settlement of a fee gives back, and what it pays.              *)
FeeOf(corrected) == MinOf(corrected, tx.secured)
BurnOf(corrected) == BurnAmount(FeeOf(corrected), FeeBurnBps)
AuthorPaid(corrected) == author # None /\ FeeOf(corrected) > BurnOf(corrected) /\ author \notin Founders

LEMMA SettlePaidEffect ==
  ASSUME AccountsInv, NEW corrected \in Fees, SettlePaid(corrected)
  PROVE  /\ FeeOf(corrected) \in Nat \ {0} /\ FeeOf(corrected) =< tx.secured
         /\ BurnOf(corrected) \in 0..FeeOf(corrected) /\ tx.secured \in Nat
         /\ tx.who \in Accounts /\ (AuthorPaid(corrected) => author \in Accounts)
         /\ \A a \in Accounts :
              /\ account'[a].sov = account[a].sov
              /\ account'[a].hlq =
                   account[a].hlq + (IF a = tx.who THEN tx.secured - FeeOf(corrected) ELSE 0)
                   + (IF AuthorPaid(corrected) /\ a = author THEN FeeOf(corrected) - BurnOf(corrected) ELSE 0)
         /\ Burned' = Burned + (IF AuthorPaid(corrected) THEN BurnOf(corrected) ELSE FeeOf(corrected))
         /\ NonceKept
<1>w. PICK who : who = tx.who
  OBVIOUS
<1> DEFINE fee == MinOf(corrected, tx.secured)
           burn == BurnAmount(fee, FeeBurnBps)
           paid == author # None /\ fee > burn /\ author \notin Founders
           left == Leaving(account[who])
           back == Credited(left, "hlq", tx.secured - fee)
           refunded == [account EXCEPT ![who] = back]
           share == Credited(refunded[author], "hlq", fee - burn)
<1>d. /\ FeeOf(corrected) = fee /\ BurnOf(corrected) = burn /\ (AuthorPaid(corrected) <=> paid)
  BY DEF FeeOf, BurnOf, AuthorPaid
<1>0. /\ tx # None /\ tx.stage # "prepared" /\ born' = Born /\ tx' = None
  BY DEF SettlePaid
<1>1. /\ who \in Accounts /\ tx.secured \in Nat /\ left \in Records
  BY <1>0, <1>w, LeavingRecord
<1>2. /\ fee \in Nat \ {0} /\ fee =< tx.secured /\ burn \in 0..fee /\ tx.secured - fee \in Nat
      /\ back \in Records /\ back.hlq = account[who].hlq + (tx.secured - fee)
      /\ back.sov = account[who].sov
      /\ refunded \in [Accounts -> Records]
      /\ paid => author \in Accounts
      /\ account' = IF paid THEN [refunded EXCEPT ![author] = share] ELSE refunded
      /\ Burned' = Burned + (IF paid THEN burn ELSE fee)
  BY <1>w, SettlePaidRecords
<1>3. back.nonce = left.nonce
  <2>1. "hlq" \in Coins
    BY DEF Coins
  <2> HIDE DEF fee, left
  <2> QED
    BY <1>1, <1>2, <2>1, CreditedRecord
<1>4. who \in born => back.nonce = account[who].nonce
  BY <1>0, <1>w, <1>3, LeavingKeepsNonce
<1>5. account \in [Accounts -> Records]
  BY AccountsBalanced DEF AccountsInv
<1>6. \A a \in Accounts : refunded[a] = IF a = who THEN back ELSE account[a]
  BY <1>5
<1> HIDE DEF fee, burn, left, back, refunded, share
<1>7. paid => /\ share.hlq = refunded[author].hlq + (fee - burn) /\ share.sov = refunded[author].sov
              /\ share.nonce = refunded[author].nonce
  <2> SUFFICES ASSUME paid
               PROVE  /\ share.hlq = refunded[author].hlq + (fee - burn) /\ share.sov = refunded[author].sov
                      /\ share.nonce = refunded[author].nonce
    OBVIOUS
  <2>1. refunded[author] \in Records /\ fee - burn \in Nat /\ "hlq" \in Coins /\ "sov" \in Coins \ {"hlq"}
    BY <1>2 DEF Coins
  <2>2. /\ share["hlq"] = refunded[author]["hlq"] + (fee - burn)
        /\ share["sov"] = refunded[author]["sov"]
        /\ share.nonce = refunded[author].nonce
    BY <2>1, CreditedRecord DEF share
  <2> QED
    BY <2>2
<1>8. \A a \in Accounts : account'[a] = IF paid /\ a = author THEN share ELSE refunded[a]
  <2>1. CASE paid
    BY <1>2, <2>1
  <2>2. CASE ~ paid
    BY <1>2, <2>2
  <2> QED
    BY <2>1, <2>2
<1>9. \A a \in Accounts : account[a].hlq \in Nat /\ account[a].sov \in Nat
  BY <1>5 DEF Records
<1> HIDE DEF paid
<1>10. ASSUME NEW a \in Accounts
       PROVE  /\ account'[a].sov = account[a].sov
              /\ account'[a].hlq = account[a].hlq + (IF a = who THEN tx.secured - fee ELSE 0)
                                   + (IF paid /\ a = author THEN fee - burn ELSE 0)
  <2>1. /\ refunded[a].sov = account[a].sov
        /\ refunded[a].hlq = account[a].hlq + (IF a = who THEN tx.secured - fee ELSE 0)
        /\ refunded[a].hlq \in Nat
    BY <1>2, <1>6, <1>9 DEF Records
  <2>2. CASE paid /\ a = author
    <3>1. account'[a] = share
      BY <1>8, <2>2
    <3> QED
      BY <1>2, <1>7, <2>1, <2>2, <3>1
  <2>3. CASE ~(paid /\ a = author)
    <3>1. account'[a] = refunded[a]
      BY <1>8, <2>3
    <3> QED
      BY <2>1, <2>3, <3>1
  <2> QED
    BY <2>2, <2>3
<1>11. NonceKept
  <2>1. \A a \in born : a \in Accounts /\ account[a].nonce \in Nat
    BY BornReference
  <2>2. ASSUME NEW a \in born PROVE account'[a].nonce = account[a].nonce
    <3>1. refunded[a].nonce = account[a].nonce
      BY <1>4, <1>6, <2>1
    <3> QED
      BY <1>7, <1>8, <2>1, <3>1
  <2> QED
    BY <2>1, <2>2 DEF NonceKept
<1> QED
  BY <1>w, <1>1, <1>2, <1>d, <1>10, <1>11

LEMMA EraEffect ==
  ASSUME AccountsInv, NEW s \in Services, NEW h \in Hostings, RunEpoch(s, h)
  PROVE  /\ NonceKept
         /\ \A f \in Founders, c \in Coins : account'[f][c] = account[f][c]
<1> DEFINE income == EraIncome(s, h)
<1>0. Epoch \in Nat /\ Minted \in [Coins -> Nat]
  BY DEF AccountsInv, TypeOK
<1>1. \A a \in Accounts :
        /\ account'[a].hlq = account[a].hlq + income.host[a] + income.hlq[a]
        /\ account'[a].sov = account[a].sov + income.sov[a]
        /\ account'[a].nonce = account[a].nonce
  BY EraPays
<1>2. \A f \in Accounts \cap Founders : income.host[f] = 0 /\ income.hlq[f] = 0 /\ income.sov[f] = 0
  BY <1>0, EraIncomeFits
<1> HIDE DEF income
<1>3. \A a \in born : a \in Accounts /\ account[a].nonce \in Nat
  BY BornReference
<1>4. \A f \in Founders : f \in Accounts /\ account[f].hlq \in Nat /\ account[f].sov \in Nat
  BY FoundersAssumption, AccountsBalanced DEF AccountsInv, Records
<1>5. ASSUME NEW f \in Founders, NEW c \in Coins PROVE account'[f][c] = account[f][c]
  <2>1. account'[f].hlq = account[f].hlq /\ account'[f].sov = account[f].sov
    BY <1>1, <1>2, <1>4
  <2> QED
    BY <2>1 DEF Coins
<1> QED
  BY <1>1, <1>3, <1>5 DEF NonceKept

(* A mask that has entered by an extrinsic of its own never loses its       *)
(* nonce: what it signed once can never be applied again.                   *)
THEOREM NonceNeverLost == Spec => BornMasksKeepNonce
<1>1. ASSUME AccountsInv, [Next]_vars
      PROVE  [\A a \in born : account'[a].nonce >= account[a].nonce]_vars
  <2> SUFFICES ASSUME ~ UNCHANGED vars PROVE NonceKept
    BY DEF NonceKept
  <2>k. account' = account => NonceKept
    <3>1. \A a \in born : account[a].nonce \in Nat
      BY <1>1, BornReference
    <3> QED
      BY <3>1 DEF NonceKept
  <2>1. CASE \E who \in Accounts, call \in Calls : PrepareFeeless(who, call)
    BY <1>1, <2>1, PrepareFeelessEffect
  <2>2. CASE \E who \in Accounts, call \in Calls, fee \in Fees : PreparePaying(who, call, fee)
    BY <1>1, <2>2, PreparePayingEffect
  <2>3. CASE Dispatch
    BY <1>1, <2>3, <2>k, DispatchEffect
  <2>4. CASE SettleFeeless
    BY <1>1, <2>4, SettleFeelessEffect
  <2>5. CASE \E corrected \in Fees : SettlePaid(corrected)
    BY <1>1, <2>5, SettlePaidEffect
  <2>6. CASE NextBlock
    <3>1. CASE UNCHANGED <<account, Minted, Epoch>>
      BY <2>k, <3>1
    <3>2. CASE \E s \in Services, h \in Hostings : RunEpoch(s, h)
      BY <1>1, <3>2, EraEffect
    <3> QED
      BY <2>6, <3>1, <3>2 DEF NextBlock
  <2> QED
    BY <1>1, <2>1, <2>2, <2>3, <2>4, <2>5, <2>6 DEF Next
<1> QED
  BY <1>1, AccountsAlways, PTL DEF Spec, BornMasksKeepNonce

(* No founder is ever paid by the emission or by a fee: what a founder's    *)
(* record gains comes by a transfer or out of the fee it had secured.       *)
Earned(f, c) ==
  account'[f][c] > account[f][c] =>
    /\ tx # None
    /\ tx.stage = "prepared" \/ (tx.who = f /\ account'[f][c] - account[f][c] < tx.secured)

LEMMA FoundersStep ==
  ASSUME AccountsInv, Next, NEW f \in Founders, NEW c \in Coins
  PROVE  Earned(f, c)
<1>1. f \in Accounts /\ account[f].hlq \in Nat /\ account[f].sov \in Nat /\ (c = "hlq" \/ c = "sov")
  BY FoundersAssumption, AccountsBalanced DEF AccountsInv, Records, Coins
<1>k. account'[f][c] = account[f][c] => Earned(f, c)
  BY <1>1 DEF Earned
<1>2. CASE \E who \in Accounts, call \in Calls : PrepareFeeless(who, call)
  BY <1>1, <1>k, <1>2, PrepareFeelessEffect
<1>3. CASE \E who \in Accounts, call \in Calls, fee \in Fees : PreparePaying(who, call, fee)
  <2>1. PICK who \in Accounts, call \in Calls, fee \in Fees : PreparePaying(who, call, fee)
    BY <1>3
  <2>2. /\ fee \in Nat \ {0} /\ account[who].hlq \in Nat
        /\ account'[who].hlq = account[who].hlq - fee
        /\ account'[f].sov = account[f].sov
        /\ f # who => account'[f].hlq = account[f].hlq
    BY <1>1, <2>1, PreparePayingEffect
  <2>3. CASE f = who /\ c = "hlq"
    BY <2>2, <2>3 DEF Earned
  <2>4. CASE f # who \/ c = "sov"
    BY <1>1, <1>k, <2>2, <2>4
  <2> QED
    BY <1>1, <2>3, <2>4
<1>4. CASE Dispatch
  BY <1>4 DEF Dispatch, Earned
<1>5. CASE SettleFeeless
  BY <1>1, <1>k, <1>5, SettleFeelessEffect
<1>6. CASE \E corrected \in Fees : SettlePaid(corrected)
  <2>1. PICK corrected \in Fees : SettlePaid(corrected)
    BY <1>6
  <2>2. /\ FeeOf(corrected) \in Nat \ {0} /\ FeeOf(corrected) =< tx.secured
        /\ tx.secured \in Nat
        /\ account'[f].sov = account[f].sov
        /\ account'[f].hlq =
                   account[f].hlq + (IF f = tx.who THEN tx.secured - FeeOf(corrected) ELSE 0)
                   + (IF AuthorPaid(corrected) /\ f = author THEN FeeOf(corrected) - BurnOf(corrected) ELSE 0)
    BY <1>1, <2>1, SettlePaidEffect
  <2>3. ~(AuthorPaid(corrected) /\ f = author)
    BY DEF AuthorPaid
  <2>4. account'[f].hlq = account[f].hlq + (IF f = tx.who THEN tx.secured - FeeOf(corrected) ELSE 0)
    BY <1>1, <2>2, <2>3
  <2>5. CASE c = "sov" \/ f # tx.who
    BY <1>1, <1>k, <2>2, <2>4, <2>5
  <2>6. CASE c = "hlq" /\ f = tx.who
    <3>1. account'[f][c] - account[f][c] < tx.secured
      BY <1>1, <2>2, <2>4, <2>6
    <3>2. tx # None
      BY <2>1 DEF SettlePaid
    <3> QED
      BY <2>6, <3>1, <3>2 DEF Earned
  <2> QED
    BY <1>1, <2>5, <2>6
<1>7. CASE NextBlock
  <2>1. CASE UNCHANGED <<account, Minted, Epoch>>
    BY <1>k, <2>1
  <2>2. CASE \E s \in Services, h \in Hostings : RunEpoch(s, h)
    BY <1>k, <2>2, EraEffect
  <2> QED
    BY <1>7, <2>1, <2>2 DEF NextBlock
<1> QED
  BY <1>2, <1>3, <1>4, <1>5, <1>6, <1>7 DEF Next

THEOREM FoundersNeverEarn == Spec => FoundersEarnNothing
<1>1. ASSUME AccountsInv, [Next]_vars
      PROVE  [\A f \in Founders, c \in Coins :
                account'[f][c] > account[f][c] =>
                  /\ tx # None
                  /\ tx.stage = "prepared" \/
                     (tx.who = f /\ account'[f][c] - account[f][c] < tx.secured)]_vars
  BY <1>1, FoundersStep DEF Earned
<1> QED
  BY <1>1, AccountsAlways, PTL DEF Spec, FoundersEarnNothing

-----------------------------------------------------------------------------
(* The pallet implements the host ledger.                                  *)
Coinage == [hlq : Nat, sov : Nat]

LEMMA HeldType ==
  ASSUME AccountsInv
  PROVE  /\ Held \in [Accounts -> Coinage] /\ Held \in [Accounts -> [Coins -> Nat]]
         /\ \A a \in Accounts : /\ Held[a].hlq = account[a].hlq + SecuredOf(a) /\ Held[a].sov = account[a].sov
                                /\ account[a].hlq \in Nat /\ account[a].sov \in Nat /\ SecuredOf(a) \in Nat
<1>1. \A a \in Accounts : account[a].hlq \in Nat /\ account[a].sov \in Nat
  BY AccountsBalanced DEF AccountsInv, Records
<1>2. \A a \in Accounts : SecuredOf(a) \in Nat
  <2>1. tx # None => tx.secured \in Nat
    BY DEF AccountsInv, TypeOK, Transactions
  <2> QED
    BY <2>1 DEF SecuredOf
<1>3. \A a \in Accounts : Held[a] = [hlq |-> account[a].hlq + SecuredOf(a), sov |-> account[a].sov]
  BY DEF Held
<1>4. ASSUME NEW a \in Accounts PROVE Held[a] \in Coinage /\ Held[a] \in [Coins -> Nat]
  <2>1. PICK x \in Nat, y \in Nat : Held[a] = [hlq |-> x, sov |-> y]
    <3>1. account[a].hlq + SecuredOf(a) \in Nat /\ account[a].sov \in Nat
      BY <1>1, <1>2
    <3> QED
      BY <1>3, <3>1
  <2>2. Held[a] \in Coinage
    BY <2>1 DEF Coinage
  <2>3. [hlq |-> x, sov |-> y] \in [{"hlq", "sov"} -> Nat]
    OBVIOUS
  <2> QED
    BY <2>1, <2>2, <2>3 DEF Coins
<1>5. Held = [a \in Accounts |-> Held[a]]
  BY DEF Held
<1> QED
  BY <1>1, <1>2, <1>3, <1>4, <1>5

LEMMA HeldNext ==
  ASSUME AccountsInv'
  PROVE  /\ Held' \in [Accounts -> Coinage]
         /\ \A a \in Accounts : /\ Held'[a].hlq = account'[a].hlq + SecuredOf(a)'
                                /\ Held'[a].sov = account'[a].sov
                                /\ account'[a].hlq \in Nat /\ account'[a].sov \in Nat
                                /\ SecuredOf(a)' \in Nat
<1>1. \A a \in Accounts : account'[a].hlq \in Nat /\ account'[a].sov \in Nat
  BY DEF AccountsInv, TypeOK
<1>2. \A a \in Accounts : SecuredOf(a)' \in Nat
  <2>1. tx' # None => tx'.secured \in Nat
    BY DEF AccountsInv, TypeOK, Transactions
  <2> QED
    BY <2>1 DEF SecuredOf
<1>3. \A a \in Accounts : Held'[a] = [hlq |-> account'[a].hlq + SecuredOf(a)', sov |-> account'[a].sov]
  BY DEF Held
<1>4. ASSUME NEW a \in Accounts PROVE Held'[a] \in Coinage
  <2>1. PICK x \in Nat, y \in Nat : Held'[a] = [hlq |-> x, sov |-> y]
    <3>1. account'[a].hlq + SecuredOf(a)' \in Nat /\ account'[a].sov \in Nat
      BY <1>1, <1>2
    <3> QED
      BY <1>3, <3>1
  <2> QED
    BY <2>1 DEF Coinage
<1>5. Held' = [a \in Accounts |-> Held'[a]]
  BY DEF Held
<1> QED
  BY <1>1, <1>2, <1>3, <1>4, <1>5

(* The ledger's credits and debits, entry by entry.                        *)
Purse == [hlq : Int, sov : Int]

LEMMA PursesEqual ==
  ASSUME NEW p \in [Accounts -> Purse], NEW q \in [Accounts -> Purse],
         \A a \in Accounts, x \in Coins : p[a][x] = q[a][x]
  PROVE  p = q
<1>1. ASSUME NEW a \in Accounts PROVE p[a] = q[a]
  <2>1. p[a] \in Purse /\ q[a] \in Purse
    OBVIOUS
  <2>2. p[a].hlq = q[a].hlq /\ p[a].sov = q[a].sov
    BY DEF Coins
  <2> QED
    BY <2>1, <2>2 DEF Purse
<1> QED
  BY <1>1

LEMMA BooksCredit ==
  ASSUME NEW p \in [Accounts -> Purse], NEW who \in Accounts, NEW coin \in Coins, NEW n \in Int
  PROVE  /\ Books!Credit(p, who, coin, n) \in [Accounts -> Purse]
         /\ \A a \in Accounts, x \in Coins :
              Books!Credit(p, who, coin, n)[a][x] = IF a = who /\ x = coin THEN p[a][x] + n ELSE p[a][x]
<1> DEFINE q == [p EXCEPT ![who][coin] = p[who][coin] + n]
<1>1. Books!Credit(p, who, coin, n) = q
  BY DEF Books!Credit
<1>2. CASE coin = "hlq"
  <2>1. p[who] \in Purse /\ p[who].hlq + n \in Int
    BY DEF Purse
  <2>2. q = [p EXCEPT ![who].hlq = p[who].hlq + n]
    BY <1>2
  <2>3. q \in [Accounts -> Purse]
    BY <2>1, <2>2 DEF Purse
  <2>4. ASSUME NEW a \in Accounts, NEW x \in Coins
        PROVE  q[a][x] = IF a = who /\ x = coin THEN p[a][x] + n ELSE p[a][x]
    BY <1>2, <2>2 DEF Coins, Purse
  <2> HIDE DEF q
  <2> QED
    BY <1>1, <2>3, <2>4
<1>3. CASE coin = "sov"
  <2>1. p[who] \in Purse /\ p[who].sov + n \in Int
    BY DEF Purse
  <2>2. q = [p EXCEPT ![who].sov = p[who].sov + n]
    BY <1>3
  <2>3. q \in [Accounts -> Purse]
    BY <2>1, <2>2 DEF Purse
  <2>4. ASSUME NEW a \in Accounts, NEW x \in Coins
        PROVE  q[a][x] = IF a = who /\ x = coin THEN p[a][x] + n ELSE p[a][x]
    BY <1>3, <2>2 DEF Coins, Purse
  <2> HIDE DEF q
  <2> QED
    BY <1>1, <2>3, <2>4
<1> QED
  BY <1>2, <1>3 DEF Coins

LEMMA BooksDebit ==
  ASSUME NEW p \in [Accounts -> Purse], NEW who \in Accounts, NEW coin \in Coins, NEW n \in Int
  PROVE  /\ Books!Debit(p, who, coin, n) \in [Accounts -> Purse]
         /\ \A a \in Accounts, x \in Coins :
              Books!Debit(p, who, coin, n)[a][x] = IF a = who /\ x = coin THEN p[a][x] - n ELSE p[a][x]
<1> DEFINE q == [p EXCEPT ![who][coin] = p[who][coin] - n]
<1>1. Books!Debit(p, who, coin, n) = q
  BY DEF Books!Debit
<1>2. CASE coin = "hlq"
  <2>1. p[who] \in Purse /\ p[who].hlq - n \in Int
    BY DEF Purse
  <2>2. q = [p EXCEPT ![who].hlq = p[who].hlq - n]
    BY <1>2
  <2>3. q \in [Accounts -> Purse]
    BY <2>1, <2>2 DEF Purse
  <2>4. ASSUME NEW a \in Accounts, NEW x \in Coins
        PROVE  q[a][x] = IF a = who /\ x = coin THEN p[a][x] - n ELSE p[a][x]
    BY <1>2, <2>2 DEF Coins, Purse
  <2> HIDE DEF q
  <2> QED
    BY <1>1, <2>3, <2>4
<1>3. CASE coin = "sov"
  <2>1. p[who] \in Purse /\ p[who].sov - n \in Int
    BY DEF Purse
  <2>2. q = [p EXCEPT ![who].sov = p[who].sov - n]
    BY <1>3
  <2>3. q \in [Accounts -> Purse]
    BY <2>1, <2>2 DEF Purse
  <2>4. ASSUME NEW a \in Accounts, NEW x \in Coins
        PROVE  q[a][x] = IF a = who /\ x = coin THEN p[a][x] - n ELSE p[a][x]
    BY <1>3, <2>2 DEF Coins, Purse
  <2> HIDE DEF q
  <2> QED
    BY <1>1, <2>3, <2>4
<1> QED
  BY <1>2, <1>3 DEF Coins

LEMMA SameHeld ==
  ASSUME AccountsInv, AccountsInv',
         \A a \in Accounts : /\ account'[a].hlq + SecuredOf(a)' = account[a].hlq + SecuredOf(a)
                             /\ account'[a].sov = account[a].sov
  PROVE  Held' = Held
BY DEF Held

(* The rules of tokens-core are the same for both.                         *)
LEMMA BooksTotal ==
  ASSUME NEW v
  PROVE  Books!Total(v) = Total(v)
BY DEF Books!Total, Books!MapThenSumSet, Books!MapThenFoldSet, Total, MapThenSumSet, MapThenFoldSet

LEMMA BooksBurn ==
  ASSUME NEW fee, NEW bps
  PROVE  Books!BurnAmount(fee, bps) = BurnAmount(fee, bps)
BY DEF Books!BurnAmount, Books!MinOf, Books!BasisPoints, BurnAmount, MinOf, BasisPoints

LEMMA BooksMint ==
  ASSUME NEW curve, NEW e, NEW m
  PROVE  Books!MintAmount(curve, e, m) = MintAmount(curve, e, m)
BY DEF Books!MintAmount, Books!MinOf, Books!ScheduledReward, MintAmount, MinOf, ScheduledReward

LEMMA BooksInit == Init => Books!Init
<1> SUFFICES ASSUME Init PROVE Books!Init
  OBVIOUS
<1>1. \A a \in Accounts : SecuredOf(a) = 0 /\ account[a].hlq = GenesisBalances[a].hlq /\ account[a].sov = GenesisBalances[a].sov
  BY DEF Init, SecuredOf
<1>2. GenesisBalances \in [Accounts -> [Coins -> Nat]]
  BY AmountsAssumption
<1>3. \A a \in Accounts : Held[a] = GenesisBalances[a]
  <2> SUFFICES ASSUME NEW a \in Accounts PROVE Held[a] = GenesisBalances[a]
    OBVIOUS
  <2>1. GenesisBalances[a] \in [Coins -> Nat]
    BY <1>2
  <2>2. /\ GenesisBalances[a].hlq \in Nat
        /\ GenesisBalances[a] = [hlq |-> GenesisBalances[a].hlq, sov |-> GenesisBalances[a].sov]
    BY <2>1 DEF Coins
  <2>3. Held[a] = [hlq |-> account[a].hlq + SecuredOf(a), sov |-> account[a].sov]
    BY DEF Held
  <2>4. account[a].hlq + SecuredOf(a) = GenesisBalances[a].hlq
    BY <1>1, <2>2
  <2> QED
    BY <1>1, <2>2, <2>3, <2>4
<1>4. Held = GenesisBalances
  BY <1>2, <1>3 DEF Held
<1>5. Minted = [c \in Coins |-> Total([a \in Accounts |-> GenesisBalances[a][c]])]
  BY DEF Init, GenesisTotal
<1>6. \A c \in Coins : Books!TotalOf(GenesisBalances, c) = Total([a \in Accounts |-> GenesisBalances[a][c]])
  BY BooksTotal DEF Books!TotalOf
<1>7. Burned = 0 /\ Epoch = 0
  BY DEF Init
<1> QED
  BY <1>4, <1>5, <1>6, <1>7 DEF Books!Init, Books!Coins, Coins

(* A fee taken before the call is still its payer's; a call of the lane     *)
(* takes none.                                                              *)
LEMMA PrepareStutters ==
  ASSUME AccountsInv, AccountsInv', NEW who \in Accounts, NEW call \in Calls, NEW fee \in Nat,
         Begin(who, call, fee),
         \A a \in Accounts : /\ account'[a].sov = account[a].sov
                             /\ account'[a].hlq = IF a = who THEN account[a].hlq - fee ELSE account[a].hlq
  PROVE  UNCHANGED Books!ledger
<1>1. tx = None /\ tx' # None /\ tx'.who = who /\ tx'.secured = fee
  <2>1. tx' \in Transactions
    BY DEF Begin, Transactions
  <2> QED
    BY <2>1, NoneAssumption DEF Begin
<1>2. \A a \in Accounts : account[a].hlq \in Nat
  BY HeldType
<1>3. ASSUME NEW a \in Accounts
      PROVE  account'[a].hlq + SecuredOf(a)' = account[a].hlq + SecuredOf(a)
  <2>1. SecuredOf(a) = 0 /\ SecuredOf(a)' = IF a = who THEN fee ELSE 0
    BY <1>1 DEF SecuredOf
  <2> QED
    BY <1>2, <2>1
<1>4. Held' = Held
  BY <1>3, SameHeld
<1>5. Minted' = Minted /\ Burned' = Burned /\ Epoch' = Epoch
  BY DEF Begin, supply
<1> QED
  BY <1>4, <1>5 DEF Books!ledger

LEMMA DispatchTransfers ==
  ASSUME AccountsInv, AccountsInv', Dispatch
  PROVE  Books!Next \/ UNCHANGED Books!ledger
<1>0. /\ Minted' = Minted /\ Burned' = Burned /\ Epoch' = Epoch
      /\ tx # None /\ tx' # None /\ tx'.who = tx.who /\ tx'.secured = tx.secured
  <2>1. /\ tx \in Transactions /\ \E stage \in {"done", "failed"} : tx' = [tx EXCEPT !.stage = stage]
    BY DEF Dispatch, Dispatched, AccountsInv, TypeOK
  <2>2. tx' \in Transactions /\ tx'.who = tx.who /\ tx'.secured = tx.secured
    BY <2>1 DEF Transactions
  <2> QED
    BY <2>2, NoneAssumption DEF Dispatch, supply
<1>1. \A a \in Accounts : SecuredOf(a)' = SecuredOf(a)
  BY <1>0 DEF SecuredOf
<1>2. CASE account' = account
  <2>1. Held' = Held
    BY <1>1, <1>2, SameHeld
  <2> QED
    BY <1>0, <2>1 DEF Books!ledger
<1>3. CASE account' # account
  <2> DEFINE c == tx.call
             w == tx.who
  <2>1. /\ w \in Accounts /\ c.to \in Accounts /\ c.to # w
        /\ c.coin \in Coins /\ c.amount \in Nat \ {0} /\ c.amount =< account[w][c.coin]
        /\ account'[w][c.coin] = account[w][c.coin] - c.amount
        /\ account'[c.to][c.coin] = account[c.to][c.coin] + c.amount
        /\ \A a \in Accounts, x \in Coins :
             x # c.coin \/ a \notin {w, c.to} => account'[a][x] = account[a][x]
    BY <1>3, DispatchEffect
  <2> HIDE DEF c, w
  <2>2. /\ Held \in [Accounts -> Coinage] /\ Held' \in [Accounts -> Coinage]
        /\ \A a \in Accounts : /\ Held[a].hlq = account[a].hlq + SecuredOf(a) /\ Held[a].sov = account[a].sov
                               /\ account[a].hlq \in Nat /\ account[a].sov \in Nat /\ SecuredOf(a) \in Nat
        /\ \A a \in Accounts : /\ Held'[a].hlq = account'[a].hlq + SecuredOf(a)' /\ Held'[a].sov = account'[a].sov
                               /\ account'[a].hlq \in Nat /\ account'[a].sov \in Nat
    BY HeldType, HeldNext
  <2>3. /\ Held'[w][c.coin] = Held[w][c.coin] - c.amount
        /\ Held'[c.to][c.coin] = Held[c.to][c.coin] + c.amount
        /\ \A a \in Accounts, x \in Coins :
             x # c.coin \/ a \notin {w, c.to} => Held'[a][x] = Held[a][x]
        /\ c.amount =< Held[w][c.coin] /\ Held[w][c.coin] \in Nat
    <3>1. CASE c.coin = "hlq"
      BY <1>1, <2>1, <2>2, <3>1 DEF Coins
    <3>2. CASE c.coin = "sov"
      BY <1>1, <2>1, <2>2, <3>2 DEF Coins
    <3> QED
      BY <2>1, <3>1, <3>2 DEF Coins
  <2> DEFINE bal == Books!Credit(Books!Debit(Held, w, c.coin, c.amount), c.to, c.coin, c.amount)
  <2>4. Held \in [Accounts -> Purse] /\ Held' \in [Accounts -> Purse]
    <3>1. \A p \in Coinage : p \in Purse
      BY DEF Coinage, Purse
    <3> QED
      BY <2>2, <3>1
  <2>5. /\ bal \in [Accounts -> Purse]
        /\ \A a \in Accounts, x \in Coins : bal[a][x] = Held'[a][x]
    <3> DEFINE less == Books!Debit(Held, w, c.coin, c.amount)
    <3>1. /\ less \in [Accounts -> Purse] /\ c.amount \in Int
          /\ \A a \in Accounts, x \in Coins :
               less[a][x] = IF a = w /\ x = c.coin THEN Held[a][x] - c.amount ELSE Held[a][x]
      BY <2>1, <2>4, BooksDebit
    <3> HIDE DEF less
    <3>2. /\ Books!Credit(less, c.to, c.coin, c.amount) \in [Accounts -> Purse]
          /\ \A a \in Accounts, x \in Coins :
               Books!Credit(less, c.to, c.coin, c.amount)[a][x]
                 = IF a = c.to /\ x = c.coin THEN less[a][x] + c.amount ELSE less[a][x]
      BY <2>1, <3>1, BooksCredit
    <3>3. bal = Books!Credit(less, c.to, c.coin, c.amount)
      BY DEF less
    <3> HIDE DEF bal
    <3>4. ASSUME NEW a \in Accounts, NEW x \in Coins PROVE bal[a][x] = Held'[a][x]
      <4>1. bal[a][x] = IF a = c.to /\ x = c.coin THEN less[a][x] + c.amount ELSE less[a][x]
        BY <3>2, <3>3
      <4> QED
        BY <2>1, <2>3, <3>1, <4>1
    <3> QED
      BY <3>2, <3>3, <3>4
  <2> HIDE DEF bal
  <2>6. Held' = bal
    BY <2>4, <2>5, PursesEqual
  <2>7. Held' # Held
    <3>1. Held'[w][c.coin] # Held[w][c.coin]
      BY <2>1, <2>3
    <3> QED
      BY <3>1
  <2>8. Books!Transfer(w, c.to, c.coin, c.amount)
    BY <1>0, <2>1, <2>3, <2>6 DEF Books!Transfer, bal
  <2>9. c.amount \in 1..Held[w][c.coin] /\ c.coin \in Books!Coins
    BY <2>1, <2>3 DEF Books!Coins, Coins
  <2> QED
    BY <2>1, <2>7, <2>8, <2>9 DEF Books!Next, Books!Move
<1> QED
  BY <1>2, <1>3

LEMMA SettleFeelessStutters ==
  ASSUME AccountsInv, AccountsInv', SettleFeeless
  PROVE  UNCHANGED Books!ledger
<1>1. \A a \in Accounts : SecuredOf(a) = 0 /\ SecuredOf(a)' = 0
  BY DEF SettleFeeless, SecuredOf
<1>2. \A a \in Accounts : account'[a].hlq = account[a].hlq /\ account'[a].sov = account[a].sov
  BY SettleFeelessEffect
<1>3. Held' = Held
  BY <1>1, <1>2, SameHeld
<1> QED
  BY <1>3 DEF SettleFeeless, supply, Books!ledger

LEMMA WholeBurned ==
  ASSUME NEW fee \in Nat
  PROVE  BurnAmount(fee, BasisPoints) = fee
<1>1. BurnAmount(fee, BasisPoints) = (fee \div 10000) * 10000 + ((fee % 10000) * 10000) \div 10000
  BY DEF BurnAmount, MinOf, BasisPoints
<1> DEFINE q == fee \div 10000
           r == fee % 10000
<1>2. q \in Nat /\ r \in Nat /\ fee = 10000 * q + r
  OBVIOUS
<1> HIDE DEF q, r
<1>3. (r * 10000) \div 10000 = r
  BY <1>2
<1> QED
  BY <1>1, <1>2, <1>3 DEF q, r

(* A settlement charges the corrected fee: to its payer, with the author's  *)
(* share to the author, or burned whole.                                    *)
LEMMA SettlePaidCharges ==
  ASSUME AccountsInv, AccountsInv', NEW corrected \in Fees, SettlePaid(corrected)
  PROVE  Books!Next \/ UNCHANGED Books!ledger
<1> DEFINE w == tx.who
           fee == FeeOf(corrected)
           paid == AuthorPaid(corrected)
           node == IF paid THEN author ELSE w
           bps == IF paid THEN FeeBurnBps ELSE BasisPoints
           burn == BurnAmount(fee, bps)
<1>0. /\ tx # None /\ tx' = None /\ Minted' = Minted /\ Epoch' = Epoch
  BY DEF SettlePaid
<1>1. /\ fee \in Nat \ {0} /\ fee =< tx.secured /\ tx.secured \in Nat /\ w \in Accounts
      /\ paid => author \in Accounts
      /\ BurnOf(corrected) \in 0..fee
      /\ Burned' = Burned + (IF paid THEN BurnOf(corrected) ELSE fee)
      /\ \A a \in Accounts :
           /\ account'[a].sov = account[a].sov
           /\ account'[a].hlq = account[a].hlq + (IF a = w THEN tx.secured - fee ELSE 0)
                                + (IF paid /\ a = author THEN fee - BurnOf(corrected) ELSE 0)
  BY SettlePaidEffect
<1>2. burn = (IF paid THEN BurnOf(corrected) ELSE fee) /\ BurnOf(corrected) = BurnAmount(fee, FeeBurnBps)
  BY <1>1, WholeBurned DEF BurnOf
<1>s. \A a \in Accounts : SecuredOf(a) = (IF a = w THEN tx.secured ELSE 0) /\ SecuredOf(a)' = 0
  BY <1>0 DEF SecuredOf
<1>b. bps \in {FeeBurnBps, BasisPoints} /\ Books!BurnAmount(fee, bps) = burn
  BY BooksBurn
<1>n. node \in Accounts
  BY <1>1
<1>p. paid => node = author
  OBVIOUS
<1>q. ~ paid => node = w
  OBVIOUS
<1> HIDE DEF w, fee, paid, bps, burn, node
<1>3. burn \in Nat /\ burn =< fee /\ fee - burn \in Nat /\ Burned' = Burned + burn
  BY <1>1, <1>2
<1>4. /\ Held \in [Accounts -> Coinage] /\ Held' \in [Accounts -> Coinage]
      /\ \A a \in Accounts : /\ Held[a].hlq = account[a].hlq + SecuredOf(a) /\ Held[a].sov = account[a].sov
                             /\ account[a].hlq \in Nat /\ account[a].sov \in Nat
      /\ \A a \in Accounts : /\ Held'[a].hlq = account'[a].hlq + SecuredOf(a)' /\ Held'[a].sov = account'[a].sov
                             /\ account'[a].hlq \in Nat
  BY HeldType, HeldNext
<1>5. ASSUME NEW a \in Accounts
      PROVE  /\ Held'[a].sov = Held[a].sov
             /\ Held'[a].hlq = Held[a].hlq - (IF a = w THEN fee ELSE 0) + (IF a = node THEN fee - burn ELSE 0)
  <2>1. Held'[a].sov = Held[a].sov
    BY <1>1, <1>4
  <2>2. /\ Held'[a].hlq = account[a].hlq + (IF a = w THEN tx.secured - fee ELSE 0)
                          + (IF paid /\ a = author THEN fee - BurnOf(corrected) ELSE 0)
        /\ Held[a].hlq = account[a].hlq + (IF a = w THEN tx.secured ELSE 0) /\ account[a].hlq \in Nat
    BY <1>1, <1>4, <1>s
  <2>3. CASE paid
    BY <1>1, <1>2, <1>p, <2>1, <2>2, <2>3
  <2>4. CASE ~ paid
    BY <1>1, <1>2, <1>q, <2>1, <2>2, <2>4
  <2> QED
    BY <2>3, <2>4
<1>6. Held \in [Accounts -> Purse] /\ Held' \in [Accounts -> Purse]
  <2>1. \A p \in Coinage : p \in Purse
    BY DEF Coinage, Purse
  <2> QED
    BY <1>4, <2>1
<1> DEFINE less == Books!Debit(Held, w, "hlq", fee)
           bal == Books!Credit(less, node, "hlq", fee - burn)
<1>c. "hlq" \in Coins /\ fee \in Int /\ fee - burn \in Int
  BY <1>1, <1>3 DEF Coins
<1>7. /\ less \in [Accounts -> Purse]
      /\ \A a \in Accounts, x \in Coins :
           less[a][x] = IF a = w /\ x = "hlq" THEN Held[a][x] - fee ELSE Held[a][x]
  BY <1>1, <1>6, <1>c, BooksDebit
<1> HIDE DEF less
<1>8. /\ bal \in [Accounts -> Purse]
      /\ \A a \in Accounts, x \in Coins :
           bal[a][x] = IF a = node /\ x = "hlq" THEN less[a][x] + (fee - burn) ELSE less[a][x]
  BY <1>n, <1>7, <1>c, BooksCredit
<1> HIDE DEF bal
<1>9. ASSUME NEW a \in Accounts, NEW x \in Coins PROVE Held'[a][x] = bal[a][x]
  <2>1. CASE x = "sov"
    BY <1>5, <1>7, <1>8, <2>1
  <2>2. CASE x = "hlq"
    <3>1. Held[a].hlq \in Int
      BY <1>6 DEF Purse
    <3>2. less[a].hlq = Held[a].hlq - (IF a = w THEN fee ELSE 0)
      BY <1>1, <1>7, <1>c, <2>2, <3>1
    <3>3. bal[a].hlq = less[a].hlq + (IF a = node THEN fee - burn ELSE 0)
      <4>1. less[a].hlq \in Int
        BY <1>1, <3>1, <3>2
      <4> QED
        BY <1>8, <1>c, <4>1
    <3> QED
      BY <1>5, <2>2, <3>2, <3>3
  <2> QED
    BY <2>1, <2>2 DEF Coins
<1>10. Held' = bal
  BY <1>6, <1>8, <1>9, PursesEqual
<1>11. Held[w].hlq >= fee /\ fee \in 1..Held[w].hlq
  <2>1. Held[w].hlq = account[w].hlq + tx.secured /\ account[w].hlq \in Nat
    BY <1>1, <1>4, <1>s
  <2> QED
    BY <1>1, <2>1
<1>12. Books!ChargeFeeWithBurn(w, node, fee, bps)
  BY <1>0, <1>1, <1>3, <1>b, <1>10, <1>11 DEF Books!ChargeFeeWithBurn, bal, less
<1>13. CASE Held' # Held
  BY <1>1, <1>n, <1>b, <1>11, <1>12, <1>13 DEF Books!Next, Books!Move
<1>14. CASE Held' = Held
  <2>1. burn = 0
    <3>1. Held[w].hlq \in Int /\ Held[w].hlq = Held[w].hlq - fee + (IF w = node THEN fee - burn ELSE 0)
      BY <1>1, <1>5, <1>6, <1>14 DEF Purse
    <3> QED
      BY <1>1, <1>3, <3>1
  <2>2. Burned' = Burned
    BY <1>3, <2>1 DEF AccountsInv, TypeOK
  <2> QED
    BY <1>0, <1>14, <2>2 DEF Books!ledger
<1> QED
  BY <1>13, <1>14

(* An era mints what the shares come to, and no more than the curves allow. *)
LEMMA EraMints ==
  ASSUME AccountsInv, AccountsInv', tx = None, tx' = None, Burned' = Burned,
         NEW s \in Services, NEW h \in Hostings, RunEpoch(s, h)
  PROVE  Books!MintEmission
<1> DEFINE income == EraIncome(s, h)
           of(coin) == [a \in Accounts |-> Held[a][coin]]
           now(coin) == [a \in Accounts |-> Held'[a][coin]]
           hosted == [a \in Accounts |-> Held[a].hlq + income.host[a]]
<1>0. /\ Epoch \in Nat /\ Minted \in [Coins -> Nat] /\ Minted.hlq \in Nat /\ Minted.sov \in Nat
      /\ IsFiniteSet(Accounts)
  BY AmountsAssumption DEF AccountsInv, TypeOK, Coins
<1>1. /\ income.host \in [Accounts -> Nat] /\ income.hlq \in [Accounts -> Nat]
      /\ income.sov \in [Accounts -> Nat]
      /\ Total(income.host) \in Nat /\ Total(income.hlq) \in Nat /\ Total(income.sov) \in Nat
      /\ Total(income.host) + Total(income.hlq) =< MintAmount(HlqCurve, Epoch, Minted.hlq)
      /\ Total(income.sov) =< MintAmount(SovCurve, Epoch, Minted.sov)
  BY <1>0, EraIncomeFits
<1>2. /\ Minted' = [hlq |-> Minted.hlq + Total(income.host) + Total(income.hlq),
                    sov |-> Minted.sov + Total(income.sov)]
      /\ Epoch' = Epoch + 1
  BY DEF RunEpoch
<1>3. \A a \in Accounts :
        /\ account'[a].hlq = account[a].hlq + income.host[a] + income.hlq[a]
        /\ account'[a].sov = account[a].sov + income.sov[a]
  BY EraPays
<1> HIDE DEF income
<1>4. \A a \in Accounts : SecuredOf(a) = 0 /\ SecuredOf(a)' = 0
  BY DEF SecuredOf
<1>5. ASSUME NEW a \in Accounts
      PROVE  /\ Held[a].hlq \in Nat /\ Held[a].sov \in Nat
             /\ income.host[a] \in Nat /\ income.hlq[a] \in Nat /\ income.sov[a] \in Nat
             /\ Held'[a].hlq = Held[a].hlq + income.host[a] + income.hlq[a]
             /\ Held'[a].sov = Held[a].sov + income.sov[a]
  <2>1. /\ Held[a].hlq = account[a].hlq + SecuredOf(a) /\ Held[a].sov = account[a].sov
        /\ account[a].hlq \in Nat /\ account[a].sov \in Nat
        /\ Held'[a].hlq = account'[a].hlq + SecuredOf(a)' /\ Held'[a].sov = account'[a].sov
    BY HeldType, HeldNext
  <2>2. income.host[a] \in Nat /\ income.hlq[a] \in Nat /\ income.sov[a] \in Nat
    BY <1>1
  <2> QED
    BY <1>3, <1>4, <2>1, <2>2
<1>6. /\ of("hlq") \in [Accounts -> Nat] /\ of("sov") \in [Accounts -> Nat]
      /\ now("hlq") \in [Accounts -> Nat] /\ now("sov") \in [Accounts -> Nat]
      /\ hosted \in [Accounts -> Nat]
  BY <1>5
<1>7. \A a \in Accounts :
        /\ of("hlq")[a] = Held[a].hlq /\ of("sov")[a] = Held[a].sov
        /\ now("hlq")[a] = Held'[a].hlq /\ now("sov")[a] = Held'[a].sov
        /\ hosted[a] = Held[a].hlq + income.host[a]
  OBVIOUS
<1>8. \A coin \in Coins : /\ Books!TotalOf(Held, coin) = Total(of(coin))
                          /\ Books!TotalOf(Held', coin) = Total(now(coin))
  BY BooksTotal DEF Books!TotalOf
<1> HIDE DEF of, now, hosted
<1>9. /\ Total(of("hlq")) = Sum(of("hlq"), Accounts) /\ Total(of("hlq")) \in Nat
      /\ Total(of("sov")) = Sum(of("sov"), Accounts) /\ Total(of("sov")) \in Nat
      /\ Total(now("hlq")) = Sum(now("hlq"), Accounts) /\ Total(now("sov")) = Sum(now("sov"), Accounts)
      /\ Total(hosted) = Sum(hosted, Accounts)
      /\ Total(income.host) = Sum(income.host, Accounts)
      /\ Total(income.hlq) = Sum(income.hlq, Accounts)
      /\ Total(income.sov) = Sum(income.sov, Accounts)
  BY <1>0, <1>1, <1>6, TotalNat
<1>10. Sum(hosted, Accounts) = Sum(of("hlq"), Accounts) + Sum(income.host, Accounts)
  <2>1. \A a \in Accounts : /\ of("hlq")[a] \in Int /\ income.host[a] \in Int
                            /\ hosted[a] = of("hlq")[a] + income.host[a]
    BY <1>5, <1>7
  <2> QED
    BY <1>0, <2>1, SumPlus
<1>11. Sum(now("hlq"), Accounts) = Sum(hosted, Accounts) + Sum(income.hlq, Accounts)
  <2>1. \A a \in Accounts : /\ hosted[a] \in Int /\ income.hlq[a] \in Int
                            /\ now("hlq")[a] = hosted[a] + income.hlq[a]
    BY <1>5, <1>7
  <2> QED
    BY <1>0, <2>1, SumPlus
<1>12. Sum(now("sov"), Accounts) = Sum(of("sov"), Accounts) + Sum(income.sov, Accounts)
  <2>1. \A a \in Accounts : /\ of("sov")[a] \in Int /\ income.sov[a] \in Int
                            /\ now("sov")[a] = of("sov")[a] + income.sov[a]
    BY <1>5, <1>7
  <2> QED
    BY <1>0, <2>1, SumPlus
<1>13. /\ Total(now("hlq")) - Total(of("hlq")) = Total(income.host) + Total(income.hlq)
       /\ Total(now("sov")) - Total(of("sov")) = Total(income.sov)
  BY <1>1, <1>9, <1>10, <1>11, <1>12
<1>14. /\ Minted'.hlq - Minted.hlq = Total(income.host) + Total(income.hlq)
       /\ Minted'.sov - Minted.sov = Total(income.sov)
  BY <1>0, <1>1, <1>2
<1> DEFINE curves == [hlq |-> HlqCurve, sov |-> SovCurve]
<1>15. ASSUME NEW c \in Coins
       PROVE  /\ Minted'[c] - Minted[c] \in 0..Books!MintAmount(curves[c], Epoch, Minted[c])
              /\ \A a \in Accounts : Held'[a][c] >= Held[a][c]
              /\ Books!TotalOf(Held', c) - Books!TotalOf(Held, c) = Minted'[c] - Minted[c]
  <2>0. MintAmount(HlqCurve, Epoch, Minted.hlq) \in Nat /\ MintAmount(SovCurve, Epoch, Minted.sov) \in Nat
    BY <1>0, MintNat, Parameters
  <2>1. CASE c = "hlq"
    <3>1. Books!MintAmount(curves[c], Epoch, Minted[c]) = MintAmount(HlqCurve, Epoch, Minted.hlq)
      BY <2>1, BooksMint
    <3> HIDE DEF curves
    <3>2. Minted'[c] - Minted[c] \in 0..Books!MintAmount(curves[c], Epoch, Minted[c])
      BY <1>1, <1>14, <2>0, <2>1, <3>1
    <3>3. \A a \in Accounts : Held'[a][c] >= Held[a][c]
      BY <1>5, <2>1
    <3>4. Books!TotalOf(Held', c) - Books!TotalOf(Held, c) = Minted'[c] - Minted[c]
      BY <1>8, <1>13, <1>14, <2>1
    <3> QED
      BY <3>2, <3>3, <3>4
  <2>2. CASE c = "sov"
    <3>1. Books!MintAmount(curves[c], Epoch, Minted[c]) = MintAmount(SovCurve, Epoch, Minted.sov)
      BY <2>2, BooksMint
    <3> HIDE DEF curves
    <3>2. Minted'[c] - Minted[c] \in 0..Books!MintAmount(curves[c], Epoch, Minted[c])
      BY <1>1, <1>14, <2>0, <2>2, <3>1
    <3>3. \A a \in Accounts : Held'[a][c] >= Held[a][c]
      BY <1>5, <2>2
    <3>4. Books!TotalOf(Held', c) - Books!TotalOf(Held, c) = Minted'[c] - Minted[c]
      BY <1>8, <1>13, <1>14, <2>2
    <3> QED
      BY <3>2, <3>3, <3>4
  <2> QED
    BY <2>1, <2>2 DEF Coins
<1> HIDE DEF curves
<1> QED
  BY <1>2, <1>15 DEF Books!MintEmission, Books!Coins, Coins, curves

LEMMA BooksStep ==
  ASSUME AccountsInv, AccountsInv', [Next]_vars
  PROVE  [Books!Next]_(Books!ledger)
<1>1. CASE \E who \in Accounts, call \in Calls : PrepareFeeless(who, call)
  <2>1. PICK who \in Accounts, call \in Calls : PrepareFeeless(who, call)
    BY <1>1
  <2>2. \A a \in Accounts : account'[a].hlq = account[a].hlq /\ account'[a].sov = account[a].sov
    BY <2>1, PrepareFeelessEffect
  <2>3. \A a \in Accounts : account[a].hlq \in Nat
    BY HeldType
  <2>4. 0 \in Nat /\ Begin(who, call, 0)
    BY <2>1 DEF PrepareFeeless
  <2>5. \A a \in Accounts : /\ account'[a].sov = account[a].sov
                            /\ account'[a].hlq = IF a = who THEN account[a].hlq - 0 ELSE account[a].hlq
    BY <2>2, <2>3
  <2> QED
    BY <2>4, <2>5, PrepareStutters
<1>2. CASE \E who \in Accounts, call \in Calls, fee \in Fees : PreparePaying(who, call, fee)
  <2>1. PICK who \in Accounts, call \in Calls, fee \in Fees : PreparePaying(who, call, fee)
    BY <1>2
  <2>2. /\ fee \in Nat /\ Begin(who, call, fee)
        /\ \A a \in Accounts : /\ account'[a].sov = account[a].sov
                               /\ account'[a].hlq = IF a = who THEN account[a].hlq - fee ELSE account[a].hlq
    BY <2>1, PreparePayingEffect DEF PreparePaying
  <2> QED
    BY <2>2, PrepareStutters
<1>3. CASE Dispatch
  BY <1>3, DispatchTransfers
<1>4. CASE SettleFeeless
  BY <1>4, SettleFeelessStutters
<1>5. CASE \E corrected \in Fees : SettlePaid(corrected)
  BY <1>5, SettlePaidCharges
<1>6. CASE NextBlock
  <2>1. tx = None /\ tx' = None /\ Burned' = Burned
    BY <1>6 DEF NextBlock
  <2>2. CASE UNCHANGED <<account, Minted, Epoch>>
    <3>1. Held' = Held
      BY <2>1, <2>2 DEF Held, SecuredOf
    <3> QED
      BY <2>1, <2>2, <3>1 DEF Books!ledger
  <2>3. CASE \E s \in Services, h \in Hostings : RunEpoch(s, h)
    BY <2>1, <2>3, EraMints DEF Books!Next
  <2> QED
    BY <1>6, <2>2, <2>3 DEF NextBlock
<1>7. CASE UNCHANGED vars
  BY <1>7 DEF vars, supply, Held, SecuredOf, Books!ledger
<1> QED
  BY <1>1, <1>2, <1>3, <1>4, <1>5, <1>6, <1>7 DEF Next

(* Whatever the fees, refunds, failed calls, burns and rounded shares, the  *)
(* pallet does to the coins only what the host ledger does: transfers,      *)
(* charges, and the emission of an era.                                     *)
THEOREM TokensImplementLedger == Spec => ImplementsLedger
<1>1. AccountsInv /\ AccountsInv' /\ [Next]_vars => [Books!Next]_(Books!ledger)
  BY BooksStep
<1> QED
  BY <1>1, BooksInit, AccountsAlways, PTL DEF Spec, ImplementsLedger, Books!Spec

-----------------------------------------------------------------------------
(* The feeless lane.                                                       *)
LEMMA IsqrtNat ==
  ASSUME NEW n \in Nat
  PROVE  Isqrt(n) \in Nat
<1> DEFINE Beyond == {r \in Nat : r * r > n}
<1>1. n + 1 \in Beyond
  <2>1. (n + 1) * (n + 1) = n * n + 2 * n + 1
    OBVIOUS
  <2>2. n * n \in Nat
    OBVIOUS
  <2> QED
    BY <2>1, <2>2
<1>2. PICK b \in Beyond : \A m \in Beyond : b =< m
  <2>1. Beyond \in SUBSET Nat /\ Beyond # {}
    BY <1>1
  <2> HIDE DEF Beyond
  <2> QED
    BY <2>1, LeastCounterexample
<1>3. b \in Nat /\ b * b > n /\ b # 0
  OBVIOUS
<1>4. b - 1 \in Nat /\ b - 1 \notin Beyond
  <2> HIDE DEF Beyond
  <2> QED
    BY <1>2, <1>3
<1>5. PICK r \in Nat : r = b - 1 /\ b = r + 1
  BY <1>3, <1>4
<1>6. r * r =< n /\ n < (r + 1) * (r + 1)
  <2>1. r * r \in Nat /\ ~(r * r > n)
    BY <1>4, <1>5
  <2> QED
    BY <1>3, <1>5, <2>1
<1>7. r \in 0..n
  <2>1. r = 0 \/ r * r >= r
    OBVIOUS
  <2>2. r * r \in Nat
    OBVIOUS
  <2> QED
    BY <1>6, <2>1, <2>2
<1>8. \E x \in 0..n : x * x =< n /\ n < (x + 1) * (x + 1)
  BY <1>6, <1>7
<1>9. Isqrt(n) \in 0..n
  BY <1>8 DEF Isqrt
<1> QED
  BY <1>9

(* What a budget epoch has granted is what the lane has on its record, and *)
(* no record is of an epoch to come.                                        *)
BooksOfLane ==
  IF FeelessEpochBlocks = 0 THEN granted = [a \in Accounts |-> 0]
  ELSE \A a \in Accounts :
         /\ granted[a] = UsedNow(a)
         /\ FeelessUsed[a].epoch =< BudgetEpoch
         /\ FeelessFirstSeen[a] = None \/ FeelessFirstSeen[a] =< BudgetEpoch
LaneInv == TypeOK /\ BooksOfLane /\ FeelessRationed

LEMMA AllowanceNat ==
  ASSUME TypeOK, BooksOfLane, NEW a \in Accounts
  PROVE  FeelessAge(a) \in Nat /\ Allowance(a) \in Nat
<1>1. FeelessAge(a) \in Nat
  <2>1. CASE FeelessEpochBlocks = 0 \/ FeelessFirstSeen[a] = None
    BY <2>1 DEF FeelessAge
  <2>2. CASE FeelessEpochBlocks # 0 /\ FeelessFirstSeen[a] # None
    <3>1. BudgetEpoch \in Nat
      <4>1. number \in Nat /\ FeelessEpochBlocks \in Nat \ {0}
        BY <2>2, Parameters DEF TypeOK
      <4> QED
        BY <4>1 DEF BudgetEpoch
    <3>2. FeelessFirstSeen[a] \in Nat /\ FeelessFirstSeen[a] =< BudgetEpoch
      BY <2>2 DEF TypeOK, BooksOfLane
    <3> QED
      BY <2>2, <3>1, <3>2 DEF FeelessAge
  <2> QED
    BY <2>1, <2>2
<1>2. Isqrt(FeelessAge(a)) \in Nat
  BY <1>1, IsqrtNat
<1>3. AllowanceFloor + Isqrt(FeelessAge(a)) + (IF a \in Reputed THEN ReputedBonus ELSE 0) \in Nat
  BY <1>2, Parameters
<1> QED
  BY <1>1, <1>3, Parameters, MinOfNat DEF Allowance

LEMMA LaneInit == Init => LaneInv
<1> SUFFICES ASSUME Init PROVE LaneInv
  OBVIOUS
<1>1. TypeOK
  BY AccountsInit DEF AccountsInv
<1>2. granted = [a \in Accounts |-> 0]
  BY DEF Init
<1>3. BooksOfLane
  <2>1. CASE FeelessEpochBlocks = 0
    BY <1>2, <2>1 DEF BooksOfLane
  <2>2. CASE FeelessEpochBlocks # 0
    <3>1. BudgetEpoch = 0
      BY <2>2, Parameters DEF BudgetEpoch, Init
    <3>2. \A a \in Accounts : FeelessUsed[a].epoch = 0 /\ FeelessUsed[a].used = 0 /\ FeelessFirstSeen[a] = None
      BY DEF Init
    <3> QED
      BY <1>2, <2>2, <3>1, <3>2 DEF BooksOfLane, UsedNow
  <2> QED
    BY <2>1, <2>2
<1>4. FeelessRationed
  <2>1. \A a \in Accounts : Allowance(a) \in Nat /\ granted[a] = 0
    BY <1>1, <1>2, <1>3, AllowanceNat
  <2> QED
    BY <2>1 DEF FeelessRationed
<1> QED
  BY <1>1, <1>3, <1>4 DEF LaneInv

LEMMA SameAllowance ==
  ASSUME NEW a \in Accounts, FeelessAge(a)' = FeelessAge(a)
  PROVE  Allowance(a)' = Allowance(a)
BY DEF Allowance

(* A step that leaves the lane and its epoch alone. *)
LEMMA LaneUntouched ==
  ASSUME LaneInv, TypeOK', FeelessUsed' = FeelessUsed, FeelessFirstSeen' = FeelessFirstSeen,
         granted' = granted, number' = number \/ (FeelessEpochBlocks # 0 /\ BudgetEpoch' = BudgetEpoch)
  PROVE  LaneInv'
<1>1. CASE FeelessEpochBlocks = 0
  <2>1. \A a \in Accounts : Allowance(a)' = Allowance(a)
    BY <1>1, SameAllowance DEF FeelessAge
  <2>2. FeelessRationed'
    BY <2>1 DEF FeelessRationed, LaneInv
  <2> QED
    BY <1>1, <2>2 DEF LaneInv, BooksOfLane
<1>2. CASE FeelessEpochBlocks # 0
  <2>0. BudgetEpoch' = BudgetEpoch
    BY DEF BudgetEpoch
  <2>1. \A a \in Accounts : FeelessAge(a)' = FeelessAge(a) /\ UsedNow(a)' = UsedNow(a)
    BY <2>0 DEF FeelessAge, UsedNow
  <2>2. \A a \in Accounts : Allowance(a)' = Allowance(a)
    BY <2>1, SameAllowance
  <2>3. FeelessRationed'
    BY <2>2 DEF FeelessRationed, LaneInv
  <2>4. BooksOfLane'
    BY <1>2, <2>0, <2>1 DEF BooksOfLane, LaneInv
  <2> QED
    BY <2>3, <2>4 DEF LaneInv
<1> QED
  BY <1>1, <1>2

LEMMA GrantKeepsRation ==
  ASSUME LaneInv, TypeOK', NEW who \in Accounts, NEW call \in Calls, PrepareFeeless(who, call)
  PROVE  LaneInv'
<1>0. /\ FeelessEpochBlocks \in Nat \ {0} /\ number' = number
      /\ UsedNow(who) < Allowance(who)
      /\ FeelessUsed' = [FeelessUsed EXCEPT ![who] = [epoch |-> BudgetEpoch, used |-> UsedNow(who) + 1]]
      /\ FeelessFirstSeen' = [FeelessFirstSeen EXCEPT ![who] =
           IF FeelessFirstSeen[who] = None THEN BudgetEpoch ELSE FeelessFirstSeen[who]]
      /\ granted' = [granted EXCEPT ![who] = granted[who] + 1]
  BY Parameters DEF PrepareFeeless, Rides, CanFeeless, GrantFeeless, Begin
<1>1. BudgetEpoch' = BudgetEpoch /\ BudgetEpoch \in Nat
  <2>1. number \in Nat
    BY DEF LaneInv, TypeOK
  <2> QED
    BY <1>0, <2>1 DEF BudgetEpoch
<1>2. /\ \A a \in Accounts : granted[a] = UsedNow(a) /\ granted[a] \in Nat /\ granted[a] =< Allowance(a)
      /\ \A a \in Accounts : /\ FeelessUsed[a].epoch =< BudgetEpoch
                             /\ FeelessFirstSeen[a] = None \/ FeelessFirstSeen[a] =< BudgetEpoch
  BY <1>0 DEF LaneInv, BooksOfLane, FeelessRationed, TypeOK
<1>3. ASSUME NEW a \in Accounts, a # who
      PROVE  /\ granted'[a] = granted[a] /\ FeelessUsed'[a] = FeelessUsed[a]
             /\ FeelessFirstSeen'[a] = FeelessFirstSeen[a]
  BY <1>0, <1>3 DEF LaneInv, TypeOK
<1>4. /\ granted'[who] = granted[who] + 1
      /\ FeelessUsed'[who].epoch = BudgetEpoch /\ FeelessUsed'[who].used = UsedNow(who) + 1
      /\ FeelessFirstSeen'[who] = IF FeelessFirstSeen[who] = None THEN BudgetEpoch ELSE FeelessFirstSeen[who]
  BY <1>0 DEF LaneInv, TypeOK
<1>5. BudgetEpoch # None
  BY <1>1, NoneAssumption
<1>6. ASSUME NEW a \in Accounts PROVE FeelessAge(a)' = FeelessAge(a)
  <2>1. CASE a # who
    BY <1>1, <1>3, <2>1 DEF FeelessAge
  <2>2. CASE a = who /\ FeelessFirstSeen[who] = None
    BY <1>0, <1>1, <1>4, <1>5, <2>2 DEF FeelessAge
  <2>3. CASE a = who /\ FeelessFirstSeen[who] # None
    BY <1>1, <1>4, <2>3 DEF FeelessAge
  <2> QED
    BY <2>1, <2>2, <2>3
<1>7. \A a \in Accounts : Allowance(a)' = Allowance(a)
  BY <1>6, SameAllowance
<1>8. ASSUME NEW a \in Accounts PROVE granted'[a] = UsedNow(a)'
  <2>1. CASE a # who
    BY <1>1, <1>2, <1>3, <2>1 DEF UsedNow
  <2>2. CASE a = who
    BY <1>1, <1>2, <1>4, <2>2 DEF UsedNow
  <2> QED
    BY <2>1, <2>2
<1>9. ASSUME NEW a \in Accounts
      PROVE  /\ FeelessUsed'[a].epoch =< BudgetEpoch'
             /\ FeelessFirstSeen'[a] = None \/ FeelessFirstSeen'[a] =< BudgetEpoch'
  <2>1. CASE a # who
    BY <1>1, <1>2, <1>3, <2>1
  <2>2. CASE a = who
    BY <1>1, <1>2, <1>4, <2>2
  <2> QED
    BY <2>1, <2>2
<1>10. ASSUME NEW a \in Accounts PROVE granted'[a] =< Allowance(a)'
  <2>1. CASE a # who
    BY <1>2, <1>3, <1>7, <2>1
  <2>2. CASE a = who
    <3>1. Allowance(who) \in Nat
      BY AllowanceNat DEF LaneInv
    <3> QED
      BY <1>0, <1>2, <1>4, <1>7, <2>2, <3>1
  <2> QED
    BY <2>1, <2>2
<1>11. BooksOfLane'
  BY <1>0, <1>8, <1>9 DEF BooksOfLane
<1>12. FeelessRationed'
  BY <1>10 DEF FeelessRationed
<1> QED
  BY <1>11, <1>12 DEF LaneInv

LEMMA BlockKeepsRation ==
  ASSUME LaneInv, TypeOK', NextBlock
  PROVE  LaneInv'
<1>0. /\ number' = number + 1 /\ number \in Nat
      /\ FeelessUsed' = FeelessUsed /\ FeelessFirstSeen' = FeelessFirstSeen
      /\ granted' = IF FeelessEpochBlocks > 0 /\ (number + 1) % FeelessEpochBlocks = 0
                    THEN [a \in Accounts |-> 0] ELSE granted
  BY DEF NextBlock, LaneInv, TypeOK
<1>1. CASE FeelessEpochBlocks = 0
  <2>1. granted' = granted
    BY <1>0, <1>1
  <2>2. \A a \in Accounts : Allowance(a)' = Allowance(a)
    BY <1>1, SameAllowance DEF FeelessAge
  <2>3. FeelessRationed'
    BY <2>1, <2>2 DEF FeelessRationed, LaneInv
  <2> QED
    BY <1>1, <2>1, <2>3 DEF LaneInv, BooksOfLane
<1>2. CASE FeelessEpochBlocks # 0
  <2>0. FeelessEpochBlocks \in Nat \ {0}
    BY <1>2, Parameters
  <2>1. /\ BudgetEpoch' = IF (number + 1) % FeelessEpochBlocks = 0 THEN BudgetEpoch + 1 ELSE BudgetEpoch
        /\ BudgetEpoch \in Nat
    BY <1>0, <2>0, NextQuotient DEF BudgetEpoch
  <2>2. CASE (number + 1) % FeelessEpochBlocks # 0
    <3>1. granted' = granted /\ BudgetEpoch' = BudgetEpoch
      BY <1>0, <2>1, <2>2
    <3> QED
      BY <1>0, <1>2, <3>1, LaneUntouched
  <2>3. CASE (number + 1) % FeelessEpochBlocks = 0
    <3>1. granted' = [a \in Accounts |-> 0] /\ BudgetEpoch' = BudgetEpoch + 1
      BY <1>0, <2>0, <2>1, <2>3
    <3>2. ASSUME NEW a \in Accounts
          PROVE  /\ FeelessUsed[a].epoch \in Nat /\ FeelessUsed[a].epoch =< BudgetEpoch
                 /\ FeelessFirstSeen[a] = None \/
                      (FeelessFirstSeen[a] \in Nat /\ FeelessFirstSeen[a] =< BudgetEpoch)
      BY <1>2 DEF LaneInv, BooksOfLane, TypeOK
    <3>3. ASSUME NEW a \in Accounts
          PROVE  /\ granted'[a] = UsedNow(a)'
                 /\ FeelessUsed'[a].epoch =< BudgetEpoch'
                 /\ FeelessFirstSeen'[a] = None \/ FeelessFirstSeen'[a] =< BudgetEpoch'
      <4>1. FeelessUsed'[a].epoch # BudgetEpoch'
        BY <1>0, <2>1, <3>1, <3>2
      <4>2. UsedNow(a)' = 0
        BY <4>1 DEF UsedNow
      <4> QED
        BY <1>0, <2>1, <3>1, <3>2, <4>2
    <3>4. ASSUME NEW a \in Accounts PROVE granted'[a] =< Allowance(a)'
      <4>1. PICK n \in Nat : FeelessAge(a)' = n
        <5>1. FeelessAge(a)' \in Nat
          BY <1>0, <1>2, <2>1, <3>1, <3>2 DEF FeelessAge
        <5> QED
          BY <5>1
      <4>2. Isqrt(n) \in Nat
        BY IsqrtNat
      <4> DEFINE sum == AllowanceFloor + Isqrt(n) + (IF a \in Reputed THEN ReputedBonus ELSE 0)
      <4>3. Allowance(a)' = MinOf(sum, AllowanceCap)
        BY <4>1 DEF Allowance
      <4>4. sum \in Nat
        BY <4>2, Parameters
      <4> HIDE DEF sum
      <4>5. Allowance(a)' \in Nat
        BY <4>3, <4>4, Parameters, MinOfNat
      <4> QED
        BY <3>1, <4>5
    <3>5. BooksOfLane'
      BY <1>2, <3>3 DEF BooksOfLane
    <3>6. FeelessRationed'
      BY <3>4 DEF FeelessRationed
    <3> QED
      BY <3>5, <3>6 DEF LaneInv
  <2> QED
    BY <2>2, <2>3
<1> QED
  BY <1>1, <1>2

LEMMA LaneStep == AccountsInv' /\ LaneInv /\ [Next]_vars => LaneInv'
<1> SUFFICES ASSUME AccountsInv', LaneInv, [Next]_vars PROVE LaneInv'
  OBVIOUS
<1>0. TypeOK'
  BY DEF AccountsInv
<1>1. CASE \E who \in Accounts, call \in Calls : PrepareFeeless(who, call)
  BY <1>0, <1>1, GrantKeepsRation
<1>2. CASE NextBlock
  BY <1>0, <1>2, BlockKeepsRation
<1>3. CASE UNCHANGED <<number, FeelessUsed, FeelessFirstSeen, granted>>
  BY <1>0, <1>3, LaneUntouched
<1>4. \/ \E who \in Accounts, call \in Calls : PrepareFeeless(who, call)
      \/ NextBlock
      \/ UNCHANGED <<number, FeelessUsed, FeelessFirstSeen, granted>>
  BY DEF Next, PreparePaying, Begin, Dispatch, SettleFeeless, SettlePaid, feeless, vars
<1> QED
  BY <1>1, <1>2, <1>3, <1>4

(* No mask has more extrinsics of the lane in a budget epoch than its age   *)
(* and standing allow, failed and first ones included, and the epoch's      *)
(* record never carries over.                                               *)
THEOREM LaneRationed == Spec => []FeelessRationed
<1>1. LaneInv => FeelessRationed
  BY DEF LaneInv
<1> QED
  BY <1>1, LaneInit, LaneStep, AccountsAlways, PTL DEF Spec

-----------------------------------------------------------------------------
(* The emission of both coins.                                             *)
CurveDecays(curve, e) ==
  /\ curve.era_length # 0 /\ curve.decay_num < curve.decay_den
  /\ (e + 1) % curve.era_length = 0

LEMMA RewardStarts ==
  ASSUME NEW curve \in CurveParams
  PROVE  ScheduledReward(curve, 0) =
           IF curve.era_length # 0 /\ curve.decay_num = 0 /\ curve.decay_den # 0 THEN 0 ELSE curve.initial
<1>0. curve.initial \in Nat /\ curve.decay_num \in Nat /\ curve.decay_den \in Nat /\ curve.era_length \in Nat
  BY DEF CurveParams
<1>1. CASE Decaying(curve)
  <2>1. PICK f : /\ Schedule(curve, f)
                 /\ \A n \in Nat : ScheduledReward(curve, n) = f[n \div curve.era_length]
    BY <1>1, ScheduleIsReward
  <2>2. 0 \div curve.era_length = 0
    BY <1>0, <1>1 DEF Decaying
  <2>3. ScheduledReward(curve, 0) = f[0 \div curve.era_length]
    BY <2>1
  <2> QED
    BY <1>1, <2>1, <2>2, <2>3 DEF Schedule, Decaying
<1>2. CASE ~ Decaying(curve)
  BY <1>0, <1>2 DEF Decaying, ScheduledReward
<1> QED
  BY <1>1, <1>2

LEMMA RewardDecays ==
  ASSUME NEW curve \in CurveParams, NEW e \in Nat
  PROVE  ScheduledReward(curve, e + 1) =
           IF CurveDecays(curve, e) THEN (ScheduledReward(curve, e) * curve.decay_num) \div curve.decay_den
           ELSE ScheduledReward(curve, e)
<1>0. curve.initial \in Nat /\ curve.decay_num \in Nat /\ curve.decay_den \in Nat /\ curve.era_length \in Nat
  BY DEF CurveParams
<1>1. CASE Decaying(curve)
  <2>1. PICK f : /\ Schedule(curve, f)
                 /\ \A n \in Nat : ScheduledReward(curve, n) = f[n \div curve.era_length]
    BY <1>1, ScheduleIsReward
  <2>2. curve.era_length \in Nat \ {0}
    BY <1>0, <1>1 DEF Decaying
  <2>3. PICK q \in Nat : q = e \div curve.era_length
    BY <2>2, NextQuotient
  <2>4. (e + 1) \div curve.era_length = IF (e + 1) % curve.era_length = 0 THEN q + 1 ELSE q
    BY <2>2, <2>3, NextQuotient
  <2>5. ScheduledReward(curve, e + 1) = f[(e + 1) \div curve.era_length] /\ ScheduledReward(curve, e) = f[q]
    BY <2>1, <2>3
  <2>6. f[q + 1] = (f[q] * curve.decay_num) \div curve.decay_den
    BY <2>1, <2>3 DEF Schedule
  <2> QED
    BY <1>1, <2>4, <2>5, <2>6 DEF CurveDecays, Decaying
<1>2. CASE curve.era_length = 0 \/ curve.decay_num >= curve.decay_den
  <2>1. ScheduledReward(curve, e + 1) = curve.initial /\ ScheduledReward(curve, e) = curve.initial
    BY <1>0, <1>2 DEF ScheduledReward
  <2> QED
    BY <1>0, <1>2, <2>1 DEF CurveDecays
<1>3. CASE curve.era_length # 0 /\ curve.decay_num < curve.decay_den /\ curve.decay_num = 0
  <2>1. ScheduledReward(curve, e + 1) = 0 /\ ScheduledReward(curve, e) = 0
    BY <1>0, <1>3 DEF ScheduledReward
  <2>2. (0 * curve.decay_num) \div curve.decay_den = 0
    BY <1>0, <1>3
  <2> QED
    BY <2>1, <2>2
<1> QED
  BY <1>0, <1>1, <1>2, <1>3 DEF Decaying

LEMMA HlqEmits ==
  ASSUME AccountsInv, NEW s \in Services, NEW h \in Hostings, RunEpoch(s, h)
  PROVE  HlqEmission!MintEra
<1> DEFINE income == EraIncome(s, h)
<1>0. Epoch \in Nat /\ Minted \in [Coins -> Nat] /\ Minted.hlq \in Nat
  BY DEF AccountsInv, TypeOK, Coins
<1>1. /\ Total(income.host) \in Nat /\ Total(income.hlq) \in Nat
      /\ Total(income.host) + Total(income.hlq) =< MintAmount(HlqCurve, Epoch, Minted.hlq)
  BY <1>0, EraIncomeFits
<1>2. Minted'.hlq = Minted.hlq + Total(income.host) + Total(income.hlq) /\ Epoch' = Epoch + 1
  BY DEF RunEpoch
<1> HIDE DEF income
<1>3. MintAmount(HlqCurve, Epoch, Minted.hlq) \in Nat
  BY <1>0, MintNat, Parameters
<1>4. HlqEmission!Tranche = MintAmount(HlqCurve, Epoch, Minted.hlq)
  BY DEF HlqEmission!Tranche, HlqEmission!MinOf, MintAmount, MinOf
<1>5. Minted'.hlq \in Minted.hlq..(Minted.hlq + HlqEmission!Tranche)
  BY <1>0, <1>1, <1>2, <1>3, <1>4
<1>6. ScheduledReward(HlqCurve, Epoch') =
        IF HlqEmission!Decays THEN HlqEmission!Decayed(ScheduledReward(HlqCurve, Epoch))
        ELSE ScheduledReward(HlqCurve, Epoch)
  <2>1. HlqEmission!Decays <=> CurveDecays(HlqCurve, Epoch)
    BY DEF HlqEmission!Decays, CurveDecays
  <2>2. \A r : HlqEmission!Decayed(r) = (r * HlqCurve.decay_num) \div HlqCurve.decay_den
    BY DEF HlqEmission!Decayed
  <2> QED
    BY <1>0, <1>2, <2>1, <2>2, RewardDecays, Parameters
<1> QED
  BY <1>2, <1>5, <1>6 DEF HlqEmission!MintEra

LEMMA SovEmits ==
  ASSUME AccountsInv, NEW s \in Services, NEW h \in Hostings, RunEpoch(s, h)
  PROVE  SovEmission!MintEra
<1> DEFINE income == EraIncome(s, h)
<1>0. Epoch \in Nat /\ Minted \in [Coins -> Nat] /\ Minted.sov \in Nat
  BY DEF AccountsInv, TypeOK, Coins
<1>1. Total(income.sov) \in Nat /\ Total(income.sov) =< MintAmount(SovCurve, Epoch, Minted.sov)
  BY <1>0, EraIncomeFits
<1>2. Minted'.sov = Minted.sov + Total(income.sov) /\ Epoch' = Epoch + 1
  BY DEF RunEpoch
<1> HIDE DEF income
<1>3. MintAmount(SovCurve, Epoch, Minted.sov) \in Nat
  BY <1>0, MintNat, Parameters
<1>4. SovEmission!Tranche = MintAmount(SovCurve, Epoch, Minted.sov)
  BY DEF SovEmission!Tranche, SovEmission!MinOf, MintAmount, MinOf
<1>5. Minted'.sov \in Minted.sov..(Minted.sov + SovEmission!Tranche)
  BY <1>0, <1>1, <1>2, <1>3, <1>4
<1>6. ScheduledReward(SovCurve, Epoch') =
        IF SovEmission!Decays THEN SovEmission!Decayed(ScheduledReward(SovCurve, Epoch))
        ELSE ScheduledReward(SovCurve, Epoch)
  <2>1. SovEmission!Decays <=> CurveDecays(SovCurve, Epoch)
    BY DEF SovEmission!Decays, CurveDecays
  <2>2. \A r : SovEmission!Decayed(r) = (r * SovCurve.decay_num) \div SovCurve.decay_den
    BY DEF SovEmission!Decayed
  <2> QED
    BY <1>0, <1>2, <2>1, <2>2, RewardDecays, Parameters
<1> QED
  BY <1>2, <1>5, <1>6 DEF SovEmission!MintEra

LEMMA EmissionStarts ==
  ASSUME Init
  PROVE  HlqEmission!EmissionInit /\ SovEmission!EmissionInit
<1>1. Epoch = 0 /\ Minted.hlq = GenesisTotal("hlq") /\ Minted.sov = GenesisTotal("sov")
  BY DEF Init, Coins
<1>2. ScheduledReward(HlqCurve, Epoch) = HlqEmission!FirstTranche
  BY <1>1, RewardStarts, Parameters DEF HlqEmission!FirstTranche
<1>3. ScheduledReward(SovCurve, Epoch) = SovEmission!FirstTranche
  BY <1>1, RewardStarts, Parameters DEF SovEmission!FirstTranche
<1> QED
  BY <1>1, <1>2, <1>3 DEF HlqEmission!EmissionInit, SovEmission!EmissionInit

LEMMA EmissionStep ==
  ASSUME AccountsInv, [Next]_vars
  PROVE  /\ [HlqEmission!MintEra]_(HlqEmission!emission)
         /\ [SovEmission!MintEra]_(SovEmission!emission)
<1>1. CASE \E s \in Services, h \in Hostings : RunEpoch(s, h)
  BY <1>1, HlqEmits, SovEmits
<1>2. CASE UNCHANGED <<Minted, Epoch>>
  <2>1. /\ ScheduledReward(HlqCurve, Epoch)' = ScheduledReward(HlqCurve, Epoch)
        /\ ScheduledReward(SovCurve, Epoch)' = ScheduledReward(SovCurve, Epoch)
    BY <1>2
  <2> QED
    BY <1>2, <2>1 DEF HlqEmission!emission, SovEmission!emission
<1>3. (\E s \in Services, h \in Hostings : RunEpoch(s, h)) \/ UNCHANGED <<Minted, Epoch>>
  BY DEF Next, PrepareFeeless, PreparePaying, Begin, Dispatch, SettleFeeless, SettlePaid, NextBlock,
         supply, vars
<1> QED
  BY <1>1, <1>2, <1>3

(* The pallet implements the emission of both coins: no era mints more than *)
(* its tranche or the room under the cap, whatever the service, the hosts   *)
(* and the founders took or left, and no era is paid twice or skipped.      *)
THEOREM TokensImplementEmission == Spec => ImplementsEmission
<1>1. AccountsInv /\ [Next]_vars => /\ [HlqEmission!MintEra]_(HlqEmission!emission)
                                    /\ [SovEmission!MintEra]_(SovEmission!emission)
  BY EmissionStep
<1>2. Init => HlqEmission!EmissionInit /\ SovEmission!EmissionInit
  BY EmissionStarts
<1> QED
  BY <1>1, <1>2, AccountsAlways, PTL
     DEF Spec, ImplementsEmission, HlqEmission!EmissionSpec, SovEmission!EmissionSpec
=============================================================================
