-------------------------------- MODULE Sums --------------------------------
(***************************************************************************)
(* Finite sums: what the folds of the community modules compute when they  *)
(* add, and the facts about it that the proofs of the components cite.     *)
(***************************************************************************)
EXTENDS Integers, FiniteSets, FiniteSetsExt, FiniteSetTheorems, WellFoundedInduction, TLAPS

(* g gives the sum of v over every subset of D. *)
IsSum(g, v, D) ==
  /\ g \in [SUBSET D -> Int]
  /\ g[{}] = 0
  /\ \A S \in SUBSET D : \A x \in S : g[S] = v[x] + g[S \ {x}]

Sum(v, D) == (CHOOSE g : IsSum(g, v, D))[D]

-----------------------------------------------------------------------------
(* Induction, for a set of numbers and for a set of subsets of a finite    *)
(* set.                                                                    *)
LEMMA LeastCounterexample ==
  ASSUME NEW Bad \in SUBSET Nat, Bad # {}
  PROVE  \E n \in Bad : \A m \in Bad : n =< m
<1> DEFINE R == {ss \in Nat \X Nat : ss[1] < ss[2]}
<1>1. IsWellFoundedOn(R, Nat)
  BY NatLessThanWellFounded DEF OpToRel
<1> HIDE DEF R
<1>2. PICK n \in Bad : \A m \in Bad : <<m, n>> \notin R
  BY <1>1, WFMin
<1>3. ASSUME NEW m \in Bad PROVE n =< m
  <2>1. <<m, n>> \notin R
    BY <1>2
  <2> QED BY <2>1 DEF R
<1> QED
  BY <1>3

LEMMA SubsetInduction ==
  ASSUME NEW D, IsFiniteSet(D), NEW G,
         \A S \in SUBSET D : (\A T \in SUBSET S : T # S => T \in G) => S \in G
  PROVE  \A S \in SUBSET D : S \in G
<1> DEFINE Bad == {n \in Nat : \E S \in SUBSET D : S \notin G /\ Cardinality(S) = n}
<1>f. \A S \in SUBSET D : IsFiniteSet(S) /\ Cardinality(S) \in Nat
  BY FS_Subset, FS_CardinalityType
<1>1. ASSUME Bad # {} PROVE FALSE
  <2>1. PICK n \in Bad : \A m \in Bad : n =< m
    <3>1. Bad \in SUBSET Nat
      OBVIOUS
    <3> HIDE DEF Bad
    <3> QED
      BY <1>1, <3>1, LeastCounterexample
  <2>2. PICK S \in SUBSET D : S \notin G /\ Cardinality(S) = n
    OBVIOUS
  <2>3. PICK T \in SUBSET S : T # S /\ T \notin G
    BY <2>2
  <2>4. Cardinality(T) < Cardinality(S)
    BY <1>f, <2>3, FS_Subset
  <2>5. Cardinality(T) \in Bad
    BY <1>f, <2>3
  <2> QED
    BY <2>1, <2>2, <2>4, <2>5
<1>2. ASSUME NEW S \in SUBSET D, S \notin G PROVE FALSE
  BY <1>1, <1>2, <1>f
<1> QED
  BY <1>2

LEMMA ElementInduction ==
  ASSUME NEW D, IsFiniteSet(D), NEW G, {} \in G,
         \A S \in SUBSET D, x \in D : S \in G /\ x \notin S => S \cup {x} \in G
  PROVE  D \in G
<1>1. ASSUME NEW S \in SUBSET D, \A T \in SUBSET S : T # S => T \in G PROVE S \in G
  <2>1. CASE S # {}
    <3>1. PICK x \in S : TRUE
      BY <2>1
    <3>2. S \ {x} \in G /\ S \ {x} \in SUBSET D /\ x \in D /\ x \notin S \ {x}
      BY <1>1
    <3>3. (S \ {x}) \cup {x} = S
      OBVIOUS
    <3> QED
      BY <3>2, <3>3
  <2> QED
    BY <2>1
<1>2. \A S \in SUBSET D : S \in G
  BY <1>1, SubsetInduction
<1> QED
  BY <1>2

-----------------------------------------------------------------------------
(* The recursion of MapThenFoldSet has a solution, whatever element it     *)
(* takes first, and every solution is the sum.                             *)
Recursion(g, v, c, D) ==
  g = [S \in SUBSET D |-> IF S = {} THEN 0 ELSE v[c[S]] + g[S \ {c[S]}]]

LEMMA RecursionIsSum ==
  ASSUME NEW D, IsFiniteSet(D), NEW v, \A x \in D : v[x] \in Int,
         NEW c, \A S \in SUBSET D : S # {} => c[S] \in S,
         NEW g, Recursion(g, v, c, D)
  PROVE  IsSum(g, v, D)
<1> DEFINE Good(S) == /\ g[S] \in Int
                      /\ \A x \in S : g[S \ {x}] \in Int /\ g[S] = v[x] + g[S \ {x}]
           G == {S \in SUBSET D : Good(S)}
<1>0. /\ g[{}] = 0
      /\ \A S \in SUBSET D : S # {} => g[S] = v[c[S]] + g[S \ {c[S]}]
      /\ g = [S \in SUBSET D |-> g[S]]
  BY DEF Recursion
<1>1. ASSUME NEW S \in SUBSET D, \A T \in SUBSET S : T # S => T \in G PROVE S \in G
  <2>1. CASE S = {}
    BY <2>1, <1>0
  <2>2. CASE S # {}
    <3> DEFINE y == c[S]
    <3>1. y \in S /\ g[S] = v[y] + g[S \ {y}] /\ y \in D
      BY <2>2, <1>0
    <3> HIDE DEF y
    <3>2. Good(S \ {y})
      BY <3>1, <1>1
    <3>3. g[S] \in Int
      BY <3>1, <3>2
    <3>4. ASSUME NEW x \in S PROVE g[S \ {x}] \in Int /\ g[S] = v[x] + g[S \ {x}]
      <4>1. CASE x = y
        BY <4>1, <3>1, <3>2
      <4>2. CASE x # y
        <5>1. Good(S \ {x})
          BY <1>1
        <5>2. g[S \ {y}] = v[x] + g[(S \ {y}) \ {x}] /\ g[(S \ {y}) \ {x}] \in Int
          BY <3>2, <4>2
        <5>3. g[S \ {x}] = v[y] + g[(S \ {x}) \ {y}] /\ g[S \ {x}] \in Int
          BY <5>1, <4>2, <3>1
        <5>4. (S \ {y}) \ {x} = (S \ {x}) \ {y}
          OBVIOUS
        <5>5. v[x] \in Int /\ v[y] \in Int
          BY <3>1
        <5>6. \E r \in Int : g[S] = v[y] + (v[x] + r) /\ g[S \ {x}] = v[y] + r
          BY <3>1, <5>2, <5>3, <5>4
        <5> QED
          BY <5>5, <5>6
      <4> QED
        BY <4>1, <4>2
    <3> QED
      BY <3>3, <3>4
  <2> QED
    BY <2>1, <2>2
<1> HIDE DEF G
<1>2. \A S \in SUBSET D : S \in G
  BY <1>1, SubsetInduction
<1>3. \A S \in SUBSET D : Good(S)
  BY <1>2 DEF G
<1> HIDE DEF Good
<1>4. \A S \in SUBSET D : g[S] \in Int
  BY <1>3 DEF Good
<1>5. g \in [SUBSET D -> Int]
  BY <1>0, <1>4
<1>6. ASSUME NEW S \in SUBSET D, NEW x \in S PROVE g[S] = v[x] + g[S \ {x}]
  BY <1>3 DEF Good
<1> QED
  BY <1>0, <1>5, <1>6 DEF IsSum

LEMMA RecursionSolvable ==
  ASSUME NEW D, IsFiniteSet(D), NEW v, \A x \in D : v[x] \in Int,
         NEW c, \A S \in SUBSET D : S # {} => c[S] \in S
  PROVE  \E g : Recursion(g, v, c, D)
<1> DEFINE Upto(n) == {S \in SUBSET D : Cardinality(S) =< n}
           Solves(g, n) ==
             g = [S \in Upto(n) |-> IF S = {} THEN 0 ELSE v[c[S]] + g[S \ {c[S]}]]
           Bad == {n \in Nat : ~ \E g : Solves(g, n)}
<1>f. \A S \in SUBSET D : IsFiniteSet(S) /\ Cardinality(S) \in Nat
  BY FS_Subset, FS_CardinalityType
<1>c. \A S \in SUBSET D, n \in Nat :
        S # {} /\ S \in Upto(n) => n # 0 /\ S \ {c[S]} \in SUBSET D /\ S \ {c[S]} \in Upto(n - 1)
  <2> SUFFICES ASSUME NEW S \in SUBSET D, NEW n \in Nat, S # {}, S \in Upto(n)
               PROVE  n # 0 /\ S \ {c[S]} \in SUBSET D /\ S \ {c[S]} \in Upto(n - 1)
    OBVIOUS
  <2>1. c[S] \in S /\ IsFiniteSet(S)
    BY <1>f
  <2>2. Cardinality(S \ {c[S]}) = Cardinality(S) - 1
    BY <2>1, FS_RemoveElement
  <2>3. Cardinality(S \ {c[S]}) \in Nat /\ Cardinality(S) \in Nat
    BY <1>f
  <2> QED
    BY <2>2, <2>3
<1>1. ASSUME Bad # {} PROVE FALSE
  <2>1. PICK n \in Bad : \A m \in Bad : n =< m
    <3>1. Bad \in SUBSET Nat
      OBVIOUS
    <3> HIDE DEF Bad
    <3> QED
      BY <1>1, <3>1, LeastCounterexample
  <2>2. CASE n = 0
    <3> DEFINE g == [S \in Upto(0) |-> 0]
    <3>1. \A S \in Upto(0) : S = {}
      BY <1>c
    <3>2. Solves(g, 0)
      BY <3>1
    <3> QED
      BY <2>2, <3>2
  <2>3. CASE n # 0
    <3>1. n - 1 \in Nat /\ n - 1 \notin Bad
      <4>1. n \in Nat
        OBVIOUS
      <4> HIDE DEF Bad
      <4> QED
        BY <2>1, <2>3, <4>1
    <3>2. PICK g : Solves(g, n - 1)
      BY <3>1
    <3> DEFINE h == [S \in Upto(n) |-> IF S = {} THEN 0 ELSE v[c[S]] + g[S \ {c[S]}]]
    <3>3. ASSUME NEW S \in Upto(n - 1) PROVE h[S] = g[S]
      <4>1. S \in Upto(n)
        BY <1>f, <3>1
      <4>2. g[S] = IF S = {} THEN 0 ELSE v[c[S]] + g[S \ {c[S]}]
        BY <3>2
      <4> QED
        BY <4>1, <4>2
    <3>4. ASSUME NEW S \in Upto(n), S # {} PROVE h[S] = v[c[S]] + h[S \ {c[S]}]
      <4>1. S \ {c[S]} \in Upto(n - 1)
        BY <1>c, <3>4
      <4> HIDE DEF Upto
      <4>2. h[S] = v[c[S]] + g[S \ {c[S]}]
        BY <3>4
      <4> HIDE DEF h
      <4>3. h[S \ {c[S]}] = g[S \ {c[S]}]
        BY <4>1, <3>3
      <4> QED
        BY <4>2, <4>3
    <3>5. \A S \in Upto(n) : S = {} => h[S] = 0
      OBVIOUS
    <3>6. h = [S \in Upto(n) |-> h[S]]
      OBVIOUS
    <3> HIDE DEF h, Upto
    <3>7. h = [S \in Upto(n) |-> IF S = {} THEN 0 ELSE v[c[S]] + h[S \ {c[S]}]]
      BY <3>4, <3>5, <3>6
    <3> QED
      BY <3>7, <2>1
  <2> QED
    BY <2>2, <2>3
<1>2. Cardinality(D) \in Nat
  BY <1>f
<1>3. PICK g : Solves(g, Cardinality(D))
  BY <1>1, <1>2
<1>4. Upto(Cardinality(D)) = SUBSET D
  BY FS_Subset
<1> HIDE DEF Upto
<1> QED
  BY <1>3, <1>4 DEF Recursion

(* The sum exists and is unique. *)
LEMMA SumUnique ==
  ASSUME NEW D, IsFiniteSet(D), NEW v, NEW w, \A x \in D : v[x] = w[x],
         NEW g, NEW h, IsSum(g, v, D), IsSum(h, w, D)
  PROVE  g = h
<1> DEFINE G == {S \in SUBSET D : g[S] = h[S]}
<1>1. ASSUME NEW S \in SUBSET D, \A T \in SUBSET S : T # S => T \in G PROVE S \in G
  <2>1. CASE S = {}
    BY <2>1 DEF IsSum
  <2>2. CASE S # {}
    <3>1. PICK x \in S : TRUE
      BY <2>2
    <3>2. g[S \ {x}] = h[S \ {x}] /\ v[x] = w[x]
      BY <1>1
    <3>3. g[S] = v[x] + g[S \ {x}] /\ h[S] = w[x] + h[S \ {x}]
      BY DEF IsSum
    <3> QED
      BY <3>2, <3>3
  <2> QED
    BY <2>1, <2>2
<1> HIDE DEF G
<1>2. \A S \in SUBSET D : S \in G
  BY <1>1, SubsetInduction
<1>3. \A S \in SUBSET D : g[S] = h[S]
  BY <1>2 DEF G
<1> QED
  BY <1>3 DEF IsSum

LEMMA SumExists ==
  ASSUME NEW D, IsFiniteSet(D), NEW v, \A x \in D : v[x] \in Int
  PROVE  \E g : IsSum(g, v, D)
<1> DEFINE c == [S \in SUBSET D |-> CHOOSE x \in S : TRUE]
<1>1. \A S \in SUBSET D : S # {} => c[S] \in S
  OBVIOUS
<1> HIDE DEF c
<1>2. PICK g : Recursion(g, v, c, D)
  BY <1>1, RecursionSolvable
<1> QED
  BY <1>1, <1>2, RecursionIsSum

(* Any function that adds up over the subsets of a larger set gives the    *)
(* sum of each of them.                                                    *)
LEMMA SumGiven ==
  ASSUME NEW D, IsFiniteSet(D), NEW v, \A x \in D : v[x] \in Int,
         NEW g, IsSum(g, v, D), NEW S \in SUBSET D
  PROVE  Sum(v, S) = g[S]
<1>1. IsFiniteSet(S)
  BY FS_Subset
<1> DEFINE h == [T \in SUBSET S |-> g[T]]
<1>2. IsSum(h, v, S)
  BY DEF IsSum
<1>3. h[S] = g[S]
  OBVIOUS
<1> HIDE DEF h
<1>4. IsSum(CHOOSE k : IsSum(k, v, S), v, S)
  BY <1>2
<1>5. (CHOOSE k : IsSum(k, v, S)) = h
  BY <1>1, <1>2, <1>4, SumUnique
<1> QED
  BY <1>3, <1>5 DEF Sum

LEMMA SumEmpty ==
  ASSUME NEW v
  PROVE  Sum(v, {}) = 0
<1>1. IsFiniteSet({})
  BY FS_EmptySet
<1>2. PICK g : IsSum(g, v, {})
  BY <1>1, SumExists
<1>3. Sum(v, {}) = g[{}]
  BY <1>1, <1>2, SumGiven
<1> QED
  BY <1>2, <1>3 DEF IsSum

LEMMA SumType ==
  ASSUME NEW D, IsFiniteSet(D), NEW v, \A x \in D : v[x] \in Int
  PROVE  Sum(v, D) \in Int
<1>1. PICK g : IsSum(g, v, D)
  BY SumExists
<1>2. Sum(v, D) = g[D]
  BY <1>1, SumGiven
<1> QED
  BY <1>1, <1>2 DEF IsSum

LEMMA SumTakeOut ==
  ASSUME NEW D, IsFiniteSet(D), NEW v, \A x \in D : v[x] \in Int, NEW y \in D
  PROVE  Sum(v, D) = v[y] + Sum(v, D \ {y})
<1>1. PICK g : IsSum(g, v, D)
  BY SumExists
<1>2. Sum(v, D) = g[D] /\ Sum(v, D \ {y}) = g[D \ {y}]
  BY <1>1, SumGiven
<1> QED
  BY <1>1, <1>2 DEF IsSum

LEMMA SumPutIn ==
  ASSUME NEW D, IsFiniteSet(D), NEW y, y \notin D, NEW v, \A x \in D \cup {y} : v[x] \in Int
  PROVE  Sum(v, D \cup {y}) = v[y] + Sum(v, D)
<1>1. IsFiniteSet(D \cup {y}) /\ (D \cup {y}) \ {y} = D
  BY FS_AddElement
<1> QED
  BY <1>1, SumTakeOut

LEMMA SumSame ==
  ASSUME NEW D, IsFiniteSet(D), NEW v, NEW w, \A x \in D : v[x] \in Int /\ v[x] = w[x]
  PROVE  Sum(v, D) = Sum(w, D)
<1>1. \A x \in D : w[x] \in Int
  OBVIOUS
<1>2. PICK g : IsSum(g, v, D)
  BY SumExists
<1>3. PICK h : IsSum(h, w, D)
  BY <1>1, SumExists
<1>4. Sum(v, D) = g[D] /\ Sum(w, D) = h[D]
  BY <1>1, <1>2, <1>3, SumGiven
<1> QED
  BY <1>2, <1>3, <1>4, SumUnique

(* The recursive function of that recursion, and the fold. *)
LEMMA RecursionChosen ==
  ASSUME NEW D, IsFiniteSet(D), NEW v, \A x \in D : v[x] \in Int
  PROVE  (CHOOSE g : g = [S \in SUBSET D |->
            IF S = {} THEN 0 ELSE v[CHOOSE x \in S : TRUE] + g[S \ {CHOOSE x \in S : TRUE}]])[D]
         = Sum(v, D)
<1> DEFINE c == [S \in SUBSET D |-> CHOOSE x \in S : TRUE]
           iter == CHOOSE g : g = [S \in SUBSET D |->
                     IF S = {} THEN 0 ELSE v[CHOOSE x \in S : TRUE] + g[S \ {CHOOSE x \in S : TRUE}]]
<1>1. \A S \in SUBSET D : S # {} => c[S] \in S
  OBVIOUS
<1>2. PICK g : Recursion(g, v, c, D)
  BY <1>1, RecursionSolvable
<1>3. g = [S \in SUBSET D |->
                     IF S = {} THEN 0 ELSE v[CHOOSE x \in S : TRUE] + g[S \ {CHOOSE x \in S : TRUE}]]
  BY <1>2 DEF Recursion
<1>4. iter = [S \in SUBSET D |->
                IF S = {} THEN 0 ELSE v[CHOOSE x \in S : TRUE] + iter[S \ {CHOOSE x \in S : TRUE}]]
  BY <1>3
<1> HIDE DEF iter
<1>5. iter = [S \in SUBSET D |-> IF S = {} THEN 0 ELSE v[c[S]] + iter[S \ {c[S]}]]
  BY <1>4
<1>6. Recursion(iter, v, c, D)
  BY <1>5 DEF Recursion
<1> HIDE DEF c
<1>7. iter[D] = Sum(v, D)
  BY <1>1, <1>6, RecursionIsSum, SumGiven
<1> QED
  BY <1>7 DEF iter

LEMMA MapThenSumSetIsSum ==
  ASSUME NEW D, IsFiniteSet(D), NEW v, \A x \in D : v[x] \in Int
  PROVE  MapThenSumSet(LAMBDA x : v[x], D) = Sum(v, D)
<1> DEFINE iter == CHOOSE g : g = [S \in SUBSET D |->
                     IF S = {} THEN 0 ELSE v[CHOOSE x \in S : TRUE] + g[S \ {CHOOSE x \in S : TRUE}]]
<1>1. MapThenSumSet(LAMBDA x : v[x], D) = iter[D]
  BY DEF MapThenSumSet, MapThenFoldSet
<1> QED
  BY <1>1, RecursionChosen

-----------------------------------------------------------------------------
(* How sums compare. *)
LEMMA SumAtMost ==
  ASSUME NEW D, IsFiniteSet(D), NEW v, NEW w,
         \A x \in D : v[x] \in Int /\ w[x] \in Int /\ v[x] =< w[x]
  PROVE  Sum(v, D) =< Sum(w, D)
<1> DEFINE G == {S \in SUBSET D : Sum(v, S) =< Sum(w, S)}
<1>1. {} \in G
  BY SumEmpty
<1>2. ASSUME NEW S \in SUBSET D, NEW x \in D, S \in G, x \notin S PROVE S \cup {x} \in G
  <2>1. IsFiniteSet(S)
    BY FS_Subset
  <2>2. Sum(v, S \cup {x}) = v[x] + Sum(v, S) /\ Sum(w, S \cup {x}) = w[x] + Sum(w, S)
    BY <1>2, <2>1, SumPutIn
  <2>3. Sum(v, S) \in Int /\ Sum(w, S) \in Int
    BY <2>1, SumType
  <2>4. Sum(v, S) =< Sum(w, S) /\ v[x] \in Int /\ w[x] \in Int /\ v[x] =< w[x]
    BY <1>2
  <2>5. Sum(v, S \cup {x}) =< Sum(w, S \cup {x})
    BY <2>2, <2>3, <2>4
  <2> QED
    BY <2>5
<1> HIDE DEF G
<1>3. D \in G
  BY <1>1, <1>2, ElementInduction
<1> QED
  BY <1>3 DEF G

LEMMA SumNat ==
  ASSUME NEW D, IsFiniteSet(D), NEW v, \A x \in D : v[x] \in Nat
  PROVE  Sum(v, D) \in Nat
<1> DEFINE G == {S \in SUBSET D : Sum(v, S) \in Nat}
<1>1. {} \in G
  BY SumEmpty
<1>2. ASSUME NEW S \in SUBSET D, NEW x \in D, S \in G, x \notin S PROVE S \cup {x} \in G
  <2>1. IsFiniteSet(S)
    BY FS_Subset
  <2>2. Sum(v, S \cup {x}) = v[x] + Sum(v, S)
    <3>1. \A y \in S \cup {x} : v[y] \in Int
      OBVIOUS
    <3> QED
      BY <1>2, <2>1, <3>1, SumPutIn
  <2>3. v[x] \in Nat /\ Sum(v, S) \in Nat
    BY <1>2
  <2> QED
    BY <2>2, <2>3
<1> HIDE DEF G
<1>3. D \in G
  BY <1>1, <1>2, ElementInduction
<1> QED
  BY <1>3 DEF G

(* Nothing is lost by leaving out what is zero. *)
LEMMA SumSupport ==
  ASSUME NEW D, IsFiniteSet(D), NEW v, \A x \in D : v[x] \in Int,
         NEW E \in SUBSET D, \A x \in D \ E : v[x] = 0
  PROVE  Sum(v, D) = Sum(v, E)
<1> DEFINE G == {S \in SUBSET D : Sum(v, S) = Sum(v, S \cap E)}
<1>1. {} \in G
  OBVIOUS
<1>2. ASSUME NEW S \in SUBSET D, NEW x \in D, S \in G, x \notin S PROVE S \cup {x} \in G
  <2>1. IsFiniteSet(S) /\ IsFiniteSet(S \cap E)
    BY FS_Subset
  <2>2. Sum(v, S \cup {x}) = v[x] + Sum(v, S)
    BY <1>2, <2>1, SumPutIn
  <2>3. Sum(v, S) \in Int
    BY <2>1, SumType
  <2>4. CASE x \in E
    <3>1. (S \cup {x}) \cap E = (S \cap E) \cup {x}
      BY <2>4
    <3>2. Sum(v, (S \cap E) \cup {x}) = v[x] + Sum(v, S \cap E)
      BY <1>2, <2>1, SumPutIn
    <3> QED
      BY <1>2, <2>2, <3>1, <3>2
  <2>5. CASE x \notin E
    <3>1. (S \cup {x}) \cap E = S \cap E /\ v[x] = 0
      BY <2>5
    <3>2. Sum(v, S) = Sum(v, S \cap E)
      BY <1>2
    <3>3. Sum(v, S \cup {x}) = Sum(v, S)
      BY <2>2, <2>3, <3>1
    <3>4. Sum(v, S \cup {x}) = Sum(v, (S \cup {x}) \cap E)
      BY <3>1, <3>2, <3>3
    <3> QED
      BY <3>4
  <2> QED
    BY <2>4, <2>5
<1> HIDE DEF G
<1>3. D \in G
  BY <1>1, <1>2, ElementInduction
<1>4. D \cap E = E
  OBVIOUS
<1> QED
  BY <1>3, <1>4 DEF G

LEMMA SumOfPart ==
  ASSUME NEW D, IsFiniteSet(D), NEW v, \A x \in D : v[x] \in Nat, NEW E \in SUBSET D
  PROVE  Sum(v, E) =< Sum(v, D)
<1> DEFINE w == [x \in D |-> IF x \in E THEN v[x] ELSE 0]
<1>1. \A x \in D : w[x] \in Int /\ v[x] \in Int /\ w[x] =< v[x]
  OBVIOUS
<1>2. \A x \in D \ E : w[x] = 0
  OBVIOUS
<1>3. \A x \in E : w[x] = v[x] /\ w[x] \in Int
  OBVIOUS
<1> HIDE DEF w
<1>4. Sum(w, D) =< Sum(v, D)
  BY <1>1, SumAtMost
<1>5. Sum(w, D) = Sum(w, E)
  BY <1>1, <1>2, SumSupport
<1>6. IsFiniteSet(E)
  BY FS_Subset
<1>7. Sum(w, E) = Sum(v, E)
  BY <1>3, <1>6, SumSame
<1> QED
  BY <1>4, <1>5, <1>7

(* If every element of D answers for one of E, of its own, which is no     *)
(* less, the sum over D is no more than that over E.                       *)
LEMMA SumInjected ==
  ASSUME NEW D, IsFiniteSet(D), NEW E, IsFiniteSet(E), NEW v, NEW w, NEW f \in [D -> E],
         \A x, y \in D : f[x] = f[y] => x = y,
         \A x \in D : v[x] \in Nat /\ v[x] =< w[f[x]], \A y \in E : w[y] \in Nat
  PROVE  Sum(v, D) =< Sum(w, E)
<1> DEFINE Im(S) == {f[x] : x \in S}
           G == {S \in SUBSET D : Sum(v, S) =< Sum(w, Im(S))}
<1>1. {} \in G
  <2>1. Im({}) = {}
    OBVIOUS
  <2> QED
    BY <2>1, SumEmpty
<1>2. ASSUME NEW S \in SUBSET D, NEW x \in D, S \in G, x \notin S PROVE S \cup {x} \in G
  <2>1. IsFiniteSet(S) /\ IsFiniteSet(Im(S)) /\ Im(S) \in SUBSET E
    <3>1. Im(S) \in SUBSET E
      OBVIOUS
    <3> QED
      BY <3>1, FS_Subset
  <2>2. Im(S \cup {x}) = Im(S) \cup {f[x]} /\ f[x] \notin Im(S)
    BY <1>2
  <2>3. Sum(v, S \cup {x}) = v[x] + Sum(v, S)
    <3>1. \A y \in S \cup {x} : v[y] \in Int
      OBVIOUS
    <3> QED
      BY <1>2, <2>1, <3>1, SumPutIn
  <2>4. Sum(w, Im(S) \cup {f[x]}) = w[f[x]] + Sum(w, Im(S))
    <3>1. \A y \in Im(S) \cup {f[x]} : w[y] \in Int
      BY <2>1
    <3> HIDE DEF Im
    <3> QED
      BY <2>1, <2>2, <3>1, SumPutIn
  <2>5. Sum(v, S) \in Int
    <3>1. \A y \in S : v[y] \in Int
      OBVIOUS
    <3> QED
      BY <2>1, <3>1, SumType
  <2>6. Sum(w, Im(S)) \in Int
    <3>1. \A y \in Im(S) : w[y] \in Int
      BY <2>1
    <3> HIDE DEF Im
    <3> QED
      BY <2>1, <3>1, SumType
  <2>7. Sum(v, S) =< Sum(w, Im(S))
    BY <1>2
  <2>8. v[x] \in Int /\ w[f[x]] \in Int /\ v[x] =< w[f[x]]
    OBVIOUS
  <2>9. v[x] + Sum(v, S) =< w[f[x]] + Sum(w, Im(S))
    <3> HIDE DEF Im
    <3> QED
      BY <2>5, <2>6, <2>7, <2>8
  <2>10. Sum(v, S \cup {x}) =< Sum(w, Im(S \cup {x}))
    BY <2>2, <2>3, <2>4, <2>9
  <2> QED
    BY <2>10
<1> HIDE DEF G
<1>3. D \in G
  BY <1>1, <1>2, ElementInduction
<1>4. Sum(v, D) =< Sum(w, Im(D)) /\ Im(D) \in SUBSET E
  BY <1>3 DEF G
<1> HIDE DEF Im
<1>5. Sum(w, Im(D)) =< Sum(w, E)
  BY <1>4, SumOfPart
<1>6. Sum(v, D) \in Int
  <2>1. \A y \in D : v[y] \in Int
    OBVIOUS
  <2> QED
    BY <2>1, SumType
<1>7. IsFiniteSet(Im(D))
  BY <1>4, FS_Subset
<1>8. Sum(w, Im(D)) \in Int /\ Sum(w, E) \in Int
  BY <1>4, <1>7, SumNat
<1> QED
  BY <1>4, <1>5, <1>6, <1>8

LEMMA SumScale ==
  ASSUME NEW D, IsFiniteSet(D), NEW c \in Int, NEW v, NEW w,
         \A x \in D : v[x] \in Int /\ w[x] = c * v[x]
  PROVE  Sum(w, D) = c * Sum(v, D)
<1> DEFINE G == {S \in SUBSET D : Sum(w, S) = c * Sum(v, S)}
<1>0. \A x \in D : w[x] \in Int
  OBVIOUS
<1>1. {} \in G
  BY SumEmpty
<1>2. ASSUME NEW S \in SUBSET D, NEW x \in D, S \in G, x \notin S PROVE S \cup {x} \in G
  <2>1. IsFiniteSet(S)
    BY FS_Subset
  <2>2. Sum(v, S \cup {x}) = v[x] + Sum(v, S) /\ Sum(w, S \cup {x}) = w[x] + Sum(w, S)
    BY <1>0, <1>2, <2>1, SumPutIn
  <2>3. Sum(v, S) \in Int /\ v[x] \in Int
    BY <2>1, SumType
  <2>4. c * (v[x] + Sum(v, S)) = c * v[x] + c * Sum(v, S)
    BY <2>3
  <2>5. Sum(w, S) = c * Sum(v, S)
    BY <1>2
  <2>6. Sum(w, S \cup {x}) = c * Sum(v, S \cup {x})
    BY <2>2, <2>4, <2>5
  <2> QED
    BY <2>6
<1> HIDE DEF G
<1>3. D \in G
  BY <1>1, <1>2, ElementInduction
<1> QED
  BY <1>3 DEF G

LEMMA SumPlus ==
  ASSUME NEW D, IsFiniteSet(D), NEW u, NEW v, NEW w,
         \A x \in D : u[x] \in Int /\ v[x] \in Int /\ w[x] = u[x] + v[x]
  PROVE  Sum(w, D) = Sum(u, D) + Sum(v, D)
<1> DEFINE G == {S \in SUBSET D : Sum(w, S) = Sum(u, S) + Sum(v, S)}
<1>0. \A x \in D : w[x] \in Int
  OBVIOUS
<1>1. {} \in G
  BY SumEmpty
<1>2. ASSUME NEW S \in SUBSET D, NEW x \in D, S \in G, x \notin S PROVE S \cup {x} \in G
  <2>1. IsFiniteSet(S)
    BY FS_Subset
  <2>2. /\ Sum(u, S \cup {x}) = u[x] + Sum(u, S)
        /\ Sum(v, S \cup {x}) = v[x] + Sum(v, S)
        /\ Sum(w, S \cup {x}) = w[x] + Sum(w, S)
    BY <1>0, <1>2, <2>1, SumPutIn
  <2>3. Sum(u, S) \in Int /\ Sum(v, S) \in Int /\ u[x] \in Int /\ v[x] \in Int
    BY <2>1, SumType
  <2>4. Sum(w, S) = Sum(u, S) + Sum(v, S) /\ w[x] = u[x] + v[x]
    BY <1>2
  <2>5. Sum(w, S \cup {x}) = Sum(u, S \cup {x}) + Sum(v, S \cup {x})
    BY <2>2, <2>3, <2>4
  <2> QED
    BY <2>5
<1> HIDE DEF G
<1>3. D \in G
  BY <1>1, <1>2, ElementInduction
<1> QED
  BY <1>3 DEF G

(* One summand changes. *)
LEMMA SumChanged ==
  ASSUME NEW D, IsFiniteSet(D), NEW v, NEW w, NEW y \in D,
         \A x \in D : v[x] \in Int /\ w[x] \in Int /\ (x # y => w[x] = v[x])
  PROVE  Sum(w, D) = Sum(v, D) - v[y] + w[y]
<1>1. Sum(v, D) = v[y] + Sum(v, D \ {y}) /\ Sum(w, D) = w[y] + Sum(w, D \ {y})
  BY SumTakeOut
<1>2. IsFiniteSet(D \ {y})
  BY FS_Subset
<1>3. \A x \in D \ {y} : v[x] \in Int /\ v[x] = w[x]
  OBVIOUS
<1>4. Sum(v, D \ {y}) = Sum(w, D \ {y}) /\ Sum(v, D \ {y}) \in Int
  BY <1>2, <1>3, SumSame, SumType
<1> QED
  BY <1>1, <1>4

(* Shares in proportion, rounded down, never exceed the whole. *)
LEMMA SharesFit ==
  ASSUME NEW D, IsFiniteSet(D), NEW pool \in Nat, NEW v, \A x \in D : v[x] \in Nat,
         Sum(v, D) # 0, NEW w, \A x \in D : w[x] = (pool * v[x]) \div Sum(v, D)
  PROVE  /\ \A x \in D : w[x] \in Nat
         /\ Sum(w, D) \in Nat /\ Sum(w, D) =< pool
<1> DEFINE total == Sum(v, D)
           scaled == [x \in D |-> total * w[x]]
           dealt == [x \in D |-> pool * v[x]]
<1>1. total \in Nat \ {0}
  BY SumNat
<1>2. ASSUME NEW x \in D
      PROVE  w[x] \in Nat /\ total * w[x] =< pool * v[x] /\ pool * v[x] \in Nat /\ total * w[x] \in Nat
  <2>1. \A p \in Nat, d \in Nat \ {0} : p \div d \in Nat /\ d * (p \div d) =< p
    OBVIOUS
  <2>2. pool * v[x] \in Nat
    OBVIOUS
  <2> HIDE DEF total
  <2>3. w[x] = (pool * v[x]) \div total
    BY DEF total
  <2> QED
    BY <1>1, <2>1, <2>2, <2>3
<1> HIDE DEF total
<1>3. Sum(scaled, D) = total * Sum(w, D)
  <2>1. \A x \in D : w[x] \in Int /\ scaled[x] = total * w[x]
    BY <1>2
  <2> HIDE DEF scaled
  <2> QED
    BY <1>1, <2>1, SumScale
<1>4. Sum(dealt, D) = pool * total
  <2>1. \A x \in D : v[x] \in Int /\ dealt[x] = pool * v[x]
    OBVIOUS
  <2> HIDE DEF dealt
  <2> QED
    BY <2>1, SumScale DEF total
<1>5. Sum(scaled, D) =< Sum(dealt, D)
  <2>1. \A x \in D : scaled[x] \in Int /\ dealt[x] \in Int /\ scaled[x] =< dealt[x]
    BY <1>2
  <2> HIDE DEF scaled, dealt
  <2> QED
    BY <2>1, SumAtMost
<1>6. Sum(w, D) \in Nat
  BY <1>2, SumNat
<1>7. total * Sum(w, D) =< total * pool
  BY <1>1, <1>3, <1>4, <1>5
<1>8. Sum(w, D) =< pool
  <2>1. \A t \in Nat \ {0}, a, b \in Nat : t * a =< t * b => a =< b
    OBVIOUS
  <2> QED
    BY <1>1, <1>6, <1>7, <2>1
<1> QED
  BY <1>2, <1>6, <1>8

-----------------------------------------------------------------------------
(* Division by a positive number, and how the quotient moves with the next *)
(* dividend.                                                               *)
LEMMA Divided ==
  ASSUME NEW d \in Nat \ {0}, NEW a \in Nat, NEW b \in 0..(d - 1), NEW n \in Nat, n = d * a + b
  PROVE  n \div d = a /\ n % d = b
<1> DEFINE q == n \div d
           r == n % d
<1>1. q \in Nat /\ r \in 0..(d - 1) /\ n = d * q + r
  OBVIOUS
<1> HIDE DEF q, r
<1>2. d * a \in Nat /\ d * q \in Nat
  BY <1>1
<1>3. CASE a > q
  <2>1. PICK k \in Nat : a = q + 1 + k
    BY <1>1, <1>3
  <2>2. d * a = d * q + d + d * k /\ d * k \in Nat
    BY <1>1, <2>1
  <2> QED
    BY <1>1, <1>2, <2>2
<1>4. CASE q > a
  <2>1. PICK k \in Nat : q = a + 1 + k
    BY <1>1, <1>4
  <2>2. d * q = d * a + d + d * k /\ d * k \in Nat
    BY <1>1, <2>1
  <2> QED
    BY <1>1, <1>2, <2>2
<1>5. CASE a = q
  BY <1>1, <1>2, <1>5 DEF q, r
<1> QED
  BY <1>1, <1>3, <1>4, <1>5

LEMMA NextQuotient ==
  ASSUME NEW d \in Nat \ {0}, NEW n \in Nat
  PROVE  /\ (n + 1) \div d = IF (n + 1) % d = 0 THEN n \div d + 1 ELSE n \div d
         /\ n \div d \in Nat /\ (n + 1) \div d \in Nat
<1>1. PICK q \in Nat, r \in 0..(d - 1) : n \div d = q /\ n % d = r /\ n = d * q + r
  OBVIOUS
<1>2. CASE r + 1 = d
  <2>1. n + 1 = d * (q + 1) + 0
    BY <1>1, <1>2
  <2>2. (n + 1) \div d = q + 1 /\ (n + 1) % d = 0
    <3>1. PICK a \in Nat, m \in Nat, b \in 0..(d - 1) : a = q + 1 /\ m = n + 1 /\ b = 0
      OBVIOUS
    <3>2. m = d * a + b
      BY <2>1, <3>1
    <3>3. m \div d = a /\ m % d = b
      BY <3>2, Divided
    <3> QED
      BY <3>1, <3>3
  <2> QED
    BY <1>1, <2>2
<1>3. CASE r + 1 # d
  <2>1. n + 1 = d * q + (r + 1)
    BY <1>1, <1>3
  <2>2. (n + 1) \div d = q /\ (n + 1) % d = r + 1
    <3>1. r + 1 \in 0..(d - 1) /\ n + 1 \in Nat
      BY <1>3
    <3> QED
      BY <2>1, <3>1, Divided
  <2>3. r + 1 # 0
    OBVIOUS
  <2> QED
    BY <1>1, <2>2, <2>3
<1> QED
  BY <1>2, <1>3

LEMMA DivMonotone ==
  ASSUME NEW d \in Nat \ {0}, NEW m \in Nat, NEW n \in Nat, m =< n
  PROVE  m \div d =< n \div d
<1>1. PICK q \in Nat, r \in 0..(d - 1) : m \div d = q /\ m = d * q + r
  OBVIOUS
<1>2. PICK p \in Nat, s \in 0..(d - 1) : n \div d = p /\ n = d * p + s
  OBVIOUS
<1>3. ASSUME p < q PROVE FALSE
  <2>1. PICK k \in Nat : q = p + 1 + k
    BY <1>3
  <2>2. d * q = d * p + d + d * k /\ d * k \in Nat /\ d * p \in Nat
    BY <2>1
  <2> QED
    BY <1>1, <1>2, <2>2
<1> QED
  BY <1>1, <1>2, <1>3

(* A short period that divides a long one straddles no two of them.        *)
LEMMA PeriodInside ==
  ASSUME NEW short \in Nat \ {0}, NEW long \in Nat \ {0}, long % short = 0, NEW n \in Nat
  PROVE  ((n \div short) * short) \div long = n \div long
<1>1. PICK k \in Nat \ {0} : long = short * k
  <2>1. PICK k \in Nat, r \in 0..(short - 1) : long % short = r /\ long = short * k + r
    OBVIOUS
  <2> QED
    BY <2>1
<1>2. PICK q \in Nat, r \in 0..(short - 1) : n \div short = q /\ n = short * q + r
  OBVIOUS
<1>3. PICK s \in Nat, t \in 0..(k - 1) : q \div k = s /\ q = k * s + t
  OBVIOUS
<1>4. q * short = long * s + short * t
  <2>0. \A a, b, c \in Nat : (a + b) * c = c * a + c * b
    OBVIOUS
  <2>1. k * s \in Nat /\ q * short = short * (k * s) + short * t
    BY <1>1, <1>3, <2>0
  <2>2. short * (k * s) = (short * k) * s
    BY <1>1, <1>3
  <2> QED
    BY <1>1, <2>1, <2>2
<1>5. short * t + r \in 0..(long - 1) /\ short * t \in 0..(long - 1)
  <2>1. PICK u \in Nat : k = t + 1 + u
    BY <1>3
  <2>2. short * k = short * t + short + short * u /\ short * u \in Nat /\ short * t \in Nat
    BY <2>1
  <2> QED
    BY <1>1, <1>2, <2>2
<1>6. n = long * s + (short * t + r)
  BY <1>2, <1>4
<1>7. q * short \in Nat
  BY <1>2
<1>8. (q * short) \div long = s
  BY <1>4, <1>5, <1>7, Divided
<1>9. n \div long = s
  BY <1>5, <1>6, Divided
<1> QED
  BY <1>2, <1>8, <1>9

-----------------------------------------------------------------------------
(* Counting, and the lesser of two. *)
LEMMA SameCount ==
  ASSUME NEW S, IsFiniteSet(S), NEW T, NEW f \in [S -> T],
         \A x, y \in S : f[x] = f[y] => x = y, \A y \in T : \E x \in S : f[x] = y
  PROVE  IsFiniteSet(T) /\ Cardinality(T) = Cardinality(S)
<1>1. f \in Bijection(S, T)
  BY DEF Bijection, Injection, IsInjective, Surjection
<1>2. ExistsBijection(S, T)
  BY <1>1 DEF ExistsBijection
<1> QED
  BY <1>2, FS_Bijection

LEMMA CountApart ==
  ASSUME NEW S, IsFiniteSet(S), NEW T, IsFiniteSet(T), S \cap T = {}
  PROVE  IsFiniteSet(S \cup T) /\ Cardinality(S \cup T) = Cardinality(S) + Cardinality(T)
BY FS_Union, FS_EmptySet, FS_CardinalityType

LEMMA MinMaxOfTwo ==
  ASSUME NEW x \in Int, NEW y \in Int
  PROVE  /\ Min({x, y}) = IF x =< y THEN x ELSE y
         /\ Max({x, y}) = IF x =< y THEN y ELSE x
<1>1. ASSUME x =< y PROVE Min({x, y}) = x /\ Max({x, y}) = y
  <2>1. x \in {x, y} /\ y \in {x, y} /\ \A z \in {x, y} : x =< z /\ z =< y
    BY <1>1
  <2>2. \A z \in {x, y} : /\ (\A w \in {x, y} : z =< w) => z = x
                          /\ (\A w \in {x, y} : z >= w) => z = y
    BY <1>1
  <2>3. \A w \in {x, y} : y >= w
    BY <1>1
  <2> QED
    BY <2>1, <2>2, <2>3 DEF Min, Max
<1>2. ASSUME ~(x =< y) PROVE Min({x, y}) = y /\ Max({x, y}) = x
  <2>1. x \in {x, y} /\ y \in {x, y} /\ \A z \in {x, y} : y =< z /\ x >= z
    BY <1>2
  <2>2. \A z \in {x, y} : /\ (\A w \in {x, y} : z =< w) => z = y
                          /\ (\A w \in {x, y} : z >= w) => z = x
    BY <1>2
  <2> QED
    BY <2>1, <2>2 DEF Min, Max
<1> QED
  BY <1>1, <1>2

-----------------------------------------------------------------------------
(* Folds whose values stay in a set V: with step[<<x, v>>] in V for x in D *)
(* and v in V, the recursion of MapThenFoldSet has a solution with values  *)
(* in V, whatever element it takes first.                                  *)
FoldsInto(g, step, base, c, D, V) ==
  /\ g \in [SUBSET D -> V]
  /\ g = [S \in SUBSET D |-> IF S = {} THEN base ELSE step[<<c[S], g[S \ {c[S]}]>>]]

LEMMA FoldSolvable ==
  ASSUME NEW D, IsFiniteSet(D), NEW V, NEW base \in V, NEW step \in [D \X V -> V],
         NEW c, \A S \in SUBSET D : S # {} => c[S] \in S
  PROVE  \E g : FoldsInto(g, step, base, c, D, V)
<1> DEFINE Upto(n) == {S \in SUBSET D : Cardinality(S) =< n}
           Solves(g, n) ==
             /\ g \in [Upto(n) -> V]
             /\ \A S \in Upto(n) : g[S] = IF S = {} THEN base ELSE step[<<c[S], g[S \ {c[S]}]>>]
           Bad == {n \in Nat : ~ \E g : Solves(g, n)}
<1>f. \A S \in SUBSET D : IsFiniteSet(S) /\ Cardinality(S) \in Nat
  BY FS_Subset, FS_CardinalityType
<1>c. \A S \in SUBSET D, n \in Nat :
        S # {} /\ S \in Upto(n) => n # 0 /\ c[S] \in D /\ S \ {c[S]} \in Upto(n - 1)
  <2> SUFFICES ASSUME NEW S \in SUBSET D, NEW n \in Nat, S # {}, S \in Upto(n)
               PROVE  n # 0 /\ c[S] \in D /\ S \ {c[S]} \in Upto(n - 1)
    OBVIOUS
  <2>1. c[S] \in S /\ IsFiniteSet(S)
    BY <1>f
  <2>2. Cardinality(S \ {c[S]}) = Cardinality(S) - 1
    BY <2>1, FS_RemoveElement
  <2>3. Cardinality(S \ {c[S]}) \in Nat /\ Cardinality(S) \in Nat
    BY <1>f
  <2> QED
    BY <2>1, <2>2, <2>3
<1>u. \A n \in Nat : \A S \in Upto(n) : S \in SUBSET D
  OBVIOUS
<1>w. \A n \in Nat : n # 0 => Upto(n - 1) \subseteq Upto(n)
  BY <1>f
<1> HIDE DEF Upto
<1>1. ASSUME Bad # {} PROVE FALSE
  <2>1. PICK n \in Bad : \A m \in Bad : n =< m
    <3>1. Bad \in SUBSET Nat
      OBVIOUS
    <3> HIDE DEF Bad
    <3> QED
      BY <1>1, <3>1, LeastCounterexample
  <2>n. n \in Nat
    OBVIOUS
  <2>2. CASE n = 0
    <3> DEFINE g == [S \in Upto(0) |-> base]
    <3>1. \A S \in Upto(0) : S = {}
      BY <1>c, <1>u
    <3>2. Solves(g, 0)
      BY <3>1
    <3> QED
      BY <2>2, <3>2
  <2>3. CASE n # 0
    <3>1. n - 1 \in Nat /\ n - 1 \notin Bad
      <4> HIDE DEF Bad
      <4> QED
        BY <2>1, <2>3, <2>n
    <3>2. PICK g : Solves(g, n - 1)
      BY <3>1
    <3> DEFINE h == [S \in Upto(n) |-> IF S = {} THEN base ELSE step[<<c[S], g[S \ {c[S]}]>>]]
    <3>3. ASSUME NEW S \in Upto(n), S # {}
          PROVE  h[S] = step[<<c[S], g[S \ {c[S]}]>>] /\ h[S] \in V /\ S \ {c[S]} \in Upto(n - 1)
      <4>1. c[S] \in D /\ S \ {c[S]} \in Upto(n - 1)
        BY <1>c, <1>u, <2>n, <3>3
      <4>2. g[S \ {c[S]}] \in V
        BY <3>2, <4>1
      <4> QED
        BY <3>3, <4>1, <4>2
    <3>4. \A S \in Upto(n) : S = {} => h[S] = base
      OBVIOUS
    <3>5. DOMAIN h = Upto(n) /\ h = [S \in Upto(n) |-> h[S]]
      OBVIOUS
    <3> HIDE DEF h
    <3>6. h \in [Upto(n) -> V]
      BY <3>3, <3>4, <3>5
    <3>7. ASSUME NEW S \in Upto(n - 1) PROVE h[S] = g[S]
      <4>1. S \in Upto(n)
        BY <1>w, <2>3, <2>n
      <4>2. g[S] = IF S = {} THEN base ELSE step[<<c[S], g[S \ {c[S]}]>>]
        BY <3>2
      <4> QED
        BY <3>3, <3>4, <4>1, <4>2
    <3>8. \A S \in Upto(n) : h[S] = IF S = {} THEN base ELSE step[<<c[S], h[S \ {c[S]}]>>]
      BY <3>3, <3>4, <3>7
    <3>9. Solves(h, n)
      BY <3>6, <3>8
    <3> QED
      BY <2>1, <3>9
  <2> QED
    BY <2>2, <2>3
<1>2. Cardinality(D) \in Nat
  BY <1>f
<1>3. PICK g : Solves(g, Cardinality(D))
  BY <1>1, <1>2
<1>4. Upto(Cardinality(D)) = SUBSET D
  BY FS_Subset DEF Upto
<1>5. g \in [SUBSET D -> V]
  BY <1>3, <1>4
<1>6. \A S \in SUBSET D : g[S] = IF S = {} THEN base ELSE step[<<c[S], g[S \ {c[S]}]>>]
  BY <1>3, <1>4
<1>7. g = [S \in SUBSET D |-> IF S = {} THEN base ELSE step[<<c[S], g[S \ {c[S]}]>>]]
  <2>1. g = [S \in SUBSET D |-> g[S]]
    BY <1>5
  <2> QED
    BY <1>6, <2>1
<1> QED
  BY <1>5, <1>7 DEF FoldsInto

LEMMA GreatestBelongs ==
  ASSUME NEW n \in Nat, NEW S \in SUBSET (0..n), S # {}
  PROVE  Max(S) \in S /\ \A x \in S : x =< Max(S)
<1> DEFINE Far == {n - x : x \in S}
<1>1. Far \in SUBSET Nat /\ Far # {}
  <2>1. \A x \in S : x \in Int /\ n - x \in Nat
    OBVIOUS
  <2>2. PICK x \in S : TRUE
    OBVIOUS
  <2>3. n - x \in Far
    OBVIOUS
  <2> QED
    BY <2>1, <2>3
<1> HIDE DEF Far
<1>2. PICK d \in Far : \A e \in Far : d =< e
  BY <1>1, LeastCounterexample
<1>3. PICK x \in S : d = n - x
  BY DEF Far
<1>4. \A y \in S : y =< x
  <2> TAKE y \in S
  <2>1. n - y \in Far
    BY DEF Far
  <2> QED
    BY <1>2, <1>3, <2>1
<1> QED
  BY <1>4 DEF Max

LEMMA LastIndex ==
  ASSUME NEW n \in Nat
  PROVE  \A S \in SUBSET (1..n) : S # {} => Max(S) \in S /\ Max(S) \in 1..n
<1> TAKE S \in SUBSET (1..n)
<1>1. S \in SUBSET (0..n)
  OBVIOUS
<1> QED
  BY <1>1, GreatestBelongs

(* The same for FoldLeft, which takes the last element first; and a fold   *)
(* whose every step stays in V ends in V.                                  *)
SequenceFoldsInto(g, step, base, n, V) ==
  /\ g \in [SUBSET (1..n) -> V]
  /\ g = [S \in SUBSET (1..n) |-> IF S = {} THEN base ELSE step[<<Max(S), g[S \ {Max(S)}]>>]]

LEMMA SequenceFoldSolvable ==
  ASSUME NEW n \in Nat, NEW V, NEW base \in V, NEW step \in [(1..n) \X V -> V]
  PROVE  \E g : SequenceFoldsInto(g, step, base, n, V)
<1> DEFINE D == 1..n
           c == [S \in SUBSET D |-> Max(S)]
<1>1. IsFiniteSet(D)
  BY FS_Interval
<1>2. \A S \in SUBSET D : c[S] = Max(S) /\ (S # {} => c[S] \in S)
  BY LastIndex
<1>3. step \in [D \X V -> V]
  OBVIOUS
<1>i. \A S \in SUBSET D : S # {} => c[S] \in S
  BY <1>2
<1> HIDE DEF c, D
<1>4. PICK g : FoldsInto(g, step, base, c, D, V)
  BY <1>1, <1>i, <1>3, FoldSolvable
<1>5. g = [S \in SUBSET D |-> IF S = {} THEN base ELSE step[<<Max(S), g[S \ {Max(S)}]>>]]
  BY <1>2, <1>4 DEF FoldsInto
<1>6. g \in [SUBSET D -> V]
  BY <1>4 DEF FoldsInto
<1> QED
  BY <1>5, <1>6 DEF D, SequenceFoldsInto

LEMMA SequenceFoldStays ==
  ASSUME NEW n \in Nat, NEW V, NEW h, h[{}] \in V,
         \A S \in SUBSET (1..n) : S # {} /\ h[S \ {Max(S)}] \in V => h[S] \in V
  PROVE  h[1..n] \in V
<1> DEFINE D == 1..n
           G == {S \in SUBSET D : h[S] \in V}
<1>d. IsFiniteSet(D)
  BY FS_Interval
<1>m. \A S \in SUBSET D : S # {} => Max(S) \in S
  BY LastIndex
<1>s. \A S \in SUBSET D : S # {} /\ h[S \ {Max(S)}] \in V => h[S] \in V
  OBVIOUS
<1> HIDE DEF D
<1>1. ASSUME NEW S \in SUBSET D, \A T \in SUBSET S : T # S => T \in G PROVE S \in G
  <2>1. CASE S # {}
    <3>1. Max(S) \in S
      BY <2>1, <1>m
    <3>2. S \ {Max(S)} \in G
      BY <1>1, <3>1
    <3> QED
      BY <2>1, <3>2, <1>s
  <2> QED
    BY <2>1
<1> HIDE DEF G
<1>2. \A S \in SUBSET D : S \in G
  BY <1>1, <1>d, SubsetInduction
<1> QED
  BY <1>2 DEF G, D
=============================================================================
