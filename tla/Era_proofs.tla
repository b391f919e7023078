--------------------------- MODULE Era_proofs ---------------------------
(***************************************************************************)
(* For any accounts, keys, lengths, committees, records and beats: a vote  *)
(* is credited once and the two maps of the vote delegation stay inverses; *)
(* service is conserved from its credit to the payment of its era and into *)
(* the evidence of its account, and so are the days of the hosts.          *)
(* What the emission at an era's end promises for every curve whose        *)
(* tranches fit under its cap, and that both live curves are such.         *)
(***************************************************************************)
EXTENDS Era, Emission, Runtime, Sums, FiniteSetTheorems, TLAPS

-----------------------------------------------------------------------------
(* The delegation.                                                         *)
Delegated ==
  /\ VoteKeys \in [Accounts -> Keys \cup {None}]
  /\ VoteKeyOwner \in [Keys -> Accounts \cup {None}]
  /\ MapsInverse

LEMMA DelegatedInit == Init => Delegated
<1> SUFFICES ASSUME Init PROVE Delegated
  OBVIOUS
<1>1. /\ VoteKeys = GenesisKeys
      /\ VoteKeyOwner = [k \in Keys |-> IF \E a \in Accounts : GenesisKeys[a] = k
                                        THEN CHOOSE a \in Accounts : GenesisKeys[a] = k ELSE None]
  BY DEF Init
<1>2. \A k \in Keys, a \in Accounts : GenesisKeys[a] = k <=> VoteKeyOwner[k] = a
  <2> SUFFICES ASSUME NEW k \in Keys, NEW a \in Accounts
               PROVE  GenesisKeys[a] = k <=> VoteKeyOwner[k] = a
    OBVIOUS
  <2>1. k # None /\ a # None
    BY DelegationAssumption
  <2>2. CASE \E b \in Accounts : GenesisKeys[b] = k
    <3>1. VoteKeyOwner[k] \in Accounts /\ GenesisKeys[VoteKeyOwner[k]] = k
      BY <1>1, <2>2
    <3> QED
      BY <2>1, <3>1, EraAssumption
  <2>3. CASE ~ \E b \in Accounts : GenesisKeys[b] = k
    BY <1>1, <2>1, <2>3
  <2> QED
    BY <2>2, <2>3
<1>3. VoteKeyOwner \in [Keys -> Accounts \cup {None}]
  BY <1>1
<1> QED
  BY <1>1, <1>2, <1>3, EraAssumption DEF Delegated, MapsInverse

LEMMA DelegatedBind ==
  ASSUME Delegated, NEW who \in Accounts, NEW key \in Keys, SetVoteKey(who, key)
  PROVE  Delegated'
<1>1. /\ VoteKeys' = [VoteKeys EXCEPT ![who] = key]
      /\ VoteKeyOwner' = [k \in Keys |-> IF k = key THEN who
                                         ELSE IF k = VoteKeys[who] THEN None ELSE VoteKeyOwner[k]]
      /\ VoteKeyOwner[key] \in {None, who}
  BY DEF SetVoteKey
<1>2. None \notin Accounts /\ None \notin Keys
  BY DelegationAssumption
<1>3. ASSUME NEW a \in Accounts, NEW k \in Keys
      PROVE  VoteKeys'[a] = k <=> VoteKeyOwner'[k] = a
  BY <1>1, <1>2 DEF Delegated, MapsInverse
<1> QED
  BY <1>1, <1>3 DEF Delegated, MapsInverse

LEMMA DelegatedUnbind ==
  ASSUME Delegated, NEW who \in Accounts, ClearVoteKey(who)
  PROVE  Delegated'
<1>1. /\ VoteKeys[who] \in Keys
      /\ VoteKeyOwner' = [VoteKeyOwner EXCEPT ![VoteKeys[who]] = None]
      /\ VoteKeys' = [VoteKeys EXCEPT ![who] = None]
  BY DEF ClearVoteKey, Delegated
<1>2. None \notin Accounts /\ None \notin Keys
  BY DelegationAssumption
<1>3. ASSUME NEW a \in Accounts, NEW k \in Keys
      PROVE  VoteKeys'[a] = k <=> VoteKeyOwner'[k] = a
  BY <1>1, <1>2 DEF Delegated, MapsInverse
<1> QED
  BY <1>1, <1>3 DEF Delegated, MapsInverse

(* The node, the committee and the heartbeats resolve a hot key alike,     *)
(* after any number of bindings, rotations and releases.                   *)
THEOREM VoteKeysStayInverse == Spec => []MapsInverse
<1>1. Delegated /\ [Next]_vars => Delegated'
  <2> SUFFICES ASSUME Delegated, [Next]_vars PROVE Delegated'
    OBVIOUS
  <2>1. ASSUME NEW who \in Accounts, NEW key \in Keys, Bind(who, key) PROVE Delegated'
    BY <2>1, DelegatedBind DEF Bind
  <2>2. ASSUME NEW who \in Accounts, Unbind(who) PROVE Delegated'
    BY <2>2, DelegatedUnbind DEF Unbind
  <2>3. CASE UNCHANGED delegation
    BY <2>3 DEF Delegated, MapsInverse, delegation
  <2> QED
    BY <2>1, <2>2, <2>3 DEF Next, vars, OpenBlock, Note, Beat, CloseBlock
<1>2. Delegated => MapsInverse
  BY DEF Delegated
<1> QED
  BY <1>1, <1>2, DelegatedInit, PTL DEF Spec

(* A chain that sealed its delegations before the reverse map was there, or *)
(* had part of it, has the whole of it after the upgrade, provided no two   *)
(* accounts were sealed with one key; to upgrade again changes nothing.     *)
THEOREM UpgradeInverts ==
  ASSUME VoteKeys \in [Accounts -> Keys \cup {None}],
         VoteKeyOwner \in [Keys -> Accounts \cup {None}],
         \A a, b \in Accounts : VoteKeys[a] = VoteKeys[b] /\ VoteKeys[a] # None => a = b,
         \A k \in Keys : VoteKeyOwner[k] # None => VoteKeys[VoteKeyOwner[k]] = k,
         OnRuntimeUpgrade
  PROVE  MapsInverse' /\ (MapsInverse => VoteKeyOwner' = VoteKeyOwner)
<1>1. None \notin Accounts /\ None \notin Keys
  BY DelegationAssumption
<1>2. /\ VoteKeyOwner' \in [Keys -> Accounts \cup {None}]
      /\ VoteKeys' = VoteKeys
      /\ \A k \in Keys :
           IF VoteKeyOwner[k] # None \/ \A a \in Accounts : VoteKeys[a] # k
           THEN VoteKeyOwner'[k] = VoteKeyOwner[k]
           ELSE VoteKeyOwner'[k] \in Accounts /\ VoteKeys[VoteKeyOwner'[k]] = k
  BY DEF OnRuntimeUpgrade
<1>3. ASSUME NEW a \in Accounts, NEW k \in Keys
      PROVE  VoteKeys[a] = k <=> VoteKeyOwner'[k] = a
  BY <1>1, <1>2
<1>4. ASSUME MapsInverse PROVE VoteKeyOwner' = VoteKeyOwner
  <2>1. ASSUME NEW k \in Keys PROVE VoteKeyOwner'[k] = VoteKeyOwner[k]
    BY <1>1, <1>2, <1>4 DEF MapsInverse
  <2> QED
    BY <1>2, <2>1
<1> QED
  BY <1>2, <1>3, <1>4 DEF MapsInverse

-----------------------------------------------------------------------------
(* The record of a provider: sequences of votes joined end to end.         *)
LEMMA UptoLess ==
  ASSUME NEW i \in Nat \ {0}
  PROVE  Max(1..i) = i /\ (1..i) \ {i} = 1..(i - 1)
<1>1. 1..i \in SUBSET (0..i) /\ i \in 1..i
  OBVIOUS
<1>2. Max(1..i) \in 1..i /\ \A x \in 1..i : x =< Max(1..i)
  BY <1>1, GreatestBelongs
<1> QED
  BY <1>2

(* The recursion of FlattenSeq has a solution, and it is the one chosen.   *)
Flattens(f, seqs, n, U) ==
  /\ f \in [1..n -> Seq(U)]
  /\ f[1] = seqs[1]
  /\ \A i \in 2..n : f[i] = f[i - 1] \o seqs[i]
  /\ FlattenSeq(seqs) = f[n]

LEMMA FlattenSolved ==
  ASSUME NEW U, NEW n \in Nat \ {0}, NEW seqs \in [1..n -> Seq(U)]
  PROVE  \E f : Flattens(f, seqs, n, U)
<1> DEFINE V == Seq(U)
           Rule(f) == [i \in 1..n |-> IF i = 1 THEN seqs[i] ELSE f[i - 1] \o seqs[i]]
           step == [p \in (1..n) \X V |-> IF p[1] = 1 THEN seqs[p[1]] ELSE p[2] \o seqs[p[1]]]
<1>1. \A s \in V, i \in 1..n : s \o seqs[i] \in V
  OBVIOUS
<1>2. step \in [(1..n) \X V -> V] /\ << >> \in V
  BY <1>1
<1>3. \A i \in 1..n, s \in V : step[<<i, s>>] = IF i = 1 THEN seqs[i] ELSE s \o seqs[i]
  OBVIOUS
<1> HIDE DEF step, V
<1>4. PICK g : SequenceFoldsInto(g, step, << >>, n, V)
  BY <1>2, SequenceFoldSolvable
<1> DEFINE h == [i \in 1..n |-> g[1..i]]
<1>5. ASSUME NEW i \in 1..n
      PROVE  /\ h[i] = step[<<i, g[1..(i - 1)]>>]
             /\ g[1..(i - 1)] \in V /\ h[i] \in V
  <2>0. i \in Nat \ {0} /\ i =< n /\ i \in 1..i
    OBVIOUS
  <2>1. 1..i \in SUBSET (1..n) /\ 1..i # {} /\ 1..(i - 1) \in SUBSET (1..n)
    <3>1. \A j \in 1..i : j \in 1..n
      BY <2>0
    <3>2. \A j \in 1..(i - 1) : j \in 1..n
      BY <2>0
    <3> QED
      BY <2>0, <3>1, <3>2
  <2>2. g[1..i] = step[<<Max(1..i), g[(1..i) \ {Max(1..i)}]>>] /\ g[1..i] \in V /\ g[1..(i - 1)] \in V
    BY <1>4, <2>1 DEF SequenceFoldsInto
  <2>3. Max(1..i) = i /\ (1..i) \ {i} = 1..(i - 1)
    BY <2>0, UptoLess
  <2> QED
    BY <2>2, <2>3
<1>6. ASSUME NEW i \in 1..n
      PROVE  h[i] = IF i = 1 THEN seqs[i] ELSE h[i - 1] \o seqs[i]
  <2>1. i # 1 => h[i - 1] = g[1..(i - 1)]
    OBVIOUS
  <2> HIDE DEF h
  <2>2. h[i] = IF i = 1 THEN seqs[i] ELSE g[1..(i - 1)] \o seqs[i]
    BY <1>3, <1>5
  <2> QED
    BY <2>1, <2>2
<1>7. h \in [1..n -> V] /\ h = Rule(h)
  <2>1. DOMAIN h = 1..n /\ h = [i \in 1..n |-> h[i]]
    OBVIOUS
  <2> HIDE DEF h
  <2> QED
    BY <1>5, <1>6, <2>1
<1> HIDE DEF h
<1> DEFINE f == CHOOSE f : f = Rule(f)
<1>8. f = Rule(f)
  BY <1>7
<1>9. Len(seqs) = n
  OBVIOUS
<1>10. FlattenSeq(seqs) = f[n]
  BY <1>9 DEF FlattenSeq
<1> HIDE DEF f
<1>11. \A i \in 1..n : f[i] = IF i = 1 THEN seqs[i] ELSE f[i - 1] \o seqs[i]
  BY <1>8
<1> DEFINE Bad == {i \in 1..n : f[i] \notin V}
<1>12. Bad = {}
  <2> SUFFICES ASSUME Bad # {} PROVE FALSE
    OBVIOUS
  <2>1. PICK i \in Bad : \A j \in Bad : i =< j
    <3>1. Bad \in SUBSET Nat
      OBVIOUS
    <3> HIDE DEF Bad
    <3> QED
      BY <3>1, LeastCounterexample
  <2>2. i \in 1..n /\ f[i] \notin V
    OBVIOUS
  <2>3. CASE i = 1
    BY <1>11, <2>2, <2>3 DEF V
  <2>4. CASE i # 1
    <3>1. i - 1 \in 1..n /\ i - 1 \notin Bad
      <4>1. i - 1 \in 1..n /\ ~(i =< i - 1)
        BY <2>2, <2>4
      <4> QED
        BY <2>1, <4>1
    <3> QED
      BY <1>1, <1>11, <2>2, <2>4, <3>1
  <2> QED
    BY <2>3, <2>4
<1>13. f = [i \in 1..n |-> f[i]]
  BY <1>8
<1>14. f \in [1..n -> Seq(U)]
  BY <1>12, <1>13 DEF V
<1>15. f[1] = seqs[1] /\ \A i \in 2..n : f[i] = f[i - 1] \o seqs[i]
  <2>1. 1 \in 1..n /\ \A i \in 2..n : i \in 1..n /\ i # 1
    OBVIOUS
  <2> QED
    BY <1>11, <2>1
<1> QED
  BY <1>10, <1>14, <1>15 DEF Flattens

LEMMA Joined ==
  ASSUME NEW U, NEW s \in Seq(U), NEW t \in Seq(U)
  PROVE  /\ Len(s) \in Nat /\ Len(t) \in Nat /\ Len(s \o t) = Len(s) + Len(t)
         /\ DOMAIN (s \o t) = 1..(Len(s) + Len(t))
         /\ \A q \in 1..Len(s) : (s \o t)[q] = s[q]
         /\ \A q \in 1..Len(t) : (s \o t)[Len(s) + q] = t[q]
<1>1. Len(s) \in Nat /\ Len(t) \in Nat /\ Len(s \o t) = Len(s) + Len(t)
  OBVIOUS
<1>2. DOMAIN (s \o t) = 1..(Len(s) + Len(t))
  OBVIOUS
<1>3. ASSUME NEW q \in 1..Len(s) PROVE (s \o t)[q] = s[q]
  OBVIOUS
<1>4. ASSUME NEW q \in 1..Len(t) PROVE (s \o t)[Len(s) + q] = t[q]
  OBVIOUS
<1> QED
  BY <1>1, <1>2, <1>3, <1>4

(* Joining loses nothing and adds nothing; and while no part up to one holds *)
(* more than b of the items of P, none of that one comes after more of them *)
(* than b for each part up to it.                                          *)
Among(s, P) == {r \in DOMAIN s : s[r] \in P}
UpTo(s, q, P) == {r \in Among(s, P) : r =< q}
Carries(flat, seqs, n, b, P, U) ==
  /\ flat \in Seq(U)
  /\ \A i \in 1..n : \A p \in DOMAIN seqs[i] : \E q \in DOMAIN flat :
       /\ flat[q] = seqs[i][p]
       /\ (\A j \in 1..i : Cardinality(Among(seqs[j], P)) =< b) => Cardinality(UpTo(flat, q, P)) =< i * b
  /\ \A q \in DOMAIN flat : \E i \in 1..n : \E p \in DOMAIN seqs[i] : flat[q] = seqs[i][p]

LEMMA AmongFinite ==
  ASSUME NEW U, NEW s \in Seq(U), NEW P, NEW q \in Int
  PROVE  /\ IsFiniteSet(Among(s, P)) /\ Cardinality(Among(s, P)) \in Nat
         /\ Cardinality(UpTo(s, q, P)) \in Nat
         /\ Cardinality(UpTo(s, q, P)) =< Cardinality(Among(s, P))
<1>1. DOMAIN s = 1..Len(s) /\ Len(s) \in Int /\ 1 \in Int
  OBVIOUS
<1>2. IsFiniteSet(DOMAIN s)
  BY <1>1, FS_Interval
<1>3. Among(s, P) \in SUBSET (DOMAIN s) /\ UpTo(s, q, P) \in SUBSET Among(s, P)
  BY DEF Among, UpTo
<1>4. IsFiniteSet(Among(s, P))
  BY <1>2, <1>3, FS_Subset
<1>5. IsFiniteSet(UpTo(s, q, P)) /\ Cardinality(UpTo(s, q, P)) =< Cardinality(Among(s, P))
  BY <1>3, <1>4, FS_Subset
<1> QED
  BY <1>4, <1>5, FS_CardinalityType

LEMMA AmongJoined ==
  ASSUME NEW U, NEW s \in Seq(U), NEW t \in Seq(U), NEW P
  PROVE  /\ Cardinality(Among(s \o t, P)) =< Cardinality(Among(s, P)) + Cardinality(Among(t, P))
         /\ \A q \in DOMAIN s : UpTo(s \o t, q, P) = UpTo(s, q, P)
<1> DEFINE l == Len(s)
           A == Among(s, P)
           B == Among(t, P)
           f == [r \in B |-> l + r]
           C == {r \in Among(s \o t, P) : r > l}
<1>1. /\ l \in Nat /\ Len(t) \in Nat /\ DOMAIN s = 1..l /\ DOMAIN t = 1..Len(t)
      /\ DOMAIN (s \o t) = 1..(l + Len(t))
      /\ \A q \in 1..l : (s \o t)[q] = s[q]
      /\ \A q \in 1..Len(t) : (s \o t)[l + q] = t[q]
  BY Joined
<1>2. s \o t \in Seq(U)
  OBVIOUS
<1>3. /\ IsFiniteSet(A) /\ Cardinality(A) \in Nat /\ IsFiniteSet(B) /\ Cardinality(B) \in Nat
  BY AmongFinite
<1> HIDE DEF l
<1>4. Among(s \o t, P) = A \cup C /\ A \cap C = {}
  <2>1. ASSUME NEW r \in DOMAIN (s \o t), ~(r > l) PROVE r \in DOMAIN s /\ (s \o t)[r] = s[r]
    BY <1>1, <2>1
  <2>2. ASSUME NEW r \in DOMAIN s PROVE r \in DOMAIN (s \o t) /\ (s \o t)[r] = s[r] /\ ~(r > l)
    BY <1>1
  <2> QED
    BY <2>1, <2>2 DEF Among
<1>5. C \subseteq {f[r] : r \in B}
  <2> SUFFICES ASSUME NEW r \in C PROVE r \in {f[x] : x \in B}
    OBVIOUS
  <2>1. r \in 1..(l + Len(t)) /\ r > l /\ (s \o t)[r] \in P
    BY <1>1 DEF Among
  <2>2. r - l \in 1..Len(t) /\ l + (r - l) = r
    BY <1>1, <2>1
  <2>3. t[r - l] = (s \o t)[r]
    BY <1>1, <2>2
  <2>4. r - l \in B
    BY <1>1, <2>1, <2>2, <2>3 DEF Among
  <2> QED
    BY <2>2, <2>4
<1>6. IsFiniteSet(C) /\ Cardinality(C) =< Cardinality(B)
  <2> DEFINE T == {f[r] : r \in B}
  <2>1. f \in Surjection(B, T)
    BY DEF Surjection
  <2> HIDE DEF f, A, B, C
  <2>2. IsFiniteSet(T) /\ Cardinality(T) =< Cardinality(B)
    BY <1>3, <2>1, FS_Surjection
  <2>3. IsFiniteSet(C) /\ Cardinality(C) =< Cardinality(T)
    BY <1>5, <2>2, FS_Subset
  <2> QED
    BY <1>3, <2>2, <2>3, FS_CardinalityType
<1>7. Cardinality(Among(s \o t, P)) =< Cardinality(A) + Cardinality(B)
  <2> HIDE DEF A, B, C
  <2>1. Cardinality(A \cup C) = Cardinality(A) + Cardinality(C)
    BY <1>3, <1>4, <1>6, CountApart
  <2> QED
    BY <1>3, <1>4, <1>6, <2>1, FS_CardinalityType
<1>8. ASSUME NEW q \in DOMAIN s PROVE UpTo(s \o t, q, P) = UpTo(s, q, P)
  <2>1. q \in 1..l
    BY <1>1
  <2>2. \A r \in Among(s \o t, P) : r =< q => r \in A
    BY <1>1, <1>4, <2>1 DEF Among
  <2>3. A \subseteq Among(s \o t, P)
    BY <1>4
  <2> QED
    BY <2>2, <2>3 DEF UpTo
<1> QED
  BY <1>7, <1>8

LEMMA FlattenCarries ==
  ASSUME NEW U, NEW n \in Nat, NEW seqs \in [1..n -> Seq(U)], NEW b \in Nat, NEW P
  PROVE  Carries(FlattenSeq(seqs), seqs, n, b, P, U)
<1>1. CASE n = 0
  <2>1. seqs = << >> /\ Len(seqs) = 0
    BY <1>1
  <2>2. FlattenSeq(seqs) = << >>
    BY <2>1 DEF FlattenSeq
  <2> QED
    BY <1>1, <2>2 DEF Carries
<1>2. CASE n # 0
  <2>1. PICK f : Flattens(f, seqs, n, U)
    <3>1. n \in Nat \ {0}
      BY <1>2
    <3> QED
      BY <3>1, FlattenSolved
  <2>f. /\ f \in [1..n -> Seq(U)] /\ f[1] = seqs[1] /\ FlattenSeq(seqs) = f[n]
        /\ \A i \in 2..n : f[i] = f[i - 1] \o seqs[i]
    BY <2>1 DEF Flattens
  <2> DEFINE Thin(k) == \A j \in 1..k : Cardinality(Among(seqs[j], P)) =< b
             Kept(k) == Thin(k) => Cardinality(Among(f[k], P)) =< k * b
             Good(k) ==
               /\ Kept(k)
               /\ \A i \in 1..k : \A p \in DOMAIN seqs[i] : \E q \in DOMAIN f[k] :
                    f[k][q] = seqs[i][p] /\ (Thin(i) => Cardinality(UpTo(f[k], q, P)) =< i * b)
               /\ \A q \in DOMAIN f[k] : \E i \in 1..k : \E p \in DOMAIN seqs[i] : f[k][q] = seqs[i][p]
             Bad == {k \in 1..n : ~Good(k)}
  <2>c. ASSUME NEW k \in 1..n, NEW q \in DOMAIN f[k]
        PROVE  /\ Cardinality(UpTo(f[k], q, P)) \in Nat /\ Cardinality(Among(f[k], P)) \in Nat
               /\ Cardinality(UpTo(f[k], q, P)) =< Cardinality(Among(f[k], P))
    <3>1. f[k] \in Seq(U)
      BY <2>f
    <3>2. q \in Int
      BY <3>1
    <3> QED
      BY <3>1, <3>2, AmongFinite
  <2>2. Good(1)
    <3>1. 1 \in 1..n /\ 1 * b = b /\ f[1] = seqs[1]
      BY <1>2, <2>f
    <3>2. Kept(1)
      BY <3>1
    <3>3. \A q \in DOMAIN f[1] : Thin(1) => Cardinality(UpTo(f[1], q, P)) =< 1 * b
      <4> TAKE q \in DOMAIN f[1]
      <4>1. /\ Cardinality(UpTo(f[1], q, P)) \in Nat /\ Cardinality(Among(f[1], P)) \in Nat
            /\ Cardinality(UpTo(f[1], q, P)) =< Cardinality(Among(f[1], P))
        BY <2>c, <3>1
      <4> QED
        BY <3>1, <3>2, <4>1
    <3> HIDE DEF Thin
    <3> QED
      BY <3>1, <3>2, <3>3
  <2>3. ASSUME NEW k \in 2..n, Good(k - 1) PROVE Good(k)
    <3>1. k - 1 \in 1..n /\ k \in 1..n /\ k - 1 \in Nat /\ k \in Nat
      OBVIOUS
    <3>2. PICK s \in Seq(U), t \in Seq(U) : s = f[k - 1] /\ t = seqs[k] /\ f[k] = s \o t
      BY <2>f, <3>1
    <3>3. /\ Len(s) \in Nat /\ Len(t) \in Nat
          /\ DOMAIN s = 1..Len(s) /\ DOMAIN t = 1..Len(t) /\ DOMAIN f[k] = 1..(Len(s) + Len(t))
          /\ \A q \in 1..Len(s) : f[k][q] = s[q]
          /\ \A q \in 1..Len(t) : f[k][Len(s) + q] = t[q]
      <4>1. DOMAIN s = 1..Len(s) /\ DOMAIN t = 1..Len(t)
        BY <3>2
      <4>2. /\ Len(s) \in Nat /\ Len(t) \in Nat /\ Len(s \o t) = Len(s) + Len(t)
            /\ DOMAIN (s \o t) = 1..(Len(s) + Len(t))
            /\ \A q \in 1..Len(s) : (s \o t)[q] = s[q]
            /\ \A q \in 1..Len(t) : (s \o t)[Len(s) + q] = t[q]
        <5>1. s \in Seq(U) /\ t \in Seq(U)
          BY <3>2
        <5> QED
          BY <5>1, Joined
      <4> QED
        BY <3>2, <4>1, <4>2
    <3>4. Kept(k)
      <4> SUFFICES ASSUME Thin(k) PROVE Cardinality(Among(f[k], P)) =< k * b
        OBVIOUS
      <4>1. Thin(k - 1)
        BY <3>1
      <4>2. Cardinality(Among(s, P)) =< (k - 1) * b /\ Cardinality(Among(t, P)) =< b
        BY <2>3, <3>1, <3>2, <4>1
      <4>3. PICK j \in Nat : k = j + 1
        BY <3>1
      <4>4. k * b = j * b + b /\ (k - 1) * b = j * b /\ j * b \in Nat
        BY <4>3
      <4>5. Cardinality(Among(f[k], P)) =< Cardinality(Among(s, P)) + Cardinality(Among(t, P))
        BY <3>2, AmongJoined
      <4>6. /\ Cardinality(Among(s, P)) \in Nat /\ Cardinality(Among(t, P)) \in Nat
            /\ Cardinality(Among(f[k], P)) \in Nat
        <5>1. f[k] \in Seq(U) /\ 0 \in Int
          BY <2>f, <3>1
        <5> QED
          BY <3>2, <5>1, AmongFinite
      <4> QED
        BY <4>2, <4>4, <4>5, <4>6
    <3>5. ASSUME NEW i \in 1..k, NEW p \in DOMAIN seqs[i]
          PROVE  \E q \in DOMAIN f[k] :
                   f[k][q] = seqs[i][p] /\ (Thin(i) => Cardinality(UpTo(f[k], q, P)) =< i * b)
      <4>1. CASE i = k
        <5>1. p \in 1..Len(t) /\ f[k][Len(s) + p] = t[p]
          BY <3>2, <3>3, <3>5, <4>1
        <5>2. Len(s) + p \in DOMAIN f[k]
          <6>1. PICK a \in Nat, c \in Nat : a = Len(s) /\ c = Len(t) /\ p \in 1..c
            BY <3>3, <5>1
          <6>2. a + p \in 1..(a + c)
            BY <6>1
          <6> QED
            BY <3>3, <6>1, <6>2
        <5>3. Thin(i) => Cardinality(UpTo(f[k], Len(s) + p, P)) =< i * b
          <6>1. /\ Cardinality(UpTo(f[k], Len(s) + p, P)) \in Nat /\ Cardinality(Among(f[k], P)) \in Nat
                /\ Cardinality(UpTo(f[k], Len(s) + p, P)) =< Cardinality(Among(f[k], P))
            BY <2>c, <3>1, <5>2
          <6>2. i * b \in Int
            BY <3>1, <4>1
          <6> HIDE DEF Thin
          <6> QED
            BY <3>4, <4>1, <6>1, <6>2
        <5> HIDE DEF Thin
        <5> QED
          BY <3>2, <4>1, <5>1, <5>2, <5>3
      <4>2. CASE i # k
        <5>1. i \in 1..(k - 1)
          BY <4>2
        <5>2. PICK q \in DOMAIN s :
                s[q] = seqs[i][p] /\ (Thin(i) => Cardinality(UpTo(s, q, P)) =< i * b)
          <6> HIDE DEF Thin
          <6> QED
            BY <2>3, <3>2, <5>1
        <5>3. q \in DOMAIN f[k] /\ f[k][q] = s[q]
          BY <3>3
        <5>4. UpTo(f[k], q, P) = UpTo(s, q, P)
          <6>1. \A x \in DOMAIN s : UpTo(s \o t, x, P) = UpTo(s, x, P)
            BY AmongJoined
          <6> QED
            BY <3>2, <6>1
        <5> HIDE DEF Thin
        <5> QED
          BY <5>2, <5>3, <5>4
      <4> QED
        BY <4>1, <4>2
    <3>6. ASSUME NEW q \in DOMAIN f[k]
          PROVE  \E i \in 1..k : \E p \in DOMAIN seqs[i] : f[k][q] = seqs[i][p]
      <4>1. CASE q =< Len(s)
        <5>1. q \in DOMAIN s /\ f[k][q] = s[q]
          BY <3>3, <4>1
        <5>2. PICK i \in 1..(k - 1) : \E p \in DOMAIN seqs[i] : s[q] = seqs[i][p]
          BY <2>3, <3>2, <5>1
        <5>3. i \in 1..k
          BY <3>1
        <5> QED
          BY <5>1, <5>2, <5>3
      <4>2. CASE q > Len(s)
        <5>1. PICK p \in 1..Len(t) : q = Len(s) + p
          <6>1. q - Len(s) \in 1..Len(t) /\ q = Len(s) + (q - Len(s))
            BY <3>3, <4>2
          <6> QED
            BY <6>1
        <5>2. f[k][q] = t[p] /\ p \in DOMAIN seqs[k] /\ t[p] = seqs[k][p] /\ k \in 1..k
          BY <3>1, <3>2, <3>3, <5>1
        <5> QED
          BY <5>2
      <4> QED
        BY <3>3, <4>1, <4>2
    <3> HIDE DEF Thin, Kept
    <3> QED
      BY <3>4, <3>5, <3>6
  <2> HIDE DEF Good
  <2>4. Bad = {}
    <3> SUFFICES ASSUME Bad # {} PROVE FALSE
      OBVIOUS
    <3>1. PICK k \in Bad : \A j \in Bad : k =< j
      <4>1. Bad \in SUBSET Nat
        OBVIOUS
      <4> HIDE DEF Bad
      <4> QED
        BY <4>1, LeastCounterexample
    <3>2. k \in 2..n
      BY <2>2
    <3>3. k - 1 \in 1..n /\ k - 1 \notin Bad
      <4>1. k - 1 \in 1..n /\ ~(k =< k - 1)
        BY <3>2
      <4> QED
        BY <3>1, <4>1
    <3> QED
      BY <2>3, <3>2, <3>3
  <2>5. Good(n)
    <3>1. n \in 1..n
      BY <1>2
    <3> QED
      BY <2>4, <3>1
  <2> QED
    BY <1>2, <2>f, <2>5 DEF Good, Carries
<1> QED
  BY <1>1, <1>2

(* A record of a provider carries each vote of each justification in its    *)
(* window and none of another height; and up to the first height crowded   *)
(* past its committee, none comes after more open votes than the cap.      *)
Open == {v \in SignedVote : v.height > LastCreditedHeight /\ IsMember(v.height, ColdOf(v.signer))}

LEMMA OpenVotes ==
  ASSUME NEW s \in Seq(SignedVote)
  PROVE  Among(s, Open) = Fresh(s)
<1>1. \A i \in DOMAIN s : s[i] \in SignedVote
  OBVIOUS
<1> QED
  BY <1>1 DEF Among, Fresh, Open

LEMMA WindowShape ==
  ASSUME LastCreditedHeight \in Nat, NEW finalized \in 0..MaxBlock
  PROVE  \E top \in Int : /\ Window(finalized) = (LastCreditedHeight + 1)..top
                          /\ top =< finalized /\ top =< LastCreditedHeight + MaxHeightsPerRecord
<1>1. finalized \in Int /\ LastCreditedHeight + MaxHeightsPerRecord \in Int
  BY LengthAssumption DEF ParticipationParameters
<1> DEFINE m == Min({finalized, LastCreditedHeight + MaxHeightsPerRecord})
<1>2. m \in Int /\ m =< finalized /\ m =< LastCreditedHeight + MaxHeightsPerRecord
  BY <1>1, MinMaxOfTwo
<1> QED
  BY <1>2 DEF Window

LEMMA ProvidedWhole ==
  ASSUME LastCreditedHeight \in Nat, NEW store \in Stores, NEW finalized \in 0..MaxBlock
  PROVE  /\ Provided(store, finalized) \in Seq(SignedVote)
         /\ \A q \in DOMAIN Provided(store, finalized) :
              Provided(store, finalized)[q].height \in Window(finalized)
         /\ \A h \in Window(finalized) : \A p \in DOMAIN VotesForHeight(store, h) :
              VotesForHeight(store, h)[p].height = h
         /\ \A h \in Window(finalized) : \A p \in DOMAIN VotesForHeight(store, h) :
              (\A g \in (LastCreditedHeight + 1)..h : ~Crowded(store, g)) =>
                \E q \in DOMAIN Provided(store, finalized) :
                  /\ Provided(store, finalized)[q] = VotesForHeight(store, h)[p]
                  /\ Cardinality(UpTo(Provided(store, finalized), q, Open)) =< MaxVotesChecked
<1> DEFINE L == LastCreditedHeight
           M == MaxHeightsPerRecord
           C == MaxCommittee
           W == Window(finalized)
           n == Cardinality(W)
           seqs == [i \in 1..n |-> VotesForHeight(store, L + i)]
<1>1. M \in Nat /\ C \in Nat /\ MaxVotesChecked \in Nat /\ MaxBlock \in Nat
  BY LengthAssumption DEF ParticipationParameters
<1>2. PICK top \in Int : W = (L + 1)..top /\ top =< finalized /\ top =< L + M
  BY WindowShape
<1>3. n = (IF top >= L + 1 THEN top - L ELSE 0) /\ n \in Nat /\ n =< M
  <2>1. n = IF L + 1 > top THEN 0 ELSE top - (L + 1) + 1
    BY <1>2, FS_Interval
  <2> QED
    BY <1>1, <1>2, <2>1
<1>4. /\ \A i \in 1..n : L + i \in W
      /\ \A h \in W : \E i \in 1..n : h = L + i
      /\ \A h \in W : h \in 0..MaxBlock /\ h > L
  <2>1. \A i \in 1..n : L + i \in W
    BY <1>2, <1>3
  <2>2. ASSUME NEW h \in W PROVE \E i \in 1..n : h = L + i
    <3>1. h - L \in 1..n /\ h = L + (h - L)
      BY <1>2, <1>3
    <3> QED
      BY <3>1
  <2>3. \A h \in W : h \in 0..MaxBlock /\ h > L
    BY <1>1, <1>2
  <2> QED
    BY <2>1, <2>2, <2>3
<1> HIDE DEF W, n
<1>5. \A h \in W :
        /\ VotesForHeight(store, h) \in Seq(SignedVote)
        /\ \A p \in DOMAIN VotesForHeight(store, h) : VotesForHeight(store, h)[p].height = h
  <2> TAKE h \in W
  <2>1. CASE store[h] = None
    BY <2>1 DEF VotesForHeight
  <2>2. CASE store[h] # None
    <3>1. VotesForHeight(store, h) = store[h] /\ h \in 0..MaxBlock
      BY <1>4, <2>2 DEF VotesForHeight
    <3> QED
      BY <2>2, <3>1, StoreAssumption
  <2> QED
    BY <2>1, <2>2
<1>6. seqs \in [1..n -> Seq(SignedVote)] /\ \A i \in 1..n : seqs[i] = VotesForHeight(store, L + i)
  BY <1>4, <1>5
<1>7. ASSUME NEW h \in W, ~Crowded(store, h)
      PROVE  Cardinality(Among(VotesForHeight(store, h), Open)) =< C
  <2> DEFINE held == VotesForHeight(store, h)
             S == {i \in DOMAIN held : IsMember(h, ColdOf(held[i].signer))}
  <2>1. \A i \in DOMAIN held : held[i] \in SignedVote /\ held[i].height = h /\ h > L
    BY <1>4, <1>5
  <2>2. Among(held, Open) = S
    BY <2>1 DEF Among, Open
  <2>3. held \in Seq(SignedVote) /\ 0 \in Int
    BY <1>5
  <2>4. Cardinality(Among(held, Open)) \in Nat
    BY <2>3, AmongFinite
  <2>5. ~(Cardinality(S) > C)
    BY <1>7 DEF Crowded
  <2> HIDE DEF held, S
  <2>6. Cardinality(Among(held, Open)) =< C
    BY <1>1, <2>2, <2>4, <2>5
  <2> QED
    BY <2>6 DEF held
<1>8. Provided(store, finalized) = FlattenSeq(seqs)
  BY DEF Provided, n, W
<1> HIDE DEF seqs
<1>9. /\ FlattenSeq(seqs) \in Seq(SignedVote)
      /\ \A i \in 1..n : \A p \in DOMAIN seqs[i] : \E q \in DOMAIN FlattenSeq(seqs) :
           /\ FlattenSeq(seqs)[q] = seqs[i][p]
           /\ (\A j \in 1..i : Cardinality(Among(seqs[j], Open)) =< C) =>
                Cardinality(UpTo(FlattenSeq(seqs), q, Open)) =< i * C
      /\ \A q \in DOMAIN FlattenSeq(seqs) :
           \E i \in 1..n : \E p \in DOMAIN seqs[i] : FlattenSeq(seqs)[q] = seqs[i][p]
  <2>1. Carries(FlattenSeq(seqs), seqs, n, C, Open, SignedVote)
    BY <1>1, <1>3, <1>6, FlattenCarries
  <2> QED
    BY <2>1 DEF Carries
<1>10. ASSUME NEW i \in 1..n PROVE i * C =< MaxVotesChecked
  <2>1. PICK d \in Nat : M = i + d
    <3>1. M - i \in Nat /\ M = i + (M - i)
      BY <1>1, <1>3
    <3> QED
      BY <3>1
  <2>2. M * C = i * C + d * C /\ i * C \in Nat /\ d * C \in Nat
    BY <1>1, <1>3, <2>1
  <2> QED
    BY <1>1, <2>2, WindowAssumption
<1>11. ASSUME NEW h \in W, NEW p \in DOMAIN VotesForHeight(store, h),
              \A g \in (L + 1)..h : ~Crowded(store, g)
       PROVE  \E q \in DOMAIN FlattenSeq(seqs) :
                /\ FlattenSeq(seqs)[q] = VotesForHeight(store, h)[p]
                /\ Cardinality(UpTo(FlattenSeq(seqs), q, Open)) =< MaxVotesChecked
  <2>1. PICK i \in 1..n : h = L + i
    BY <1>4
  <2>2. seqs[i] = VotesForHeight(store, h)
    BY <1>6, <2>1
  <2>3. PICK q \in DOMAIN FlattenSeq(seqs) :
          /\ FlattenSeq(seqs)[q] = seqs[i][p]
          /\ (\A j \in 1..i : Cardinality(Among(seqs[j], Open)) =< C) =>
               Cardinality(UpTo(FlattenSeq(seqs), q, Open)) =< i * C
    BY <1>9, <2>2
  <2>4. ASSUME NEW j \in 1..i PROVE Cardinality(Among(seqs[j], Open)) =< C
    <3>1. j \in 1..n /\ L + j \in (L + 1)..h
      BY <1>3, <2>1
    <3>2. L + j \in W /\ seqs[j] = VotesForHeight(store, L + j) /\ ~Crowded(store, L + j)
      BY <1>4, <1>6, <1>11, <3>1
    <3> QED
      BY <1>7, <3>2
  <2>5. Cardinality(UpTo(FlattenSeq(seqs), q, Open)) =< i * C
    BY <2>3, <2>4
  <2>6. Cardinality(UpTo(FlattenSeq(seqs), q, Open)) \in Nat
    <3>1. q \in Int
      BY <1>9
    <3> QED
      BY <1>9, <3>1, AmongFinite
  <2>7. i * C =< MaxVotesChecked /\ i * C \in Int
    BY <1>1, <1>3, <1>10
  <2>8. Cardinality(UpTo(FlattenSeq(seqs), q, Open)) =< MaxVotesChecked
    BY <1>1, <2>5, <2>6, <2>7
  <2> QED
    BY <2>2, <2>3, <2>8
<1>12. ASSUME NEW q \in DOMAIN FlattenSeq(seqs)
       PROVE  FlattenSeq(seqs)[q].height \in W
  <2>1. PICK i \in 1..n : \E p \in DOMAIN seqs[i] : FlattenSeq(seqs)[q] = seqs[i][p]
    BY <1>9
  <2>2. PICK p \in DOMAIN seqs[i] : FlattenSeq(seqs)[q] = seqs[i][p]
    BY <2>1
  <2>3. L + i \in W /\ seqs[i] = VotesForHeight(store, L + i)
    BY <1>4, <1>6
  <2>4. seqs[i][p].height = L + i
    BY <1>5, <2>3
  <2> QED
    BY <2>2, <2>3, <2>4
<1> QED
  BY <1>5, <1>8, <1>9, <1>11, <1>12 DEF W

(* Every record speaks of blocks within the bound.                         *)
LEMMA RecordHeights ==
  ASSUME LastCreditedHeight \in Nat, number \in 0..MaxBlock, NEW record \in Records
  PROVE  /\ record.votes \in Seq(SignedVote)
         /\ \A i \in DOMAIN record.votes : record.votes[i].height \in 0..MaxBlock
<1>1. CASE record \in [author : Keys \cup {None}, votes : Ballots]
  <2>1. record.votes \in Ballots
    BY <1>1
  <2>2. record.votes \in Seq(SignedVote) /\ \A i \in DOMAIN record.votes : record.votes[i].height =< MaxBlock
    BY <2>1, EraAssumption
  <2>3. \A i \in DOMAIN record.votes : record.votes[i].height \in Nat
    <3>1. \A i \in DOMAIN record.votes : record.votes[i] \in SignedVote
      BY <2>2
    <3> QED
      BY <3>1 DEF SignedVote
  <2> QED
    BY <2>2, <2>3, LengthAssumption
<1>2. CASE record \in Honest
  <2>1. PICK store \in Stores, finalized \in 0..(number - 1), key \in Keys \cup {None} :
          record = ProviderFor(store, finalized, key)
    BY <1>2 DEF Honest
  <2>2. finalized \in 0..MaxBlock
    BY LengthAssumption
  <2>3. record.votes = Provided(store, finalized)
    BY <2>1 DEF ProviderFor
  <2>4. PICK top \in Int : Window(finalized) = (LastCreditedHeight + 1)..top /\ top =< finalized
    BY <2>2, WindowShape
  <2>5. /\ Provided(store, finalized) \in Seq(SignedVote)
        /\ \A q \in DOMAIN Provided(store, finalized) :
             Provided(store, finalized)[q].height \in Window(finalized)
    BY <2>2, ProvidedWhole
  <2>6. Window(finalized) \subseteq 0..MaxBlock
    BY <2>2, <2>4, LengthAssumption
  <2> QED
    BY <2>3, <2>5, <2>6
<1> QED
  BY <1>1, <1>2 DEF Records

-----------------------------------------------------------------------------
(* The cursor is at or above every vote credited, and authorship is        *)
(* credited by the record of the block itself, once it is noted.           *)
CursorCovers ==
  /\ number \in 0..MaxBlock /\ LastCreditedHeight \in Nat
  /\ \A c \in ledger : c.block \in Nat
  /\ \A c \in ledger : c.what = "vote" => c.height \in Int /\ c.height =< LastCreditedHeight
  /\ \A c \in ledger : c.what = "author" =>
       /\ c.height = c.block /\ c.block =< number
       /\ c.block = number => NotedThisBlock
  /\ \A c \in ledger : c.what \in {"vote", "author"}
  /\ CreditedOnce

LEMMA CursorCoversInit == Init => CursorCovers
BY LengthAssumption DEF Init, InitParticipation, CursorCovers, CreditedOnce

(* What a record counts lies above the cursor before it and not above the  *)
(* cursor after it.                                                        *)
LEMMA CountedAbove ==
  ASSUME NEW record, \A i \in DOMAIN record.votes : record.votes[i].height \in Int,
         NoteParticipation(record)
  PROVE  /\ LastCreditedHeight \in Int => LastCreditedHeight' \in Int
         /\ LastCreditedHeight =< LastCreditedHeight'
         /\ \A c \in Counted(record.votes) :
              c[1] \in Int /\ LastCreditedHeight < c[1] /\ c[1] =< LastCreditedHeight'
<1> DEFINE heights == {LastCreditedHeight} \cup {c[1] : c \in Counted(record.votes)}
<1>1. ASSUME NEW c \in Counted(record.votes)
      PROVE  c[1] \in Int /\ LastCreditedHeight < c[1]
  <2>1. PICK i \in Genuine(record.votes) :
          c = <<record.votes[i].height, ColdOf(record.votes[i].signer)>>
    BY DEF Counted
  <2>2. c[1] = record.votes[i].height
    BY <2>1
  <2>3. i \in DOMAIN record.votes /\ record.votes[i].height > LastCreditedHeight
    BY DEF Genuine, Checked, Fresh
  <2> QED
    BY <2>2, <2>3
<1>2. LastCreditedHeight' \in heights /\ \A g \in heights : g =< LastCreditedHeight'
  BY DEF NoteParticipation, AdvanceCursor
<1> QED
  BY <1>1, <1>2

LEMMA CursorCoversNote ==
  ASSUME CursorCovers, NEW record \in Records, Note(record)
  PROVE  CursorCovers'
<1>1. /\ \A i \in DOMAIN record.votes : record.votes[i].height \in Int
      /\ NoteParticipation(record)
      /\ ledger' = ledger \cup Votes(record) \cup Authorship(record)
  <2>1. \A i \in DOMAIN record.votes : record.votes[i].height \in 0..MaxBlock
    BY RecordHeights DEF CursorCovers
  <2> QED
    BY <2>1 DEF Note
<1>2. /\ LastCreditedHeight' \in Nat /\ LastCreditedHeight =< LastCreditedHeight'
      /\ \A c \in Counted(record.votes) :
           c[1] \in Int /\ LastCreditedHeight < c[1] /\ c[1] =< LastCreditedHeight'
  BY <1>1, CountedAbove DEF CursorCovers
<1>3. number' = number /\ number \in Nat /\ ~NotedThisBlock /\ NotedThisBlock'
  BY <1>1 DEF NoteParticipation, CursorCovers
<1>4. \A c \in Votes(record) :
        /\ c.what = "vote" /\ c.block = number
        /\ c.height \in Int /\ LastCreditedHeight < c.height /\ c.height =< LastCreditedHeight'
        /\ c = [what |-> "vote", height |-> c.height, who |-> c.who, block |-> number]
  BY <1>2 DEF Votes
<1>5. \A c \in Authorship(record) :
        /\ c.what = "author" /\ c.block = number /\ c.height = number
        /\ c = [what |-> "author", height |-> number, who |-> c.who, block |-> number]
  BY DEF Authorship
<1>6. ASSUME NEW c \in ledger', c.what = "vote"
      PROVE  c.height \in Int /\ c.height =< LastCreditedHeight'
  BY <1>1, <1>2, <1>4, <1>5, <1>6 DEF CursorCovers
<1>7. ASSUME NEW c \in ledger', c.what = "author"
      PROVE  c.height = c.block /\ c.block =< number
  BY <1>1, <1>3, <1>4, <1>5, <1>7 DEF CursorCovers
<1>8. CreditedOnce'
  <2> SUFFICES ASSUME NEW c \in ledger', NEW d \in ledger',
                      c.what = d.what, c.height = d.height, c.who = d.who
               PROVE  c = d
    BY DEF CreditedOnce
  <2>1. CASE c \in ledger /\ d \in ledger
    BY <2>1 DEF CursorCovers, CreditedOnce
  <2>2. ASSUME NEW e \in ledger, NEW f \in Votes(record),
               e.what = f.what, e.height = f.height PROVE FALSE
    BY <1>4, <2>2 DEF CursorCovers
  <2>3. ASSUME NEW e \in ledger, NEW f \in Authorship(record),
               e.what = f.what, e.height = f.height PROVE FALSE
    BY <1>3, <1>5, <2>3 DEF CursorCovers
  <2>4. CASE c \notin ledger /\ d \notin ledger
    BY <1>1, <1>4, <1>5, <2>4
  <2> QED
    BY <1>1, <2>1, <2>2, <2>3, <2>4
<1>9. \A c \in ledger' : c.block \in Nat /\ c.what \in {"vote", "author"}
  BY <1>1, <1>3, <1>4, <1>5 DEF CursorCovers
<1> QED
  BY <1>2, <1>3, <1>6, <1>7, <1>8, <1>9 DEF CursorCovers

LEMMA CursorCoversOpen ==
  ASSUME CursorCovers, OpenBlock
  PROVE  CursorCovers'
<1>1. /\ number' = number + 1 /\ UNCHANGED <<LastCreditedHeight, ledger>>
      /\ number' \in 0..MaxBlock
  BY LengthAssumption DEF OpenBlock, OnInitialize, history, CursorCovers
<1>2. ASSUME NEW c \in ledger', c.what = "author"
      PROVE  c.height = c.block /\ c.block =< number' /\ c.block # number'
  BY <1>1, <1>2 DEF CursorCovers
<1> QED
  BY <1>1, <1>2 DEF CursorCovers, CreditedOnce

LEMMA CursorCoversStep ==
  ASSUME CursorCovers, [Next]_vars
  PROVE  CursorCovers'
<1>1. CASE OpenBlock
  BY <1>1, CursorCoversOpen
<1>2. ASSUME NEW record \in Records, Note(record) PROVE CursorCovers'
  BY <1>2, CursorCoversNote
<1>3. CASE UNCHANGED <<number, noted, ledger>>
  BY <1>3 DEF CursorCovers, CreditedOnce, noted
<1>4. ASSUME NEW hot \in Keys, Beat(hot) PROVE UNCHANGED <<number, noted, ledger>>
  BY <1>4 DEF Beat, participation
<1>5. ASSUME NEW who \in Accounts, NEW key \in Keys, Bind(who, key)
      PROVE  UNCHANGED <<number, noted, ledger>>
  BY <1>5 DEF Bind, participation, history
<1>6. ASSUME NEW who \in Accounts, Unbind(who) PROVE UNCHANGED <<number, noted, ledger>>
  BY <1>6 DEF Unbind, participation, history
<1>7. CASE CloseBlock
  BY <1>3, <1>7 DEF CloseBlock
<1>8. CASE UNCHANGED vars
  BY <1>3, <1>8 DEF vars, participation, history
<1> QED
  BY <1>1, <1>2, <1>3, <1>4, <1>5, <1>6, <1>7, <1>8 DEF Next

(* No height is credited twice to an account, and no block twice to an     *)
(* author, whatever the records carry and however keys are bound.          *)
THEOREM CreditsAreUnique == Spec => []CreditedOnce
<1>1. CursorCovers /\ [Next]_vars => CursorCovers'
  BY CursorCoversStep
<1>2. CursorCovers => CreditedOnce
  BY DEF CursorCovers
<1> QED
  BY <1>1, <1>2, CursorCoversInit, PTL DEF Spec

-----------------------------------------------------------------------------
(* The emission of a coin, for every curve whose tranches fit under its cap, *)
(* and the two curves of the live runtime.                                 *)

(* Decaying, as the doc of EmissionCurve asks of its caller. *)
IsCurve(c) ==
    /\ c.initial \in Nat /\ c.cap \in Nat /\ c.era_length \in Nat
    /\ c.decay_num \in Nat \ {0} /\ c.decay_den \in Nat /\ c.decay_num < c.decay_den

(* What is still to come fits under what is left of the cap. *)
Fits(r, m) == r * Curve.decay_den =< (Curve.cap - m) * (Curve.decay_den - Curve.decay_num)
RestFits ==
    /\ epoch \in Nat /\ reward \in Nat /\ minted \in Nat
    /\ Fits(reward, minted)

-----------------------------------------------------------------------------
(* If the sum of a decaying series fits into a room, its first term does. *)
LEMMA FirstFits ==
    ASSUME NEW r \in Nat, NEW room \in Int, NEW num \in Nat \ {0}, NEW den \in Nat,
           num < den, r * den =< room * (den - num)
    PROVE  r =< room
<1>1. room >= 0
  <2>1. r * den >= 0
    OBVIOUS
  <2>2. ASSUME room < 0 PROVE room * (den - num) < 0
    BY <2>2
  <2> QED
    BY <2>1, <2>2
<1>2. room * (den - num) =< room * den
  BY <1>1
<1>3. r * den =< room * den
  BY <1>2
<1> QED
  BY <1>1, <1>3

(* Take the first term out of the room, and the rest still fits: rounding    *)
(* down only helps.                                                          *)
LEMMA RestAfterFirst ==
    ASSUME NEW r \in Nat, NEW room \in Int, NEW num \in Nat \ {0}, NEW den \in Nat,
           num < den, r * den =< room * (den - num),
           NEW taken \in 0..r, NEW next \in Nat, next * den =< r * num
    PROVE  next * den =< (room - taken) * (den - num)
<1>1. r * num = r * den - r * (den - num)
  OBVIOUS
<1>2. taken * (den - num) =< r * (den - num)
  OBVIOUS
<1>3. (room - taken) * (den - num) = room * (den - num) - taken * (den - num)
  OBVIOUS
<1> QED
  BY <1>1, <1>2, <1>3

LEMMA DecayedRoundsDown ==
    ASSUME IsCurve(Curve), NEW r \in Nat
    PROVE  Decayed(r) \in Nat /\ Decayed(r) * Curve.decay_den =< r * Curve.decay_num
<1> DEFINE num == Curve.decay_num  den == Curve.decay_den
<1>1. num \in Nat /\ den \in Nat \ {0} /\ r * num \in Nat
  BY DEF IsCurve
<1>2. \A p \in Nat, d \in Nat \ {0} : p \div d \in Nat /\ (p \div d) * d =< p
  OBVIOUS
<1> QED
  BY <1>1, <1>2 DEF Decayed

LEMMA TrancheOfFit ==
    ASSUME IsCurve(Curve), RestFits
    PROVE  NeverCut
<1>1. reward =< Curve.cap - minted
  BY FirstFits DEF RestFits, Fits, IsCurve
<1>2. Curve.cap \in Nat /\ minted \in Nat /\ reward \in Nat
  BY DEF IsCurve, RestFits
<1> QED
  BY <1>1, <1>2 DEF NeverCut, Tranche, MinOf

LEMMA RestFitsInit == IsCurve(Curve) /\ Genesis \in Nat /\ Closed /\ EmissionInit => RestFits
BY DEF IsCurve, Closed, EmissionInit, FirstTranche, RestFits, Fits

LEMMA RestFitsStep ==
    ASSUME IsCurve(Curve), Closed, RestFits, MintEra
    PROVE  RestFits'
<1>1. Tranche = reward
  BY TrancheOfFit DEF NeverCut
<1>2. PICK taken \in 0..reward : minted' = minted + taken
  <2>1. minted' \in minted..(minted + reward) /\ minted \in Nat /\ reward \in Nat
    BY <1>1 DEF MintEra, RestFits
  <2> QED
    BY <2>1
<1>3. Decays
  <2>1. (epoch + 1) % 1 = 0
    BY DEF RestFits
  <2> QED
    BY <2>1 DEF Decays, Closed, IsCurve
<1>4. reward' = Decayed(reward)
  BY <1>3 DEF MintEra
<1>5. reward' \in Nat /\ reward' * Curve.decay_den =< reward * Curve.decay_num
  BY <1>4, DecayedRoundsDown DEF RestFits
<1>6. reward' * Curve.decay_den =< ((Curve.cap - minted) - taken) * (Curve.decay_den - Curve.decay_num)
  <2> DEFINE room == Curve.cap - minted
  <2>1. room \in Int /\ reward \in Nat /\ reward * Curve.decay_den =< room * (Curve.decay_den - Curve.decay_num)
    BY DEF RestFits, Fits, IsCurve
  <2>2. /\ Curve.decay_num \in Nat \ {0} /\ Curve.decay_den \in Nat
        /\ Curve.decay_num < Curve.decay_den
    BY DEF IsCurve
  <2> HIDE DEF room
  <2>3. reward' * Curve.decay_den =< (room - taken) * (Curve.decay_den - Curve.decay_num)
    BY <1>5, <2>1, <2>2, RestAfterFirst
  <2> QED
    BY <2>3 DEF room
<1>7. (Curve.cap - minted) - taken = Curve.cap - minted' /\ minted' \in Nat
  BY <1>2 DEF RestFits, IsCurve
<1>8. epoch' \in Nat
  BY DEF MintEra, RestFits
<1> QED
  BY <1>5, <1>6, <1>7, <1>8 DEF RestFits, Fits

(* A closed curve is never cut: every era of the future has its whole        *)
(* tranche, whoever was there to take those of the past, so no generation    *)
(* finds the cap spent before the schedule is over.                          *)
THEOREM ClosedCurveNeverCut ==
    IsCurve(Curve) /\ Genesis \in Nat /\ Closed => (EmissionSpec => [](NeverCut /\ minted =< Curve.cap))
<1> SUFFICES ASSUME IsCurve(Curve), Genesis \in Nat, Closed
             PROVE  EmissionSpec => [](NeverCut /\ minted =< Curve.cap)
  OBVIOUS
<1>1. EmissionInit => RestFits
  BY RestFitsInit
<1>2. RestFits /\ [MintEra]_emission => RestFits'
  <2>1. CASE MintEra
    BY <2>1, RestFitsStep
  <2>2. CASE UNCHANGED emission
    BY <2>2 DEF emission, RestFits, Fits
  <2> QED
    BY <2>1, <2>2
<1>3. RestFits => NeverCut /\ minted =< Curve.cap
  <2>1. ASSUME RestFits PROVE reward =< Curve.cap - minted
    BY <2>1, FirstFits DEF RestFits, Fits, IsCurve
  <2> QED
    BY <2>1, TrancheOfFit DEF RestFits, IsCurve
<1> QED
  BY <1>1, <1>2, <1>3, PTL DEF EmissionSpec

-----------------------------------------------------------------------------
(* The curves that go live are closed, to the last unit, whatever a unit is: *)
(* the launch endows nobody, so all of the cap is there to be emitted.       *)
THEOREM LiveCurvesAreClosed ==
    ASSUME NEW unit \in Nat \ {0}, Genesis = 0,
           Curve \in {HlqCurve("mainnet", unit), SovCurve("mainnet", unit)}
    PROVE  IsCurve(Curve) /\ Closed
<1>1. CASE Curve = HlqCurve("mainnet", unit)
  <2>1. Curve = [initial |-> 33750000 * unit, decay_num |-> 15, decay_den |-> 16,
                 era_length |-> 1, cap |-> 540000000 * unit]
    BY <1>1 DEF HlqCurve, By
  <2> QED
    BY <2>1 DEF IsCurve, Closed
<1>2. CASE Curve = SovCurve("mainnet", unit)
  <2>1. Curve = [initial |-> 13500000 * unit, decay_num |-> 3, decay_den |-> 4,
                 era_length |-> 1, cap |-> 54000000 * unit]
    BY <1>2 DEF SovCurve, By
  <2> QED
    BY <2>1 DEF IsCurve, Closed
<1> QED
  BY <1>1, <1>2

(* An era ends with an epoch, a day and a committee, so none of them         *)
(* straddles two eras and no service is lost or paid in the wrong one.       *)
THEOREM ErasEndEpochs ==
    ASSUME NEW build \in Builds, NEW n \in Nat, n % TokensConfig(build).EraLength = 0
    PROVE  /\ n % ReputationConfig(build).EpochLength = 0
           /\ n % HostingConfig(build).DayLength = 0
           /\ n % CommitteeOnChain(build).EpochLength = 0
<1>1. CASE build = "mainnet"
  <2>1. n % 1317600 = 0 => n % 7200 = 0 /\ n % 300 = 0
    OBVIOUS
  <2> QED
    BY <1>1, <2>1 DEF TokensConfig, ReputationConfig, HostingConfig, CommitteeOnChain, By
<1>2. CASE build = "testnet"
  <2>1. n % 10 = 0 => n % 2 = 0
    OBVIOUS
  <2> QED
    BY <1>2, <2>1 DEF TokensConfig, ReputationConfig, HostingConfig, CommitteeOnChain, By
<1> QED
  BY <1>1, <1>2 DEF Builds

-----------------------------------------------------------------------------
(* The books of the service: what was credited in an epoch is in its       *)
(* counters until the epoch ends, then in its era until that is paid.      *)
OfEpoch(L, a, p) == {c \in L : c.who = a /\ c.block \div EpochLength = p}
Past(L, a, p) == {c \in L : c.who = a /\ c.block \div EpochLength < p}
Folded(L, a, era, p) ==
  {c \in L : c.who = a /\ c.block \div EraLength = era /\ c.block \div EpochLength < p}

Clock ==
  /\ number \in 0..MaxBlock /\ closed \in BOOLEAN /\ NotedThisBlock \in BOOLEAN
  /\ CurrentEpoch = number \div EpochLength
  /\ number = 0 => closed
  /\ Epoch = IF closed THEN number \div EraLength ELSE (number - 1) \div EraLength

BooksTyped ==
  /\ AuthoredInEpoch \in Counters /\ FinalityVotesInEpoch \in Counters
  /\ EraServiceAccumulator \in Counters /\ paid \in Counters /\ Evidence \in [Accounts -> Nat]
  /\ CommitteeForEpoch \in [Periods -> (SUBSET Accounts) \cup {None}]
  /\ LastCreditedHeight \in Nat /\ IsFiniteSet(ledger)
  /\ \A c \in ledger : c.block \in 0..number /\ (c.block = number => NotedThisBlock)

ServiceInv ==
  /\ Clock /\ BooksTyped
  /\ \A p \in Periods, a \in Accounts :
       AuthoredInEpoch[p][a] + FinalityVotesInEpoch[p][a] =
         IF p < CurrentEpoch THEN 0 ELSE Cardinality(OfEpoch(ledger, a, p))
  /\ \A era \in Periods, a \in Accounts :
       /\ EraServiceAccumulator[era][a] + paid[era][a]
            = Cardinality(Folded(ledger, a, era, CurrentEpoch))
       /\ era < Epoch => EraServiceAccumulator[era][a] = 0
       /\ era >= Epoch => paid[era][a] = 0
  /\ \A a \in Accounts :
       Evidence[a] = ServiceEvidenceRate * Cardinality(Past(ledger, a, CurrentEpoch))
  /\ ServiceEvidenceRate > 0 => ServiceCreditCursor = CurrentEpoch

LEMMA Lengths ==
  /\ EpochLength \in Nat \ {0} /\ EraLength \in Nat \ {0} /\ CommitteeEpochLength \in Nat \ {0}
  /\ DayLength \in Nat \ {0} /\ MaxBlock \in Nat /\ MaxStreak \in Nat
  /\ MinStreakDays \in Nat /\ MaxGapDays \in Nat /\ MaxHostsPerEra \in Nat
  /\ EraLength % EpochLength = 0 /\ EraLength % DayLength = 0 /\ ServiceEvidenceRate \in Nat
BY LengthAssumption, HostingAssumption, EraAssumption DEF ParticipationParameters

LEMMA InPeriods ==
  ASSUME NEW d \in Nat \ {0}, NEW n \in 0..MaxBlock
  PROVE  n \div d \in Periods
<1>1. PICK q \in Nat, r \in 0..(d - 1) : n \div d = q /\ n = d * q + r
  OBVIOUS
<1>2. q =< d * q
  <2>1. PICK k \in Nat : d = k + 1
    <3>1. d - 1 \in Nat /\ d = (d - 1) + 1
      OBVIOUS
    <3> QED
      BY <3>1
  <2>2. d * q = k * q + q /\ k * q \in Nat
    BY <2>1
  <2> QED
    BY <2>2
<1> QED
  BY <1>1, <1>2, Lengths DEF Periods

LEMMA EraOfItsEpoch ==
  ASSUME NEW n \in Nat
  PROVE  EraOfEpoch(n \div EpochLength) = n \div EraLength
BY Lengths, PeriodInside DEF EraOfEpoch

-----------------------------------------------------------------------------
(* The weights of a set of epochs, summed by the fold of the runtime.      *)
LEMMA WeightSum ==
  ASSUME BooksTyped, NEW D \in SUBSET Periods, IsFiniteSet(D), NEW a \in Accounts
  PROVE  MapThenSumSet(LAMBDA e : ServiceWeights(e)[a], D)
           = Sum([e \in Periods |-> AuthoredInEpoch[e][a] + FinalityVotesInEpoch[e][a]], D)
<1> DEFINE v == [e \in Periods |-> AuthoredInEpoch[e][a] + FinalityVotesInEpoch[e][a]]
           c == [S \in SUBSET D |-> CHOOSE x \in S : TRUE]
           iter == CHOOSE g : g = [S \in SUBSET D |->
                     IF S = {} THEN 0
                     ELSE ServiceWeights(CHOOSE x \in S : TRUE)[a] + g[S \ {CHOOSE x \in S : TRUE}]]
<1>1. MapThenSumSet(LAMBDA e : ServiceWeights(e)[a], D) = iter[D]
  BY DEF MapThenSumSet, MapThenFoldSet
<1>2. \A x \in D : v[x] \in Int /\ ServiceWeights(x)[a] = v[x]
  BY DEF BooksTyped, Counters, ServiceWeights
<1> HIDE DEF v
<1>3. \A S \in SUBSET D : S # {} => c[S] \in S
  OBVIOUS
<1>4. PICK g : Recursion(g, v, c, D)
  BY <1>2, <1>3, RecursionSolvable
<1>5. \A S \in SUBSET D : S # {} =>
        /\ (CHOOSE x \in S : TRUE) = c[S]
        /\ ServiceWeights(CHOOSE x \in S : TRUE)[a] = v[c[S]]
  BY <1>2, <1>3
<1> HIDE DEF c
<1>6. g = [S \in SUBSET D |->
             IF S = {} THEN 0
             ELSE ServiceWeights(CHOOSE x \in S : TRUE)[a] + g[S \ {CHOOSE x \in S : TRUE}]]
  BY <1>4, <1>5 DEF Recursion
<1>7. iter = [S \in SUBSET D |->
             IF S = {} THEN 0
             ELSE ServiceWeights(CHOOSE x \in S : TRUE)[a] + iter[S \ {CHOOSE x \in S : TRUE}]]
  BY <1>6
<1> HIDE DEF iter
<1>8. Recursion(iter, v, c, D)
  <2>1. \A S \in SUBSET D : S # {} =>
          ServiceWeights(CHOOSE x \in S : TRUE)[a] + iter[S \ {CHOOSE x \in S : TRUE}]
            = v[c[S]] + iter[S \ {c[S]}]
    BY <1>5
  <2> HIDE DEF v
  <2>2. iter = [S \in SUBSET D |-> IF S = {} THEN 0 ELSE v[c[S]] + iter[S \ {c[S]}]]
    BY <1>7, <2>1
  <2> QED
    BY <2>2 DEF Recursion
<1>9. iter[D] = Sum(v, D)
  BY <1>2, <1>3, <1>8, RecursionIsSum, SumGiven
<1> QED
  BY <1>1, <1>9 DEF v

-----------------------------------------------------------------------------
LEMMA ServiceInit == Init => ServiceInv
<1> SUFFICES ASSUME Init PROVE ServiceInv
  OBVIOUS
<1>1. /\ number = 0 /\ CurrentEpoch = 0 /\ closed /\ closed \in BOOLEAN /\ Epoch = 0 /\ ledger = {}
      /\ NotedThisBlock \in BOOLEAN /\ ServiceCreditCursor = 0
      /\ AuthoredInEpoch = Never /\ FinalityVotesInEpoch = Never
      /\ EraServiceAccumulator = Never /\ paid = Never /\ Evidence = Nobody
      /\ CommitteeForEpoch = [p \in Periods |-> None] /\ LastCreditedHeight = 0
  BY DEF Init, InitParticipation
<1>2. 0 \div EpochLength = 0 /\ 0 \div EraLength = 0
  BY Lengths
<1>3. Clock
  BY <1>1, <1>2, Lengths DEF Clock
<1>4. Never \in Counters /\ \A p \in Periods, a \in Accounts : Never[p][a] = 0
  BY DEF Never, Nobody, Counters
<1>5. Nobody \in [Accounts -> Nat] /\ \A a \in Accounts : Nobody[a] = 0
  BY DEF Nobody
<1>6. BooksTyped
  BY <1>1, <1>4, <1>5, FS_EmptySet DEF BooksTyped
<1>7. \A a \in Accounts, p \in Periods : Cardinality(OfEpoch({}, a, p)) = 0
  BY FS_EmptySet DEF OfEpoch
<1>8. \A e : \A a \in Accounts : Cardinality(Folded({}, a, e, 0)) = 0
  BY FS_EmptySet DEF Folded
<1>9. \A a \in Accounts : Cardinality(Past({}, a, 0)) = 0
  BY FS_EmptySet DEF Past
<1> HIDE DEF ServiceInv
<1>10. \A p \in Periods : p >= 0 /\ ~(p < 0)
  BY DEF Periods
<1> QED
  BY <1>1, <1>3, <1>4, <1>5, <1>6, <1>7, <1>8, <1>9, <1>10, Lengths DEF ServiceInv

(* What a record credits: of this block, to members, as the counters say.  *)
NewCredits(record) == Votes(record) \cup Authorship(record)

LEMMA MembersOnly ==
  ASSUME ServiceInv, NEW record \in Records, Note(record)
  PROVE  /\ Counted(record.votes) \subseteq (0..MaxBlock) \X Accounts
         /\ CreditedAuthor(record) \in Accounts \cup {None}
<1>1. /\ CommitteeForEpoch \in [Periods -> (SUBSET Accounts) \cup {None}]
      /\ number \in 0..MaxBlock /\ number \in Nat /\ MaxBlock \in Nat
  BY Lengths DEF ServiceInv, BooksTyped, Clock
<1>2. ASSUME NEW h \in 0..MaxBlock, NEW key, IsMember(h, key) PROVE key \in Accounts
  <2>2. h \div CommitteeEpochLength \in Periods
    BY InPeriods, Lengths
  <2> QED
    BY <1>1, <1>2, <2>2 DEF IsMember
<1>3. ASSUME NEW c \in Counted(record.votes) PROVE c \in (0..MaxBlock) \X Accounts
  <2>1. PICK i \in Genuine(record.votes) :
          c = <<record.votes[i].height, ColdOf(record.votes[i].signer)>>
    BY DEF Counted
  <2>2. i \in DOMAIN record.votes /\ IsMember(record.votes[i].height, ColdOf(record.votes[i].signer))
    BY DEF Genuine, Checked, Fresh
  <2>3. LastCreditedHeight \in Nat /\ number \in 0..MaxBlock
    BY DEF ServiceInv, BooksTyped, Clock
  <2>4. record.votes[i].height \in 0..MaxBlock
    BY <2>2, <2>3, RecordHeights
  <2> QED
    BY <1>2, <2>1, <2>2, <2>4
<1>4. CreditedAuthor(record) \in Accounts \cup {None}
  BY <1>1, <1>2 DEF CreditedAuthor
<1> QED
  BY <1>3, <1>4

LEMMA NewCreditsCounted ==
  ASSUME ServiceInv, NEW record \in Records, Note(record)
  PROVE  /\ IsFiniteSet(NewCredits(record))
         /\ \A c \in NewCredits(record) : c.block = number
         /\ \A a \in Accounts :
              /\ VotesOf(record.votes, a) \in Nat
              /\ Cardinality({c \in NewCredits(record) : c.who = a})
                   = VotesOf(record.votes, a) + (IF a = CreditedAuthor(record) THEN 1 ELSE 0)
<1> DEFINE C == Counted(record.votes)
           V == Votes(record)
           A == Authorship(record)
           Entry(c) == [what |-> "vote", height |-> c[1], who |-> c[2], block |-> number]
<1>1. C \subseteq (0..MaxBlock) \X Accounts /\ CreditedAuthor(record) \in Accounts \cup {None}
  BY MembersOnly
<1>2. IsFiniteSet(C)
  <2>1. IsFiniteSet(0..MaxBlock) /\ IsFiniteSet(Accounts)
    <3>1. MaxBlock \in Int /\ 0 \in Int
      BY Lengths
    <3> QED
      BY <3>1, FS_Interval, DelegationAssumption
  <2>2. IsFiniteSet((0..MaxBlock) \X Accounts)
    BY <2>1, FS_Product
  <2> QED
    BY <1>1, <2>2, FS_Subset
<1>3. V = {Entry(c) : c \in C}
  BY DEF Votes
<1>4. A = {[what |-> "author", height |-> number, who |-> a, block |-> number] :
             a \in {CreditedAuthor(record)} \ {None}}
  BY DEF Authorship
<1> HIDE DEF C, V, A
<1>5. ASSUME NEW a \in Accounts
      PROVE  /\ IsFiniteSet({c \in V : c.who = a})
             /\ Cardinality({c \in V : c.who = a}) = Cardinality({c \in C : c[2] = a})
             /\ Cardinality({c \in C : c[2] = a}) \in Nat
  <2> DEFINE S == {c \in C : c[2] = a}
             T == {c \in V : c.who = a}
             f == [c \in S |-> Entry(c)]
  <2>1. IsFiniteSet(S)
    BY <1>2, FS_Subset
  <2>2. f \in [S -> T]
    BY <1>3
  <2>3. \A c \in S : c = <<c[1], c[2]>>
    BY <1>1
  <2>4. \A x, y \in S : f[x] = f[y] => x = y
    <3>1. ASSUME NEW x \in S PROVE f[x].height = x[1] /\ f[x].who = x[2]
      <4>1. f[x] = Entry(x)
        OBVIOUS
      <4> HIDE DEF f, S
      <4> QED
        BY <4>1
    <3> HIDE DEF f, S
    <3> QED
      BY <2>3, <3>1
  <2>5. \A y \in T : \E x \in S : f[x] = y
    BY <1>3
  <2> HIDE DEF f, S, T
  <2>6. IsFiniteSet(T) /\ Cardinality(T) = Cardinality(S)
    BY <2>1, <2>2, <2>4, <2>5, SameCount
  <2> QED
    BY <2>1, <2>6, FS_CardinalityType DEF S, T
<1>6. IsFiniteSet(V)
  <2> DEFINE f == [c \in C |-> Entry(c)]
  <2>1. f \in Surjection(C, V)
    BY <1>3 DEF Surjection
  <2> HIDE DEF f
  <2> QED
    BY <1>2, <2>1, FS_Surjection
<1>7. IsFiniteSet(A)
  <2>1. CASE CreditedAuthor(record) = None
    <3>1. A = {}
      BY <1>4, <2>1
    <3> QED
      BY <3>1, FS_EmptySet
  <2>2. CASE CreditedAuthor(record) # None
    <3>1. A = {[what |-> "author", height |-> number, who |-> CreditedAuthor(record), block |-> number]}
      BY <1>4, <2>2
    <3> QED
      BY <3>1, FS_Singleton
  <2> QED
    BY <2>1, <2>2
<1>8. NewCredits(record) = V \cup A /\ V \cap A = {}
  <2>1. \A c \in V : c.what = "vote"
    BY <1>3
  <2>2. \A c \in A : c.what = "author"
    BY <1>4
  <2> QED
    BY <2>1, <2>2 DEF NewCredits, V, A
<1>9. \A c \in V \cup A : c.block = number
  BY <1>3, <1>4
<1>10. ASSUME NEW a \in Accounts
       PROVE  /\ IsFiniteSet({c \in A : c.who = a})
              /\ Cardinality({c \in A : c.who = a}) = IF a = CreditedAuthor(record) THEN 1 ELSE 0
  <2>0. None # a
    BY DelegationAssumption
  <2>1. CASE a = CreditedAuthor(record)
    <3>1. {c \in A : c.who = a}
            = {[what |-> "author", height |-> number, who |-> a, block |-> number]}
      BY <1>4, <2>0, <2>1
    <3> QED
      BY <2>1, <3>1, FS_Singleton
  <2>2. CASE a # CreditedAuthor(record)
    <3>1. {c \in A : c.who = a} = {}
      BY <1>4, <2>2
    <3> QED
      BY <2>2, <3>1, FS_EmptySet
  <2> QED
    BY <2>1, <2>2
<1>11. ASSUME NEW a \in Accounts
       PROVE  Cardinality({c \in V \cup A : c.who = a})
                = Cardinality({c \in V : c.who = a}) + Cardinality({c \in A : c.who = a})
  <2>1. {c \in V \cup A : c.who = a} = {c \in V : c.who = a} \cup {c \in A : c.who = a}
    OBVIOUS
  <2>2. {c \in V : c.who = a} \cap {c \in A : c.who = a} = {}
    BY <1>8
  <2> QED
    BY <1>5, <1>10, <2>1, <2>2, CountApart
<1>12. IsFiniteSet(V \cup A)
  BY <1>6, <1>7, FS_Union
<1>13. \A a \in Accounts : VotesOf(record.votes, a) = Cardinality({c \in C : c[2] = a})
  BY DEF VotesOf, C
<1> QED
  BY <1>5, <1>8, <1>9, <1>10, <1>11, <1>12, <1>13

(* Adding to the books what lies in one block. *)
Grown(L, N, a, p) ==
  /\ \A q \in Int : IsFiniteSet(OfEpoch(L, a, q))
  /\ \A q \in Int : q # p => OfEpoch(L \cup N, a, q) = OfEpoch(L, a, q)
  /\ Cardinality(OfEpoch(L \cup N, a, p))
       = Cardinality(OfEpoch(L, a, p)) + Cardinality({c \in N : c.who = a})
  /\ Past(L \cup N, a, p) = Past(L, a, p)
  /\ \A era : Folded(L \cup N, a, era, p) = Folded(L, a, era, p)

LEMMA CountsGrow ==
  ASSUME NEW L, IsFiniteSet(L), NEW N, IsFiniteSet(N), NEW n \in Nat, NEW p \in Int,
         \A c \in N : c.block = n, \A c \in L : c.block # n, NEW a,
         n \div EpochLength = p
  PROVE  Grown(L, N, a, p)
<1> DEFINE M == {c \in N : c.who = a}
<1>1. IsFiniteSet(M) /\ IsFiniteSet(L \cup N)
  BY FS_Subset, FS_Union
<1>2. \A q \in Int : IsFiniteSet(OfEpoch(L, a, q)) /\ IsFiniteSet(OfEpoch(L \cup N, a, q))
  BY <1>1, FS_Subset DEF OfEpoch
<1>3. OfEpoch(L \cup N, a, p) = OfEpoch(L, a, p) \cup M
  BY DEF OfEpoch
<1>4. OfEpoch(L, a, p) \cap M = {}
  BY DEF OfEpoch
<1>5. \A q \in Int : q # p => OfEpoch(L \cup N, a, q) = OfEpoch(L, a, q)
  BY DEF OfEpoch
<1>6. \A c \in N : ~(c.block \div EpochLength < p)
  OBVIOUS
<1>7. Past(L \cup N, a, p) = Past(L, a, p)
  BY <1>6 DEF Past
<1>8. \A era : Folded(L \cup N, a, era, p) = Folded(L, a, era, p)
  BY <1>6 DEF Folded
<1> HIDE DEF M
<1>9. Cardinality(OfEpoch(L, a, p) \cup M) = Cardinality(OfEpoch(L, a, p)) + Cardinality(M)
  BY <1>1, <1>2, <1>4, CountApart
<1> QED
  BY <1>2, <1>3, <1>5, <1>7, <1>8, <1>9 DEF M, Grown

LEMMA ServiceNote ==
  ASSUME ServiceInv, NEW record \in Records, Note(record)
  PROVE  ServiceInv'
<1> DEFINE N == NewCredits(record)
           Gain(a) == VotesOf(record.votes, a) + (IF a = CreditedAuthor(record) THEN 1 ELSE 0)
<1>1. /\ Clock /\ BooksTyped
      /\ \A p \in Periods, a \in Accounts :
           AuthoredInEpoch[p][a] + FinalityVotesInEpoch[p][a] =
             IF p < CurrentEpoch THEN 0 ELSE Cardinality(OfEpoch(ledger, a, p))
      /\ \A era \in Periods, a \in Accounts :
           /\ EraServiceAccumulator[era][a] + paid[era][a]
                = Cardinality(Folded(ledger, a, era, CurrentEpoch))
           /\ era < Epoch => EraServiceAccumulator[era][a] = 0
           /\ era >= Epoch => paid[era][a] = 0
      /\ \A a \in Accounts :
           Evidence[a] = ServiceEvidenceRate * Cardinality(Past(ledger, a, CurrentEpoch))
      /\ ServiceEvidenceRate > 0 => ServiceCreditCursor = CurrentEpoch
  BY DEF ServiceInv
<1>2. /\ ~NotedThisBlock /\ NotedThisBlock' = TRUE /\ ledger' = ledger \cup N
      /\ UNCHANGED <<closed, Epoch, ServiceCreditCursor, Evidence, paid>>
      /\ UNCHANGED <<number, CurrentEpoch, EraServiceAccumulator, CommitteeForEpoch>>
      /\ AuthoredInEpoch' = [AuthoredInEpoch EXCEPT ![CurrentEpoch] =
           [a \in Accounts |-> AuthoredInEpoch[CurrentEpoch][a] + (IF a = CreditedAuthor(record) THEN 1 ELSE 0)]]
      /\ FinalityVotesInEpoch' = [FinalityVotesInEpoch EXCEPT ![CurrentEpoch] =
           [a \in Accounts |-> FinalityVotesInEpoch[CurrentEpoch][a] + VotesOf(record.votes, a)]]
  BY DEF Note, NoteParticipation, NewCredits, reputation, eras
<1>3. /\ IsFiniteSet(N) /\ \A c \in N : c.block = number
      /\ \A a \in Accounts : /\ VotesOf(record.votes, a) \in Nat
                             /\ Cardinality({c \in N : c.who = a}) = Gain(a)
  BY NewCreditsCounted
<1>4. number \in 0..MaxBlock /\ number \in Nat /\ CurrentEpoch = number \div EpochLength
  BY <1>1, Lengths DEF Clock
<1>5. CurrentEpoch \in Periods /\ CurrentEpoch \in Int
  BY <1>4, InPeriods, Lengths DEF Periods
<1>6. IsFiniteSet(ledger) /\ \A c \in ledger : c.block \in 0..number /\ c.block # number
  BY <1>1, <1>2 DEF BooksTyped
<1>7. /\ AuthoredInEpoch \in Counters /\ FinalityVotesInEpoch \in Counters
      /\ EraServiceAccumulator \in Counters /\ paid \in Counters /\ Evidence \in [Accounts -> Nat]
      /\ CommitteeForEpoch \in [Periods -> (SUBSET Accounts) \cup {None}]
  BY <1>1 DEF BooksTyped
<1> HIDE DEF N
<1>8. ASSUME NEW a \in Accounts
      PROVE  /\ \A q \in Int : IsFiniteSet(OfEpoch(ledger, a, q))
             /\ \A q \in Int : q # CurrentEpoch => OfEpoch(ledger', a, q) = OfEpoch(ledger, a, q)
             /\ Cardinality(OfEpoch(ledger', a, CurrentEpoch))
                  = Cardinality(OfEpoch(ledger, a, CurrentEpoch)) + Gain(a)
             /\ Past(ledger', a, CurrentEpoch) = Past(ledger, a, CurrentEpoch)
             /\ \A era : Folded(ledger', a, era, CurrentEpoch) = Folded(ledger, a, era, CurrentEpoch)
  <2> HIDE DEF Gain
  <2>1. /\ IsFiniteSet(ledger) /\ \A c \in ledger : c.block # number
        /\ IsFiniteSet(N) /\ \A c \in N : c.block = number
        /\ number \in Nat /\ CurrentEpoch \in Int /\ number \div EpochLength = CurrentEpoch
    BY <1>3, <1>4, <1>5, <1>6
  <2>2. Grown(ledger, N, a, CurrentEpoch)
    BY <2>1, CountsGrow
  <2>3. ledger' = ledger \cup N /\ Cardinality({c \in N : c.who = a}) = Gain(a)
    BY <1>2, <1>3
  <2> QED
    BY <2>2, <2>3 DEF Grown
<1> HIDE DEF Gain
<1>9. AuthoredInEpoch' \in Counters /\ FinalityVotesInEpoch' \in Counters
  <2>1. /\ [a \in Accounts |-> AuthoredInEpoch[CurrentEpoch][a]
               + (IF a = CreditedAuthor(record) THEN 1 ELSE 0)] \in [Accounts -> Nat]
        /\ [a \in Accounts |-> FinalityVotesInEpoch[CurrentEpoch][a] + VotesOf(record.votes, a)]
             \in [Accounts -> Nat]
    <3>1. AuthoredInEpoch[CurrentEpoch] \in [Accounts -> Nat]
          /\ FinalityVotesInEpoch[CurrentEpoch] \in [Accounts -> Nat]
      BY <1>5, <1>7 DEF Counters
    <3>2. \A a \in Accounts : VotesOf(record.votes, a) \in Nat
      BY <1>3
    <3> QED
      BY <3>1, <3>2
  <2> QED
    BY <1>2, <1>5, <1>7, <2>1 DEF Counters
<1>10. BooksTyped'
  <2>1. IsFiniteSet(ledger')
    BY <1>2, <1>3, <1>6, FS_Union
  <2>2. \A c \in ledger' : c.block \in 0..number /\ (c.block = number => NotedThisBlock')
    BY <1>2, <1>3, <1>4, <1>6
  <2>3. LastCreditedHeight' \in Nat
    <3>1. LastCreditedHeight \in Nat
      BY <1>1 DEF BooksTyped
    <3>2. \A i \in DOMAIN record.votes : record.votes[i].height \in Int
      <4>1. \A i \in DOMAIN record.votes : record.votes[i].height \in 0..MaxBlock
        BY <1>4, <3>1, RecordHeights
      <4> QED
        BY <4>1
    <3>3. NoteParticipation(record)
      BY DEF Note
    <3> QED
      BY <3>1, <3>2, <3>3, CountedAbove
  <2> QED
    BY <1>2, <1>7, <1>9, <2>1, <2>2, <2>3 DEF BooksTyped
<1>11. Clock'
  BY <1>1, <1>2 DEF Clock
<1>12. ASSUME NEW p \in Periods, NEW a \in Accounts
       PROVE  AuthoredInEpoch'[p][a] + FinalityVotesInEpoch'[p][a] =
                IF p < CurrentEpoch' THEN 0 ELSE Cardinality(OfEpoch(ledger', a, p))
  <2>1. AuthoredInEpoch[p][a] \in Nat /\ FinalityVotesInEpoch[p][a] \in Nat /\ p \in Int
    BY <1>7 DEF Counters, Periods
  <2>2. CASE p = CurrentEpoch
    <3>1. AuthoredInEpoch'[p][a] = AuthoredInEpoch[p][a] + (IF a = CreditedAuthor(record) THEN 1 ELSE 0)
      BY <1>2, <1>5, <1>7, <2>2 DEF Counters
    <3>2. FinalityVotesInEpoch'[p][a] = FinalityVotesInEpoch[p][a] + VotesOf(record.votes, a)
      BY <1>2, <1>5, <1>7, <2>2 DEF Counters
    <3>3. AuthoredInEpoch[p][a] + FinalityVotesInEpoch[p][a] = Cardinality(OfEpoch(ledger, a, p))
      BY <1>1, <1>5, <2>2
    <3>4. Cardinality(OfEpoch(ledger', a, p)) = Cardinality(OfEpoch(ledger, a, p)) + Gain(a)
      BY <1>8, <2>2
    <3>5. CurrentEpoch' = CurrentEpoch /\ VotesOf(record.votes, a) \in Nat
      BY <1>2, <1>3
    <3>6. AuthoredInEpoch'[p][a] + FinalityVotesInEpoch'[p][a]
            = AuthoredInEpoch[p][a] + FinalityVotesInEpoch[p][a] + Gain(a)
      BY <2>1, <3>1, <3>2, <3>5 DEF Gain
    <3> QED
      BY <1>5, <2>2, <3>3, <3>4, <3>5, <3>6
  <2>3. CASE p # CurrentEpoch
    <3>1. AuthoredInEpoch'[p] = AuthoredInEpoch[p] /\ FinalityVotesInEpoch'[p] = FinalityVotesInEpoch[p]
      BY <1>2, <1>7, <2>3 DEF Counters
    <3> QED
      BY <1>1, <1>2, <1>8, <2>1, <2>3, <3>1
  <2> QED
    BY <2>2, <2>3
<1> QED
  BY <1>1, <1>2, <1>8, <1>10, <1>11, <1>12 DEF ServiceInv

(* An epoch that ends leaves its counters for its era and its evidence. *)
Moved(L, a, p) ==
  /\ Cardinality(Past(L, a, p + 1)) = Cardinality(Past(L, a, p)) + Cardinality(OfEpoch(L, a, p))
  /\ \A era : Cardinality(Folded(L, a, era, p + 1)) = Cardinality(Folded(L, a, era, p))
                + (IF era = EraOfEpoch(p) THEN Cardinality(OfEpoch(L, a, p)) ELSE 0)
  /\ Cardinality(Past(L, a, p)) \in Nat /\ Cardinality(OfEpoch(L, a, p)) \in Nat
  /\ \A era : Cardinality(Folded(L, a, era, p)) \in Nat

LEMMA EpochMoves ==
  ASSUME NEW L, IsFiniteSet(L), \A c \in L : c.block \in Nat, NEW a, NEW p \in Nat
  PROVE  Moved(L, a, p)
<1>1. \A c \in L : /\ c.block \div EpochLength \in Int
                   /\ c.block \div EraLength = EraOfEpoch(c.block \div EpochLength)
  BY EraOfItsEpoch, NextQuotient, Lengths
<1>2. /\ Past(L, a, p + 1) = Past(L, a, p) \cup OfEpoch(L, a, p)
      /\ Past(L, a, p) \cap OfEpoch(L, a, p) = {}
  BY <1>1 DEF Past, OfEpoch
<1>3. \A era : IsFiniteSet(Past(L, a, p)) /\ IsFiniteSet(OfEpoch(L, a, p)) /\ IsFiniteSet(Folded(L, a, era, p))
  BY FS_Subset DEF Past, OfEpoch, Folded
<1>4. Cardinality(Past(L, a, p + 1)) = Cardinality(Past(L, a, p)) + Cardinality(OfEpoch(L, a, p))
  BY <1>2, <1>3, CountApart
<1>5. /\ Folded(L, a, EraOfEpoch(p), p + 1) = Folded(L, a, EraOfEpoch(p), p) \cup OfEpoch(L, a, p)
      /\ Folded(L, a, EraOfEpoch(p), p) \cap OfEpoch(L, a, p) = {}
  BY <1>1 DEF Folded, OfEpoch
<1>6. Cardinality(Folded(L, a, EraOfEpoch(p), p + 1))
        = Cardinality(Folded(L, a, EraOfEpoch(p), p)) + Cardinality(OfEpoch(L, a, p))
  BY <1>3, <1>5, CountApart
<1>7. \A era : era # EraOfEpoch(p) => Folded(L, a, era, p + 1) = Folded(L, a, era, p)
  BY <1>1 DEF Folded
<1>8. /\ Cardinality(Past(L, a, p)) \in Nat /\ Cardinality(OfEpoch(L, a, p)) \in Nat
      /\ \A era : Cardinality(Folded(L, a, era, p)) \in Nat
  BY <1>3, FS_CardinalityType
<1>9. ASSUME NEW era
      PROVE  Cardinality(Folded(L, a, era, p + 1)) = Cardinality(Folded(L, a, era, p))
               + (IF era = EraOfEpoch(p) THEN Cardinality(OfEpoch(L, a, p)) ELSE 0)
  <2>1. CASE era = EraOfEpoch(p)
    BY <1>6, <2>1
  <2>2. CASE era # EraOfEpoch(p)
    <3>1. Cardinality(Folded(L, a, era, p + 1)) = Cardinality(Folded(L, a, era, p))
          /\ Cardinality(Folded(L, a, era, p)) \in Nat
      BY <1>7, <1>8, <2>2
    <3> QED
      BY <2>2, <3>1
  <2> QED
    BY <2>1, <2>2
<1> QED
  BY <1>4, <1>8, <1>9 DEF Moved

LEMMA CommitteesTyped ==
  ASSUME CommitteeForEpoch \in [Periods -> (SUBSET Accounts) \cup {None}],
         NEW n \in 1..MaxBlock, CacheCommittee(n, Elected[n \div CommitteeEpochLength])
  PROVE  CommitteeForEpoch' \in [Periods -> (SUBSET Accounts) \cup {None}]
<1> DEFINE period == n \div CommitteeEpochLength
           pruned == IF period < 4 THEN CommitteeForEpoch
                     ELSE [CommitteeForEpoch EXCEPT ![period - 4] = None]
<1>1. n \in 0..MaxBlock
  BY Lengths
<1>2. period \in Periods
  BY <1>1, InPeriods, Lengths
<1>3. Truncated(Elected[period]) \in SUBSET Accounts
  BY <1>2, EraAssumption DEF Truncated
<1>4. \/ CommitteeForEpoch' = [pruned EXCEPT ![period] = Truncated(Elected[period])]
      \/ CommitteeForEpoch' = CommitteeForEpoch
  BY DEF CacheCommittee
<1> HIDE DEF period
<1>5. pruned \in [Periods -> (SUBSET Accounts) \cup {None}]
  OBVIOUS
<1> HIDE DEF pruned
<1> QED
  BY <1>3, <1>4, <1>5

LEMMA ServiceOpen ==
  ASSUME ServiceInv, OpenBlock
  PROVE  ServiceInv'
<1> DEFINE n == number + 1
           P == CurrentEpoch
           W(a) == Cardinality(OfEpoch(ledger, a, P))
<1>1. /\ Clock /\ BooksTyped
      /\ \A p \in Periods, a \in Accounts :
           AuthoredInEpoch[p][a] + FinalityVotesInEpoch[p][a] =
             IF p < CurrentEpoch THEN 0 ELSE Cardinality(OfEpoch(ledger, a, p))
      /\ \A era \in Periods, a \in Accounts :
           /\ EraServiceAccumulator[era][a] + paid[era][a]
                = Cardinality(Folded(ledger, a, era, CurrentEpoch))
           /\ era < Epoch => EraServiceAccumulator[era][a] = 0
           /\ era >= Epoch => paid[era][a] = 0
      /\ \A a \in Accounts :
           Evidence[a] = ServiceEvidenceRate * Cardinality(Past(ledger, a, CurrentEpoch))
      /\ ServiceEvidenceRate > 0 => ServiceCreditCursor = CurrentEpoch
  BY DEF ServiceInv
<1>2. /\ closed /\ number < MaxBlock /\ closed' = FALSE /\ number' = n /\ NotedThisBlock' = FALSE
      /\ UNCHANGED <<Epoch, ledger, paid, LastCreditedHeight>>
      /\ IF EndsEpoch(n) /\ ServiceEvidenceRate > 0 THEN CreditServiceEvidence(n)
         ELSE UNCHANGED <<ServiceCreditCursor, Evidence>>
      /\ CacheCommittee(n, Elected[n \div CommitteeEpochLength])
      /\ IF EndsEpoch(n) THEN FoldEpoch(n)
         ELSE UNCHANGED <<EraServiceAccumulator, AuthoredInEpoch, FinalityVotesInEpoch, CurrentEpoch>>
  BY DEF OpenBlock, OnInitialize, history, reputation, service
<1>3. /\ number \in Nat /\ number \in 0..MaxBlock /\ n \in Nat /\ n \in 1..MaxBlock /\ n # 0
      /\ P = number \div EpochLength /\ Epoch = number \div EraLength
  BY <1>1, <1>2, Lengths DEF Clock
<1>4. P \in Periods /\ P \in Nat /\ Epoch \in Periods /\ Epoch \in Nat
  BY <1>3, InPeriods, Lengths DEF Periods
<1>5. n \div EpochLength = IF n % EpochLength = 0 THEN P + 1 ELSE P
  BY <1>3, NextQuotient, Lengths
<1>6. EraOfEpoch(P) = Epoch
  BY <1>3, EraOfItsEpoch
<1>7. /\ AuthoredInEpoch \in Counters /\ FinalityVotesInEpoch \in Counters
      /\ EraServiceAccumulator \in Counters /\ paid \in Counters /\ Evidence \in [Accounts -> Nat]
      /\ CommitteeForEpoch \in [Periods -> (SUBSET Accounts) \cup {None}]
      /\ LastCreditedHeight \in Nat
      /\ IsFiniteSet(ledger) /\ \A c \in ledger : c.block \in 0..number
  BY <1>1 DEF BooksTyped
<1>8. CommitteeForEpoch' \in [Periods -> (SUBSET Accounts) \cup {None}]
  BY <1>2, <1>3, <1>7, CommitteesTyped
<1>9. \A c \in ledger : c.block \in Nat /\ c.block \in 0..n /\ c.block # n
  BY <1>3, <1>7
<1>10. \A a \in Accounts : Moved(ledger, a, P)
  BY <1>4, <1>7, <1>9, EpochMoves
<1> HIDE DEF n
<1>11. CASE ~EndsEpoch(n)
  <2>1. n \div EpochLength = P /\ UNCHANGED <<EraServiceAccumulator, AuthoredInEpoch,
          FinalityVotesInEpoch, CurrentEpoch, ServiceCreditCursor, Evidence>>
    BY <1>2, <1>3, <1>5, <1>11 DEF EndsEpoch
  <2>2. number = n - 1
    BY <1>3 DEF n
  <2>3. Clock'
    <3>1. number' \in 0..MaxBlock /\ number' # 0 /\ Epoch' = (number' - 1) \div EraLength
      BY <1>2, <1>3, <2>2, Lengths
    <3>2. CurrentEpoch' = number' \div EpochLength
      BY <1>2, <2>1
    <3> QED
      BY <1>2, <3>1, <3>2 DEF Clock
  <2>4. BooksTyped'
    BY <1>2, <1>7, <1>8, <1>9, <2>1 DEF BooksTyped
  <2> QED
    BY <1>1, <1>2, <2>1, <2>3, <2>4 DEF ServiceInv
<1>12. CASE EndsEpoch(n)
  <2>1. n \div EpochLength = P + 1 /\ EndedEpoch(n) = P
    BY <1>4, <1>5, <1>12 DEF EndsEpoch, EndedEpoch
  <2>2. /\ EraServiceAccumulator' = [EraServiceAccumulator EXCEPT ![Epoch] =
             [a \in Accounts |-> EraServiceAccumulator[Epoch][a] + ServiceWeights(P)[a]]]
        /\ AuthoredInEpoch' = [AuthoredInEpoch EXCEPT ![P] = Nobody]
        /\ FinalityVotesInEpoch' = [FinalityVotesInEpoch EXCEPT ![P] = Nobody]
        /\ CurrentEpoch' = P + 1
    BY <1>2, <1>6, <1>12, <2>1 DEF FoldEpoch
  <2>3. \A a \in Accounts : ServiceWeights(P)[a] = W(a) /\ W(a) \in Nat
    <3>1. \A a \in Accounts : ServiceWeights(P)[a] = W(a)
      BY <1>1, <1>4 DEF ServiceWeights
    <3>2. \A a \in Accounts : W(a) \in Nat
      BY <1>10 DEF Moved
    <3> QED
      BY <3>1, <3>2
  <2>4. ASSUME NEW a \in Accounts PROVE Moved(ledger, a, P)
    BY <1>10
  <2>5. Nobody \in [Accounts -> Nat] /\ \A a \in Accounts : Nobody[a] = 0
    BY DEF Nobody
  <2> HIDE DEF W
  <2>6. AuthoredInEpoch' \in Counters /\ FinalityVotesInEpoch' \in Counters
    BY <1>7, <2>2, <2>5 DEF Counters
  <2>7. EraServiceAccumulator' \in Counters
    <3>1. [a \in Accounts |-> EraServiceAccumulator[Epoch][a] + ServiceWeights(P)[a]] \in [Accounts -> Nat]
      BY <1>4, <1>7, <2>3 DEF Counters
    <3> QED
      BY <1>7, <2>2, <3>1 DEF Counters
  <2>8. Clock'
    <3>1. number = n - 1
      BY <1>3 DEF n
    <3>2. number' \in 0..MaxBlock /\ number' # 0 /\ Epoch' = (number' - 1) \div EraLength
      BY <1>2, <1>3, <3>1, Lengths
    <3>3. CurrentEpoch' = number' \div EpochLength
      BY <1>2, <2>1, <2>2
    <3> QED
      BY <1>2, <3>2, <3>3 DEF Clock
  <2>9. ASSUME NEW p \in Periods, NEW a \in Accounts
        PROVE  AuthoredInEpoch'[p][a] + FinalityVotesInEpoch'[p][a] =
                 IF p < CurrentEpoch' THEN 0 ELSE Cardinality(OfEpoch(ledger', a, p))
    <3>1. p \in Int
      BY DEF Periods
    <3>2. CASE p = P
      <4>1. AuthoredInEpoch'[p][a] = 0 /\ FinalityVotesInEpoch'[p][a] = 0
        BY <1>4, <1>7, <2>2, <2>5, <3>2 DEF Counters
      <4> QED
        BY <1>4, <2>2, <3>2, <4>1
    <3>3. CASE p # P
      <4>1. AuthoredInEpoch'[p] = AuthoredInEpoch[p] /\ FinalityVotesInEpoch'[p] = FinalityVotesInEpoch[p]
        BY <1>7, <2>2, <3>3 DEF Counters
      <4> QED
        BY <1>1, <1>2, <1>4, <2>2, <3>1, <3>3, <4>1
    <3> QED
      BY <3>2, <3>3
  <2>10. ASSUME NEW era \in Periods, NEW a \in Accounts
         PROVE  /\ EraServiceAccumulator'[era][a] + paid'[era][a]
                     = Cardinality(Folded(ledger', a, era, CurrentEpoch'))
                /\ era < Epoch' => EraServiceAccumulator'[era][a] = 0
                /\ era >= Epoch' => paid'[era][a] = 0
    <3>1. /\ EraServiceAccumulator[era][a] + paid[era][a] = Cardinality(Folded(ledger, a, era, P))
          /\ EraServiceAccumulator[era][a] \in Nat /\ paid[era][a] \in Nat
      BY <1>1, <1>7 DEF Counters
    <3>2. Cardinality(Folded(ledger, a, era, P + 1)) = Cardinality(Folded(ledger, a, era, P))
                + (IF era = Epoch THEN W(a) ELSE 0)
      BY <1>6, <2>4 DEF Moved, W
    <3>3. CASE era = Epoch
      <4>1. EraServiceAccumulator'[era][a] = EraServiceAccumulator[era][a] + W(a)
        BY <1>4, <1>7, <2>2, <2>3, <3>3 DEF Counters
      <4>2. W(a) \in Nat
        BY <2>3
      <4>3. EraServiceAccumulator'[era][a] + paid[era][a] = Cardinality(Folded(ledger, a, era, P + 1))
        BY <3>1, <3>2, <3>3, <4>1, <4>2
      <4> QED
        BY <1>1, <1>2, <1>4, <2>2, <3>3, <4>3
    <3>4. CASE era # Epoch
      <4>1. EraServiceAccumulator'[era] = EraServiceAccumulator[era]
        BY <1>7, <2>2, <3>4 DEF Counters
      <4>2. Cardinality(Folded(ledger, a, era, P + 1)) = EraServiceAccumulator[era][a] + paid[era][a]
        BY <3>1, <3>2, <3>4
      <4> QED
        BY <1>1, <1>2, <2>2, <4>1, <4>2
    <3> QED
      BY <3>3, <3>4
  <2>11. CASE ServiceEvidenceRate > 0
    <3>1. CreditServiceEvidence(n) /\ ServiceCreditCursor = P
      BY <1>1, <1>2, <1>12, <2>11
    <3>2. Creditable(n) = {P}
      <4>1. EndedEpoch(n) = P /\ ServiceCreditCursor + 7 = P + 7
        BY <2>1, <3>1
      <4>2. Min({P, P + 7}) = P
        <5>1. P \in {P, P + 7} /\ \A y \in {P, P + 7} : P =< y
          BY <1>4
        <5>2. \A x \in {P, P + 7} : (\A y \in {P, P + 7} : x =< y) => x = P
          BY <1>4
        <5> QED
          BY <5>1, <5>2 DEF Min
      <4> QED
        BY <1>4, <3>1, <4>1, <4>2 DEF Creditable
    <3>3. ASSUME NEW a \in Accounts
          PROVE  MapThenSumSet(LAMBDA e : ServiceWeights(e)[a], {P}) = W(a)
      <4> DEFINE v == [e \in Periods |-> AuthoredInEpoch[e][a] + FinalityVotesInEpoch[e][a]]
      <4>1. IsFiniteSet({P}) /\ {P} \in SUBSET Periods
        BY <1>4, FS_Singleton
      <4>2. MapThenSumSet(LAMBDA e : ServiceWeights(e)[a], {P}) = Sum(v, {P})
        BY <1>1, <4>1, WeightSum
      <4>3. v[P] = W(a)
        BY <1>4, <2>3 DEF ServiceWeights
      <4> HIDE DEF v
      <4>4. Sum(v, {P}) = v[P] + Sum(v, {P} \ {P})
        BY <2>3, <4>1, <4>3, SumTakeOut
      <4>5. {P} \ {P} = {} /\ W(a) \in Nat
        BY <2>3
      <4> QED
        BY <4>2, <4>3, <4>4, <4>5, SumEmpty
    <3>4. ServiceCreditCursor' = P + 1
      BY <1>4, <3>1, <3>2, FS_Singleton DEF CreditServiceEvidence
    <3>5. Evidence' = [a \in Accounts |-> Evidence[a] + ServiceEvidenceRate * W(a)]
      BY <3>1, <3>2, <3>3 DEF CreditServiceEvidence
    <3>6. ASSUME NEW a \in Accounts
          PROVE  Evidence'[a] = ServiceEvidenceRate * Cardinality(Past(ledger, a, P + 1))
      <4>1. /\ Cardinality(Past(ledger, a, P + 1)) = Cardinality(Past(ledger, a, P)) + W(a)
            /\ Cardinality(Past(ledger, a, P)) \in Nat /\ W(a) \in Nat
        BY <2>4 DEF Moved, W
      <4>2. Evidence'[a] = ServiceEvidenceRate * Cardinality(Past(ledger, a, P)) + ServiceEvidenceRate * W(a)
        BY <1>1, <3>5
      <4>3. \A r, x, y \in Nat : r * (x + y) = r * x + r * y
        OBVIOUS
      <4> QED
        BY <4>1, <4>2, <4>3, Lengths
    <3>7. Evidence' \in [Accounts -> Nat]
      <4>1. \A a \in Accounts : W(a) \in Nat /\ Evidence[a] \in Nat
        BY <1>7, <2>3
      <4>2. \A x, y, z \in Nat : x + y * z \in Nat
        OBVIOUS
      <4> QED
        BY <3>5, <4>1, <4>2, Lengths
    <3>8. BooksTyped'
      BY <1>2, <1>7, <1>8, <1>9, <2>6, <2>7, <3>7 DEF BooksTyped
    <3> QED
      BY <1>2, <2>2, <2>8, <2>9, <2>10, <3>4, <3>6, <3>8 DEF ServiceInv
  <2>12. CASE ~(ServiceEvidenceRate > 0)
    <3>1. UNCHANGED <<ServiceCreditCursor, Evidence>> /\ ServiceEvidenceRate = 0
      BY <1>2, <2>12, Lengths
    <3>2. ASSUME NEW a \in Accounts
          PROVE  Evidence'[a] = ServiceEvidenceRate * Cardinality(Past(ledger, a, P + 1))
      <4>1. /\ Cardinality(Past(ledger, a, P + 1)) = Cardinality(Past(ledger, a, P)) + W(a)
            /\ Cardinality(Past(ledger, a, P)) \in Nat /\ W(a) \in Nat
        BY <2>4 DEF Moved, W
      <4>2. Evidence'[a] = 0 * Cardinality(Past(ledger, a, P))
        BY <1>1, <3>1
      <4> QED
        BY <3>1, <4>1, <4>2
    <3>3. BooksTyped'
      BY <1>2, <1>7, <1>8, <1>9, <2>6, <2>7, <3>1 DEF BooksTyped
    <3> QED
      BY <1>2, <2>2, <2>8, <2>9, <2>10, <2>12, <3>2, <3>3 DEF ServiceInv
  <2> QED
    BY <2>11, <2>12
<1> QED
  BY <1>11, <1>12

LEMMA ServiceClose ==
  ASSUME ServiceInv, CloseBlock
  PROVE  ServiceInv'
<1>1. /\ Clock /\ BooksTyped
      /\ \A p \in Periods, a \in Accounts :
           AuthoredInEpoch[p][a] + FinalityVotesInEpoch[p][a] =
             IF p < CurrentEpoch THEN 0 ELSE Cardinality(OfEpoch(ledger, a, p))
      /\ \A era \in Periods, a \in Accounts :
           /\ EraServiceAccumulator[era][a] + paid[era][a]
                = Cardinality(Folded(ledger, a, era, CurrentEpoch))
           /\ era < Epoch => EraServiceAccumulator[era][a] = 0
           /\ era >= Epoch => paid[era][a] = 0
      /\ \A a \in Accounts :
           Evidence[a] = ServiceEvidenceRate * Cardinality(Past(ledger, a, CurrentEpoch))
      /\ ServiceEvidenceRate > 0 => ServiceCreditCursor = CurrentEpoch
  BY DEF ServiceInv
<1>2. /\ NotedThisBlock /\ ~closed /\ closed' = TRUE
      /\ UNCHANGED <<number, CurrentEpoch, AuthoredInEpoch, FinalityVotesInEpoch, NotedThisBlock,
                     CommitteeForEpoch, ServiceCreditCursor, Evidence, ledger, LastCreditedHeight>>
      /\ IF number % EraLength = 0 THEN PayEra
         ELSE UNCHANGED <<paid, EraServiceAccumulator, Epoch>>
  BY DEF CloseBlock, eras, service, noted, reputation
<1>3. /\ number \in 0..MaxBlock /\ number # 0 /\ number - 1 \in Nat /\ number - 1 \in 0..MaxBlock
      /\ CurrentEpoch = number \div EpochLength /\ Epoch = (number - 1) \div EraLength
  BY <1>1, <1>2, Lengths DEF Clock
<1>4. Epoch \in Periods /\ Epoch \in Nat
  BY <1>3, InPeriods, Lengths DEF Periods
<1>5. number \div EraLength = IF number % EraLength = 0 THEN Epoch + 1 ELSE Epoch
  <2>1. (number - 1) + 1 = number
    BY <1>3
  <2> QED
    BY <1>3, <2>1, NextQuotient, Lengths
<1>6. /\ EraServiceAccumulator \in Counters /\ paid \in Counters
      /\ \A c \in ledger : c.block \in 0..number
  BY <1>1 DEF BooksTyped
<1>7. CASE number % EraLength # 0
  <2>1. UNCHANGED <<paid, EraServiceAccumulator, Epoch>>
    BY <1>2, <1>7
  <2>2. Clock'
    <3>1. number' \in 0..MaxBlock /\ number' # 0 /\ Epoch' = number' \div EraLength
          /\ CurrentEpoch' = number' \div EpochLength
      BY <1>2, <1>3, <1>5, <1>7, <2>1
    <3> QED
      BY <1>2, <3>1 DEF Clock
  <2>3. BooksTyped'
    BY <1>1, <1>2, <2>1 DEF BooksTyped
  <2> QED
    BY <1>1, <1>2, <2>1, <2>2, <2>3 DEF ServiceInv
<1>8. CASE number % EraLength = 0
  <2>1. /\ paid' = [paid EXCEPT ![Epoch] = EraServiceAccumulator[Epoch]]
        /\ EraServiceAccumulator' = [EraServiceAccumulator EXCEPT ![Epoch] = Nobody]
        /\ Epoch' = Epoch + 1
    BY <1>2, <1>8 DEF PayEra, EraServiceFeed, CloseEra
  <2>2. Clock'
    <3>1. number' \in 0..MaxBlock /\ number' # 0 /\ Epoch' = number' \div EraLength
          /\ CurrentEpoch' = number' \div EpochLength
      BY <1>2, <1>3, <1>5, <1>8, <2>1
    <3> QED
      BY <1>2, <3>1 DEF Clock
  <2>3. Nobody \in [Accounts -> Nat] /\ \A a \in Accounts : Nobody[a] = 0
    BY DEF Nobody
  <2>4. paid' \in Counters /\ EraServiceAccumulator' \in Counters
    BY <1>4, <1>6, <2>1, <2>3 DEF Counters
  <2>5. BooksTyped'
    BY <1>1, <1>2, <2>4 DEF BooksTyped
  <2>6. ASSUME NEW era \in Periods, NEW a \in Accounts
        PROVE  /\ EraServiceAccumulator'[era][a] + paid'[era][a]
                    = Cardinality(Folded(ledger', a, era, CurrentEpoch'))
               /\ era < Epoch' => EraServiceAccumulator'[era][a] = 0
               /\ era >= Epoch' => paid'[era][a] = 0
    <3>1. /\ EraServiceAccumulator[era][a] \in Nat /\ paid[era][a] \in Nat /\ era \in Int
          /\ EraServiceAccumulator[era][a] + paid[era][a] = Cardinality(Folded(ledger', a, era, CurrentEpoch'))
      BY <1>1, <1>2, <1>6 DEF Counters, Periods
    <3>2. CASE era = Epoch
      <4>1. /\ EraServiceAccumulator'[era][a] = 0 /\ paid'[era][a] = EraServiceAccumulator[era][a]
            /\ paid[era][a] = 0
        BY <1>1, <1>4, <1>6, <2>1, <2>3, <3>2 DEF Counters
      <4> QED
        BY <1>4, <2>1, <3>1, <3>2, <4>1
    <3>3. CASE era # Epoch
      <4>1. EraServiceAccumulator'[era] = EraServiceAccumulator[era] /\ paid'[era] = paid[era]
        BY <1>6, <2>1, <3>3 DEF Counters
      <4> QED
        BY <1>1, <1>4, <2>1, <3>1, <3>3, <4>1
    <3> QED
      BY <3>2, <3>3
  <2> QED
    BY <1>1, <1>2, <2>2, <2>5, <2>6 DEF ServiceInv
<1> QED
  BY <1>7, <1>8

LEMMA ServiceKept == ServiceInv /\ [Next]_vars => ServiceInv'
<1>1. ASSUME ServiceInv,
             UNCHANGED <<number, CurrentEpoch, closed, NotedThisBlock, Epoch, AuthoredInEpoch,
                         FinalityVotesInEpoch, EraServiceAccumulator, paid, Evidence, CommitteeForEpoch,
                         ledger, ServiceCreditCursor, LastCreditedHeight>>
      PROVE  ServiceInv'
  <2>1. Clock'
    BY <1>1 DEF ServiceInv, Clock
  <2>2. BooksTyped'
    BY <1>1 DEF ServiceInv, BooksTyped
  <2> QED
    BY <1>1, <2>1, <2>2 DEF ServiceInv
<1>2. ASSUME ServiceInv, [Next]_vars PROVE ServiceInv'
  <2>1. CASE OpenBlock
    BY <1>2, <2>1, ServiceOpen
  <2>2. ASSUME NEW record \in Records, Note(record) PROVE ServiceInv'
    BY <1>2, <2>2, ServiceNote
  <2>3. CASE CloseBlock
    BY <1>2, <2>3, ServiceClose
  <2>4. ASSUME NEW hot \in Keys, Beat(hot) PROVE ServiceInv'
    BY <1>1, <1>2, <2>4 DEF Beat, participation, service, noted, eras, reputation
  <2>5. ASSUME NEW who \in Accounts, NEW key \in Keys, Bind(who, key) PROVE ServiceInv'
    BY <1>1, <1>2, <2>5 DEF Bind, participation, service, noted, eras, reputation, history
  <2>6. ASSUME NEW who \in Accounts, Unbind(who) PROVE ServiceInv'
    BY <1>1, <1>2, <2>6 DEF Unbind, participation, service, noted, eras, reputation, history
  <2>7. CASE UNCHANGED vars
    BY <1>1, <1>2, <2>7 DEF vars, participation, service, noted, eras, reputation, history
  <2> QED
    BY <1>2, <2>1, <2>2, <2>3, <2>4, <2>5, <2>6, <2>7 DEF Next
<1> QED
  BY <1>2

LEMMA ServiceIsConserved ==
  ASSUME ServiceInv
  PROVE  ServiceConserved
<1>1. /\ Clock /\ BooksTyped
      /\ \A p \in Periods, a \in Accounts :
           AuthoredInEpoch[p][a] + FinalityVotesInEpoch[p][a] =
             IF p < CurrentEpoch THEN 0 ELSE Cardinality(OfEpoch(ledger, a, p))
      /\ \A era \in Periods, a \in Accounts :
           /\ EraServiceAccumulator[era][a] + paid[era][a]
                = Cardinality(Folded(ledger, a, era, CurrentEpoch))
           /\ era < Epoch => EraServiceAccumulator[era][a] = 0
           /\ era >= Epoch => paid[era][a] = 0
  BY DEF ServiceInv
<1>2. /\ number \in 0..MaxBlock /\ number \in Nat /\ CurrentEpoch = number \div EpochLength
      /\ CurrentEpoch \in Periods /\ CurrentEpoch \in Nat
  <2>1. number \in 0..MaxBlock /\ number \in Nat /\ CurrentEpoch = number \div EpochLength
    BY <1>1, Lengths DEF Clock
  <2> QED
    BY <2>1, InPeriods, Lengths DEF Periods
<1>3. /\ IsFiniteSet(ledger) /\ \A c \in ledger : c.block \in 0..number /\ c.block \in Nat
      /\ EraServiceAccumulator \in Counters /\ paid \in Counters
      /\ AuthoredInEpoch \in Counters /\ FinalityVotesInEpoch \in Counters
  BY <1>1, <1>2 DEF BooksTyped
<1>4. \A c \in ledger : /\ c.block \div EpochLength \in Nat /\ c.block \div EpochLength =< CurrentEpoch
                        /\ c.block \div EraLength = EraOfEpoch(c.block \div EpochLength)
  <2> SUFFICES ASSUME NEW c \in ledger
               PROVE  /\ c.block \div EpochLength \in Nat /\ c.block \div EpochLength =< CurrentEpoch
                      /\ c.block \div EraLength = EraOfEpoch(c.block \div EpochLength)
    OBVIOUS
  <2>1. c.block \in Nat /\ c.block =< number
    BY <1>2, <1>3
  <2> QED
    BY <1>2, <2>1, DivMonotone, EraOfItsEpoch, NextQuotient, Lengths
<1>5. EraOfEpoch(CurrentEpoch) = number \div EraLength
  BY <1>2, EraOfItsEpoch
<1>6. Epoch =< EraOfEpoch(CurrentEpoch) /\ Epoch \in Int
  <2>1. CASE closed
    <3>1. Epoch = number \div EraLength /\ Epoch \in Int
      BY <1>1, <1>2, <2>1, NextQuotient, Lengths DEF Clock
    <3> QED
      BY <1>5, <3>1
  <2>2. CASE ~closed
    <3>1. number - 1 \in Nat /\ Epoch = (number - 1) \div EraLength
      BY <1>1, <1>2, <2>2 DEF Clock
    <3>2. number - 1 =< number
      BY <1>2
    <3>3. (number - 1) \div EraLength =< number \div EraLength
      BY <1>2, <3>1, <3>2, DivMonotone, Lengths
    <3>4. (number - 1) \div EraLength \in Nat
      BY <3>1, NextQuotient, Lengths
    <3> QED
      BY <1>5, <3>1, <3>3, <3>4
  <2> QED
    BY <2>1, <2>2
<1>7. ASSUME NEW era \in Periods, NEW a \in Accounts
      PROVE  /\ CreditsIn(era, a) =
                  MapThenSumSet(LAMBDA p : ServiceWeights(p)[a], EpochsOf(era))
                    + EraServiceAccumulator[era][a] + paid[era][a]
             /\ era < Epoch => paid[era][a] = CreditsIn(era, a)
  <2> DEFINE v == [e \in Periods |-> AuthoredInEpoch[e][a] + FinalityVotesInEpoch[e][a]]
             D == EpochsOf(era)
  <2>1. Moved(ledger, a, CurrentEpoch)
    BY <1>2, <1>3, EpochMoves
  <2>2. CreditsIn(era, a) = Cardinality(Folded(ledger, a, era, CurrentEpoch + 1))
    <3>1. {c \in ledger : c.who = a /\ c.block \div EraLength = era}
            = Folded(ledger, a, era, CurrentEpoch + 1)
      BY <1>2, <1>4 DEF Folded
    <3> QED
      BY <3>1 DEF CreditsIn
  <2>3. D \in SUBSET Periods /\ IsFiniteSet(D)
    <3>1. IsFiniteSet(Periods)
      BY FS_Interval, Lengths DEF Periods
    <3>2. D \in SUBSET Periods
      BY DEF EpochsOf
    <3> QED
      BY <3>1, <3>2, FS_Subset
  <2>4. MapThenSumSet(LAMBDA p : ServiceWeights(p)[a], D) = Sum(v, D)
    <3> HIDE DEF D
    <3> QED
      BY <1>1, <2>3, WeightSum
  <2>5. \A e \in Periods : v[e] \in Int /\ v[e] =
          (IF e = CurrentEpoch THEN Cardinality(OfEpoch(ledger, a, e)) ELSE 0)
    <3> SUFFICES ASSUME NEW e \in Periods
                 PROVE  v[e] \in Int /\ v[e] =
                          (IF e = CurrentEpoch THEN Cardinality(OfEpoch(ledger, a, e)) ELSE 0)
      OBVIOUS
    <3>1. v[e] \in Int /\ e \in Int
      BY <1>3 DEF Counters, Periods
    <3>2. v[e] = IF e < CurrentEpoch THEN 0 ELSE Cardinality(OfEpoch(ledger, a, e))
      BY <1>1
    <3>3. CASE e > CurrentEpoch
      <4>1. OfEpoch(ledger, a, e) = {}
        BY <1>2, <1>4, <3>1, <3>3 DEF OfEpoch
      <4> QED
        BY <1>2, <3>1, <3>2, <3>3, <4>1, FS_EmptySet
    <3>4. CASE ~(e > CurrentEpoch)
      BY <1>2, <3>1, <3>2, <3>4
    <3> QED
      BY <3>3, <3>4
  <2> HIDE DEF v
  <2>6. Sum(v, D) = IF era = EraOfEpoch(CurrentEpoch)
                    THEN Cardinality(OfEpoch(ledger, a, CurrentEpoch)) ELSE 0
    <3>1. CASE era = EraOfEpoch(CurrentEpoch)
      <4>1. {CurrentEpoch} \in SUBSET D /\ CurrentEpoch \in D
        BY <1>2, <3>1 DEF EpochsOf
      <4>2. \A e \in D : v[e] \in Int
        BY <2>3, <2>5
      <4>3. \A e \in D \ {CurrentEpoch} : v[e] = 0
        BY <2>3, <2>5
      <4> HIDE DEF D
      <4>4. Sum(v, D) = Sum(v, {CurrentEpoch})
        BY <2>3, <4>1, <4>2, <4>3, SumSupport
      <4>5. IsFiniteSet({CurrentEpoch}) /\ \A e \in {CurrentEpoch} : v[e] \in Int
        BY <1>2, <2>5, FS_Singleton
      <4>6. Sum(v, {CurrentEpoch}) = v[CurrentEpoch] + Sum(v, {CurrentEpoch} \ {CurrentEpoch})
        BY <4>5, SumTakeOut
      <4>7. {CurrentEpoch} \ {CurrentEpoch} = {} /\ v[CurrentEpoch] \in Int
        BY <4>5
      <4>8. v[CurrentEpoch] = Cardinality(OfEpoch(ledger, a, CurrentEpoch))
        BY <1>2, <2>5
      <4> QED
        BY <3>1, <4>4, <4>6, <4>7, <4>8, SumEmpty
    <3>2. CASE era # EraOfEpoch(CurrentEpoch)
      <4>1. \A e \in D : v[e] \in Int
        BY <2>3, <2>5
      <4>2. \A e \in D \ {} : v[e] = 0
        BY <2>3, <2>5, <3>2 DEF EpochsOf
      <4> HIDE DEF D
      <4>3. Sum(v, D) = Sum(v, {})
        BY <2>3, <4>1, <4>2, SumSupport
      <4> QED
        BY <3>2, <4>3, SumEmpty
    <3> QED
      BY <3>1, <3>2
  <2>7. /\ EraServiceAccumulator[era][a] + paid[era][a] = Cardinality(Folded(ledger, a, era, CurrentEpoch))
        /\ EraServiceAccumulator[era][a] \in Nat /\ paid[era][a] \in Nat
    BY <1>1, <1>3 DEF Counters
  <2>8. /\ Cardinality(Folded(ledger, a, era, CurrentEpoch + 1))
             = Cardinality(Folded(ledger, a, era, CurrentEpoch)) + Sum(v, D)
        /\ Sum(v, D) \in Nat
    BY <2>1, <2>6 DEF Moved
  <2>9. CreditsIn(era, a) = MapThenSumSet(LAMBDA p : ServiceWeights(p)[a], D)
                              + EraServiceAccumulator[era][a] + paid[era][a]
    <3>1. CreditsIn(era, a) = Sum(v, D) + EraServiceAccumulator[era][a] + paid[era][a]
      <4> HIDE DEF D
      <4> QED
        BY <2>2, <2>7, <2>8
    <3> HIDE DEF D
    <3> QED
      BY <2>4, <3>1
  <2>10. ASSUME era < Epoch PROVE paid[era][a] = CreditsIn(era, a)
    <3>1. era # EraOfEpoch(CurrentEpoch)
      BY <1>6, <2>10, <1>5, <1>2, NextQuotient, Lengths DEF Periods
    <3>2. EraServiceAccumulator[era][a] = 0
      BY <1>1, <2>10
    <3>3. Sum(v, D) = 0
      BY <2>6, <3>1
    <3> HIDE DEF D
    <3> QED
      BY <2>2, <2>7, <2>8, <3>2, <3>3
  <2> QED
    BY <2>9, <2>10
<1> QED
  BY <1>7 DEF ServiceConserved

(* For any lengths that divide each other, any committees, records and      *)
(* bindings: each vote and each authorship credited is in the counters of  *)
(* its epoch, then in the era its block belongs to, then in the payment of *)
(* that era; an era once paid was paid all that was credited in it.        *)
THEOREM ServiceIsNeverLost == Spec => []ServiceConserved
<1>1. Init => ServiceInv
  BY ServiceInit
<1>2. ServiceInv /\ [Next]_vars => ServiceInv'
  BY ServiceKept
<1>3. ServiceInv => ServiceConserved
  BY ServiceIsConserved
<1> QED
  BY <1>1, <1>2, <1>3, PTL DEF Spec

(* The evidence for standing is the rate times the service of the epochs    *)
(* that ended: none is read twice, none is cleared before it is read.      *)
THEOREM EvidenceIsService == Spec => []EvidenceMatchesService
<1>1. Init => ServiceInv
  BY ServiceInit
<1>2. ServiceInv /\ [Next]_vars => ServiceInv'
  BY ServiceKept
<1>3. ServiceInv => EvidenceMatchesService
  BY DEF ServiceInv, EvidenceMatchesService, Past
<1> QED
  BY <1>1, <1>2, <1>3, PTL DEF Spec

-----------------------------------------------------------------------------
(* The streaks of service.                                                 *)
LEMMA CapIsPositive == Max({MaxStreak, 1}) \in Nat /\ Max({MaxStreak, 1}) >= 1
<1>1. PICK x \in Nat, one \in Nat : x = MaxStreak /\ one = 1
  BY Lengths
<1>2. Max({x, one}) = IF x =< one THEN one ELSE x
  BY <1>1, MinMaxOfTwo
<1>3. Max({x, one}) \in Nat /\ Max({x, one}) >= 1
  BY <1>1, <1>2
<1> QED
  BY <1>1, <1>3

InARow(book, last, a) == {e \in 0..(last - 1) : \A f \in e..(last - 1) : book[f][a] > 0}

LEMMA RowGrows ==
  ASSUME NEW book \in Counters, NEW last \in Periods, NEW pay \in [Accounts -> Nat], NEW a \in Accounts
  PROVE  /\ IsFiniteSet(InARow(book, last, a))
         /\ Cardinality(InARow([book EXCEPT ![last] = pay], last + 1, a))
              = IF pay[a] > 0 THEN Cardinality(InARow(book, last, a)) + 1 ELSE 0
<1> DEFINE new == [book EXCEPT ![last] = pay]
<1>1. last \in Nat /\ (last + 1) - 1 = last
  BY DEF Periods
<1>2. new[last] = pay /\ \A f \in 0..(last - 1) : new[f] = book[f]
  <2>1. \A f \in 0..(last - 1) : f \in Periods /\ f # last
    BY <1>1, Lengths DEF Periods
  <2> QED
    BY <2>1 DEF Counters
<1>3. IsFiniteSet(InARow(book, last, a))
  <2>1. IsFiniteSet(0..(last - 1))
    BY <1>1, FS_Interval
  <2> QED
    BY <2>1, FS_Subset DEF InARow
<1> HIDE DEF new
<1>4. InARow(new, last + 1, a) = {e \in 0..last : \A f \in e..last : new[f][a] > 0}
  BY <1>1 DEF InARow
<1>5. CASE pay[a] > 0
  <2>1. ASSUME NEW e \in 0..last
        PROVE  (\A f \in e..last : new[f][a] > 0) <=> e = last \/ e \in InARow(book, last, a)
    <3>1. CASE e = last
      BY <1>1, <1>2, <1>5, <3>1
    <3>2. CASE e # last
      <4>1. e \in 0..(last - 1) /\ \A f \in e..last : f = last \/ f \in e..(last - 1)
        BY <1>1, <3>2
      <4>2. \A f \in e..(last - 1) : new[f] = book[f] /\ f \in e..last
        BY <1>1, <1>2, <4>1
      <4> QED
        BY <1>2, <1>5, <3>2, <4>1, <4>2 DEF InARow
    <3> QED
      BY <3>1, <3>2
  <2>2. InARow(new, last + 1, a) = InARow(book, last, a) \cup {last} /\ last \notin InARow(book, last, a)
    <3>1. last \in 0..last /\ \A e \in InARow(book, last, a) : e \in 0..last /\ e # last
      BY <1>1 DEF InARow
    <3> QED
      BY <1>4, <2>1, <3>1
  <2> QED
    BY <1>3, <1>5, <2>2, FS_AddElement DEF new
<1>6. CASE ~(pay[a] > 0)
  <2>1. InARow(new, last + 1, a) = {}
    <3>1. \A e \in 0..last : last \in e..last
      BY <1>1
    <3> QED
      BY <1>2, <1>4, <1>6, <3>1
  <2> QED
    BY <1>3, <1>6, <2>1, FS_EmptySet DEF new
<1> QED
  BY <1>5, <1>6

StreakInv == ServiceInv /\ StreakIsEndurance

LEMMA StreakPaid ==
  ASSUME StreakInv, PayEra
  PROVE  StreakIsEndurance'
<1> DEFINE cap == Max({MaxStreak, 1})
<1>1. Epoch \in Periods /\ EraServiceAccumulator \in Counters /\ paid \in Counters
  <2>1. Clock /\ BooksTyped
    BY DEF StreakInv, ServiceInv
  <2>2. Epoch \in Periods
    <3>1. CASE closed
      BY <2>1, <3>1, InPeriods, Lengths DEF Clock
    <3>2. CASE ~closed
      <4>1. Epoch = (number - 1) \div EraLength /\ number - 1 \in 0..MaxBlock
        BY <2>1, <3>2, Lengths DEF Clock
      <4> QED
        BY <4>1, InPeriods, Lengths
    <3> QED
      BY <3>1, <3>2
  <2> QED
    BY <2>1, <2>2 DEF BooksTyped
<1>2. cap \in Nat /\ cap >= 1
  BY CapIsPositive
<1>3. /\ paid' = [paid EXCEPT ![Epoch] = EraServiceAccumulator[Epoch]] /\ Epoch' = Epoch + 1
      /\ ConsecutiveEras' = [a \in Accounts |-> Streak(Epoch, a)]
  BY DEF PayEra, EraServiceFeed, CloseEra
<1> HIDE DEF cap
<1>4. ASSUME NEW a \in Accounts
      PROVE  ConsecutiveEras'[a] = Min({Cardinality(InARow(paid', Epoch', a)), cap})
  <2> DEFINE R == Cardinality(InARow(paid, Epoch, a))
             pay == EraServiceAccumulator[Epoch]
  <2>1. ConsecutiveEras[a] = Min({R, cap})
    <3>1. ConsecutiveEras[a] = Min({ErasInARow(a), Max({MaxStreak, 1})})
      BY DEF StreakInv, StreakIsEndurance
    <3>2. ErasInARow(a) = R
      BY DEF ErasInARow, InARow
    <3> QED
      BY <3>1, <3>2 DEF cap
  <2>2. pay \in [Accounts -> Nat]
    BY <1>1 DEF Counters
  <2>3. /\ R \in Nat
        /\ Cardinality(InARow(paid', Epoch', a)) = IF pay[a] > 0 THEN R + 1 ELSE 0
    <3>1. IsFiniteSet(InARow(paid, Epoch, a))
      BY <1>1, <2>2, RowGrows
    <3> QED
      BY <1>1, <1>3, <2>2, <3>1, RowGrows, FS_CardinalityType
  <2> HIDE DEF R
  <2>4. CASE pay[a] > 0
    <3>1. ConsecutiveEras'[a] = Min({ConsecutiveEras[a] + 1, cap})
      BY <1>3, <2>4 DEF Streak, Serves, Longer, cap
    <3>2. ConsecutiveEras[a] \in Int /\ ConsecutiveEras[a] = IF R =< cap THEN R ELSE cap
      BY <1>2, <2>1, <2>3, MinMaxOfTwo
    <3>3. Min({ConsecutiveEras[a] + 1, cap})
            = IF ConsecutiveEras[a] + 1 =< cap THEN ConsecutiveEras[a] + 1 ELSE cap
      BY <1>2, <3>2, MinMaxOfTwo
    <3>4. Min({R + 1, cap}) = IF R + 1 =< cap THEN R + 1 ELSE cap
      BY <1>2, <2>3, MinMaxOfTwo
    <3> QED
      BY <1>2, <2>3, <2>4, <3>1, <3>2, <3>3, <3>4
  <2>5. CASE ~(pay[a] > 0)
    <3>1. ConsecutiveEras'[a] = 0
      BY <1>3, <2>5 DEF Streak, Serves
    <3>2. Min({0, cap}) = 0
      BY <1>2, MinMaxOfTwo
    <3> QED
      BY <2>3, <2>5, <3>1, <3>2
  <2> QED
    BY <2>4, <2>5
<1> QED
  BY <1>4 DEF StreakIsEndurance, ErasInARow, InARow, cap

(* For any lengths, cap and record of service: the streak that multiplies   *)
(* an account's SOV is the number of eras in a row, up to the last one     *)
(* paid, that paid it for service, and no more than the cap.               *)
THEOREM StreaksAreEarned == Spec => []StreakIsEndurance
<1>1. Init => StreakInv
  <2> SUFFICES ASSUME Init PROVE StreakIsEndurance
    BY ServiceInit DEF StreakInv
  <2>1. Epoch = 0 /\ ConsecutiveEras = Nobody
    BY DEF Init, InitParticipation
  <2>2. ASSUME NEW a \in Accounts PROVE ErasInARow(a) = 0
    <3>1. 0..(0 - 1) = {}
      OBVIOUS
    <3>2. {e \in 0..(Epoch - 1) : \A f \in e..(Epoch - 1) : paid[f][a] > 0} = {}
      BY <2>1, <3>1
    <3> QED
      BY <3>2, FS_EmptySet DEF ErasInARow
  <2>3. Min({0, Max({MaxStreak, 1})}) = 0
    <3>1. PICK cap \in Nat : cap = Max({MaxStreak, 1}) /\ cap >= 1
      BY CapIsPositive
    <3>2. Min({0, cap}) = 0
      BY <3>1, MinMaxOfTwo
    <3> QED
      BY <3>1, <3>2
  <2> QED
    BY <2>1, <2>2, <2>3 DEF StreakIsEndurance, Nobody
<1>2. StreakInv /\ [Next]_vars => StreakInv'
  <2> SUFFICES ASSUME StreakInv, [Next]_vars PROVE StreakIsEndurance'
    BY ServiceKept DEF StreakInv
  <2>1. ASSUME UNCHANGED <<paid, Epoch, ConsecutiveEras>> PROVE StreakIsEndurance'
    BY <2>1 DEF StreakInv, StreakIsEndurance, ErasInARow
  <2>2. CASE CloseBlock
    BY <2>1, <2>2, StreakPaid DEF CloseBlock, eras
  <2>3. CASE UNCHANGED vars
    BY <2>1, <2>3 DEF vars, participation, eras, history
  <2>4. CASE OpenBlock
    BY <2>1, <2>4 DEF OpenBlock, OnInitialize, history
  <2>5. ASSUME NEW record \in Records, Note(record) PROVE StreakIsEndurance'
    BY <2>1, <2>5 DEF Note, NoteParticipation, eras
  <2>6. ASSUME NEW hot \in Keys, Beat(hot) PROVE StreakIsEndurance'
    BY <2>1, <2>6 DEF Beat, participation, eras
  <2>7. ASSUME NEW who \in Accounts, NEW key \in Keys, Bind(who, key) PROVE StreakIsEndurance'
    BY <2>1, <2>7 DEF Bind, participation, eras, history
  <2>8. ASSUME NEW who \in Accounts, Unbind(who) PROVE StreakIsEndurance'
    BY <2>1, <2>8 DEF Unbind, participation, eras, history
  <2> QED
    BY <2>2, <2>3, <2>4, <2>5, <2>6, <2>7, <2>8 DEF Next
<1>3. StreakInv => StreakIsEndurance
  BY DEF StreakInv
<1> QED
  BY <1>1, <1>2, <1>3, PTL DEF Spec

-----------------------------------------------------------------------------
(* The days a mask hosts.  Which days a streak joins, of any set of days,   *)
(* and where the last streak of a set begins.                              *)
Gapless(D, first, last) ==
  \A d \in D \cap (first..(last - 1)) : \E next \in D : d < next /\ next =< d + MaxGapDays + 1
Started(D, last, start) ==
  /\ last \in D /\ start \in D /\ \A d \in D : d =< last
  /\ Gapless(D, start, last)
  /\ \A first \in D : Gapless(D, first, last) => start =< first

LEMMA GapsKept ==
  ASSUME NEW D \in SUBSET Nat, NEW t \in Nat, \A d \in D : d < t,
         NEW first \in D, NEW last \in D
  PROVE  Gapless(D \cup {t}, first, last) <=> Gapless(D, first, last)
<1>1. ASSUME NEW d \in D \cap (first..(last - 1))
      PROVE  (\E next \in D \cup {t} : d < next /\ next =< d + MaxGapDays + 1)
               <=> (\E next \in D : d < next /\ next =< d + MaxGapDays + 1)
  <2>1. d \in Nat /\ last \in Nat /\ d < last /\ last < t /\ MaxGapDays \in Nat
    BY Lengths
  <2> QED
    BY <2>1
<1>2. (D \cup {t}) \cap (first..(last - 1)) = D \cap (first..(last - 1))
  <2>1. t \notin first..(last - 1)
    OBVIOUS
  <2> QED
    BY <2>1
<1> QED
  BY <1>1, <1>2 DEF Gapless

LEMMA StreakStarts ==
  ASSUME NEW D \in SUBSET Nat, NEW last, NEW start, Started(D, last, start),
         NEW t \in Nat, last < t
  PROVE  Started(D \cup {t}, t, IF t - last =< MaxGapDays + 1 THEN start ELSE t)
<1>1. /\ last \in D /\ start \in D /\ \A d \in D : d =< last
      /\ Gapless(D, start, last)
      /\ \A first \in D : Gapless(D, first, last) => start =< first
  BY DEF Started
<1>2. /\ last \in Nat /\ start \in Nat /\ MaxGapDays \in Nat
      /\ \A d \in D : d \in Nat /\ d =< last /\ d < t
  BY <1>1, Lengths
<1>3. Gapless(D \cup {t}, t, t)
  BY DEF Gapless
<1>4. CASE t - last =< MaxGapDays + 1
  <2>1. ASSUME NEW first \in D PROVE Gapless(D \cup {t}, first, t) <=> Gapless(D, first, last)
    <3>1. ASSUME Gapless(D, first, last) PROVE Gapless(D \cup {t}, first, t)
      <4> SUFFICES ASSUME NEW d \in (D \cup {t}) \cap (first..(t - 1))
                   PROVE  \E next \in D \cup {t} : d < next /\ next =< d + MaxGapDays + 1
        BY DEF Gapless
      <4>1. d \in D /\ d \in Nat /\ d =< last
        BY <1>2
      <4>2. CASE d = last
        BY <1>2, <1>4, <4>2
      <4>3. CASE d # last
        <5>1. d \in first..(last - 1)
          BY <1>2, <4>1, <4>3
        <5> QED
          BY <3>1, <4>1, <5>1 DEF Gapless
      <4> QED
        BY <4>2, <4>3
    <3>2. ASSUME Gapless(D \cup {t}, first, t) PROVE Gapless(D, first, last)
      <4> SUFFICES ASSUME NEW d \in D \cap (first..(last - 1))
                   PROVE  \E next \in D : d < next /\ next =< d + MaxGapDays + 1
        BY DEF Gapless
      <4>1. d \in (D \cup {t}) \cap (first..(t - 1)) /\ d \in Nat /\ d < last
        BY <1>2
      <4>2. PICK next \in D \cup {t} : d < next /\ next =< d + MaxGapDays + 1
        BY <3>2, <4>1 DEF Gapless
      <4>3. CASE next \in D
        BY <4>2, <4>3
      <4>4. CASE next = t
        BY <1>1, <1>2, <4>1, <4>2, <4>4
      <4> QED
        BY <4>3, <4>4
    <3> QED
      BY <3>1, <3>2
  <2>2. \A first \in D \cup {t} : Gapless(D \cup {t}, first, t) => start =< first
    BY <1>1, <1>2, <2>1
  <2>3. Gapless(D \cup {t}, start, t)
    BY <1>1, <2>1
  <2> QED
    BY <1>1, <1>2, <1>4, <2>2, <2>3 DEF Started
<1>5. CASE ~(t - last =< MaxGapDays + 1)
  <2>1. ASSUME NEW first \in D PROVE ~Gapless(D \cup {t}, first, t)
    <3>1. last \in (D \cup {t}) \cap (first..(t - 1))
      BY <1>1, <1>2
    <3>2. ~ \E next \in D \cup {t} : last < next /\ next =< last + MaxGapDays + 1
      BY <1>2, <1>5
    <3> QED
      BY <3>1, <3>2 DEF Gapless
  <2>2. \A first \in D \cup {t} : Gapless(D \cup {t}, first, t) => t =< first
    BY <2>1
  <2> QED
    BY <1>2, <1>3, <1>5, <2>2 DEF Started
<1> QED
  BY <1>4, <1>5

LEMMA StreakBegins ==
  ASSUME NEW t \in Nat
  PROVE  Started({t}, t, t)
BY DEF Started, Gapless

-----------------------------------------------------------------------------
DaysIn(L, a) == {b.day : b \in {x \in L : x.who = a}}
CountedIn(L, a, era) == {b \in L : b.who = a /\ b.counted /\ EraOfDay(b.day) = era}
Hosts(days) == {a \in Accounts : days[a] > 0}

HostsTyped ==
  /\ HostDays \in Counters /\ hostPaid \in Counters /\ HostCount \in [Periods -> Nat]
  /\ IsFiniteSet(beatLog)
  /\ beatLog \subseteq [who : Accounts, day : Periods, counted : BOOLEAN, nth : Nat]
  /\ \A b \in beatLog : b.nth < Cardinality(beatLog)
  /\ Beats \in [Accounts -> [last_day : Periods, streak_start : Periods] \cup {None}]

(* Where each mask stands is where the log of its beats leaves it.         *)
BeatsStand ==
  \A a \in Accounts :
    IF Beats[a] = None THEN DaysIn(beatLog, a) = {}
    ELSE /\ Beats[a].last_day =< Today
         /\ Started(DaysIn(beatLog, a), Beats[a].last_day, Beats[a].streak_start)

HostBooks ==
  /\ \A era \in Periods, a \in Accounts :
       /\ HostDays[era][a] + hostPaid[era][a] = Cardinality(CountedIn(beatLog, a, era))
       /\ era < Epoch => HostDays[era][a] = 0
       /\ era >= Epoch => hostPaid[era][a] = 0
  /\ \A era \in Periods :
       /\ HostCount[era] = Cardinality(Hosts(HostDays[era]))
       /\ HostCount[era] =< MaxHostsPerEra

HostInv == Clock /\ Delegated /\ HostsTyped /\ BeatsStand /\ HostBooks /\ HostedDaysEarned

LEMMA DaysAre == \A a : DaysOf(a) = DaysIn(beatLog, a)
BY DEF DaysOf, DaysIn

LEMMA EpochPlace ==
  ASSUME Clock
  PROVE  /\ number \in Nat /\ Epoch \in Periods /\ Epoch \in Nat
         /\ HostEra \in Periods /\ HostEra \in Nat /\ Epoch =< HostEra
         /\ Today \in Periods /\ Today \in Nat /\ EraOfDay(Today) = HostEra
<1>1. number \in 0..MaxBlock /\ number \in Nat
  BY Lengths DEF Clock
<1>2. HostEra \in Periods /\ Today \in Periods
  BY <1>1, InPeriods, Lengths DEF HostEra, Today
<1>3. Epoch \in Periods /\ Epoch =< HostEra
  <2>1. CASE closed
    BY <1>2, <2>1 DEF Clock, HostEra, Periods
  <2>2. CASE ~closed
    <3>1. Epoch = (number - 1) \div EraLength /\ number - 1 \in 0..MaxBlock /\ number - 1 \in Nat
          /\ number - 1 =< number
      BY <1>1, <2>2, Lengths DEF Clock
    <3>2. (number - 1) \div EraLength =< number \div EraLength
      BY <1>1, <3>1, DivMonotone, Lengths
    <3> QED
      BY <3>1, <3>2, InPeriods, Lengths DEF HostEra
  <2> QED
    BY <2>1, <2>2
<1>4. EraOfDay(Today) = HostEra
  BY <1>1, PeriodInside, Lengths DEF EraOfDay, Today, HostEra
<1> QED
  BY <1>1, <1>2, <1>3, <1>4 DEF Periods

LEMMA HostInit == Init => HostInv
<1> SUFFICES ASSUME Init PROVE HostInv
  OBVIOUS
<1>1. /\ Beats = [a \in Accounts |-> None] /\ HostCount = [e \in Periods |-> 0] /\ HostDays = Never
      /\ beatLog = {} /\ hostPaid = Never /\ Epoch = 0
  BY DEF Init, InitHosting
<1>2. Clock /\ Delegated
  BY ServiceInit, DelegatedInit DEF ServiceInv
<1>3. Never \in Counters /\ \A p \in Periods, a \in Accounts : Never[p][a] = 0
  BY DEF Never, Nobody, Counters
<1>4. HostsTyped
  BY <1>1, <1>3, FS_EmptySet DEF HostsTyped
<1>5. BeatsStand
  BY <1>1 DEF BeatsStand, DaysIn
<1>6. HostBooks
  <2>1. \A era \in Periods, a \in Accounts : Cardinality(CountedIn(beatLog, a, era)) = 0
    <3>1. \A era \in Periods, a \in Accounts : CountedIn(beatLog, a, era) = {}
      BY <1>1 DEF CountedIn
    <3> QED
      BY <3>1, FS_EmptySet
  <2>2. \A era \in Periods : Cardinality(Hosts(HostDays[era])) = 0
    <3>1. \A era \in Periods : Hosts(HostDays[era]) = {}
      BY <1>1, <1>3 DEF Hosts
    <3> QED
      BY <3>1, FS_EmptySet
  <2> QED
    BY <1>1, <1>3, <2>1, <2>2, Lengths DEF HostBooks
<1>7. HostedDaysEarned
  BY <1>1 DEF HostedDaysEarned
<1> QED
  BY <1>2, <1>4, <1>5, <1>6, <1>7 DEF HostInv

LEMMA HostStays ==
  ASSUME HostInv, Clock', Delegated', Today =< Today',
         UNCHANGED <<HostDays, hostPaid, HostCount, beatLog, Beats, Epoch>>
  PROVE  HostInv'
<1>1. HostsTyped'
  BY DEF HostInv, HostsTyped
<1>2. BeatsStand'
  <2>1. \A a \in Accounts : Beats[a] # None => Beats[a].last_day =< Today'
    <3>1. Today \in Int /\ Today' \in Int
      <4>1. Today \in Nat
        BY EpochPlace DEF HostInv
      <4>2. number' \in Nat /\ Today' = number' \div DayLength
        BY Lengths DEF Clock, Today
      <4> QED
        BY <4>1, <4>2, NextQuotient, Lengths
    <3>2. \A a \in Accounts : Beats[a] # None => Beats[a].last_day \in Int
      BY DEF HostInv, HostsTyped, Periods
    <3> QED
      BY <3>1, <3>2 DEF HostInv, BeatsStand
  <2> QED
    BY <2>1 DEF HostInv, BeatsStand
<1>3. HostBooks'
  BY DEF HostInv, HostBooks
<1>4. HostedDaysEarned'
  BY DEF HostInv, HostedDaysEarned, HostsBefore, Earned, DaysOf, Unbroken
<1> QED
  BY <1>1, <1>2, <1>3, <1>4 DEF HostInv

LEMMA HostPaid ==
  ASSUME HostInv, Clock', CloseBlock, PayEra
  PROVE  HostInv'
<1>1. /\ hostPaid' = [hostPaid EXCEPT ![Epoch] = HostDays[Epoch]]
      /\ HostDays' = [HostDays EXCEPT ![Epoch] = Nobody]
      /\ HostCount' = [HostCount EXCEPT ![Epoch] = 0]
      /\ Epoch' = Epoch + 1 /\ UNCHANGED <<number, Beats, VoteKeys, VoteKeyOwner, beatLog>>
  BY DEF CloseBlock, PayEra, HostingFeed, ClearHosts, delegation
<1>2. Epoch \in Periods /\ Epoch \in Nat /\ MaxHostsPerEra \in Nat
  BY EpochPlace, Lengths DEF HostInv
<1>3. Nobody \in [Accounts -> Nat] /\ \A a \in Accounts : Nobody[a] = 0
  BY DEF Nobody
<1>4. HostsTyped /\ BeatsStand /\ HostBooks /\ HostedDaysEarned /\ Delegated
  BY DEF HostInv
<1>5. HostsTyped'
  <2>1. HostDays' \in Counters /\ hostPaid' \in Counters
    BY <1>1, <1>2, <1>3, <1>4 DEF HostsTyped, Counters
  <2> QED
    BY <1>1, <1>4, <2>1 DEF HostsTyped
<1>6. BeatsStand'
  BY <1>1, <1>4 DEF BeatsStand, Today
<1>7. HostBooks'
  <2>1. ASSUME NEW era \in Periods, NEW a \in Accounts
        PROVE  /\ HostDays'[era][a] + hostPaid'[era][a] = Cardinality(CountedIn(beatLog, a, era))
               /\ era < Epoch' => HostDays'[era][a] = 0
               /\ era >= Epoch' => hostPaid'[era][a] = 0
    <3>1. /\ HostDays[era][a] \in Nat /\ hostPaid[era][a] \in Nat /\ era \in Int
          /\ HostDays[era][a] + hostPaid[era][a] = Cardinality(CountedIn(beatLog, a, era))
      <4>1. HostDays[era][a] \in Nat /\ hostPaid[era][a] \in Nat /\ era \in Int
        BY <1>4 DEF HostsTyped, Counters, Periods
      <4>2. HostDays[era][a] + hostPaid[era][a] = Cardinality(CountedIn(beatLog, a, era))
        BY <1>4 DEF HostBooks
      <4> QED
        BY <4>1, <4>2
    <3>2. CASE era = Epoch
      <4>1. HostDays'[era][a] = 0 /\ hostPaid'[era][a] = HostDays[era][a] /\ hostPaid[era][a] = 0
        BY <1>1, <1>2, <1>3, <1>4, <3>2 DEF HostsTyped, HostBooks, Counters
      <4> QED
        BY <1>1, <1>2, <3>1, <3>2, <4>1
    <3>3. CASE era # Epoch
      <4>1. HostDays'[era] = HostDays[era] /\ hostPaid'[era] = hostPaid[era]
        BY <1>1, <1>4, <3>3 DEF HostsTyped, Counters
      <4> QED
        BY <1>1, <1>2, <1>4, <3>1, <3>3, <4>1 DEF HostBooks
    <3> QED
      BY <3>2, <3>3
  <2>2. ASSUME NEW era \in Periods
        PROVE  HostCount'[era] = Cardinality(Hosts(HostDays'[era])) /\ HostCount'[era] =< MaxHostsPerEra
    <3>1. CASE era = Epoch
      <4>1. HostCount'[era] = 0 /\ HostDays'[era] = Nobody
        BY <1>1, <1>4, <3>1 DEF HostsTyped, Counters
      <4>2. Hosts(Nobody) = {}
        BY <1>3 DEF Hosts
      <4> QED
        BY <1>2, <4>1, <4>2, FS_EmptySet
    <3>2. CASE era # Epoch
      <4>1. HostCount'[era] = HostCount[era] /\ HostDays'[era] = HostDays[era]
        BY <1>1, <1>4, <3>2 DEF HostsTyped, Counters
      <4> QED
        BY <1>4, <4>1 DEF HostBooks
    <3> QED
      BY <3>1, <3>2
  <2> QED
    BY <1>1, <2>1, <2>2 DEF HostBooks
<1>8. HostedDaysEarned'
  BY <1>1, <1>4 DEF HostedDaysEarned, HostsBefore, Earned, DaysOf, Unbroken
<1>9. Delegated'
  BY <1>1, <1>4 DEF Delegated, MapsInverse
<1> QED
  BY <1>5, <1>6, <1>7, <1>8, <1>9 DEF HostInv

(* A beat adds one entry to the log, for a day the mask had none on.       *)
NewBeat(a, counted) ==
  [who |-> a, day |-> Today, counted |-> counted, nth |-> Cardinality(beatLog)]

LEMMA BeatIsNew ==
  ASSUME HostInv, NEW hot \in Keys, Beat(hot), NEW a, a = MaskOf(hot)
  PROVE  /\ a \in Accounts /\ number \in 1..MaxBlock
         /\ beatLog' = beatLog \cup {NewBeat(a, DayCounts(a))}
         /\ \A d \in DaysIn(beatLog, a) : d \in Nat /\ d < Today
         /\ Beats' = [Beats EXCEPT ![a] = [last_day |-> Today, streak_start |-> StreakStart(a)]]
         /\ Started(DaysIn(beatLog, a) \cup {Today}, Today, StreakStart(a))
         /\ StreakStart(a) \in Periods
         /\ IF DayCounts(a) THEN CountDay(a) ELSE UNCHANGED <<HostCount, HostDays>>
         /\ UNCHANGED <<number, closed, Epoch, hostPaid, VoteKeys, VoteKeyOwner>>
<1> DEFINE D == DaysIn(beatLog, a)
<1>1. PICK at \in 0..number : Heartbeat(hot, at)
  BY DEF Beat
<1>2. /\ HostsTyped /\ BeatsStand /\ Delegated /\ Clock
      /\ Today \in Nat /\ Today \in Periods /\ number \in Nat
  BY EpochPlace DEF HostInv
<1>3. a # None /\ a \in Accounts
  BY <1>1, <1>2 DEF Heartbeat, MaskOf, Delegated
<1>4. D \in SUBSET Nat
  BY <1>2 DEF DaysIn, HostsTyped, Periods
<1>5. NotToday(a) /\ Recent(at)
  BY <1>1 DEF Heartbeat
<1>6. number \in 1..MaxBlock
  <2>1. at < number /\ at \in Nat /\ number \in 0..MaxBlock
    BY <1>1, <1>2, <1>5 DEF Recent, Clock
  <2> QED
    BY <2>1, Lengths
<1>7. CASE Beats[a] = None
  <2>1. D = {} /\ StreakStart(a) = Today
    BY <1>2, <1>3, <1>7 DEF BeatsStand, StreakStart
  <2>2. Started({Today}, Today, Today)
    BY <1>2, StreakBegins
  <2>3. D \cup {Today} = {Today}
    BY <2>1
  <2> QED
    BY <1>1, <1>2, <1>3, <1>6, <2>1, <2>2, <2>3
    DEF Beat, Heartbeat, NewBeat, participation, delegation
<1>8. CASE Beats[a] # None
  <2> DEFINE l == Beats[a].last_day
             s == Beats[a].streak_start
  <2>1. /\ l \in Nat /\ s \in Nat /\ s \in Periods /\ l < Today /\ Started(D, l, s)
    <3>1. Beats[a] \in [last_day : Periods, streak_start : Periods]
      BY <1>2, <1>3, <1>8 DEF HostsTyped
    <3>2. l < Today
      BY <1>5, <1>8 DEF NotToday
    <3> QED
      BY <1>2, <1>3, <1>8, <3>1, <3>2 DEF BeatsStand, Periods
  <2>2. StreakStart(a) = IF Today - l =< MaxGapDays + 1 THEN s ELSE Today
    BY <1>8 DEF StreakStart
  <2> HIDE DEF l, s
  <2>3. \A d \in D : d \in Nat /\ d < Today
    BY <1>2, <1>4, <2>1 DEF Started
  <2> HIDE DEF D
  <2>4. Started(D \cup {Today}, Today, StreakStart(a))
    BY <1>2, <1>4, <2>1, <2>2, StreakStarts
  <2>5. StreakStart(a) \in Periods
    BY <1>2, <2>1, <2>2
  <2> QED
    BY <1>1, <1>3, <1>6, <2>3, <2>4, <2>5
    DEF Beat, Heartbeat, NewBeat, participation, delegation, D
<1> QED
  BY <1>7, <1>8

LEMMA DayCounted ==
  ASSUME HostDays \in Counters, NEW mask \in Accounts, CountDay(mask), HostEra \in Periods
  PROVE  HostDays' = [HostDays EXCEPT ![HostEra] =
                        [HostDays[HostEra] EXCEPT ![mask] = HostDays[HostEra][mask] + 1]]
BY DEF CountDay, Counters

LEMMA HostBeat ==
  ASSUME HostInv, NEW hot \in Keys, Beat(hot)
  PROVE  HostInv'
<1> PICK a : a = MaskOf(hot)
  OBVIOUS
<1> PICK new : new = NewBeat(a, DayCounts(a))
  OBVIOUS
<1> DEFINE D == DaysIn(beatLog, a)
<1>1. /\ a \in Accounts /\ number \in 1..MaxBlock
      /\ beatLog' = beatLog \cup {new}
      /\ \A d \in D : d \in Nat /\ d < Today
      /\ Beats' = [Beats EXCEPT ![a] = [last_day |-> Today, streak_start |-> StreakStart(a)]]
      /\ Started(D \cup {Today}, Today, StreakStart(a))
      /\ StreakStart(a) \in Periods
      /\ IF DayCounts(a) THEN CountDay(a) ELSE UNCHANGED <<HostCount, HostDays>>
      /\ UNCHANGED <<number, closed, Epoch, hostPaid, VoteKeys, VoteKeyOwner>>
  BY BeatIsNew
<1>2. /\ HostsTyped /\ BeatsStand /\ Delegated /\ Clock /\ HostBooks /\ HostedDaysEarned
      /\ Today \in Nat /\ Today \in Periods /\ HostEra \in Periods /\ HostEra \in Nat
      /\ Epoch \in Nat /\ Epoch =< HostEra /\ EraOfDay(Today) = HostEra
      /\ Today' = Today
  BY <1>1, EpochPlace DEF HostInv, Today
<1>3. new.who = a /\ new.day = Today /\ new.nth = Cardinality(beatLog)
  BY DEF NewBeat
<1>4. /\ new.counted <=> DayCounts(a)
      /\ new \in [who : Accounts, day : Periods, counted : BOOLEAN, nth : Nat]
  <2>1. DayCounts(a) \in BOOLEAN
    BY DEF DayCounts
  <2>2. Cardinality(beatLog) \in Nat
    BY <1>2, FS_CardinalityType DEF HostsTyped
  <2> QED
    BY <1>1, <1>2, <2>1, <2>2 DEF NewBeat
<1>5. DaysIn(beatLog', a) = D \cup {Today}
  BY <1>1, <1>3 DEF DaysIn
<1>6. \A b \in Accounts : b # a => DaysIn(beatLog', b) = DaysIn(beatLog, b)
  BY <1>1, <1>3 DEF DaysIn
<1>7. new \notin beatLog
  <2>1. Today \notin D
    BY <1>1, <1>2
  <2> QED
    BY <1>3, <2>1 DEF DaysIn
<1>8. \A b \in beatLog : b.who = a => b.day \in D
  BY DEF DaysIn
<1>9. ASSUME NEW b \in Accounts, NEW era \in Periods
      PROVE  /\ IsFiniteSet(CountedIn(beatLog, b, era))
             /\ Cardinality(CountedIn(beatLog', b, era)) = Cardinality(CountedIn(beatLog, b, era))
                  + (IF b = a /\ era = HostEra /\ DayCounts(a) THEN 1 ELSE 0)
  <2>1. IsFiniteSet(CountedIn(beatLog, b, era))
    BY <1>2, FS_Subset DEF HostsTyped, CountedIn
  <2>2. CASE b = a /\ era = HostEra /\ DayCounts(a)
    <3>1. CountedIn(beatLog', b, era) = CountedIn(beatLog, b, era) \cup {new}
          /\ new \notin CountedIn(beatLog, b, era)
      <4>1. new.who = b /\ EraOfDay(new.day) = era
        BY <1>2, <1>3, <2>2
      <4>2. new.counted
        BY <1>4, <2>2
      <4> HIDE DEF D
      <4> QED
        BY <1>1, <1>7, <4>1, <4>2 DEF CountedIn
    <3>2. Cardinality(CountedIn(beatLog', b, era)) = Cardinality(CountedIn(beatLog, b, era)) + 1
      BY <2>1, <3>1, FS_AddElement
    <3> QED
      BY <2>1, <2>2, <3>2
  <2>3. CASE ~(b = a /\ era = HostEra /\ DayCounts(a))
    <3>1. CountedIn(beatLog', b, era) = CountedIn(beatLog, b, era)
      BY <1>1, <1>2, <1>3, <1>4, <2>3 DEF CountedIn
    <3> QED
      BY <2>1, <2>3, <3>1, FS_CardinalityType
  <2> QED
    BY <2>1, <2>2, <2>3
<1>10. /\ HostDays \in Counters /\ hostPaid \in Counters /\ HostCount \in [Periods -> Nat]
       /\ HostDays[HostEra] \in [Accounts -> Nat] /\ HostDays[HostEra][a] \in Nat
       /\ HostCount[HostEra] \in Nat
  <2>1. HostDays \in Counters /\ hostPaid \in Counters /\ HostCount \in [Periods -> Nat]
    BY <1>2 DEF HostsTyped
  <2>2. HostDays[HostEra] \in [Accounts -> Nat] /\ HostCount[HostEra] \in Nat
    BY <1>2, <2>1 DEF Counters
  <2> QED
    BY <1>1, <2>1, <2>2
<1>11. /\ HostDays' \in Counters
       /\ \A era \in Periods, b \in Accounts : HostDays'[era][b] = HostDays[era][b]
            + (IF b = a /\ era = HostEra /\ DayCounts(a) THEN 1 ELSE 0)
  <2>1. CASE DayCounts(a)
    <3>1. HostDays' = [HostDays EXCEPT ![HostEra] = [HostDays[HostEra] EXCEPT ![a] = HostDays[HostEra][a] + 1]]
      <4>1. CountDay(a) /\ HostDays \in Counters /\ HostEra \in Periods /\ a \in Accounts
        BY <1>1, <1>2, <1>10, <2>1
      <4> QED
        BY <4>1, DayCounted
    <3>2. [HostDays[HostEra] EXCEPT ![a] = HostDays[HostEra][a] + 1] \in [Accounts -> Nat]
      <4>1. HostDays[HostEra] \in [Accounts -> Nat] /\ HostDays[HostEra][a] + 1 \in Nat
        BY <1>10
      <4> QED
        BY <4>1
    <3>3. HostDays' \in Counters
      BY <1>10, <3>1, <3>2 DEF Counters
    <3>4. ASSUME NEW era \in Periods, NEW b \in Accounts
          PROVE  HostDays'[era][b] = HostDays[era][b] + (IF b = a /\ era = HostEra THEN 1 ELSE 0)
      <4>1. HostDays[era] \in [Accounts -> Nat] /\ HostDays[era][b] \in Nat
        BY <1>10 DEF Counters
      <4>2. CASE era = HostEra
        <5>1. HostDays'[era] = [HostDays[HostEra] EXCEPT ![a] = HostDays[HostEra][a] + 1]
          BY <1>10, <3>1, <4>2 DEF Counters
        <5> QED
          BY <4>1, <4>2, <5>1
      <4>3. CASE era # HostEra
        <5>1. HostDays'[era] = HostDays[era]
          BY <1>10, <3>1, <4>3 DEF Counters
        <5> QED
          BY <4>1, <4>3, <5>1
      <4> QED
        BY <4>2, <4>3
    <3> QED
      BY <2>1, <3>3, <3>4
  <2>2. CASE ~DayCounts(a)
    BY <1>1, <1>10, <2>2 DEF Counters
  <2> QED
    BY <2>1, <2>2
<1>12. /\ HostCount' \in [Periods -> Nat]
       /\ \A era \in Periods : HostCount'[era] = HostCount[era]
            + (IF era = HostEra /\ DayCounts(a) /\ HostDays[HostEra][a] = 0 THEN 1 ELSE 0)
  <2>1. CASE DayCounts(a)
    <3>1. HostCount' = [HostCount EXCEPT ![HostEra] =
             IF HostDays[HostEra][a] = 0 THEN HostCount[HostEra] + 1 ELSE HostCount[HostEra]]
      BY <1>1, <2>1 DEF CountDay
    <3> QED
      BY <1>2, <1>10, <2>1, <3>1
  <2>2. CASE ~DayCounts(a)
    BY <1>1, <1>10, <2>2
  <2> QED
    BY <2>1, <2>2
<1>13. HostsTyped'
  <2>1. IsFiniteSet(beatLog')
    BY <1>1, <1>2, FS_AddElement DEF HostsTyped
  <2>2. beatLog' \subseteq [who : Accounts, day : Periods, counted : BOOLEAN, nth : Nat]
    BY <1>1, <1>2, <1>4 DEF HostsTyped
  <2>4. \A b \in beatLog' : b.nth < Cardinality(beatLog')
    <3>1. IsFiniteSet(beatLog) /\ \A b \in beatLog : b.nth \in Nat /\ b.nth < Cardinality(beatLog)
      BY <1>2 DEF HostsTyped
    <3>2. Cardinality(beatLog') = Cardinality(beatLog) + 1 /\ Cardinality(beatLog) \in Nat
      BY <1>1, <1>7, <3>1, FS_AddElement, FS_CardinalityType
    <3> QED
      BY <1>1, <1>3, <3>1, <3>2
  <2>3. Beats' \in [Accounts -> [last_day : Periods, streak_start : Periods] \cup {None}]
    BY <1>1, <1>2 DEF HostsTyped
  <2> QED
    BY <1>1, <1>10, <1>11, <1>12, <2>1, <2>2, <2>3, <2>4 DEF HostsTyped
<1>14. BeatsStand'
  <2>1. Beats'[a] = [last_day |-> Today, streak_start |-> StreakStart(a)]
    BY <1>1, <1>2 DEF HostsTyped
  <2>2. Beats'[a] # None
    <3>1. Today \in Nat /\ StreakStart(a) \in Nat
      BY <1>1, <1>2 DEF Periods
    <3>2. Beats'[a] \in [last_day : Nat, streak_start : Nat]
      BY <2>1, <3>1
    <3> QED
      BY <3>2, HostingAssumption
  <2>3. \A b \in Accounts : b # a => Beats'[b] = Beats[b]
    BY <1>1, <1>2 DEF HostsTyped
  <2>4. ASSUME NEW b \in Accounts
        PROVE  IF Beats'[b] = None THEN DaysIn(beatLog', b) = {}
               ELSE /\ Beats'[b].last_day =< Today'
                    /\ Started(DaysIn(beatLog', b), Beats'[b].last_day, Beats'[b].streak_start)
    <3>1. CASE b = a
      BY <1>1, <1>2, <1>5, <2>1, <2>2, <3>1
    <3>2. CASE b # a
      BY <1>2, <1>6, <2>3, <3>2 DEF BeatsStand
    <3> QED
      BY <3>1, <3>2
  <2> QED
    BY <2>4 DEF BeatsStand
<1>15. HostBooks'
  <2>1. ASSUME NEW era \in Periods, NEW b \in Accounts
        PROVE  /\ HostDays'[era][b] + hostPaid'[era][b] = Cardinality(CountedIn(beatLog', b, era))
               /\ era < Epoch' => HostDays'[era][b] = 0
               /\ era >= Epoch' => hostPaid'[era][b] = 0
    <3>1. HostDays[era][b] \in Nat /\ hostPaid[era][b] \in Nat /\ era \in Int
      BY <1>10 DEF Counters, Periods
    <3>2. /\ HostDays[era][b] + hostPaid[era][b] = Cardinality(CountedIn(beatLog, b, era))
          /\ era < Epoch => HostDays[era][b] = 0
          /\ era >= Epoch => hostPaid[era][b] = 0
      BY <1>2 DEF HostBooks
    <3>3. HostDays'[era][b] = HostDays[era][b]
            + (IF b = a /\ era = HostEra /\ DayCounts(a) THEN 1 ELSE 0)
      BY <1>11
    <3>4. Cardinality(CountedIn(beatLog', b, era)) = Cardinality(CountedIn(beatLog, b, era))
            + (IF b = a /\ era = HostEra /\ DayCounts(a) THEN 1 ELSE 0)
      BY <1>9
    <3>5. hostPaid' = hostPaid /\ Epoch' = Epoch
      BY <1>1
    <3>6. CASE b = a /\ era = HostEra /\ DayCounts(a)
      BY <1>2, <3>1, <3>2, <3>3, <3>4, <3>5, <3>6
    <3>7. CASE ~(b = a /\ era = HostEra /\ DayCounts(a))
      BY <3>1, <3>2, <3>3, <3>4, <3>5, <3>7
    <3> QED
      BY <3>6, <3>7
  <2>2. ASSUME NEW era \in Periods
        PROVE  HostCount'[era] = Cardinality(Hosts(HostDays'[era])) /\ HostCount'[era] =< MaxHostsPerEra
    <3>1. /\ HostCount[era] = Cardinality(Hosts(HostDays[era])) /\ HostCount[era] =< MaxHostsPerEra
          /\ IsFiniteSet(Hosts(HostDays[era])) /\ HostCount[era] \in Nat
      <4>1. IsFiniteSet(Hosts(HostDays[era]))
        BY DelegationAssumption, FS_Subset DEF Hosts
      <4> QED
        BY <1>2, <1>10, <4>1 DEF HostBooks
    <3>2. CASE era = HostEra /\ DayCounts(a)
      <4>1. Hosts(HostDays'[era]) = Hosts(HostDays[era]) \cup {a}
        <5>1. \A b \in Accounts : HostDays'[era][b] > 0 <=> HostDays[era][b] > 0 \/ b = a
          BY <1>10, <1>11, <3>2 DEF Counters
        <5> QED
          BY <1>1, <5>1 DEF Hosts
      <4>2. a \in Hosts(HostDays[era]) <=> HostDays[HostEra][a] # 0
        BY <1>1, <1>10, <3>2 DEF Hosts
      <4>3. Cardinality(Hosts(HostDays'[era])) = IF a \in Hosts(HostDays[era])
              THEN Cardinality(Hosts(HostDays[era])) ELSE Cardinality(Hosts(HostDays[era])) + 1
        BY <3>1, <4>1, FS_AddElement
      <4>4. HostDays[HostEra][a] > 0 \/ HostCount[HostEra] < MaxHostsPerEra
        BY <3>2 DEF DayCounts
      <4>5. HostCount'[era] = HostCount[era] + (IF HostDays[HostEra][a] = 0 THEN 1 ELSE 0)
        BY <1>12, <3>2
      <4>6. CASE HostDays[HostEra][a] = 0
        BY <1>10, <3>1, <3>2, <4>2, <4>3, <4>4, <4>5, <4>6, Lengths
      <4>7. CASE HostDays[HostEra][a] # 0
        BY <3>1, <3>2, <4>2, <4>3, <4>5, <4>7
      <4> QED
        BY <4>6, <4>7
    <3>3. CASE ~(era = HostEra /\ DayCounts(a))
      <4>1. HostCount'[era] = HostCount[era]
        BY <1>12, <3>1, <3>3
      <4>2. \A b \in Accounts : HostDays'[era][b] = HostDays[era][b]
        BY <1>10, <1>11, <3>3 DEF Counters
      <4>3. Hosts(HostDays'[era]) = Hosts(HostDays[era])
        BY <4>2 DEF Hosts
      <4> QED
        BY <3>1, <4>1, <4>3
    <3> QED
      BY <3>2, <3>3
  <2> QED
    BY <2>1, <2>2 DEF HostBooks
<1>16. HostedDaysEarned'
  <2>1. \A b : Earned(b.who, b.day) <=> \E first \in DaysIn(beatLog, b.who) :
                 b.day - first >= MinStreakDays /\ Gapless(DaysIn(beatLog, b.who), first, b.day)
    BY DaysAre DEF Earned, Unbroken, Gapless
  <2>2. \A b : Earned(b.who, b.day)' <=> \E first \in DaysIn(beatLog', b.who) :
                 b.day - first >= MinStreakDays /\ Gapless(DaysIn(beatLog', b.who), first, b.day)
    BY DaysAre DEF Earned, Unbroken, Gapless, DaysOf, DaysIn
  <2>3. ASSUME NEW b \in beatLog PROVE Earned(b.who, b.day)' <=> Earned(b.who, b.day)
    <3>1. b.who \in Accounts /\ b.day \in DaysIn(beatLog, b.who)
      BY <1>2 DEF HostsTyped, DaysIn
    <3>2. CASE b.who # a
      BY <1>6, <2>1, <2>2, <3>1, <3>2
    <3>3. CASE b.who = a
      <4>1. D \in SUBSET Nat /\ (\A d \in D : d < Today) /\ b.day \in D
        BY <1>1, <3>1, <3>3
      <4>2. \A first \in D : Gapless(D \cup {Today}, first, b.day) <=> Gapless(D, first, b.day)
        <5> HIDE DEF D
        <5> QED
          BY <1>2, <4>1, GapsKept
      <4>3. ~(b.day - Today >= MinStreakDays)
        BY <1>1, <1>2, <4>1, Lengths
      <4>4. /\ Earned(b.who, b.day) <=> \E first \in D : b.day - first >= MinStreakDays /\ Gapless(D, first, b.day)
            /\ Earned(b.who, b.day)' <=> \E first \in D \cup {Today} :
                 b.day - first >= MinStreakDays /\ Gapless(D \cup {Today}, first, b.day)
        BY <1>5, <2>1, <2>2, <3>3
      <4> HIDE DEF D
      <4> QED
        BY <4>2, <4>3, <4>4
    <3> QED
      BY <3>2, <3>3
  <2>4. Earned(new.who, new.day)' <=> Today - StreakStart(a) >= MinStreakDays
    <3>1. Earned(new.who, new.day)' <=> \E first \in D \cup {Today} :
            Today - first >= MinStreakDays /\ Gapless(D \cup {Today}, first, Today)
      BY <1>3, <1>5, <2>2
    <3>2. /\ StreakStart(a) \in D \cup {Today} /\ Gapless(D \cup {Today}, StreakStart(a), Today)
          /\ \A first \in D \cup {Today} : Gapless(D \cup {Today}, first, Today) => StreakStart(a) =< first
      BY <1>1 DEF Started
    <3>3. \A first \in D \cup {Today} : first \in Nat
      BY <1>1, <1>2
    <3>4. MinStreakDays \in Nat /\ StreakStart(a) \in Nat
      BY <3>2, <3>3, Lengths
    <3> HIDE DEF D
    <3> QED
      BY <1>2, <3>1, <3>2, <3>3, <3>4
  <2>5. ASSUME NEW b \in beatLog PROVE HostsBefore(b)' = HostsBefore(b)
    <3>1. ~(new.nth < b.nth)
      <4>1. b.nth \in Nat /\ b.nth < Cardinality(beatLog) /\ IsFiniteSet(beatLog)
        BY <1>2 DEF HostsTyped
      <4>2. Cardinality(beatLog) \in Nat
        BY <4>1, FS_CardinalityType
      <4> QED
        BY <1>3, <4>1, <4>2
    <3> QED
      BY <1>1, <3>1 DEF HostsBefore, EraOfDay
  <2>6. HostsBefore(new)' = Hosts(HostDays[HostEra])
    <3>1. \A c \in beatLog : c.nth < new.nth
      BY <1>2, <1>3 DEF HostsTyped
    <3>2. ~(new.nth < new.nth)
      BY <1>4
    <3>3. HostsBefore(new)' = {c.who : c \in {x \in beatLog : x.counted /\ EraOfDay(x.day) = HostEra}}
      BY <1>1, <1>2, <1>3, <3>1, <3>2 DEF HostsBefore, EraOfDay
    <3>4. ASSUME NEW b \in Accounts
          PROVE  CountedIn(beatLog, b, HostEra) # {} <=> HostDays[HostEra][b] > 0
      <4>1. /\ HostDays[HostEra][b] + hostPaid[HostEra][b] = Cardinality(CountedIn(beatLog, b, HostEra))
            /\ hostPaid[HostEra][b] = 0
        BY <1>2 DEF HostBooks
      <4>2. HostDays[HostEra][b] \in Nat
        BY <1>10
      <4>3. CountedIn(beatLog, b, HostEra) = {} <=> Cardinality(CountedIn(beatLog, b, HostEra)) = 0
        BY <1>2, <1>9, FS_EmptySet
      <4> QED
        BY <4>1, <4>2, <4>3
    <3>5. \A x \in beatLog : x.who \in Accounts
      BY <1>2 DEF HostsTyped
    <3>6. \A b \in Accounts : CountedIn(beatLog, b, HostEra) # {} <=>
            b \in {c.who : c \in {x \in beatLog : x.counted /\ EraOfDay(x.day) = HostEra}}
      BY DEF CountedIn
    <3> QED
      BY <3>3, <3>4, <3>5, <3>6 DEF Hosts
  <2>7. new.counted <=> /\ Earned(new.who, new.day)'
                        /\ \/ new.who \in HostsBefore(new)'
                           \/ Cardinality(HostsBefore(new)') < MaxHostsPerEra
    <3>1. HostCount[HostEra] = Cardinality(Hosts(HostDays[HostEra]))
      BY <1>2 DEF HostBooks
    <3>2. a \in Hosts(HostDays[HostEra]) <=> HostDays[HostEra][a] > 0
      BY <1>1 DEF Hosts
    <3> QED
      BY <1>3, <1>4, <2>4, <2>6, <3>1, <3>2 DEF DayCounts, Enduring
  <2>8. ASSUME NEW b \in beatLog'
        PROVE  b.counted <=> /\ Earned(b.who, b.day)'
                             /\ \/ b.who \in HostsBefore(b)'
                                \/ Cardinality(HostsBefore(b)') < MaxHostsPerEra
    <3>1. CASE b = new
      BY <2>7, <3>1
    <3>2. CASE b \in beatLog
      <4>1. b.counted <=> /\ Earned(b.who, b.day)
                          /\ \/ b.who \in HostsBefore(b)
                             \/ Cardinality(HostsBefore(b)) < MaxHostsPerEra
        BY <1>2, <3>2 DEF HostedDaysEarned
      <4> QED
        BY <2>3, <2>5, <3>2, <4>1
    <3> QED
      BY <1>1, <3>1, <3>2
  <2> QED
    BY <2>8 DEF HostedDaysEarned
<1>17. Clock' /\ Delegated'
  <2>1. Delegated'
    BY <1>1, <1>2 DEF Delegated, MapsInverse
  <2>2. Clock'
    BY <1>1, <1>2 DEF Clock, Beat, participation, noted
  <2> QED
    BY <2>1, <2>2
<1> QED
  BY <1>13, <1>14, <1>15, <1>16, <1>17 DEF HostInv

LEMMA HostKept == HostInv /\ ServiceInv /\ [Next]_vars => HostInv'
<1> SUFFICES ASSUME HostInv, ServiceInv, [Next]_vars PROVE HostInv'
  OBVIOUS
<1>1. Clock' /\ Clock
  BY ServiceKept DEF ServiceInv
<1>2. Delegated
  BY DEF HostInv
<1>3. ASSUME UNCHANGED <<number, HostDays, hostPaid, HostCount, beatLog, Beats, Epoch>>, Delegated'
      PROVE  HostInv'
  <2>1. Today =< Today'
    BY <1>1, <1>3, EpochPlace DEF Today
  <2> QED
    BY <1>1, <1>3, <2>1, HostStays
<1>4. CASE OpenBlock
  <2>1. number' = number + 1 /\ Delegated'
        /\ UNCHANGED <<HostDays, hostPaid, HostCount, beatLog, Beats, Epoch>>
    BY <1>2, <1>4 DEF OpenBlock, OnInitialize, hosting, history, delegation, Delegated, MapsInverse
  <2>2. Today =< Today'
    <3>1. number \in Nat /\ Today = number \div DayLength /\ Today' = (number + 1) \div DayLength
      BY <1>1, <2>1, EpochPlace DEF Today
    <3> QED
      BY <3>1, NextQuotient, Lengths
  <2> QED
    BY <1>1, <2>1, <2>2, HostStays
<1>5. ASSUME NEW record \in Records, Note(record) PROVE HostInv'
  <2>1. Delegated' /\ UNCHANGED <<number, HostDays, hostPaid, HostCount, beatLog, Beats, Epoch>>
    BY <1>2, <1>5 DEF Note, NoteParticipation, hosting, delegation, Delegated, MapsInverse
  <2> QED
    BY <1>3, <2>1
<1>6. CASE CloseBlock
  <2>1. CASE number % EraLength = 0
    BY <1>1, <1>6, <2>1, HostPaid DEF CloseBlock
  <2>2. CASE number % EraLength # 0
    <3>1. Delegated' /\ UNCHANGED <<number, HostDays, hostPaid, HostCount, beatLog, Beats, Epoch>>
      BY <1>2, <1>6, <2>2 DEF CloseBlock, delegation, Delegated, MapsInverse
    <3> QED
      BY <1>3, <3>1
  <2> QED
    BY <2>1, <2>2
<1>7. ASSUME NEW hot \in Keys, Beat(hot) PROVE HostInv'
  BY <1>7, HostBeat
<1>8. ASSUME NEW who \in Accounts, NEW key \in Keys, Bind(who, key) PROVE HostInv'
  <2>1. Delegated' /\ UNCHANGED <<number, HostDays, hostPaid, HostCount, beatLog, Beats, Epoch>>
    BY <1>2, <1>8, DelegatedBind DEF Bind, participation, hosting, history
  <2> QED
    BY <1>3, <2>1
<1>9. ASSUME NEW who \in Accounts, Unbind(who) PROVE HostInv'
  <2>1. Delegated' /\ UNCHANGED <<number, HostDays, hostPaid, HostCount, beatLog, Beats, Epoch>>
    BY <1>2, <1>9, DelegatedUnbind DEF Unbind, participation, hosting, history
  <2> QED
    BY <1>3, <2>1
<1>10. CASE UNCHANGED vars
  <2>1. Delegated' /\ UNCHANGED <<number, HostDays, hostPaid, HostCount, beatLog, Beats, Epoch>>
    BY <1>2, <1>10 DEF vars, participation, hosting, history, delegation, Delegated, MapsInverse
  <2> QED
    BY <1>3, <2>1
<1> QED
  BY <1>4, <1>5, <1>6, <1>7, <1>8, <1>9, <1>10 DEF Next

(* For any lengths, gaps, caps and bindings: a day of a mask counts if, and *)
(* only if, it comes after enough days of beats without too long a gap, and *)
(* the mask has a day in the era already or the era has a place for it.     *)
THEOREM HostingIsEarned == Spec => []HostedDaysEarned
<1>1. Init => HostInv /\ ServiceInv
  BY HostInit, ServiceInit
<1>2. HostInv /\ ServiceInv /\ [Next]_vars => HostInv' /\ ServiceInv'
  BY HostKept, ServiceKept
<1>3. HostInv => HostedDaysEarned
  BY DEF HostInv
<1> QED
  BY <1>1, <1>2, <1>3, PTL DEF Spec

(* Each counted day is paid with the era it falls in, a mask once a day,    *)
(* however the beats cross the ends of days and eras, and no era counts    *)
(* more masks than its end can read.                                       *)
THEOREM HostDaysArePaid == Spec => []HostDaysConserved
<1>1. Init => HostInv /\ ServiceInv
  BY HostInit, ServiceInit
<1>2. HostInv /\ ServiceInv /\ [Next]_vars => HostInv' /\ ServiceInv'
  BY HostKept, ServiceKept
<1>3. HostInv => HostDaysConserved
  <2> SUFFICES ASSUME HostInv PROVE HostDaysConserved
    OBVIOUS
  <2>1. HostBooks /\ HostsTyped
    BY DEF HostInv
  <2>2. \A era \in Periods, a \in Accounts :
          Cardinality({b \in beatLog : b.who = a /\ b.counted /\ EraOfDay(b.day) = era})
            = Cardinality(CountedIn(beatLog, a, era))
    BY DEF CountedIn
  <2>3. \A era \in Periods, a \in Accounts : HostDays[era][a] \in Nat /\ hostPaid[era][a] \in Nat
    BY <2>1 DEF HostsTyped, Counters
  <2>4. \A era \in Periods :
          Cardinality({a \in Accounts : HostDays[era][a] > 0}) = Cardinality(Hosts(HostDays[era]))
    BY DEF Hosts
  <2> QED
    BY <2>1, <2>2, <2>3, <2>4 DEF HostBooks, HostDaysConserved
<1> QED
  BY <1>1, <1>2, <1>3, PTL DEF Spec

-----------------------------------------------------------------------------
LEMMA HonestWhole ==
  ASSUME LastCreditedHeight \in Nat, number \in 0..MaxBlock,
         NEW store \in Stores,
         NEW h \in (LastCreditedHeight + 1)..LastCreditedHeight', PassedOver(store, h),
         \A g \in (LastCreditedHeight + 1)..h : ~Crowded(store, g),
         NEW finalized \in 0..(number - 1), NEW key \in Keys \cup {None},
         Note(ProviderFor(store, finalized, key))
  PROVE  FALSE
<1> DEFINE record == ProviderFor(store, finalized, key)
           votes == Provided(store, finalized)
           held == VotesForHeight(store, h)
<1>1. record.votes = votes
  BY DEF ProviderFor
<1>2. /\ NoteParticipation(record)
      /\ ledger' = ledger \cup Votes(record) \cup Authorship(record)
  BY DEF Note
<1>3. finalized \in 0..MaxBlock /\ MaxVotesChecked \in Nat
  BY LengthAssumption DEF ParticipationParameters
<1>4. /\ votes \in Seq(SignedVote)
      /\ \A q \in DOMAIN votes : votes[q].height \in Window(finalized)
      /\ \A g \in Window(finalized) : \A p \in DOMAIN VotesForHeight(store, g) :
           VotesForHeight(store, g)[p].height = g
      /\ \A g \in Window(finalized) : \A p \in DOMAIN VotesForHeight(store, g) :
           (\A x \in (LastCreditedHeight + 1)..g : ~Crowded(store, x)) =>
             \E q \in DOMAIN votes : /\ votes[q] = VotesForHeight(store, g)[p]
                                     /\ Cardinality(UpTo(votes, q, Open)) =< MaxVotesChecked
  BY <1>3, ProvidedWhole
<1>5. PICK top \in Int : Window(finalized) = (LastCreditedHeight + 1)..top
  BY <1>3, WindowShape
<1>6. PICK i \in DOMAIN held :
        /\ held[i].valid /\ IsMember(h, ColdOf(held[i].signer))
        /\ \A c \in ledger' : ~(c.what = "vote" /\ c.height = h /\ c.who = ColdOf(held[i].signer))
  BY DEF PassedOver
<1> HIDE DEF record, votes, held
<1>7. LastCreditedHeight' \in Window(finalized)
  <2>1. LastCreditedHeight' \in {LastCreditedHeight} \cup {c[1] : c \in Counted(votes)}
    BY <1>1, <1>2 DEF NoteParticipation, AdvanceCursor
  <2>2. PICK c \in Counted(votes) : LastCreditedHeight' = c[1]
    <3>1. LastCreditedHeight' # LastCreditedHeight
      OBVIOUS
    <3> QED
      BY <2>1, <3>1
  <2>3. PICK q \in Genuine(votes) : c = <<votes[q].height, ColdOf(votes[q].signer)>>
    BY <2>2 DEF Counted
  <2>4. q \in DOMAIN votes
    BY <2>3 DEF Genuine, Checked, Fresh
  <2> QED
    BY <1>4, <2>2, <2>3, <2>4
<1>8. h \in Window(finalized)
  BY <1>5, <1>7
<1>9. PICK q \in DOMAIN votes :
        votes[q] = held[i] /\ Cardinality(UpTo(votes, q, Open)) =< MaxVotesChecked
  BY <1>4, <1>6, <1>8 DEF held
<1>10. held[i].height = h
  BY <1>4, <1>6, <1>8 DEF held
<1>11. q \in Fresh(votes) /\ q \in Nat
  <2>1. votes[q].height = h /\ h > LastCreditedHeight /\ q \in Nat
    BY <1>4, <1>5, <1>8, <1>9, <1>10
  <2> QED
    BY <1>6, <1>9, <2>1 DEF Fresh
<1>12. Cardinality({j \in Fresh(votes) : j < q}) < MaxVotesChecked
  <2> DEFINE before == {j \in Fresh(votes) : j < q}
             upto == {j \in Fresh(votes) : j =< q}
  <2>1. \A j \in Fresh(votes) : j \in Nat
    BY <1>4 DEF Fresh
  <2>2. upto = before \cup {q} /\ q \notin before
    BY <1>11, <2>1
  <2>3. upto = UpTo(votes, q, Open)
    BY <1>4, OpenVotes DEF UpTo
  <2>4. IsFiniteSet(Fresh(votes))
    <3>1. Among(votes, Open) = Fresh(votes)
      BY <1>4, OpenVotes
    <3> QED
      BY <1>4, <1>11, <3>1, AmongFinite
  <2>5. before \in SUBSET Fresh(votes)
    OBVIOUS
  <2> HIDE DEF before, upto
  <2>6. IsFiniteSet(before) /\ Cardinality(before) \in Nat
    BY <2>4, <2>5, FS_Subset, FS_CardinalityType
  <2>7. Cardinality(upto) = Cardinality(before) + 1
    BY <2>2, <2>6, FS_AddElement
  <2> QED
    BY <1>3, <1>9, <2>3, <2>6, <2>7 DEF before
<1>13. <<h, ColdOf(held[i].signer)>> \in Counted(votes)
  <2>1. q \in Genuine(votes)
    BY <1>6, <1>9, <1>11, <1>12 DEF Genuine, Checked
  <2>2. <<h, ColdOf(held[i].signer)>> = <<votes[q].height, ColdOf(votes[q].signer)>>
    BY <1>9, <1>10
  <2> QED
    BY <2>1, <2>2 DEF Counted
<1> DEFINE credit == [what |-> "vote", height |-> h, who |-> ColdOf(held[i].signer), block |-> number]
<1>14. credit \in Votes(record)
  <2>1. <<h, ColdOf(held[i].signer)>>[1] = h /\ <<h, ColdOf(held[i].signer)>>[2] = ColdOf(held[i].signer)
    OBVIOUS
  <2> QED
    BY <1>1, <1>13, <2>1 DEF Votes
<1>15. credit \in ledger' /\ credit.what = "vote" /\ credit.height = h /\ credit.who = ColdOf(held[i].signer)
  BY <1>2, <1>14
<1> QED
  BY <1>6, <1>15

(* Whatever the justifications an author holds, and whatever votes pad them, *)
(* its record passes over no genuine vote of a member up to where the      *)
(* cursor goes, as long as no justification up to it carries more votes of *)
(* members than a committee has seats.  It rests on WindowAssumption: the  *)
(* window of heights is cut so that the cap on checked votes never is.     *)
THEOREM HonestRecordsAreWhole == Spec => HonestRecordsWhole
<1>1. Init => CursorCovers /\ ServiceInv
  BY CursorCoversInit, ServiceInit
<1>2. CursorCovers /\ ServiceInv /\ [Next]_vars => CursorCovers' /\ ServiceInv'
  BY CursorCoversStep, ServiceKept
<1>3. CursorCovers /\ ServiceInv =>
        [\A store \in Stores : \A h \in (LastCreditedHeight + 1)..LastCreditedHeight' :
           PassedOver(store, h) /\ (\A g \in (LastCreditedHeight + 1)..h : ~Crowded(store, g)) =>
             \A finalized \in 0..(number - 1), key \in Keys \cup {None} :
               ~Note(ProviderFor(store, finalized, key))]_vars
  BY HonestWhole DEF CursorCovers, ServiceInv, Clock
<1> QED
  BY <1>1, <1>2, <1>3, PTL DEF Spec, HonestRecordsWhole
=============================================================================
