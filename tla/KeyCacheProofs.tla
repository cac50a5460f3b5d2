--------------------------- MODULE KeyCacheProofs ---------------------------
(***************************************************************************)
(* The key generator returns the right secrets, keeps the last one it      *)
(* computed and no more than it may, for any tiers of any size and any     *)
(* order of questions.                                                     *)
(***************************************************************************)
EXTENDS KeyCache, TLAPS, FiniteSetTheorems, WellFoundedInduction

\* what a tier holds is right, and no more than it may hold
TierRight(t) ==
  /\ DOMAIN caches[t] \in SUBSET Nat
  /\ \A i \in DOMAIN caches[t] : caches[t][i] = i

TierBounded(t) ==
  /\ IsFiniteSet(DOMAIN caches[t])
  /\ t \notin Unlimited => Cardinality(DOMAIN caches[t]) <= MaxSize[t]

Right ==
  /\ DOMAIN caches = Tiers
  /\ \A t \in Tiers : TierRight(t)
  /\ target \in Nat \cup {NoTarget} /\ at \in Nat /\ sk = at
  /\ got \in [index : Nat, secret : Nat] /\ got.secret = got.index

Bounded == \A t \in Tiers : TierBounded(t)

-----------------------------------------------------------------------------
(* What bisect and sorted lists rely on: a finite set of numbers has ends  *)

\* A finite set of numbers that is not empty has a least one.
LEMMA HasLeast ==
  ASSUME NEW S \in SUBSET Nat, IsFiniteSet(S), S # {}
  PROVE  Least(S) \in S /\ \A y \in S : Least(S) <= y
<1> DEFINE Under(n) == {m \in S : m < n}
           T == {Under(n) : n \in S}
<1>0. ASSUME NEW y \in S, NEW n \in S, y < n
      PROVE  Under(y) \subseteq Under(n) /\ y \in Under(n) /\ y \notin Under(y)
  <2>1. \A m \in S : m \in Nat /\ (m < y => m < n) /\ ~(y < y)
    BY <1>0
  <2> QED BY <1>0, <2>1
<1>1. T \subseteq FiniteSubsetsOf(S) /\ T # {}
  <2>1. \A n \in S : Under(n) \in SUBSET S
    OBVIOUS
  <2>2. T \subseteq SUBSET S /\ T # {}
    BY <2>1
  <2> QED BY <2>2, FS_FiniteSubsetsOfFinite
<1>2. PICK x \in T : \A y \in T : <<y, x>> \notin StrictSubsetOrdering(S)
  <2> HIDE DEF T
  <2> QED BY <1>1, FS_StrictSubsetOrderingWellFounded, WFMin
<1>3. PICK n \in S : x = Under(n)
  OBVIOUS
<1>4. \A y \in S : n <= y
  <2> SUFFICES ASSUME NEW y \in S, y < n PROVE FALSE
    OBVIOUS
  <2>1. Under(y) \subseteq Under(n) /\ y \in Under(n) /\ y \notin Under(y)
    BY <1>0
  <2>2. Under(y) \in T /\ Under(y) \subseteq S /\ Under(n) \subseteq S
    OBVIOUS
  <2> HIDE DEF Under
  <2>3. <<Under(y), Under(n)>> \in StrictSubsetOrdering(S)
    BY <2>1, <2>2 DEF StrictSubsetOrdering
  <2> QED BY <1>2, <1>3, <2>2, <2>3
<1> QED BY <1>4 DEF Least

\* And a greatest one.
LEMMA HasGreatest ==
  ASSUME NEW S \in SUBSET Nat, IsFiniteSet(S), S # {}
  PROVE  Greatest(S) \in S /\ \A y \in S : Greatest(S) >= y
<1> DEFINE Over(n) == {m \in S : m > n}
           T == {Over(n) : n \in S}
<1>0. ASSUME NEW y \in S, NEW n \in S, y > n
      PROVE  Over(y) \subseteq Over(n) /\ y \in Over(n) /\ y \notin Over(y)
  <2>1. \A m \in S : m \in Nat /\ (m > y => m > n) /\ ~(y > y)
    BY <1>0
  <2> QED BY <1>0, <2>1
<1>1. T \subseteq FiniteSubsetsOf(S) /\ T # {}
  <2>1. \A n \in S : Over(n) \in SUBSET S
    OBVIOUS
  <2>2. T \subseteq SUBSET S /\ T # {}
    BY <2>1
  <2> QED BY <2>2, FS_FiniteSubsetsOfFinite
<1>2. PICK x \in T : \A y \in T : <<y, x>> \notin StrictSubsetOrdering(S)
  <2> HIDE DEF T
  <2> QED BY <1>1, FS_StrictSubsetOrderingWellFounded, WFMin
<1>3. PICK n \in S : x = Over(n)
  OBVIOUS
<1>4. \A y \in S : n >= y
  <2> SUFFICES ASSUME NEW y \in S, y > n PROVE FALSE
    OBVIOUS
  <2>1. Over(y) \subseteq Over(n) /\ y \in Over(n) /\ y \notin Over(y)
    BY <1>0
  <2>2. Over(y) \in T /\ Over(y) \subseteq S /\ Over(n) \subseteq S
    OBVIOUS
  <2> HIDE DEF Over
  <2>3. <<Over(y), Over(n)>> \in StrictSubsetOrdering(S)
    BY <2>1, <2>2 DEF StrictSubsetOrdering
  <2> QED BY <1>2, <1>3, <2>2, <2>3
<1> QED BY <1>4 DEF Greatest

-----------------------------------------------------------------------------
(* The secret is right *)

\* No tier knows a secret at first, and the initial one is that of index 0.
LEMMA RightAtFirst == CacheInit => Right
  BY DEF CacheInit, Right, TierRight

\* What a computation starts from is right: the initial secret, or one that
\* a tier holds (_find_best_cached_sk).
LEMMA BestIsRight ==
  ASSUME Right, NEW ind \in Nat
  PROVE  Best(ind).at \in Nat /\ Best(ind).sk = Best(ind).at
<1>1. CASE Below(ind) = {}
  BY <1>1 DEF Best
<1>2. CASE Below(ind) # {}
  <2> DEFINE S == {i \in 0 .. ind : \E t \in Tiers : i \in DOMAIN caches[t] /\ i < ind}
  <2>1. \A p \in Below(ind) : p[1] \in Tiers /\ p[2] \in S /\ p[2] \in DOMAIN caches[p[1]]
    BY DEF Below
  <2>2. IsFiniteSet(S) /\ S \in SUBSET Nat
    <3>1. S \in SUBSET (0 .. ind) /\ (0 .. ind) \in SUBSET Nat
      OBVIOUS
    <3>2. IsFiniteSet(0 .. ind)
      BY 0 \in Int, ind \in Int, FS_Interval
    <3> HIDE DEF S
    <3>3. IsFiniteSet(S)
      BY <3>1, <3>2, FS_Subset
    <3> QED BY <3>1, <3>3
  <2>3. S # {}
    BY <1>2, <2>1
  <2>4. PICK t \in Tiers : Greatest(S) \in DOMAIN caches[t] /\ Greatest(S) < ind
    <3>1. Greatest(S) \in S
      <4> HIDE DEF S
      <4> QED BY <2>2, <2>3, HasGreatest
    <3> QED BY <3>1
  <2>5. <<t, Greatest(S)>> \in Below(ind)
    <3>1. Greatest(S) \in 0 .. ind
      <4>1. Greatest(S) \in S
        <5> HIDE DEF S
        <5> QED BY <2>2, <2>3, HasGreatest
      <4> QED BY <4>1
    <3> HIDE DEF S
    <3> QED BY <2>4, <3>1 DEF Below
  <2>6. \A q \in Below(ind) : Greatest(S) >= q[2]
    <3> HIDE DEF S
    <3> QED BY <2>1, <2>2, <2>3, HasGreatest
  <2> HIDE DEF S
  <2>7. \E p \in Below(ind) : \A q \in Below(ind) : p[2] >= q[2]
    BY <2>5, <2>6
  <2>8. PICK b \in Below(ind) : Best(ind) = [at |-> b[2], sk |-> caches[b[1]][b[2]]]
    BY <1>2, <2>7 DEF Best
  <2> QED BY <2>1, <2>8 DEF Right, TierRight, Below
<1> QED BY <1>1, <1>2

\* What is evicted makes room for what was added, and is not it.
LEMMA EvictedOther ==
  ASSUME NEW S \in SUBSET Nat, IsFiniteSet(S), NEW i \in S, Cardinality(S) > 1
  PROVE  Evicted(S, i) \in S /\ Evicted(S, i) # i
<1>1. PICK j \in S : j # i
  <2>1. Cardinality({i}) = 1
    BY FS_Singleton
  <2>2. S # {i}
    <3> SUFFICES ASSUME S = {i} PROVE FALSE
      OBVIOUS
    <3>1. Cardinality(S) = 1
      BY <2>1
    <3> QED BY <3>1
  <2> QED BY <2>2
<1>2. Least(S) \in S /\ Greatest(S) \in S /\ \A y \in S : Least(S) <= y /\ Greatest(S) >= y
  BY HasLeast, HasGreatest
<1>3. Least(S) <= j /\ Least(S) <= i /\ Greatest(S) >= j /\ Greatest(S) >= i
  BY <1>2
<1>4. Least(S) \in Nat /\ Greatest(S) \in Nat /\ i \in Nat /\ j \in Nat
  BY <1>2
<1>5. CASE i > Least(S)
  BY <1>2, <1>4, <1>5 DEF Evicted
<1>6. CASE ~(i > Least(S))
  <2>1. Greatest(S) # i
    BY <1>1, <1>3, <1>4, <1>6
  <2> QED BY <1>2, <1>6, <2>1 DEF Evicted
<1> QED BY <1>5, <1>6

\* The indices of a tier after _update_caches: some of those before and the
\* new one, no more than the tier may have, and the new one among them if the
\* tier keeps such.
LEMMA IndicesOfATier ==
  ASSUME NEW t \in Tiers, TierRight(t), TierBounded(t), NEW i \in Nat
  PROVE  /\ Indices(t, i) \in SUBSET (DOMAIN caches[t] \cup {i})
         /\ IsFiniteSet(Indices(t, i))
         /\ t \notin Unlimited => Cardinality(Indices(t, i)) <= MaxSize[t]
         /\ i % Interval[t] = 0 => i \in Indices(t, i)
<1> DEFINE D == DOMAIN caches[t]
           G == D \cup {i}
<1>1. D \in SUBSET Nat /\ IsFiniteSet(D) /\ (t \notin Unlimited => Cardinality(D) <= MaxSize[t])
  BY DEF TierRight, TierBounded
<1>2. MaxSize[t] \in Nat /\ MaxSize[t] >= 1
  BY TierAssumption
<1>3. IsFiniteSet(G) /\ G \in SUBSET Nat /\ i \in G
      /\ Cardinality(G) = IF i \in D THEN Cardinality(D) ELSE Cardinality(D) + 1
  <2> HIDE DEF D
  <2> QED BY <1>1, FS_AddElement
<1>4. CASE i % Interval[t] # 0 \/ i \in D
  <2>1. Indices(t, i) = D
    BY <1>4 DEF Indices
  <2> QED BY <1>1, <1>4, <2>1
<1>5. CASE i % Interval[t] = 0 /\ i \notin D /\ Full(t, G)
  <2>1. Indices(t, i) = G \ {Evicted(G, i)}
    BY <1>5 DEF Indices
  <2>2. t \notin Unlimited /\ Cardinality(G) > MaxSize[t] /\ Cardinality(G) \in Nat
        /\ Cardinality(D) \in Nat
    <3> HIDE DEF D, G
    <3> QED BY <1>1, <1>3, <1>5, FS_CardinalityType DEF Full
  <2>3. Cardinality(G) > 1
    BY <1>2, <2>2
  <2>4. Evicted(G, i) \in G /\ Evicted(G, i) # i
    <3> HIDE DEF D, G
    <3> QED BY <1>3, <2>3, EvictedOther
  <2>5. IsFiniteSet(Indices(t, i)) /\ Cardinality(Indices(t, i)) = Cardinality(G) - 1
    <3> HIDE DEF D, G
    <3> QED BY <1>3, <2>1, <2>4, FS_RemoveElement
  <2>6. Cardinality(Indices(t, i)) <= MaxSize[t]
    <3> HIDE DEF D, G
    <3> QED BY <1>1, <1>2, <1>3, <1>5, <2>2, <2>5
  <2> QED BY <2>1, <2>4, <2>5, <2>6
<1>6. CASE i % Interval[t] = 0 /\ i \notin D /\ ~Full(t, G)
  <2>1. Indices(t, i) = G
    BY <1>6 DEF Indices
  <2>2. t \notin Unlimited => Cardinality(G) <= MaxSize[t]
    <3>1. Cardinality(G) \in Nat
      <4> HIDE DEF D, G
      <4> QED BY <1>3, FS_CardinalityType
    <3> HIDE DEF D, G
    <3> QED BY <1>2, <1>6, <3>1 DEF Full
  <2> QED BY <1>3, <2>1, <2>2
<1> QED BY <1>4, <1>5, <1>6

\* After a key is derived every tier is as right and as small as before.
LEMMA UpdatedIsRight ==
  ASSUME Right, Bounded, NEW i \in Nat, caches' = Updated(i, i)
  PROVE  \A t \in Tiers : (TierRight(t) /\ TierBounded(t))'
<1> SUFFICES ASSUME NEW t \in Tiers PROVE (TierRight(t) /\ TierBounded(t))'
  OBVIOUS
<1>1. TierRight(t) /\ TierBounded(t)
  BY DEF Right, Bounded
<1>2. caches'[t] = [j \in Indices(t, i) |-> IF j \in DOMAIN caches[t] THEN caches[t][j] ELSE i]
  BY DEF Updated
<1>3. DOMAIN caches'[t] = Indices(t, i)
  BY <1>2
<1>4. Indices(t, i) \in SUBSET (DOMAIN caches[t] \cup {i}) /\ IsFiniteSet(Indices(t, i))
      /\ (t \notin Unlimited => Cardinality(Indices(t, i)) <= MaxSize[t])
  BY <1>1, IndicesOfATier
<1>5. \A j \in DOMAIN caches'[t] : caches'[t][j] = j
  BY <1>1, <1>2, <1>3, <1>4 DEF TierRight
<1> QED BY <1>1, <1>3, <1>4, <1>5 DEF TierRight, TierBounded

\* A step of the generator keeps all of it.
LEMMA RightStays ==
  ASSUME Right, Bounded, [CacheNext]_cacheVars
  PROVE  Right' /\ Bounded'
<1>1. CASE Ask
  <2>1. PICK ind \in 0 .. MaxIndex :
          \/ /\ \E t \in Tiers : ind \in DOMAIN caches[t]
                                 /\ got' = [index |-> ind, secret |-> caches[t][ind]]
             /\ UNCHANGED <<target, at, sk>>
          \/ /\ target' = ind /\ at' = From(Best(ind)) /\ sk' = Best(ind).sk
             /\ UNCHANGED got
    BY <1>1 DEF Ask
  <2>2. ind \in Nat
    BY IndexAssumption
  <2>3. UNCHANGED caches
    BY <1>1 DEF Ask
  <2>4. Best(ind).at \in Nat /\ Best(ind).sk = Best(ind).at
    BY <2>2, BestIsRight
  <2> QED BY <2>1, <2>2, <2>3, <2>4 DEF Right, Bounded, TierRight, TierBounded, From
<1>2. CASE Derive
  <2>1. at + 1 \in Nat /\ sk' = at + 1 /\ at' = at + 1 /\ caches' = Updated(at + 1, at + 1)
        /\ UNCHANGED <<target, got>>
    BY <1>2 DEF Derive, Right, Kdf
  <2>2. \A t \in Tiers : (TierRight(t) /\ TierBounded(t))'
    BY <2>1, UpdatedIsRight
  <2>3. DOMAIN caches' = Tiers
    BY <2>1 DEF Updated
  <2> QED BY <2>1, <2>2, <2>3 DEF Right, Bounded
<1>3. CASE Answer
  BY <1>3 DEF Answer, Right, Bounded, TierRight, TierBounded
<1>4. CASE UNCHANGED cacheVars
  BY <1>4 DEF cacheVars, Right, Bounded, TierRight, TierBounded
<1> QED BY <1>1, <1>2, <1>3, <1>4 DEF CacheNext

\* At first every tier is empty.
LEMMA BoundedAtFirst == CacheInit => Bounded
<1> SUFFICES ASSUME CacheInit, NEW t \in Tiers PROVE TierBounded(t)
  BY DEF Bounded
<1>1. DOMAIN caches[t] = {}
  BY DEF CacheInit
<1>2. MaxSize[t] >= 0
  BY TierAssumption
<1> QED BY <1>1, <1>2, FS_EmptySet DEF TierBounded

\* The invariant the theorems below rest on.
THEOREM CachesRight == CacheSpec => [](Right /\ Bounded)
<1>1. CacheInit => Right /\ Bounded
  BY RightAtFirst, BoundedAtFirst
<1>2. Right /\ Bounded /\ [CacheNext]_cacheVars => (Right /\ Bounded)'
  BY RightStays
<1> QED BY <1>1, <1>2, PTL DEF CacheSpec

-----------------------------------------------------------------------------
(* The theorems *)

\* Whatever was asked for in whatever order, the secret _get_sk returns is
\* that of the index.
THEOREM SecretAlwaysRight == CacheSpec => []SecretIsRight
<1>1. Right => SecretIsRight
  BY DEF Right, SecretIsRight
<1> QED BY <1>1, CachesRight, PTL

\* _update_caches never evicts the secret it was called with.
THEOREM ComputedStays == CacheSpec => JustComputedStays
<1>1. Right /\ Bounded /\ [CacheNext]_cacheVars => [Stays]_cacheVars
  <2> SUFFICES ASSUME Right, Bounded, Derive,
                      NEW t \in Tiers, (at + 1) % Interval[t] = 0
               PROVE  at + 1 \in DOMAIN caches'[t]
    BY DEF Stays
  <2>1. at + 1 \in Nat
    BY DEF Right
  <2>2. DOMAIN caches'[t] = Indices(t, at + 1)
    BY DEF Derive, Updated
  <2> QED BY <2>1, <2>2, IndicesOfATier DEF Right, Bounded
<1> QED BY <1>1, CachesRight, PTL DEF CacheSpec, JustComputedStays

\* "Maximum number of keys to cache in this tier" (_CacheTier).
THEOREM TiersBounded ==
  CacheSpec => [](\A t \in Tiers \ Unlimited : Cardinality(DOMAIN caches[t]) <= MaxSize[t])
<1>1. Bounded => \A t \in Tiers \ Unlimited : Cardinality(DOMAIN caches[t]) <= MaxSize[t]
  BY DEF Bounded, TierBounded
<1> QED BY <1>1, CachesRight, PTL
=============================================================================
