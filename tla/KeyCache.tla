------------------------------ MODULE KeyCache ------------------------------
(***************************************************************************)
(* _AccessoryKeyGenerator (findmy/accessory.py): the secret of an index is *)
(* derived from the one before it, starting from the nearest secret that   *)
(* one of the cache tiers holds.                                           *)
(*                                                                         *)
(* Symbolically the secret of index n is n, and x963_kdf is successor.     *)
(* The loop of _get_sk is a step for each key it derives.                  *)
(***************************************************************************)
EXTENDS Integers, FiniteSets

CONSTANTS
  Tiers,        \* the tiers by name
  Interval,     \* [Tiers -> how far apart the keys are that a tier keeps]
  MaxSize,      \* [Tiers -> the most it keeps]
  Unlimited,    \* but not of these
  MaxIndex,     \* bounds the index asked for
  NoTarget

ASSUME TierAssumption ==
  /\ Interval \in [Tiers -> Nat \ {0}] /\ MaxSize \in [Tiers -> Nat \ {0}]
  /\ Unlimited \subseteq Tiers /\ IsFiniteSet(Tiers)
ASSUME IndexAssumption == MaxIndex \in Nat /\ NoTarget \notin Nat

VARIABLES
  caches,       \* _sk_caches: of each tier the secrets it holds, by index
  target,       \* the index asked for, or NoTarget
  at,           \* the index whose secret is at hand
  sk,           \* and that secret
  got           \* what was returned last: an index and its secret

cacheVars == <<caches, target, at, sk, got>>

Kdf(secret) == secret + 1

CacheInit ==
  /\ caches = [t \in Tiers |-> [i \in {} |-> 0]]
  /\ target = NoTarget /\ at = 0 /\ sk = 0
  /\ got = [index |-> 0, secret |-> 0]

Least(S)    == CHOOSE x \in S : \A y \in S : x <= y
Greatest(S) == CHOOSE x \in S : \A y \in S : x >= y

\* mutant of Evicted: a new smallest index is the one to leave
EvictedSmallest(indices, new) == IF new >= Least(indices) THEN Least(indices) ELSE Greatest(indices)

\* A new smallest index makes the largest leave, any other the smallest.  The
\* comment in the code has it the other way round: "If adding a historical key,
\* evict smallest index", which is the mutant above.
Evicted(indices, new) == IF new > Least(indices) THEN Least(indices) ELSE Greatest(indices)

Full(t, indices) == t \notin Unlimited /\ Cardinality(indices) > MaxSize[t]

\* the indices a tier holds once the secret of index i was computed
Indices(t, i) ==
  LET indices == DOMAIN caches[t]
  IN IF i % Interval[t] # 0 \/ i \in indices THEN indices
     ELSE IF Full(t, indices \cup {i}) THEN (indices \cup {i}) \ {Evicted(indices \cup {i}, i)}
     ELSE indices \cup {i}

\* _update_caches
Updated(i, secret) ==
  [t \in Tiers |-> [j \in Indices(t, i) |-> IF j \in DOMAIN caches[t] THEN caches[t][j] ELSE secret]]

\* _find_best_cached_sk: the nearest below, in any tier
Below(ind) == {p \in Tiers \X (0 .. ind) : p[2] \in DOMAIN caches[p[1]] /\ p[2] < ind}

Best(ind) ==
  IF Below(ind) = {} THEN [at |-> 0, sk |-> 0]
  ELSE LET b == CHOOSE p \in Below(ind) : \A q \in Below(ind) : p[2] >= q[2]
       IN [at |-> b[2], sk |-> caches[b[1]][b[2]]]

\* mutant of From: range(start_ind, ind + 1)
FromBefore(best) == best.at - 1

\* range(start_ind + 1, ind + 1) derives the key after that
From(best) == best.at

\* _get_sk begins: a secret some tier holds, or where to derive it from
Ask ==
  /\ target = NoTarget
  /\ \E ind \in 0 .. MaxIndex :
       \/ /\ \E t \in Tiers : ind \in DOMAIN caches[t]
                              /\ got' = [index |-> ind, secret |-> caches[t][ind]]
          /\ UNCHANGED <<target, at, sk>>
       \/ /\ \A t \in Tiers : ind \notin DOMAIN caches[t]
          /\ target' = ind /\ at' = From(Best(ind)) /\ sk' = Best(ind).sk
          /\ UNCHANGED got
  /\ UNCHANGED caches

Derive ==
  /\ target # NoTarget /\ at < target
  /\ at' = at + 1 /\ sk' = Kdf(sk)
  /\ caches' = Updated(at + 1, Kdf(sk))
  /\ UNCHANGED <<target, got>>

Answer ==
  /\ target # NoTarget /\ at = target
  /\ got' = [index |-> target, secret |-> sk]
  /\ target' = NoTarget /\ UNCHANGED <<caches, at, sk>>

CacheNext == Ask \/ Derive \/ Answer

CacheSpec == CacheInit /\ [][CacheNext]_cacheVars

-----------------------------------------------------------------------------
(* Properties *)

\* Whatever was asked for before, in whatever order, and whatever was evicted
\* meanwhile: the secret returned is that of the index.
SecretIsRight == got.secret = got.index

\* A tier that is full never gives up the secret just computed, so that going
\* through indices in either direction finds the one before it.  It is the code
\* of _update_caches that sees to it; by its comment a historical key would be
\* evicted as it is added.
Stays ==
  Derive =>
    \A t \in Tiers : (at + 1) % Interval[t] = 0 => at + 1 \in DOMAIN caches'[t]

JustComputedStays == [][Stays]_cacheVars
=============================================================================
