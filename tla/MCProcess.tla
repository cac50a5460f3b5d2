----------------------------- MODULE MCProcess -----------------------------
(* The parts of a process that know nothing of each other: a behaviour is   *)
(* one of them at work while the others rest.                               *)
EXTENDS KeyCache, Scanner, Anisette

CONSTANTS hours, weeks

VARIABLE part

MCInterval == [t \in Tiers |-> IF t = hours THEN 2 ELSE 3]
MCMaxSize  == [t \in Tiers |-> IF t = hours THEN 2 ELSE 1]

Init ==
  /\ part \in {"cache", "scanner", "http", "anisette"}
  /\ CacheInit /\ ScanInit /\ HttpInit /\ AnisetteInit

Next ==
  /\ UNCHANGED part
  /\ \/ part = "cache" /\ CacheNext /\ UNCHANGED <<scanVars, httpVars, anisetteVars>>
     \/ part = "scanner" /\ ScanNext /\ UNCHANGED <<cacheVars, httpVars, anisetteVars>>
     \/ part = "http" /\ HttpNext /\ UNCHANGED <<cacheVars, scanVars, anisetteVars>>
     \/ part = "anisette" /\ AnisetteNext /\ UNCHANGED <<cacheVars, scanVars>>

vars == <<cacheVars, scanVars, httpVars, anisetteVars, part>>

Spec == Init /\ [][Next]_vars /\ ScanFairness
=============================================================================
