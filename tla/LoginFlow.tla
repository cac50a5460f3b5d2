----------------------------- MODULE LoginFlow -----------------------------
(***************************************************************************)
(* What an account promises a caller that awaits one call before making    *)
(* the next: the four login levels, entered in the order the comments of   *)
(* findmy/reports/account.py give ("LOGGED_OUT -> (REQUIRE_2FA or          *)
(* AUTHENTICATED)", "AUTHENTICATED -> LOGGED_IN"), service tokens bought   *)
(* with the one PET the account holds, and PETs lent without touching the  *)
(* session.  Coroutines, requests, failures and cancellation are hidden.   *)
(***************************************************************************)
EXTENDS Integers

VARIABLES
  level,    \* the login level
  pet,      \* authentication that issued the PET held: 0 none, -1 an empty one
  tokens,   \* authentication the service tokens were exchanged from, 0 none
  issued,   \* authentications so far
  file      \* what was saved last: at most one [level, pet, tokens]

vars == <<level, pet, tokens, issued, file>>

Init ==
  level = "LOGGED_OUT" /\ pet = 0 /\ tokens = 0 /\ issued = 0 /\ file = {}

\* Grand Slam asked for a second factor
Challenge ==
  /\ level # "AUTHENTICATED"
  /\ level' = "REQUIRE_2FA" /\ pet' = 0 /\ tokens' = 0
  /\ issued' = issued + 1 /\ UNCHANGED file

Authenticate ==
  /\ level # "AUTHENTICATED"
  /\ level' = "AUTHENTICATED" /\ pet' \in {issued + 1, -1} /\ tokens' = 0
  /\ issued' = issued + 1 /\ UNCHANGED file

\* the delegate exchange spends the PET held
Exchange ==
  /\ level = "AUTHENTICATED" /\ pet > 0
  /\ level' = "LOGGED_IN" /\ tokens' = pet /\ pet' = 0
  /\ UNCHANGED <<issued, file>>

\* an authentication whose PET is handed out, or comes to nothing
Lend ==
  /\ level = "LOGGED_IN"
  /\ issued' = issued + 1 /\ UNCHANGED <<level, pet, tokens, file>>

Save ==
  /\ file' = {[level |-> level, pet |-> pet, tokens |-> tokens]}
  /\ UNCHANGED <<level, pet, tokens, issued>>

Restore ==
  /\ \E f \in file : level' = f.level /\ pet' = f.pet /\ tokens' = f.tokens
  /\ UNCHANGED <<issued, file>>

Next == Challenge \/ Authenticate \/ Exchange \/ Lend \/ Save \/ Restore

Spec == Init /\ [][Next]_vars
=============================================================================
