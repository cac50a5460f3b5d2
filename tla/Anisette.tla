------------------------------ MODULE Anisette ------------------------------
(***************************************************************************)
(* RemoteAnisetteProvider (findmy/reports/anisette.py): callers that need  *)
(* headers share what the server said last, for as long as it is valid,    *)
(* and each fetches it again, over one HttpSession, when it is not.        *)
(***************************************************************************)
EXTENDS Http

CONSTANTS
  ValidFor,     \* _ANISETTE_DATA_VALID_FOR
  Limit,        \* the time-out of one attempt
  MaxTime       \* bounds the clock

ASSUME TimeAssumption == ValidFor \in Nat \ {0} /\ Limit \in Nat /\ MaxTime \in Nat

VARIABLES
  now,
  data,         \* _anisette_data, by the time it was made: None or that
  expires,      \* _anisette_data_expires_at
  provider,     \* the provider is "open" or _closed
  sentAt,       \* when each task's attempt was sent
  age           \* how old what each task returned last was

anisetteVars == <<now, data, expires, provider, sentAt, age>>

AnisetteInit ==
  /\ now = 0 /\ data = None /\ expires = 0 /\ provider = "open"
  /\ sentAt = [t \in Tasks |-> 0] /\ age = [t \in Tasks |-> 0]

\* mutant of Stale: valid a moment too long
StaleAfter == data = None \/ now > expires

Stale == data = None \/ now >= expires

\* get_headers: from what there is, or from the server, with retries
GetHeaders(t) ==
  /\ provider = "open" /\ request[t].state = "none"
  /\ IF Stale
     THEN Request(t, TRUE, TRUE) /\ sentAt' = [sentAt EXCEPT ![t] = now] /\ UNCHANGED age
     ELSE age' = [age EXCEPT ![t] = now - data] /\ UNCHANGED <<httpVars, sentAt>>
  /\ UNCHANGED <<now, data, expires, provider>>

\* the server made its answer somewhen since the attempt; answers may overtake
\* each other, and the last that arrives is kept
Fetched(t) ==
  /\ Reply(t)
  /\ \E at \in sentAt[t] .. now :
       data' = at /\ age' = [age EXCEPT ![t] = now - at]
  /\ expires' = now + ValidFor
  /\ UNCHANGED <<now, provider, sentAt>>

FetchFails(t) == Errs(t) /\ UNCHANGED anisetteVars

FetchAgain(t) ==
  /\ Wake(t)
  /\ sentAt' = [sentAt EXCEPT ![t] = now]
  /\ UNCHANGED <<now, data, expires, provider, age>>

\* no attempt outlives its time-out
Passes ==
  /\ now < MaxTime /\ now' = now + 1
  /\ \A t \in Tasks : request[t].state = "sent" => now - sentAt[t] < Limit
  /\ UNCHANGED <<httpVars, data, expires, provider, sentAt, age>>

CloseProvider ==
  /\ provider' = "closed" /\ Close
  /\ UNCHANGED <<now, data, expires, sentAt, age>>

KeepClosing == (CloseUnpooled \/ ClosePooled \/ Cut) /\ UNCHANGED anisetteVars

AnisetteNext ==
  \/ Passes \/ CloseProvider \/ KeepClosing
  \/ \E t \in Tasks : GetHeaders(t) \/ Fetched(t) \/ FetchFails(t) \/ FetchAgain(t)

AnisetteSpec ==
  HttpInit /\ AnisetteInit /\ [][AnisetteNext]_<<httpVars, anisetteVars>>

-----------------------------------------------------------------------------
(* Properties *)

\* What get_headers returns was made by the server less than the period of
\* validity and one attempt's time-out ago, also when answers to several
\* callers overtake each other (get_headers).
HeadersAreFresh == \A t \in Tasks : age[t] < ValidFor + Limit
=============================================================================
