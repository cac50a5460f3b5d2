-------------------------------- MODULE Http --------------------------------
(***************************************************************************)
(* HttpSession (findmy/util/http.py): requests share one aiohttp session,  *)
(* or one that reuses no connection, which the first of them makes; close  *)
(* awaits each, and requests may be under way or between two attempts.     *)
(***************************************************************************)
EXTENDS Integers, FiniteSets

CONSTANTS
  Tasks,        \* those that make requests
  MaxMade,      \* bounds the aiohttp sessions that are made
  None

ASSUME MadeAssumption == MaxMade \in Nat /\ None \notin Nat

VARIABLES
  pooled,       \* _session
  unpooled,     \* _unpooled
  closed,       \* _closed
  closing,      \* how far close is
  made,         \* how many aiohttp sessions were made
  open,         \* those that are open
  abandoned,    \* those whose close raised
  request       \* the request each task makes

sessions == <<pooled, unpooled, made>>
closeVars == <<closed, closing, open, abandoned>>
httpVars == <<sessions, closeVars, request>>

NoRequest == [state |-> "none", session |-> None, retries |-> FALSE, attempt |-> 0]

HttpInit ==
  /\ pooled = None /\ unpooled = None /\ made = 0
  /\ closed = FALSE /\ closing = "no" /\ open = {} /\ abandoned = {}
  /\ request = [t \in Tasks |-> NoRequest]

-----------------------------------------------------------------------------
(* request *)

\* _get_session and the first attempt.  On a closed session it raises.
Sends(t, session, retries) ==
  request' = [request EXCEPT ![t] =
    [state |-> "sent", session |-> session, retries |-> retries, attempt |-> 1]]

Request(t, reuse, retries) ==
  /\ request[t].state = "none" /\ ~closed
  /\ LET one == IF reuse THEN pooled ELSE unpooled
         new == made + 1
     IN IF one # None
        THEN Sends(t, one, retries) /\ UNCHANGED <<sessions, open>>
        ELSE /\ made < MaxMade /\ made' = new /\ open' = open \cup {new}
             /\ pooled' = IF reuse THEN new ELSE pooled
             /\ unpooled' = IF reuse THEN unpooled ELSE new
             /\ Sends(t, new, retries)
  /\ UNCHANGED <<closed, closing, abandoned>>

Over(t) == request' = [request EXCEPT ![t] = NoRequest]

Reply(t) ==
  /\ request[t].state = "sent" /\ request[t].session \in open /\ Over(t)
  /\ UNCHANGED <<sessions, closeVars>>

\* a ClientError is retried if asked for, three times; a time-out is not
Errs(t) ==
  /\ request[t].state = "sent"
  /\ \/ Over(t)
     \/ /\ request[t].retries /\ request[t].attempt <= 3
        /\ request' = [request EXCEPT ![t].state = "sleeping"]
  /\ UNCHANGED <<sessions, closeVars>>

\* the next attempt is made of the same aiohttp session; one that was closed
\* meanwhile raises RuntimeError
Wake(t) ==
  /\ request[t].state = "sleeping"
  /\ IF request[t].session \in open
     THEN request' = [request EXCEPT ![t].state = "sent", ![t].attempt = @ + 1]
     ELSE Over(t)
  /\ UNCHANGED <<sessions, closeVars>>

-----------------------------------------------------------------------------
(* close *)

\* mutant of ClosedAtOnce: only once everything is closed
ClosedInTheEnd == FALSE

ClosedAtOnce == TRUE

Close ==
  /\ ~closed /\ closing = "no"
  /\ closed' = ClosedAtOnce /\ closing' = "unpooled"
  /\ UNCHANGED <<sessions, open, abandoned, request>>

\* an aiohttp session is closed, or that raises what close expects
Awaits(session) ==
  \/ open' = open \ {session} /\ UNCHANGED abandoned
  \/ abandoned' = abandoned \cup {session} /\ UNCHANGED open

CloseUnpooled ==
  /\ closing = "unpooled" /\ closing' = "pooled"
  /\ IF unpooled = None THEN UNCHANGED <<open, abandoned>> ELSE Awaits(unpooled)
  /\ unpooled' = None
  /\ UNCHANGED <<pooled, made, closed, request>>

ClosePooled ==
  /\ closing = "pooled" /\ closing' = "done" /\ closed' = TRUE
  /\ IF pooled = None THEN UNCHANGED <<open, abandoned>> ELSE Awaits(pooled)
  /\ pooled' = None
  /\ UNCHANGED <<unpooled, made, request>>

\* whoever awaits close is cancelled: what it has not come to stays open
Cut ==
  /\ \/ closing = "unpooled" /\ unpooled # None /\ unpooled' = None /\ UNCHANGED pooled
     \/ closing = "pooled" /\ pooled # None /\ pooled' = None /\ UNCHANGED unpooled
  /\ closing' = "cut"
  /\ UNCHANGED <<made, closed, open, abandoned, request>>

Closes == Close \/ CloseUnpooled \/ ClosePooled \/ Cut

HttpNext ==
  \/ Closes
  \/ \E t \in Tasks : \/ \E reuse, retries \in BOOLEAN : Request(t, reuse, retries)
                      \/ Reply(t) \/ Errs(t) \/ Wake(t)

HttpSpec == HttpInit /\ [][HttpNext]_httpVars

-----------------------------------------------------------------------------
(* Properties *)

\* Once close has returned no aiohttp session is left open that it could
\* close, whatever was requested while it awaited the others (close,
\* _get_session).
NothingLeftOpen == closing = "done" => open \subseteq abandoned
=============================================================================
