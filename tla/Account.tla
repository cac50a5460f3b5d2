------------------------------ MODULE Account ------------------------------
(***************************************************************************)
(* The login state machine of AsyncAppleAccount (findmy/reports/account.py)*)
(* as it is driven by asyncio: every public coroutine is split at the      *)
(* awaits after which it reads or writes the account, and one action is    *)
(* the code that runs between two awaits.  Several coroutines may be in    *)
(* flight on one account; nothing in the code serialises them.             *)
(*                                                                         *)
(* The login state a method needs is checked when it is called, by a plain *)
(* wrapper; the coroutine it returns begins when it is awaited or its task *)
(* is scheduled, in whatever state the account is in by then.              *)
(*                                                                         *)
(* Tokens are abstracted to the number of the Grand Slam authentication    *)
(* that issued them, so that an old token and a new one differ.  Apple's   *)
(* servers answer nondeterministically.                                    *)
(***************************************************************************)
EXTENDS Integers

CONSTANTS
  Tasks,        \* coroutines that may be running on the account
  MaxRetries,   \* _max_retries of _do_request (5 in the code)
  MaxAuths,     \* bound: Grand Slam authentications that succeed
  MaxRestarts   \* bound: times the process is restarted from its file

ASSUME RetriesAssumption  == MaxRetries \in Nat
ASSUME AuthsAssumption    == MaxAuths \in Nat
ASSUME RestartsAssumption == MaxRestarts \in Nat

VARIABLES
  session,    \* [state, data, info]: the three fields request_pet puts back
  hasCreds,   \* _username and _password are both set
  task,       \* the locals of each coroutine
  issued,     \* authentications completed so far (server side)
  disk,       \* the file to_json wrote: at most one snapshot
  restarts    \* restarts so far

vars == <<session, hasCreds, task, issued, disk, restarts>>

-----------------------------------------------------------------------------
(* LoginState and its order (state.py) *)

LoginState == {"LOGGED_OUT", "REQUIRE_2FA", "AUTHENTICATED", "LOGGED_IN"}

Level == [s \in LoginState |->
            CASE s = "LOGGED_OUT"    -> 0
              [] s = "REQUIRE_2FA"   -> 1
              [] s = "AUTHENTICATED" -> 2
              [] s = "LOGGED_IN"     -> 3]

Missing  == 0    \* the key is not in _login_state_data
EmptyPet == -1   \* the key is there and holds the empty string

Token == Nat \cup {EmptyPet}

Data == [adsid : BOOLEAN, idms : Nat, pet : Token, hb : Nat, mobileme : Nat]

NoData == [adsid |-> FALSE, idms |-> Missing, pet |-> Missing,
           hb |-> Missing, mobileme |-> Missing]

Session == [state : LoginState, data : Data, info : BOOLEAN]

NewSession == [state |-> "LOGGED_OUT", data |-> NoData, info |-> FALSE]

\* _set_login_state: going down a level forgets the account information
SetLoginState(s, state, data) ==
  [state |-> state, data |-> data,
   info  |-> s.info /\ Level[state] >= Level[s.state]]

Op == {"login", "submit", "methods", "request_2fa", "request_pet", "terms",
       "complete_login", "fetch_reports", "announce"}

\* the states the @_require_login_state decorator of each operation allows
Allowed == [o \in Op |->
  CASE o = "login"                               -> {"LOGGED_OUT"}
    [] o \in {"submit", "methods", "request_2fa"} -> {"REQUIRE_2FA"}
    [] o \in {"terms", "complete_login"}         -> {"AUTHENTICATED"}
    [] o \in {"request_pet", "fetch_reports"}    -> {"LOGGED_IN"}
    [] o = "announce"                 -> {"AUTHENTICATED", "LOGGED_IN"}]

Waiting == {"sms", "gsa_init", "gsa_complete", "mobileme_headers",
            "mobileme_reply", "terms_headers", "terms_reply",
            "reports_reply", "reports_sleep", "announce_reply"}

Outcome == {"none", "returned", "no_methods", "InvalidStateError", "ValueError",
            "KeyError", "InvalidCredentialsError", "UnauthorizedError",
            "UnhandledProtocolError", "MobileMeDelegateError", "TermsError",
            "EmptyResponseError", "ConnectionError", "CancelledError"}

Task == [pc : Waiting \cup {"idle", "called"}, op : Op \cup {"none"}, outcome : Outcome,
         saved : Session,     \* previous_state, previous_data, previous_info
         cred : Token,        \* the PET in the request in flight (or `held')
         adsid : BOOLEAN,     \* _login_mobileme read it before its first await
         auth : Nat,          \* searchPartyToken captured by fetch_raw_reports
         retry : Nat,         \* retry_counter - 1 of _do_request
         reauthed : BOOLEAN,  \* the login was redone after a 401
         since : Nat,         \* `issued' when request_pet began
         pet : Nat]           \* the PET request_pet returned

Idle(outcome, pet) ==
  [pc |-> "idle", op |-> "none", outcome |-> outcome, saved |-> NewSession,
   cred |-> Missing, adsid |-> FALSE, auth |-> Missing, retry |-> 0,
   reauthed |-> FALSE, since |-> 0, pet |-> pet]

Done(outcome) == Idle(outcome, Missing)

Running(o, pc) == [Idle("none", Missing) EXCEPT !.op = o, !.pc = pc]

Become(t, r) == task' = [task EXCEPT ![t] = r]

At(t, pc) == task[t].pc = pc

\* the body of a call begins
Begins(t, o) == At(t, "called") /\ task[t].op = o

\* an exception leaves the coroutine; request_pet's `finally' puts back the
\* state, data and information it saved when it began
Raise(t, e) ==
  /\ session' = IF task[t].op = "request_pet" /\ ~At(t, "called")
                THEN task[t].saved ELSE session
  /\ Become(t, Done(e))

Init ==
  /\ session = NewSession
  /\ hasCreds = FALSE
  /\ task = [t \in Tasks |-> Done("none")]
  /\ issued = 0
  /\ disk = {}
  /\ restarts = 0

-----------------------------------------------------------------------------
(* Entering the private coroutines, which are awaited where they are       *)
(* called: decorator, then the code up to the first await.                 *)

GsaEntered(r, creds) ==
  IF session.state = "AUTHENTICATED" THEN Done("InvalidStateError")
  ELSE IF ~creds THEN Done("ValueError")
  ELSE [r EXCEPT !.pc = "gsa_init"]

MobileMeEntered(r, s) ==
  IF s.state # "AUTHENTICATED" THEN Done("InvalidStateError")
  ELSE IF s.data.pet = Missing THEN Done("KeyError")
  ELSE [r EXCEPT !.pc = "mobileme_headers", !.adsid = s.data.adsid]

\* _sms_2fa_request indexes both tokens of the challenge
SmsEntered(r) ==
  IF session.data.adsid /\ session.data.idms # Missing
  THEN [r EXCEPT !.pc = "sms"] ELSE Done("KeyError")

-----------------------------------------------------------------------------
(* A public call: the decorator looks at the login state *)

Called(t) ==
  /\ At(t, "idle")
  /\ \E o \in Op :
       Become(t, IF session.state \in Allowed[o] THEN Running(o, "called")
                                                 ELSE Done("InvalidStateError"))
  /\ UNCHANGED <<session, hasCreds, issued, disk, restarts>>

-----------------------------------------------------------------------------
(* The bodies, up to their first await, in any state *)

Login(t) ==
  /\ Begins(t, "login")
  /\ \E given \in BOOLEAN :
       hasCreds' = (hasCreds \/ (given /\ session.state # "AUTHENTICATED"))
  /\ Become(t, GsaEntered(task[t], hasCreds'))
  /\ UNCHANGED <<session, issued, disk, restarts>>

\* sms_2fa_submit / td_2fa_submit and sms_2fa_request / td_2fa_request
TwoFactor(t) ==
  /\ Begins(t, "submit") \/ Begins(t, "request_2fa")
  /\ Become(t, SmsEntered(task[t]))
  /\ UNCHANGED <<session, hasCreds, issued, disk, restarts>>

Get2faMethods(t) ==
  /\ Begins(t, "methods")
  /\ Become(t, IF session.info THEN SmsEntered(task[t]) ELSE Done("no_methods"))
  /\ UNCHANGED <<session, hasCreds, issued, disk, restarts>>

RequestPet(t) ==
  /\ Begins(t, "request_pet")
  /\ Become(t, GsaEntered([task[t] EXCEPT !.saved = session, !.since = issued], hasCreds))
  /\ UNCHANGED <<session, hasCreds, issued, disk, restarts>>

\* fetch_terms and accept_terms: the same steps with another request
Terms(t) ==
  /\ Begins(t, "terms")
  /\ Become(t, [task[t] EXCEPT !.pc = "terms_headers"])
  /\ UNCHANGED <<session, hasCreds, issued, disk, restarts>>

CompleteLogin(t) ==
  /\ Begins(t, "complete_login")
  /\ Become(t, MobileMeEntered(task[t], session))
  /\ UNCHANGED <<session, hasCreds, issued, disk, restarts>>

\* the token pair is read once, before the request that may be retried, and
\* only a login has one
FetchRawReports(t) ==
  /\ Begins(t, "fetch_reports")
  /\ Become(t, IF session.state # "LOGGED_IN" THEN Done("InvalidStateError")
               ELSE [task[t] EXCEPT !.pc = "reports_reply", !.auth = session.data.mobileme])
  /\ UNCHANGED <<session, hasCreds, issued, disk, restarts>>

AnnounceDevice(t) ==
  /\ Begins(t, "announce")
  /\ Become(t, IF session.data.adsid /\ session.data.hb # Missing
               THEN [task[t] EXCEPT !.pc = "announce_reply"]
               ELSE Done("InvalidStateError"))
  /\ UNCHANGED <<session, hasCreds, issued, disk, restarts>>

-----------------------------------------------------------------------------
(* _sms_2fa_request answered *)

SmsOk(t) ==
  /\ At(t, "sms")
  /\ Become(t, IF task[t].op = "submit" THEN GsaEntered(task[t], hasCreds)
                                        ELSE Done("returned"))
  /\ UNCHANGED <<session, hasCreds, issued, disk, restarts>>

-----------------------------------------------------------------------------
(* _gsa_authenticate: two requests, then one segment that changes the      *)
(* session and returns into its caller without suspending.                 *)

GsaInitOk(t) ==
  /\ At(t, "gsa_init")
  /\ Become(t, [task[t] EXCEPT !.pc = "gsa_complete"])
  /\ UNCHANGED <<session, hasCreds, issued, disk, restarts>>

\* mutant of Authenticated: the PET is not kept
AuthenticatedNoPet(pet) ==
  SetLoginState([session EXCEPT !.info = TRUE], "AUTHENTICATED",
                [NoData EXCEPT !.adsid = TRUE, !.hb = issued + 1])

\* Grand Slam issues fresh tokens; `pet' may be the empty string
Authenticated(pet) ==
  SetLoginState([session EXCEPT !.info = TRUE], "AUTHENTICATED",
                [NoData EXCEPT !.adsid = TRUE, !.pet = pet, !.hb = issued + 1])

Challenged ==
  SetLoginState([session EXCEPT !.info = TRUE], "REQUIRE_2FA",
                [NoData EXCEPT !.adsid = TRUE, !.idms = issued + 1])

\* `previous' put back, and the request goes out with the PET already held
SendHeld(t) ==
  /\ session' = task[t].saved
  /\ Become(t, [task[t] EXCEPT !.pc = "terms_reply"])

\* login, 2FA submission and the 401 handler go on to _login_mobileme
GsaAuthenticatedLogin(t) ==
  /\ At(t, "gsa_complete") /\ issued < MaxAuths
  /\ task[t].op \in {"login", "submit", "fetch_reports"}
  /\ \E pet \in {issued + 1, EmptyPet} :
       /\ session' = Authenticated(pet)
       /\ Become(t, MobileMeEntered(
                      [task[t] EXCEPT !.reauthed = (@ \/ task[t].op = "fetch_reports")],
                      session'))
  /\ issued' = issued + 1
  /\ UNCHANGED <<hasCreds, disk, restarts>>

\* mutant of GsaAuthenticatedPet: what comes back is not looked at
GsaAuthenticatedPetUnchecked(t) ==
  /\ At(t, "gsa_complete") /\ issued < MaxAuths
  /\ task[t].op = "request_pet"
  /\ session' = [task[t].saved EXCEPT !.data.adsid = TRUE]
  /\ \E pet \in {issued + 1, EmptyPet} : Become(t, Idle("returned", pet))
  /\ issued' = issued + 1
  /\ UNCHANGED <<hasCreds, disk, restarts>>

\* mutant of GsaAuthenticatedPet: only the login state is put back, not its data
GsaAuthenticatedPetStateOnly(t) ==
  /\ At(t, "gsa_complete") /\ issued < MaxAuths
  /\ task[t].op = "request_pet"
  /\ session' = [Authenticated(issued + 1) EXCEPT !.state = task[t].saved.state]
  /\ Become(t, Idle("returned", issued + 1))
  /\ issued' = issued + 1
  /\ UNCHANGED <<hasCreds, disk, restarts>>

\* mutant of GsaAuthenticatedPet: the new heartbeat is kept beside the adsid
GsaAuthenticatedPetHeartbeat(t) ==
  /\ At(t, "gsa_complete") /\ issued < MaxAuths
  /\ task[t].op = "request_pet"
  /\ session' = [task[t].saved EXCEPT !.data.adsid = TRUE, !.data.hb = issued + 1]
  /\ Become(t, Idle("returned", issued + 1))
  /\ issued' = issued + 1
  /\ UNCHANGED <<hasCreds, disk, restarts>>

\* mutant of GsaAuthenticatedPet: the PET of an earlier authentication
GsaAuthenticatedPetEarlier(t) ==
  /\ At(t, "gsa_complete") /\ issued < MaxAuths
  /\ task[t].op = "request_pet"
  /\ session' = [task[t].saved EXCEPT !.data.adsid = TRUE]
  /\ Become(t, Idle("returned", issued))
  /\ issued' = issued + 1
  /\ UNCHANGED <<hasCreds, disk, restarts>>

\* request_pet takes the PET, puts the session back and adds a missing adsid
GsaAuthenticatedPet(t) ==
  /\ At(t, "gsa_complete") /\ issued < MaxAuths
  /\ task[t].op = "request_pet"
  /\ \/ /\ session' = [task[t].saved EXCEPT !.data.adsid = TRUE]
        /\ Become(t, Idle("returned", issued + 1))
     \/ Raise(t, "UnhandledProtocolError")    \* no PET in the answer
  /\ issued' = issued + 1
  /\ UNCHANGED <<hasCreds, disk, restarts>>

\* _fresh_pet leaves the account where the authentication put it
GsaAuthenticatedTerms(t) ==
  /\ At(t, "gsa_complete") /\ issued < MaxAuths
  /\ task[t].op = "terms"
  /\ \E pet \in {issued + 1, EmptyPet} :
       /\ session' = Authenticated(pet)
       /\ Become(t, [task[t] EXCEPT !.pc = "terms_reply", !.cred = pet])
  /\ issued' = issued + 1
  /\ UNCHANGED <<hasCreds, disk, restarts>>

\* mutant of GsaChallenged: request_pet without its `finally'
GsaChallengedNoFinally(t) ==
  /\ At(t, "gsa_complete") /\ issued < MaxAuths
  /\ session' = Challenged /\ Become(t, Done("UnauthorizedError"))
  /\ issued' = issued + 1
  /\ UNCHANGED <<hasCreds, disk, restarts>>

\* Grand Slam asks for a second factor
GsaChallenged(t) ==
  /\ At(t, "gsa_complete") /\ issued < MaxAuths
  /\ \/ task[t].op = "login" /\ session' = Challenged /\ Become(t, Done("returned"))
     \/ /\ task[t].op = "submit" /\ session' = Challenged
        /\ Become(t, Done("UnhandledProtocolError"))
     \/ /\ task[t].op = "fetch_reports" /\ session' = Challenged
        /\ Become(t, Done("UnauthorizedError"))
     \/ task[t].op = "request_pet" /\ Raise(t, "UnauthorizedError")
     \/ task[t].op = "terms" /\ SendHeld(t)
  /\ issued' = issued + 1
  /\ UNCHANGED <<hasCreds, disk, restarts>>

\* a refusal in either request, or a transport error
GsaFail(t) ==
  /\ task[t].pc \in {"gsa_init", "gsa_complete"}
  /\ \E e \in {"InvalidCredentialsError", "UnhandledProtocolError", "ConnectionError"} :
       IF task[t].op = "terms" /\ e # "ConnectionError"
       THEN SendHeld(t) ELSE Raise(t, e)
  /\ UNCHANGED <<hasCreds, issued, disk, restarts>>

\* an `au' value the code does not know: the information is already replaced
GsaUnknownAu(t) ==
  /\ At(t, "gsa_complete")
  /\ \/ /\ task[t].op \notin {"request_pet", "terms"}
        /\ session' = [session EXCEPT !.info = TRUE]
        /\ Become(t, Done("UnhandledProtocolError"))
     \/ task[t].op = "request_pet" /\ Raise(t, "UnhandledProtocolError")
     \/ task[t].op = "terms" /\ SendHeld(t)
  /\ UNCHANGED <<hasCreds, issued, disk, restarts>>

-----------------------------------------------------------------------------
(* _login_mobileme *)

\* get_anisette_headers returned; the PET is read a second time
MobileMeHeaders(t) ==
  /\ At(t, "mobileme_headers")
  /\ Become(t, IF session.data.pet = Missing THEN Done("KeyError")
               ELSE [task[t] EXCEPT !.pc = "mobileme_reply", !.cred = session.data.pet])
  /\ UNCHANGED <<session, hasCreds, issued, disk, restarts>>

\* mutant of MobileMeOk: the new data is merged, so the spent PET stays
MobileMeOkKeepsPet(t) ==
  /\ At(t, "mobileme_reply") /\ task[t].cred > 0
  /\ session' = SetLoginState(session, "LOGGED_IN",
                  [session.data EXCEPT !.mobileme = task[t].cred])
  /\ Become(t, Done("returned"))
  /\ UNCHANGED <<hasCreds, issued, disk, restarts>>

\* the login state is set without another look at what it is by now; the
\* heartbeat token is taken from the data of this moment
MobileMeOk(t) ==
  /\ At(t, "mobileme_reply") /\ task[t].cred > 0
  /\ session' = SetLoginState(session, "LOGGED_IN",
                  [adsid |-> task[t].adsid, idms |-> Missing, pet |-> Missing,
                   hb |-> session.data.hb, mobileme |-> task[t].cred])
  /\ Become(t, IF task[t].op = "fetch_reports"
               THEN [task[t] EXCEPT !.pc = "reports_reply", !.retry = 0,
                                    !.cred = Missing]
               ELSE Done("returned"))
  /\ UNCHANGED <<hasCreds, issued, disk, restarts>>

-----------------------------------------------------------------------------
(* fetch_terms / accept_terms and _fresh_pet *)

TermsHeaders(t) ==
  /\ At(t, "terms_headers")
  /\ LET holding == [task[t] EXCEPT !.cred = session.data.pet]
     IN  Become(t, IF hasCreds
                   THEN GsaEntered([holding EXCEPT !.saved = session], TRUE)
                   ELSE [holding EXCEPT !.pc = "terms_reply"])
  /\ UNCHANGED <<session, hasCreds, issued, disk, restarts>>

-----------------------------------------------------------------------------
(* fetch_raw_reports *)

\* HTTP 401: redo the login once, then give up
Reports401(t) ==
  /\ At(t, "reports_reply")
  /\ Become(t, IF task[t].reauthed \/ ~hasCreds THEN Done("UnauthorizedError")
               ELSE GsaEntered(task[t], TRUE))
  /\ UNCHANGED <<session, hasCreds, issued, disk, restarts>>

\* HTTP 200 with an empty body
ReportsEmpty(t) ==
  /\ At(t, "reports_reply")
  /\ Become(t, IF task[t].retry >= MaxRetries THEN Done("EmptyResponseError")
               ELSE [task[t] EXCEPT !.pc = "reports_sleep"])
  /\ UNCHANGED <<session, hasCreds, issued, disk, restarts>>

\* mutant of ReportsRetry: the retry is not counted
ReportsRetryUncounted(t) ==
  /\ At(t, "reports_sleep")
  /\ Become(t, [task[t] EXCEPT !.pc = "reports_reply"])
  /\ UNCHANGED <<session, hasCreds, issued, disk, restarts>>

\* asyncio.sleep over, the request is made again
ReportsRetry(t) ==
  /\ At(t, "reports_sleep")
  /\ Become(t, [task[t] EXCEPT !.pc = "reports_reply", !.retry = @ + 1])
  /\ UNCHANGED <<session, hasCreds, issued, disk, restarts>>

-----------------------------------------------------------------------------
(* A request that changes nothing but its caller *)

Return(t) ==
  /\ task[t].pc \in {"reports_reply", "terms_reply", "announce_reply"}
  /\ Become(t, Done("returned"))
  /\ UNCHANGED <<session, hasCreds, issued, disk, restarts>>

\* any request outside _gsa_authenticate refused, or lost by the transport
Fail(t) ==
  /\ \E e \in {"ConnectionError",
               CASE At(t, "mobileme_reply") -> "MobileMeDelegateError"
                 [] At(t, "terms_reply")    -> "TermsError"
                 [] OTHER                   -> "UnhandledProtocolError"} :
       Raise(t, e)
  /\ task[t].pc \in {"sms", "mobileme_headers", "mobileme_reply", "terms_headers",
                     "terms_reply", "reports_reply", "announce_reply"}
  /\ UNCHANGED <<hasCreds, issued, disk, restarts>>

\* the task is cancelled at whatever it is awaiting
Cancel(t) ==
  /\ task[t].pc # "idle"
  /\ Raise(t, "CancelledError")
  /\ UNCHANGED <<hasCreds, issued, disk, restarts>>

-----------------------------------------------------------------------------
(* The file *)

ToJson ==
  /\ disk' = {[session |-> session, creds |-> hasCreds]}
  /\ disk' # disk
  /\ UNCHANGED <<session, hasCreds, task, issued, restarts>>

\* a file written before the adsid and the heartbeat were kept
OldFormat(s) == [s EXCEPT !.data.adsid = FALSE, !.data.hb = Missing]

\* the process ends, with every coroutine, and from_json starts another
Restart ==
  /\ restarts < MaxRestarts
  /\ restarts' = restarts + 1
  /\ \E file \in disk :
       /\ session' \in {file.session} \cup
            (IF file.session.state = "LOGGED_IN" THEN {OldFormat(file.session)} ELSE {})
       /\ hasCreds' \in {file.creds, FALSE}
  /\ task' = [t \in Tasks |-> Done("none")]
  /\ UNCHANGED <<issued, disk>>

-----------------------------------------------------------------------------
Start(t) ==
  \/ Login(t) \/ TwoFactor(t) \/ Get2faMethods(t) \/ RequestPet(t) \/ Terms(t)
  \/ CompleteLogin(t) \/ FetchRawReports(t) \/ AnnounceDevice(t)

Resume(t) ==
  \/ Start(t)
  \/ SmsOk(t) \/ GsaInitOk(t) \/ GsaAuthenticatedLogin(t) \/ GsaAuthenticatedPet(t)
  \/ GsaAuthenticatedTerms(t) \/ GsaChallenged(t) \/ GsaFail(t) \/ GsaUnknownAu(t)
  \/ MobileMeHeaders(t) \/ MobileMeOk(t) \/ TermsHeaders(t)
  \/ Reports401(t) \/ ReportsEmpty(t) \/ ReportsRetry(t) \/ Return(t) \/ Fail(t)

Next == (\E t \in Tasks : Called(t) \/ Resume(t) \/ Cancel(t)) \/ ToJson \/ Restart

Spec == Init /\ [][Next]_vars

\* A coroutine that was called is awaited, every request has a timeout
\* (HttpSession) and every sleep ends, so a coroutine is resumed; nobody has to
\* call, cancel or save.
FairSpec == Spec /\ \A t \in Tasks : WF_vars(Resume(t))

-----------------------------------------------------------------------------
(* Properties.  The first group holds however the coroutines interleave.   *)

Snapshot == [session : Session, creds : BOOLEAN]

\* every variable stays in the values the code can give it
TypeOK ==
  /\ session \in Session
  /\ hasCreds \in BOOLEAN
  /\ task \in [Tasks -> Task]
  /\ issued \in Nat
  /\ disk \in SUBSET Snapshot
  /\ restarts \in Nat

\* the keys the readers of each login state index without .get()
Usable(s) ==
  /\ s.state = "REQUIRE_2FA"   => s.data.adsid /\ s.data.idms # Missing
  /\ s.state = "AUTHENTICATED" => s.data.adsid /\ s.data.pet # Missing
  /\ s.state = "LOGGED_IN"     => s.data.mobileme # Missing
  /\ s.state # "LOGGED_IN"     => s.data.mobileme = Missing
  /\ s.state # "AUTHENTICATED" => s.data.pet = Missing

\* The login state and _login_state_data belong together in the account, in
\* every triple request_pet may put back, and in a file saved at any moment:
\* whatever interleaving, restore or restart, `service_tokens', `dsid' and
\* the two-factor requests find the keys they index.
SessionUsable ==
  /\ Usable(session)
  /\ \A t \in Tasks : Usable(task[t].saved)
  /\ \A file \in disk : Usable(file.session)

\* The PET request_pet returns was issued after it began ("Obtain a
\* fresh password-equivalent token"), not the one some other login held.
PetIsFresh ==
  \A t \in Tasks : task'[t].pet > task[t].pet => task'[t].pet > task[t].since

HandedOutPetIsFresh == [][PetIsFresh]_vars

-----------------------------------------------------------------------------
(* The second group is about callers that await one call before the next   *)
(* (Tasks a singleton): concurrent re-logins break them, see the README.   *)

\* request_pet hands out a token and leaves the account what it was, whether
\* it succeeds, is challenged, is refused, loses its connection or is
\* cancelled; only a missing adsid is filled in.
PetLeavesSessionIntact ==
  [][\A t \in Tasks :
       task[t].op = "request_pet" /\ task'[t] # task[t] /\ restarts' = restarts =>
         session' \in {session, [session EXCEPT !.data.adsid = TRUE]}]_vars

\* An account that is logged in goes back a level only inside the 401
\* handler of fetch_raw_reports: no other call, failure or cancellation
\* costs the user the login.
OnlyReauthLosesLogin ==
  [][session.state = "LOGGED_IN" /\ session'.state # "LOGGED_IN"
     /\ restarts' = restarts =>
       \E t \in Tasks : task[t].op = "fetch_reports"]_vars

\* no call ends in a KeyError on _login_state_data
NoKeyError == \A t \in Tasks : task[t].outcome # "KeyError"

\* The heartbeat token stored with a completed login is the one of the
\* authentication that login exchanged, or none (a file of an older version).
HeartbeatOfTheLogin ==
  session.state = "LOGGED_IN" => session.data.hb \in {Missing, session.data.mobileme}

\* The account implements LoginFlow: between two calls a caller sees only its
\* levels, in its order, and tokens bought with the PET it held.
Flow == INSTANCE LoginFlow WITH
  level <- session.state, pet <- session.data.pet,
  tokens <- session.data.mobileme, issued <- issued,
  file <- {[level |-> f.session.state, pet |-> f.session.data.pet,
            tokens |-> f.session.data.mobileme] : f \in disk}

ImplementsLoginFlow == Flow!Spec

\* Every call ends: the 401 handler and the empty-response retries are
\* bounded, and nothing waits for anything but a reply.
CallsEnd == \A t \in Tasks : task[t].pc # "idle" ~> task[t].pc = "idle"

-----------------------------------------------------------------------------
(* What a message of the code says and the code does not do: see the       *)
(* findings                                                                *)

\* "this is meant to hand out a token, not to change what the account is"
\* (request_pet): no step of it takes the account down a level, even when
\* other callers changed the account since it was called.
PetKeepsLevel ==
  \A t \in Tasks :
    task[t].op = "request_pet" /\ task'[t] # task[t] /\ restarts' = restarts =>
      Level[session'.state] >= Level[session.state]

PetNeverLowersLogin == [][PetKeepsLevel]_vars

\* "redoing login" (fetch_raw_reports): the request repeated after the login
\* was redone carries the token the new login obtained.
RetryUsesNewToken ==
  \A t \in Tasks :
    At(t, "reports_reply") /\ task[t].reauthed =>
      task[t].auth = session.data.mobileme
=============================================================================
