--------------------------- MODULE AccountProofs ---------------------------
(***************************************************************************)
(* For every set of tasks and every bound: the types, the agreement of the *)
(* login state with its data, and what request_pet may do, under any       *)
(* interleaving of coroutines, failures, cancellations and restarts.       *)
(***************************************************************************)
EXTENDS Account, TLAPS

\* what a coroutine's locals satisfy when n authentications are completed
GoodTask(r, n) ==
  /\ r \in Task
  /\ Usable(r.saved)
  /\ r.op = "request_pet" => r.since <= n

\* SessionUsable made inductive: what any call saved is usable, and request_pet
\* began before the authentication it waits for
IInv ==
  /\ TypeOK
  /\ SessionUsable
  /\ \A t \in Tasks : GoodTask(task[t], issued)

-----------------------------------------------------------------------------
(* The operators the actions are built from *)

\* a finished call has well-typed locals, whatever it ended with
LEMMA IdleGood ==
  ASSUME NEW o \in Outcome, NEW p \in Nat, NEW n \in Nat
  PROVE  GoodTask(Idle(o, p), n)
BY DEF GoodTask, Idle, Task, Usable, NewSession, NoData, Session, Data, Token,
       LoginState, Missing, EmptyPet, Op, Waiting

\* so has a call that has just started
LEMMA RunningGood ==
  ASSUME NEW o \in Op, NEW pc \in Waiting \cup {"idle", "called"}, NEW n \in Nat
  PROVE  GoodTask(Running(o, pc), n)
<1> DEFINE r == Idle("none", Missing)
<1>1. GoodTask(r, n) /\ r.since = 0
  BY IdleGood DEF Outcome, Missing, Idle
<1>2. Running(o, pc) = [r EXCEPT !.op = o, !.pc = pc]
  BY DEF Running
<1> HIDE DEF r
<1>3. /\ Running(o, pc) \in Task /\ Running(o, pc).saved = r.saved
      /\ Running(o, pc).since = 0
  BY <1>1, <1>2 DEF GoodTask, Task
<1> QED
  BY <1>1, <1>3 DEF GoodTask

\* moving a coroutine to another await keeps its locals well typed
LEMMA MovedGood ==
  ASSUME NEW r, NEW n \in Nat, GoodTask(r, n), NEW pc \in Waiting
  PROVE  GoodTask([r EXCEPT !.pc = pc], n)
BY DEF GoodTask, Task

\* storing a new credential keeps them well typed too
LEMMA CredGood ==
  ASSUME NEW r, NEW n \in Nat, GoodTask(r, n), NEW pc \in Waiting, NEW c \in Token
  PROVE  GoodTask([r EXCEPT !.pc = pc, !.cred = c], n)
BY DEF GoodTask, Task

\* _gsa_authenticate up to its first await
LEMMA GsaEnteredGood ==
  ASSUME NEW r, NEW n \in Nat, GoodTask(r, n), NEW creds \in BOOLEAN
  PROVE  GoodTask(GsaEntered(r, creds), n)
<1>1. GoodTask(Done("InvalidStateError"), n) /\ GoodTask(Done("ValueError"), n)
  BY IdleGood DEF Done, Outcome, Missing
<1>2. GoodTask([r EXCEPT !.pc = "gsa_init"], n)
  BY MovedGood DEF Waiting
<1> QED
  BY <1>1, <1>2 DEF GsaEntered

\* _login_mobileme up to its first await
LEMMA MobileMeEnteredGood ==
  ASSUME NEW r, NEW n \in Nat, GoodTask(r, n), NEW s \in Session
  PROVE  GoodTask(MobileMeEntered(r, s), n)
<1>1. GoodTask(Done("InvalidStateError"), n) /\ GoodTask(Done("KeyError"), n)
  BY IdleGood DEF Done, Outcome, Missing
<1>2. GoodTask([r EXCEPT !.pc = "mobileme_headers", !.adsid = s.data.adsid], n)
  BY DEF GoodTask, Task, Waiting, Session, Data
<1> QED
  BY <1>1, <1>2 DEF MobileMeEntered

\* _sms_2fa_request up to its first await
LEMMA SmsEnteredGood ==
  ASSUME NEW r, NEW n \in Nat, GoodTask(r, n)
  PROVE  GoodTask(SmsEntered(r), n)
<1>1. GoodTask(Done("KeyError"), n)
  BY IdleGood DEF Done, Outcome, Missing
<1>2. GoodTask([r EXCEPT !.pc = "sms"], n)
  BY MovedGood DEF Waiting
<1> QED
  BY <1>1, <1>2 DEF SmsEntered

\* _set_login_state keeps the session well typed
LEMMA SetLoginStateType ==
  ASSUME NEW s \in Session, NEW state \in LoginState, NEW data \in Data
  PROVE  /\ SetLoginState(s, state, data) \in Session
         /\ SetLoginState(s, state, data).state = state
         /\ SetLoginState(s, state, data).data = data
BY DEF SetLoginState, Session

\* both outcomes of an authentication are usable sessions
LEMMA AuthenticationUsable ==
  ASSUME session \in Session, issued \in Nat, NEW pet \in {issued + 1, EmptyPet}
  PROVE  /\ Authenticated(pet) \in Session /\ Usable(Authenticated(pet))
         /\ Challenged \in Session /\ Usable(Challenged)
<1> DEFINE s == [session EXCEPT !.info = TRUE]
           a == [NoData EXCEPT !.adsid = TRUE, !.pet = pet, !.hb = issued + 1]
           c == [NoData EXCEPT !.adsid = TRUE, !.idms = issued + 1]
<1>1. s \in Session
  BY DEF Session
<1>2. a \in Data /\ c \in Data
  <2>1. NoData \in Data
    BY DEF NoData, Data, Token, Missing
  <2>2. pet \in Token /\ issued + 1 \in Nat
    BY DEF Token, EmptyPet
  <2> QED
    BY <2>1, <2>2 DEF Data
<1>3. /\ Authenticated(pet) \in Session
      /\ Authenticated(pet).state = "AUTHENTICATED" /\ Authenticated(pet).data = a
      /\ Challenged \in Session
      /\ Challenged.state = "REQUIRE_2FA" /\ Challenged.data = c
  <2>1. /\ Authenticated(pet) = SetLoginState(s, "AUTHENTICATED", a)
        /\ Challenged = SetLoginState(s, "REQUIRE_2FA", c)
    BY DEF Authenticated, Challenged
  <2>2. {"AUTHENTICATED", "REQUIRE_2FA"} \subseteq LoginState
    BY DEF LoginState
  <2> HIDE DEF s, a, c
  <2> QED
    BY <1>1, <1>2, <2>1, <2>2, SetLoginStateType
<1>4. /\ a.adsid /\ a.pet # Missing /\ a.mobileme = Missing
      /\ c.adsid /\ c.idms # Missing /\ c.pet = Missing /\ c.mobileme = Missing
  BY DEF NoData, Missing, EmptyPet
<1> HIDE DEF a, c
<1> QED
  BY <1>3, <1>4 DEF Usable

-----------------------------------------------------------------------------
(* One coroutine moves to r, and whatever else the step does is sound *)

\* one coroutine moves on and leaves the account usable
LEMMA StepPreserves ==
  ASSUME IInv, NEW t \in Tasks, NEW r, Become(t, r),
         session' \in Session, Usable(session'), hasCreds' \in BOOLEAN,
         issued' \in Nat, issued' >= issued, GoodTask(r, issued'),
         UNCHANGED <<disk, restarts>>
  PROVE  IInv'
<1>1. task' = [task EXCEPT ![t] = r]
  BY DEF Become
<1>2. \A u \in Tasks : GoodTask(task'[u], issued')
  <2> SUFFICES ASSUME NEW u \in Tasks PROVE GoodTask(task'[u], issued')
    OBVIOUS
  <2>1. CASE u = t
    BY <1>1, <2>1 DEF IInv, TypeOK
  <2>2. CASE u # t
    <3>1. task'[u] = task[u] /\ GoodTask(task[u], issued)
      BY <1>1, <2>2 DEF IInv, TypeOK
    <3>2. task[u].since \in Nat /\ issued \in Nat
      BY DEF IInv, TypeOK, Task
    <3> QED
      BY <3>1, <3>2 DEF GoodTask
  <2> QED
    BY <2>1, <2>2
<1>3. task' \in [Tasks -> Task]
  BY <1>1 DEF GoodTask, IInv, TypeOK
<1>4. TypeOK'
  BY <1>3 DEF IInv, TypeOK
<1>5. SessionUsable'
  BY <1>2 DEF IInv, SessionUsable, GoodTask
<1> QED
  BY <1>2, <1>4, <1>5 DEF IInv

\* the common case: only the coroutine moves
LEMMA MovePreserves ==
  ASSUME IInv, NEW t \in Tasks, NEW r, Become(t, r), GoodTask(r, issued),
         UNCHANGED <<session, hasCreds, issued, disk, restarts>>
  PROVE  IInv'
BY StepPreserves DEF IInv, TypeOK, SessionUsable

\* an exception leaves the coroutine, whatever it was waiting for
LEMMA RaisePreserves ==
  ASSUME IInv, NEW t \in Tasks, NEW e \in Outcome, Raise(t, e),
         hasCreds' = hasCreds, issued' \in Nat, issued' >= issued,
         UNCHANGED <<disk, restarts>>
  PROVE  IInv'
<1>1. GoodTask(Done(e), issued')
  BY IdleGood DEF Done, Missing
<1>2. session' \in Session /\ Usable(session')
  BY DEF Raise, IInv, TypeOK, SessionUsable, Task, GoodTask
<1> QED
  BY <1>1, <1>2, StepPreserves DEF Raise, IInv, TypeOK

\* _fresh_pet gives up the renewal and restores what it saved
LEMMA SendHeldPreserves ==
  ASSUME IInv, NEW t \in Tasks, SendHeld(t),
         hasCreds' = hasCreds, issued' \in Nat, issued' >= issued,
         UNCHANGED <<disk, restarts>>
  PROVE  IInv'
<1>1. GoodTask(task[t], issued') /\ task[t].saved \in Session /\ Usable(task[t].saved)
  BY DEF IInv, TypeOK, GoodTask, Task
<1>2. GoodTask([task[t] EXCEPT !.pc = "terms_reply"], issued')
  BY <1>1, MovedGood DEF Waiting
<1> QED
  BY <1>1, <1>2, StepPreserves DEF SendHeld, IInv, TypeOK

-----------------------------------------------------------------------------
(* Every step keeps the invariant *)

\* a call, and the body it began up to its first await, keep the invariant
LEMMA CallPreserves ==
  ASSUME IInv, NEW t \in Tasks, Called(t) \/ Start(t)
  PROVE  IInv'
<1> USE DEF Missing
<1>0. /\ session \in Session /\ hasCreds \in BOOLEAN /\ issued \in Nat
      /\ Usable(session) /\ task[t] \in Task /\ GoodTask(task[t], issued)
  BY DEF IInv, TypeOK, SessionUsable
<1>1. \A e \in Outcome : GoodTask(Done(e), issued)
  BY <1>0, IdleGood DEF Done
<1>2. \A pc \in Waiting : GoodTask([task[t] EXCEPT !.pc = pc], issued)
  BY <1>0, MovedGood
<1>3. CASE Called(t)
  <2>1. \A o \in Op : GoodTask(Running(o, "called"), issued)
    BY <1>0, RunningGood
  <2> QED
    BY <1>1, <1>3, <2>1, MovePreserves DEF Called, Outcome
<1>4. CASE Login(t)
  <2>1. Become(t, GsaEntered(task[t], hasCreds')) /\ hasCreds' \in BOOLEAN
    BY <1>0, <1>4 DEF Login
  <2>2. GoodTask(GsaEntered(task[t], hasCreds'), issued)
    BY <1>0, <2>1, GsaEnteredGood
  <2> QED
    BY <1>0, <1>4, <2>1, <2>2, StepPreserves DEF Login
<1>5. CASE TwoFactor(t) \/ Get2faMethods(t)
  <2>1. GoodTask(SmsEntered(task[t]), issued)
    BY <1>0, SmsEnteredGood
  <2> QED
    BY <1>1, <1>5, <2>1, MovePreserves DEF TwoFactor, Get2faMethods, Outcome
<1>6. CASE RequestPet(t)
  <2> DEFINE r == [task[t] EXCEPT !.saved = session, !.since = issued]
  <2>0. r \in Task /\ r.saved = session /\ r.since = issued
    BY <1>0 DEF Task
  <2> HIDE DEF r
  <2>1. GoodTask(r, issued)
    BY <1>0, <2>0 DEF GoodTask
  <2>2. GoodTask(GsaEntered(r, hasCreds), issued)
    BY <1>0, <2>1, GsaEnteredGood
  <2> QED
    BY <1>6, <2>2, MovePreserves DEF RequestPet, r
<1>7. CASE Terms(t)
  BY <1>2, <1>7, MovePreserves DEF Terms, Waiting
<1>8. CASE CompleteLogin(t)
  <2>1. GoodTask(MobileMeEntered(task[t], session), issued)
    BY <1>0, MobileMeEnteredGood
  <2> QED
    BY <1>8, <2>1, MovePreserves DEF CompleteLogin
<1>9. CASE FetchRawReports(t)
  <2> DEFINE r == [task[t] EXCEPT !.pc = "reports_reply", !.auth = session.data.mobileme]
  <2>1. GoodTask(r, issued)
    BY <1>0 DEF GoodTask, Task, Session, Data, Waiting
  <2> HIDE DEF r
  <2> QED
    BY <1>1, <1>9, <2>1, MovePreserves DEF FetchRawReports, r, Outcome
<1>10. CASE AnnounceDevice(t)
  BY <1>1, <1>2, <1>10, MovePreserves DEF AnnounceDevice, Waiting, Outcome
<1> QED
  BY <1>3, <1>4, <1>5, <1>6, <1>7, <1>8, <1>9, <1>10 DEF Start

\* so do the replies of _gsa_authenticate
LEMMA GsaPreserves ==
  ASSUME IInv, NEW t \in Tasks,
         \/ GsaInitOk(t) \/ GsaAuthenticatedLogin(t) \/ GsaAuthenticatedPet(t)
         \/ GsaAuthenticatedTerms(t) \/ GsaChallenged(t) \/ GsaFail(t)
         \/ GsaUnknownAu(t)
  PROVE  IInv'
<1>0. /\ session \in Session /\ hasCreds \in BOOLEAN /\ issued \in Nat
      /\ issued + 1 \in Nat /\ issued + 1 >= issued
      /\ Usable(session) /\ task[t] \in Task
      /\ GoodTask(task[t], issued) /\ GoodTask(task[t], issued + 1)
  BY DEF IInv, TypeOK, SessionUsable, GoodTask, Task
<1>1. CASE GsaInitOk(t)
  <2>1. GoodTask([task[t] EXCEPT !.pc = "gsa_complete"], issued)
    BY <1>0, MovedGood DEF Waiting
  <2> QED
    BY <1>1, <2>1, MovePreserves DEF GsaInitOk
<1>2. CASE GsaAuthenticatedLogin(t)
  <2> DEFINE r == [task[t] EXCEPT !.reauthed = (@ \/ task[t].op = "fetch_reports")]
  <2>1. PICK pet \in {issued + 1, EmptyPet} :
          session' = Authenticated(pet) /\ Become(t, MobileMeEntered(r, session'))
    BY <1>2 DEF GsaAuthenticatedLogin
  <2>2. session' \in Session /\ Usable(session')
    BY <1>0, <2>1, AuthenticationUsable
  <2>3. GoodTask(r, issued + 1)
    BY <1>0 DEF GoodTask, Task
  <2> HIDE DEF r
  <2>4. GoodTask(MobileMeEntered(r, session'), issued + 1)
    BY <1>0, <2>2, <2>3, MobileMeEnteredGood
  <2> QED
    BY <1>0, <1>2, <2>1, <2>2, <2>4, StepPreserves DEF GsaAuthenticatedLogin
<1>3. CASE GsaAuthenticatedPet(t)
  <2>1. CASE Raise(t, "UnhandledProtocolError")
    BY <1>0, <1>3, <2>1, RaisePreserves DEF GsaAuthenticatedPet, Outcome
  <2>2. CASE /\ session' = [task[t].saved EXCEPT !.data.adsid = TRUE]
             /\ Become(t, Idle("returned", issued + 1))
    <3>1. task[t].saved \in Session /\ Usable(task[t].saved)
      BY <1>0 DEF GoodTask, Task
    <3>2. session' \in Session /\ Usable(session')
      BY <2>2, <3>1 DEF Session, Data, Usable
    <3>3. GoodTask(Idle("returned", issued + 1), issued + 1)
      BY <1>0, IdleGood DEF Outcome
    <3> QED
      BY <1>0, <1>3, <2>2, <3>2, <3>3, StepPreserves DEF GsaAuthenticatedPet
  <2> QED
    BY <1>3, <2>1, <2>2 DEF GsaAuthenticatedPet
<1>4. CASE GsaAuthenticatedTerms(t)
  <2>1. PICK pet \in {issued + 1, EmptyPet} :
          /\ session' = Authenticated(pet)
          /\ Become(t, [task[t] EXCEPT !.pc = "terms_reply", !.cred = pet])
    BY <1>4 DEF GsaAuthenticatedTerms
  <2>2. session' \in Session /\ Usable(session')
    BY <1>0, <2>1, AuthenticationUsable
  <2>3. GoodTask([task[t] EXCEPT !.pc = "terms_reply", !.cred = pet], issued + 1)
    BY <1>0, CredGood DEF Waiting, Token, EmptyPet
  <2> QED
    BY <1>0, <1>4, <2>1, <2>2, <2>3, StepPreserves DEF GsaAuthenticatedTerms
<1>5. CASE GsaChallenged(t)
  <2>1. ASSUME NEW e \in Outcome, session' = Challenged, Become(t, Done(e))
        PROVE  IInv'
    <3>1. session' \in Session /\ Usable(session')
      BY <1>0, <2>1, AuthenticationUsable
    <3>2. GoodTask(Done(e), issued + 1)
      BY <1>0, IdleGood DEF Done, Missing
    <3> QED
      BY <1>0, <1>5, <2>1, <3>1, <3>2, StepPreserves DEF GsaChallenged
  <2>2. CASE Raise(t, "UnauthorizedError")
    BY <1>0, <1>5, <2>2, RaisePreserves DEF GsaChallenged, Outcome
  <2>3. CASE SendHeld(t)
    BY <1>0, <1>5, <2>3, SendHeldPreserves DEF GsaChallenged
  <2> QED
    BY <1>5, <2>1, <2>2, <2>3 DEF GsaChallenged, Outcome
<1>6. CASE GsaFail(t)
  <2>1. CASE SendHeld(t)
    BY <1>0, <1>6, <2>1, SendHeldPreserves DEF GsaFail
  <2>2. /\ UNCHANGED <<hasCreds, issued, disk, restarts>>
        /\ issued' \in Nat /\ issued' >= issued
    BY <1>0, <1>6 DEF GsaFail
  <2>3. PICK e \in {"InvalidCredentialsError", "UnhandledProtocolError",
                    "ConnectionError"} : SendHeld(t) \/ Raise(t, e)
    BY <1>6 DEF GsaFail
  <2> QED
    BY <2>1, <2>2, <2>3, RaisePreserves DEF Outcome
<1>7. CASE GsaUnknownAu(t)
  <2>1. CASE SendHeld(t)
    BY <1>0, <1>7, <2>1, SendHeldPreserves DEF GsaUnknownAu
  <2>2. CASE Raise(t, "UnhandledProtocolError")
    BY <1>0, <1>7, <2>2, RaisePreserves DEF GsaUnknownAu, Outcome
  <2>3. CASE /\ session' = [session EXCEPT !.info = TRUE]
             /\ Become(t, Done("UnhandledProtocolError"))
    <3>1. session' \in Session /\ Usable(session')
      BY <1>0, <2>3 DEF Session, Usable
    <3>2. GoodTask(Done("UnhandledProtocolError"), issued)
      BY <1>0, IdleGood DEF Done, Missing, Outcome
    <3>3. UNCHANGED <<hasCreds, issued, disk, restarts>>
      BY <1>7 DEF GsaUnknownAu
    <3>4. /\ hasCreds' \in BOOLEAN /\ issued' \in Nat /\ issued' >= issued
          /\ GoodTask(Done("UnhandledProtocolError"), issued')
      BY <1>0, <3>2, <3>3
    <3> QED
      BY <2>3, <3>1, <3>3, <3>4, StepPreserves
  <2> QED
    BY <1>7, <2>1, <2>2, <2>3 DEF GsaUnknownAu
<1> QED
  BY <1>1, <1>2, <1>3, <1>4, <1>5, <1>6, <1>7

\* and those of every other request of the account
LEMMA OtherRepliesPreserve ==
  ASSUME IInv, NEW t \in Tasks,
         \/ SmsOk(t) \/ MobileMeHeaders(t) \/ MobileMeOk(t) \/ TermsHeaders(t)
         \/ Reports401(t) \/ ReportsEmpty(t) \/ ReportsRetry(t) \/ Return(t)
         \/ Fail(t) \/ Cancel(t)
  PROVE  IInv'
<1>0. /\ session \in Session /\ hasCreds \in BOOLEAN /\ issued \in Nat
      /\ Usable(session) /\ task[t] \in Task /\ GoodTask(task[t], issued)
  BY DEF IInv, TypeOK, SessionUsable
<1>1. \A e \in Outcome : GoodTask(Done(e), issued)
  BY <1>0, IdleGood DEF Done, Missing
<1>2. CASE SmsOk(t)
  <2>1. GoodTask(GsaEntered(task[t], hasCreds), issued)
    BY <1>0, GsaEnteredGood
  <2> QED
    BY <1>1, <1>2, <2>1, MovePreserves DEF SmsOk, Outcome
<1>3. CASE MobileMeHeaders(t)
  <2>1. GoodTask([task[t] EXCEPT !.pc = "mobileme_reply", !.cred = session.data.pet], issued)
    BY <1>0, CredGood DEF Session, Data, Waiting
  <2> QED
    BY <1>1, <1>3, <2>1, MovePreserves DEF MobileMeHeaders, Outcome
<1>4. CASE MobileMeOk(t)
  <2> DEFINE d == [adsid |-> task[t].adsid, idms |-> Missing, pet |-> Missing,
                   hb |-> session.data.hb, mobileme |-> task[t].cred]
             r == [task[t] EXCEPT !.pc = "reports_reply", !.retry = 0, !.cred = Missing]
  <2>1. d \in Data /\ d.pet = Missing /\ d.mobileme # Missing
    BY <1>0, <1>4 DEF MobileMeOk, Task, Session, Data, Token, Missing, EmptyPet
  <2>2. session' = SetLoginState(session, "LOGGED_IN", d)
    BY <1>4 DEF MobileMeOk
  <2>3. Become(t, r) \/ Become(t, Done("returned"))
    BY <1>4 DEF MobileMeOk
  <2>4. GoodTask(r, issued)
    BY <1>0 DEF GoodTask, Task, Waiting, Token, Missing
  <2> HIDE DEF d, r
  <2>5. session' \in Session /\ session'.state = "LOGGED_IN" /\ session'.data = d
    <3>1. "LOGGED_IN" \in LoginState
      BY DEF LoginState
    <3> QED
      BY <1>0, <2>1, <2>2, <3>1, SetLoginStateType
  <2>6. Usable(session')
    BY <2>1, <2>5 DEF Usable
  <2>7. /\ UNCHANGED <<hasCreds, issued, disk, restarts>>
        /\ hasCreds' \in BOOLEAN /\ issued' \in Nat /\ issued' >= issued
    BY <1>0, <1>4 DEF MobileMeOk
  <2>8. GoodTask(r, issued') /\ GoodTask(Done("returned"), issued')
    BY <1>1, <2>4, <2>7 DEF Outcome
  <2> QED
    BY <2>3, <2>5, <2>6, <2>7, <2>8, StepPreserves
<1>5. CASE TermsHeaders(t)
  <2> DEFINE h == [task[t] EXCEPT !.cred = session.data.pet]
  <2>1. GoodTask(h, issued)
    BY <1>0 DEF GoodTask, Task, Session, Data
  <2>2. Become(t, GsaEntered([h EXCEPT !.saved = session], TRUE))
        \/ Become(t, [h EXCEPT !.pc = "terms_reply"])
    BY <1>5 DEF TermsHeaders
  <2> HIDE DEF h
  <2>4. CASE Become(t, [h EXCEPT !.pc = "terms_reply"])
    BY <1>5, <2>1, <2>4, MovedGood, <1>0, MovePreserves DEF TermsHeaders, Waiting
  <2>5. CASE Become(t, GsaEntered([h EXCEPT !.saved = session], TRUE))
    <3>2. GoodTask([h EXCEPT !.saved = session], issued)
      BY <1>0, <2>1 DEF GoodTask, Task
    <3>3. GoodTask(GsaEntered([h EXCEPT !.saved = session], TRUE), issued)
      BY <1>0, <3>2, GsaEnteredGood
    <3> QED
      BY <1>5, <2>5, <3>3, MovePreserves DEF TermsHeaders
  <2> QED
    BY <2>2, <2>4, <2>5
<1>6. CASE Reports401(t)
  <2>1. GoodTask(GsaEntered(task[t], TRUE), issued)
    BY <1>0, GsaEnteredGood
  <2> QED
    BY <1>1, <1>6, <2>1, MovePreserves DEF Reports401, Outcome
<1>7. CASE ReportsEmpty(t)
  <2>1. GoodTask([task[t] EXCEPT !.pc = "reports_sleep"], issued)
    BY <1>0, MovedGood DEF Waiting
  <2> QED
    BY <1>1, <1>7, <2>1, MovePreserves DEF ReportsEmpty, Outcome
<1>8. CASE ReportsRetry(t)
  <2> DEFINE r == [task[t] EXCEPT !.pc = "reports_reply", !.retry = @ + 1]
  <2>1. task[t].retry + 1 \in Nat /\ "reports_reply" \in Waiting
    BY <1>0 DEF Task, Waiting
  <2>2. r \in Task
    BY <1>0, <2>1 DEF Task
  <2>3. /\ r.saved = task[t].saved /\ r.op = task[t].op /\ r.since = task[t].since
        /\ r.pc = "reports_reply"
    BY <1>0 DEF Task
  <2>4. Become(t, r) /\ UNCHANGED <<session, hasCreds, issued, disk, restarts>>
    BY <1>8 DEF ReportsRetry
  <2> HIDE DEF r
  <2>5. GoodTask(r, issued)
    BY <1>0, <2>2, <2>3 DEF GoodTask
  <2> QED
    BY <2>4, <2>5, MovePreserves
<1>9. CASE Return(t)
  BY <1>1, <1>9, MovePreserves DEF Return, Outcome
<1>10. CASE Fail(t) \/ Cancel(t)
  <2>1. PICK e \in Outcome : Raise(t, e)
    BY <1>10 DEF Fail, Cancel, Outcome
  <2>2. /\ UNCHANGED <<hasCreds, issued, disk, restarts>>
        /\ issued' \in Nat /\ issued' >= issued
    BY <1>0, <1>10 DEF Fail, Cancel
  <2> QED
    BY <2>1, <2>2, RaisePreserves
<1> QED
  BY <1>2, <1>3, <1>4, <1>5, <1>6, <1>7, <1>8, <1>9, <1>10

-----------------------------------------------------------------------------
(* Theorems *)

\* a new account satisfies the invariant
LEMMA InitIInv == Init => IInv
<1> SUFFICES ASSUME Init PROVE IInv
  OBVIOUS
<1>1. GoodTask(Done("none"), 0)
  BY IdleGood DEF Done, Missing, Outcome
<1>2. NewSession \in Session /\ Usable(NewSession)
  BY DEF NewSession, Session, NoData, Data, Token, LoginState, Usable, Missing
<1> QED
  BY <1>1, <1>2 DEF Init, IInv, TypeOK, SessionUsable, GoodTask

\* so does one read back from a file, which was usable when it was written
LEMMA RestartPreserves == IInv /\ Restart => IInv'
<1> SUFFICES ASSUME IInv, Restart PROVE IInv'
  OBVIOUS
<1>1. PICK file \in disk :
        /\ session' \in {file.session} \cup
             (IF file.session.state = "LOGGED_IN" THEN {OldFormat(file.session)} ELSE {})
        /\ hasCreds' \in {file.creds, FALSE}
  BY DEF Restart
<1>2. file.session \in Session /\ file.creds \in BOOLEAN /\ Usable(file.session)
  BY DEF IInv, TypeOK, SessionUsable, Snapshot
<1>3. session' \in Session /\ Usable(session')
  <2>1. CASE session' = file.session
    BY <1>2, <2>1
  <2>2. CASE session' = OldFormat(file.session) /\ file.session.state = "LOGGED_IN"
    BY <1>2, <2>2 DEF OldFormat, Session, Data, Usable, Missing
  <2> QED
    BY <1>1, <2>1, <2>2
<1>4. GoodTask(Done("none"), issued)
  BY IdleGood DEF Done, Missing, Outcome, IInv, TypeOK
<1>5. task' = [t \in Tasks |-> Done("none")] /\ UNCHANGED <<issued, disk>>
      /\ restarts' \in Nat
  BY DEF Restart, IInv, TypeOK
<1>6. \A t \in Tasks : GoodTask(task'[t], issued') /\ task'[t] \in Task
                       /\ Usable(task'[t].saved)
  <2>1. \A t \in Tasks : task'[t] = Done("none") /\ issued' = issued
    BY <1>5
  <2>2. Done("none") \in Task /\ Usable(Done("none").saved)
    BY <1>4 DEF GoodTask
  <2> QED
    BY <1>4, <2>1, <2>2
<1>7. TypeOK'
  BY <1>1, <1>2, <1>3, <1>5, <1>6 DEF IInv, TypeOK
<1>8. SessionUsable'
  BY <1>3, <1>5, <1>6 DEF IInv, SessionUsable
<1> QED
  BY <1>6, <1>7, <1>8 DEF IInv

\* what to_json writes is usable because the account is
LEMMA ToJsonPreserves == IInv /\ ToJson => IInv'
BY DEF IInv, TypeOK, SessionUsable, Snapshot, ToJson

\* every step keeps the invariant
LEMMA NextIInv == IInv /\ [Next]_vars => IInv'
<1> SUFFICES ASSUME IInv, [Next]_vars PROVE IInv'
  OBVIOUS
<1>1. CASE UNCHANGED vars
  BY <1>1 DEF vars, IInv, TypeOK, SessionUsable
<1>2. ASSUME NEW t \in Tasks, Called(t) \/ Resume(t) \/ Cancel(t) PROVE IInv'
  BY <1>2, CallPreserves, GsaPreserves, OtherRepliesPreserve DEF Resume
<1> QED
  BY <1>1, <1>2, ToJsonPreserves, RestartPreserves DEF Next

\* The invariant holds in every reachable state.
LEMMA Invariant == Spec => []IInv
BY InitIInv, NextIInv, PTL DEF Spec

\* The account's variables stay in the values the code can give them, for any
\* number of coroutines.
THEOREM TypeCorrect == Spec => []TypeOK
<1>1. IInv => TypeOK
  BY DEF IInv
<1> QED
  BY <1>1, Invariant, PTL

\* However coroutines interleave, fail or are cancelled, and whenever the
\* account is saved, the login state has the data its readers index.
THEOREM SessionAlwaysUsable == Spec => []SessionUsable
<1>1. IInv => SessionUsable
  BY DEF IInv
<1> QED
  BY <1>1, Invariant, PTL

-----------------------------------------------------------------------------
(* What request_pet may do *)

\* a step of t moves the locals of t only
LEMMA OneMoves ==
  ASSUME IInv, NEW t \in Tasks, NEW r, Become(t, r)
  PROVE  /\ task'[t] = r
         /\ \A u \in Tasks : u # t => task'[u] = task[u]
BY DEF Become, IInv, TypeOK

\* the helpers that build a coroutine's next locals drop or keep its PET
LEMMA PetKept ==
  /\ \A e : Done(e).pet = 0
  /\ \A o, pc : Running(o, pc).pet = 0
  /\ \A r \in Task : \A c, s :
       /\ GsaEntered(r, c).pet \in {0, r.pet}
       /\ MobileMeEntered(r, s).pet \in {0, r.pet}
       /\ SmsEntered(r).pet \in {0, r.pet}
<1>1. \A e : Done(e).pet = 0
  BY DEF Done, Idle, Missing
<1>2. \A o, pc : Running(o, pc).pet = 0
  BY DEF Running, Idle, Missing
<1>3. \A r \in Task : /\ [r EXCEPT !.pc = "gsa_init"].pet = r.pet
                     /\ [r EXCEPT !.pc = "sms"].pet = r.pet
                     /\ \A b : [r EXCEPT !.pc = "mobileme_headers", !.adsid = b].pet = r.pet
  BY DEF Task
<1> QED
  BY <1>1, <1>2, <1>3 DEF GsaEntered, MobileMeEntered, SmsEntered

\* moving to another await, with or without a credential, keeps it
LEMMA LocalsKeepPet ==
  ASSUME NEW r \in Task, NEW pc, NEW c
  PROVE  /\ [r EXCEPT !.pc = pc].pet = r.pet
         /\ [r EXCEPT !.pc = pc, !.cred = c].pet = r.pet
BY DEF Task

\* a public call starts with no PET handed out, and its body gets none
\* before its first await
LEMMA CallDropsPet ==
  ASSUME IInv, NEW t \in Tasks, Called(t) \/ Start(t)
  PROVE  \E r : Become(t, r) /\ r.pet \in {0, task[t].pet}
<1>0. session \in Session /\ issued \in Nat /\ task[t] \in Task
  BY DEF IInv, TypeOK
<1>1. CASE Called(t)
  BY <1>1, PetKept DEF Called
<1>2. CASE Login(t) \/ CompleteLogin(t) \/ TwoFactor(t) \/ Get2faMethods(t)
  BY <1>0, <1>2, PetKept DEF Login, CompleteLogin, TwoFactor, Get2faMethods
<1>3. CASE RequestPet(t)
  <2> DEFINE r == [task[t] EXCEPT !.saved = session, !.since = issued]
  <2>1. r \in Task /\ r.pet = task[t].pet
    BY <1>0 DEF Task
  <2>2. Become(t, GsaEntered(r, hasCreds))
    BY <1>3 DEF RequestPet
  <2> HIDE DEF r
  <2> QED
    BY <2>1, <2>2, PetKept
<1>4. CASE FetchRawReports(t)
  <2> DEFINE r == [task[t] EXCEPT !.pc = "reports_reply", !.auth = session.data.mobileme]
  <2>1. r.pet = task[t].pet
    BY <1>0 DEF Task
  <2>2. Become(t, r) \/ Become(t, Done("InvalidStateError"))
    BY <1>4 DEF FetchRawReports
  <2> HIDE DEF r
  <2> QED
    BY <2>1, <2>2, PetKept
<1>5. CASE Terms(t) \/ AnnounceDevice(t)
  <2> DEFINE To(pc) == [task[t] EXCEPT !.pc = pc]
  <2>1. \A pc : To(pc).pet = task[t].pet
    BY <1>0 DEF Task
  <2>2. \/ Become(t, To("terms_headers")) \/ Become(t, To("announce_reply"))
        \/ Become(t, Done("InvalidStateError"))
    BY <1>5 DEF Terms, AnnounceDevice
  <2> HIDE DEF To
  <2> QED
    BY <2>1, <2>2, PetKept
<1> QED
  BY <1>1, <1>2, <1>3, <1>4, <1>5 DEF Start

\* so does every other step that is not the answer to request_pet
LEMMA ReplyKeepsPet ==
  ASSUME IInv, NEW t \in Tasks, Resume(t) \/ Cancel(t), ~Start(t), ~GsaAuthenticatedPet(t)
  PROVE  \E r : Become(t, r) /\ r.pet \in {0, task[t].pet}
<1>0. task[t] \in Task
  BY DEF IInv, TypeOK
<1>1. CASE \/ SendHeld(t) \/ GsaInitOk(t) \/ GsaAuthenticatedTerms(t)
           \/ ReportsEmpty(t) \/ ReportsRetry(t)
  <2>1. CASE GsaInitOk(t) \/ SendHeld(t)
    BY <1>0, <2>1, LocalsKeepPet DEF SendHeld, GsaInitOk
  <2>2. CASE GsaAuthenticatedTerms(t)
    <3> DEFINE r(c) == [task[t] EXCEPT !.pc = "terms_reply", !.cred = c]
    <3>1. \A c : r(c).pet = task[t].pet
      BY <1>0 DEF Task
    <3>2. \E c \in {issued + 1, EmptyPet} : Become(t, r(c))
      BY <2>2 DEF GsaAuthenticatedTerms
    <3> HIDE DEF r
    <3> QED
      BY <3>1, <3>2
  <2>3. CASE ReportsEmpty(t)
    <3> DEFINE r == [task[t] EXCEPT !.pc = "reports_sleep"]
    <3>1. r.pet = task[t].pet
      BY <1>0 DEF Task
    <3>2. Become(t, r) \/ Become(t, Done("EmptyResponseError"))
      BY <2>3 DEF ReportsEmpty
    <3> HIDE DEF r
    <3> QED
      BY <3>1, <3>2, PetKept
  <2>4. CASE ReportsRetry(t)
    <3> DEFINE r == [task[t] EXCEPT !.pc = "reports_reply", !.retry = @ + 1]
    <3>1. r.pet = task[t].pet
      BY <1>0 DEF Task
    <3>2. Become(t, r)
      BY <2>4 DEF ReportsRetry
    <3> HIDE DEF r
    <3> QED
      BY <3>1, <3>2
  <2> QED
    BY <1>1, <2>1, <2>2, <2>3, <2>4
<1>2. CASE \E e : Become(t, Done(e))
  BY <1>2, PetKept
<1>3. CASE GsaAuthenticatedLogin(t)
  <2> DEFINE r == [task[t] EXCEPT !.reauthed = (@ \/ task[t].op = "fetch_reports")]
  <2>1. r \in Task /\ r.pet = task[t].pet
    BY <1>0 DEF Task
  <2>2. Become(t, MobileMeEntered(r, session'))
    BY <1>3 DEF GsaAuthenticatedLogin
  <2> HIDE DEF r
  <2> QED
    BY <2>1, <2>2, PetKept
<1>4. CASE SmsOk(t) \/ Reports401(t)
  <2>1. \A c : GsaEntered(task[t], c).pet \in {0, task[t].pet}
    BY <1>0, PetKept
  <2> QED
    BY <1>1, <1>2, <1>4, <2>1 DEF SmsOk, Reports401
<1>5. CASE TermsHeaders(t)
  <2> DEFINE h == [task[t] EXCEPT !.cred = session.data.pet]
  <2>1. h \in Task /\ session \in Session /\ h.pet = task[t].pet
    BY <1>0 DEF Task, IInv, TypeOK, Session, Data
  <2>2. Become(t, GsaEntered([h EXCEPT !.saved = session], TRUE))
        \/ Become(t, [h EXCEPT !.pc = "terms_reply"])
    BY <1>5 DEF TermsHeaders
  <2> HIDE DEF h
  <2>3. /\ [h EXCEPT !.saved = session] \in Task
        /\ [h EXCEPT !.saved = session].pet = task[t].pet
        /\ [h EXCEPT !.pc = "terms_reply"].pet = task[t].pet
    BY <2>1 DEF Task
  <2> QED
    BY <2>2, <2>3, PetKept
<1>6. CASE MobileMeHeaders(t)
  <2> DEFINE r == [task[t] EXCEPT !.pc = "mobileme_reply", !.cred = session.data.pet]
  <2>1. r.pet = task[t].pet
    BY <1>0 DEF Task
  <2>2. Become(t, r) \/ Become(t, Done("KeyError"))
    BY <1>6 DEF MobileMeHeaders
  <2> HIDE DEF r
  <2> QED
    BY <2>1, <2>2, PetKept
<1>6a. CASE MobileMeOk(t)
  <2> DEFINE r == [task[t] EXCEPT !.pc = "reports_reply", !.retry = 0, !.cred = Missing]
  <2>1. r.pet = task[t].pet
    BY <1>0 DEF Task
  <2>2. Become(t, r) \/ Become(t, Done("returned"))
    BY <1>6a DEF MobileMeOk
  <2> HIDE DEF r
  <2> QED
    BY <2>1, <2>2, PetKept
<1>7. CASE GsaChallenged(t) \/ GsaFail(t) \/ GsaUnknownAu(t) \/ Fail(t) \/ Cancel(t) \/ Return(t)
  BY <1>1, <1>2, <1>7 DEF GsaChallenged, GsaFail, GsaUnknownAu, Fail, Cancel, Return, Raise
<1> QED
  BY <1>1, <1>3, <1>4, <1>5, <1>6, <1>6a, <1>7 DEF Resume

\* The PET that request_pet returns was issued after request_pet began,
\* however many other logins were completed on the account meanwhile.
THEOREM HandedOutPetFresh == Spec => HandedOutPetIsFresh
<1>1. ASSUME IInv, [Next]_vars PROVE PetIsFresh
  <2>0. /\ issued \in Nat
        /\ \A u \in Tasks : task[u] \in Task /\ task[u].pet \in Nat /\ task[u].since \in Nat
    BY <1>1 DEF IInv, TypeOK, Task
  <2>1. CASE UNCHANGED vars \/ ToJson
    BY <2>0, <2>1 DEF vars, ToJson, PetIsFresh
  <2>2. CASE Restart
    <3>1. \A u \in Tasks : task'[u].pet = 0
      BY <2>2, PetKept DEF Restart
    <3> QED
      BY <2>0, <3>1 DEF PetIsFresh
  <2>3. ASSUME NEW t \in Tasks, Called(t) \/ Resume(t) \/ Cancel(t) PROVE PetIsFresh
    <3>1. CASE GsaAuthenticatedPet(t)
      <4>1. task[t].since <= issued
        BY <1>1, <3>1 DEF IInv, GoodTask, GsaAuthenticatedPet
      <4>2. \E r : Become(t, r) /\ r.pet \in {0, issued + 1}
        BY <3>1, PetKept DEF GsaAuthenticatedPet, Raise, Idle
      <4> QED
        BY <1>1, <2>0, <4>1, <4>2, OneMoves DEF PetIsFresh
    <3>2. CASE ~GsaAuthenticatedPet(t)
      <4>1. \E r : Become(t, r) /\ r.pet \in {0, task[t].pet}
        BY <1>1, <2>3, <3>2, CallDropsPet, ReplyKeepsPet
      <4> QED
        BY <1>1, <2>0, <4>1, OneMoves DEF PetIsFresh
    <3> QED
      BY <3>1, <3>2
  <2> QED
    BY <1>1, <2>1, <2>2, <2>3 DEF Next
<1> QED
  BY <1>1, Invariant, PTL DEF Spec, HandedOutPetIsFresh

-----------------------------------------------------------------------------
(* One caller that awaits each call before the next *)

OneCaller == \A t, u \in Tasks : t = u

\* a completed login carries the heartbeat of the authentication it
\* exchanged; so does the login that has still to be exchanged
Heartbeat(s) ==
  /\ s.state = "AUTHENTICATED" /\ s.data.pet > 0 => s.data.hb \in {Missing, s.data.pet}
  /\ s.state = "LOGGED_IN" => s.data.hb \in {Missing, s.data.mobileme}

Gsa     == {"gsa_init", "gsa_complete"}
Reports == {"reports_reply", "reports_sleep"}

\* what the await a call has reached says of the session s: with nobody else
\* on the account, each call finds what its earlier awaits left
Stage(r, s) ==
  \/ r.op = "none" /\ r.pc = "idle"
  \/ r.op \in Op /\ r.pc = "called" /\ s.state \in Allowed[r.op]
  \/ r.op \in {"submit", "methods", "request_2fa"} /\ r.pc = "sms" /\ s.state = "REQUIRE_2FA"
  \/ r.op \in {"login", "submit"} /\ r.pc \in Gsa /\ s.state \in {"LOGGED_OUT", "REQUIRE_2FA"}
  \/ r.op = "request_pet" /\ r.pc \in Gsa /\ s.state = "LOGGED_IN" /\ r.saved = s
  \/ r.op = "fetch_reports" /\ r.pc \in Gsa \cup Reports /\ s.state = "LOGGED_IN"
  \/ /\ r.op \in {"login", "submit", "complete_login", "fetch_reports"}
     /\ s.state = "AUTHENTICATED"
     /\ r.pc = "mobileme_headers" \/ (r.pc = "mobileme_reply" /\ r.cred = s.data.pet)
  \/ r.op = "terms" /\ r.pc \in {"terms_headers", "terms_reply"} /\ s.state = "AUTHENTICATED"
  \/ r.op = "announce" /\ r.pc = "announce_reply"

FlowTask(r, s) == Stage(r, s) /\ r.outcome # "KeyError"

\* NoKeyError and HeartbeatOfTheLogin made inductive for one caller
FlowInv ==
  /\ IInv
  /\ Heartbeat(session)
  /\ \A file \in disk : Heartbeat(file.session)
  /\ \A t \in Tasks : FlowTask(task[t], session)

\* the fields of a call's locals after the helpers that build them
LEMMA DoneFields ==
  \A e, p : /\ Idle(e, p).op = "none" /\ Idle(e, p).pc = "idle" /\ Idle(e, p).outcome = e
            /\ Done(e).op = "none" /\ Done(e).pc = "idle" /\ Done(e).outcome = e
BY DEF Done, Idle

\* a call that has just started has raised nothing
LEMMA RunningFields ==
  \A o, pc : /\ Running(o, pc).op = o /\ Running(o, pc).pc = pc
             /\ Running(o, pc).outcome = "none"
BY DEF Running, Idle

\* moving to another await changes nothing else
LEMMA MovedFields ==
  ASSUME NEW r \in Task, NEW pc
  PROVE  /\ [r EXCEPT !.pc = pc].pc = pc /\ [r EXCEPT !.pc = pc].op = r.op
         /\ [r EXCEPT !.pc = pc].outcome = r.outcome
         /\ [r EXCEPT !.pc = pc].saved = r.saved /\ [r EXCEPT !.pc = pc].cred = r.cred
BY DEF Task

\* a finished call says nothing of the session
LEMMA DoneFlow ==
  ASSUME NEW e, e # "KeyError", NEW p, NEW s
  PROVE  FlowTask(Idle(e, p), s) /\ FlowTask(Done(e), s)
BY DoneFields DEF FlowTask, Stage

\* an authentication never runs for one caller while a login is unexchanged,
\* so it starts, or finds no credentials
LEMMA GsaEnteredFlow ==
  ASSUME NEW r \in Task, NEW creds, r.outcome # "KeyError",
         \/ r.op \in {"login", "submit"} /\ session.state \in {"LOGGED_OUT", "REQUIRE_2FA"}
         \/ r.op = "request_pet" /\ session.state = "LOGGED_IN" /\ r.saved = session
         \/ r.op = "fetch_reports" /\ session.state = "LOGGED_IN"
  PROVE  FlowTask(GsaEntered(r, creds), session)
<1> DEFINE m == [r EXCEPT !.pc = "gsa_init"]
<1>1. m.pc = "gsa_init" /\ m.op = r.op /\ m.outcome = r.outcome /\ m.saved = r.saved
  BY DEF Task
<1>2. GsaEntered(r, creds) \in {Done("ValueError"), m}
  BY DEF GsaEntered
<1> HIDE DEF m
<1>3. FlowTask(m, session)
  BY <1>1 DEF FlowTask, Stage, Gsa
<1> QED
  BY <1>2, <1>3, DoneFlow

\* the delegate exchange of a fresh login finds its PET
LEMMA MobileMeEnteredFlow ==
  ASSUME NEW r \in Task, r.outcome # "KeyError", NEW s,
         r.op \in {"login", "submit", "complete_login", "fetch_reports"},
         s.state = "AUTHENTICATED", s.data.pet # Missing
  PROVE  FlowTask(MobileMeEntered(r, s), s)
<1> DEFINE m == [r EXCEPT !.pc = "mobileme_headers", !.adsid = s.data.adsid]
<1>1. m.pc = "mobileme_headers" /\ m.op = r.op /\ m.outcome = r.outcome
  BY DEF Task
<1>2. MobileMeEntered(r, s) = m
  BY DEF MobileMeEntered
<1> HIDE DEF m
<1> QED
  BY <1>1, <1>2 DEF FlowTask, Stage

\* the caller's next locals fit the session the step leaves: nobody else's
\* locals have to
LEMMA FlowStep ==
  ASSUME OneCaller, FlowInv, IInv', NEW t \in Tasks, NEW r, Become(t, r),
         FlowTask(r, session'), Heartbeat(session'), disk' = disk
  PROVE  FlowInv'
<1>1. task'[t] = r
  BY OneMoves DEF FlowInv
<1>2. \A u \in Tasks : FlowTask(task'[u], session')
  BY <1>1 DEF OneCaller
<1> QED
  BY <1>2 DEF FlowInv

\* the common case: the session is left alone
LEMMA FlowMove ==
  ASSUME OneCaller, FlowInv, IInv', NEW t \in Tasks, NEW r, Become(t, r),
         FlowTask(r, session), session' = session, disk' = disk
  PROVE  FlowInv'
<1>1. FlowTask(r, session') /\ Heartbeat(session')
  BY DEF FlowInv
<1> QED
  BY <1>1, FlowStep

\* what the authentications leave: their levels and their data
LEMMA Authentications ==
  ASSUME session \in Session, issued \in Nat, NEW pet \in {issued + 1, EmptyPet}
  PROVE  /\ Authenticated(pet).state = "AUTHENTICATED"
         /\ Authenticated(pet).data.pet = pet /\ Authenticated(pet).data.mobileme = Missing
         /\ Authenticated(pet).data.hb = issued + 1
         /\ Challenged.state = "REQUIRE_2FA"
         /\ Challenged.data.pet = Missing /\ Challenged.data.mobileme = Missing
         /\ Heartbeat(Authenticated(pet)) /\ Heartbeat(Challenged)
<1> DEFINE a == [NoData EXCEPT !.adsid = TRUE, !.pet = pet, !.hb = issued + 1]
           c == [NoData EXCEPT !.adsid = TRUE, !.idms = issued + 1]
<1>1. /\ Authenticated(pet).state = "AUTHENTICATED" /\ Authenticated(pet).data = a
      /\ Challenged.state = "REQUIRE_2FA" /\ Challenged.data = c
  BY DEF Authenticated, Challenged, SetLoginState
<1>2. /\ a.pet = pet /\ a.mobileme = Missing /\ a.hb = issued + 1
      /\ c.pet = Missing /\ c.mobileme = Missing
  BY DEF NoData
<1> HIDE DEF a, c
<1>3. Heartbeat(Authenticated(pet))
  BY <1>1, <1>2 DEF Heartbeat, EmptyPet
<1>4. Heartbeat(Challenged)
  BY <1>1, <1>2 DEF Heartbeat
<1> QED
  BY <1>1, <1>2, <1>3, <1>4

-----------------------------------------------------------------------------
(* What a step of one caller does to the session *)

\* only the account information may be replaced
Waits(t) ==
  /\ task[t].op # "request_pet"
  /\ session' \in {session, [session EXCEPT !.info = TRUE]} /\ issued' = issued

\* request_pet finds a login and leaves it, with an adsid it may have lacked
Lends(t) ==
  /\ task[t].op = "request_pet" /\ session.state = "LOGGED_IN"
  /\ session' \in {session, [session EXCEPT !.data.adsid = TRUE]}
  /\ issued' \in {issued, issued + 1}

\* an authentication replaces the session; a login only in the 401 handler
LogsIn(t) ==
  /\ task[t].op \in {"login", "submit", "fetch_reports"}
  /\ session.state # "AUTHENTICATED"
  /\ session.state = "LOGGED_IN" => task[t].op = "fetch_reports"
  /\ session' \in {Challenged, Authenticated(issued + 1), Authenticated(EmptyPet)}
  /\ issued' = issued + 1

\* the delegate exchange spends the PET the session holds
Exchanges(t) ==
  /\ task[t].op # "request_pet"
  /\ session.state = "AUTHENTICATED" /\ session.data.pet > 0
  /\ session'.state = "LOGGED_IN"
  /\ session'.data.pet = Missing /\ session'.data.mobileme = session.data.pet
  /\ issued' = issued

Effect(t) == Waits(t) \/ Lends(t) \/ LogsIn(t) \/ Exchanges(t)

Flows(t) == FlowInv' /\ Effect(t)

\* a call changes nothing but its caller before its first await, and its body
\* begins in the state its decorator saw
LEMMA CallFlows ==
  ASSUME OneCaller, FlowInv, IInv', NEW t \in Tasks, Called(t) \/ Start(t)
  PROVE  Flows(t)
<1> DEFINE To(pc) == [task[t] EXCEPT !.pc = pc]
<1>0. /\ session \in Session /\ issued \in Nat /\ Usable(session) /\ task[t] \in Task
      /\ FlowTask(task[t], session)
  BY DEF FlowInv, IInv, TypeOK, SessionUsable
<1>1. session' = session /\ issued' = issued /\ disk' = disk
  BY DEF Called, Start, Login, TwoFactor, Get2faMethods, RequestPet, Terms,
         CompleteLogin, FetchRawReports, AnnounceDevice
<1>2. task[t].outcome # "KeyError"
  BY <1>0 DEF FlowTask
<1>3. \A pc : /\ To(pc).pc = pc /\ To(pc).op = task[t].op
              /\ To(pc).outcome = task[t].outcome
  BY <1>0, MovedFields
<1>4. ASSUME Start(t) PROVE task[t].op \in Op /\ session.state \in Allowed[task[t].op]
  <2>1. task[t].pc = "called"
    BY <1>4 DEF Start, Login, TwoFactor, Get2faMethods, RequestPet, Terms,
                CompleteLogin, FetchRawReports, AnnounceDevice, Begins, At
  <2> QED
    BY <1>0, <2>1 DEF FlowTask, Stage, Gsa, Reports
<1>5. Waits(t) \/ Lends(t)
  <2>1. CASE Called(t)
    <3>1. task[t].op = "none"
      BY <1>0, <2>1 DEF Called, At, FlowTask, Stage, Gsa, Reports
    <3> QED
      BY <1>1, <3>1 DEF Waits
  <2>2. CASE Start(t)
    BY <1>1, <1>4, <2>2 DEF Waits, Lends, Allowed, Op
  <2> QED
    BY <2>1, <2>2
<1>6. SUFFICES \E r : Become(t, r) /\ FlowTask(r, session)
  BY <1>1, <1>5, FlowMove DEF Flows, Effect
<1> HIDE DEF To
<1>7. CASE Called(t)
  <2>1. PICK o \in Op :
          Become(t, IF session.state \in Allowed[o] THEN Running(o, "called")
                                                    ELSE Done("InvalidStateError"))
    BY <1>7 DEF Called
  <2>2. session.state \in Allowed[o] => FlowTask(Running(o, "called"), session)
    BY RunningFields DEF FlowTask, Stage
  <2> QED
    BY <2>1, <2>2, DoneFlow
<1>8. CASE Login(t)
  <2>1. session.state = "LOGGED_OUT" /\ task[t].op = "login"
    BY <1>4, <1>8 DEF Start, Login, Begins, Allowed, Op
  <2>2. \A c : FlowTask(GsaEntered(task[t], c), session)
    BY <1>0, <1>2, <2>1, GsaEnteredFlow
  <2> QED
    BY <1>8, <2>2 DEF Login
<1>9. CASE TwoFactor(t) \/ Get2faMethods(t)
  <2>1. session.state = "REQUIRE_2FA" /\ task[t].op \in {"submit", "methods", "request_2fa"}
    BY <1>4, <1>9 DEF Start, TwoFactor, Get2faMethods, Begins, Allowed, Op
  <2>2. SmsEntered(task[t]) = To("sms")
    BY <1>0, <2>1 DEF SmsEntered, To, Usable
  <2>3. FlowTask(To("sms"), session)
    BY <1>2, <1>3, <2>1 DEF FlowTask, Stage
  <2> QED
    BY <1>9, <2>2, <2>3, DoneFlow DEF TwoFactor, Get2faMethods
<1>10. CASE RequestPet(t)
  <2> DEFINE r == [task[t] EXCEPT !.saved = session, !.since = issued]
  <2>1. session.state = "LOGGED_IN" /\ task[t].op = "request_pet"
    BY <1>4, <1>10 DEF Start, RequestPet, Begins, Allowed, Op
  <2>2. /\ r \in Task /\ r.saved = session /\ r.op = "request_pet"
        /\ r.outcome = task[t].outcome
    BY <1>0, <2>1 DEF Task
  <2>3. Become(t, GsaEntered(r, hasCreds))
    BY <1>10 DEF RequestPet
  <2> HIDE DEF r
  <2> QED
    BY <1>2, <2>1, <2>2, <2>3, GsaEnteredFlow
<1>11. CASE Terms(t)
  <2>1. session.state = "AUTHENTICATED" /\ task[t].op = "terms"
    BY <1>4, <1>11 DEF Start, Terms, Begins, Allowed, Op
  <2>2. FlowTask(To("terms_headers"), session)
    BY <1>2, <1>3, <2>1 DEF FlowTask, Stage
  <2> QED
    BY <1>11, <2>2 DEF Terms, To
<1>12. CASE CompleteLogin(t)
  <2>1. session.state = "AUTHENTICATED" /\ task[t].op = "complete_login"
    BY <1>4, <1>12 DEF Start, CompleteLogin, Begins, Allowed, Op
  <2>2. session.data.pet # Missing
    BY <1>0, <2>1 DEF Usable
  <2>3. FlowTask(MobileMeEntered(task[t], session), session)
    BY <1>0, <1>2, <2>1, <2>2, MobileMeEnteredFlow
  <2> QED
    BY <1>12, <2>3 DEF CompleteLogin
<1>13. CASE FetchRawReports(t)
  <2> DEFINE r == [task[t] EXCEPT !.pc = "reports_reply", !.auth = session.data.mobileme]
  <2>1. session.state = "LOGGED_IN" /\ task[t].op = "fetch_reports"
    BY <1>4, <1>13 DEF Start, FetchRawReports, Begins, Allowed, Op
  <2>2. r.op = "fetch_reports" /\ r.pc = "reports_reply" /\ r.outcome = task[t].outcome
    BY <1>0, <2>1 DEF Task
  <2>3. Become(t, r)
    BY <1>13, <2>1 DEF FetchRawReports
  <2> HIDE DEF r
  <2> QED
    BY <1>2, <2>1, <2>2, <2>3 DEF FlowTask, Stage, Reports
<1>14. CASE AnnounceDevice(t)
  <2>1. task[t].op = "announce"
    BY <1>14 DEF AnnounceDevice, Begins
  <2>2. FlowTask(To("announce_reply"), session)
    BY <1>2, <1>3, <2>1 DEF FlowTask, Stage
  <2> QED
    BY <1>14, <2>2, DoneFlow DEF AnnounceDevice, To
<1> QED
  BY <1>7, <1>8, <1>9, <1>10, <1>11, <1>12, <1>13, <1>14 DEF Start

\* an exception costs one caller nothing: request_pet puts back what is there
LEMMA RaiseFlows ==
  ASSUME OneCaller, FlowInv, IInv', NEW t \in Tasks, NEW e, e # "KeyError", Raise(t, e),
         disk' = disk, issued' = issued \/ (task[t].op = "request_pet" /\ issued' = issued + 1)
  PROVE  Flows(t)
<1>0. FlowTask(task[t], session)
  BY DEF FlowInv
<1>1. session' = session /\ Become(t, Done(e))
  BY <1>0 DEF Raise, At, FlowTask, Stage
<1>2. FlowInv'
  BY <1>1, DoneFlow, FlowMove
<1>3. CASE task[t].op = "request_pet"
  BY <1>0, <1>1, <1>2, <1>3 DEF FlowTask, Stage, Allowed, Op, Flows, Effect, Lends
<1>4. CASE task[t].op # "request_pet"
  BY <1>1, <1>2, <1>4 DEF Flows, Effect, Waits
<1> QED
  BY <1>3, <1>4

\* so for every reply of _gsa_authenticate
LEMMA GsaFlows ==
  ASSUME OneCaller, FlowInv, IInv', NEW t \in Tasks,
         \/ GsaInitOk(t) \/ GsaAuthenticatedLogin(t) \/ GsaAuthenticatedPet(t)
         \/ GsaAuthenticatedTerms(t) \/ GsaChallenged(t) \/ GsaFail(t)
         \/ GsaUnknownAu(t)
  PROVE  Flows(t)
<1>0. /\ session \in Session /\ issued \in Nat /\ Usable(session) /\ task[t] \in Task
      /\ FlowTask(task[t], session) /\ Heartbeat(session)
      /\ task[t].outcome # "KeyError"
  BY DEF FlowInv, IInv, TypeOK, SessionUsable, FlowTask
<1>1. task[t].pc \in Gsa /\ disk' = disk
  BY DEF GsaInitOk, GsaAuthenticatedLogin, GsaAuthenticatedPet, GsaAuthenticatedTerms,
         GsaChallenged, GsaFail, GsaUnknownAu, At, Gsa
<1>2. \/ /\ task[t].op \in {"login", "submit"}
         /\ session.state \in {"LOGGED_OUT", "REQUIRE_2FA"}
      \/ /\ task[t].op = "request_pet" /\ session.state = "LOGGED_IN"
         /\ task[t].saved = session
      \/ task[t].op = "fetch_reports" /\ session.state = "LOGGED_IN"
  BY <1>0, <1>1 DEF FlowTask, Stage, Gsa, Reports
<1>3. CASE GsaInitOk(t)
  <2> DEFINE r == [task[t] EXCEPT !.pc = "gsa_complete"]
  <2>1. r.pc = "gsa_complete" /\ r.op = task[t].op /\ r.saved = task[t].saved
        /\ r.outcome = task[t].outcome
    BY <1>0, MovedFields
  <2>2. Become(t, r) /\ UNCHANGED <<session, issued, disk>>
    BY <1>3 DEF GsaInitOk
  <2> HIDE DEF r
  <2>3. FlowTask(r, session)
    BY <1>0, <1>2, <2>1 DEF FlowTask, Stage, Gsa
  <2>4. Waits(t) \/ Lends(t)
    BY <1>2, <2>2 DEF Waits, Lends
  <2> QED
    BY <2>2, <2>3, <2>4, FlowMove DEF Flows, Effect
<1>4. CASE GsaAuthenticatedLogin(t)
  <2> DEFINE r == [task[t] EXCEPT !.reauthed = (@ \/ task[t].op = "fetch_reports")]
  <2>1. PICK pet \in {issued + 1, EmptyPet} :
          session' = Authenticated(pet) /\ Become(t, MobileMeEntered(r, session'))
    BY <1>4 DEF GsaAuthenticatedLogin
  <2>2. r \in Task /\ r.op = task[t].op /\ r.outcome = task[t].outcome
    BY <1>0 DEF Task
  <2>3. task[t].op \in {"login", "submit", "fetch_reports"} /\ issued' = issued + 1
    BY <1>4 DEF GsaAuthenticatedLogin
  <2> HIDE DEF r
  <2>4. /\ session'.state = "AUTHENTICATED" /\ session'.data.pet # Missing
        /\ Heartbeat(session')
    BY <1>0, <2>1, Authentications DEF Missing, EmptyPet
  <2>5. FlowTask(MobileMeEntered(r, session'), session')
    BY <1>0, <2>2, <2>3, <2>4, MobileMeEnteredFlow
  <2>6. FlowInv'
    BY <1>1, <2>1, <2>4, <2>5, FlowStep
  <2>7. LogsIn(t)
    BY <1>2, <2>1, <2>3 DEF LogsIn
  <2> QED
    BY <2>6, <2>7 DEF Flows, Effect
<1>5. CASE GsaAuthenticatedPet(t)
  <2>0. task[t].op = "request_pet" /\ issued' = issued + 1
    BY <1>5 DEF GsaAuthenticatedPet
  <2>1. CASE Raise(t, "UnhandledProtocolError")
    BY <1>1, <2>0, <2>1, RaiseFlows
  <2>2. CASE /\ session' = [task[t].saved EXCEPT !.data.adsid = TRUE]
             /\ Become(t, Idle("returned", issued + 1))
    <3>1. session' = [session EXCEPT !.data.adsid = TRUE] /\ session.state = "LOGGED_IN"
      BY <1>2, <2>0, <2>2
    <3>2. /\ session'.state = session.state /\ session'.data.hb = session.data.hb
          /\ session'.data.mobileme = session.data.mobileme
      BY <1>0, <3>1 DEF Session, Data
    <3>3. Heartbeat(session')
      BY <1>0, <3>1, <3>2 DEF Heartbeat
    <3>4. FlowInv'
      BY <1>1, <2>2, <3>3, DoneFlow, FlowStep
    <3> QED
      BY <2>0, <3>1, <3>4 DEF Flows, Effect, Lends
  <2> QED
    BY <1>5, <2>1, <2>2 DEF GsaAuthenticatedPet
<1>6. ~GsaAuthenticatedTerms(t)
  BY <1>2 DEF GsaAuthenticatedTerms
<1>7. CASE GsaChallenged(t)
  <2>0. issued' = issued + 1 /\ task[t].op # "terms"
    BY <1>2, <1>7 DEF GsaChallenged
  <2>1. CASE Raise(t, "UnauthorizedError") /\ task[t].op = "request_pet"
    BY <1>1, <2>0, <2>1, RaiseFlows
  <2>2. ASSUME session' = Challenged, NEW e, e # "KeyError", Become(t, Done(e)),
               task[t].op \in {"login", "submit", "fetch_reports"}
        PROVE  Flows(t)
    <3>1. Heartbeat(session')
      BY <1>0, <2>2, Authentications
    <3>2. FlowInv'
      BY <1>1, <2>2, <3>1, DoneFlow, FlowStep
    <3>3. LogsIn(t)
      BY <1>2, <2>0, <2>2 DEF LogsIn
    <3> QED
      BY <3>2, <3>3 DEF Flows, Effect
  <2> QED
    BY <1>7, <2>0, <2>1, <2>2 DEF GsaChallenged
<1>8. CASE GsaFail(t)
  <2>1. PICK e \in {"InvalidCredentialsError", "UnhandledProtocolError",
                    "ConnectionError"} : Raise(t, e)
    BY <1>2, <1>8 DEF GsaFail
  <2>2. issued' = issued
    BY <1>8 DEF GsaFail
  <2> QED
    BY <1>1, <2>1, <2>2, RaiseFlows
<1>9. CASE GsaUnknownAu(t)
  <2>0. issued' = issued
    BY <1>9 DEF GsaUnknownAu
  <2>1. CASE Raise(t, "UnhandledProtocolError")
    BY <1>1, <2>0, <2>1, RaiseFlows
  <2>2. CASE /\ session' = [session EXCEPT !.info = TRUE] /\ task[t].op # "request_pet"
             /\ Become(t, Done("UnhandledProtocolError"))
    <3>1. session'.state = session.state /\ session'.data = session.data
      BY <1>0, <2>2 DEF Session
    <3>2. Heartbeat(session')
      BY <1>0, <3>1 DEF Heartbeat
    <3>3. FlowInv'
      BY <1>1, <2>2, <3>2, DoneFlow, FlowStep
    <3> QED
      BY <2>0, <2>2, <3>3 DEF Flows, Effect, Waits
  <2> QED
    BY <1>2, <1>9, <2>1, <2>2 DEF GsaUnknownAu
<1> QED
  BY <1>3, <1>4, <1>5, <1>6, <1>7, <1>8, <1>9

\* and for those of every other request
LEMMA OtherFlows ==
  ASSUME OneCaller, FlowInv, IInv', NEW t \in Tasks,
         \/ SmsOk(t) \/ MobileMeHeaders(t) \/ MobileMeOk(t) \/ TermsHeaders(t)
         \/ Reports401(t) \/ ReportsEmpty(t) \/ ReportsRetry(t) \/ Return(t)
         \/ Fail(t) \/ Cancel(t)
  PROVE  Flows(t)
<1>0. /\ session \in Session /\ issued \in Nat /\ Usable(session) /\ task[t] \in Task
      /\ FlowTask(task[t], session) /\ Heartbeat(session)
      /\ task[t].outcome # "KeyError"
  BY DEF FlowInv, IInv, TypeOK, SessionUsable, FlowTask
<1>1. disk' = disk /\ issued' = issued
  BY DEF SmsOk, MobileMeHeaders, MobileMeOk, TermsHeaders, Reports401, ReportsEmpty,
         ReportsRetry, Return, Fail, Cancel
<1>2. CASE Fail(t) \/ Cancel(t)
  <2>1. \E e : e # "KeyError" /\ Raise(t, e)
    BY <1>2 DEF Fail, Cancel
  <2> QED
    BY <1>1, <2>1, RaiseFlows
<1>3. ASSUME session' = session, task[t].op # "request_pet",
             NEW r, Become(t, r), FlowTask(r, session)
      PROVE  Flows(t)
  BY <1>1, <1>3, FlowMove DEF Flows, Effect, Waits
<1>4. CASE SmsOk(t)
  <2>1. task[t].op \in {"submit", "methods", "request_2fa"} /\ session.state = "REQUIRE_2FA"
    BY <1>0, <1>4 DEF SmsOk, At, FlowTask, Stage, Gsa, Reports
  <2>2. task[t].op = "submit" => FlowTask(GsaEntered(task[t], hasCreds), session)
    BY <1>0, <2>1, GsaEnteredFlow
  <2> QED
    BY <1>3, <1>4, <2>1, <2>2, DoneFlow DEF SmsOk
<1>5. CASE MobileMeHeaders(t)
  <2> DEFINE r == [task[t] EXCEPT !.pc = "mobileme_reply", !.cred = session.data.pet]
  <2>1. /\ task[t].op \in {"login", "submit", "complete_login", "fetch_reports"}
        /\ session.state = "AUTHENTICATED"
    BY <1>0, <1>5 DEF MobileMeHeaders, At, FlowTask, Stage, Gsa, Reports
  <2>2. Become(t, r) /\ session' = session
    BY <1>0, <1>5, <2>1 DEF MobileMeHeaders, Usable
  <2>3. /\ r.pc = "mobileme_reply" /\ r.cred = session.data.pet /\ r.op = task[t].op
        /\ r.outcome = task[t].outcome
    BY <1>0 DEF Task
  <2> HIDE DEF r
  <2>4. FlowTask(r, session)
    BY <1>0, <2>1, <2>3 DEF FlowTask, Stage
  <2> QED
    BY <1>3, <2>1, <2>2, <2>4
<1>6. CASE MobileMeOk(t)
  <2> DEFINE d == [adsid |-> task[t].adsid, idms |-> Missing, pet |-> Missing,
                   hb |-> session.data.hb, mobileme |-> task[t].cred]
             r == [task[t] EXCEPT !.pc = "reports_reply", !.retry = 0, !.cred = Missing]
  <2>1. /\ task[t].op \in {"login", "submit", "complete_login", "fetch_reports"}
        /\ session.state = "AUTHENTICATED" /\ task[t].cred = session.data.pet
        /\ session.data.pet > 0
    BY <1>0, <1>6 DEF MobileMeOk, At, FlowTask, Stage, Gsa, Reports
  <2>2. session' = SetLoginState(session, "LOGGED_IN", d)
    BY <1>6 DEF MobileMeOk
  <2>3. (Become(t, r) /\ task[t].op = "fetch_reports") \/ Become(t, Done("returned"))
    BY <1>6 DEF MobileMeOk
  <2>4. r.pc = "reports_reply" /\ r.op = task[t].op /\ r.outcome = task[t].outcome
    BY <1>0 DEF Task
  <2>5. d.hb = session.data.hb /\ d.pet = Missing /\ d.mobileme = session.data.pet
    BY <2>1
  <2> HIDE DEF d, r
  <2>6. session'.state = "LOGGED_IN" /\ session'.data = d
    BY <2>2 DEF SetLoginState
  <2>7. Heartbeat(session')
    BY <1>0, <2>1, <2>5, <2>6 DEF Heartbeat
  <2>8. task[t].op = "fetch_reports" => FlowTask(r, session')
    BY <1>0, <2>4, <2>6 DEF FlowTask, Stage, Reports
  <2>9. FlowInv'
    BY <1>1, <2>3, <2>7, <2>8, DoneFlow, FlowStep
  <2> QED
    BY <1>1, <2>1, <2>5, <2>6, <2>9 DEF Flows, Effect, Exchanges
<1>7. CASE TermsHeaders(t)
  <2> DEFINE h == [task[t] EXCEPT !.cred = session.data.pet]
             r == [h EXCEPT !.pc = "terms_reply"]
  <2>1. task[t].op = "terms" /\ session.state = "AUTHENTICATED"
    BY <1>0, <1>7 DEF TermsHeaders, At, FlowTask, Stage, Gsa, Reports
  <2>2. r.pc = "terms_reply" /\ r.op = "terms" /\ r.outcome = task[t].outcome
    <3>1. h \in Task /\ h.op = "terms" /\ h.outcome = task[t].outcome
      BY <1>0, <2>1 DEF Task, Session, Data
    <3> HIDE DEF h
    <3> QED
      BY <3>1 DEF Task
  <2>3. Become(t, r) \/ Become(t, Done("InvalidStateError"))
    BY <1>7, <2>1 DEF TermsHeaders, GsaEntered
  <2>4. session' = session
    BY <1>7 DEF TermsHeaders
  <2> HIDE DEF r
  <2>5. FlowTask(r, session)
    BY <1>0, <2>1, <2>2 DEF FlowTask, Stage
  <2> QED
    BY <1>3, <2>1, <2>3, <2>4, <2>5, DoneFlow
<1>8. CASE Reports401(t) \/ ReportsEmpty(t) \/ ReportsRetry(t)
  <2>1. task[t].op = "fetch_reports" /\ session.state = "LOGGED_IN" /\ session' = session
    BY <1>0, <1>8 DEF Reports401, ReportsEmpty, ReportsRetry, At, FlowTask, Stage, Gsa, Reports
  <2>2. FlowTask(GsaEntered(task[t], TRUE), session)
    BY <1>0, <2>1, GsaEnteredFlow
  <2> DEFINE s == [task[t] EXCEPT !.pc = "reports_sleep"]
             r == [task[t] EXCEPT !.pc = "reports_reply", !.retry = @ + 1]
  <2>3. /\ s.pc = "reports_sleep" /\ s.op = task[t].op /\ s.outcome = task[t].outcome
        /\ r.pc = "reports_reply" /\ r.op = task[t].op /\ r.outcome = task[t].outcome
    BY <1>0 DEF Task
  <2>4. \/ Become(t, GsaEntered(task[t], TRUE)) \/ Become(t, s) \/ Become(t, r)
        \/ Become(t, Done("UnauthorizedError")) \/ Become(t, Done("EmptyResponseError"))
    BY <1>8 DEF Reports401, ReportsEmpty, ReportsRetry
  <2> HIDE DEF s, r
  <2>5. FlowTask(s, session) /\ FlowTask(r, session)
    BY <1>0, <2>1, <2>3 DEF FlowTask, Stage, Reports
  <2> QED
    BY <1>3, <2>1, <2>2, <2>4, <2>5, DoneFlow
<1>9. CASE Return(t)
  <2>1. task[t].op # "request_pet" /\ session' = session /\ Become(t, Done("returned"))
    BY <1>0, <1>9 DEF Return, FlowTask, Stage, Gsa
  <2> QED
    BY <1>3, <2>1, DoneFlow
<1> QED
  BY <1>2, <1>4, <1>5, <1>6, <1>7, <1>8, <1>9

\* a step of the caller keeps the invariant and has one of the four effects
LEMMA StepFlows ==
  ASSUME OneCaller, FlowInv, NEW t \in Tasks, Called(t) \/ Resume(t) \/ Cancel(t)
  PROVE  FlowInv' /\ Effect(t) /\ disk' = disk /\ restarts' = restarts
<1>1. IInv'
  BY CallPreserves, GsaPreserves, OtherRepliesPreserve DEF Resume, FlowInv
<1>2. Flows(t)
  BY <1>1, CallFlows, GsaFlows, OtherFlows DEF Resume
<1>3. Called(t) \/ Start(t) => disk' = disk /\ restarts' = restarts
  BY DEF Called, Start, Login, TwoFactor, Get2faMethods, RequestPet, Terms,
         CompleteLogin, FetchRawReports, AnnounceDevice
<1>4. Resume(t) \/ Cancel(t) => disk' = disk /\ restarts' = restarts
  BY <1>3 DEF Resume, Cancel, SmsOk, GsaInitOk, GsaAuthenticatedLogin, GsaAuthenticatedPet,
         GsaAuthenticatedTerms, GsaChallenged, GsaFail, GsaUnknownAu, MobileMeHeaders,
         MobileMeOk, TermsHeaders, Reports401, ReportsEmpty, ReportsRetry, Return, Fail
<1> QED
  BY <1>2, <1>3, <1>4 DEF Flows

\* a file holds a session that was once the account's, and a restart may
\* only drop its heartbeat
LEMMA RestartFlows ==
  ASSUME FlowInv, Restart
  PROVE  /\ FlowInv'
         /\ \E file \in disk : /\ session'.state = file.session.state
                               /\ session'.data.pet = file.session.data.pet
                               /\ session'.data.mobileme = file.session.data.mobileme
<1>1. PICK file \in disk :
        session' \in {file.session} \cup
          (IF file.session.state = "LOGGED_IN" THEN {OldFormat(file.session)} ELSE {})
  BY DEF Restart
<1>2. file.session \in Session /\ Heartbeat(file.session)
  BY DEF FlowInv, IInv, TypeOK, Snapshot
<1>3. /\ session'.state = file.session.state
      /\ session'.data.pet = file.session.data.pet
      /\ session'.data.mobileme = file.session.data.mobileme
      /\ session'.data.hb \in {file.session.data.hb, Missing}
  <2>1. session' \in {file.session, OldFormat(file.session)}
    BY <1>1
  <2>2. ASSUME NEW s \in Session
        PROVE  /\ OldFormat(s).state = s.state /\ OldFormat(s).data.pet = s.data.pet
               /\ OldFormat(s).data.mobileme = s.data.mobileme
               /\ OldFormat(s).data.hb = Missing
    BY DEF OldFormat, Session, Data
  <2> QED
    BY <1>2, <2>1, <2>2
<1>4. Heartbeat(session')
  BY <1>2, <1>3 DEF Heartbeat
<1>5. \A t \in Tasks : FlowTask(task'[t], session')
  BY DoneFlow DEF Restart
<1>6. IInv' /\ disk' = disk
  BY RestartPreserves DEF FlowInv, Restart
<1> QED
  BY <1>3, <1>4, <1>5, <1>6 DEF FlowInv

\* to_json copies the session into the file
LEMMA ToJsonFlows == FlowInv /\ ToJson => FlowInv'
<1> SUFFICES ASSUME FlowInv, ToJson PROVE FlowInv'
  OBVIOUS
<1>1. IInv'
  BY ToJsonPreserves DEF FlowInv
<1>2. \A file \in disk' : Heartbeat(file.session)
  BY DEF ToJson, FlowInv
<1> QED
  BY <1>1, <1>2 DEF FlowInv, ToJson

\* for one caller the invariant holds in every reachable state
LEMMA FlowInvariant == ASSUME OneCaller PROVE Spec => []FlowInv
<1>1. Init => FlowInv
  <2>1. Heartbeat(NewSession)
    BY DEF Heartbeat, NewSession
  <2> QED
    BY <2>1, InitIInv, DoneFlow DEF Init, FlowInv
<1>2. FlowInv /\ [Next]_vars => FlowInv'
  <2> SUFFICES ASSUME FlowInv, [Next]_vars PROVE FlowInv'
    OBVIOUS
  <2>1. CASE UNCHANGED vars
    <3>1. IInv'
      BY <2>1, NextIInv DEF FlowInv
    <3> QED
      BY <2>1, <3>1 DEF vars, FlowInv
  <2> QED
    BY <2>1, StepFlows, RestartFlows, ToJsonFlows DEF Next
<1> QED
  BY <1>1, <1>2, PTL DEF Spec

\* For a caller that awaits each call no call ends in a KeyError: the delegate
\* exchange always finds the PET of the login it completes.
THEOREM NoCallEndsInKeyError == ASSUME OneCaller PROVE Spec => []NoKeyError
<1>1. FlowInv => NoKeyError
  BY DEF FlowInv, FlowTask, NoKeyError
<1> QED
  BY <1>1, FlowInvariant, PTL

\* For such a caller the heartbeat token kept with a login is that of the
\* authentication the login exchanged, through failures, saves and restarts.
THEOREM HeartbeatBelongsToLogin == ASSUME OneCaller PROVE Spec => []HeartbeatOfTheLogin
<1>1. FlowInv => HeartbeatOfTheLogin
  BY DEF FlowInv, Heartbeat, HeartbeatOfTheLogin
<1> QED
  BY <1>1, FlowInvariant, PTL

\* For such a caller request_pet leaves the session what it was, however it
\* ends: only a missing adsid is filled in.
THEOREM PetLeavesSession == ASSUME OneCaller PROVE Spec => PetLeavesSessionIntact
<1> DEFINE A == \A t \in Tasks :
                  task[t].op = "request_pet" /\ task'[t] # task[t] /\ restarts' = restarts =>
                    session' \in {session, [session EXCEPT !.data.adsid = TRUE]}
<1>1. ASSUME FlowInv, [Next]_vars PROVE A
  <2>1. CASE UNCHANGED vars \/ ToJson
    BY <2>1 DEF vars, ToJson
  <2>2. CASE Restart
    BY <1>1, <2>2 DEF Restart, FlowInv, IInv, TypeOK
  <2>3. ASSUME NEW t \in Tasks, Called(t) \/ Resume(t) \/ Cancel(t) PROVE A
    <3>1. Effect(t)
      BY <1>1, <2>3, StepFlows
    <3>2. task[t].op = "request_pet" =>
            session' \in {session, [session EXCEPT !.data.adsid = TRUE]}
      BY <3>1 DEF Effect, Waits, Lends, LogsIn, Exchanges
    <3> QED
      BY <3>2 DEF OneCaller
  <2> QED
    BY <1>1, <2>1, <2>2, <2>3 DEF Next
<1> QED
  BY <1>1, FlowInvariant, PTL DEF Spec, PetLeavesSessionIntact

\* For such a caller a login is lost only inside the 401 handler of
\* fetch_raw_reports.
THEOREM LoginLostOnlyByReauth == ASSUME OneCaller PROVE Spec => OnlyReauthLosesLogin
<1> DEFINE A == session.state = "LOGGED_IN" /\ session'.state # "LOGGED_IN"
                /\ restarts' = restarts =>
                  \E t \in Tasks : task[t].op = "fetch_reports"
<1>1. ASSUME FlowInv, [Next]_vars PROVE A
  <2>1. CASE UNCHANGED vars \/ ToJson
    BY <2>1 DEF vars, ToJson
  <2>2. CASE Restart
    BY <1>1, <2>2 DEF Restart, FlowInv, IInv, TypeOK
  <2>3. ASSUME NEW t \in Tasks, Called(t) \/ Resume(t) \/ Cancel(t) PROVE A
    <3>1. Effect(t) /\ session \in Session
      BY <1>1, <2>3, StepFlows DEF FlowInv, IInv, TypeOK
    <3>2. /\ [session EXCEPT !.data.adsid = TRUE].state = session.state
          /\ [session EXCEPT !.info = TRUE].state = session.state
      BY <3>1 DEF Session
    <3> QED
      BY <3>1, <3>2 DEF Effect, Waits, Lends, LogsIn, Exchanges
  <2> QED
    BY <1>1, <2>1, <2>2, <2>3 DEF Next
<1> QED
  BY <1>1, FlowInvariant, PTL DEF Spec, OnlyReauthLosesLogin

-----------------------------------------------------------------------------
(* The refinement: to one caller the account is the abstract LoginFlow *)

\* each effect of a step is one abstract action, or hidden from the caller
LEMMA EffectRefines ==
  ASSUME FlowInv, NEW t \in Tasks, Effect(t), disk' = disk
  PROVE  [Flow!Next]_Flow!vars
<1>0. session \in Session /\ issued \in Nat
  BY DEF FlowInv, IInv, TypeOK
<1>1. /\ [session EXCEPT !.data.adsid = TRUE].state = session.state
      /\ [session EXCEPT !.data.adsid = TRUE].data.pet = session.data.pet
      /\ [session EXCEPT !.data.adsid = TRUE].data.mobileme = session.data.mobileme
      /\ [session EXCEPT !.info = TRUE].state = session.state
      /\ [session EXCEPT !.info = TRUE].data = session.data
  BY <1>0 DEF Session, Data
<1>2. CASE Waits(t)
  BY <1>1, <1>2 DEF Waits, Flow!vars
<1>3. CASE Lends(t)
  BY <1>1, <1>3 DEF Lends, Flow!vars, Flow!Next, Flow!Lend
<1>4. CASE LogsIn(t)
  <2>1. CASE session' = Challenged
    BY <1>0, <1>4, <2>1, Authentications DEF LogsIn, Flow!Next, Flow!Challenge, Missing
  <2>2. CASE \E pet \in {issued + 1, EmptyPet} : session' = Authenticated(pet)
    BY <1>0, <1>4, <2>2, Authentications
       DEF LogsIn, Flow!Next, Flow!Authenticate, Missing, EmptyPet
  <2> QED
    BY <1>4, <2>1, <2>2 DEF LogsIn
<1>5. CASE Exchanges(t)
  BY <1>5 DEF Exchanges, Flow!Next, Flow!Exchange, Missing
<1> QED
  BY <1>2, <1>3, <1>4, <1>5 DEF Effect

\* For a caller that awaits each call the account implements LoginFlow: it
\* meets only its levels, in its order, and tokens bought with the PET held.
THEOREM AccountImplementsLoginFlow == ASSUME OneCaller PROVE Spec => ImplementsLoginFlow
<1>1. Init => Flow!Init
  BY DEF Init, Flow!Init, NewSession, NoData, Missing
<1>2. FlowInv /\ [Next]_vars => [Flow!Next]_Flow!vars
  <2> SUFFICES ASSUME FlowInv, [Next]_vars PROVE [Flow!Next]_Flow!vars
    OBVIOUS
  <2>1. CASE UNCHANGED vars
    BY <2>1 DEF vars, Flow!vars
  <2>2. CASE ToJson
    BY <2>2 DEF ToJson, Flow!Next, Flow!Save
  <2>3. CASE Restart
    <3>1. PICK file \in disk : /\ session'.state = file.session.state
                               /\ session'.data.pet = file.session.data.pet
                               /\ session'.data.mobileme = file.session.data.mobileme
      BY <2>3, RestartFlows
    <3> DEFINE f == [level |-> file.session.state, pet |-> file.session.data.pet,
                     tokens |-> file.session.data.mobileme]
    <3>2. /\ session'.state = f.level /\ session'.data.pet = f.pet
          /\ session'.data.mobileme = f.tokens
      BY <3>1
    <3>3. f \in {[level |-> g.session.state, pet |-> g.session.data.pet,
                  tokens |-> g.session.data.mobileme] : g \in disk}
      OBVIOUS
    <3>4. issued' = issued /\ disk' = disk
      BY <2>3 DEF Restart
    <3> HIDE DEF f
    <3>5. Flow!Restore
      BY <3>2, <3>3, <3>4 DEF Flow!Restore
    <3> QED
      BY <3>5 DEF Flow!Next
  <2> QED
    BY <2>1, <2>2, <2>3, StepFlows, EffectRefines DEF Next
<1> QED
  BY <1>1, <1>2, FlowInvariant, PTL DEF Spec, ImplementsLoginFlow, Flow!Spec
=============================================================================
