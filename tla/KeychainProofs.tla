--------------------------- MODULE KeychainProofs ---------------------------
(***************************************************************************)
(* For every set of calls, identities and other devices: no peer this      *)
(* client put into the circle is without its escrow record, under any      *)
(* interleaving of calls, refusals, losses and late deliveries.            *)
(***************************************************************************)
EXTENDS Keychain, TLAPS

USE PeerAssumption, WorldAssumption

\* the awaits, but for the token's renewal, a call can be at
Stops(o) ==
  CASE o = "options"   -> {"viable", "list"}
    [] o = "directory" -> {"changes"}
    [] o = "recover"   -> {"viable", "list", "srp", "changes"}
    [] o = "shares"    -> {"changes", "shares"}
    [] o = "delete"    -> {"viable", "list", "delete_companion", "delete_main"}
    [] o = "join"      -> {"changes", "shares", "headers", "club", "enroll",
                           "delete_label", "join"}
    [] o = "none"      -> {}

\* the requests that are sent with the escrow token freshly checked
Renewing == {"viable", "srp", "delete_companion", "club"}

\* a call that names a peer has one, and only a join has an identity
Carries(r) ==
  /\ r.op \in {"recover", "shares", "delete", "join"} => r.arg \in Peer
  /\ r.op = "join" <=> r.id # NoPeer

Legal(r) ==
  /\ Carries(r)
  /\ r.pc \in {"idle", "pet"} \cup Stops(r.op)
  /\ r.pc = "pet" => r.next \in Renewing \cap Stops(r.op)

\* a call creating identity p is under way
Holds(t, p) == task[t].op = "join" /\ task[t].id = p

\* a join that is under way owns its identity alone, and has sent it if and
\* only if it is waiting for the answer; its enrolment, once served, is there
Owned ==
  /\ \A t \in Tasks : task[t].op = "join" =>
       /\ task[t].id \in used
       /\ \A u \in Tasks : Holds(u, task[t].id) => u = t
       /\ At(t, "join") <=> task[t].id \in sent
       /\ At(t, "enroll") /\ task[t].served => task[t].id \in records \cup removed
  /\ sent \subseteq used

\* what is still under way can only add what was sent, and only withdraw the
\* record of an identity whose join was given up before it was sent
Harmless ==
  \A w \in late :
    /\ w.kind = "join" => w.peer \in sent
    /\ w.kind \in {"enroll", "delete_label"} =>
         w.peer \in used \ sent /\ \A t \in Tasks : ~Holds(t, w.peer)

\* the ratchet: in the circle only what was sent, sent only what was enrolled
Ordered == circle \cap Own \subseteq sent /\ sent \subseteq records \cup removed

IInv ==
  /\ TypeOK
  /\ \A t \in Tasks : Legal(task[t])
  /\ Owned
  /\ Harmless
  /\ Ordered

-----------------------------------------------------------------------------
(* What a call does next                                                   *)

\* q is where r, a call before its join is sent, may go without sending it
Continues(q, r) ==
  /\ q \in Task /\ Legal(q)
  /\ q.op = "join" =>
       /\ r.op = "join" /\ q.id = r.id
       /\ r.pc # "join" /\ q.pc # "join"
       /\ q.pc = "enroll" => ~q.served

\* a call that has ended holds nothing
LEMMA IdleLegal == Idle \in Task /\ Legal(Idle) /\ Idle.op = "none"
<1>1. Idle \in Task
  BY DEF Idle, Task, Op, Request, Escrow, Peer
<1>2. Idle.op = "none" /\ Idle.id = NoPeer /\ Idle.pc = "idle"
  BY DEF Idle
<1> QED
  BY <1>1, <1>2 DEF Legal, Carries

\* any call may end
LEMMA IdleContinues == \A r : Continues(Idle, r)
BY IdleLegal DEF Continues

\* sending a request changes where a call is and nothing it carries
LEMMA SendFields ==
  ASSUME NEW r \in Task, NEW pc \in Request
  PROVE  /\ Send(r, pc) \in Task
         /\ Send(r, pc).pc = pc
         /\ Send(r, pc).op = r.op /\ Send(r, pc).arg = r.arg /\ Send(r, pc).id = r.id
         /\ Send(r, pc).next = r.next
         /\ Send(r, pc).served = (pc \notin Timed)
<1>1. (pc \notin Timed) \in BOOLEAN
  OBVIOUS
<1> DEFINE s == pc \notin Timed
<1> HIDE DEF s
<1>3. s \in BOOLEAN
  BY <1>1 DEF s
<1>4. [r EXCEPT !.pc = pc, !.served = s, !.ans = {}] \in Task
  BY <1>3 DEF Task
<1>5. /\ [r EXCEPT !.pc = pc, !.served = s, !.ans = {}].pc = pc
      /\ [r EXCEPT !.pc = pc, !.served = s, !.ans = {}].op = r.op
      /\ [r EXCEPT !.pc = pc, !.served = s, !.ans = {}].arg = r.arg
      /\ [r EXCEPT !.pc = pc, !.served = s, !.ans = {}].id = r.id
      /\ [r EXCEPT !.pc = pc, !.served = s, !.ans = {}].next = r.next
      /\ [r EXCEPT !.pc = pc, !.served = s, !.ans = {}].served = s
  BY DEF Task
<1> QED
  BY <1>4, <1>5 DEF Send, s

\* a call may send any request of its kind; only EnrollReply sends the join
LEMMA SendContinues ==
  ASSUME NEW r \in Task, Carries(r), r.pc # "join",
         NEW pc \in Stops(r.op), pc # "join"
  PROVE  Continues(Send(r, pc), r)
<1>1. pc \in Request \ {"pet"}
  BY DEF Stops, Task, Op, Request, Escrow
<1>2. pc = "enroll" => ~Send(r, pc).served
  <2>1. "enroll" \in Timed
    BY DEF Timed
  <2>2. pc \in Request
    BY <1>1
  <2>3. Send(r, pc).served = (pc \notin Timed)
    BY <2>2, SendFields
  <2> QED
    BY <2>1, <2>3, Zenon
<1>3. Legal(Send(r, pc))
  BY <1>1, SendFields DEF Legal, Carries
<1> QED
  BY <1>1, <1>2, <1>3, SendFields DEF Continues

\* so may it renew the token first (_renew_token_if_stale)
LEMMA TokenContinues ==
  ASSUME NEW r \in Task, Carries(r), r.pc # "join",
         NEW pc \in Renewing \cap Stops(r.op)
  PROVE  Continues(WithToken(r, pc), r)
<1> DEFINE p == Send(r, "pet")
           q == [p EXCEPT !.next = pc]
<1>1. pc \in Request /\ "pet" \in Request /\ pc # "join"
  BY DEF Renewing, Request, Escrow
<1>2. /\ p \in Task /\ p.pc = "pet"
      /\ p.op = r.op /\ p.arg = r.arg /\ p.id = r.id
  BY <1>1, SendFields
<1> HIDE DEF p
<1>3. /\ q \in Task /\ q.next = pc
      /\ q.pc = p.pc /\ q.op = p.op /\ q.arg = p.arg /\ q.id = p.id
  BY <1>1, <1>2 DEF Task
<1> HIDE DEF q
<1>4. Continues(q, r)
  BY <1>2, <1>3 DEF Continues, Legal, Carries
<1>5. Continues(Send(r, pc), r)
  BY <1>1, SendContinues
<1> QED
  BY <1>4, <1>5, IdleContinues DEF WithToken, q, p

\* recovery_options returns to a caller that goes on with its own requests
LEMMA AfterOptionsContinues ==
  ASSUME NEW r \in Task, Carries(r), r.op \in {"options", "recover", "delete"},
         r.pc # "join", NEW o \in Listing
  PROVE  Continues(AfterOptions(r, o), r)
<1>1. CASE r.op = "options"
  BY <1>1, IdleContinues DEF AfterOptions
<1>2. CASE r.op = "recover"
  <2>1. "srp" \in Renewing \cap Stops(r.op)
    BY <1>2 DEF Renewing, Stops
  <2>2. Continues(WithToken(r, "srp"), r)
    BY <2>1, TokenContinues
  <2> QED
    BY <1>2, <2>2, IdleContinues DEF AfterOptions
<1>3. CASE r.op = "delete"
  <2> DEFINE b == Permitted(r, o)
             s == [r EXCEPT !.permitted = b]
  <2>1. b \in BOOLEAN
    BY Zenon DEF Permitted
  <2> HIDE DEF b
  <2>2. s \in Task /\ s.op = r.op /\ s.arg = r.arg /\ s.id = r.id /\ s.pc = r.pc
    BY <2>1 DEF Task
  <2> HIDE DEF s
  <2>3. Carries(s)
    BY <2>2 DEF Carries
  <2>4. "delete_companion" \in Renewing \cap Stops(s.op)
    BY <1>3, <2>2 DEF Renewing, Stops
  <2>5. Continues(WithToken(s, "delete_companion"), s)
    BY <2>2, <2>3, <2>4, TokenContinues
  <2>6. Continues(WithToken(s, "delete_companion"), r)
    BY <2>2, <2>5 DEF Continues
  <2>7. AfterOptions(r, o) = WithToken(s, "delete_companion")
    BY <1>3 DEF AfterOptions, s, b
  <2> QED
    BY <2>6, <2>7
<1> QED
  BY <1>1, <1>2, <1>3

\* and so it does when the listing is cached
LEMMA EnterOptionsContinues ==
  ASSUME NEW r \in Task, Carries(r), r.op \in {"options", "recover", "delete"},
         r.pc # "join", options \in Listing
  PROVE  Continues(EnterOptions(r), r)
<1>1. "viable" \in Renewing \cap Stops(r.op)
  BY DEF Renewing, Stops
<1>2. Continues(WithToken(r, "viable"), r)
  BY <1>1, TokenContinues
<1>3. Continues(AfterOptions(r, options), r)
  BY AfterOptionsContinues
<1> QED
  BY <1>2, <1>3 DEF EnterOptions

\* peer_directory returns to a caller that goes on with its own requests
LEMMA AfterDirectoryContinues ==
  ASSUME NEW r \in Task, Carries(r), r.pc # "join",
         r.op \in {"directory", "recover", "shares", "join"}, NEW d \in SUBSET Peer
  PROVE  Continues(AfterDirectory(r, d), r)
<1> DEFINE p == Send(r, "shares")
           q == [p EXCEPT !.dir = d]
<1>1. CASE r.op \in {"directory", "recover"}
  BY <1>1, IdleContinues DEF AfterDirectory
<1>2. CASE r.op \in {"shares", "join"}
  <2>1. "shares" \in Stops(r.op)
    BY <1>2 DEF Stops
  <2>2. Continues(p, r)
    BY <2>1, SendContinues
  <2>3. p.pc = "shares"
    BY SendFields DEF Request
  <2> HIDE DEF p
  <2>4. /\ q \in Task /\ q.pc = p.pc /\ q.op = p.op /\ q.arg = p.arg /\ q.id = p.id
        /\ q.next = p.next
    BY <2>2 DEF Continues, Task
  <2> HIDE DEF q
  <2>5. Continues(q, r)
    BY <2>2, <2>3, <2>4 DEF Continues, Legal, Carries
  <2> QED
    BY <1>2, <2>2, <2>5, IdleContinues DEF AfterDirectory, p, q
<1> QED
  BY <1>1, <1>2

\* and so it does when the directory is cached
LEMMA EnterDirectoryContinues ==
  ASSUME NEW r \in Task, Carries(r), r.pc # "join", directory \in Directory,
         r.op \in {"directory", "recover", "shares", "join"}
  PROVE  Continues(EnterDirectory(r), r)
<1>1. "changes" \in Stops(r.op)
  BY DEF Stops
<1>2. Continues(Send(r, "changes"), r)
  BY <1>1, SendContinues
<1>3. directory.peers \in SUBSET Peer
  BY DEF Directory
<1>4. Continues(AfterDirectory(r, directory.peers), r)
  BY <1>3, AfterDirectoryContinues
<1> QED
  BY <1>2, <1>4 DEF EnterDirectory

-----------------------------------------------------------------------------
(* What keeps the invariant, whichever action does it                      *)

\* One call moves on; the services may have changed with it, and a request of
\* its may be left under way.  The hypotheses are what an action of the call
\* must see to: that its identity is its own, and the only one it sends, after its record is there;
\* that only its own record goes, before it is sent; that a request left
\* behind is one whose identity nobody works on any more.
LEMMA Moves ==
  ASSUME IInv, NEW t \in Tasks, NEW q \in Task, Legal(q), Become(t, q),
         records' \in SUBSET Peer, circle' \in SUBSET Peer, removed' \in SUBSET Peer,
         stale' \in BOOLEAN, options' \in Listing, bottles' \in SUBSET Peer,
         directory' \in Directory, joined' \in SUBSET Own, late' \in SUBSET Write,
         used' \in SUBSET Own, used \subseteq used',
         sent \subseteq sent', sent' \subseteq used,
         \A p \in sent' \ sent : Holds(t, p),
         q.op = "join" =>
           /\ \/ task[t].op = "join" /\ q.id = task[t].id
              \/ q.id \in used' \ used
           /\ q.pc = "join" <=> q.id \in sent'
           /\ q.pc = "enroll" /\ q.served => q.id \in records' \cup removed',
         \A p \in records \cup removed :
           p \in records' \cup removed' \/ Holds(t, p),
         sent' \subseteq records' \cup removed', circle' \cap Own \subseteq sent',
         \A w \in late' : w \in late \/
           /\ w.kind = "join" => w.peer \in sent'
           /\ w.kind \in {"enroll", "delete_label"} =>
                w.peer \in used \ sent' /\ Holds(t, w.peer) /\ q.op # "join"
  PROVE  IInv'
<1>1. /\ task' \in [Tasks -> Task] /\ task'[t] = q
      /\ \A u \in Tasks \ {t} : task'[u] = task[u]
  BY DEF Become, IInv, TypeOK
<1>2. TypeOK'
  BY <1>1 DEF IInv, TypeOK
<1>3. (\A u \in Tasks : Legal(task[u]))'
  BY <1>1 DEF IInv, Legal, Carries
<1>4. \A p \in used : \A u \in Tasks : Holds(u, p)' => Holds(u, p)
  BY <1>1 DEF Holds
<1>5. Owned'
  <2>1. SUFFICES ASSUME NEW u \in Tasks, task'[u].op = "join"
                 PROVE  (/\ task[u].id \in used
                         /\ \A v \in Tasks : Holds(v, task[u].id) => v = u
                         /\ At(u, "join") <=> task[u].id \in sent
                         /\ At(u, "enroll") /\ task[u].served =>
                              task[u].id \in records \cup removed)'
    <3>1. (sent \subseteq used)'
      OBVIOUS
    <3> QED
      BY <3>1, Zenon DEF Owned
  <2>2. CASE task[u].op = "join" /\ task'[u].id = task[u].id
    <3>1. task[u].id \in used /\ \A v \in Tasks : Holds(v, task[u].id) => v = u
      BY <2>2 DEF IInv, Owned
    <3>2. \A v \in Tasks : (Holds(v, task[u].id))' => Holds(v, task[u].id)
      BY <1>4, <2>2, <3>1 DEF Holds
    <3>3. task'[u].id \in used' /\ \A v \in Tasks : (Holds(v, task[u].id))' => v = u
      BY <2>2, <3>1, <3>2
    <3>4. CASE u = t
      BY <1>1, <2>1, <3>3, <3>4 DEF At
    <3>5. CASE u # t
      <4>1. task'[u] = task[u]
        BY <1>1, <3>5
      <4>2. ~Holds(t, task[u].id)
        BY <3>1, <3>5
      <4>3. task[u].id \in sent' <=> task[u].id \in sent
        BY <4>2
      <4>4. task[u].pc = "join" <=> task[u].id \in sent
        BY <2>2 DEF IInv, Owned, At
      <4>5. task[u].pc = "enroll" /\ task[u].served => task[u].id \in records' \cup removed'
        BY <2>2, <4>2 DEF IInv, Owned, At
      <4> QED
        BY <3>3, <4>1, <4>3, <4>4, <4>5 DEF At
    <3> QED
      BY <3>4, <3>5
  <2>3. CASE u = t /\ q.id \in used' \ used
    <3>1. \A v \in Tasks \ {t} : ~Holds(v, q.id)
      BY <2>3 DEF IInv, Owned, Holds
    <3>2. \A v \in Tasks : (Holds(v, task[u].id))' => v = u
      BY <1>1, <2>3, <3>1 DEF Holds
    <3> QED
      BY <1>1, <2>1, <2>3, <3>2 DEF At
  <2> QED
    BY <1>1, <2>1, <2>2, <2>3
<1>6. Harmless'
  <2>1. SUFFICES ASSUME NEW w \in late'
                 PROVE  /\ w.kind = "join" => w.peer \in sent'
                        /\ w.kind \in {"enroll", "delete_label"} =>
                             /\ w.peer \in used' \ sent'
                             /\ \A u \in Tasks : ~Holds(u, w.peer)'
    BY DEF Harmless, Holds
  <2>2. CASE w \in late
    BY <1>4, <2>2 DEF IInv, Harmless
  <2>3. CASE w \notin late
    <3>1. w.kind = "join" => w.peer \in sent'
      BY <2>3
    <3>2. ASSUME w.kind \in {"enroll", "delete_label"}, NEW u \in Tasks
          PROVE  w.peer \in used \ sent' /\ ~Holds(u, w.peer)'
      <4>1. w.peer \in used \ sent' /\ Holds(t, w.peer) /\ q.op # "join"
        BY <2>3, <3>2
      <4>2. ~Holds(t, w.peer)'
        BY <1>1, <4>1 DEF Holds
      <4>3. u # t => ~Holds(u, w.peer)
        BY <4>1 DEF IInv, Owned, Holds
      <4> QED
        BY <1>4, <4>1, <4>2, <4>3
    <3>3. w.kind \in {"enroll", "delete_label"} => w.peer \in used \ sent'
      BY <2>3
    <3> QED
      BY <3>1, <3>2, <3>3
  <2> QED
    BY <2>2, <2>3
<1>7. Ordered'
  BY DEF Ordered
<1> QED
  BY <1>2, <1>3, <1>5, <1>6, <1>7 DEF IInv

\* a call that goes on without a write
LEMMA Quiet ==
  ASSUME IInv, NEW t \in Tasks, NEW q, Continues(q, task[t]), Become(t, q),
         UNCHANGED <<server, used, sent, late>>,
         stale' \in BOOLEAN, options' \in Listing, bottles' \in SUBSET Peer,
         directory' \in Directory, joined' \in SUBSET Own
  PROVE  IInv'
<1>1. q \in Task /\ Legal(q)
  BY DEF Continues
<1>2. q.op = "join" =>
        /\ task[t].op = "join" /\ q.id = task[t].id
        /\ q.pc = "join" <=> q.id \in sent
        /\ q.pc = "enroll" /\ q.served => q.id \in records \cup removed
  BY DEF Continues, IInv, Owned, At
<1>3. /\ records \in SUBSET Peer /\ circle \in SUBSET Peer /\ removed \in SUBSET Peer
      /\ late \in SUBSET Write /\ used \in SUBSET Own /\ sent \subseteq used
      /\ sent \subseteq records \cup removed /\ circle \cap Own \subseteq sent
  BY DEF IInv, TypeOK, Owned, Ordered
<1>4. /\ records' = records /\ circle' = circle /\ removed' = removed
      /\ used' = used /\ sent' = sent /\ late' = late
  BY DEF server
<1> QED
  BY <1>1, <1>2, <1>3, <1>4, Moves

-----------------------------------------------------------------------------
(* The calls                                                               *)

\* a call as it begins
LEMMA RunningFields ==
  ASSUME NEW o \in Op, NEW p \in Peer \cup {NoPeer}, NEW flag \in BOOLEAN
  PROVE  /\ Running(o, p, flag) \in Task
         /\ Running(o, p, flag).op = o /\ Running(o, p, flag).arg = p
         /\ Running(o, p, flag).id = NoPeer /\ Running(o, p, flag).pc = "idle"
<1>1. Idle \in Task /\ Idle.id = NoPeer /\ Idle.pc = "idle"
  BY IdleLegal DEF Idle
<1> QED
  BY <1>1 DEF Running, Task

\* a call other than join creates no identity
LEMMA CallKeeps ==
  ASSUME IInv, NEW t \in Tasks, Call(t)
  PROVE  IInv'
<1>1. PICK o \in Calls \ {"join"}, p \in Peer, flag \in BOOLEAN :
        Become(t, CASE o = "options"   -> EnterOptions(Running(o, NoPeer, flag))
                    [] o = "directory" -> EnterDirectory(Running(o, NoPeer, flag))
                    [] o = "recover"   -> EnterOptions(Running(o, p, FALSE))
                    [] o = "shares"    -> EnterDirectory(Running(o, p, FALSE))
                    [] o = "delete"    -> EnterOptions(Running(o, p, flag)))
  BY DEF Call
<1>2. o \in {"options", "directory", "recover", "shares", "delete"}
  BY CallAssumption DEF Op
<1>3. options \in Listing /\ directory \in Directory
  BY DEF IInv, TypeOK
<1>4. ASSUME NEW a \in Peer \cup {NoPeer}, NEW f \in BOOLEAN,
             a \in Peer \/ o \in {"options", "directory"}
      PROVE  /\ o # "directory" /\ o # "shares" =>
                  Continues(EnterOptions(Running(o, a, f)), task[t])
             /\ o \in {"directory", "shares"} =>
                  Continues(EnterDirectory(Running(o, a, f)), task[t])
  <2> DEFINE r == Running(o, a, f)
  <2>1. /\ r \in Task /\ r.op = o /\ r.arg = a
        /\ r.id = NoPeer /\ r.pc = "idle"
    BY <1>2, RunningFields DEF Op
  <2> HIDE DEF r
  <2>2. Carries(r)
    BY <1>2, <1>4, <2>1 DEF Carries
  <2>3. o # "directory" /\ o # "shares" => Continues(EnterOptions(r), r)
    BY <1>2, <1>3, <2>1, <2>2, EnterOptionsContinues
  <2>4. o \in {"directory", "shares"} => Continues(EnterDirectory(r), r)
    BY <1>3, <2>1, <2>2, EnterDirectoryContinues
  <2>5. r.op # "join"
    BY <1>2, <2>1
  <2>6. \A q : Continues(q, r) => Continues(q, task[t])
    BY <2>5 DEF Continues
  <2> QED
    BY <2>3, <2>4, <2>6 DEF r
<1>5. PICK q : Become(t, q) /\ Continues(q, task[t])
  <2>1. CASE o = "options"
    BY <1>1, <1>4, <2>1
  <2>2. CASE o = "directory"
    BY <1>1, <1>4, <2>2
  <2>3. CASE o = "recover"
    BY <1>1, <1>4, <2>3
  <2>4. CASE o = "shares"
    BY <1>1, <1>4, <2>4
  <2>5. CASE o = "delete"
    BY <1>1, <1>4, <2>5
  <2> QED
    BY <1>2, <2>1, <2>2, <2>3, <2>4, <2>5
<1> QED
  BY <1>5, Quiet DEF Call, caches, history, IInv, TypeOK

\* join's identity is new: nobody works on it, nothing under way is about it
LEMMA CallJoinKeeps ==
  ASSUME IInv, NEW t \in Tasks, CallJoin(t)
  PROVE  IInv'
<1>1. PICK sponsor \in Peer, id \in Own \ used :
        /\ used' = used \cup {id}
        /\ Become(t, Send([Running("join", sponsor, TRUE) EXCEPT !.id = id], "changes"))
  BY DEF CallJoin
<1> DEFINE r == Running("join", sponsor, TRUE)
           s == [r EXCEPT !.id = id]
           q == Send(s, "changes")
<1>2. r \in Task /\ r.op = "join" /\ r.arg = sponsor
  BY RunningFields DEF Op
<1> HIDE DEF r
<1>3. s \in Task /\ s.op = "join" /\ s.arg = sponsor /\ s.id = id
  BY <1>2 DEF Task
<1> HIDE DEF s
<1>4. /\ q \in Task /\ q.op = "join" /\ q.arg = sponsor /\ q.id = id
      /\ q.pc = "changes"
  BY <1>3, SendFields DEF Request
<1>5. Become(t, q)
  BY <1>1 DEF q, s, r
<1> HIDE DEF q
<1>6. Legal(q)
  BY <1>4 DEF Legal, Carries, Stops, Peer
<1>7. /\ records' = records /\ circle' = circle /\ removed' = removed
      /\ stale' = stale /\ options' = options /\ bottles' = bottles
      /\ directory' = directory /\ sent' = sent /\ joined' = joined
      /\ late' = late
  BY DEF CallJoin, server, caches
<1>8. /\ TypeOK /\ sent \subseteq used /\ sent \subseteq records \cup removed
      /\ circle \cap Own \subseteq sent
  BY DEF IInv, Owned, Ordered
<1>9. /\ q.id \in used' \ used /\ q.id \notin sent
      /\ used' \in SUBSET Own
  BY <1>1, <1>4, <1>8 DEF TypeOK
<1> QED
  BY <1>1, <1>4, <1>5, <1>6, <1>7, <1>8, <1>9, Moves DEF TypeOK

-----------------------------------------------------------------------------
(* The replies that send no write of their own                             *)

\* whose await it is
LEMMA Whose ==
  ASSUME NEW r \in Task, Legal(r)
  PROVE  /\ r.pc \in {"viable", "list"} => r.op \in {"options", "recover", "delete"}
         /\ r.pc = "srp" => r.op = "recover"
         /\ r.pc = "changes" => r.op \in {"directory", "recover", "shares", "join"}
         /\ r.pc \in {"delete_companion", "delete_main"} => r.op = "delete"
         /\ r.pc \in {"headers", "club", "enroll", "delete_label", "join"} => r.op = "join"
<1>1. r.op \in {"options", "directory", "recover", "shares", "delete", "join", "none"}
  BY DEF Task, Op
<1> QED
  BY <1>1 DEF Legal, Stops

\* what every step starts from
LEMMA Start ==
  ASSUME IInv, NEW t \in Tasks
  PROVE  /\ task[t] \in Task /\ Legal(task[t]) /\ Carries(task[t])
         /\ task \in [Tasks -> Task]
         /\ records \in SUBSET Peer /\ circle \in SUBSET Peer /\ removed \in SUBSET Peer
         /\ stale \in BOOLEAN /\ options \in Listing /\ bottles \in SUBSET Peer
         /\ directory \in Directory /\ used \in SUBSET Own /\ sent \in SUBSET Own
         /\ joined \in SUBSET Own /\ late \in SUBSET Write
         /\ sent \subseteq used /\ sent \subseteq records \cup removed
         /\ circle \cap Own \subseteq sent
         /\ task[t].ans \in SUBSET Peer /\ task[t].next \in Request
BY DEF IInv, TypeOK, Legal, Owned, Ordered, Task

\* the renewed token is used for what it was renewed for
LEMMA PetReplyKeeps ==
  ASSUME IInv, NEW t \in Tasks, PetReply(t)
  PROVE  IInv'
<1> DEFINE n == task[t].next
<1>1. /\ task[t].pc = "pet" /\ task[t] \in Task /\ Carries(task[t])
      /\ n \in Renewing \cap Stops(task[t].op) /\ n # "join"
  BY Start DEF PetReply, Replied, At, Legal, Renewing
<1> HIDE DEF n
<1>2. Continues(Send(task[t], n), task[t])
  BY <1>1, SendContinues
<1>3. PICK q : Become(t, q) /\ Continues(q, task[t])
  BY <1>2, IdleContinues DEF PetReply, n
<1> QED
  BY <1>3, Start, Quiet DEF PetReply, caches, history

\* the viable bottles came: the records are asked for
LEMMA ViableReplyKeeps ==
  ASSUME IInv, NEW t \in Tasks, ViableReply(t)
  PROVE  IInv'
<1>1. /\ task[t].pc = "viable" /\ task[t] \in Task /\ Carries(task[t])
      /\ task[t].op \in {"options", "recover", "delete"}
  BY Start, Whose DEF ViableReply, Replied, At
<1>2. "list" \in Stops(task[t].op)
  BY <1>1 DEF Stops
<1>3. Continues(Send(task[t], "list"), task[t])
  BY <1>1, <1>2, SendContinues
<1> QED
  BY <1>3, Start, Quiet DEF ViableReply, history

\* the records came: the listing is complete
LEMMA ListReplyKeeps ==
  ASSUME IInv, NEW t \in Tasks, ListReply(t)
  PROVE  IInv'
<1>1. /\ task[t].pc = "list" /\ task[t] \in Task /\ Carries(task[t])
      /\ task[t].op \in {"options", "recover", "delete"}
  BY Start, Whose DEF ListReply, Replied, At
<1>2. options' \in Listing
  <2>1. options' = Joined(task[t].ans, bottles)
    BY DEF ListReply
  <2>2. (bottles # {}) \in BOOLEAN
    OBVIOUS
  <2> QED
    BY <2>1, <2>2, Start DEF Joined, Listing
<1>3. Continues(AfterOptions(task[t], options'), task[t])
  BY <1>1, <1>2, AfterOptionsContinues
<1> QED
  BY <1>2, <1>3, Start, Quiet DEF ListReply, history

\* the passcode was accepted: a directory is read next
LEMMA SrpReplyKeeps ==
  ASSUME IInv, NEW t \in Tasks, SrpReply(t)
  PROVE  IInv'
<1>1. /\ task[t].pc = "srp" /\ task[t] \in Task /\ Carries(task[t])
      /\ task[t].op = "recover" /\ directory \in Directory
  BY Start, Whose DEF SrpReply, Replied, At
<1>2. Continues(EnterDirectory(task[t]), task[t])
  BY <1>1, EnterDirectoryContinues
<1>3. PICK q : Become(t, q) /\ Continues(q, task[t])
  BY <1>2, IdleContinues DEF SrpReply
<1> QED
  BY <1>3, Start, Quiet DEF SrpReply, caches, history

\* the circle's changes came: the directory is complete
LEMMA ChangesReplyKeeps ==
  ASSUME IInv, NEW t \in Tasks, ChangesReply(t)
  PROVE  IInv'
<1>1. /\ task[t].pc = "changes" /\ task[t] \in Task /\ Carries(task[t])
      /\ task[t].op \in {"directory", "recover", "shares", "join"}
      /\ task[t].ans \in SUBSET Peer
  BY Start, Whose DEF ChangesReply, Replied, At
<1>2. Continues(AfterDirectory(task[t], task[t].ans), task[t])
  BY <1>1, AfterDirectoryContinues
<1>3. PICK q : Become(t, q) /\ Continues(q, task[t])
  BY <1>2, IdleContinues DEF ChangesReply
<1>4. directory' \in Directory
  BY <1>1 DEF ChangesReply, Directory
<1> QED
  BY <1>3, <1>4, Start, Quiet DEF ChangesReply, history

\* a call that sends its next request, or ends, and touches nothing else
LEMMA NextRequest ==
  ASSUME IInv, NEW t \in Tasks, NEW q, Become(t, q), Continues(q, task[t]),
         UNCHANGED <<server, stale, caches, history, late>>
  PROVE  IInv'
BY Start, Quiet DEF caches, history

\* the answers that a join collects before it enrols, or enrols again
LEMMA JoinRepliesKeep ==
  ASSUME IInv, NEW t \in Tasks,
         SharesReply(t) \/ HeadersReply(t) \/ ClubReply(t) \/ DeleteLabelReply(t)
  PROVE  IInv'
<1>1. task[t] \in Task /\ Carries(task[t])
  BY Start
<1>2. UNCHANGED <<server, stale, caches, history, late>>
  BY DEF SharesReply, HeadersReply, ClubReply, DeleteLabelReply
<1>3. CASE SharesReply(t)
  <2>1. task[t].pc = "shares"
    BY <1>3 DEF SharesReply, Replied, At
  <2>2. task[t].op = "join" => Continues(Send(task[t], "headers"), task[t])
    <3>1. task[t].op = "join" => "headers" \in Stops(task[t].op)
      BY DEF Stops
    <3> QED
      BY <1>1, <2>1, <3>1, SendContinues
  <2> QED
    BY <1>2, <1>3, <2>2, IdleContinues, NextRequest DEF SharesReply
<1>4. CASE HeadersReply(t)
  <2>1. task[t].pc = "headers" /\ task[t].op = "join"
    BY <1>4, Start, Whose DEF HeadersReply, Replied, At
  <2>2. "club" \in Renewing \cap Stops(task[t].op)
    BY <2>1 DEF Renewing, Stops
  <2>3. Continues(WithToken(task[t], "club"), task[t])
    BY <1>1, <2>1, <2>2, TokenContinues
  <2> QED
    BY <1>2, <1>4, <2>3, NextRequest DEF HeadersReply
<1>5. CASE ClubReply(t)
  <2>1. task[t].pc = "club" /\ task[t].op = "join"
    BY <1>5, Start, Whose DEF ClubReply, Replied, At
  <2>2. "enroll" \in Stops(task[t].op)
    BY <2>1 DEF Stops
  <2>3. Continues(Send(task[t], "enroll"), task[t])
    BY <1>1, <2>1, <2>2, SendContinues
  <2> QED
    BY <1>2, <1>5, <2>3, NextRequest DEF ClubReply
<1>6. CASE DeleteLabelReply(t)
  <2> DEFINE s == [task[t] EXCEPT !.again = TRUE]
  <2>1. task[t].pc = "delete_label" /\ task[t].op = "join"
    BY <1>6, Start, Whose DEF DeleteLabelReply, Replied, At
  <2>2. /\ s \in Task /\ s.op = task[t].op /\ s.arg = task[t].arg
        /\ s.id = task[t].id /\ s.pc = task[t].pc
    BY <1>1 DEF Task
  <2>3. Become(t, Send(s, "club"))
    BY <1>6 DEF DeleteLabelReply
  <2> HIDE DEF s
  <2>4. "club" \in Stops(s.op)
    BY <2>1, <2>2 DEF Stops
  <2>5. Carries(s)
    BY <1>1, <2>2 DEF Carries
  <2>6. Continues(Send(s, "club"), s)
    BY <2>1, <2>2, <2>4, <2>5, SendContinues
  <2>7. Continues(Send(s, "club"), task[t])
    BY <2>2, <2>6 DEF Continues
  <2> QED
    BY <1>2, <2>3, <2>7, NextRequest
<1> QED
  BY <1>3, <1>4, <1>5, <1>6

\* the two answers of a deletion
LEMMA DeleteReplyKeeps ==
  ASSUME IInv, NEW t \in Tasks, DeleteReply(t)
  PROVE  IInv'
<1>1. task[t] \in Task /\ Carries(task[t])
  BY Start
<1>2. PICK q : Become(t, q) /\ Continues(q, task[t])
  <2>1. CASE At(t, "delete_companion")
    <3>1. task[t].pc = "delete_companion" /\ task[t].op = "delete"
      BY <2>1, Start, Whose DEF At
    <3>2. "delete_main" \in Stops(task[t].op)
      BY <3>1 DEF Stops
    <3>3. Continues(Send(task[t], "delete_main"), task[t])
      BY <1>1, <3>1, <3>2, SendContinues
    <3> QED
      BY <2>1, <3>3, IdleContinues DEF DeleteReply
  <2>2. CASE ~At(t, "delete_companion")
    BY <2>2, IdleContinues DEF DeleteReply, Replied
  <2> QED
    BY <2>1, <2>2
<1>3. options' \in Listing
  <2>1. options' = options \/ options' = NoListing
    BY DEF DeleteReply
  <2>2. NoListing \in Listing
    BY DEF NoListing, Listing
  <2> QED
    BY <2>1, <2>2, Start
<1> QED
  BY <1>2, <1>3, Start, Quiet DEF DeleteReply, history

\* a join that is over keeps what it sent
LEMMA JoinReplyKeeps ==
  ASSUME IInv, NEW t \in Tasks, JoinReply(t)
  PROVE  IInv'
<1>1. directory' \in Directory
  BY Start DEF JoinReply, Directory, Task
<1>2. options' \in Listing
  BY DEF JoinReply, NoListing, Listing
<1>3. task[t].id \in Own
  BY Start, Whose DEF JoinReply, Replied, At, Carries, Task
<1> QED
  BY <1>1, <1>2, <1>3, IdleContinues, Start, Quiet DEF JoinReply

-----------------------------------------------------------------------------
(* The writes                                                              *)

\* the ratchet's one tooth: the join is sent when its record is there
LEMMA EnrollReplyKeeps ==
  ASSUME IInv, NEW t \in Tasks, EnrollReply(t)
  PROVE  IInv'
<1> DEFINE q == Send(task[t], "join")
           p == task[t].id
<1>1. /\ task[t].pc = "enroll" /\ task[t].op = "join" /\ task[t].served
      /\ task[t] \in Task /\ Carries(task[t])
  BY Start, Whose DEF EnrollReply, Replied, At
<1>2. p \in used /\ p \in records \cup removed /\ Holds(t, p)
  BY <1>1 DEF IInv, Owned, At, Holds
<1>3. /\ q \in Task /\ q.pc = "join" /\ q.op = "join" /\ q.id = p
      /\ q.arg = task[t].arg
  BY <1>1, SendFields DEF Request
<1>4. /\ Become(t, q) /\ sent' = sent \cup {p}
      /\ records' = records /\ circle' = circle /\ removed' = removed
      /\ stale' = stale /\ options' = options /\ bottles' = bottles
      /\ directory' = directory /\ used' = used /\ joined' = joined /\ late' = late
  BY DEF EnrollReply, server, caches
<1> HIDE DEF q, p
<1>5. Legal(q)
  BY <1>1, <1>3 DEF Legal, Carries, Stops, p
<1> QED
  BY <1>1, <1>2, <1>3, <1>4, <1>5, Start, Moves DEF p

\* what a write does to the services
LEMMA EffectCases ==
  ASSUME NEW k, NEW p, Effect(k, p)
  PROVE  /\ k = "enroll" =>
              records' = records \cup {p} /\ circle' = circle /\ removed' = removed
         /\ k = "delete_label" =>
              records' = records \ {p} /\ circle' = circle /\ removed' = removed
         /\ k = "delete_main" =>
              records' = records \ {p} /\ circle' = circle /\ removed' = removed \cup {p}
         /\ k = "join" =>
              records' = records /\ circle' = circle \cup {p} /\ removed' = removed
         /\ k \notin {"enroll", "delete_label", "delete_main", "join"} =>
              records' = records /\ circle' = circle /\ removed' = removed
BY DEF Effect

\* a request that is served changes the services as its call may
LEMMA ServeKeeps ==
  ASSUME IInv, NEW t \in Tasks, Serve(t)
  PROVE  IInv'
<1> DEFINE r == task[t]
           p == Subject(r)
<1>1. /\ r \in Task /\ Legal(r) /\ Carries(r) /\ r.pc # "idle" /\ ~r.served
      /\ Effect(r.pc, p)
      /\ stale' = stale /\ options' = options /\ bottles' = bottles
      /\ directory' = directory /\ used' = used /\ sent' = sent
      /\ joined' = joined /\ late' = late
  BY Start DEF Serve, At, caches, history
<1>2. circle' \in SUBSET Peer
  <2>1. r.pc = "join" => p \in Peer
    BY <1>1, Whose DEF Subject, Carries, Task, Peer
  <2> QED
    BY <1>1, <2>1, EffectCases, Start
<1>3. PICK a \in SUBSET Peer : Become(t, [r EXCEPT !.served = TRUE, !.ans = a])
  <2>1. PICK a \in Answers(r) : Become(t, [r EXCEPT !.served = TRUE, !.ans = a])
    BY DEF Serve
  <2>2. Answers(r) \subseteq SUBSET Peer
    BY <1>2, Start DEF Answers
  <2> QED
    BY <2>1, <2>2
<1> DEFINE q == [r EXCEPT !.served = TRUE, !.ans = a]
<1> HIDE DEF r
<1>4. /\ q \in Task /\ q.pc = r.pc /\ q.op = r.op /\ q.arg = r.arg /\ q.id = r.id
      /\ q.next = r.next /\ q.served
  BY <1>1 DEF Task
<1>5. Become(t, q)
  BY <1>3
<1> HIDE DEF q, p
<1>6. Legal(q)
  BY <1>1, <1>4 DEF Legal, Carries
<1>7. r.op = "join" =>
        r.id \in used /\ (r.pc = "join" <=> r.id \in sent) /\ Holds(t, r.id)
  BY DEF IInv, Owned, At, Holds, r
<1>8. CASE r.pc \notin {"enroll", "delete_label", "delete_main", "join"}
  <2>1. records' = records /\ circle' = circle /\ removed' = removed
    BY <1>1, <1>8, EffectCases
  <2> QED
    BY <1>1, <1>4, <1>5, <1>6, <1>7, <1>8, <2>1, Start, Moves DEF r
<1>9. CASE r.pc = "enroll"
  <2>1. p = r.id /\ r.op = "join" /\ p \in Peer
    BY <1>1, <1>9, Whose DEF p, Subject, Carries, Task, Peer
  <2>2. records' = records \cup {p} /\ circle' = circle /\ removed' = removed
    BY <1>1, <1>9, EffectCases
  <2> QED
    BY <1>1, <1>4, <1>5, <1>6, <1>7, <1>9, <2>1, <2>2, Start, Moves DEF r
<1>10. CASE r.pc = "delete_label"
  <2>1. p = r.id /\ r.op = "join" /\ p \notin sent
    BY <1>1, <1>7, <1>10, Whose DEF p, Subject
  <2>2. records' = records \ {p} /\ circle' = circle /\ removed' = removed
    BY <1>1, <1>10, EffectCases
  <2>3. sent \subseteq records' \cup removed'
    BY <2>1, <2>2, Start
  <2> QED
    BY <1>1, <1>4, <1>5, <1>6, <1>7, <1>10, <2>1, <2>2, <2>3, Start, Moves DEF r
<1>11. CASE r.pc = "delete_main"
  <2>1. p = r.arg /\ r.op = "delete" /\ p \in Peer
    BY <1>1, <1>11, Whose DEF p, Subject, Carries
  <2>2. /\ records' = records \ {p} /\ circle' = circle
        /\ removed' = removed \cup {p}
    BY <1>1, <1>11, EffectCases
  <2> QED
    BY <1>1, <1>4, <1>5, <1>6, <1>11, <2>1, <2>2, Start, Moves
<1>12. CASE r.pc = "join"
  <2>1. p = r.id /\ r.op = "join" /\ p \in sent
    BY <1>1, <1>7, <1>12, Whose DEF p, Subject
  <2>2. records' = records /\ circle' = circle \cup {p} /\ removed' = removed
    BY <1>1, <1>12, EffectCases
  <2> QED
    BY <1>1, <1>2, <1>4, <1>5, <1>6, <1>7, <1>12, <2>1, <2>2, Start, Moves DEF r
<1> QED
  BY <1>8, <1>9, <1>10, <1>11, <1>12

\* an EscrowError ends the call, or repeats the enrolment before anything is sent
LEMMA RefuseKeeps ==
  ASSUME IInv, NEW t \in Tasks, Refuse(t)
  PROVE  IInv'
<1>1. task[t] \in Task /\ Carries(task[t]) /\ Legal(task[t])
  BY Start
<1>2. UNCHANGED <<server, stale, caches, history, late>>
  BY DEF Refuse
<1>3. CASE Become(t, Idle)
  BY <1>2, <1>3, IdleContinues, NextRequest
<1>4. CASE /\ task[t].pc \in {"club", "enroll"}
           /\ Become(t, Send(task[t], "delete_label"))
  <2>1. task[t].op = "join"
    BY <1>1, <1>4, Whose
  <2>2. "delete_label" \in Stops(task[t].op)
    BY <2>1 DEF Stops
  <2>3. Continues(Send(task[t], "delete_label"), task[t])
    BY <1>1, <1>4, <2>2, SendContinues
  <2> QED
    BY <1>2, <1>4, <2>3, NextRequest
<1>5. CASE /\ At(t, "delete_companion")
           /\ Become(t, Send(task[t], "delete_main"))
  <2>1. task[t].pc = "delete_companion" /\ task[t].op = "delete"
    BY <1>1, <1>5, Whose DEF At
  <2>2. "delete_main" \in Stops(task[t].op)
    BY <2>1 DEF Stops
  <2>3. Continues(Send(task[t], "delete_main"), task[t])
    BY <1>1, <2>1, <2>2, SendContinues
  <2> QED
    BY <1>2, <1>5, <2>3, NextRequest
<1> QED
  BY <1>3, <1>4, <1>5 DEF Refuse

\* what a call leaves behind is harmless: nobody works on its identity then
LEMMA FailKeeps ==
  ASSUME IInv, NEW t \in Tasks, Fail(t)
  PROVE  IInv'
<1> DEFINE r == task[t]
           w == [kind |-> r.pc, peer |-> Subject(r)]
<1>1. /\ r \in Task /\ Legal(r) /\ Carries(r) /\ Become(t, Idle)
      /\ records' = records /\ circle' = circle /\ removed' = removed
      /\ stale' = stale /\ options' = options /\ bottles' = bottles
      /\ directory' = directory /\ used' = used /\ sent' = sent /\ joined' = joined
  BY Start DEF Fail, server, caches, history
<1>2. Idle \in Task /\ Legal(Idle) /\ Idle.op # "join"
  BY IdleLegal
<1>3. r.op = "join" =>
        r.id \in used /\ (r.pc = "join" <=> r.id \in sent) /\ Holds(t, r.id)
  BY DEF IInv, Owned, At, Holds
<1>4. CASE late' = late
  BY <1>1, <1>2, <1>4, Start, Moves
<1>5. CASE /\ late' = late \cup {w}
           /\ r.pc \in {"enroll", "delete_label", "delete_main", "join"}
  <2> HIDE DEF r
  <2>1. w.kind = r.pc /\ w.peer = Subject(r)
    OBVIOUS
  <2>2. r.pc \in {"enroll", "delete_label", "join"} =>
          r.op = "join" /\ w.peer = r.id /\ r.id \in Own
    BY <1>1, <2>1, Whose DEF Subject, Carries, Task
  <2>3. r.pc = "delete_main" => w.peer \in Peer
    BY <1>1, <2>1, Whose DEF Subject, Carries
  <2>4. w \in Write
    <3>1. w.peer \in Peer
      BY <1>5, <2>2, <2>3 DEF Peer
    <3>2. r.pc \in Request
      BY <1>5 DEF Request, Escrow
    <3> QED
      BY <3>1, <3>2, <2>1 DEF Write
  <2> HIDE DEF w
  <2>5. late' \in SUBSET Write
    BY <1>5, <2>4, Start
  <2>6. /\ w.kind = "join" => w.peer \in sent
        /\ w.kind \in {"enroll", "delete_label"} =>
             w.peer \in used \ sent /\ Holds(t, w.peer)
    BY <1>3, <2>1, <2>2
  <2>7. \A x \in late' : x \in late \/
          /\ x.kind = "join" => x.peer \in sent'
          /\ x.kind \in {"enroll", "delete_label"} =>
               x.peer \in used \ sent' /\ Holds(t, x.peer) /\ Idle.op # "join"
    BY <1>1, <1>2, <1>5, <2>6
  <2> QED
    BY <1>1, <1>2, <2>5, <2>7, Start, Moves
<1> QED
  BY <1>4, <1>5 DEF Fail

-----------------------------------------------------------------------------
(* The rest of the world                                                   *)

\* the services change while no call moves: only a record that nobody depends
\* on may go
LEMMA ServicesMove ==
  ASSUME IInv, UNCHANGED <<caches, task, history>>, stale' \in BOOLEAN,
         records' \in SUBSET Peer, circle' \in SUBSET Peer, removed' \in SUBSET Peer,
         late' \subseteq late,
         \A p \in records \cup removed :
           p \in records' \cup removed' \/
             (p \notin sent /\ \A t \in Tasks : ~Holds(t, p)),
         circle' \cap Own \subseteq sent
  PROVE  IInv'
<1>1. /\ task' = task /\ used' = used /\ sent' = sent /\ joined' = joined
      /\ options' = options /\ bottles' = bottles /\ directory' = directory
  BY DEF caches, history
<1>2. TypeOK'
  BY <1>1 DEF IInv, TypeOK
<1>3. (\A t \in Tasks : Legal(task[t]))'
  BY <1>1 DEF IInv
<1>4. Owned'
  <2>1. SUFFICES ASSUME NEW t \in Tasks, task[t].op = "join"
                 PROVE  (/\ task[t].id \in used
                         /\ \A u \in Tasks : Holds(u, task[t].id) => u = t
                         /\ At(t, "join") <=> task[t].id \in sent
                         /\ At(t, "enroll") /\ task[t].served =>
                              task[t].id \in records \cup removed)'
    <3>1. (sent \subseteq used)'
      BY <1>1 DEF IInv, Owned
    <3>2. \A t \in Tasks : (task[t].op = "join")' => task[t].op = "join"
      BY <1>1
    <3> QED
      BY <1>1, <3>1, <3>2, Zenon DEF Owned
  <2>2. Holds(t, task[t].id)
    BY <2>1 DEF Holds
  <2>3. At(t, "enroll") /\ task[t].served => task[t].id \in records' \cup removed'
    BY <2>1, <2>2 DEF IInv, Owned
  <2>4. /\ task[t].id \in used
        /\ \A u \in Tasks : Holds(u, task[t].id) => u = t
        /\ At(t, "join") <=> task[t].id \in sent
    BY <2>1 DEF IInv, Owned
  <2> QED
    BY <1>1, <2>3, <2>4 DEF Holds, At
<1>5. Harmless'
  BY <1>1 DEF IInv, Harmless, Holds
<1>6. Ordered'
  BY <1>1 DEF IInv, Ordered
<1> QED
  BY <1>2, <1>3, <1>4, <1>5, <1>6 DEF IInv

\* a request served after its caller gave up hurts nobody
LEMMA ServeLateKeeps ==
  ASSUME IInv, ServeLate
  PROVE  IInv'
<1>1. PICK w \in late : Effect(w.kind, w.peer) /\ late' = late \ {w}
  BY DEF ServeLate
<1>2. w \in Write /\ w.peer \in Peer
  BY <1>1, Start DEF IInv, TypeOK, Write
<1>3. /\ w.kind = "join" => w.peer \in sent
      /\ w.kind \in {"enroll", "delete_label"} =>
           w.peer \in used \ sent /\ \A t \in Tasks : ~Holds(t, w.peer)
  BY DEF IInv, Harmless
<1>4. /\ UNCHANGED <<caches, task, history>> /\ stale' = stale
  BY DEF ServeLate
<1>5. /\ records \in SUBSET Peer /\ circle \in SUBSET Peer /\ removed \in SUBSET Peer
      /\ stale \in BOOLEAN /\ circle \cap Own \subseteq sent
  BY DEF IInv, TypeOK, Ordered
<1>6. CASE w.kind = "enroll"
  BY <1>1, <1>2, <1>4, <1>5, <1>6, EffectCases, ServicesMove
<1>7. CASE w.kind = "delete_label"
  BY <1>1, <1>2, <1>3, <1>4, <1>5, <1>7, EffectCases, ServicesMove
<1>8. CASE w.kind = "delete_main"
  BY <1>1, <1>2, <1>4, <1>5, <1>8, EffectCases, ServicesMove
<1>9. CASE w.kind = "join"
  BY <1>1, <1>2, <1>3, <1>4, <1>5, <1>9, EffectCases, ServicesMove
<1>10. CASE w.kind \notin {"enroll", "delete_label", "delete_main", "join"}
  BY <1>1, <1>2, <1>4, <1>5, <1>10, EffectCases, ServicesMove
<1> QED
  BY <1>6, <1>7, <1>8, <1>9, <1>10

\* nor does what other devices do
LEMMA WorldKeeps ==
  ASSUME IInv, World
  PROVE  IInv'
<1>1. /\ records \in SUBSET Peer /\ circle \in SUBSET Peer /\ removed \in SUBSET Peer
      /\ stale \in BOOLEAN /\ circle \cap Own \subseteq sent
  BY DEF IInv, TypeOK, Ordered
<1>2. CASE ServeLate
  BY <1>2, ServeLateKeeps
<1>3. CASE Age
  BY <1>1, <1>3, ServicesMove DEF Age, server
<1>4. CASE OtherEnrols
  BY <1>1, <1>4, ServicesMove DEF OtherEnrols, Peer
<1>5. CASE OtherJoins
  BY <1>1, <1>5, ServicesMove DEF OtherJoins, Peer
<1>6. CASE Leave
  BY <1>1, <1>6, ServicesMove DEF Leave
<1>7. CASE OtherDeletes
  BY <1>1, <1>7, ServicesMove DEF OtherDeletes
<1> QED
  BY <1>2, <1>3, <1>4, <1>5, <1>6, <1>7 DEF World

-----------------------------------------------------------------------------
(* The invariant                                                           *)

\* a new session satisfies the invariant
LEMMA InitInvariant == Init => IInv
<1> SUFFICES ASSUME Init PROVE IInv
  OBVIOUS
<1>1. \A t \in Tasks : task[t] = Idle
  BY DEF Init
<1>2. TypeOK
  <2>1. NoListing \in Listing
    BY DEF NoListing, Listing
  <2>2. task \in [Tasks -> Task]
    BY IdleLegal DEF Init
  <2> QED
    BY <2>1, <2>2 DEF Init, TypeOK, Directory, Peer
<1>3. Owned /\ Harmless /\ Ordered
  BY <1>1, IdleLegal DEF Init, Owned, Harmless, Ordered
<1> QED
  BY <1>1, <1>2, <1>3, IdleLegal DEF IInv

\* every step keeps the invariant
LEMMA StepInvariant == IInv /\ [Next]_vars => IInv'
<1> SUFFICES ASSUME IInv, [Next]_vars PROVE IInv'
  OBVIOUS
<1>1. CASE UNCHANGED vars
  BY <1>1 DEF vars, server, caches, history, IInv, TypeOK, Owned, Harmless, Ordered,
              Holds, At
<1>2. ASSUME NEW t \in Tasks, Call(t) \/ CallJoin(t) \/ Resume(t) \/ Fail(t)
      PROVE  IInv'
  <2>1. ASSUME Reply(t) PROVE IInv'
    BY <2>1, PetReplyKeeps, ViableReplyKeeps, ListReplyKeeps, SrpReplyKeeps,
       ChangesReplyKeeps, JoinRepliesKeep, EnrollReplyKeeps, DeleteReplyKeeps,
       JoinReplyKeeps DEF Reply
  <2> QED
    BY <1>2, <2>1, CallKeeps, CallJoinKeeps, ServeKeeps, RefuseKeeps, FailKeeps
       DEF Resume
<1>3. CASE World
  BY <1>3, WorldKeeps
<1> QED
  BY <1>1, <1>2, <1>3 DEF Next

\* The invariant holds in every reachable state.
LEMMA Invariant == Spec => []IInv
BY InitInvariant, StepInvariant, PTL DEF Spec

\* Every variable of the session and of the services keeps its type, for any
\* number of calls under way.
THEOREM TypeCorrect == Spec => []TypeOK
<1>1. IInv => TypeOK
  BY DEF IInv
<1> QED
  BY <1>1, Invariant, PTL

\* join's promise: a peer this client put into the circle, or may still put
\* there, has its escrow record, unless that was deleted on purpose.
THEOREM PeerKeepsRecord == Spec => []NoUnrecoverablePeer
<1>1. IInv => NoUnrecoverablePeer
  BY DEF IInv, Ordered, NoUnrecoverablePeer
<1> QED
  BY <1>1, Invariant, PTL

-----------------------------------------------------------------------------
(* The refinement                                                          *)

\* a write that the services carry out is one of Membership's steps, or is
\* about nobody's identity of this client
LEMMA EffectImplements ==
  ASSUME NEW k, NEW p, Effect(k, p), sent' = sent,
         k = "join" => p \in Own \cap sent,
         k \in {"enroll", "delete_label"} => p \in Own \ sent
  PROVE  [Circle!Next]_(Circle!vars)
<1>1. CASE k = "enroll"
  <2>1. Circle!Enrol(p)
    BY <1>1, EffectCases DEF Circle!Enrol
  <2> QED
    BY <1>1, <2>1 DEF Circle!Next
<1>2. CASE k = "delete_label"
  <2>1. Circle!Withdraw(p)
    BY <1>2, EffectCases DEF Circle!Withdraw
  <2> QED
    BY <1>2, <2>1 DEF Circle!Next
<1>3. CASE k = "join"
  <2>1. Circle!Admit(p)
    BY <1>3, EffectCases DEF Circle!Admit
  <2> QED
    BY <1>3, <2>1 DEF Circle!Next
<1>4. CASE k = "delete_main" /\ p \in Own
  <2>1. Circle!Remove(p)
    BY <1>4, EffectCases DEF Circle!Remove
  <2> QED
    BY <1>4, <2>1 DEF Circle!Next
<1>5. CASE k = "delete_main" /\ p \notin Own
  BY <1>5, EffectCases DEF Circle!vars
<1>6. CASE k \notin {"enroll", "delete_label", "delete_main", "join"}
  BY <1>6, EffectCases DEF Circle!vars
<1> QED
  BY <1>1, <1>2, <1>3, <1>4, <1>5, <1>6

\* what a call asks for is what Membership allows
LEMMA ServeImplements ==
  ASSUME IInv, NEW t \in Tasks, Serve(t)
  PROVE  [Circle!Next]_(Circle!vars)
<1> DEFINE r == task[t]
           p == Subject(r)
<1>1. r \in Task /\ Legal(r) /\ Carries(r)
  BY Start
<1>2. r.pc \in {"enroll", "delete_label", "join"} =>
        p \in Own /\ (r.pc = "join" <=> p \in sent)
  BY <1>1, Whose DEF Subject, Carries, Task, IInv, Owned, At
<1>3. Effect(r.pc, p) /\ sent' = sent
  BY DEF Serve, history
<1> HIDE DEF r, p
<1> QED
  BY <1>2, <1>3, EffectImplements

\* the step that cannot be taken back is taken once, with the record there
LEMMA EnrollReplyImplements ==
  ASSUME IInv, NEW t \in Tasks, EnrollReply(t)
  PROVE  Circle!Next
<1> DEFINE p == task[t].id
<1>1. /\ task[t].pc = "enroll" /\ task[t].op = "join" /\ task[t].served
      /\ p \in Own
  BY Start, Whose DEF EnrollReply, Replied, At, Carries, Task
<1>2. p \in records \cup removed /\ p \notin sent
  BY <1>1 DEF IInv, Owned, At
<1>3. sent' = sent \cup {p} /\ UNCHANGED server
  BY DEF EnrollReply
<1>4. Circle!Commit(p)
  BY <1>1, <1>2, <1>3 DEF Circle!Commit, server
<1> QED
  BY <1>1, <1>4 DEF Circle!Next

\* the rest of the world does to this client's identities what Membership allows
LEMMA WorldImplements ==
  ASSUME IInv, World
  PROVE  [Circle!Next]_(Circle!vars)
<1>1. CASE ServeLate
  <2>1. PICK w \in late : Effect(w.kind, w.peer)
    BY <1>1 DEF ServeLate
  <2>2. sent \subseteq Own /\ used \subseteq Own
    BY DEF IInv, TypeOK
  <2> QED
    BY <1>1, <2>1, <2>2, EffectImplements DEF ServeLate, history, IInv, Harmless
<1>2. CASE Age
  BY <1>2 DEF Age, server, history, Circle!vars
<1>3. CASE OtherEnrols
  BY <1>3 DEF OtherEnrols, history, Circle!vars
<1>4. CASE OtherJoins
  BY <1>4 DEF OtherJoins, history, Circle!vars
<1>5. CASE Leave
  <2>1. PICK p \in circle : circle' = circle \ {p}
    BY <1>5 DEF Leave
  <2>2. records' = records /\ removed' = removed /\ sent' = sent
    BY <1>5 DEF Leave, history
  <2>3. CASE p \in Own
    <3>1. Circle!Leave(p)
      BY <2>1, <2>2 DEF Circle!Leave
    <3> QED
      BY <2>3, <3>1 DEF Circle!Next
  <2>4. CASE p \notin Own
    BY <2>1, <2>2, <2>4 DEF Circle!vars
  <2> QED
    BY <2>3, <2>4
<1>6. CASE OtherDeletes
  <2>1. PICK p \in records : records' = records \ {p} /\ removed' = removed \cup {p}
    BY <1>6 DEF OtherDeletes
  <2>2. circle' = circle /\ sent' = sent
    BY <1>6 DEF OtherDeletes, history
  <2>3. CASE p \in Own
    <3>1. Circle!Remove(p)
      BY <2>1, <2>2, <2>3 DEF Circle!Remove
    <3> QED
      BY <2>3, <3>1 DEF Circle!Next
  <2>4. CASE p \notin Own
    BY <2>1, <2>2, <2>4 DEF Circle!vars
  <2> QED
    BY <2>3, <2>4
<1> QED
  BY <1>1, <1>2, <1>3, <1>4, <1>5, <1>6 DEF World

\* a new session starts where Membership does
LEMMA InitImplements == Init => Circle!Init
BY DEF Init, Circle!Init

\* every step of the session is one of Membership's, or none
LEMMA StepImplements == IInv /\ [Next]_vars => [Circle!Next]_(Circle!vars)
<1> SUFFICES ASSUME IInv, [Next]_vars PROVE [Circle!Next]_(Circle!vars)
  OBVIOUS
<1>1. UNCHANGED <<records, circle, removed, sent>> => [Circle!Next]_(Circle!vars)
  BY DEF Circle!vars
<1>2. CASE UNCHANGED vars
  BY <1>1, <1>2 DEF vars, server, history
<1>3. ASSUME NEW t \in Tasks, Call(t) \/ CallJoin(t) \/ Resume(t) \/ Fail(t)
      PROVE  [Circle!Next]_(Circle!vars)
  <2>1. CASE Call(t) \/ CallJoin(t) \/ Refuse(t) \/ Fail(t)
    BY <1>1, <2>1 DEF Call, CallJoin, Refuse, Fail, server, history
  <2>2. CASE Serve(t)
    BY <2>2, ServeImplements
  <2>3. CASE Reply(t) /\ ~EnrollReply(t)
    BY <1>1, <2>3 DEF Reply, PetReply, ViableReply, ListReply, SrpReply, ChangesReply,
       SharesReply, HeadersReply, ClubReply, DeleteLabelReply, DeleteReply, JoinReply,
       server, history
  <2>4. CASE EnrollReply(t)
    BY <2>4, EnrollReplyImplements
  <2> QED
    BY <1>3, <2>1, <2>2, <2>3, <2>4 DEF Resume
<1>4. CASE World
  BY <1>4, WorldImplements
<1> QED
  BY <1>2, <1>3, <1>4 DEF Next

\* The session implements Membership: whatever calls overlap, fail or are
\* served late, each identity is enrolled, committed once and only then
\* admitted, and its record is not withdrawn after that.
THEOREM JoinImplementsMembership == Spec => ImplementsMembership
<1>1. Init => Circle!Init
  BY InitImplements
<1>2. IInv /\ [Next]_vars => [Circle!Next]_(Circle!vars)
  BY StepImplements
<1> QED
  BY <1>1, <1>2, Invariant, PTL DEF Spec, ImplementsMembership, Circle!Spec

-----------------------------------------------------------------------------
(* A session whose calls are awaited in turn                               *)

OneCaller == \A t, u \in Tasks : t = u

\* what the locals r of the one call under way say of the joins that returned:
\* an answer it has yet to read, and the directory a join holds on to, know them
Knows(r, j, m, c) ==
  /\ r.pc = "join" /\ r.served => r.id \in r.ans \cap c
  /\ r.pc = "changes" /\ r.served => j \subseteq r.ans
  /\ r.pc = "list" /\ r.served => j \subseteq r.ans \cup m
  /\ r.op = "join" /\ r.pc # "changes" => j \subseteq r.dir

\* SessionKnowsItsJoin made inductive
KnowsInv ==
  /\ IInv
  /\ joined \subseteq circle
  /\ options.known => joined \subseteq options.recoverable \cup options.residue \cup removed
  /\ directory.known => joined \subseteq directory.peers
  /\ \A t \in Tasks : Knows(task[t], joined, removed, circle)

\* what they say of the records a deletion may take: the listing it rests on
\* is the circle's, or is not trusted, and the identity of a join is too new
\* to be listed
Spares(r, c, b, o, n) ==
  /\ \/ r.pc \in {"delete_companion", "delete_main"}
     \/ r.pc = "pet" /\ r.next = "delete_companion" /\ r.permitted
     => r.flag \/ r.arg \notin c
  /\ r.pc = "viable" /\ r.served => r.ans \in {c, {}}
  /\ r.pc = "list" => b \in {c, {}} /\ (r.served => r.ans \cap Own \subseteq n)
  /\ r.op = "join" => r.id \notin o.residue

\* DeleteSparesViable made inductive
SparesInv ==
  /\ IInv
  /\ late = {}
  /\ records \cap Own \subseteq used
  /\ options.residue \cap Own \subseteq used
  /\ options.trusted => options.residue \cap circle = {}
  /\ \A t \in Tasks : Spares(task[t], circle, bottles, options, used)

\* sending a request changes neither the directory a call holds nor its rights
LEMMA SendRights ==
  ASSUME NEW r \in Task, NEW pc \in Request
  PROVE  /\ Send(r, pc).dir = r.dir /\ Send(r, pc).flag = r.flag
         /\ Send(r, pc).permitted = r.permitted
<1> DEFINE s == pc \notin Timed
<1> HIDE DEF s
<1>1. /\ [r EXCEPT !.pc = pc, !.served = s, !.ans = {}].dir = r.dir
      /\ [r EXCEPT !.pc = pc, !.served = s, !.ans = {}].flag = r.flag
      /\ [r EXCEPT !.pc = pc, !.served = s, !.ans = {}].permitted = r.permitted
  BY DEF Task
<1> QED
  BY <1>1 DEF Send, s

\* a request whose answer depends on when it is served is not served yet
LEMMA SendUnserved ==
  ASSUME NEW r \in Task, NEW pc \in Timed
  PROVE  Send(r, pc).served = FALSE
<1>1. pc \in Request
  BY DEF Timed, Request, Escrow
<1> QED
  BY <1>1, SendFields, Zenon

\* with the token renewed first, or not
LEMMA TokenFields ==
  ASSUME NEW r \in Task, NEW pc \in Renewing
  PROVE  \/ WithToken(r, pc) = Idle
         \/ /\ WithToken(r, pc) = Send(r, pc)
            /\ pc = "delete_companion" => r.permitted
         \/ /\ WithToken(r, pc).pc = "pet" /\ WithToken(r, pc).next = pc
            /\ WithToken(r, pc).op = r.op /\ WithToken(r, pc).arg = r.arg
            /\ WithToken(r, pc).id = r.id /\ WithToken(r, pc).dir = r.dir
            /\ WithToken(r, pc).flag = r.flag /\ WithToken(r, pc).permitted = r.permitted
<1> DEFINE p == Send(r, "pet")
           q == [p EXCEPT !.next = pc]
<1>1. pc \in Request /\ "pet" \in Request
  BY DEF Renewing, Request, Escrow
<1>2. /\ p \in Task /\ p.pc = "pet" /\ p.op = r.op /\ p.arg = r.arg /\ p.id = r.id
      /\ p.dir = r.dir /\ p.flag = r.flag /\ p.permitted = r.permitted
  BY <1>1, SendFields, SendRights
<1> HIDE DEF p
<1>3. /\ q.pc = "pet" /\ q.next = pc /\ q.op = r.op /\ q.arg = r.arg /\ q.id = r.id
      /\ q.dir = r.dir /\ q.flag = r.flag /\ q.permitted = r.permitted
  BY <1>1, <1>2 DEF Task
<1> HIDE DEF q
<1>4. WithToken(r, pc) \in {q, Idle, Send(r, pc)}
      /\ (WithToken(r, pc) = q \/ WithToken(r, pc) = Idle \/ pc # "delete_companion" \/ r.permitted)
  BY DEF WithToken, q, p
<1> QED
  BY <1>3, <1>4

-----------------------------------------------------------------------------
(* What the caches know of a join                                          *)

\* a call that has ended has nothing to read
LEMMA IdleKnows == \A j, m, c : Knows(Idle, j, m, c)
BY IdleLegal DEF Knows, Idle

\* neither has one that has just sent a request; a join keeps its directory
LEMMA SendKnows ==
  ASSUME NEW r \in Task, NEW pc \in Request, NEW j, NEW m, NEW c,
         r.op = "join" /\ pc # "changes" => j \subseteq r.dir
  PROVE  Knows(Send(r, pc), j, m, c)
<1>1. pc \in {"join", "changes", "list"} => Send(r, pc).served = FALSE
  BY SendUnserved DEF Timed
<1> QED
  BY <1>1, SendFields, SendRights DEF Knows

\* or renews its token
LEMMA TokenKnows ==
  ASSUME NEW r \in Task, NEW pc \in Renewing, NEW j, NEW m, NEW c,
         r.op = "join" => j \subseteq r.dir
  PROVE  Knows(WithToken(r, pc), j, m, c)
<1>1. pc \in Request
  BY DEF Renewing, Request, Escrow
<1>2. Knows(Send(r, pc), j, m, c)
  BY <1>1, SendKnows
<1> DEFINE q == WithToken(r, pc)
<1>3. q.pc = "pet" /\ q.op = r.op /\ q.dir = r.dir => Knows(q, j, m, c)
  <2> HIDE DEF q
  <2> QED
    BY DEF Knows
<1> QED
  BY <1>2, <1>3, TokenFields, IdleKnows

\* recovery_options is never a join's
LEMMA OptionsKnow ==
  ASSUME NEW r \in Task, r.op \in {"options", "recover", "delete"}, NEW j, NEW m, NEW c
  PROVE  /\ \A o : Knows(AfterOptions(r, o), j, m, c)
         /\ Knows(EnterOptions(r), j, m, c)
<1>1. ASSUME NEW o PROVE Knows(AfterOptions(r, o), j, m, c)
  <2>1. CASE r.op = "options"
    BY <2>1, IdleKnows DEF AfterOptions
  <2>2. CASE r.op = "recover"
    <3>1. Knows(WithToken(r, "srp"), j, m, c)
      BY <2>2, TokenKnows DEF Renewing
    <3> QED
      BY <2>2, <3>1, IdleKnows DEF AfterOptions
  <2>3. CASE r.op = "delete"
    <3> DEFINE b == Permitted(r, o)
               s == [r EXCEPT !.permitted = b]
    <3>1. b \in BOOLEAN
      BY Zenon DEF Permitted
    <3> HIDE DEF b
    <3>2. s \in Task /\ s.op = r.op
      BY <3>1 DEF Task
    <3> HIDE DEF s
    <3>3. Knows(WithToken(s, "delete_companion"), j, m, c)
      BY <2>3, <3>2, TokenKnows DEF Renewing
    <3> QED
      BY <2>3, <3>3 DEF AfterOptions, s, b
  <2> QED
    BY <2>1, <2>2, <2>3
<1>2. Knows(WithToken(r, "viable"), j, m, c)
  BY TokenKnows DEF Renewing
<1> QED
  BY <1>1, <1>2 DEF EnterOptions

\* a join goes on with the directory it was given
LEMMA DirectoryKnows ==
  ASSUME NEW r \in Task, r.op \in {"directory", "recover", "shares", "join"},
         NEW d \in SUBSET Peer, NEW j, NEW m, NEW c, r.op = "join" => j \subseteq d
  PROVE  Knows(AfterDirectory(r, d), j, m, c)
<1> DEFINE p == Send(r, "shares")
           q == [p EXCEPT !.dir = d]
<1>1. p \in Task /\ p.pc = "shares" /\ p.op = r.op
  BY SendFields DEF Request
<1>2. r.op # "join" => Knows(p, j, m, c)
  BY SendKnows DEF Request
<1> HIDE DEF p
<1>3. q.pc = "shares" /\ q.op = r.op /\ q.dir = d
  BY <1>1 DEF Task
<1> HIDE DEF q
<1>4. r.op = "join" => Knows(q, j, m, c)
  BY <1>3 DEF Knows
<1> QED
  BY <1>2, <1>4, IdleKnows DEF AfterDirectory, p, q

\* every other caller may read the cached one
LEMMA CachedDirectoryKnows ==
  ASSUME NEW r \in Task, r.op \in {"directory", "recover", "shares"},
         directory \in Directory, NEW j, NEW m, NEW c
  PROVE  Knows(EnterDirectory(r), j, m, c)
<1>1. Knows(AfterDirectory(r, directory.peers), j, m, c)
  BY DirectoryKnows DEF Directory
<1>2. Knows(Send(r, "changes"), j, m, c)
  BY SendKnows DEF Request
<1> QED
  BY <1>1, <1>2 DEF EnterDirectory

\* the one call moves on; the other state of the invariant is given
LEMMA KnowsStep ==
  ASSUME OneCaller, KnowsInv, IInv', NEW t \in Tasks, NEW q, Become(t, q),
         Knows(q, joined', removed', circle'), joined' \subseteq circle',
         options'.known =>
           joined' \subseteq options'.recoverable \cup options'.residue \cup removed',
         directory'.known => joined' \subseteq directory'.peers
  PROVE  KnowsInv'
<1>1. task'[t] = q
  BY DEF Become, KnowsInv, IInv, TypeOK
<1>2. \A u \in Tasks : Knows(task'[u], joined', removed', circle')
  BY <1>1 DEF OneCaller
<1> QED
  BY <1>2 DEF KnowsInv

\* the common case: it sends its next request, or ends
LEMMA KnowsQuiet ==
  ASSUME OneCaller, KnowsInv, IInv', NEW t \in Tasks, NEW q, Become(t, q),
         Knows(q, joined, removed, circle),
         UNCHANGED <<removed, circle, joined, options, directory>>
  PROVE  KnowsInv'
BY KnowsStep DEF KnowsInv

\* a call begins with nothing to read; a join reads the directory anew
LEMMA CallKnows ==
  ASSUME OneCaller, KnowsInv, IInv', NEW t \in Tasks, Call(t) \/ CallJoin(t)
  PROVE  KnowsInv'
<1>0. directory \in Directory /\ UNCHANGED <<removed, circle, joined, options, directory>>
  BY Start DEF KnowsInv, Call, CallJoin, server, caches, history
<1>1. CASE Call(t)
  <2>1. PICK o \in Calls \ {"join"}, p \in Peer, flag \in BOOLEAN :
          Become(t, CASE o = "options"   -> EnterOptions(Running(o, NoPeer, flag))
                      [] o = "directory" -> EnterDirectory(Running(o, NoPeer, flag))
                      [] o = "recover"   -> EnterOptions(Running(o, p, FALSE))
                      [] o = "shares"    -> EnterDirectory(Running(o, p, FALSE))
                      [] o = "delete"    -> EnterOptions(Running(o, p, flag)))
    BY <1>1 DEF Call
  <2>2. o \in {"options", "directory", "recover", "shares", "delete"}
    BY CallAssumption DEF Op
  <2>3. ASSUME NEW a \in Peer \cup {NoPeer}, NEW f \in BOOLEAN
        PROVE  /\ o \in {"options", "recover", "delete"} =>
                    Knows(EnterOptions(Running(o, a, f)), joined, removed, circle)
               /\ o \in {"directory", "shares"} =>
                    Knows(EnterDirectory(Running(o, a, f)), joined, removed, circle)
    <3>1. Running(o, a, f) \in Task /\ Running(o, a, f).op = o
      BY <2>2, RunningFields DEF Op
    <3> QED
      BY <1>0, <3>1, OptionsKnow, CachedDirectoryKnows
  <2>4. PICK q : Become(t, q) /\ Knows(q, joined, removed, circle)
    <3>1. CASE o = "options"
      BY <2>1, <2>3, <3>1
    <3>2. CASE o = "directory"
      BY <2>1, <2>3, <3>2
    <3>3. CASE o = "recover"
      BY <2>1, <2>3, <3>3
    <3>4. CASE o = "shares"
      BY <2>1, <2>3, <3>4
    <3>5. CASE o = "delete"
      BY <2>1, <2>3, <3>5
    <3> QED
      BY <2>2, <3>1, <3>2, <3>3, <3>4, <3>5
  <2> QED
    BY <1>0, <2>4, KnowsQuiet
<1>2. CASE CallJoin(t)
  <2>1. PICK sponsor \in Peer, id \in Own \ used :
          Become(t, Send([Running("join", sponsor, TRUE) EXCEPT !.id = id], "changes"))
    BY <1>2 DEF CallJoin
  <2> DEFINE r == Running("join", sponsor, TRUE)
             s == [r EXCEPT !.id = id]
  <2>2. r \in Task
    BY RunningFields DEF Op
  <2> HIDE DEF r
  <2>3. s \in Task
    BY <2>2 DEF Task
  <2> HIDE DEF s
  <2>4. Knows(Send(s, "changes"), joined, removed, circle)
    BY <2>3, SendKnows DEF Request
  <2> QED
    BY <1>0, <2>1, <2>4, KnowsQuiet DEF s, r
<1> QED
  BY <1>1, <1>2

\* the replies that fill no cache
LEMMA RepliesKnow ==
  ASSUME OneCaller, KnowsInv, IInv', NEW t \in Tasks,
         \/ PetReply(t) \/ ViableReply(t) \/ SrpReply(t) \/ SharesReply(t)
         \/ HeadersReply(t) \/ ClubReply(t) \/ EnrollReply(t) \/ DeleteLabelReply(t)
         \/ Refuse(t) \/ Fail(t)
  PROVE  KnowsInv'
<1>0. /\ task[t] \in Task /\ Legal(task[t]) /\ directory \in Directory
      /\ Knows(task[t], joined, removed, circle)
  BY Start DEF KnowsInv
<1>1. UNCHANGED <<removed, circle, joined, options, directory>>
  BY DEF PetReply, ViableReply, SrpReply, SharesReply, HeadersReply, ClubReply, EnrollReply,
         DeleteLabelReply, Refuse, Fail, server, caches, history
<1>2. SUFFICES \E q : Become(t, q) /\ Knows(q, joined, removed, circle)
  BY <1>1, KnowsQuiet
<1>3. ASSUME NEW pc \in Request, task[t].op # "join" \/ task[t].pc # "changes"
      PROVE  Knows(Send(task[t], pc), joined, removed, circle)
  BY <1>0, <1>3, SendKnows DEF Knows
<1>4. CASE PetReply(t)
  <2>1. task[t].next \in Request /\ task[t].pc = "pet"
    BY <1>0, <1>4 DEF PetReply, Replied, At, Task
  <2> QED
    BY <1>3, <1>4, <2>1, IdleKnows DEF PetReply
<1>5. CASE ViableReply(t)
  BY <1>3, <1>5 DEF ViableReply, Replied, At, Request, Escrow
<1>6. CASE SrpReply(t)
  <2>1. task[t].op = "recover"
    BY <1>0, <1>6, Whose DEF SrpReply, Replied, At
  <2> QED
    BY <1>0, <1>6, <2>1, IdleKnows, CachedDirectoryKnows DEF SrpReply
<1>7. CASE SharesReply(t)
  BY <1>3, <1>7, IdleKnows DEF SharesReply, Replied, At, Request
<1>8. CASE HeadersReply(t)
  <2>1. Knows(WithToken(task[t], "club"), joined, removed, circle)
    BY <1>0, <1>8, TokenKnows DEF HeadersReply, Replied, At, Knows, Renewing
  <2> QED
    BY <1>8, <2>1 DEF HeadersReply
<1>9. CASE ClubReply(t)
  BY <1>3, <1>9 DEF ClubReply, Replied, At, Request, Escrow
<1>10. CASE EnrollReply(t)
  BY <1>3, <1>10 DEF EnrollReply, Replied, At, Request
<1>11. CASE DeleteLabelReply(t)
  <2> DEFINE s == [task[t] EXCEPT !.again = TRUE]
  <2>1. s \in Task /\ s.op = task[t].op /\ s.dir = task[t].dir /\ task[t].pc = "delete_label"
    BY <1>0, <1>11 DEF Task, DeleteLabelReply, Replied, At
  <2>2. Become(t, Send(s, "club"))
    BY <1>11 DEF DeleteLabelReply
  <2> HIDE DEF s
  <2>3. Knows(Send(s, "club"), joined, removed, circle)
    BY <1>0, <2>1, SendKnows DEF Knows, Request, Escrow
  <2> QED
    BY <2>2, <2>3
<1>12. CASE Refuse(t)
  <2>1. task[t].pc # "changes"
    BY <1>12 DEF Refuse, Escrow
  <2> QED
    BY <1>3, <1>12, <2>1, IdleKnows DEF Refuse, Request, Escrow
<1>13. CASE Fail(t)
  BY <1>13, IdleKnows DEF Fail
<1> QED
  BY <1>4, <1>5, <1>6, <1>7, <1>8, <1>9, <1>10, <1>11, <1>12, <1>13

\* the replies that fill, or drop, a cache
LEMMA CachesKnow ==
  ASSUME OneCaller, KnowsInv, IInv', NEW t \in Tasks,
         ListReply(t) \/ ChangesReply(t) \/ DeleteReply(t) \/ JoinReply(t)
  PROVE  KnowsInv'
<1>0. /\ task[t] \in Task /\ Legal(task[t]) /\ task[t].ans \in SUBSET Peer
      /\ Knows(task[t], joined, removed, circle) /\ joined \subseteq circle
      /\ options.known => joined \subseteq options.recoverable \cup options.residue \cup removed
      /\ directory.known => joined \subseteq directory.peers
  BY Start DEF KnowsInv
<1>1. UNCHANGED <<removed, circle>>
  BY DEF ListReply, ChangesReply, DeleteReply, JoinReply, server
<1>2. CASE ListReply(t)
  <2>1. task[t].pc = "list" /\ task[t].served /\ task[t].op \in {"options", "recover", "delete"}
    BY <1>0, <1>2, Whose DEF ListReply, Replied, At
  <2>2. joined \subseteq task[t].ans \cup removed
    BY <1>0, <2>1 DEF Knows
  <2>3. options' = Joined(task[t].ans, bottles) /\ UNCHANGED <<joined, directory>>
    BY <1>2 DEF ListReply, history
  <2>4. options'.recoverable \cup options'.residue = task[t].ans
    BY <2>3 DEF Joined
  <2>5. Knows(AfterOptions(task[t], options'), joined, removed, circle)
    BY <1>0, <2>1, OptionsKnow
  <2>6. Become(t, AfterOptions(task[t], options'))
    BY <1>2 DEF ListReply
  <2> QED
    BY <1>0, <1>1, <2>2, <2>3, <2>4, <2>5, <2>6, KnowsStep
<1>3. CASE ChangesReply(t)
  <2>1. /\ task[t].pc = "changes" /\ task[t].served
        /\ task[t].op \in {"directory", "recover", "shares", "join"}
    BY <1>0, <1>3, Whose DEF ChangesReply, Replied, At
  <2>2. joined \subseteq task[t].ans
    BY <1>0, <2>1 DEF Knows
  <2>3. Knows(AfterDirectory(task[t], task[t].ans), joined, removed, circle)
    BY <1>0, <2>1, <2>2, DirectoryKnows
  <2>4. PICK q : Become(t, q) /\ Knows(q, joined, removed, circle)
    BY <1>3, <2>3, IdleKnows DEF ChangesReply
  <2>5. directory'.peers = task[t].ans /\ UNCHANGED <<joined, options>>
    BY <1>3 DEF ChangesReply, history
  <2> QED
    BY <1>0, <1>1, <2>2, <2>4, <2>5, KnowsStep
<1>4. CASE DeleteReply(t)
  <2>1. task[t].pc # "changes"
    BY <1>4 DEF DeleteReply, Replied, At
  <2>2. Knows(Send(task[t], "delete_main"), joined, removed, circle)
    BY <1>0, <2>1, SendKnows DEF Knows, Request, Escrow
  <2>3. PICK q : Become(t, q) /\ Knows(q, joined, removed, circle)
    BY <1>4, <2>2, IdleKnows DEF DeleteReply
  <2>4. options' = options \/ ~options'.known
    BY <1>4 DEF DeleteReply, NoListing
  <2>5. UNCHANGED <<joined, directory>>
    BY <1>4 DEF DeleteReply, history
  <2> QED
    BY <1>0, <1>1, <2>3, <2>4, <2>5, KnowsStep
<1>5. CASE JoinReply(t)
  <2>1. task[t].pc = "join" /\ task[t].served /\ task[t].op = "join"
    BY <1>0, <1>5, Whose DEF JoinReply, Replied, At
  <2>2. task[t].id \in task[t].ans \cap circle /\ joined \subseteq task[t].dir
    BY <1>0, <2>1 DEF Knows
  <2>3. /\ joined' = joined \cup {task[t].id} /\ Become(t, Idle)
        /\ directory'.peers = task[t].dir \cup task[t].ans /\ ~options'.known
    BY <1>5 DEF JoinReply, NoListing
  <2>4. joined' \subseteq directory'.peers
    BY <2>2, <2>3
  <2>5. joined' \subseteq circle'
    BY <1>0, <1>1, <2>2, <2>3
  <2> QED
    BY <2>3, <2>4, <2>5, IdleKnows, KnowsStep
<1> QED
  BY <1>2, <1>3, <1>4, <1>5

\* an answer is drawn from services that know every join that returned
LEMMA ServeKnows ==
  ASSUME OneCaller, KnowsInv, IInv', NEW t \in Tasks, Serve(t)
  PROVE  KnowsInv'
<1> DEFINE k == task[t].pc
           p == Subject(task[t])
<1>0. /\ task[t] \in Task /\ joined \subseteq circle /\ joined \in SUBSET Own
      /\ Knows(task[t], joined, removed, circle)
      /\ circle \cap Own \subseteq sent /\ sent \subseteq records \cup removed
      /\ UNCHANGED <<options, directory, joined>>
  BY Start DEF KnowsInv, Serve, caches, history
<1>1. PICK a \in Answers(task[t]) :
        Effect(k, p) /\ Become(t, [task[t] EXCEPT !.served = TRUE, !.ans = a])
  BY DEF Serve
<1> DEFINE q == [task[t] EXCEPT !.served = TRUE, !.ans = a]
<1>2. /\ q.pc = k /\ q.op = task[t].op /\ q.id = task[t].id /\ q.dir = task[t].dir
      /\ q.ans = a
  BY <1>0 DEF Task
<1>3. /\ circle' = IF k = "join" THEN circle \cup {p} ELSE circle
      /\ removed \subseteq removed'
  BY <1>1 DEF Effect
<1>4. Become(t, q)
  BY <1>1
<1>5. /\ k = "join" => a = circle' /\ p = task[t].id
      /\ k = "changes" => a = circle'
      /\ k = "list" => a = records
  BY <1>1 DEF Answers, Subject
<1> HIDE DEF q, k, p
<1>6. joined \subseteq records \cup removed'
  BY <1>0, <1>3
<1>7. Knows(q, joined, removed', circle')
  <2>1. q.pc = "join" => q.id \in q.ans \cap circle'
    BY <1>2, <1>3, <1>5
  <2>2. q.pc = "changes" => joined \subseteq q.ans
    BY <1>0, <1>2, <1>3, <1>5
  <2>3. q.pc = "list" => joined \subseteq q.ans \cup removed'
    BY <1>2, <1>5, <1>6
  <2>4. q.op = "join" /\ q.pc # "changes" => joined \subseteq q.dir
    BY <1>0, <1>2 DEF Knows, k
  <2> QED
    BY <2>1, <2>2, <2>3, <2>4 DEF Knows
<1>8. joined \subseteq circle'
  BY <1>0, <1>3
<1>9. /\ options'.known =>
           joined' \subseteq options'.recoverable \cup options'.residue \cup removed'
      /\ directory'.known => joined' \subseteq directory'.peers
  BY <1>0, <1>3 DEF KnowsInv
<1> QED
  BY <1>0, <1>4, <1>7, <1>8, <1>9, KnowsStep

\* a request served late only adds to the circle, or removes on purpose
LEMMA WorldKnows ==
  ASSUME ~Busy, KnowsInv, IInv', World
  PROVE  KnowsInv'
<1>1. CASE ServeLate
  <2>1. circle \subseteq circle' /\ removed \subseteq removed'
    BY <1>1 DEF ServeLate, Effect
  <2>2. UNCHANGED <<options, directory, task, joined>>
    BY <1>1 DEF ServeLate, caches, history
  <2>3. \A t \in Tasks : Knows(task[t], joined, removed', circle')
    BY <2>1 DEF KnowsInv, Knows
  <2> QED
    BY <2>1, <2>2, <2>3 DEF KnowsInv
<1>2. CASE Age
  BY <1>2 DEF Age, KnowsInv, server, caches, history
<1> QED
  BY <1>1, <1>2 DEF World, OtherEnrols, OtherJoins, Leave, OtherDeletes

\* the caches and the answers know every join in every reachable state
LEMMA KnowsInvariant == ASSUME OneCaller, ~Busy PROVE Spec => []KnowsInv
<1>1. Init => KnowsInv
  <2> SUFFICES ASSUME Init PROVE KnowsInv
    OBVIOUS
  <2> QED
    BY InitInvariant, IdleKnows DEF Init, KnowsInv, NoListing
<1>2. KnowsInv /\ [Next]_vars => KnowsInv'
  <2> SUFFICES ASSUME KnowsInv, [Next]_vars PROVE KnowsInv'
    OBVIOUS
  <2>1. IInv'
    BY StepInvariant DEF KnowsInv
  <2>2. CASE UNCHANGED vars
    BY <2>1, <2>2 DEF vars, server, caches, history, KnowsInv
  <2>3. ASSUME NEW t \in Tasks, Call(t) \/ CallJoin(t) \/ Resume(t) \/ Fail(t)
        PROVE  KnowsInv'
    BY <2>1, <2>3, CallKnows, RepliesKnow, CachesKnow, ServeKnows DEF Resume, Reply
  <2> QED
    BY <2>1, <2>2, <2>3, WorldKnows DEF Next
<1> QED
  BY <1>1, <1>2, PTL DEF Spec

\* On an account nobody else changes, for a session whose calls are awaited in
\* turn: once a join has returned, neither cache denies it, whatever failed
\* before, was served late, or was recovered, listed or deleted since.
THEOREM JoinIsKnown == ASSUME OneCaller, ~Busy PROVE Spec => []SessionKnowsItsJoin
<1>1. KnowsInv => SessionKnowsItsJoin
  BY DEF KnowsInv, SessionKnowsItsJoin
<1> QED
  BY <1>1, KnowsInvariant, PTL

-----------------------------------------------------------------------------
(* What a deletion may take                                                *)

\* a call that has ended deletes nothing
LEMMA IdleSpares == \A c, b, o, n : Spares(Idle, c, b, o, n)
BY IdleLegal DEF Spares, Idle

\* sending any other request than the deletion's is harmless
LEMMA SendSpares ==
  ASSUME NEW r \in Task, NEW pc \in Request \ {"pet"}, NEW c, NEW b, NEW o, NEW n,
         pc \in {"delete_companion", "delete_main"} => r.flag \/ r.arg \notin c,
         pc = "list" => b \in {c, {}},
         r.op = "join" => r.id \notin o.residue
  PROVE  Spares(Send(r, pc), c, b, o, n)
<1>1. pc \in {"viable", "list"} => Send(r, pc).served = FALSE
  BY SendUnserved DEF Timed
<1> DEFINE q == Send(r, pc)
<1>2. q.pc = pc /\ q.op = r.op /\ q.id = r.id /\ q.arg = r.arg /\ q.flag = r.flag
  BY SendFields, SendRights
<1>3. pc \in {"viable", "list"} => q.served = FALSE
  BY <1>1
<1> HIDE DEF q
<1>4. Spares(q, c, b, o, n)
  BY <1>2, <1>3 DEF Spares
<1> QED
  BY <1>4 DEF q

\* so is renewing the token for it
LEMMA TokenSpares ==
  ASSUME NEW r \in Task, NEW pc \in Renewing, NEW c, NEW b, NEW o, NEW n,
         pc = "delete_companion" /\ r.permitted => r.flag \/ r.arg \notin c,
         r.op = "join" => r.id \notin o.residue
  PROVE  Spares(WithToken(r, pc), c, b, o, n)
<1>1. pc \in Request \ {"pet"} /\ pc # "list" /\ pc # "delete_main"
  BY DEF Renewing, Request, Escrow
<1>2. CASE pc = "delete_companion" => r.permitted
  <2>1. Spares(Send(r, pc), c, b, o, n)
    BY <1>1, <1>2, SendSpares
  <2> DEFINE q == WithToken(r, pc)
  <2>2. /\ q.pc = "pet" /\ q.next = pc /\ q.op = r.op /\ q.arg = r.arg /\ q.id = r.id
        /\ q.flag = r.flag /\ q.permitted = r.permitted
        => Spares(q, c, b, o, n)
    <3> HIDE DEF q
    <3> QED
      BY DEF Spares
  <2> QED
    BY <2>1, <2>2, TokenFields, IdleSpares
<1>3. CASE pc = "delete_companion" /\ ~r.permitted
  <2> DEFINE q == WithToken(r, pc)
  <2>1. /\ q.pc = "pet" /\ q.next = pc /\ q.op = r.op /\ q.arg = r.arg /\ q.id = r.id
        /\ q.flag = r.flag /\ q.permitted = r.permitted
        => Spares(q, c, b, o, n)
    <3> HIDE DEF q
    <3> QED
      BY <1>3 DEF Spares
  <2> QED
    BY <1>3, <2>1, TokenFields, IdleSpares
<1> QED
  BY <1>2, <1>3

\* the rules of delete_record, on a listing that is the circle's or not trusted
LEMMA OptionsSpare ==
  ASSUME NEW r \in Task, r.op \in {"options", "recover", "delete"},
         NEW o, o.trusted => o.residue \cap circle = {}, NEW b, NEW p, NEW n
  PROVE  Spares(AfterOptions(r, o), circle, b, p, n)
<1>1. CASE r.op = "options"
  BY <1>1, IdleSpares DEF AfterOptions
<1>2. CASE r.op = "recover"
  <2>1. Spares(WithToken(r, "srp"), circle, b, p, n)
    BY <1>2, TokenSpares DEF Renewing
  <2> QED
    BY <1>2, <2>1, IdleSpares DEF AfterOptions
<1>3. CASE r.op = "delete"
  <2> DEFINE d == Permitted(r, o)
             s == [r EXCEPT !.permitted = d]
  <2>1. d \in BOOLEAN
    BY Zenon DEF Permitted
  <2>2. d => r.flag \/ r.arg \notin circle
    BY DEF Permitted
  <2> HIDE DEF d
  <2>3. s \in Task /\ s.op = r.op /\ s.flag = r.flag /\ s.arg = r.arg /\ s.permitted = d
    BY <2>1 DEF Task
  <2> HIDE DEF s
  <2>4. Spares(WithToken(s, "delete_companion"), circle, b, p, n)
    BY <1>3, <2>2, <2>3, TokenSpares DEF Renewing
  <2> QED
    BY <1>3, <2>4 DEF AfterOptions, s, d
<1> QED
  BY <1>1, <1>2, <1>3

\* the directory's callers do not delete
LEMMA DirectorySpares ==
  ASSUME NEW r \in Task, r.op \in {"directory", "recover", "shares", "join"},
         NEW d \in SUBSET Peer, NEW c, NEW b, NEW o, NEW n,
         r.op = "join" => r.id \notin o.residue
  PROVE  Spares(AfterDirectory(r, d), c, b, o, n)
<1> DEFINE p == Send(r, "shares")
           q == [p EXCEPT !.dir = d]
<1>1. p \in Task /\ p.pc = "shares" /\ p.op = r.op /\ p.id = r.id
  BY SendFields DEF Request
<1>2. Spares(p, c, b, o, n)
  BY SendSpares DEF Request
<1> HIDE DEF p
<1>3. q.pc = "shares" /\ q.op = r.op /\ q.id = r.id
  BY <1>1 DEF Task
<1> HIDE DEF q
<1>4. Spares(q, c, b, o, n)
  BY <1>3 DEF Spares
<1> QED
  BY <1>2, <1>4, IdleSpares DEF AfterDirectory, p, q

\* nor do they when it is cached
LEMMA CachedDirectorySpares ==
  ASSUME NEW r \in Task, r.op \in {"directory", "recover", "shares"},
         directory \in Directory, NEW c, NEW b, NEW o, NEW n
  PROVE  Spares(EnterDirectory(r), c, b, o, n)
<1>1. Spares(AfterDirectory(r, directory.peers), c, b, o, n)
  BY DirectorySpares DEF Directory
<1>2. Spares(Send(r, "changes"), c, b, o, n)
  BY SendSpares DEF Request
<1> QED
  BY <1>1, <1>2 DEF EnterDirectory

\* the one call moves on; the other state of the invariant is given
LEMMA SparesStep ==
  ASSUME OneCaller, SparesInv, IInv', NEW t \in Tasks, NEW q, Become(t, q),
         Spares(q, circle', bottles', options', used'), late' = {},
         records' \cap Own \subseteq used', options'.residue \cap Own \subseteq used',
         options'.trusted => options'.residue \cap circle' = {}
  PROVE  SparesInv'
<1>1. task'[t] = q
  BY DEF Become, SparesInv, IInv, TypeOK
<1>2. \A u \in Tasks : Spares(task'[u], circle', bottles', options', used')
  BY <1>1 DEF OneCaller
<1> QED
  BY <1>2 DEF SparesInv

\* the common case: it sends its next request, or ends
LEMMA SparesQuiet ==
  ASSUME OneCaller, SparesInv, IInv', NEW t \in Tasks, NEW q, Become(t, q),
         Spares(q, circle, bottles, options, used),
         UNCHANGED <<records, circle, used, options, bottles, late>>
  PROVE  SparesInv'
BY SparesStep DEF SparesInv

\* a call begins: a deletion may rest on the cached listing, and the identity
\* a join creates is in no listing
LEMMA CallSpares ==
  ASSUME OneCaller, SparesInv, IInv', NEW t \in Tasks, Call(t) \/ CallJoin(t)
  PROVE  SparesInv'
<1>0. /\ directory \in Directory /\ UNCHANGED <<records, circle, options, bottles, late>>
      /\ options.trusted => options.residue \cap circle = {}
      /\ options.residue \cap Own \subseteq used
  BY Start DEF SparesInv, Call, CallJoin, server, caches
<1>1. CASE Call(t)
  <2>0. used' = used
    BY <1>1 DEF Call, history
  <2>1. PICK o \in Calls \ {"join"}, p \in Peer, flag \in BOOLEAN :
          Become(t, CASE o = "options"   -> EnterOptions(Running(o, NoPeer, flag))
                      [] o = "directory" -> EnterDirectory(Running(o, NoPeer, flag))
                      [] o = "recover"   -> EnterOptions(Running(o, p, FALSE))
                      [] o = "shares"    -> EnterDirectory(Running(o, p, FALSE))
                      [] o = "delete"    -> EnterOptions(Running(o, p, flag)))
    BY <1>1 DEF Call
  <2>2. o \in {"options", "directory", "recover", "shares", "delete"}
    BY CallAssumption DEF Op
  <2>3. ASSUME NEW a \in Peer \cup {NoPeer}, NEW f \in BOOLEAN
        PROVE  /\ o \in {"options", "recover", "delete"} =>
                    Spares(EnterOptions(Running(o, a, f)), circle, bottles, options, used)
               /\ o \in {"directory", "shares"} =>
                    Spares(EnterDirectory(Running(o, a, f)), circle, bottles, options, used)
    <3> DEFINE r == Running(o, a, f)
    <3>1. r \in Task /\ r.op = o
      BY <2>2, RunningFields DEF Op
    <3> HIDE DEF r
    <3>2. o \in {"options", "recover", "delete"} =>
            Spares(WithToken(r, "viable"), circle, bottles, options, used)
      BY <3>1, TokenSpares DEF Renewing
    <3> QED
      BY <1>0, <3>1, <3>2, OptionsSpare, CachedDirectorySpares DEF EnterOptions, r
  <2>4. PICK q : Become(t, q) /\ Spares(q, circle, bottles, options, used)
    <3>1. CASE o = "options"
      BY <2>1, <2>3, <3>1
    <3>2. CASE o = "directory"
      BY <2>1, <2>3, <3>2
    <3>3. CASE o = "recover"
      BY <2>1, <2>3, <3>3
    <3>4. CASE o = "shares"
      BY <2>1, <2>3, <3>4
    <3>5. CASE o = "delete"
      BY <2>1, <2>3, <3>5
    <3> QED
      BY <2>2, <3>1, <3>2, <3>3, <3>4, <3>5
  <2> QED
    BY <1>0, <2>0, <2>4, SparesQuiet
<1>2. CASE CallJoin(t)
  <2>1. PICK sponsor \in Peer, id \in Own \ used :
          /\ used' = used \cup {id}
          /\ Become(t, Send([Running("join", sponsor, TRUE) EXCEPT !.id = id], "changes"))
    BY <1>2 DEF CallJoin
  <2> DEFINE r == Running("join", sponsor, TRUE)
             s == [r EXCEPT !.id = id]
  <2>2. r \in Task
    BY RunningFields DEF Op
  <2> HIDE DEF r
  <2>3. s \in Task /\ s.id = id
    BY <2>2 DEF Task
  <2> HIDE DEF s
  <2>4. Spares(Send(s, "changes"), circle, bottles, options, used')
    BY <1>0, <2>3, SendSpares DEF Request
  <2> QED
    BY <1>0, <2>1, <2>4, SparesStep DEF s, r, SparesInv
<1> QED
  BY <1>1, <1>2

\* the replies that fill no cache
LEMMA RepliesSpare ==
  ASSUME OneCaller, ~Late, SparesInv, IInv', NEW t \in Tasks,
         \/ PetReply(t) \/ SrpReply(t) \/ ChangesReply(t) \/ SharesReply(t)
         \/ HeadersReply(t) \/ ClubReply(t) \/ EnrollReply(t) \/ DeleteLabelReply(t)
         \/ Refuse(t) \/ Fail(t)
  PROVE  SparesInv'
<1>0. /\ task[t] \in Task /\ Legal(task[t]) /\ directory \in Directory
      /\ task[t].ans \in SUBSET Peer
      /\ Spares(task[t], circle, bottles, options, used)
  BY Start DEF SparesInv
<1>0a. /\ task[t].op = "join" => task[t].id \notin options.residue
       /\ \/ task[t].pc \in {"delete_companion", "delete_main"}
          \/ task[t].pc = "pet" /\ task[t].next = "delete_companion" /\ task[t].permitted
          => task[t].flag \/ task[t].arg \notin circle
  BY <1>0 DEF Spares
<1>1. UNCHANGED <<records, circle, used, options, bottles, late>>
  <2>1. UNCHANGED <<records, circle, used, options, bottles>>
    BY DEF PetReply, SrpReply, ChangesReply, SharesReply, HeadersReply, ClubReply,
           EnrollReply, DeleteLabelReply, Refuse, Fail, server, caches, history
  <2>2. Fail(t) => late' = late
    BY DEF Fail
  <2>3. ~Fail(t) => late' = late
    BY DEF PetReply, SrpReply, ChangesReply, SharesReply, HeadersReply, ClubReply,
           EnrollReply, DeleteLabelReply, Refuse
  <2> QED
    BY <2>1, <2>2, <2>3
<1>2. SUFFICES \E q : Become(t, q) /\ Spares(q, circle, bottles, options, used)
  BY <1>1, SparesQuiet
<1>3. ASSUME NEW pc \in Request \ {"pet", "list", "delete_companion", "delete_main"}
      PROVE  Spares(Send(task[t], pc), circle, bottles, options, used)
  BY <1>0, <1>0a, <1>3, SendSpares
<1>4. CASE PetReply(t)
  <2>1. task[t].pc = "pet" /\ task[t].next \in Renewing
    BY <1>0, <1>4 DEF PetReply, Replied, At, Legal
  <2>2. CASE task[t].next = "delete_companion" /\ task[t].permitted
    <3>1. Spares(Send(task[t], "delete_companion"), circle, bottles, options, used)
      BY <1>0, <1>0a, <2>1, <2>2, SendSpares DEF Request, Escrow
    <3> QED
      BY <1>4, <2>2, <3>1 DEF PetReply
  <2>3. CASE task[t].next # "delete_companion"
    BY <1>3, <1>4, <2>1, <2>3 DEF PetReply, Renewing, Request, Escrow
  <2>4. CASE task[t].next = "delete_companion" /\ ~task[t].permitted
    BY <1>4, <2>4, IdleSpares DEF PetReply
  <2> QED
    BY <2>2, <2>3, <2>4
<1>5. CASE SrpReply(t)
  <2>1. task[t].op = "recover"
    BY <1>0, <1>5, Whose DEF SrpReply, Replied, At
  <2> QED
    BY <1>0, <1>5, <2>1, IdleSpares, CachedDirectorySpares DEF SrpReply
<1>6. CASE ChangesReply(t)
  <2>1. task[t].op \in {"directory", "recover", "shares", "join"}
    BY <1>0, <1>6, Whose DEF ChangesReply, Replied, At
  <2>2. Spares(AfterDirectory(task[t], task[t].ans), circle, bottles, options, used)
    BY <1>0, <1>0a, <2>1, DirectorySpares
  <2> QED
    BY <1>6, <2>2, IdleSpares DEF ChangesReply
<1>7. CASE SharesReply(t)
  BY <1>3, <1>7, IdleSpares DEF SharesReply, Request
<1>8. CASE HeadersReply(t)
  <2>1. Spares(WithToken(task[t], "club"), circle, bottles, options, used)
    BY <1>0, <1>0a, TokenSpares DEF Renewing
  <2> QED
    BY <1>8, <2>1 DEF HeadersReply
<1>9. CASE ClubReply(t)
  BY <1>3, <1>9 DEF ClubReply, Request, Escrow
<1>10. CASE EnrollReply(t)
  BY <1>3, <1>10 DEF EnrollReply, Request
<1>11. CASE DeleteLabelReply(t)
  <2> DEFINE s == [task[t] EXCEPT !.again = TRUE]
  <2>1. s \in Task /\ s.op = task[t].op /\ s.id = task[t].id
    BY <1>0 DEF Task
  <2>2. Become(t, Send(s, "club"))
    BY <1>11 DEF DeleteLabelReply
  <2> HIDE DEF s
  <2>3. Spares(Send(s, "club"), circle, bottles, options, used)
    BY <1>0, <1>0a, <2>1, SendSpares DEF Request, Escrow
  <2> QED
    BY <2>2, <2>3
<1>12. CASE Refuse(t)
  <2>1. At(t, "delete_companion") =>
          Spares(Send(task[t], "delete_main"), circle, bottles, options, used)
    BY <1>0, <1>0a, SendSpares DEF At, Request, Escrow
  <2>2. Spares(Send(task[t], "delete_label"), circle, bottles, options, used)
    BY <1>3 DEF Request, Escrow
  <2> QED
    BY <1>12, <2>1, <2>2, IdleSpares DEF Refuse
<1>13. CASE Fail(t)
  BY <1>13, IdleSpares DEF Fail
<1> QED
  BY <1>4, <1>5, <1>6, <1>7, <1>8, <1>9, <1>10, <1>11, <1>12, <1>13

\* the replies that fill, or drop, the listing
LEMMA CachesSpare ==
  ASSUME OneCaller, SparesInv, IInv', NEW t \in Tasks,
         ViableReply(t) \/ ListReply(t) \/ DeleteReply(t) \/ JoinReply(t)
  PROVE  SparesInv'
<1>0. /\ task[t] \in Task /\ Legal(task[t])
      /\ Spares(task[t], circle, bottles, options, used)
      /\ late = {} /\ records \cap Own \subseteq used
      /\ options.residue \cap Own \subseteq used
      /\ options.trusted => options.residue \cap circle = {}
  BY Start DEF SparesInv
<1>1. UNCHANGED <<records, circle, used, late>>
  BY DEF ViableReply, ListReply, DeleteReply, JoinReply, server, history
<1>2. CASE ViableReply(t)
  <2>1. task[t].pc = "viable" /\ task[t].served /\ task[t].op \in {"options", "recover", "delete"}
    BY <1>0, <1>2, Whose DEF ViableReply, Replied, At
  <2>2. bottles' = task[t].ans /\ options' = options /\ Become(t, Send(task[t], "list"))
    BY <1>2 DEF ViableReply
  <2>3. bottles' \in {circle, {}}
    BY <1>0, <2>1, <2>2 DEF Spares
  <2>4. Spares(Send(task[t], "list"), circle, bottles', options, used)
    BY <1>0, <2>1, <2>3, SendSpares DEF Request, Escrow
  <2> QED
    BY <1>0, <1>1, <2>2, <2>4, SparesStep
<1>3. CASE ListReply(t)
  <2>1. task[t].pc = "list" /\ task[t].served /\ task[t].op \in {"options", "recover", "delete"}
    BY <1>0, <1>3, Whose DEF ListReply, Replied, At
  <2>2. bottles \in {circle, {}} /\ task[t].ans \cap Own \subseteq used
    BY <1>0, <2>1 DEF Spares
  <2>3. /\ options' = Joined(task[t].ans, bottles) /\ bottles' = bottles
        /\ Become(t, AfterOptions(task[t], options'))
    BY <1>3 DEF ListReply
  <2>4. /\ options'.residue = task[t].ans \ bottles
        /\ options'.trusted = (bottles # {})
    BY <2>3 DEF Joined
  <2>5. options'.residue \cap Own \subseteq used
    BY <2>2, <2>4
  <2>6. options'.trusted => options'.residue \cap circle = {}
    BY <2>2, <2>4
  <2>7. Spares(AfterOptions(task[t], options'), circle, bottles, options', used)
    BY <1>0, <2>1, <2>6, OptionsSpare
  <2> QED
    BY <1>0, <1>1, <2>3, <2>5, <2>6, <2>7, SparesStep
<1>4. CASE DeleteReply(t)
  <2>1. At(t, "delete_companion") =>
          Spares(Send(task[t], "delete_main"), circle, bottles, options, used)
    BY <1>0, <1>4, Whose, SendSpares DEF Spares, At, Request, Escrow
  <2>2. bottles' = bottles
    BY <1>4 DEF DeleteReply
  <2>3. CASE At(t, "delete_companion") /\ Become(t, Send(task[t], "delete_main"))
             /\ options' = options
    BY <1>0, <1>1, <2>1, <2>2, <2>3, SparesStep
  <2>4. CASE Become(t, Idle) /\ options' = NoListing
    <3>1. options'.residue = {} /\ options'.trusted = FALSE
      BY <2>4 DEF NoListing
    <3> QED
      BY <1>0, <1>1, <2>2, <2>4, <3>1, IdleSpares, SparesStep
  <2> QED
    BY <1>4, <2>3, <2>4 DEF DeleteReply, Replied
<1>5. CASE JoinReply(t)
  <2>1. options'.residue = {} /\ options'.trusted = FALSE /\ Become(t, Idle)
    BY <1>5 DEF JoinReply, NoListing
  <2> QED
    BY <1>0, <1>1, <2>1, IdleSpares, SparesStep
<1> QED
  BY <1>2, <1>3, <1>4, <1>5

\* only the join of the one call changes the circle, by an identity that no
\* listing holds
LEMMA ServeSpares ==
  ASSUME OneCaller, SparesInv, IInv', NEW t \in Tasks, Serve(t)
  PROVE  SparesInv'
<1> DEFINE k == task[t].pc
           p == Subject(task[t])
<1>0. /\ task[t] \in Task /\ Legal(task[t])
      /\ Spares(task[t], circle, bottles, options, used)
      /\ late = {} /\ records \cap Own \subseteq used
      /\ options.residue \cap Own \subseteq used
      /\ options.trusted => options.residue \cap circle = {}
      /\ UNCHANGED <<options, bottles, used, late>>
  BY Start DEF SparesInv, Serve, caches, history
<1>1. PICK a \in Answers(task[t]) :
        Effect(k, p) /\ Become(t, [task[t] EXCEPT !.served = TRUE, !.ans = a])
  BY DEF Serve
<1> DEFINE q == [task[t] EXCEPT !.served = TRUE, !.ans = a]
<1>2. /\ q.pc = k /\ q.op = task[t].op /\ q.id = task[t].id /\ q.arg = task[t].arg
      /\ q.flag = task[t].flag /\ q.permitted = task[t].permitted
      /\ q.next = task[t].next /\ q.ans = a
  BY <1>0 DEF Task
<1>3. Become(t, q)
  BY <1>1
<1>4. /\ circle' = IF k = "join" THEN circle \cup {p} ELSE circle
      /\ records' \subseteq records \cup {p} /\ (k # "enroll" => records' \subseteq records)
  BY <1>1 DEF Effect
<1>5. /\ k = "viable" => a \in {circle, {}}
      /\ k = "list" => a = records
  BY <1>1 DEF Answers
<1>6. k \in {"enroll", "join"} => task[t].op = "join" /\ p = task[t].id /\ p \in used
  <2>1. k \in {"enroll", "join"} => task[t].op = "join" /\ p = task[t].id
    BY <1>0, Whose DEF Subject
  <2> QED
    BY <2>1 DEF SparesInv, IInv, Owned
<1>7. k = "join" => p \notin options.residue
  BY <1>0, <1>6 DEF Spares
<1> HIDE DEF q, p
<1>8. Spares(q, circle', bottles, options, used)
  <2>1. \/ k \in {"delete_companion", "delete_main"}
        \/ k = "pet" /\ q.next = "delete_companion" /\ q.permitted
        => q.flag \/ q.arg \notin circle'
    BY <1>0, <1>2, <1>4 DEF Spares
  <2>2. k = "viable" => q.ans \in {circle', {}}
    BY <1>2, <1>4, <1>5
  <2>3. k = "list" => bottles \in {circle', {}} /\ q.ans \cap Own \subseteq used
    BY <1>0, <1>2, <1>4, <1>5 DEF Spares
  <2>4. q.op = "join" => q.id \notin options.residue
    BY <1>0, <1>2 DEF Spares
  <2> HIDE DEF k
  <2> QED
    BY <1>2, <2>1, <2>2, <2>3, <2>4 DEF Spares
<1>9. records' \cap Own \subseteq used
  BY <1>0, <1>4, <1>6
<1>10. options.trusted => options.residue \cap circle' = {}
  BY <1>0, <1>4, <1>7
<1> QED
  BY <1>0, <1>3, <1>8, <1>9, <1>10, SparesStep

\* no listing is ahead of the circle in any reachable state
LEMMA SparesInvariant == ASSUME OneCaller, ~Busy, ~Late PROVE Spec => []SparesInv
<1>1. Init => SparesInv
  <2> SUFFICES ASSUME Init PROVE SparesInv
    OBVIOUS
  <2>1. records \cap Own \subseteq used
    BY DEF Init
  <2> QED
    BY <2>1, InitInvariant, IdleSpares DEF Init, SparesInv, NoListing
<1>2. SparesInv /\ [Next]_vars => SparesInv'
  <2> SUFFICES ASSUME SparesInv, [Next]_vars PROVE SparesInv'
    OBVIOUS
  <2>1. IInv'
    BY StepInvariant DEF SparesInv
  <2>2. CASE UNCHANGED vars
    BY <2>1, <2>2 DEF vars, server, caches, history, SparesInv
  <2>3. ASSUME NEW t \in Tasks, Call(t) \/ CallJoin(t) \/ Resume(t) \/ Fail(t)
        PROVE  SparesInv'
    BY <2>1, <2>3, CallSpares, RepliesSpare, CachesSpare, ServeSpares DEF Resume, Reply
  <2>4. CASE World
    <3>1. Age
      BY <2>4 DEF World, ServeLate, OtherEnrols, OtherJoins, Leave, OtherDeletes, SparesInv
    <3> QED
      BY <2>1, <3>1 DEF Age, SparesInv, server, caches, history
  <2> QED
    BY <2>1, <2>2, <2>3, <2>4 DEF Next
<1> QED
  BY <1>1, <1>2, PTL DEF Spec

\* On such an account, and when nothing given up on is served late: without
\* allow_viable no peer of the circle is deprived of its record, although the
\* listing a deletion rests on may be old or the viability service out.
THEOREM ViableIsSpared ==
  ASSUME OneCaller, ~Busy, ~Late PROVE Spec => []DeleteSparesViable
<1>1. SparesInv => DeleteSparesViable
  BY DEF SparesInv, Spares, DeleteSparesViable
<1> QED
  BY <1>1, SparesInvariant, PTL
=============================================================================
