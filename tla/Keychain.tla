----------------------------- MODULE Keychain -----------------------------
(***************************************************************************)
(* AsyncKeychainSession (findmy/keychain/session.py): its three caches and *)
(* the calls that fill, read and drop them, over the escrow proxy, which   *)
(* keeps the records (companion labels are left out), and Cuttlefish,      *)
(* which keeps the trust circle.                                           *)
(*                                                                         *)
(* A call is split at its awaits.  Each request is served at some moment   *)
(* between being sent and being answered (Serve); its reply runs the code  *)
(* up to the next await (Reply); it may be refused (Refuse) or lost or     *)
(* cancelled (Fail), served or not.  A record is named by the peer its     *)
(* label embeds.  That an identity is chosen when join is called, and not  *)
(* some awaits later when it is generated, only bounds the identities.     *)
(***************************************************************************)
EXTENDS Integers, FiniteSets

CONSTANTS
  Tasks,    \* calls that may be in flight on the session
  Own,      \* identities this client may generate (bounds the joins)
  Others,   \* the peers of other devices
  NoPeer,
  Busy,     \* whether other devices change the account meanwhile
  Calls,    \* which of the calls are made
  Late      \* whether a request may be served after its caller gave up

Peer == Own \cup Others

ASSUME PeerAssumption == Own \cap Others = {} /\ NoPeer \notin Peer
ASSUME WorldAssumption == Busy \in BOOLEAN /\ Late \in BOOLEAN

VARIABLES
  records,      \* escrow records at the proxy
  circle,       \* peers in the trust circle; their bottles are viable
  removed,      \* records somebody asked to delete
  stale,        \* the escrow token is past PET_LIFETIME_SECONDS
  options,      \* _options
  bottles,      \* _bottles: the records it holds a sealed bottle for
  directory,    \* _peers
  task,         \* the locals of each call
  used,         \* identities generated
  sent,         \* identities whose joinWithVoucher was sent
  joined,       \* identities whose join call returned
  late          \* requests given up on that are still under way

server  == <<records, circle, removed>>
caches  == <<options, bottles, directory>>
history == <<used, sent, joined>>
vars == <<server, stale, caches, task, history, late>>

-----------------------------------------------------------------------------
Listing == [known : BOOLEAN, recoverable : SUBSET Peer,
            residue : SUBSET Peer,    \* described_but_not_viable
            trusted : BOOLEAN]        \* viability_is_trustworthy

NoListing == [known |-> FALSE, recoverable |-> {}, residue |-> {}, trusted |-> FALSE]

\* join_recovery_options
Joined(listed, viable) ==
  [known |-> TRUE, recoverable |-> listed \cap viable, residue |-> listed \ viable,
   trusted |-> viable # {}]

Directory == [known : BOOLEAN, peers : SUBSET Peer]

Op == {"options", "directory", "recover", "shares", "delete", "join"}

ASSUME CallAssumption == Calls \subseteq Op

Escrow  == {"list", "srp", "club", "enroll", "delete_label",
            "delete_companion", "delete_main"}
Request == Escrow \cup {"pet", "viable", "changes", "shares", "headers", "join"}

Task == [pc : Request \cup {"idle"}, op : Op \cup {"none"},
         arg : Peer \cup {NoPeer},      \* the record, or the sponsor
         id : Own \cup {NoPeer},        \* the identity a join creates
         flag : BOOLEAN,                \* refresh, or allow_viable
         permitted : BOOLEAN,           \* delete_record's rules are satisfied
         again : BOOLEAN,               \* the enrolment is repeated
         dir : SUBSET Peer,             \* the directory join read first
         next : Request,                \* what waits for the new token
         served : BOOLEAN, ans : SUBSET Peer]

Idle == [pc |-> "idle", op |-> "none", arg |-> NoPeer, id |-> NoPeer,
         flag |-> FALSE, permitted |-> FALSE, again |-> FALSE, dir |-> {},
         next |-> "pet", served |-> FALSE, ans |-> {}]

Running(o, arg, flag) == [Idle EXCEPT !.op = o, !.arg = arg, !.flag = flag]

\* requests that change the services, or whose answer depends on when they
\* are served; for the others the reply is all there is
Timed == {"viable", "list", "changes", "enroll", "delete_label", "delete_main", "join"}

Send(r, pc) == [r EXCEPT !.pc = pc, !.served = pc \notin Timed, !.ans = {}]

Become(t, r) == task' = [task EXCEPT ![t] = r]

At(t, pc) == task[t].pc = pc

Write == [kind : Request, peer : Peer]

Init ==
  /\ circle \in SUBSET Others
  /\ records \in {S \in SUBSET Others : circle \subseteq S}
  /\ removed = {} /\ stale = FALSE
  /\ options = NoListing /\ bottles = {}
  /\ directory = [known |-> FALSE, peers |-> {}]
  /\ task = [t \in Tasks |-> Idle]
  /\ used = {} /\ sent = {} /\ joined = {} /\ late = {}

-----------------------------------------------------------------------------
(* Segments shared by several calls                                        *)

\* _renew_token_if_stale
WithToken(r, pc) ==
  IF stale THEN [Send(r, "pet") EXCEPT !.next = pc]
  ELSE IF pc = "delete_companion" /\ ~r.permitted THEN Idle
  ELSE Send(r, pc)

\* mutant of Permitted: an outage is not told from debris
PermittedInOutage(r, o) ==
  r.arg \in o.residue \/ (r.arg \in o.recoverable /\ r.flag)

\* the rules of AsyncEscrowProxy.delete_record, on the listing passed to it
Permitted(r, o) ==
  /\ o.trusted
  /\ r.arg \in o.residue \/ (r.arg \in o.recoverable /\ r.flag)

\* what the caller of recovery_options does with the answer
AfterOptions(r, o) ==
  CASE r.op = "options" -> Idle
    [] r.op = "recover" -> IF r.arg \in o.recoverable THEN WithToken(r, "srp") ELSE Idle
    [] r.op = "delete"  -> WithToken([r EXCEPT !.permitted = Permitted(r, o)],
                                     "delete_companion")

\* recovery_options, up to its first await
EnterOptions(r) ==
  IF options.known /\ ~(r.op = "options" /\ r.flag) THEN AfterOptions(r, options)
  ELSE WithToken(r, "viable")

\* what the caller of peer_directory does with the answer; join refuses a
\* sponsor the circle does not contain
AfterDirectory(r, d) ==
  CASE r.op \in {"directory", "recover"} -> Idle
    [] r.op = "shares" -> Send(r, "shares")
    [] r.op = "join" -> IF r.arg \in d THEN [Send(r, "shares") EXCEPT !.dir = d] ELSE Idle

EnterDirectory(r) ==
  IF directory.known /\ ~r.flag THEN AfterDirectory(r, directory.peers)
  ELSE Send(r, "changes")

-----------------------------------------------------------------------------
(* Calls *)

Call(t) ==
  /\ At(t, "idle")
  /\ \E o \in Calls \ {"join"}, p \in Peer, flag \in BOOLEAN :
       Become(t, CASE o = "options"   -> EnterOptions(Running(o, NoPeer, flag))
                   [] o = "directory" -> EnterDirectory(Running(o, NoPeer, flag))
                   [] o = "recover"   -> EnterOptions(Running(o, p, FALSE))
                   [] o = "shares"    -> EnterDirectory(Running(o, p, FALSE))
                   [] o = "delete"    -> EnterOptions(Running(o, p, flag)))
  /\ UNCHANGED <<server, stale, caches, history, late>>

\* join reads the directory anew whatever is cached
CallJoin(t) ==
  /\ At(t, "idle") /\ "join" \in Calls
  /\ \E sponsor \in Peer, id \in Own \ used :
       /\ used' = used \cup {id}
       /\ Become(t, Send([Running("join", sponsor, TRUE) EXCEPT !.id = id], "changes"))
  /\ UNCHANGED <<server, stale, caches, sent, joined, late>>

-----------------------------------------------------------------------------
(* The services *)

\* Cuttlefish adds a peer: the newcomer's bottle makes its record viable
Effect(kind, p) ==
  /\ records' = CASE kind = "enroll" -> records \cup {p}
                  [] kind \in {"delete_label", "delete_main"} -> records \ {p}
                  [] OTHER -> records
  /\ circle' = IF kind = "join" THEN circle \cup {p} ELSE circle
  /\ removed' = IF kind = "delete_main" THEN removed \cup {p} ELSE removed

\* whom a request is about
Subject(r) == IF r.pc \in {"enroll", "delete_label", "join"} THEN r.id ELSE r.arg

Answers(r) ==
  CASE r.pc = "viable" -> {circle, {}}     \* nothing viable: an outage
    [] r.pc = "list" -> {records}
    [] r.pc \in {"changes", "join"} -> {circle'}
    [] OTHER -> {{}}                        \* writes at the escrow proxy

Serve(t) ==
  /\ ~At(t, "idle") /\ ~task[t].served
  /\ Effect(task[t].pc, Subject(task[t]))
  /\ \E a \in Answers(task[t]) :
       Become(t, [task[t] EXCEPT !.served = TRUE, !.ans = a])
  /\ UNCHANGED <<stale, caches, history, late>>

-----------------------------------------------------------------------------
(* Replies *)

Replied(t, pc) == At(t, pc) /\ task[t].served

PetReply(t) ==
  /\ Replied(t, "pet")
  /\ stale' = FALSE
  /\ Become(t, IF task[t].next = "delete_companion" /\ ~task[t].permitted THEN Idle
               ELSE Send(task[t], task[t].next))
  /\ UNCHANGED <<server, caches, history, late>>

\* the first of the two answers is stored before the second is asked for
ViableReply(t) ==
  /\ Replied(t, "viable")
  /\ bottles' = task[t].ans
  /\ Become(t, Send(task[t], "list"))
  /\ UNCHANGED <<server, stale, options, directory, history, late>>

ListReply(t) ==
  /\ Replied(t, "list")
  /\ options' = Joined(task[t].ans, bottles)
  /\ Become(t, AfterOptions(task[t], options'))
  /\ UNCHANGED <<server, stale, bottles, directory, history, late>>

\* the passcode was accepted; _sealed_bottle looks in _bottles of this moment
SrpReply(t) ==
  /\ Replied(t, "srp")
  /\ Become(t, IF task[t].arg \in bottles THEN EnterDirectory(task[t]) ELSE Idle)
  /\ UNCHANGED <<server, stale, caches, history, late>>

\* a join may refuse here too: identifiers that do not reproduce
ChangesReply(t) ==
  /\ Replied(t, "changes")
  /\ directory' = [known |-> TRUE, peers |-> task[t].ans]
  /\ \/ Become(t, AfterDirectory(task[t], task[t].ans))
     \/ task[t].op = "join" /\ Become(t, Idle)
  /\ UNCHANGED <<server, stale, options, bottles, history, late>>

\* key_shares; a join with no share that unwraps is refused
SharesReply(t) ==
  /\ Replied(t, "shares")
  /\ \/ Become(t, Idle)
     \/ task[t].op = "join" /\ Become(t, Send(task[t], "headers"))
  /\ UNCHANGED <<server, stale, caches, history, late>>

HeadersReply(t) ==
  /\ Replied(t, "headers")
  /\ Become(t, WithToken(task[t], "club"))
  /\ UNCHANGED <<server, stale, caches, history, late>>

ClubReply(t) ==
  /\ Replied(t, "club")
  /\ Become(t, Send(task[t], "enroll"))
  /\ UNCHANGED <<server, stale, caches, history, late>>

\* mutant of EnrollReply: the beneficiary and the sponsor are swapped
EnrollReplySponsor(t) ==
  /\ Replied(t, "enroll")
  /\ sent' = sent \cup {task[t].arg}
  /\ Become(t, Send(task[t], "join"))
  /\ UNCHANGED <<server, stale, caches, used, joined, late>>

\* the record is there: the join is sent
EnrollReply(t) ==
  /\ Replied(t, "enroll")
  /\ sent' = sent \cup {task[t].id}
  /\ Become(t, Send(task[t], "join"))
  /\ UNCHANGED <<server, stale, caches, used, joined, late>>

\* mutant of DeleteLabelReply: the join goes out without enrolling again
DeleteLabelReplyJoins(t) ==
  /\ Replied(t, "delete_label")
  /\ sent' = sent \cup {task[t].id}
  /\ Become(t, Send(task[t], "join"))
  /\ UNCHANGED <<server, stale, caches, used, joined, late>>

\* mutant of DeleteLabelReply: the repetition is not limited to one
DeleteLabelReplyForgets(t) ==
  /\ Replied(t, "delete_label")
  /\ Become(t, Send(task[t], "club"))
  /\ UNCHANGED <<server, stale, caches, history, late>>

DeleteLabelReply(t) ==
  /\ Replied(t, "delete_label")
  /\ Become(t, Send([task[t] EXCEPT !.again = TRUE], "club"))
  /\ UNCHANGED <<server, stale, caches, history, late>>

DeleteReply(t) ==
  /\ \/ /\ Replied(t, "delete_companion")
        /\ Become(t, Send(task[t], "delete_main"))
        /\ UNCHANGED options
     \/ /\ Replied(t, "delete_main")
        /\ Become(t, Idle)
        /\ options' = NoListing
  /\ UNCHANGED <<server, stale, bottles, directory, history, late>>

\* mutant of JoinReply: the listing from before the join is kept
JoinReplyKeepsOptions(t) ==
  /\ Replied(t, "join")
  /\ directory' = [known |-> TRUE, peers |-> task[t].dir \cup task[t].ans]
  /\ joined' = joined \cup {task[t].id}
  /\ Become(t, Idle)
  /\ UNCHANGED <<server, stale, options, bottles, used, sent, late>>

\* the changes of the reply are applied to the directory join began with
JoinReply(t) ==
  /\ Replied(t, "join")
  /\ directory' = [known |-> TRUE, peers |-> task[t].dir \cup task[t].ans]
  /\ options' = NoListing
  /\ joined' = joined \cup {task[t].id}
  /\ Become(t, Idle)
  /\ UNCHANGED <<server, stale, bottles, used, sent, late>>

-----------------------------------------------------------------------------
(* Errors *)

\* mutant of Refuse: whatever the refusal, the join is tried all the same
RefuseIgnored(t) ==
  /\ task[t].pc \in Escrow
  /\ IF At(t, "enroll")
     THEN Become(t, Send(task[t], "join")) /\ sent' = sent \cup {task[t].id}
     ELSE Become(t, Idle) /\ UNCHANGED sent
  /\ UNCHANGED <<server, stale, caches, used, joined, late>>

\* An EscrowError, served or not.  A reported one during the first enrolment
\* removes the label and enrols again; any one about the companion is taken
\* to mean there is none; all others end the call.
Refuse(t) ==
  /\ task[t].pc \in Escrow
  /\ \/ ~At(t, "delete_companion") /\ Become(t, Idle)
     \/ /\ task[t].pc \in {"club", "enroll"} /\ ~task[t].again
        /\ Become(t, Send(task[t], "delete_label"))
     \/ At(t, "delete_companion") /\ Become(t, Send(task[t], "delete_main"))
  /\ UNCHANGED <<server, stale, caches, history, late>>

\* a time-out, a transport error or a cancellation ends the call; a request
\* on its way may still be served
Fail(t) ==
  /\ ~At(t, "idle")
  /\ Become(t, Idle)
  /\ late' \in {late} \cup
       (IF Late /\ ~task[t].served /\ late = {}
           /\ task[t].pc \in {"enroll", "delete_label", "delete_main", "join"}
        THEN {late \cup {[kind |-> task[t].pc, peer |-> Subject(task[t])]}} ELSE {})
  /\ UNCHANGED <<server, stale, caches, history>>

-----------------------------------------------------------------------------
(* The rest of the world *)

ServeLate ==
  /\ \E w \in late : Effect(w.kind, w.peer) /\ late' = late \ {w}
  /\ UNCHANGED <<stale, caches, task, history>>

Age ==
  /\ ~stale /\ stale' = TRUE
  /\ UNCHANGED <<server, caches, task, history, late>>

\* another device enrols its record and joins, is removed from the account,
\* or somebody deletes a record
OtherEnrols ==
  /\ Busy
  /\ \E p \in Others \ removed : p \notin records /\ records' = records \cup {p}
  /\ UNCHANGED <<circle, removed, stale, caches, task, history, late>>

OtherJoins ==
  /\ Busy
  /\ \E p \in Others : p \in records \ circle /\ circle' = circle \cup {p}
  /\ UNCHANGED <<records, removed, stale, caches, task, history, late>>

Leave ==
  /\ Busy
  /\ \E p \in circle : circle' = circle \ {p}
  /\ UNCHANGED <<records, removed, stale, caches, task, history, late>>

OtherDeletes ==
  /\ Busy
  /\ \E p \in records :
       /\ records' = records \ {p} /\ removed' = removed \cup {p}
  /\ UNCHANGED <<circle, stale, caches, task, history, late>>

-----------------------------------------------------------------------------
Reply(t) ==
  \/ PetReply(t) \/ ViableReply(t) \/ ListReply(t) \/ SrpReply(t)
  \/ ChangesReply(t) \/ SharesReply(t) \/ HeadersReply(t) \/ ClubReply(t)
  \/ EnrollReply(t) \/ DeleteLabelReply(t) \/ DeleteReply(t) \/ JoinReply(t)

Resume(t) == Serve(t) \/ Reply(t) \/ Refuse(t)

World == ServeLate \/ Age \/ OtherEnrols \/ OtherJoins \/ Leave \/ OtherDeletes

Next == (\E t \in Tasks : Call(t) \/ CallJoin(t) \/ Resume(t) \/ Fail(t)) \/ World

Spec == Init /\ [][Next]_vars

\* a request is answered, or fails, within HttpSession's time-out
FairSpec == Spec /\ \A t \in Tasks : WF_vars(Resume(t))

-----------------------------------------------------------------------------
(* Properties.  The first group holds whatever runs concurrently.          *)

\* every variable stays in the values the code can give it
TypeOK ==
  /\ records \in SUBSET Peer /\ circle \in SUBSET Peer /\ removed \in SUBSET Peer
  /\ stale \in BOOLEAN
  /\ options \in Listing /\ bottles \in SUBSET Peer /\ directory \in Directory
  /\ task \in [Tasks -> Task]
  /\ used \in SUBSET Own /\ sent \in SUBSET Own /\ joined \in SUBSET Own
  /\ late \in SUBSET Write

\* "A join that succeeds with no record leaves a peer nobody can ever
\* recover" (join): a peer this client put into the circle, or may yet put
\* there by a request still under way, has its escrow record, unless that was
\* deleted on purpose.
NoUnrecoverablePeer ==
  \A p \in Own :
    p \in circle \/ p \in sent => p \in records \cup removed

\* an identity is enrolled, sent once, admitted: see Membership
Circle == INSTANCE Membership WITH
  record <- records \cap Own, committed <- sent, member <- circle \cap Own,
  removed <- removed \cap Own

ImplementsMembership == Circle!Spec

-----------------------------------------------------------------------------
(* The second group is about a session whose calls are awaited in turn.    *)

\* After a join has returned, neither cache denies it: a cached listing shows
\* the new record and a cached directory the new peer.
SessionKnowsItsJoin ==
  \A p \in joined :
    /\ options.known /\ p \notin removed => p \in options.recoverable \cup options.residue
    /\ directory.known => p \in directory.peers

\* "Viable records are refused" (AsyncEscrowProxy.delete_record): without
\* allow_viable, no peer of the circle is deprived of its record, even when
\* the trust-circle service answers that nothing is viable.  Needs an account
\* nobody else changes: the listing may be old.
DeleteSparesViable ==
  \A t \in Tasks :
    task[t].pc \in {"delete_companion", "delete_main"} /\ ~task[t].flag =>
      task[t].arg \notin circle

\* every call ends: the enrolment is repeated at most once
CallsEnd == \A t \in Tasks : ~At(t, "idle") ~> At(t, "idle")
=============================================================================
