------------------------------- MODULE Trust -------------------------------
(***************************************************************************)
(* The trust circle as a joining client sees it: fetch_peer_directory      *)
(* reads it page by page (findmy/keychain/peers.py), merge_trust works out *)
(* what the new peer will assert (findmy/keychain/join.py), and join sends *)
(* it and folds the answer into the directory it began with.               *)
(*                                                                         *)
(* Cuttlefish keeps a feed of changes.  A change is a peer's Statement, or *)
(* Unreadable: another kind of change, or an add that _peer_from_proto     *)
(* gives None for.  Meanwhile other devices go on stating, and the circle  *)
(* may be reset, which ends the life of every token given out before.      *)
(***************************************************************************)
EXTENDS Integers, Sequences, FiniteSets

CONSTANTS
  Peers,        \* the peers of other devices
  Me,           \* the identity this client joins with
  Nil,
  Statements,   \* what those peers may state
  Unreadable,
  MaxPages,     \* max_pages of fetch_peer_directory
  PageSize,     \* how many changes a page may carry
  MaxFeed,      \* bounds the changes in the feed
  MaxResets     \* bounds the resets of the circle

Names == Peers \cup {Me}

Voucher == [sponsor : Peers, beneficiary : Peers, valid : BOOLEAN]

Statement == [peer : Names, clock : Nat, inc : SUBSET Names, exc : SUBSET Names,
              voucher : Voucher \cup {Nil},
              named : BOOLEAN]     \* hash_is_derivable, or nothing to check

ASSUME NameAssumption == Me \notin Peers /\ Unreadable \notin Statement
ASSUME StatementAssumption == \A s \in Statements : s \in Statement /\ s.peer # Me
ASSUME BoundAssumption == MaxPages \in Nat \ {0} /\ PageSize \in Nat \ {0}

VARIABLES
  feed,         \* the changes since the circle was established
  epoch,        \* how often it was reset
  pc,
  peers,    \* peers: what is known of the circle, by name
  token,        \* sync_token: Nil, or [epoch, pos]
  pages,        \* requests made by this read
  restarted,    \* this read has started over once
  sponsor,
  trust,        \* includeds, excludeds, clock
  ahead,        \* peers whose updates are still to be merged
  adopted       \* peers whose updates were believed

cuttlefish == <<feed, epoch>>
reader     == <<peers, token, pages, restarted>>
merge      == <<sponsor, trust, ahead, adopted>>
trustVars  == <<cuttlefish, pc, reader, merge>>

-----------------------------------------------------------------------------
Token == [epoch : Nat, pos : Nat]

ASSUME TokenAssumption == Nil \notin Token

TrustSet == [inc : SUBSET Names, exc : SUBSET Names, clock : Nat]

Nothing == [inc |-> {}, exc |-> {}, clock |-> 0]

Empty == [p \in {} |-> Nil]

Feed == UNION {[1 .. n -> Statements \cup {Unreadable}] : n \in 0 .. MaxFeed}

TrustInit ==
  /\ feed = <<>> /\ epoch = 0
  /\ pc = "idle"
  /\ peers = Empty /\ token = Nil /\ pages = 0 /\ restarted = FALSE
  /\ sponsor = Nil /\ trust = Nothing /\ ahead = {} /\ adopted = {}

Stated(changes) == {changes[i].peer : i \in {j \in DOMAIN changes : changes[j] # Unreadable}}

Last(changes, p) ==
  LET places == {i \in DOMAIN changes : changes[i] # Unreadable /\ changes[i].peer = p}
  IN changes[CHOOSE i \in places : \A j \in places : j <= i]

\* apply_changes: the last statement of each peer counts
Apply(d, changes) ==
  [p \in DOMAIN d \cup Stated(changes) |->
     IF p \in Stated(changes) THEN Last(changes, p) ELSE d[p]]

CircleAfter(changes) == Apply(Empty, changes)

-----------------------------------------------------------------------------
(* The circle goes on without this client, except while merge_trust runs,  *)
(* which awaits nothing; what happens after the join is another join's     *)

Ongoing == pc \notin {"merging", "joined", "failed"}

State ==
  /\ Ongoing /\ Len(feed) < MaxFeed
  /\ \E c \in Statements \cup {Unreadable} :
       /\ c # Unreadable /\ c.peer \in DOMAIN CircleAfter(feed)
            => CircleAfter(feed)[c.peer].clock < c.clock
       /\ feed' = Append(feed, c)
  /\ UNCHANGED <<epoch, pc, reader, merge>>

Reset ==
  /\ Ongoing /\ epoch < MaxResets
  /\ feed' = <<>> /\ epoch' = epoch + 1
  /\ UNCHANGED <<pc, reader, merge>>

-----------------------------------------------------------------------------
(* fetch_peer_directory *)

Since(t) == IF t = Nil THEN 0 ELSE t.pos

TokenExpired == token # Nil /\ token.epoch # epoch

StartRead ==
  /\ pc = "idle"
  /\ pc' = "reading"
  /\ peers' = Empty /\ token' = Nil /\ pages' = 0 /\ restarted' = FALSE
  /\ UNCHANGED <<cuttlefish, merge>>

More == pages < MaxPages

\* mutant of Counted: the requests are not counted
Uncounted == pages

Counted == pages + 1

\* mutant of Ends: a page without a peer ends the read
EndsWithoutPeers(changes) == Stated(changes) = {}

\* "An empty page is the only thing that ends this"
Ends(changes) == changes = <<>>

\* A page: some changes after the token, none only at the end of the feed,
\* and usually a new token (always one on the first page)
Page ==
  /\ pc = "reading" /\ More /\ ~TokenExpired
  /\ pages' = Counted
  /\ \E n \in 0 .. PageSize, given \in BOOLEAN :
       LET changes == SubSeq(feed, Since(token) + 1, Since(token) + n)
           reached == [epoch |-> epoch, pos |-> Since(token) + n]
       IN /\ Since(token) + n <= Len(feed)
          /\ n = 0 => Since(token) = Len(feed)
          /\ token = Nil => given
          /\ peers' = Apply(peers, changes)
          /\ token' = IF given THEN reached ELSE token
          /\ pc' = IF Ends(changes) THEN "read" ELSE "reading"
  /\ UNCHANGED <<cuttlefish, restarted, merge>>

\* mutant of Afresh: what was read under the old token is kept
AfreshKept == peers

Afresh == Empty

\* ChangeTokenExpired: once, the circle is read again in full
StartOver ==
  /\ pc = "reading" /\ More /\ TokenExpired
  /\ pages' = Counted
  /\ IF restarted THEN pc' = "failed" /\ UNCHANGED <<peers, token, restarted>>
     ELSE /\ restarted' = TRUE /\ token' = Nil /\ peers' = Afresh
          /\ UNCHANGED pc
  /\ UNCHANGED <<cuttlefish, merge>>

\* any other error, or a cancellation; the join's own request included
TrustFails ==
  /\ pc \in {"reading", "ready", "sent"}
  /\ pc' = "failed"
  /\ UNCHANGED <<cuttlefish, reader, merge>>

\* the backstop: the directory is used although it may be incomplete
Backstop ==
  /\ pc = "reading" /\ pages = MaxPages
  /\ pc' = "read"
  /\ UNCHANGED <<cuttlefish, reader, merge>>

-----------------------------------------------------------------------------
(* merge_trust *)

\* join, up to the seed of merge_trust: what the sponsor itself asserts
Seed ==
  /\ pc = "read"
  /\ \E p \in Peers :
       IF p \in DOMAIN peers /\ \A q \in DOMAIN peers : peers[q].named
       THEN LET s == peers[p] IN
            /\ pc' = "merging" /\ sponsor' = p
            /\ trust' = [inc |-> s.inc, exc |-> s.exc, clock |-> s.clock]
            /\ ahead' = {q \in DOMAIN peers : peers[q].clock > s.clock}
            /\ adopted' = {}
       ELSE pc' = "failed" /\ UNCHANGED merge
  /\ UNCHANGED <<cuttlefish, reader>>

\* mutant of VoucherAdmits: neither the sponsor's standing nor its signature matters
VoucherAdmitsAny(s) ==
  /\ s.voucher # Nil /\ s.peer \notin trust.exc
  /\ s.voucher.beneficiary = s.peer

VoucherAdmits(s) ==
  /\ s.voucher # Nil /\ s.peer \notin trust.exc
  /\ s.voucher.beneficiary = s.peer
  /\ s.voucher.sponsor \in trust.inc
  /\ s.voucher.sponsor \in DOMAIN peers
  /\ s.voucher.valid

\* mutant of Foremost: the updates are taken newest first
Latest(p) == p \in ahead /\ \A q \in ahead : peers[q].clock <= peers[p].clock

\* sorted by clock, equal ones in the order the directory happens to have
Foremost(p) == p \in ahead /\ \A q \in ahead : peers[p].clock <= peers[q].clock

\* mutant of MergedWith: the clock stays the sponsor's
MergedWithClockKept(s) ==
  [inc |-> (trust.inc \cup s.inc) \ s.exc, exc |-> trust.exc \cup s.exc,
   clock |-> trust.clock]

MergedWith(s) ==
  [inc |-> (trust.inc \cup s.inc) \ s.exc, exc |-> trust.exc \cup s.exc, clock |-> s.clock]

\* one iteration of the loop over the peers ahead
MergeOne ==
  /\ pc = "merging"
  /\ \E p \in ahead :
       /\ Foremost(p)
       /\ ahead' = ahead \ {p}
       /\ IF p \in trust.inc \/ VoucherAdmits(peers[p])
          THEN trust' = MergedWith(peers[p]) /\ adopted' = adopted \cup {p}
          ELSE UNCHANGED <<trust, adopted>>
  /\ UNCHANGED <<cuttlefish, pc, reader, sponsor>>

Merged ==
  /\ pc = "merging" /\ ahead = {}
  /\ trust' = [trust EXCEPT !.inc = @ \cup {Me}, !.clock = @ + 1]
  /\ pc' = "ready"
  /\ UNCHANGED <<cuttlefish, reader, sponsor, ahead, adopted>>

-----------------------------------------------------------------------------
(* joinWithVoucher, sent after the enrolment's own awaits *)

Mine == [peer |-> Me, clock |-> trust.clock, inc |-> trust.inc, exc |-> trust.exc,
         voucher |-> Nil, named |-> TRUE]

\* the request carries the token as its restorePoint: an old one is refused
SendJoin ==
  /\ pc = "ready"
  /\ IF TokenExpired THEN pc' = "failed" /\ UNCHANGED feed
     ELSE pc' = "sent" /\ feed' = Append(feed, Mine)
  /\ UNCHANGED <<epoch, reader, merge>>

\* mutant of DirectoryUpdated: the reply's changes are taken for the whole circle
DirectoryUpdatedAfresh(changes) == CircleAfter(changes)

\* PeerDirectory.updated
DirectoryUpdated(changes) == Apply(peers, changes)

\* the reply carries the changes since the token
Answered ==
  /\ pc = "sent" /\ ~TokenExpired
  /\ peers' = DirectoryUpdated(SubSeq(feed, Since(token) + 1, Len(feed)))
  /\ token' = [epoch |-> epoch, pos |-> Len(feed)]
  /\ pc' = "joined"
  /\ UNCHANGED <<cuttlefish, pages, restarted, merge>>

-----------------------------------------------------------------------------
Step == \/ Page \/ StartOver \/ Backstop \/ Seed \/ MergeOne \/ Merged
        \/ SendJoin \/ Answered \/ TrustFails

TrustNext == State \/ Reset \/ StartRead \/ Step

TrustSpec == TrustInit /\ [][TrustNext]_trustVars

\* a page is answered or fails within HttpSession's time-out, and code runs on
TrustFairness == WF_trustVars(Step)

-----------------------------------------------------------------------------
(* Properties *)

\* A read that an empty page ended has the circle as it is now, no more and
\* no less, however often pages without peers came, tokens were missing, or
\* the circle was reset under it (fetch_peer_directory).
ReadIsCircle ==
  pc = "reading" /\ pc' = "read" /\ pages' > pages => peers' = CircleAfter(feed)

CompleteReads == [][ReadIsCircle]_trustVars

\* "A joining peer inherits trust rather than inventing it" (merge_trust):
\* whatever set holds the sponsor's peers, and, with a member or a peer a
\* member validly vouches for, that peer's includeds, holds what is asserted.
Closed(S) ==
  \A p \in DOMAIN peers :
    LET v == peers[p].voucher
    IN p \in S \/ (v # Nil /\ v.valid /\ v.beneficiary = p /\ v.sponsor \in S)
         => peers[p].inc \subseteq S

TrustInherited ==
  pc \in {"merging", "ready"} =>
    \A S \in SUBSET Names :
      peers[sponsor].inc \subseteq S /\ Closed(S) => trust.inc \subseteq S \cup {Me}

\* "Out of order, a removal can be undone by an older peer's inclusion": a
\* peer that a believed update excludes is only asserted if another believed
\* update, and not an older one, includes it again.
RemovalStands ==
  pc \in {"merging", "ready"} =>
    \A p \in adopted : \A x \in (peers[p].exc \cap trust.inc) \ {Me} :
      \E q \in adopted \ {p, x} :
        peers[q].clock >= peers[p].clock /\ x \in peers[q].inc

\* "One past everything it was derived from, so the info sent supersedes its
\* sources": the sponsor's statement and every one that was believed.
SentSupersedes ==
  pc = "ready" => \A p \in adopted \cup {sponsor} : peers[p].clock < trust.clock

\* After a join that was answered, the directory the session keeps is the
\* circle with the new peer in it: what others stated between the read and
\* the answer is there too, and so is what a read that hit its backstop missed.
Resynchronised ==
  pc = "sent" /\ pc' = "joined" => Me \in DOMAIN peers' /\ peers' = CircleAfter(feed)

JoinedKnowsCircle == [][Resynchronised]_trustVars

\* a read ends, also on a feed that is reset or never hands out a new token
ReadEnds == pc = "reading" ~> pc # "reading"
=============================================================================
