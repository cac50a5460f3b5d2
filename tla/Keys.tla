-------------------------------- MODULE Keys --------------------------------
(***************************************************************************)
(* How a client comes by its keychain keys: AsyncKeychainSession.recover,  *)
(* key_shares, pcs_keys, service_keys and the re-addressing of shares in   *)
(* join (findmy/keychain/session.py), with the readers they are built from *)
(* (bottle.py, shares.py, items.py, servicekey.py) and resume and use_keys *)
(* of the Find My client (icloud.py).                                      *)
(*                                                                         *)
(* Cryptography is symbolic.  A key is a record that names it; what is     *)
(* wrapped under a key opens with that key and no other.  Meanwhile other  *)
(* devices join the circle, roll a view's keys and add items.              *)
(***************************************************************************)
EXTENDS Integers, Sequences, FiniteSets

CONSTANTS
  Devices,      \* the other peers
  Me,           \* the identity join creates
  Views,        \* the keychain views that are read
  Items,        \* what a view may hold, by name
  ItemOf,       \* [Items -> Item]
  Later,        \* those not there from the start
  Pointed,      \* those a view's currentitem pointer may name at first
  None,
  MaxChanges    \* bounds the changes other devices make

Names == Devices \cup {Me}
Slots == {"classA", "classB"}

Key == [kind : {"encryption", "signing"}, of : Names, gen : {0}]
       \cup [kind : {"tlk"} \cup Slots, of : Views, gen : 0 .. MaxChanges]

\* scalar_in: "pair" carries both halves, "bare" the scalar alone, the halves
\* of "forged" disagree, "other" has the length of no key
Blob == [kind : {"pair", "bare", "forged", "other"}, key : Items \X {1, 2}]

Item == [view : Views, slot : Slots,
         intact : BOOLEAN,             \* what AES-SIV authenticates is unchanged
         acct : Items \cup {None},     \* by which it is listed, None if it is empty
         declared : Seq(Blob),         \* the named fields of v_Data
         members : Seq(Blob)]          \* and every member by position

\* a share Cuttlefish keeps: wrapped to key "to", said to be to "declared"
Share == [view : Views, sender : Names, receiver : Names,
          to : Key, declared : Key \cup {None}, material : Key \cup {None},
          named : BOOLEAN]             \* the material names its zone and uuid

ASSUME NameAssumption == Me \notin Devices
ASSUME NoneAssumption == None \notin Key
ASSUME ItemAssumption ==
  ItemOf \in [Items -> Item]
  /\ Later \subseteq Items /\ Pointed \subseteq Items
ASSUME BoundAssumption == MaxChanges \in Nat

VARIABLES
  circleNow,    \* the peers in the circle
  gen,          \* how often each view's keys were rolled
  shares,       \* the shares of the keys in use
  items,        \* the items of the views
  current,      \* what the currentitem pointer of the service names
  changes,      \* how many changes there were
  saltOf,       \* the identifier each sealed bottle is salted with
  circleRead,   \* _peers: None or the peers last read
  mine,         \* the identities this client has the private keys of
  pc,
  call,         \* the locals of the call under way
  opened,       \* key_shares' result, those with keys
  keys,         \* _keychain_keys
  service       \* what service_keys returned last

others  == <<circleNow, gen, shares, items, current, changes, saltOf>>
session == <<circleRead, mine, pc, call, opened, keys, service>>
keysVars == <<others, session>>

-----------------------------------------------------------------------------
(* Keys and what is wrapped under them *)

Encryption(p) == [kind |-> "encryption", of |-> p, gen |-> 0]
Signing(p)    == [kind |-> "signing", of |-> p, gen |-> 0]
Tlk(v)        == [kind |-> "tlk", of |-> v, gen |-> gen[v]]
Class(v, s)   == [kind |-> s, of |-> v, gen |-> gen[v]]

Good(v, t, from, p) ==
  [view |-> v, sender |-> from, receiver |-> p, to |-> Encryption(p),
   declared |-> Encryption(p), material |-> t, named |-> TRUE]

\* what may also be in the list: no key, one addressed wrongly, one that
\* holds no key material, one that says less than it should
Odd(s) ==
  { [s EXCEPT !.to = Encryption(s.sender)],
    [s EXCEPT !.to = Signing(s.receiver), !.declared = None],
    [s EXCEPT !.material = None],
    [s EXCEPT !.named = FALSE] }

NoCall == [op |-> None, as |-> None, begun |-> 0, left |-> {}, got |-> {}]

Locals == [op : {"resume", "service", "join", None}, as : Names \cup {None},
         begun : 0 .. MaxChanges, left : SUBSET Views,
         got : SUBSET (Items \X {1, 2})]

KeysInit ==
  /\ \E p \in Devices : circleNow = Devices \ {p}
  /\ gen = [v \in Views |-> 0]
  /\ \E from \in circleNow, v \in Views :
       LET good == {Good(w, Tlk(w), from, p) : w \in Views, p \in circleNow}
       IN \E odd \in UNION {Odd(Good(v, Tlk(v), p, from)) : p \in circleNow \ {from}},
              alone \in BOOLEAN :
            shares = {odd} \cup
              {s \in good : alone => s.view # odd.view \/ s.receiver # odd.receiver}
  /\ items = Items \ Later
  /\ current \in Pointed
  /\ changes = 0
  /\ saltOf = [p \in circleNow |-> "adsid"]
  /\ circleRead = None /\ mine = {} /\ pc = "idle" /\ call = NoCall
  /\ opened = {} /\ keys = {} /\ service = <<>>

-----------------------------------------------------------------------------
(* Other devices *)

Change == changes < MaxChanges /\ changes' = changes + 1

JoinOther ==
  /\ Change
  /\ \E p \in Devices \ circleNow : circleNow' = circleNow \cup {p}
  /\ UNCHANGED <<gen, shares, items, current, saltOf, session>>

\* new keys, shared by the device that made them; the items move to them
Roll ==
  /\ Change
  /\ \E v \in Views, from \in circleNow \cap Devices :
       /\ gen' = [gen EXCEPT ![v] = @ + 1]
       /\ shares' = {s \in shares : s.view # v}
                    \cup {Good(v, [Tlk(v) EXCEPT !.gen = @ + 1], from, p) : p \in circleNow}
  /\ UNCHANGED <<circleNow, items, current, saltOf, session>>

AddItem ==
  /\ Change
  /\ \E i \in Items \ items :
       /\ items' = items \cup {i}
       /\ current' = i
  /\ UNCHANGED <<circleNow, gen, shares, saltOf, session>>

-----------------------------------------------------------------------------
(* recover: the bottle's two keys are derived from the entropy and an      *)
(* identifier of the account, and it holds the peer's private keys         *)

\* the adsid if the account has it, then the dsid; empty ones are passed over
Salts(known) == IF known THEN {"adsid", "dsid"} ELSE {"dsid"}

Recover ==
  /\ pc = "idle"
  /\ \E p \in DOMAIN saltOf, known \in BOOLEAN :
       mine' = IF saltOf[p] \in Salts(known) THEN mine \cup {p} ELSE mine
  /\ circleRead' = IF circleRead = None THEN circleNow ELSE circleRead
  /\ UNCHANGED <<others, pc, call, opened, keys, service>>

-----------------------------------------------------------------------------
(* key_shares *)

Begin(op, as, views) ==
  /\ pc = "idle" /\ as \in mine
  /\ call' = [op |-> op, as |-> as, begun |-> changes, left |-> views, got |-> {}]
  /\ pc' = IF circleRead = None \/ op = "join" THEN "directory" ELSE "shares"
  /\ service' = <<>>
  /\ UNCHANGED <<others, circleRead, mine, opened, keys>>

ResumeKeys  == \E p \in Names : Begin("resume", p, Views)
ServiceKeys == \E p \in Names : Begin("service", p, {})
Join        == \E p \in Devices : Me \notin circleNow /\ Begin("join", p, {})

ReadDirectory ==
  /\ pc = "directory"
  /\ circleRead' = circleNow /\ pc' = "shares"
  /\ UNCHANGED <<others, mine, call, opened, keys, service>>

\* peer_directory(refresh=True)
Refresh ==
  /\ pc = "idle"
  /\ circleRead' = circleNow
  /\ UNCHANGED <<others, mine, pc, call, opened, keys, service>>

\* unwrap_share tries the key of ours the share names, or else each of them
Candidates(s) ==
  LET ours == {Encryption(call.as), Signing(call.as)}
  IN IF s.declared \in ours THEN {s.declared} ELSE ours

\* nothing is known of the senders when the directory is empty
Known(s) == circleRead = {} \/ s.sender \in circleRead

Plaintext(s) == Known(s) /\ s.receiver = call.as /\ s.to \in Candidates(s)

\* unwrap_view_keys, from what the reply says of the view's keys: the view's
\* tlk is taken to be the material, the class keys are wrapped under it
Keyring(s) ==
  [u \in {Tlk(s.view)} \cup {Class(s.view, c) : c \in {c \in Slots : s.material = Tlk(s.view)}} |->
     IF u.kind = "tlk" THEN s.material ELSE u]

Unwrapped(s) ==
  [view |-> s.view, material |-> s.material, named |-> s.named,
   ring |-> IF s.material = None THEN <<>> ELSE Keyring(s)]

FetchShares ==
  /\ pc = "shares"
  /\ opened' = {Unwrapped(s) : s \in {x \in shares : Plaintext(x)}}
  /\ pc' = IF call.op = "join" THEN "joining" ELSE "reading"
  /\ UNCHANGED <<others, circleRead, mine, call, keys, service>>

-----------------------------------------------------------------------------
(* A view's items *)

ClassKey(i) == Class(ItemOf[i].view, ItemOf[i].slot)

\* decrypt_item: the parent key is held and everything authenticates
Readable(i, ring) ==
  /\ ClassKey(i) \in DOMAIN ring /\ ring[ClassKey(i)] = ClassKey(i)
  /\ ItemOf[i].intact

\* mutant of Refused: a blob is not held against its own public half
RefusedNever(blobs) == FALSE

\* scalar_in raises, and the item with it
Refused(blobs) == \E n \in DOMAIN blobs : blobs[n].kind = "forged"

IsPair(b)   == b.kind = "pair"
IsScalar(b) == b.kind \in {"pair", "bare", "forged"}

\* by position
Scalars(blobs) == {n \in DOMAIN blobs : IsScalar(blobs[n])}

\* mutant of Ahead: the keys are taken in the order they come
AheadAsFound(blobs, m, n) == m < n

\* _keys_from_candidates: those a public half confirms come first
Ahead(blobs, m, n) ==
  IF IsPair(blobs[m]) <=> IsPair(blobs[n]) THEN m < n ELSE IsPair(blobs[m])

Ranked(blobs, n) ==
  CHOOSE m \in Scalars(blobs) : Cardinality({k \in Scalars(blobs) : Ahead(blobs, k, m)}) = n - 1

Verified(blobs) == \E n \in DOMAIN blobs : IsPair(blobs[n])

\* service_keys_from_der: by position where no named field is verified
Candidate(i) ==
  IF Verified(ItemOf[i].declared) \/ Scalars(ItemOf[i].members) = {}
  THEN ItemOf[i].declared ELSE ItemOf[i].members

\* the encryption key and, if there is a second, the signing key
ServiceKeysFromDer(i) ==
  IF Refused(ItemOf[i].declared) \/ (~Verified(ItemOf[i].declared) /\ Refused(ItemOf[i].members))
  THEN <<>>
  ELSE [n \in (1 .. Cardinality(Scalars(Candidate(i)))) \cap {1, 2} |->
          Candidate(i)[Ranked(Candidate(i), n)].key]

SameAcct(i, j) == ItemOf[i].view = ItemOf[j].view /\ ItemOf[i].acct = ItemOf[j].acct

Decrypted(v, ring) ==
  {i \in items : ItemOf[i].view = v /\ Readable(i, ring) /\ ItemOf[i].acct # None}

\* readable_items is keyed by acct: an item without one is passed over, and of
\* those with the same the one the zone lists last is kept
ReadableItems(v, ring) ==
  {kept \in SUBSET Decrypted(v, ring) :
     /\ \A i, j \in kept : SameAcct(i, j) => i = j
     /\ \A i \in Decrypted(v, ring) : \E j \in kept : SameAcct(i, j)}

\* what _pcs_keys_in collects; one that holds no key it can read adds none
KeysOf(kept) ==
  UNION {{ServiceKeysFromDer(i)[n] : n \in DOMAIN ServiceKeysFromDer(i)} : i \in kept}

KeysIn(v, ring) == {KeysOf(kept) : kept \in ReadableItems(v, ring)}

Rings(v) == {s.ring : s \in {x \in opened : x.view = v /\ x.ring # <<>>}}

\* _view_keyring takes the first of the list; without one the view is skipped
ReadView ==
  /\ pc = "reading" /\ call.op = "resume"
  /\ \E v \in call.left :
       \E found \in IF Rings(v) = {} THEN {{}} ELSE UNION {KeysIn(v, r) : r \in Rings(v)} :
         call' = [call EXCEPT !.left = @ \ {v}, !.got = @ \cup found]
  /\ UNCHANGED <<others, circleRead, mine, pc, opened, keys, service>>

Finish == pc' = "idle" /\ call' = NoCall /\ opened' = {}

\* use_keys, with whatever was found
UseKeys ==
  /\ pc = "reading" /\ call.op = "resume" /\ call.left = {}
  /\ keys' = call.got
  /\ Finish
  /\ UNCHANGED <<others, circleRead, mine, service>>

\* service_keys follows the pointer; whatever is wrong raises
ReadService ==
  /\ pc = "reading" /\ call.op = "service"
  /\ current \in items
  /\ \E r \in Rings(ItemOf[current].view) : Readable(current, r)
  /\ ServiceKeysFromDer(current) # <<>>
  /\ service' = ServiceKeysFromDer(current)
  /\ Finish
  /\ UNCHANGED <<others, circleRead, mine, keys>>

-----------------------------------------------------------------------------
(* join, its bottle and its shares; the requests are those of Keychain     *)

\* mutant of Readdressed: a share stays the sponsor's
ReaddressedToSponsor(s) == Good(s.view, s.material, Me, call.as)

\* make_share
Readdressed(s) == Good(s.view, s.material, Me, Me)

\* every plaintext has to name its zone and key, or nothing is sent
JoinCircle ==
  /\ pc = "joining" /\ call.as \in circleRead /\ opened # {}
  /\ \A s \in opened : s.named /\ s.material # None
  /\ circleNow' = circleNow \cup {Me} /\ circleRead' = circleNow'
  /\ shares' = shares \cup {Readdressed(s) : s \in opened}
  /\ \E known \in BOOLEAN :
       saltOf' = [p \in DOMAIN saltOf \cup {Me} |->
                     IF p # Me THEN saltOf[p] ELSE IF known THEN "adsid" ELSE "dsid"]
  /\ mine' = mine \cup {Me}
  /\ Finish
  /\ UNCHANGED <<gen, items, current, changes, keys, service>>

\* a request fails, a view or an item cannot be read: the call raises
KeysFail == pc # "idle" /\ Finish /\ UNCHANGED <<others, circleRead, mine, keys, service>>

-----------------------------------------------------------------------------
Begun == ResumeKeys \/ ServiceKeys \/ Join
Step  == ReadDirectory \/ FetchShares \/ ReadView \/ UseKeys \/ ReadService \/ JoinCircle

KeysNext == JoinOther \/ Roll \/ AddItem \/ Recover \/ Refresh \/ Begun \/ Step \/ KeysFail

KeysSpec == KeysInit /\ [][KeysNext]_keysVars

-----------------------------------------------------------------------------
(* Properties *)

\* What a peer can reach at all: whatever is wrapped under a key it has or
\* reaches, through the shares, the class keys and the items of a view.
Boxes(p) ==
  {[to |-> s.to, holds |-> s.material] : s \in {x \in shares : x.receiver = p}}
  \cup {[to |-> Tlk(v), holds |-> Class(v, c)] : v \in Views, c \in Slots}

Unboxed(p, known) == known \cup {b.holds : b \in {x \in Boxes(p) : x.to \in known}}

Blobs(i) == {ItemOf[i].declared[n] : n \in DOMAIN ItemOf[i].declared}
            \cup {ItemOf[i].members[n] : n \in DOMAIN ItemOf[i].members}

Sound(i) == ItemOf[i].intact /\ \A b \in Blobs(i) : b.kind # "forged"

ReachIn(p, some) ==
  LET known == Unboxed(p, Unboxed(p, {Encryption(p), Signing(p)}))
  IN {b.key : b \in UNION {{x \in Blobs(i) : x.kind # "other"} :
                             i \in {j \in some : Sound(j) /\ ClassKey(j) \in known}}}

Reach(p) == ReachIn(p, items)

\* the items a listing by acct cannot lose: with an acct, and no other that
\* can be decrypted has the same
Listed ==
  {i \in items : /\ ItemOf[i].acct # None
                 /\ \A j \in items : ItemOf[j].intact /\ SameAcct(i, j) => j = i}

Undisturbed == call.begun = changes

Senders(p) == {s.sender : s \in {x \in shares : x.receiver = p}}

Resumed == pc = "reading" /\ call.op = "resume" /\ call.left = {} /\ keys' = call.got /\ pc' = "idle"

\* "Every elliptic-curve key a keychain view holds" (pcs_keys), as far as it is
\* so: a resume that nothing disturbs and whose directory has the senders of
\* its shares ends with keys its peer can reach and no other, and with all of
\* those whose item no other of the same acct replaces, whatever shares, class
\* keys and items beside them cannot be read.
AllKeysRead ==
  Resumed /\ Undisturbed /\ Senders(call.as) \subseteq circleRead =>
    keys' \subseteq Reach(call.as) /\ ReachIn(call.as, Listed) \subseteq keys'

ResumeReadsAll == [][AllKeysRead]_keysVars

\* "A member fetches whatever the current shares hold, every time" (resume):
\* the same of every undisturbed resume, whoever shared the keys.
RollFollowed == Resumed /\ Undisturbed => ReachIn(call.as, Listed) \subseteq keys'

ResumeFollowsTheRoll == [][RollFollowed]_keysVars

\* service_keys gives the key of the item the view's pointer names, and first
\* the one its own public half confirms: what unwraps a record.
Confirmed(i) == {b.key : b \in {x \in Blobs(i) : x.kind = "pair"}}

CurrentFirst ==
  service' \notin {service, <<>>} =>
    /\ current \in items /\ ItemOf[current].intact
    /\ service'[1] \in {b.key : b \in {x \in Blobs(current) : x.kind \in {"pair", "bare"}}}
    /\ Confirmed(current) # {} => service'[1] \in Confirmed(current)

ServiceKeyIsCurrent == [][CurrentFirst]_keysVars

\* A join re-addresses everything: the new peer reaches what its sponsor did,
\* with its own keys and no other (join, make_share).
SponsorsReachKept == Me \in circleNow' \ circleNow /\ Undisturbed => (Reach(Me))' = Reach(call.as)

JoinLosesNothing == [][SponsorsReachKept]_keysVars
=============================================================================
