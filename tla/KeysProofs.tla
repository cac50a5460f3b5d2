----------------------------- MODULE KeysProofs -----------------------------
(***************************************************************************)
(* A device that joins the circle reaches what its sponsor does; a service *)
(* key is the current item's; a resume reads all that its peer reaches.    *)
(* All for every set of devices, views and items, whatever others do.      *)
(***************************************************************************)
EXTENDS Keys, TLAPS, FiniteSetTheorems

\* the private keys of a peer
Ours(p) == {Encryption(p), Signing(p)}

\* what a share may hold: nothing of a class key
IsTlk(k) == k = None \/ k.kind = "tlk"

\* made in the circle, for one in the circle, and not declared to be for one
\* of its keys while it is for the other
ShareRight(s) ==
  /\ s.view \in Views /\ s.sender \in circleNow /\ s.receiver \in circleNow
  /\ IsTlk(s.material)
  /\ s.to \in Ours(s.receiver) /\ s.declared \in Ours(s.receiver) => s.to = s.declared

Opens(s, p) == s.receiver = p /\ s.to \in Ours(p)

OpenedBy(p) == {Unwrapped(s) : s \in {x \in shares : Opens(x, p)}}

\* a join that nothing has disturbed knows the circle, and then has opened
\* every share that its sponsor can open
Joining ==
  call.op = "join" /\ Undisturbed =>
    /\ pc \in {"shares", "joining"} => circleRead = circleNow
    /\ pc = "joining" => opened = OpenedBy(call.as)

KeyInv ==
  /\ changes \in 0 .. MaxChanges /\ gen \in [Views -> 0 .. changes]
  /\ circleNow \subseteq Names
  /\ \A s \in shares : ShareRight(s)
  /\ \A o \in opened : o.view \in Views /\ IsTlk(o.material)
  /\ call.begun \in Nat /\ call.begun <= changes
  /\ pc = "joining" => call.op = "join"
  /\ Joining

USE BoundAssumption, NameAssumption, NoneAssumption

\* the keys of peers and views are keys, and so not None
LEMMA KeyType ==
  /\ \A p \in Names : Encryption(p) \in Key /\ Signing(p) \in Key
  /\ \A v \in Views, n \in 0 .. MaxChanges, k \in {"tlk"} \cup Slots :
       [kind |-> k, of |-> v, gen |-> n] \in Key
BY DEF Encryption, Signing, Key

\* a peer's two keys tell themselves from each other's and from a view's
LEMMA OursApart ==
  ASSUME NEW p, NEW q
  PROVE  /\ Encryption(p) = Encryption(q) => p = q
         /\ Signing(p) = Signing(q) => p = q
         /\ Encryption(p) # Signing(q)
         /\ Encryption(p).kind = "encryption" /\ Signing(p).kind = "signing"
<1>1. /\ Encryption(p).of = p /\ Encryption(q).of = q /\ Signing(p).of = p /\ Signing(q).of = q
      /\ Encryption(p).kind = "encryption" /\ Signing(p).kind = "signing"
      /\ Signing(q).kind = "signing"
  BY DEF Encryption, Signing
<1> QED
  BY <1>1

\* a share made by make_share is right
LEMMA GoodRight ==
  ASSUME NEW v \in Views, NEW t, IsTlk(t), NEW from \in circleNow, NEW p \in circleNow
  PROVE  ShareRight(Good(v, t, from, p))
BY DEF ShareRight, Good

\* and so are the odd ones that may lie beside it
LEMMA OddRight ==
  ASSUME NEW v \in Views, NEW t, IsTlk(t), NEW from \in circleNow, NEW p \in circleNow, from # p,
         circleNow \subseteq Names, NEW s \in Odd(Good(v, t, from, p))
  PROVE  ShareRight(s)
<1> DEFINE g == Good(v, t, from, p)
<1>0. /\ g.view = v /\ g.sender = from /\ g.receiver = p /\ g.to = Encryption(p)
      /\ g.declared = Encryption(p) /\ g.material = t
      /\ DOMAIN g = {"view", "sender", "receiver", "to", "declared", "material", "named"}
  BY DEF Good
<1>1. CASE s = [g EXCEPT !.to = Encryption(g.sender)]
  <2>1. s = [view |-> v, sender |-> from, receiver |-> p, to |-> Encryption(from),
             declared |-> Encryption(p), material |-> t, named |-> TRUE]
    BY <1>1 DEF Good
  <2>2. Encryption(from) \notin Ours(p)
    BY OursApart DEF Ours
  <2> QED
    BY <2>1, <2>2 DEF ShareRight
<1>2. CASE s = [g EXCEPT !.to = Signing(g.receiver), !.declared = None]
  <2>1. s = [view |-> v, sender |-> from, receiver |-> p, to |-> Signing(p),
             declared |-> None, material |-> t, named |-> TRUE]
    BY <1>2 DEF Good
  <2>2. None \notin Ours(p)
    BY KeyType DEF Ours
  <2> QED
    BY <2>1, <2>2 DEF ShareRight
<1>3. CASE s = [g EXCEPT !.material = None]
  <2>1. s = [view |-> v, sender |-> from, receiver |-> p, to |-> Encryption(p),
             declared |-> Encryption(p), material |-> None, named |-> TRUE]
    BY <1>3 DEF Good
  <2> QED
    BY <2>1 DEF ShareRight, IsTlk
<1>4. CASE s = [g EXCEPT !.named = FALSE]
  <2>1. s = [view |-> v, sender |-> from, receiver |-> p, to |-> Encryption(p),
             declared |-> Encryption(p), material |-> t, named |-> FALSE]
    BY <1>4 DEF Good
  <2> QED
    BY <2>1 DEF ShareRight
<1> QED
  BY <1>1, <1>2, <1>3, <1>4 DEF Odd

\* a view's current key is one
LEMMA TlkIsTlk == \A v : IsTlk(Tlk(v)) /\ IsTlk([Tlk(v) EXCEPT !.gen = @ + 1])
BY DEF IsTlk, Tlk

\* the circle as it was found is in order
LEMMA InitKeyInv == KeysInit => KeyInv
<1> SUFFICES ASSUME KeysInit PROVE KeyInv
  OBVIOUS
<1>1. circleNow \subseteq Devices /\ circleNow \subseteq Names
  BY DEF KeysInit, Names
<1>2. PICK from \in circleNow, v \in Views :
        \E p \in circleNow \ {from} : \E odd \in Odd(Good(v, Tlk(v), p, from)) :
          shares \subseteq {odd} \cup {Good(w, Tlk(w), from, q) : w \in Views, q \in circleNow}
  BY DEF KeysInit
<1>3. PICK p \in circleNow \ {from} : \E odd \in Odd(Good(v, Tlk(v), p, from)) :
        shares \subseteq {odd} \cup {Good(w, Tlk(w), from, q) : w \in Views, q \in circleNow}
  BY <1>2
<1>4. PICK odd \in Odd(Good(v, Tlk(v), p, from)) :
         shares \subseteq {odd} \cup {Good(w, Tlk(w), from, q) : w \in Views, q \in circleNow}
  BY <1>3
<1>5. \A w \in Views, q \in circleNow : ShareRight(Good(w, Tlk(w), from, q))
  BY GoodRight, TlkIsTlk
<1>6. ShareRight(odd)
  BY <1>1, OddRight, TlkIsTlk
<1>7. \A s \in shares : ShareRight(s)
  BY <1>4, <1>5, <1>6
<1>8. gen \in [Views -> 0 .. changes] /\ changes \in 0 .. MaxChanges
  BY DEF KeysInit
<1> QED
  BY <1>1, <1>7, <1>8 DEF KeysInit, NoCall, KeyInv, Joining

\* a change others make disturbs what is under way
LEMMA ChangeDisturbs ==
  ASSUME KeyInv, Change, UNCHANGED session,
         gen' \in [Views -> 0 .. changes'], circleNow' \subseteq Names,
         \A s \in shares' : ShareRight(s)'
  PROVE  KeyInv'
<1>1. changes \in Nat /\ changes' = changes + 1 /\ changes' \in 0 .. MaxChanges
  BY DEF KeyInv, Change
<1>2. call' = call /\ call.begun # changes'
  BY <1>1 DEF KeyInv, session
<1>3. Joining'
  BY <1>2 DEF Joining, Undisturbed
<1>4. \A o \in opened' : o.view \in Views /\ IsTlk(o.material)
  BY DEF KeyInv, session
<1>5. call'.begun \in Nat /\ call'.begun <= changes' /\ (pc' = "joining" => call'.op = "join")
  BY <1>1, <1>2 DEF KeyInv, session
<1> QED
  BY <1>1, <1>3, <1>4, <1>5 DEF KeyInv, IsTlk

\* others join, roll a view's keys and add items
LEMMA OthersPreserve ==
  ASSUME KeyInv, JoinOther \/ Roll \/ AddItem
  PROVE  KeyInv'
<1>0. /\ Change /\ UNCHANGED session /\ changes \in Nat /\ changes' = changes + 1
      /\ gen \in [Views -> 0 .. changes] /\ circleNow \subseteq Names
      /\ \A s \in shares : ShareRight(s)
  BY DEF JoinOther, Roll, AddItem, Change, KeyInv
<1>1. gen \in [Views -> 0 .. changes']
  BY <1>0
<1>2. CASE JoinOther
  <2>1. /\ shares' = shares /\ gen' = gen /\ circleNow \subseteq circleNow' /\ circleNow' \subseteq Names
    BY <1>0, <1>2 DEF JoinOther, Names
  <2>2. \A s \in shares' : ShareRight(s)'
    BY <1>0, <2>1 DEF ShareRight, IsTlk
  <2> QED
    BY <1>0, <1>1, <2>1, <2>2, ChangeDisturbs
<1>3. CASE Roll
  <2>1. PICK v \in Views, from \in circleNow :
          /\ gen' = [gen EXCEPT ![v] = @ + 1]
          /\ shares' = {s \in shares : s.view # v}
                       \cup {Good(v, [Tlk(v) EXCEPT !.gen = @ + 1], from, p) : p \in circleNow}
    BY <1>3 DEF Roll
  <2>2. circleNow' = circleNow
    BY <1>3 DEF Roll
  <2>3. \A s \in shares' : ShareRight(s)
    BY <1>0, <2>1, GoodRight, TlkIsTlk
  <2>4. \A s \in shares' : ShareRight(s)'
    BY <2>2, <2>3 DEF ShareRight, IsTlk
  <2>5. gen[v] + 1 \in 0 .. changes'
    BY <1>0
  <2>6. gen' \in [Views -> 0 .. changes']
    BY <1>1, <2>1, <2>5
  <2> QED
    BY <1>0, <2>2, <2>4, <2>6, ChangeDisturbs
<1>4. CASE AddItem
  <2>1. shares' = shares /\ gen' = gen /\ circleNow' = circleNow
    BY <1>4 DEF AddItem
  <2>2. \A s \in shares' : ShareRight(s)'
    BY <1>0, <2>1 DEF ShareRight, IsTlk
  <2> QED
    BY <1>0, <1>1, <2>1, <2>2, ChangeDisturbs
<1> QED
  BY <1>2, <1>3, <1>4

\* a share whose sender is known opens if it can
LEMMA KnownOpens ==
  ASSUME KeyInv, Senders(call.as) \subseteq circleRead, NEW s \in shares
  PROVE  Plaintext(s) <=> Opens(s, call.as)
<1>1. ShareRight(s)
  BY DEF KeyInv
<1>2. s.receiver = call.as => Known(s)
  BY DEF Known, Senders
<1>3. s.receiver = call.as => (s.to \in Candidates(s) <=> s.to \in Ours(call.as))
  BY <1>1 DEF Candidates, ShareRight, Ours
<1> QED
  BY <1>2, <1>3 DEF Plaintext, Opens

\* what a share opens to is of its view, and is what it holds
LEMMA UnwrappedIs ==
  ASSUME NEW s
  PROVE  /\ Unwrapped(s).view = s.view /\ Unwrapped(s).material = s.material
BY DEF Unwrapped

\* when nothing but the client's locals change, what a join has is kept
LEMMA LocalPreserves ==
  ASSUME KeyInv, UNCHANGED others, call'.begun \in Nat, call'.begun <= changes,
         \A o \in opened' : o.view \in Views /\ IsTlk(o.material),
         pc' = "joining" => call'.op = "join", Joining'
  PROVE  KeyInv'
BY DEF KeyInv, others, ShareRight, IsTlk

\* the session's steps other than that of joining
LEMMA SessionPreserves ==
  ASSUME KeyInv, Recover \/ Refresh \/ Begun \/ ReadDirectory \/ FetchShares \/ ReadView
                   \/ UseKeys \/ ReadService \/ KeysFail
  PROVE  KeyInv'
<1>a. UNCHANGED others
  BY DEF Recover, Refresh, Begun, ResumeKeys, ServiceKeys, Join, Begin, ReadDirectory, FetchShares,
         ReadView, UseKeys, ReadService, KeysFail
<1>b. /\ changes \in Nat /\ call.begun \in Nat /\ call.begun <= changes
      /\ \A o \in opened : o.view \in Views /\ IsTlk(o.material)
      /\ pc = "joining" => call.op = "join"
      /\ Joining /\ \A s \in shares : ShareRight(s)
  BY DEF KeyInv
<1>0. /\ UNCHANGED others /\ changes \in Nat /\ call.begun \in Nat /\ call.begun <= changes
      /\ \A o \in opened : o.view \in Views /\ IsTlk(o.material)
      /\ pc = "joining" => call.op = "join"
      /\ Joining /\ \A s \in shares : ShareRight(s)
  BY <1>a, <1>b
<1>1. CASE Recover \/ Refresh
  <2>1. pc = "idle" /\ pc' = pc /\ call' = call /\ opened' = opened
    BY <1>1 DEF Recover, Refresh
  <2>2. Joining'
    BY <2>1 DEF Joining
  <2> QED
    BY <1>0, <2>1, <2>2, LocalPreserves
<1>2. CASE Begun
  <2>1. PICK op \in {"resume", "service", "join"}, as \in Names, views \in SUBSET Views :
          Begin(op, as, views)
    BY <1>2 DEF Begun, ResumeKeys, ServiceKeys, Join, Names
  <2>2. /\ call' = [op |-> op, as |-> as, begun |-> changes, left |-> views, got |-> {}]
        /\ pc' = (IF circleRead = None \/ op = "join" THEN "directory" ELSE "shares")
        /\ opened' = opened
    BY <2>1 DEF Begin
  <2>3. call'.begun = changes /\ call'.op = op /\ (op = "join" => pc' = "directory")
    BY <2>2
  <2>4. Joining' /\ pc' # "joining"
    BY <2>2, <2>3 DEF Joining
  <2> QED
    BY <1>0, <2>2, <2>3, <2>4, LocalPreserves
<1>3. CASE ReadDirectory
  <2>1. circleRead' = circleNow /\ pc' = "shares" /\ call' = call /\ opened' = opened
    BY <1>3 DEF ReadDirectory
  <2>2. Joining'
    BY <1>0, <2>1 DEF Joining, others
  <2> QED
    BY <1>0, <2>1, <2>2, LocalPreserves
<1>4. CASE FetchShares
  <2>1. /\ pc = "shares" /\ opened' = {Unwrapped(s) : s \in {x \in shares : Plaintext(x)}}
        /\ pc' = (IF call.op = "join" THEN "joining" ELSE "reading")
        /\ call' = call /\ circleRead' = circleRead
    BY <1>4 DEF FetchShares
  <2>2. \A o \in opened' : o.view \in Views /\ IsTlk(o.material)
    BY <1>0, <2>1, UnwrappedIs DEF ShareRight
  <2>3. ASSUME call.op = "join", Undisturbed
        PROVE  circleRead = circleNow /\ opened' = OpenedBy(call.as)
    <3>1. circleRead = circleNow
      BY <1>0, <2>1, <2>3 DEF Joining
    <3>2. Senders(call.as) \subseteq circleRead
      BY <1>0, <3>1 DEF Senders, ShareRight
    <3>3. {x \in shares : Plaintext(x)} = {x \in shares : Opens(x, call.as)}
      BY <3>2, KnownOpens
    <3> QED
      BY <2>1, <3>1, <3>3 DEF OpenedBy
  <2>4. OpenedBy(call.as)' = OpenedBy(call.as)
    BY <1>0, <2>1 DEF OpenedBy, others, Opens, Unwrapped, Keyring, Tlk, Class
  <2>5. Joining'
    BY <1>0, <2>1, <2>3, <2>4 DEF Joining, Undisturbed, others
  <2> QED
    BY <1>0, <2>1, <2>2, <2>5, LocalPreserves
<1>5. CASE ReadView
  <2>1. /\ pc = "reading" /\ pc' = pc /\ opened' = opened
        /\ \E v, found : call' = [call EXCEPT !.left = @ \ {v}, !.got = @ \cup found]
    BY <1>5 DEF ReadView
  <2>2. call'.begun = call.begun
    BY <2>1
  <2>3. Joining'
    BY <2>1 DEF Joining
  <2> QED
    BY <1>0, <2>1, <2>2, <2>3, LocalPreserves
<1>6. CASE UseKeys \/ ReadService \/ KeysFail
  <2>1. pc' = "idle" /\ call'.begun = 0 /\ opened' = {}
    BY <1>6 DEF UseKeys, ReadService, KeysFail, Finish, NoCall
  <2>2. Joining'
    BY <2>1 DEF Joining
  <2> QED
    BY <1>0, <2>1, <2>2, LocalPreserves
<1> QED
  BY <1>1, <1>2, <1>3, <1>4, <1>5, <1>6

\* the new peer's shares are in order
LEMMA JoinPreserves == ASSUME KeyInv, JoinCircle PROVE KeyInv'
<1>1. /\ circleNow' = circleNow \cup {Me} /\ shares' = shares \cup {Readdressed(s) : s \in opened}
      /\ pc' = "idle" /\ call'.begun = 0 /\ opened' = {} /\ gen' = gen /\ changes' = changes
  BY DEF JoinCircle, Finish, NoCall
<1>2. \A s \in shares : ShareRight(s)'
  BY <1>1 DEF KeyInv, ShareRight
<1>3. \A o \in opened : ShareRight(Readdressed(o))'
  BY <1>1 DEF KeyInv, ShareRight, Readdressed, Good
<1>4. \A s \in shares' : ShareRight(s)'
  BY <1>1, <1>2, <1>3
<1>5. Joining'
  BY <1>1 DEF Joining
<1> QED
  BY <1>1, <1>4, <1>5 DEF KeyInv, Names

\* no step breaks the invariant
LEMMA NextKeyInv == KeyInv /\ [KeysNext]_keysVars => KeyInv'
<1>1. ASSUME KeyInv, UNCHANGED keysVars PROVE KeyInv'
  <2>1. UNCHANGED others /\ UNCHANGED <<pc, call, opened, circleRead>>
    BY <1>1 DEF keysVars, session
  <2>2. OpenedBy(call.as)' = OpenedBy(call.as)
    BY <2>1 DEF OpenedBy, others, Opens, Unwrapped, Keyring, Tlk, Class
  <2>3. Joining'
    BY <1>1, <2>1, <2>2 DEF KeyInv, Joining, Undisturbed, others
  <2> QED
    BY <1>1, <2>1, <2>3, LocalPreserves DEF KeyInv
<1> QED
  BY <1>1, OthersPreserve, SessionPreserves, JoinPreserves DEF KeysNext, Step

\* the invariant holds in every reachable state
LEMMA Invariant == KeysSpec => []KeyInv
BY InitKeyInv, NextKeyInv, PTL DEF KeysSpec

-----------------------------------------------------------------------------
(* What a peer reaches *)

\* a share it can open holds the view's key
Has(p, v) == \E s \in shares : Opens(s, p) /\ s.material = Tlk(v)

ReachOf(p, some) ==
  {b.key : b \in UNION {{x \in Blobs(i) : x.kind # "other"} :
                          i \in {j \in some : Sound(j) /\ Has(p, ItemOf[j].view)}}}

\* a peer reaches the items of a view if a share it can open holds its key,
\* and by no other way
LEMMA ReachByShare ==
  ASSUME KeyInv, items \subseteq Items, NEW p \in Names, NEW some \in SUBSET items
  PROVE  ReachIn(p, some) = ReachOf(p, some)
<1> DEFINE ours == {Encryption(p), Signing(p)}
           one == Unboxed(p, ours)
           two == Unboxed(p, one)
<1>1. ASSUME NEW v \in Views, NEW c \in Slots
      PROVE  Class(v, c) \in two <=> Has(p, v)
  <2> DEFINE k == Class(v, c)
  <2>0. gen[v] \in 0 .. MaxChanges
    BY DEF KeyInv
  <2>1. k \in Key /\ k.kind = c /\ k # None
    BY <2>0, KeyType DEF Class
  <2>2. c \notin {"tlk", "encryption", "signing"}
    BY DEF Slots
  <2>3. k \notin ours
    BY <2>1, <2>2, OursApart
  <2>4. \A s \in shares : s.material # k
    BY <2>1, <2>2 DEF KeyInv, ShareRight, IsTlk
  <2>5. \A known : k \in Unboxed(p, known) <=> k \in known \/ Tlk(v) \in known
    <3>1. ASSUME NEW w \in Views, NEW d \in Slots, Class(w, d) = k
          PROVE  w = v
      BY <3>1 DEF Class
    <3>2. \A b \in Boxes(p) : b.holds = k => b.to = Tlk(v)
      <4>1. \A b \in Boxes(p) :
              \/ \E s \in shares : b.holds = s.material
              \/ \E w \in Views, d \in Slots : b.to = Tlk(w) /\ b.holds = Class(w, d)
        BY DEF Boxes
      <4> QED
        BY <2>4, <3>1, <4>1
    <3>3. [to |-> Tlk(v), holds |-> k] \in Boxes(p)
      BY DEF Boxes
    <3> HIDE DEF k
    <3> QED
      BY <3>2, <3>3 DEF Unboxed
  <2>6. k \in two <=> k \in one \/ Tlk(v) \in one
    BY <2>5
  <2>7. Tlk(v).kind = "tlk" /\ Tlk(v) \notin ours
    BY OursApart DEF Tlk
  <2>8. k \notin one
    BY <2>3, <2>5, <2>7
  <2>9. Tlk(v) \in one <=> Has(p, v)
    <3>1. \A b \in Boxes(p) : b.holds = Tlk(v) =>
            \E s \in shares : s.receiver = p /\ b.to = s.to /\ s.material = Tlk(v)
      <4>1. \A w \in Views, d \in Slots : Class(w, d) # Tlk(v)
        <5>1. \A w \in Views, d \in Slots : Class(w, d).kind = d /\ d # "tlk"
          BY DEF Class, Slots
        <5> QED
          BY <2>7, <5>1
      <4> QED
        BY <4>1 DEF Boxes
    <3>2. \A s \in shares : s.receiver = p =>
            [to |-> s.to, holds |-> s.material] \in Boxes(p)
      BY DEF Boxes
    <3>3. Tlk(v) \in one <=> \E b \in Boxes(p) : b.to \in ours /\ b.holds = Tlk(v)
      BY <2>7 DEF Unboxed
    <3>4. ASSUME NEW s \in shares, Opens(s, p), s.material = Tlk(v)
          PROVE  Tlk(v) \in one
      <4> DEFINE b == [to |-> s.to, holds |-> s.material]
      <4>1. b \in Boxes(p) /\ b.to = s.to /\ b.holds = s.material
        BY <3>2, <3>4 DEF Opens
      <4>2. b.to \in ours
        BY <3>4, <4>1 DEF Opens, Ours
      <4> HIDE DEF b
      <4> QED
        BY <3>3, <3>4, <4>1, <4>2
    <3>5. Tlk(v) \in one => Has(p, v)
      <4>1. SUFFICES ASSUME NEW b \in Boxes(p), b.to \in ours, b.holds = Tlk(v)
                     PROVE  Has(p, v)
        BY <3>3
      <4>2. PICK s \in shares : s.receiver = p /\ b.to = s.to /\ s.material = Tlk(v)
        BY <3>1, <4>1
      <4> QED
        BY <4>1, <4>2 DEF Has, Opens, Ours
    <3> QED
      BY <3>4, <3>5 DEF Has
  <2> QED
    BY <2>6, <2>8, <2>9
<1>2. \A j \in items : ItemOf[j].view \in Views /\ ItemOf[j].slot \in Slots
  BY ItemAssumption DEF Item
<1>3. \A j \in items : ClassKey(j) \in two <=> Has(p, ItemOf[j].view)
  BY <1>1, <1>2 DEF ClassKey
<1> HIDE DEF two
<1>4. {j \in some : Sound(j) /\ ClassKey(j) \in two}
        = {j \in some : Sound(j) /\ Has(p, ItemOf[j].view)}
  BY <1>3
<1> QED
  BY <1>4 DEF ReachIn, ReachOf, two

\* the items are those that are named
LEMMA ItemsNamed == KeysSpec => [](items \subseteq Items)
<1>1. KeysInit => items \subseteq Items
  BY DEF KeysInit
<1>2. items \subseteq Items /\ [KeysNext]_keysVars => (items \subseteq Items)'
  BY DEF KeysNext, Step, Begun, JoinOther, Roll, AddItem, Recover, Refresh, ResumeKeys, ServiceKeys,
         Join, Begin, ReadDirectory, FetchShares, ReadView, UseKeys, ReadService, JoinCircle,
         KeysFail, others, keysVars
<1> QED
  BY <1>1, <1>2, PTL DEF KeysSpec

Mine == Reach(Me) = ReachOf(Me, items)

\* in every reachable state, of the device that joins
LEMMA MineAlways == KeysSpec => []Mine
<1>1. KeyInv /\ items \subseteq Items => Mine
  BY ReachByShare DEF Names, Mine, Reach
<1> QED
  BY <1>1, Invariant, ItemsNamed, PTL

\* the step that joins hands on what the sponsor has, no more and no less
LEMMA JoinHandsOn ==
  ASSUME KeyInv, Mine', items \subseteq Items, JoinCircle, Me \notin circleNow, Undisturbed
  PROVE  (Reach(Me))' = Reach(call.as)
<1>1. /\ pc = "joining" /\ shares' = shares \cup {Readdressed(s) : s \in opened}
      /\ UNCHANGED <<gen, items>> /\ call.as \in circleRead
  BY DEF JoinCircle
<1>2. opened = OpenedBy(call.as) /\ circleRead = circleNow /\ call.as \in Names
  BY <1>1 DEF KeyInv, Joining
<1>3. \A v : Tlk(v)' = Tlk(v)
  BY <1>1 DEF Tlk
<1>4. \A s \in shares : s.receiver # Me
  BY DEF KeyInv, ShareRight
<1>5. ASSUME NEW v
      PROVE  (Has(Me, v))' <=> \E o \in opened : o.material = Tlk(v)
  <2>1. \A o \in opened : /\ Readdressed(o).receiver = Me /\ Readdressed(o).to = Encryption(Me)
                          /\ Readdressed(o).material = o.material
    BY DEF Readdressed, Good
  <2>2. \A o \in opened : Opens(Readdressed(o), Me) /\ Readdressed(o) \in shares'
    BY <1>1, <2>1 DEF Opens, Ours
  <2>3. \A s \in shares' : Opens(s, Me) => \E o \in opened : s = Readdressed(o)
    BY <1>1, <1>4 DEF Opens
  <2>4. (Has(Me, v))' <=> \E s \in shares' : Opens(s, Me) /\ s.material = Tlk(v)
    BY <1>3 DEF Has, Opens, Ours
  <2> QED
    BY <2>1, <2>2, <2>3, <2>4
<1>6. ASSUME NEW v
      PROVE  Has(call.as, v) <=> \E o \in opened : o.material = Tlk(v)
  BY <1>2, UnwrappedIs DEF OpenedBy, Has
<1>7. (ReachOf(Me, items))' = ReachOf(call.as, items)
  <2>1. {j \in items' : Sound(j) /\ (Has(Me, ItemOf[j].view))'}
          = {j \in items : Sound(j) /\ Has(call.as, ItemOf[j].view)}
    BY <1>1, <1>5, <1>6
  <2> QED
    BY <2>1 DEF ReachOf, Sound, Blobs
<1>8. (Reach(Me))' = (ReachOf(Me, items))'
  BY DEF Mine
<1>9. Reach(call.as) = ReachOf(call.as, items)
  BY <1>2, ReachByShare DEF Reach
<1> QED
  BY <1>7, <1>8, <1>9

\* A device that joins a circle in which nothing changes meanwhile reaches
\* exactly the keys its sponsor reaches, through shares of its own: whichever
\* views, items and peers there are, whatever shares cannot be opened, and
\* whatever others changed before the join began.
THEOREM JoinKeepsReach == KeysSpec => JoinLosesNothing
<1>1. KeyInv /\ Mine' /\ items \subseteq Items /\ [KeysNext]_keysVars => [SponsorsReachKept]_keysVars
  <2> SUFFICES ASSUME KeyInv, Mine', items \subseteq Items, [KeysNext]_keysVars,
                      Me \in circleNow' \ circleNow, Undisturbed
               PROVE  (Reach(Me))' = Reach(call.as)
    BY DEF SponsorsReachKept
  <2>1. JoinCircle
    BY NameAssumption DEF KeysNext, Step, Begun, JoinOther, Roll, AddItem, Recover, Refresh, ResumeKeys,
         ServiceKeys, Join, Begin, ReadDirectory, FetchShares, ReadView, UseKeys, ReadService,
         KeysFail, others, keysVars
  <2> QED
    BY <2>1, JoinHandsOn
<1> QED
  BY <1>1, Invariant, MineAlways, ItemsNamed, PTL DEF KeysSpec, JoinLosesNothing
-----------------------------------------------------------------------------
(* The order in which an item's keys are taken *)

\* some of a sequence's positions have a first one
LEMMA FirstExists ==
  ASSUME NEW S \in SUBSET Nat, S # {}
  PROVE  \E m \in S : \A n \in S : m <= n
<1>1. PICK m \in S : \A n \in S : ~(<<n, m>> \in OpToRel(<, Nat))
  BY NatLessThanWellFounded, WFMin
<1>2. ASSUME NEW n \in S PROVE m <= n
  <2>1. ~(n < m)
    BY <1>1 DEF OpToRel
  <2> QED
    BY <2>1
<1> QED
  BY <1>2

\* a key that a public half confirms is taken first, if there is one
LEMMA FirstRanked ==
  ASSUME NEW blobs \in Seq(Blob), Scalars(blobs) # {}
  PROVE  /\ Ranked(blobs, 1) \in Scalars(blobs)
         /\ \A k \in Scalars(blobs) : ~Ahead(blobs, k, Ranked(blobs, 1))
         /\ Verified(blobs) => IsPair(blobs[Ranked(blobs, 1)])
<1> DEFINE S == Scalars(blobs)
           Before(m) == {k \in S : Ahead(blobs, k, m)}
<1>1. S \subseteq 1 .. Len(blobs) /\ Len(blobs) \in Nat /\ S # {} /\ DOMAIN blobs = 1 .. Len(blobs)
  BY DEF Scalars
<1>2. IsFiniteSet(S)
  <2>1. IsFiniteSet(1 .. Len(blobs))
    BY <1>1, FS_Interval
  <2> HIDE DEF S
  <2> QED
    BY <1>1, <2>1, FS_Subset
<1>3. \A n \in DOMAIN blobs : IsPair(blobs[n]) => n \in S
  BY DEF Scalars, IsPair, IsScalar
<1>4. \E m \in S : Before(m) = {}
  <2> DEFINE P == {n \in S : IsPair(blobs[n])}
             T == IF P # {} THEN P ELSE S
  <2>1. T \subseteq Nat /\ T # {}
    BY <1>1
  <2>2. PICK m \in T : \A n \in T : m <= n
    <3> HIDE DEF T
    <3> QED
      BY <2>1, FirstExists
  <2>3. ASSUME NEW k \in S PROVE ~Ahead(blobs, k, m)
    <3> HIDE DEF S
    <3>1. k \in Nat /\ m \in Nat /\ (IsPair(blobs[k]) <=> k \in P)
      BY <1>1, <2>1
    <3>2. k \in T => ~(k < m)
      BY <2>2, <3>1
    <3>3. m \in S /\ (P # {} => IsPair(blobs[m])) /\ (P = {} => k \in T /\ ~IsPair(blobs[k]))
      BY <2>2, <3>1
    <3> QED
      BY <3>1, <3>2, <3>3 DEF Ahead
  <2>4. m \in S
    BY <2>2
  <2> QED
    BY <2>3, <2>4
<1>5. \E m \in S : Cardinality(Before(m)) = 1 - 1
  <2>1. PICK m \in S : Before(m) = {}
    BY <1>4
  <2>2. Cardinality(Before(m)) = 0
    BY <2>1, FS_EmptySet
  <2> HIDE DEF S, Before
  <2> QED
    BY <2>2
<1> DEFINE r == Ranked(blobs, 1)
<1>6. r \in S /\ Cardinality(Before(r)) = 0
  <2>1. r = CHOOSE m \in S : Cardinality(Before(m)) = 1 - 1
    BY DEF Ranked
  <2> HIDE DEF S, Before, r
  <2> QED
    BY <1>5, <2>1
<1>7. Before(r) = {}
  <2>1. Before(r) \subseteq S
    OBVIOUS
  <2> HIDE DEF S, Before, r
  <2>2. IsFiniteSet(Before(r))
    BY <1>2, <2>1, FS_Subset
  <2> QED
    BY <1>6, <2>2, FS_EmptySet
<1>8. ASSUME Verified(blobs) PROVE IsPair(blobs[r])
  <2>1. PICK n \in DOMAIN blobs : IsPair(blobs[n])
    BY <1>8 DEF Verified
  <2>2. ~Ahead(blobs, n, r)
    <3> HIDE DEF S, r
    <3> QED
      BY <1>3, <1>7, <2>1
  <2> HIDE DEF S, r
  <2> QED
    BY <2>1, <2>2 DEF Ahead
<1> QED
  BY <1>6, <1>7, <1>8

\* what an item gives first is one of its own keys, and confirmed if any is
LEMMA FirstKey ==
  ASSUME NEW i \in Items, ServiceKeysFromDer(i) # <<>>
  PROVE  /\ ServiceKeysFromDer(i)[1] \in {b.key : b \in {x \in Blobs(i) : x.kind \in {"pair", "bare"}}}
         /\ Confirmed(i) # {} => ServiceKeysFromDer(i)[1] \in Confirmed(i)
<1> DEFINE c == Candidate(i)
           r == Ranked(c, 1)
           declared == ItemOf[i].declared
           members == ItemOf[i].members
<1>1. declared \in Seq(Blob) /\ members \in Seq(Blob) /\ c \in {declared, members}
  BY ItemAssumption DEF Item, Candidate
<1>2. ~Refused(declared) /\ (Verified(declared) \/ ~Refused(members))
  BY DEF ServiceKeysFromDer
<1>3. ServiceKeysFromDer(i) = [n \in (1 .. Cardinality(Scalars(c))) \cap {1, 2} |-> c[Ranked(c, n)].key]
  BY <1>2 DEF ServiceKeysFromDer
<1>4. Scalars(c) # {}
  <2>1. ASSUME Scalars(c) = {} PROVE FALSE
    <3>1. Cardinality(Scalars(c)) = 0
      BY <2>1, FS_EmptySet
    <3>2. (1 .. Cardinality(Scalars(c))) \cap {1, 2} = {}
      BY <3>1
    <3> QED
      BY <1>3, <3>2
  <2> QED
    BY <2>1
<1>5. ServiceKeysFromDer(i)[1] = c[r].key
  <2>1. Cardinality(Scalars(c)) \in Nat /\ Cardinality(Scalars(c)) # 0
    <3>1. IsFiniteSet(1 .. Len(c)) /\ Scalars(c) \subseteq 1 .. Len(c)
      BY <1>1, FS_Interval DEF Scalars
    <3>2. IsFiniteSet(Scalars(c))
      BY <3>1, FS_Subset
    <3> QED
      BY <1>4, <3>2, FS_EmptySet, FS_CardinalityType
  <2>2. 1 \in (1 .. Cardinality(Scalars(c))) \cap {1, 2}
    BY <2>1
  <2> HIDE DEF c
  <2> QED
    BY <1>3, <2>2
<1>6. c \in Seq(Blob)
  BY <1>1
<1> HIDE DEF c
<1>7. r \in Scalars(c) /\ (Verified(c) => IsPair(c[r]))
  BY <1>4, <1>6, FirstRanked
<1> HIDE DEF r, declared, members
<1>8. r \in DOMAIN c /\ c[r].kind \in {"pair", "bare", "forged"}
  BY <1>7 DEF Scalars, IsScalar
<1>9. c[r].kind # "forged"
  <2>1. c = declared \/ (c = members /\ ~Verified(declared))
    BY <1>1 DEF Candidate, c, declared, members
  <2> QED
    BY <1>2, <1>8, <2>1 DEF Refused
<1>10. c[r] \in Blobs(i)
  BY <1>1, <1>8 DEF Blobs, declared, members
<1>11. ASSUME Confirmed(i) # {} PROVE Verified(c)
  <2>1. Verified(declared) \/ Verified(members)
    BY <1>11 DEF Confirmed, Blobs, Verified, IsPair, declared, members
  <2>2. Scalars(members) = {} => ~Verified(members)
    BY DEF Scalars, Verified, IsScalar, IsPair
  <2> QED
    BY <2>1, <2>2 DEF Candidate, c, declared, members
<1> QED
  BY <1>5, <1>7, <1>8, <1>9, <1>10, <1>11 DEF Confirmed, IsPair

\* The service key is that of the item the pointer names when it is read, and
\* the first of it one that its own public half confirms whenever the item has
\* such a one: whatever else the item holds, and however it is laid out.
THEOREM CurrentServiceKey == KeysSpec => ServiceKeyIsCurrent
<1>1. items \subseteq Items /\ [KeysNext]_keysVars => [CurrentFirst]_keysVars
  <2> SUFFICES ASSUME items \subseteq Items, [KeysNext]_keysVars, service' \notin {service, <<>>}
               PROVE  CurrentFirst
    BY DEF CurrentFirst
  <2>1. ReadService
    BY DEF KeysNext, Step, Begun, JoinOther, Roll, AddItem, Recover, Refresh, ResumeKeys, ServiceKeys,
         Join, Begin, ReadDirectory, FetchShares, ReadView, UseKeys, JoinCircle, KeysFail, session, keysVars
  <2>2. /\ current \in items /\ service' = ServiceKeysFromDer(current)
        /\ ServiceKeysFromDer(current) # <<>> /\ ItemOf[current].intact
    BY <2>1 DEF ReadService, Readable
  <2> QED
    BY <2>2, FirstKey DEF CurrentFirst
<1> QED
  BY <1>1, ItemsNamed, PTL DEF KeysSpec, ServiceKeyIsCurrent
-----------------------------------------------------------------------------
(* What an item gives, all told *)

\* an item laid out as service_keys_from_der expects: its named fields are among
\* its members, they are all its keys when one of them proves itself, and there
\* are an encryption and a signing key at most
Legible(i) ==
  LET declared == ItemOf[i].declared
      members  == ItemOf[i].members
  IN /\ \A n \in DOMAIN declared : \E m \in DOMAIN members : members[m] = declared[n]
     /\ Verified(declared) =>
          \A m \in Scalars(members) : \E n \in DOMAIN declared : declared[n] = members[m]
     /\ Cardinality(Scalars(Candidate(i))) <= 2

\* what an item holds
Held(i) == {b.key : b \in {x \in Blobs(i) : x.kind # "other"}}

\* two keys at most are both taken
LEMMA BothRanked ==
  ASSUME NEW blobs \in Seq(Blob), Cardinality(Scalars(blobs)) <= 2
  PROVE  {Ranked(blobs, n) : n \in (1 .. Cardinality(Scalars(blobs))) \cap {1, 2}} = Scalars(blobs)
<1> DEFINE S == Scalars(blobs)
           Before(m) == {k \in S : Ahead(blobs, k, m)}
           r(n) == Ranked(blobs, n)
<1>1. S \subseteq Nat /\ IsFiniteSet(S) /\ Cardinality(S) \in Nat
  <2>1. S \subseteq 1 .. Len(blobs) /\ Len(blobs) \in Nat
    BY DEF Scalars
  <2>2. IsFiniteSet(1 .. Len(blobs))
    BY <2>1, FS_Interval
  <2> HIDE DEF S
  <2>3. S \subseteq Nat
    BY <2>1
  <2>4. IsFiniteSet(S)
    BY <2>1, <2>2, FS_Subset
  <2> QED
    BY <2>3, <2>4, FS_CardinalityType
<1>2. Cardinality(S) \in {0, 1, 2}
  BY <1>1
<1>3. CASE Cardinality(S) = 0
  <2>1. S = {}
    BY <1>1, <1>3, FS_EmptySet
  <2>2. (1 .. Cardinality(S)) \cap {1, 2} = {}
    BY <1>3
  <2> QED
    BY <2>1, <2>2
<1>4. CASE Cardinality(S) = 1
  <2>1. PICK m : S = {m}
    BY <1>1, <1>4, FS_Singleton
  <2>2. r(1) \in S
    BY <2>1, FirstRanked
  <2>3. (1 .. Cardinality(S)) \cap {1, 2} = {1}
    BY <1>4
  <2> HIDE DEF S, r
  <2> QED
    BY <2>1, <2>2, <2>3 DEF S, r
<1>5. CASE Cardinality(S) = 2
  <2>1. S # {}
    <3> HIDE DEF S
    <3> QED
      BY <1>1, <1>5, FS_EmptySet
  <2>2. r(1) \in S /\ \A k \in S : ~Ahead(blobs, k, r(1))
    BY <2>1, FirstRanked
  <2>3. IsFiniteSet(S \ {r(1)}) /\ Cardinality(S \ {r(1)}) = 1
    <3> HIDE DEF S, r
    <3> QED
      BY <1>1, <1>5, <2>2, FS_RemoveElement
  <2>4. PICK q : S \ {r(1)} = {q}
    <3> HIDE DEF S, r
    <3> QED
      BY <2>3, FS_Singleton
  <2>5. Before(q) = {r(1)} /\ Before(r(1)) = {}
    <3>1. q \in S /\ q # r(1) /\ S = {r(1), q} /\ q \in Nat /\ r(1) \in Nat
      <4> HIDE DEF S, r
      <4> QED
        BY <1>1, <2>2, <2>4
    <3> HIDE DEF S, r
    <3>2. Ahead(blobs, r(1), q) /\ ~Ahead(blobs, q, q)
      BY <2>2, <3>1 DEF Ahead
    <3> QED
      BY <2>2, <3>1, <3>2
  <2>6. Cardinality(Before(q)) = 1 /\ Cardinality(Before(r(1))) = 0
    <3> HIDE DEF Before, r
    <3> QED
      BY <2>5, FS_EmptySet, FS_Singleton
  <2>7. r(2) = CHOOSE m \in S : Cardinality(Before(m)) = 2 - 1
    BY DEF Ranked
  <2>8. r(2) = q
    <3>1. q \in S
      <4> HIDE DEF S, r
      <4> QED
        BY <2>4
    <3> HIDE DEF S, Before, r
    <3>2. r(2) \in S /\ Cardinality(Before(r(2))) = 1
      BY <2>6, <2>7, <3>1
    <3> QED
      BY <2>4, <2>6, <3>2
  <2>9. (1 .. Cardinality(S)) \cap {1, 2} = {1, 2}
    BY <1>5
  <2>10. {r(n) : n \in {1, 2}} = {r(1), r(2)}
    BY Zenon
  <2>11. S = {r(1), r(2)}
    <3> HIDE DEF S, r
    <3> QED
      BY <2>2, <2>4, <2>8
  <2> HIDE DEF r
  <2> QED
    BY <2>9, <2>10, <2>11 DEF r
<1> QED
  BY <1>2, <1>3, <1>4, <1>5

\* an item gives all the keys it holds, or none when it is not in order
LEMMA ItemGivesAll ==
  ASSUME NEW i \in Items, Legible(i), ItemOf[i].intact
  PROVE  {ServiceKeysFromDer(i)[n] : n \in DOMAIN ServiceKeysFromDer(i)}
           = IF Sound(i) THEN Held(i) ELSE {}
<1> DEFINE c == Candidate(i)
           declared == ItemOf[i].declared
           members == ItemOf[i].members
           refused == Refused(declared) \/ (~Verified(declared) /\ Refused(members))
           got == {ServiceKeysFromDer(i)[n] : n \in DOMAIN ServiceKeysFromDer(i)}
<1>1. /\ declared \in Seq(Blob) /\ members \in Seq(Blob) /\ c \in {declared, members}
      /\ Cardinality(Scalars(c)) <= 2
  BY ItemAssumption DEF Item, Candidate, Legible
<1>2. \A n \in DOMAIN declared : \E m \in DOMAIN members : members[m] = declared[n]
  BY DEF Legible
<1>3. ASSUME Verified(declared), NEW m \in DOMAIN members, members[m].kind \in {"pair", "bare", "forged"}
      PROVE  \E n \in DOMAIN declared : declared[n] = members[m]
  BY <1>3 DEF Legible, Scalars, IsScalar
<1>4. Sound(i) <=> ~refused
  <2>1. (\E b \in Blobs(i) : b.kind = "forged") <=> Refused(declared) \/ Refused(members)
    BY DEF Blobs, Refused
  <2>2. Refused(members) /\ Verified(declared) => Refused(declared)
    <3> HIDE DEF declared, members
    <3> QED
      BY <1>3 DEF Refused
  <2> QED
    BY <2>1, <2>2 DEF Sound
<1>5. CASE refused
  <2>1. ServiceKeysFromDer(i) = <<>>
    BY <1>5 DEF ServiceKeysFromDer
  <2> QED
    BY <1>4, <1>5, <2>1
<1>6. CASE ~refused
  <2> DEFINE D == (1 .. Cardinality(Scalars(c))) \cap {1, 2}
  <2>1. ServiceKeysFromDer(i) = [n \in D |-> c[Ranked(c, n)].key]
    BY <1>6 DEF ServiceKeysFromDer
  <2>2. got = {c[Ranked(c, n)].key : n \in D}
    <3> HIDE DEF D, c
    <3> QED
      BY <2>1
  <2>3. c \in Seq(Blob)
    BY <1>1
  <2>4. {Ranked(c, n) : n \in D} = Scalars(c)
    <3> HIDE DEF c
    <3> QED
      BY <1>1, <2>3, BothRanked
  <2>5. got = {c[m].key : m \in Scalars(c)}
    <3> HIDE DEF D, c, got
    <3> QED
      BY <2>2, <2>4
  <2>6. \A b \in Blobs(i) : b.kind \in {"pair", "bare", "other"}
    <3>1. \A b \in Blobs(i) : b \in Blob
      BY <1>1 DEF Blobs
    <3>2. \A b \in Blobs(i) : b.kind # "forged"
      BY <1>4, <1>6 DEF Sound
    <3> QED
      BY <3>1, <3>2 DEF Blob
  <2>7. \A m \in Scalars(c) : c[m] \in Blobs(i) /\ c[m].kind # "other"
    <3>1. \A m \in DOMAIN c : c[m] \in Blobs(i)
      BY <1>1 DEF Blobs
    <3> HIDE DEF c
    <3> QED
      BY <3>1 DEF Scalars, IsScalar
  <2>8. ASSUME NEW b \in Blobs(i), b.kind # "other" PROVE \E m \in Scalars(c) : c[m] = b
    <3>1. b.kind \in {"pair", "bare"}
      BY <2>6, <2>8
    <3>2. (\E n \in DOMAIN declared : declared[n] = b) \/ (\E m \in DOMAIN members : members[m] = b)
      BY DEF Blobs
    <3> HIDE DEF declared, members
    <3>3. \E m \in DOMAIN members : members[m] = b
      BY <1>2, <3>2
    <3>4. \E m \in Scalars(members) : members[m] = b
      BY <3>1, <3>3 DEF Scalars, IsScalar
    <3>5. CASE Verified(declared)
      <4>1. \E n \in DOMAIN declared : declared[n] = b
        BY <1>3, <3>1, <3>3, <3>5
      <4>2. c = declared
        BY <3>5 DEF Candidate, declared
      <4> HIDE DEF c
      <4> QED
        BY <3>1, <4>1, <4>2 DEF Scalars, IsScalar
    <3>6. CASE ~Verified(declared)
      <4>1. c = members
        BY <3>4, <3>6 DEF Candidate, declared, members
      <4> QED
        BY <3>4, <4>1
    <3> QED
      BY <3>5, <3>6
  <2>9. got = Held(i)
    <3> HIDE DEF got, c
    <3> QED
      BY <2>5, <2>7, <2>8 DEF Held
  <2> QED
    BY <1>4, <1>6, <2>9
<1> QED
  BY <1>5, <1>6
-----------------------------------------------------------------------------
(* The shares of a view hold one key *)

Alike(s, t) ==
  s.view = t.view /\ s.material # None /\ t.material # None => s.material = t.material

OfItsView(s) == s.material = None \/ s.material.of = s.view

\* all that is wrapped for a peer of a view is one key; and the peer that joins
\* is none that has been wrapped any
Agreeing ==
  /\ \A s, t \in shares : s.receiver = t.receiver => Alike(s, t)
  /\ \A s, t \in opened : Alike(s, t)
  /\ \A s \in shares \cup opened : OfItsView(s)
  /\ pc # "idle" /\ call.op = "join" => Me \notin circleNow

\* a share that is not as it should be is of the same view, and holds the
\* same key or none
LEMMA OddHolds ==
  ASSUME NEW v, NEW t, NEW from, NEW p, NEW s \in Odd(Good(v, t, from, p))
  PROVE  s.view = v /\ s.material \in {t, None}
BY DEF Odd, Good

\* at first a view has the one key it has
LEMMA AgreeingAtFirst == KeysInit => Agreeing
<1> SUFFICES ASSUME KeysInit PROVE Agreeing
  OBVIOUS
<1>1. PICK from \in circleNow, v \in Views :
        \E p \in circleNow \ {from} : \E odd \in Odd(Good(v, Tlk(v), p, from)) :
          shares \subseteq {odd} \cup {Good(w, Tlk(w), from, q) : w \in Views, q \in circleNow}
  BY DEF KeysInit
<1>2. PICK p \in circleNow \ {from} : \E odd \in Odd(Good(v, Tlk(v), p, from)) :
        shares \subseteq {odd} \cup {Good(w, Tlk(w), from, q) : w \in Views, q \in circleNow}
  BY <1>1
<1>3. PICK odd \in Odd(Good(v, Tlk(v), p, from)) :
        shares \subseteq {odd} \cup {Good(w, Tlk(w), from, q) : w \in Views, q \in circleNow}
  BY <1>2
<1>4. \A w, q : Good(w, Tlk(w), from, q).view = w /\ Good(w, Tlk(w), from, q).material = Tlk(w)
  BY DEF Good
<1>5. \A s \in shares : s.material \in {Tlk(s.view), None}
  BY <1>3, <1>4, OddHolds
<1>6. \A s \in shares : OfItsView(s)
  BY <1>5 DEF OfItsView, Tlk
<1> QED
  BY <1>5, <1>6 DEF Agreeing, Alike, KeysInit

\* a view that is rolled has the one new key, and what is opened, or wrapped
\* for the new peer, is what the shares hold
LEMMA AgreeingStays ==
  ASSUME KeyInv, Agreeing, [KeysNext]_keysVars
  PROVE  Agreeing'
<1>0. /\ \A s, t \in shares : s.receiver = t.receiver => Alike(s, t)
      /\ \A s, t \in opened : Alike(s, t)
      /\ \A s \in shares \cup opened : OfItsView(s)
      /\ pc # "idle" /\ call.op = "join" => Me \notin circleNow
  BY DEF Agreeing
<1>1. ASSUME UNCHANGED <<shares, opened, call, pc>>, circleNow' \subseteq circleNow \cup Devices
      PROVE  Agreeing'
  BY <1>0, <1>1 DEF Agreeing, Alike, OfItsView
<1>2. CASE JoinOther \/ AddItem \/ UNCHANGED keysVars
  BY <1>1, <1>2 DEF JoinOther, AddItem, others, session, keysVars
<1>3. CASE Roll
  <2>1. PICK v \in Views, from \in circleNow \cap Devices :
          /\ gen' = [gen EXCEPT ![v] = @ + 1]
          /\ shares' = {s \in shares : s.view # v}
                       \cup {Good(v, [Tlk(v) EXCEPT !.gen = @ + 1], from, p) : p \in circleNow}
    BY <1>3 DEF Roll
  <2> DEFINE t == [Tlk(v) EXCEPT !.gen = @ + 1]
  <2>2. \A p : Good(v, t, from, p).view = v /\ Good(v, t, from, p).material = t
    BY DEF Good
  <2>3. t.of = v
    BY DEF Tlk
  <2> HIDE DEF t
  <2>4. \A s \in shares' : (s.view = v /\ s.material = t) \/ (s.view # v /\ s \in shares)
    BY <2>1, <2>2 DEF t
  <2>5. /\ \A s, u \in shares' : s.receiver = u.receiver => Alike(s, u)
        /\ \A s \in shares' : OfItsView(s)
    BY <1>0, <2>3, <2>4 DEF Alike, OfItsView
  <2>6. UNCHANGED <<opened, call, pc, circleNow>>
    BY <1>3 DEF Roll, session
  <2> QED
    BY <1>0, <2>5, <2>6 DEF Agreeing, Alike, OfItsView
<1>4. CASE Recover \/ Refresh \/ ReadDirectory \/ ReadView
  <2>1. UNCHANGED <<shares, opened, circleNow>>
    BY <1>4 DEF Recover, Refresh, ReadDirectory, ReadView, others
  <2>2. (pc' # "idle" /\ call'.op = "join") => (pc # "idle" /\ call.op = "join")
    <3>1. CASE Recover \/ Refresh \/ ReadDirectory
      BY <3>1 DEF Recover, Refresh, ReadDirectory
    <3>2. CASE ReadView
      <4>1. pc # "idle" /\ \E v, found : call' = [call EXCEPT !.left = @ \ {v}, !.got = @ \cup found]
        BY <3>2 DEF ReadView
      <4>2. call'.op = call.op
        BY <4>1
      <4> QED
        BY <4>1, <4>2
    <3> QED
      BY <1>4, <3>1, <3>2
  <2> QED
    BY <1>0, <2>1, <2>2 DEF Agreeing, Alike, OfItsView
<1>5. CASE Begun
  <2>1. PICK op \in {"resume", "service", "join"}, as \in Names, views \in SUBSET Views :
          Begin(op, as, views) /\ (op = "join" => Me \notin circleNow)
    BY <1>5 DEF Begun, ResumeKeys, ServiceKeys, Join, Names
  <2>2. /\ call' = [op |-> op, as |-> as, begun |-> changes, left |-> views, got |-> {}]
        /\ UNCHANGED <<shares, opened, circleNow>>
    BY <2>1 DEF Begin, others
  <2>3. call'.op = op
    BY <2>2
  <2> QED
    BY <1>0, <2>1, <2>2, <2>3 DEF Agreeing, Alike, OfItsView
<1>6. CASE FetchShares
  <2>1. /\ pc = "shares" /\ opened' = {Unwrapped(s) : s \in {x \in shares : Plaintext(x)}}
        /\ UNCHANGED <<shares, call, circleNow>>
    BY <1>6 DEF FetchShares, others
  <2>2. \A o \in opened' : \E s \in shares :
          s.receiver = call.as /\ o.view = s.view /\ o.material = s.material
    BY <2>1, UnwrappedIs DEF Plaintext
  <2>3. (\A o, u \in opened' : Alike(o, u)) /\ \A o \in opened' : OfItsView(o)
    BY <1>0, <2>2 DEF Alike, OfItsView
  <2> QED
    BY <1>0, <2>1, <2>3 DEF Agreeing, Alike, OfItsView
<1>7. CASE UseKeys \/ ReadService \/ KeysFail
  <2>1. UNCHANGED shares /\ pc' = "idle" /\ opened' = {}
    BY <1>7 DEF UseKeys, ReadService, KeysFail, Finish, others
  <2> QED
    BY <1>0, <2>1 DEF Agreeing, Alike, OfItsView
<1>8. CASE JoinCircle
  <2>1. /\ pc = "joining" /\ shares' = shares \cup {Readdressed(s) : s \in opened}
        /\ pc' = "idle" /\ opened' = {}
    BY <1>8 DEF JoinCircle, Finish
  <2>2. \A s \in shares : s.receiver # Me
    BY <1>0, <2>1 DEF KeyInv, ShareRight
  <2>3. \A s \in shares' :
          \/ s \in shares
          \/ s.receiver = Me /\ \E o \in opened : s.view = o.view /\ s.material = o.material
    BY <2>1 DEF Readdressed, Good
  <2>4. /\ \A s, t \in shares' : s.receiver = t.receiver => Alike(s, t)
        /\ \A s \in shares' : OfItsView(s)
    BY <1>0, <2>2, <2>3 DEF Alike, OfItsView
  <2> QED
    BY <2>1, <2>4 DEF Agreeing, Alike, OfItsView
<1> QED
  BY <1>2, <1>3, <1>4, <1>5, <1>6, <1>7, <1>8 DEF KeysNext, Step

-----------------------------------------------------------------------------
(* What a resume has read *)

\* what a peer reaches of some items of some views
Reachable(p, views, some) ==
  UNION {Held(i) : i \in {j \in some : /\ ItemOf[j].view \in views /\ Sound(j)
                                       /\ Has(p, ItemOf[j].view)}}

\* no key that is not reached, and every one of an item that stays listed
Between(got, p, views) ==
  got \subseteq Reachable(p, views, items) /\ Reachable(p, views, Listed) \subseteq got

\* a resume that nothing disturbs and that knows who sent its peer the shares
\* has opened what can be, and has the keys of the views it is done with
Reading ==
  /\ DOMAIN call = {"op", "as", "begun", "left", "got"}
  /\ call.left \subseteq Views
  /\ pc # "idle" => call.as \in Names
  /\ call.op = "resume" /\ pc \in {"directory", "shares"} => call.left = Views /\ call.got = {}
  /\ call.op = "resume" /\ pc = "reading" /\ Undisturbed /\ Senders(call.as) \subseteq circleRead =>
       /\ opened = OpenedBy(call.as)
       /\ Between(call.got, call.as, Views \ call.left)

\* a share that holds a key gives a key ring
LEMMA RingUsed == ASSUME NEW s, s.material # None PROVE Unwrapped(s).ring # <<>>
<1> DEFINE ring == Keyring(s)
<1>1. Tlk(s.view) \in DOMAIN ring
  BY DEF Keyring
<1> HIDE DEF ring
<1>2. ring # <<>>
  <2>1. DOMAIN <<>> = {}
    OBVIOUS
  <2> QED
    BY <1>1, <2>1
<1> QED
  BY <1>2 DEF Unwrapped, ring

\* a key ring reads a view's items if the share it is from holds the view's key
LEMMA RingReads ==
  ASSUME NEW s \in shares, s.material # None, NEW i \in Items, ItemOf[i].view = s.view
  PROVE  Readable(i, Unwrapped(s).ring) <=> s.material = Tlk(s.view) /\ ItemOf[i].intact
<1> DEFINE ring == Keyring(s)
           k == ClassKey(i)
           D == {Tlk(s.view)} \cup {Class(s.view, c) : c \in {c \in Slots : s.material = Tlk(s.view)}}
<1>1. Unwrapped(s).ring = ring
  BY DEF Unwrapped
<1>2. ring = [u \in D |-> IF u.kind = "tlk" THEN s.material ELSE u]
  BY DEF Keyring
<1>3. Tlk(s.view) \in DOMAIN ring /\ DOMAIN ring = D
  <2> HIDE DEF ring
  <2> QED
    BY <1>2
<1>4. ItemOf[i].slot \in Slots
  BY ItemAssumption DEF Item
<1>5. k = Class(s.view, ItemOf[i].slot) /\ k.kind = ItemOf[i].slot /\ k.kind # "tlk" /\ k # Tlk(s.view)
  BY <1>4 DEF ClassKey, Class, Tlk, Slots
<1>6. k \in D <=> s.material = Tlk(s.view)
  BY <1>4, <1>5
<1>7. k \in D => ring[k] = k
  <2> HIDE DEF ring, k, D
  <2> QED
    BY <1>2, <1>5
<1> HIDE DEF ring, k, D
<1> QED
  BY <1>1, <1>3, <1>6, <1>7 DEF Readable, k

\* what is found in one view is what the peer reaches in it
LEMMA ViewGivesAll ==
  ASSUME KeyInv, Agreeing, items \subseteq Items, \A i \in Items : Legible(i),
         NEW p, opened = OpenedBy(p), NEW v \in Views,
         NEW found \in IF Rings(v) = {} THEN {{}} ELSE UNION {KeysIn(v, r) : r \in Rings(v)}
  PROVE  Between(found, p, {v})
<1> DEFINE usable == {s \in shares : Opens(s, p) /\ s.view = v /\ s.material # None}
<1>1. \A s, t \in usable : s.material = t.material
  BY DEF Agreeing, Alike, Opens
<1>2. ASSUME NEW r \in Rings(v) PROVE \E s \in usable : Unwrapped(s).ring = r
  <2>1. PICK o \in opened : o.view = v /\ o.ring = r /\ r # <<>>
    BY DEF Rings
  <2>2. PICK s \in shares : Opens(s, p) /\ o = Unwrapped(s)
    BY DEF OpenedBy
  <2>3. s.view = v /\ s.material # None
    BY <2>1, <2>2 DEF Unwrapped
  <2> QED
    BY <2>1, <2>2, <2>3
<1>3. Has(p, v) <=> \E s \in usable : s.material = Tlk(v)
  <2>1. gen[v] \in 0 .. MaxChanges
    BY DEF KeyInv
  <2>2. Tlk(v) # None /\ Tlk(v).of = v
    BY <2>1, KeyType DEF Tlk
  <2>3. \A s \in shares : s.material = Tlk(v) => s.view = v
    BY <2>2 DEF Agreeing, OfItsView
  <2> QED
    BY <2>2, <2>3 DEF Has
<1>4. CASE Rings(v) = {}
  <2>1. ASSUME NEW s \in usable PROVE FALSE
    <3>1. Unwrapped(s).ring # <<>>
      BY RingUsed DEF Unwrapped
    <3>2. Unwrapped(s) \in opened /\ Unwrapped(s).view = v
      BY UnwrappedIs DEF OpenedBy
    <3> QED
      BY <1>4, <3>1, <3>2 DEF Rings
  <2>2. ~Has(p, v)
    BY <1>3, <2>1
  <2> QED
    BY <1>4, <2>2 DEF Reachable, Between
<1>5. CASE Rings(v) # {}
  <2>1. PICK r \in Rings(v) : found \in KeysIn(v, r)
    BY <1>5
  <2>2. PICK s \in usable : Unwrapped(s).ring = r
    BY <1>2
  <2>3. Has(p, v) <=> s.material = Tlk(v)
    BY <1>1, <1>3
  <2>4. \A i \in items : ItemOf[i].view = v =>
          (Readable(i, r) <=> Has(p, v) /\ ItemOf[i].intact)
    BY <2>2, <2>3, RingReads
  <2> DEFINE gives(i) == {ServiceKeysFromDer(i)[n] : n \in DOMAIN ServiceKeysFromDer(i)}
             good(some) == {j \in some : ItemOf[j].view \in {v} /\ Sound(j) /\ Has(p, ItemOf[j].view)}
  <2>5. \A i \in Items : ItemOf[i].intact => gives(i) = IF Sound(i) THEN Held(i) ELSE {}
    BY ItemGivesAll
  <2>6. PICK kept \in ReadableItems(v, r) : found = UNION {gives(i) : i \in kept}
    BY <2>1 DEF KeysIn, KeysOf
  <2> HIDE DEF gives
  <2>7. \A i \in kept : i \in items /\ ItemOf[i].view = v /\ Has(p, v) /\ ItemOf[i].intact
    BY <2>4, <2>6 DEF ReadableItems, Decrypted
  <2>8. found \subseteq Reachable(p, {v}, items)
    <3>1. \A i \in kept : gives(i) # {} => i \in good(items) /\ gives(i) = Held(i)
      BY <2>5, <2>7
    <3> HIDE DEF good
    <3>2. UNION {gives(i) : i \in kept} \subseteq UNION {Held(i) : i \in good(items)}
      BY <3>1
    <3> QED
      BY <2>6, <3>2 DEF Reachable, good
  <2>9. good(Listed) \subseteq kept /\ \A i \in good(Listed) : gives(i) = Held(i)
    <3> SUFFICES ASSUME NEW i \in good(Listed) PROVE i \in kept /\ gives(i) = Held(i)
      OBVIOUS
    <3>1. /\ i \in items /\ ItemOf[i].acct # None /\ ItemOf[i].view = v /\ Sound(i) /\ Has(p, v)
          /\ \A j \in items : ItemOf[j].intact /\ SameAcct(i, j) => j = i
      BY DEF Listed
    <3>2. ItemOf[i].intact
      BY <3>1 DEF Sound
    <3>3. i \in Decrypted(v, r)
      BY <2>4, <3>1, <3>2 DEF Decrypted
    <3>4. PICK j \in kept : SameAcct(i, j)
      BY <2>6, <3>3 DEF ReadableItems
    <3>5. j = i
      BY <2>7, <3>1, <3>4
    <3> QED
      BY <2>5, <3>1, <3>2, <3>4, <3>5
  <2>10. Reachable(p, {v}, Listed) \subseteq found
    <3> HIDE DEF good
    <3>1. UNION {Held(i) : i \in good(Listed)} \subseteq UNION {gives(i) : i \in kept}
      BY <2>9
    <3> QED
      BY <2>6, <3>1 DEF Reachable, good
  <2> QED
    BY <2>8, <2>10 DEF Between
<1> QED
  BY <1>4, <1>5

\* nothing is reached of no views, and of some as of each
LEMMA ReachableAdds ==
  ASSUME NEW p
  PROVE  /\ Between({}, p, {})
         /\ \A V, W, f, g : Between(f, p, V) /\ Between(g, p, W) => Between(f \cup g, p, V \cup W)
<1>1. \A some : Reachable(p, {}, some) = {}
  BY DEF Reachable
<1>2. \A V, W, some :
        Reachable(p, V \cup W, some) = Reachable(p, V, some) \cup Reachable(p, W, some)
  BY DEF Reachable
<1> QED
  BY <1>1, <1>2 DEF Between

\* no call has begun
LEMMA ReadingAtFirst == KeysInit => Reading
BY DEF KeysInit, NoCall, Reading

\* when the call is over there is nothing to say
LEMMA OverReads == ASSUME pc' = "idle", call' = NoCall PROVE Reading'
BY DEF NoCall, Reading

\* every step leaves a resume with the keys of the views it is done with
LEMMA ReadingStays ==
  ASSUME KeyInv, Agreeing, items \subseteq Items, \A i \in Items : Legible(i),
         Reading, [KeysNext]_keysVars
  PROVE  Reading'
<1>0. /\ DOMAIN call = {"op", "as", "begun", "left", "got"}
      /\ call.left \subseteq Views /\ (pc # "idle" => call.as \in Names)
      /\ call.op = "resume" /\ pc \in {"directory", "shares"} => call.left = Views /\ call.got = {}
      /\ call.op = "resume" /\ pc = "reading" /\ Undisturbed /\ Senders(call.as) \subseteq circleRead =>
           /\ opened = OpenedBy(call.as)
           /\ Between(call.got, call.as, Views \ call.left)
      /\ call.begun \in Nat /\ changes \in Nat /\ call.begun <= changes
  BY DEF Reading, KeyInv
<1>1. CASE JoinOther \/ Roll \/ AddItem
  <2>1. UNCHANGED <<call, pc>> /\ changes' = changes + 1
    BY <1>1 DEF JoinOther, Roll, AddItem, Change, session
  <2>2. ~Undisturbed'
    BY <1>0, <2>1 DEF Undisturbed
  <2> QED
    BY <1>0, <2>1, <2>2 DEF Reading
<1>a. ASSUME UNCHANGED others
      PROVE  \A p, V, f : /\ (OpenedBy(p))' = OpenedBy(p)
                          /\ (Between(f, p, V))' <=> Between(f, p, V)
                          /\ (Senders(p))' = Senders(p)
  BY <1>a DEF others, OpenedBy, Opens, Unwrapped, Keyring, Tlk, Class, Between, Reachable, Has,
              Senders, Held, Sound, Blobs, Listed, SameAcct
<1>2. CASE UNCHANGED keysVars
  BY <1>0, <1>2, <1>a DEF keysVars, session, Reading, Undisturbed, others
<1>3. CASE Recover \/ Refresh
  <2>1. pc = "idle" /\ UNCHANGED <<pc, call>>
    BY <1>3 DEF Recover, Refresh
  <2> QED
    BY <1>0, <2>1 DEF Reading
<1>4. CASE Begun
  <2>1. PICK op \in {"resume", "service", "join"}, as \in Names, views \in SUBSET Views :
          Begin(op, as, views) /\ (op = "resume" => views = Views)
    BY <1>4 DEF Begun, ResumeKeys, ServiceKeys, Join, Names
  <2>2. /\ call' = [op |-> op, as |-> as, begun |-> changes, left |-> views, got |-> {}]
        /\ pc' \in {"directory", "shares"}
    BY <2>1 DEF Begin
  <2>3. DOMAIN call' = {"op", "as", "begun", "left", "got"} /\ call'.op = op /\ call'.as = as /\ call'.left = views /\ call'.got = {}
    BY <2>2
  <2> QED
    BY <2>1, <2>2, <2>3 DEF Reading
<1>5. CASE ReadDirectory
  <2>1. pc = "directory" /\ pc' = "shares" /\ call' = call
    BY <1>5 DEF ReadDirectory
  <2> QED
    BY <1>0, <2>1 DEF Reading
<1>6. CASE FetchShares
  <2>1. /\ pc = "shares" /\ opened' = {Unwrapped(s) : s \in {x \in shares : Plaintext(x)}}
        /\ pc' = (IF call.op = "join" THEN "joining" ELSE "reading")
        /\ UNCHANGED others /\ UNCHANGED <<call, circleRead>>
    BY <1>6 DEF FetchShares
  <2>2. ASSUME Senders(call.as) \subseteq circleRead PROVE opened' = OpenedBy(call.as)
    <3>1. {x \in shares : Plaintext(x)} = {x \in shares : Opens(x, call.as)}
      BY <2>2, KnownOpens
    <3> QED
      BY <2>1, <3>1 DEF OpenedBy
  <2>3. Views \ Views = {}
    OBVIOUS
  <2>4. call.op = "resume" => Between(call.got, call.as, Views \ call.left)
    BY <1>0, <2>1, <2>3, ReachableAdds
  <2>5. ASSUME (Senders(call.as))' \subseteq circleRead', call.op = "resume"
        PROVE  opened' = (OpenedBy(call.as))' /\ (Between(call.got, call.as, Views \ call.left))'
    <3>1. /\ (OpenedBy(call.as))' = OpenedBy(call.as)
          /\ (Between(call.got, call.as, Views \ call.left))'
               <=> Between(call.got, call.as, Views \ call.left)
          /\ (Senders(call.as))' = Senders(call.as)
      BY <2>1 DEF others, OpenedBy, Opens, Unwrapped, Keyring, Tlk, Class, Between, Reachable, Has,
                  Senders, Held, Sound, Blobs, Listed, SameAcct
    <3> QED
      BY <2>1, <2>2, <2>4, <2>5, <3>1
  <2> QED
    BY <1>0, <2>1, <2>5 DEF Reading
<1>7. CASE ReadView
  <2>1. PICK v \in call.left :
          \E found \in IF Rings(v) = {} THEN {{}} ELSE UNION {KeysIn(v, r) : r \in Rings(v)} :
            call' = [call EXCEPT !.left = @ \ {v}, !.got = @ \cup found]
    BY <1>7 DEF ReadView
  <2>2. PICK found \in IF Rings(v) = {} THEN {{}} ELSE UNION {KeysIn(v, r) : r \in Rings(v)} :
            call' = [call EXCEPT !.left = @ \ {v}, !.got = @ \cup found]
    BY <2>1
  <2>3. /\ pc = "reading" /\ call.op = "resume" /\ UNCHANGED others
        /\ UNCHANGED <<pc, opened, circleRead>>
    BY <1>7 DEF ReadView
  <2>4. /\ DOMAIN call' = DOMAIN call /\ UNCHANGED <<call.op, call.as, call.begun>>
        /\ call'.left = call.left \ {v} /\ call'.got = call.got \cup found
    BY <1>0, <2>2
  <2>5. v \in Views /\ Views \ (call.left \ {v}) = (Views \ call.left) \cup {v}
    BY <1>0, <2>1
  <2>6. ASSUME Undisturbed, Senders(call.as) \subseteq circleRead
        PROVE  /\ opened = OpenedBy(call.as)
               /\ Between(call'.got, call.as, Views \ call'.left)
    <3>1. opened = OpenedBy(call.as) /\ Between(call.got, call.as, Views \ call.left)
      BY <1>0, <2>3, <2>6
    <3>2. Between(found, call.as, {v})
      BY <2>2, <2>5, <3>1, ViewGivesAll
    <3>3. Between(call'.got, call.as, (Views \ call.left) \cup {v})
      BY <2>4, <3>1, <3>2, ReachableAdds
    <3> QED
      BY <2>4, <2>5, <3>1, <3>3
  <2>7. Undisturbed' => Undisturbed
    BY <2>3, <2>4 DEF Undisturbed, others
  <2>8. ASSUME Undisturbed', (Senders(call.as))' \subseteq circleRead'
        PROVE  opened' = (OpenedBy(call.as))' /\ (Between(call.got, call.as, Views \ call.left))'
    <3>1. Senders(call.as) \subseteq circleRead
      BY <2>3, <2>4, <2>8 DEF others, Senders
    <3>2. opened' = (OpenedBy(call.as))'
      BY <2>3, <2>4, <2>6, <2>7, <2>8, <3>1, <1>a
    <3>3. \A f, q, V : (Between(f, q, V))' <=> Between(f, q, V)
      BY <2>3, <1>a
    <3>4. Between(call'.got, call.as, Views \ call'.left)
      BY <2>6, <2>7, <2>8, <3>1
    <3> QED
      BY <2>4, <3>2, <3>3, <3>4 DEF Between
  <2>9. call'.left \subseteq Views /\ call'.as \in Names
    BY <1>0, <2>3, <2>4
  <2> QED
    BY <1>0, <2>3, <2>4, <2>8, <2>9 DEF Reading
<1>8. CASE UseKeys \/ ReadService \/ KeysFail \/ JoinCircle
  <2>1. pc' = "idle" /\ call' = NoCall
    BY <1>8 DEF UseKeys, ReadService, KeysFail, JoinCircle, Finish
  <2> QED
    BY <2>1, OverReads
<1> QED
  BY <1>1, <1>2, <1>3, <1>4, <1>5, <1>6, <1>7, <1>8 DEF KeysNext, Step

-----------------------------------------------------------------------------
(* The theorem *)

\* all the views together are what a peer reaches
LEMMA ReachesItems ==
  ASSUME items \subseteq Items, NEW p, NEW some \in SUBSET items
  PROVE  ReachOf(p, some) = Reachable(p, Views, some)
<1>1. \A i \in items : ItemOf[i].view \in Views
  BY ItemAssumption DEF Item
<1> QED
  BY <1>1 DEF ReachOf, Reachable, Held

\* A resume that nothing disturbs, by a client that knows who sent its peer the
\* shares, ends with keys the peer can reach and no other, and with all those
\* of the items no other of the same acct can replace: whichever views, items
\* and peers there are, and whatever shares, class keys and items beside those
\* cannot be read, so long as items are laid out as they are expected.
THEOREM ResumeReadsAllKeys ==
  ASSUME \A i \in Items : Legible(i)
  PROVE  KeysSpec => ResumeReadsAll
<1>1. KeysInit => Agreeing /\ Reading
  BY AgreeingAtFirst, ReadingAtFirst
<1>2. KeyInv /\ items \subseteq Items /\ Agreeing /\ Reading /\ [KeysNext]_keysVars => Agreeing' /\ Reading'
  BY AgreeingStays, ReadingStays
<1>3. KeyInv /\ items \subseteq Items /\ Reading /\ [KeysNext]_keysVars => [AllKeysRead]_keysVars
  <2> SUFFICES ASSUME KeyInv, items \subseteq Items, Reading, Resumed, Undisturbed,
                      Senders(call.as) \subseteq circleRead
               PROVE  keys' \subseteq Reach(call.as) /\ ReachIn(call.as, Listed) \subseteq keys'
    BY DEF AllKeysRead
  <2>1. pc = "reading" /\ call.op = "resume" /\ call.left = {} /\ keys' = call.got
    BY DEF Resumed
  <2>2. call.as \in Names /\ Between(call.got, call.as, Views \ call.left)
    BY <2>1 DEF Reading
  <2>3. Views \ call.left = Views /\ Listed \subseteq items
    BY <2>1 DEF Listed
  <2>4. /\ Reach(call.as) = Reachable(call.as, Views, items)
        /\ ReachIn(call.as, Listed) = Reachable(call.as, Views, Listed)
    BY <2>2, <2>3, ReachesItems, ReachByShare DEF Reach
  <2> QED
    BY <2>1, <2>2, <2>3, <2>4 DEF Between
<1> QED
  BY <1>1, <1>2, <1>3, Invariant, ItemsNamed, PTL DEF KeysSpec, ResumeReadsAll
=============================================================================
